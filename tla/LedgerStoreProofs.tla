------------------------- MODULE LedgerStoreProofs -------------------------
(***************************************************************************)
(* What the backends keep of the contract of a LedgerStore: load returns a *)
(* state the ledger was in, commit is a compare and swap with true answers.*)
(*                                                                         *)
(* The SQL backend, for every dialect, any number of stores, callers and   *)
(* failures.  A handle is only open where a load reads one snapshot,       *)
(* so what a load returns is what the log holds for its version.  From the *)
(* bump to the end of the transaction the version row is locked, so the    *)
(* database stays at the version the caller loaded, and what it stages is  *)
(* the database with its own write added.                                  *)
(*                                                                         *)
(* The file backend, for any number of processes, writers, crashes, losses *)
(* of power and stolen locks.  Until a lockfile is stolen from a writer in *)
(* the critical section (LockInv) that writer owns the lockfile, so nobody *)
(* else is there.  A version names one content among the writers that are  *)
(* under way, because only a rename changes the ledger and it advances the *)
(* version; so a comparison that succeeds shows that the ledger is what the*)
(* writer loaded, and it stays so until the rename.  A write is            *)
(* acknowledged after both the ledger and the synced directory have it.    *)
(* Until a writer opens the temporary file another one uses (TempInv) no   *)
(* file has two names and whoever renames one has written and synced it.   *)
(***************************************************************************)
EXTENDS FileLedger, SqlLedger, SequenceTheorems, TLAPS

-----------------------------------------------------------------------------
(* The SQL backend.                                                        *)

Rewriting == {"delete", "insert", "commit"}

\* The log ends in the database.
LogInv ==
    /\ Len(log) = db.version + 1
    /\ log[db.version + 1] = db.tables
    /\ \A t \in Tables : db.tables[t] = db.tables["schedules"]

\* Every open handle has repeatable loads.
HandleInv == \A h \in Handles : handle[h] = "open" => Repeatable

\* What a caller has read so far.
ReadInv(c) ==
    /\ pc[c] = "select" =>
          /\ snap[c].version <= db.version
          /\ got[c].version = snap[c].version
          /\ snap[c].tables = log[snap[c].version + 1]
          /\ \A i \in 1 .. 4 : i < at[c] =>
                got[c].tables[Reading[i]] = snap[c].tables[Reading[i]]
    /\ pc[c] \in {"loaded", "await"} \cup InCommit =>
          /\ got[c].version <= db.version
          /\ got[c].tables = log[got[c].version + 1]

\* What a caller has staged so far.
StageInv(c) ==
    /\ pc[c] \in Rewriting => rowLock = c /\ got[c].version = db.version
    /\ pc[c] = "delete" =>
          \A i \in 1 .. 4 : i < at[c] => staged[c][Deleting[i]] = {}
    /\ pc[c] = "insert" =>
          \A i \in 1 .. 4 :
              staged[c][Inserting[i]] = IF i < at[c]
                                        THEN NextOf(c).tables[Inserting[i]]
                                        ELSE {}
    /\ pc[c] = "commit" => staged[c] = NextOf(c).tables

\* Which writes are in the database.
MarkInv(c) ==
    /\ pc[c] # "idle" => handle[HandleOf[c]] = "open"
    /\ pc[c] = "acked" => \A t \in Tables : c \in db.tables[t]
    /\ pc[c] \notin {"acked", "thrown"} =>
          \A t \in Tables : c \notin db.tables[t]

\* The mutex of an SQLite handle: its queue holds, once each, the callers
\* that wait for it or have it, and the one that has it is first.
Inside == InLoad \cup InCommit
Section == {"load", "await"} \cup Inside

MutexInv ==
    server.dialect = "sqlite" =>
        /\ \A h \in Handles : \A i \in 1 .. Len(queue[h]) :
              /\ pc[queue[h][i]] \in Section
              /\ HandleOf[queue[h][i]] = h
              /\ \A j \in 1 .. Len(queue[h]) :
                    queue[h][i] = queue[h][j] => i = j
        /\ \A c \in Callers : pc[c] \in Section =>
              \E i \in 1 .. Len(queue[HandleOf[c]]) : queue[HandleOf[c]][i] = c
        /\ \A c \in Callers : pc[c] \in Inside => queue[HandleOf[c]][1] = c

IInv ==
    /\ TypeOK /\ LogInv /\ HandleInv /\ MutexInv
    /\ \A c \in Callers : ReadInv(c) /\ StageInv(c) /\ MarkInv(c)

-----------------------------------------------------------------------------
\* What a caller reads and writes statement by statement is every table.
LEMMA Orders ==
    /\ \A i \in 1 .. 4 : /\ Reading[i] \in Tables
                         /\ Deleting[i] \in Tables
                         /\ Inserting[i] \in Tables
    /\ \A t \in Tables : /\ \E i \in 1 .. 4 : Reading[i] = t
                         /\ \E i \in 1 .. 4 : Deleting[i] = t
                         /\ \E i \in 1 .. 4 : Inserting[i] = t
    /\ \A i, j \in 1 .. 4 : i # j => /\ Reading[i] # Reading[j]
                                     /\ Deleting[i] # Deleting[j]
                                     /\ Inserting[i] # Inserting[j]
    /\ Len(Reading) = 4 /\ Len(Deleting) = 4 /\ Len(Inserting) = 4
<1>1. Len(Reading) = 4 /\ Len(Deleting) = 4 /\ Len(Inserting) = 4
  BY DEF Reading, Deleting, Inserting
<1>2. \A i \in 1 .. 4 : i = 1 \/ i = 2 \/ i = 3 \/ i = 4
  OBVIOUS
<1>3. /\ Reading[1] = "schedules" /\ Reading[2] = "epochs"
      /\ Reading[3] = "invocations" /\ Reading[4] = "quarantine"
  BY DEF Reading
<1>4. /\ Deleting[1] = "invocations" /\ Deleting[2] = "epochs"
      /\ Deleting[3] = "schedules" /\ Deleting[4] = "quarantine"
  BY DEF Deleting
<1>5. /\ Inserting[1] = "schedules" /\ Inserting[2] = "epochs"
      /\ Inserting[3] = "invocations" /\ Inserting[4] = "quarantine"
  BY DEF Inserting
<1>6. \A i \in 1 .. 4 : /\ Reading[i] \in Tables
                        /\ Deleting[i] \in Tables
                        /\ Inserting[i] \in Tables
  BY <1>2, <1>3, <1>4, <1>5 DEF Tables
<1>7. \A t \in Tables : /\ \E i \in 1 .. 4 : Reading[i] = t
                        /\ \E i \in 1 .. 4 : Deleting[i] = t
                        /\ \E i \in 1 .. 4 : Inserting[i] = t
  <2>1. 1 \in 1 .. 4 /\ 2 \in 1 .. 4 /\ 3 \in 1 .. 4 /\ 4 \in 1 .. 4
    OBVIOUS
  <2> QED
    BY <2>1, <1>3, <1>4, <1>5, Zenon DEF Tables
<1>8. \A i, j \in 1 .. 4 : i # j => /\ Reading[i] # Reading[j]
                                    /\ Deleting[i] # Deleting[j]
                                    /\ Inserting[i] # Inserting[j]
  BY <1>2, <1>3, <1>4, <1>5
<1> QED
  BY <1>1, <1>6, <1>7, <1>8

LEMMA InvInit == Init => IInv
<1> SUFFICES ASSUME Init PROVE IInv
  OBVIOUS
<1>1. Nothing \in Contents /\ Empty \in Databases
  BY DEF Nothing, Empty, Contents, Databases
<1>2. log \in Seq(Contents) /\ Len(log) = 1 /\ log[1] = Nothing
  BY <1>1 DEF Init
<1>3. TypeOK
  BY <1>1, <1>2, MaxFaultsAssumption DEF Init, TypeOK, Labels
<1>4. LogInv
  <2>1. db.version = 0 /\ db.tables = Nothing
    BY DEF Init, Empty
  <2>2. \A t \in Tables : Nothing[t] = {} /\ Nothing["schedules"] = {}
    BY DEF Nothing, Tables
  <2>3. db.version + 1 = 1
    BY <2>1
  <2>4. log[db.version + 1] = db.tables /\ Len(log) = db.version + 1
    BY <1>2, <2>1, <2>3
  <2>5. \A t \in Tables : db.tables[t] = db.tables["schedules"]
    BY <2>1, <2>2
  <2> QED
    BY <2>4, <2>5 DEF LogInv
<1>5. HandleInv
  BY DEF Init, HandleInv
<1>6. \A c \in Callers : ReadInv(c) /\ StageInv(c) /\ MarkInv(c)
  BY DEF Init, ReadInv, StageInv, MarkInv, InCommit, Rewriting, Empty, Nothing
<1>7. MutexInv
  BY DEF Init, MutexInv, Section, Inside, InLoad, InCommit
<1> QED
  BY <1>3, <1>4, <1>5, <1>6, <1>7 DEF IInv

-----------------------------------------------------------------------------
(* The mutex.                                                              *)

\* Asking for it.
LEMMA EnterKeeps ==
    ASSUME TypeOK, MutexInv, NEW c \in Callers, NEW l \in {"load", "await"},
           pc[c] \notin Section, pc' = [pc EXCEPT ![c] = l], server' = server,
           Enter(c)
    PROVE  queue' \in [Handles -> Seq(Callers)] /\ MutexInv'
<1>1. CASE server.dialect # "sqlite"
  BY <1>1 DEF TypeOK, Enter, MutexInv
<1>2. CASE server.dialect = "sqlite"
  <2> DEFINE h == HandleOf[c]
             q == queue[h]
  <2>1. /\ h \in Handles /\ q \in Seq(Callers)
        /\ queue' = [queue EXCEPT ![h] = Append(q, c)]
    BY <1>2, HandleOfAssumption DEF TypeOK, Enter
  <2>2. /\ Append(q, c) \in Seq(Callers) /\ Len(Append(q, c)) = Len(q) + 1
        /\ Len(q) \in Nat
        /\ \A i \in 1 .. Len(q) : Append(q, c)[i] = q[i] /\ q[i] \in Callers
        /\ Append(q, c)[Len(q) + 1] = c
    BY <2>1
  <2>3. queue' \in [Handles -> Seq(Callers)]
    BY <2>1, <2>2 DEF TypeOK
  <2>4. \A g \in Handles : g # h => queue'[g] = queue[g]
    BY <2>1 DEF TypeOK
  <2>5. queue'[h] = Append(q, c)
    BY <2>1 DEF TypeOK
  <2>6. \A i \in 1 .. Len(q) : q[i] # c
    BY <1>2, <2>1 DEF MutexInv
  <2>7. \A d \in Callers : pc'[d] = IF d = c THEN l ELSE pc[d]
    BY DEF TypeOK
  <2>8. l \in Section /\ l \notin Inside
    BY DEF Section, Inside, InLoad, InCommit
  <2>9. ASSUME NEW g \in Handles, NEW i \in 1 .. Len(queue'[g])
        PROVE  /\ pc'[queue'[g][i]] \in Section
               /\ HandleOf[queue'[g][i]] = g
               /\ \A j \in 1 .. Len(queue'[g]) :
                     queue'[g][i] = queue'[g][j] => i = j
    <3>1. CASE g # h
      <4>1. queue'[g] = queue[g] /\ queue[g][i] \in Callers
        BY <2>4, <2>9, <3>1 DEF TypeOK
      <4> QED
        BY <1>2, <2>7, <2>8, <2>9, <4>1 DEF MutexInv
    <3>2. CASE g = h
      <4>1. i \in 1 .. Len(q) \/ i = Len(q) + 1
        BY <2>2, <2>5, <2>9, <3>2
      <4>2. CASE i \in 1 .. Len(q)
        BY <1>2, <2>1, <2>2, <2>5, <2>6, <2>7, <2>8, <3>2, <4>2 DEF MutexInv
      <4>3. CASE i = Len(q) + 1
        BY <1>2, <2>1, <2>2, <2>5, <2>6, <2>7, <2>8, <3>2, <4>3 DEF MutexInv
      <4> QED
        BY <4>1, <4>2, <4>3
    <3> QED
      BY <3>1, <3>2
  <2>10. ASSUME NEW d \in Callers, pc'[d] \in Section
         PROVE  \E i \in 1 .. Len(queue'[HandleOf[d]]) :
                    queue'[HandleOf[d]][i] = d
    <3>1. HandleOf[d] \in Handles
      BY HandleOfAssumption
    <3>2. CASE d = c
      <4>1. Len(q) + 1 \in 1 .. Len(queue'[h])
        BY <2>2, <2>5
      <4> QED
        BY <2>2, <2>5, <3>2, <4>1
    <3>3. CASE d # c
      <4>1. PICK i \in 1 .. Len(queue[HandleOf[d]]) : queue[HandleOf[d]][i] = d
        BY <1>2, <2>7, <2>10, <3>3 DEF MutexInv
      <4>2. i \in 1 .. Len(queue'[HandleOf[d]]) /\ queue'[HandleOf[d]][i] = d
        <5>1. CASE HandleOf[d] = h
          BY <2>2, <2>5, <4>1, <5>1, SMTT(30)
        <5>2. CASE HandleOf[d] # h
          BY <2>4, <3>1, <4>1, <5>2
        <5> QED
          BY <5>1, <5>2
      <4> QED
        BY <4>2
    <3> QED
      BY <3>2, <3>3
  <2>11. ASSUME NEW d \in Callers, pc'[d] \in Inside
         PROVE  queue'[HandleOf[d]][1] = d
    <3>1. d # c /\ pc[d] \in Inside /\ HandleOf[d] \in Handles
      BY <2>7, <2>8, <2>11, HandleOfAssumption
    <3>2. queue[HandleOf[d]][1] = d
      BY <1>2, <3>1 DEF MutexInv
    <3>3. PICK i \in 1 .. Len(queue[HandleOf[d]]) : queue[HandleOf[d]][i] = d
      BY <1>2, <3>1 DEF MutexInv, Section
    <3>4. queue[HandleOf[d]] \in Seq(Callers)
      BY <3>1 DEF TypeOK
    <3>5. 1 \in 1 .. Len(queue[HandleOf[d]])
      BY <3>3, <3>4
    <3>6. CASE HandleOf[d] = h
      BY <2>2, <2>5, <3>2, <3>5, <3>6
    <3>7. CASE HandleOf[d] # h
      BY <2>4, <3>1, <3>2, <3>7
    <3> QED
      BY <3>6, <3>7
  <2> QED
    BY <2>3, <2>9, <2>10, <2>11 DEF MutexInv
<1> QED
  BY <1>1, <1>2

\* Giving it up.
LEMMA ExitKeeps ==
    ASSUME TypeOK, MutexInv, NEW c \in Callers, NEW l, l \notin Section,
           pc[c] \in Inside, pc' = [pc EXCEPT ![c] = l], server' = server, Exit(c)
    PROVE  queue' \in [Handles -> Seq(Callers)] /\ MutexInv'
<1>1. CASE server.dialect # "sqlite"
  BY <1>1 DEF TypeOK, Exit, MutexInv
<1>2. CASE server.dialect = "sqlite"
  <2> DEFINE h == HandleOf[c]
             q == queue[h]
  <2>1. /\ h \in Handles /\ q \in Seq(Callers)
        /\ queue' = [queue EXCEPT ![h] = Tail(q)]
    BY <1>2, HandleOfAssumption DEF TypeOK, Exit
  <2>2. q[1] = c
    BY <1>2 DEF MutexInv
  <2>3. PICK k \in 1 .. Len(q) : q[k] = c
    BY <1>2 DEF MutexInv, Section
  <2>4. Len(q) \in Nat /\ Len(q) # 0 /\ q # <<>>
    BY <2>1, <2>3
  <2>5. /\ Tail(q) \in Seq(Callers) /\ Len(Tail(q)) = Len(q) - 1
        /\ \A i \in 1 .. Len(Tail(q)) : Tail(q)[i] = q[i + 1]
    BY <2>1, <2>4
  <2>6. queue' \in [Handles -> Seq(Callers)]
    BY <2>1, <2>5 DEF TypeOK
  <2>7. \A g \in Handles : g # h => queue'[g] = queue[g]
    BY <2>1 DEF TypeOK
  <2>8. queue'[h] = Tail(q)
    BY <2>1 DEF TypeOK
  <2>9. \A i, j \in 1 .. Len(q) : q[i] = q[j] => i = j
    BY <1>2, <2>1 DEF MutexInv
  <2>10. \A i \in 1 .. Len(q) : i # 1 => q[i] # c
    <3>1. 1 \in 1 .. Len(q)
      BY <2>4
    <3> QED
      BY <2>2, <2>9, <3>1
  <2>11. \A d \in Callers : pc'[d] = IF d = c THEN l ELSE pc[d]
    BY DEF TypeOK
  <2>12. l \notin Inside
    BY DEF Section
  <2>13. ASSUME NEW g \in Handles, NEW i \in 1 .. Len(queue'[g])
         PROVE  /\ pc'[queue'[g][i]] \in Section
                /\ HandleOf[queue'[g][i]] = g
                /\ \A j \in 1 .. Len(queue'[g]) :
                      queue'[g][i] = queue'[g][j] => i = j
    <3>1. CASE g # h
      <4>1. queue'[g] = queue[g] /\ queue[g][i] \in Callers
        BY <2>7, <2>13, <3>1 DEF TypeOK
      <4>2. HandleOf[queue[g][i]] = g
        BY <1>2, <2>13, <4>1 DEF MutexInv
      <4>3. queue[g][i] # c
        BY <3>1, <4>2
      <4> QED
        BY <1>2, <2>11, <2>13, <4>1, <4>3 DEF MutexInv
    <3>2. CASE g = h
      <4>1. /\ i + 1 \in 1 .. Len(q) /\ i + 1 # 1
            /\ queue'[g][i] = q[i + 1]
        <5>1. queue'[g] = Tail(q) /\ i \in 1 .. Len(Tail(q))
          BY <2>8, <2>13, <3>2
        <5>2. Tail(q)[i] = q[i + 1]
          BY <2>5, <5>1
        <5>3. i + 1 \in 1 .. Len(q) /\ i + 1 # 1
          BY <2>4, <2>5, <5>1
        <5> QED
          BY <5>1, <5>2, <5>3
      <4>2. q[i + 1] \in Callers /\ q[i + 1] # c
        BY <2>1, <2>10, <4>1
      <4>3. pc'[q[i + 1]] \in Section /\ HandleOf[q[i + 1]] = h
        BY <1>2, <2>1, <2>11, <4>1, <4>2 DEF MutexInv
      <4>4. ASSUME NEW j \in 1 .. Len(queue'[g]), queue'[g][i] = queue'[g][j]
            PROVE  i = j
        <5>1. j + 1 \in 1 .. Len(q) /\ queue'[g][j] = q[j + 1]
          <6>1. queue'[g] = Tail(q) /\ j \in 1 .. Len(Tail(q))
            BY <2>8, <3>2, <4>4
          <6>2. Tail(q)[j] = q[j + 1]
            BY <2>5, <6>1
          <6>3. j + 1 \in 1 .. Len(q)
            BY <2>4, <2>5, <6>1
          <6> QED
            BY <6>1, <6>2, <6>3
        <5>2. i + 1 = j + 1
          BY <2>9, <4>1, <4>4, <5>1
        <5> QED
          BY <2>13, <4>4, <5>2, <2>5, <2>8, <3>2
      <4> QED
        BY <3>2, <4>1, <4>3, <4>4
    <3> QED
      BY <3>1, <3>2
  <2>14. ASSUME NEW d \in Callers, pc'[d] \in Section
         PROVE  \E i \in 1 .. Len(queue'[HandleOf[d]]) :
                    queue'[HandleOf[d]][i] = d
    <3>1. d # c /\ pc[d] \in Section /\ HandleOf[d] \in Handles
      BY <2>11, <2>14, HandleOfAssumption
    <3>2. PICK i \in 1 .. Len(queue[HandleOf[d]]) : queue[HandleOf[d]][i] = d
      BY <1>2, <3>1 DEF MutexInv
    <3>3. CASE HandleOf[d] = h
      <4>1. i # 1 /\ i \in 1 .. Len(q) /\ q[i] = d
        BY <2>2, <3>1, <3>2, <3>3
      <4>2. i - 1 \in 1 .. Len(Tail(q)) /\ (i - 1) + 1 = i
        BY <2>4, <2>5, <4>1
      <4>3. Tail(q)[i - 1] = d
        BY <2>5, <4>1, <4>2
      <4> QED
        BY <2>8, <3>3, <4>2, <4>3
    <3>4. CASE HandleOf[d] # h
      BY <2>7, <3>1, <3>2, <3>4
    <3> QED
      BY <3>3, <3>4
  <2>15. ASSUME NEW d \in Callers, pc'[d] \in Inside
         PROVE  queue'[HandleOf[d]][1] = d
    <3>1. d # c /\ pc[d] \in Inside /\ HandleOf[d] \in Handles
      BY <2>11, <2>12, <2>15, HandleOfAssumption
    <3>2. queue[HandleOf[d]][1] = d
      BY <1>2, <3>1 DEF MutexInv
    <3>3. HandleOf[d] # h
      BY <2>2, <3>1, <3>2
    <3> QED
      BY <2>7, <3>1, <3>2, <3>3
  <2> QED
    BY <2>6, <2>13, <2>14, <2>15 DEF MutexInv
<1> QED
  BY <1>1, <1>2

\* Having it, or getting it in turn, and going on.
LEMMA MoveKeeps ==
    ASSUME TypeOK, MutexInv, NEW c \in Callers, NEW l \in Inside,
           \/ pc[c] \in Inside
           \/ pc[c] \in Section /\ Turn(c),
           pc' = [pc EXCEPT ![c] = l], queue' = queue, server' = server
    PROVE  MutexInv'
<1>1. \A d \in Callers : pc'[d] = IF d = c THEN l ELSE pc[d]
  BY DEF TypeOK
<1>2. l \in Section /\ pc[c] \in Section
  BY DEF Section
<1>3. \A h \in Handles : \A i \in 1 .. Len(queue[h]) : queue[h][i] \in Callers
  BY DEF TypeOK
<1>4. ASSUME server.dialect = "sqlite" PROVE queue[HandleOf[c]][1] = c
  <2>1. queue[HandleOf[c]] \in Seq(Callers)
    BY HandleOfAssumption DEF TypeOK
  <2>2. PICK i \in 1 .. Len(queue[HandleOf[c]]) : queue[HandleOf[c]][i] = c
    BY <1>2, <1>4 DEF MutexInv
  <2>3. Head(queue[HandleOf[c]]) = queue[HandleOf[c]][1]
    BY <2>1, <2>2
  <2> QED
    BY <1>4, <2>3 DEF MutexInv, Turn
<1> QED
  BY <1>1, <1>2, <1>3, <1>4 DEF MutexInv

-----------------------------------------------------------------------------
(* The steps of a caller.                                                  *)

CallerInv(c) == ReadInv(c) /\ StageInv(c) /\ MarkInv(c)

\* A step of c that leaves the database alone disturbs nobody else.
LEMMA Frame ==
    ASSUME IInv, NEW c \in Callers,
           UNCHANGED <<db, log, handle, server>>,
           rowLock' = rowLock \/ rowLock = c \/ rowLock = NoOne,
           \A d \in Callers \ {c} :
               /\ pc'[d] = pc[d] /\ at'[d] = at[d] /\ snap'[d] = snap[d]
               /\ got'[d] = got[d] /\ staged'[d] = staged[d]
    PROVE  LogInv' /\ HandleInv' /\ \A d \in Callers \ {c} : CallerInv(d)'
<1>1. LogInv' /\ HandleInv'
  BY DEF IInv, LogInv, HandleInv, Repeatable
<1>2. ASSUME NEW d \in Callers \ {c} PROVE CallerInv(d)'
  <2>1. /\ pc'[d] = pc[d] /\ at'[d] = at[d] /\ snap'[d] = snap[d]
        /\ got'[d] = got[d] /\ staged'[d] = staged[d]
    BY <1>2
  <2>2. ReadInv(d)'
    BY <2>1 DEF IInv, ReadInv
  <2>3. StageInv(d)'
    <3>1. pc[d] \in Rewriting => rowLock' = d
      BY NoOneAssumption DEF IInv, StageInv
    <3>2. NextOf(d)' = NextOf(d)
      BY <2>1 DEF NextOf
    <3> QED
      BY <2>1, <3>1, <3>2 DEF IInv, StageInv
  <2>4. MarkInv(d)'
    BY <2>1 DEF IInv, MarkInv
  <2> QED
    BY <2>2, <2>3, <2>4 DEF CallerInv
<1> QED
  BY <1>1, <1>2

LEMMA OpenKeeps == ASSUME IInv, NEW h \in Handles, Open(h) PROVE IInv'
<1>1. TypeOK'
  BY DEF Open, IInv, TypeOK
<1>2. LogInv' /\ MutexInv'
  BY DEF Open, IInv, LogInv, MutexInv
<1>3. HandleInv'
  BY DEF Open, IInv, TypeOK, Servers, HandleInv, Acceptable, Repeatable
<1>4. ASSUME NEW c \in Callers PROVE (ReadInv(c) /\ StageInv(c) /\ MarkInv(c))'
  <2>1. ReadInv(c)'
    BY DEF Open, IInv, ReadInv
  <2>2. StageInv(c)'
    <3>1. NextOf(c)' = NextOf(c)
      BY DEF Open, NextOf
    <3> QED
      BY <3>1 DEF Open, IInv, StageInv
  <2>3. MarkInv(c)'
    BY HandleOfAssumption DEF Open, IInv, TypeOK, MarkInv
  <2> QED
    BY <2>1, <2>2, <2>3
<1> QED
  BY <1>1, <1>2, <1>3, <1>4 DEF IInv

LEMMA CallLoadKeeps == ASSUME IInv, NEW c \in Callers, CallLoad(c) PROVE IInv'
<1>1. pc' = [pc EXCEPT ![c] = "load"] /\ pc[c] = "idle" /\ pc'[c] = "load"
  BY DEF CallLoad, Goto, IInv, TypeOK
<1>2. queue' \in [Handles -> Seq(Callers)] /\ MutexInv'
  BY <1>1, EnterKeeps
     DEF CallLoad, IInv, Section, Inside, InLoad, InCommit
<1>3. TypeOK'
  BY <1>1, <1>2 DEF CallLoad, IInv, TypeOK, Labels
<1>4. LogInv' /\ HandleInv' /\ \A d \in Callers \ {c} : CallerInv(d)'
  BY <1>1, Frame DEF CallLoad, IInv, TypeOK
<1>5. CallerInv(c)'
  BY <1>1 DEF CallLoad, IInv, CallerInv, ReadInv, StageInv, MarkInv, InCommit,
              Rewriting
<1> QED
  BY <1>2, <1>3, <1>4, <1>5 DEF IInv, CallerInv

LEMMA BeginLoadKeeps == ASSUME IInv, NEW c \in Callers, BeginLoad(c) PROVE IInv'
<1>1. pc' = [pc EXCEPT ![c] = "version"] /\ pc[c] = "load" /\ pc'[c] = "version"
  BY DEF BeginLoad, Goto, IInv, TypeOK
<1>2. MutexInv'
  BY <1>1, MoveKeeps DEF BeginLoad, IInv, Section, Inside, InLoad, InCommit
<1>3. TypeOK'
  BY <1>1 DEF BeginLoad, IInv, TypeOK, Labels, InLoad
<1>4. LogInv' /\ HandleInv' /\ \A d \in Callers \ {c} : CallerInv(d)'
  BY <1>1, Frame DEF BeginLoad, IInv, TypeOK
<1>5. CallerInv(c)'
  BY <1>1 DEF BeginLoad, IInv, CallerInv, ReadInv, StageInv, MarkInv, InCommit,
              Rewriting
<1> QED
  BY <1>2, <1>3, <1>4, <1>5 DEF IInv, CallerInv

LEMMA SelectVersionKeeps ==
    ASSUME IInv, NEW c \in Callers, SelectVersion(c) PROVE IInv'
<1> DEFINE first == [version |-> db.version, tables |-> Nothing]
<1>1. /\ pc' = [pc EXCEPT ![c] = "select"] /\ pc[c] = "version"
      /\ pc'[c] = "select" /\ snap'[c] = db /\ at'[c] = 1 /\ got'[c] = first
  BY DEF SelectVersion, Goto, IInv, TypeOK
<1>2. MutexInv'
  BY <1>1, MoveKeeps DEF SelectVersion, IInv, Section, Inside, InLoad, InCommit
<1>3. first \in Databases /\ first.version = db.version /\ db.version \in Nat
  BY DEF IInv, TypeOK, Databases, Contents, Nothing
<1>4. TypeOK'
  <2>1. /\ got' \in [Callers -> Databases] /\ snap' \in [Callers -> Databases]
        /\ at' \in [Callers -> 1 .. 4] /\ pc' \in [Callers -> Labels]
    BY <1>1, <1>3 DEF SelectVersion, IInv, TypeOK, Labels, InLoad
  <2> QED
    BY <2>1 DEF SelectVersion, IInv, TypeOK
<1>5. LogInv' /\ HandleInv' /\ \A d \in Callers \ {c} : CallerInv(d)'
  BY <1>1, Frame DEF SelectVersion, IInv, TypeOK
<1>6. CallerInv(c)'
  <2>1. ReadInv(c)'
    BY <1>1, <1>3 DEF SelectVersion, IInv, LogInv, ReadInv, InCommit
  <2> QED
    BY <1>1, <2>1 DEF SelectVersion, IInv, CallerInv, StageInv, MarkInv,
                      Rewriting
<1> QED
  BY <1>2, <1>4, <1>5, <1>6 DEF IInv, CallerInv

LEMMA SelectTableKeeps ==
    ASSUME IInv, NEW c \in Callers, SelectTable(c) PROVE IInv'
<1> DEFINE t == Reading[at[c]]
           read == [version |-> got[c].version,
                    tables |-> [got[c].tables EXCEPT ![t] = snap[c].tables[t]]]
<1>1. pc[c] = "select" /\ at[c] \in 1 .. 4 /\ t \in Tables
  BY Orders DEF SelectTable, IInv, TypeOK
<1>2. Repeatable
  BY <1>1, HandleOfAssumption DEF IInv, MarkInv, HandleInv
<1>3. got' = [got EXCEPT ![c] = read]
  BY <1>2 DEF SelectTable, Noted
<1>4. /\ got[c] \in Databases /\ snap[c] \in Databases
      /\ got[c].tables \in Contents /\ snap[c].tables \in Contents
  BY DEF IInv, TypeOK, Databases
<1>5. /\ read \in Databases /\ read.version = got[c].version
      /\ read.tables \in Contents
      /\ read.tables = [got[c].tables EXCEPT ![t] = snap[c].tables[t]]
  BY <1>1, <1>4 DEF Databases, Contents
<1>6. got' \in [Callers -> Databases] /\ got'[c] = read
  BY <1>3, <1>5 DEF IInv, TypeOK
<1>7. \A i \in 1 .. 4 : i <= at[c] =>
          read.tables[Reading[i]] = snap[c].tables[Reading[i]]
  <2> TAKE i \in 1 .. 4
  <2> HAVE i <= at[c]
  <2>1. CASE i = at[c]
    BY <1>1, <1>4, <1>5, <2>1 DEF Contents
  <2>2. CASE i # at[c]
    <3>1. Reading[i] \in Tables /\ Reading[i] # t /\ i < at[c]
      BY <1>1, <2>2, Orders
    <3>2. read.tables[Reading[i]] = got[c].tables[Reading[i]]
      BY <1>4, <1>5, <3>1 DEF Contents
    <3> QED
      BY <1>1, <3>1, <3>2 DEF IInv, ReadInv
  <2> QED
    BY <2>1, <2>2
<1> HIDE DEF read
<1>8. CASE at[c] < Len(Reading)
  <2>1. at[c] < 4 /\ at' = [at EXCEPT ![c] = @ + 1] /\ UNCHANGED <<pc, queue>>
    BY <1>8, Orders DEF SelectTable
  <2>2. at' \in [Callers -> 1 .. 4] /\ at'[c] = at[c] + 1
    BY <1>1, <2>1 DEF IInv, TypeOK
  <2>3. TypeOK'
    BY <1>6, <2>1, <2>2 DEF SelectTable, IInv, TypeOK
  <2>4. MutexInv'
    BY <2>1 DEF SelectTable, IInv, MutexInv
  <2>5. LogInv' /\ HandleInv' /\ \A d \in Callers \ {c} : CallerInv(d)'
    BY <1>3, <2>1, Frame DEF SelectTable, IInv, TypeOK
  <2>6. CallerInv(c)'
    <3>1. ReadInv(c)'
      <4>1. snap' = snap /\ db' = db /\ log' = log /\ pc'[c] = "select"
        BY <1>1, <2>1 DEF SelectTable
      <4>2. \A i \in 1 .. 4 : i < at'[c] =>
                got'[c].tables[Reading[i]] = snap[c].tables[Reading[i]]
        BY <1>1, <1>6, <1>7, <2>2
      <4> QED
        BY <1>1, <1>5, <1>6, <4>1, <4>2 DEF IInv, ReadInv, InCommit
    <3> QED
      BY <1>1, <2>1, <3>1 DEF SelectTable, IInv, CallerInv, StageInv, MarkInv,
                              Rewriting
  <2> QED
    BY <2>3, <2>4, <2>5, <2>6 DEF IInv, CallerInv
<1>9. CASE at[c] = Len(Reading)
  <2>1. at[c] = 4 /\ pc' = [pc EXCEPT ![c] = "loaded"] /\ Exit(c) /\ at' = at
    BY <1>9, Orders DEF SelectTable, Goto
  <2>2. pc'[c] = "loaded"
    BY <2>1 DEF IInv, TypeOK
  <2>3. queue' \in [Handles -> Seq(Callers)] /\ MutexInv'
    BY <1>1, <2>1, ExitKeeps DEF SelectTable, IInv, Section, Inside, InLoad, InCommit
  <2>4. TypeOK'
    BY <1>6, <2>1, <2>3 DEF SelectTable, IInv, TypeOK, Labels
  <2>5. LogInv' /\ HandleInv' /\ \A d \in Callers \ {c} : CallerInv(d)'
    BY <1>3, <2>1, Frame DEF SelectTable, IInv, TypeOK
  <2>6. CallerInv(c)'
    <3>1. \A u \in Tables : read.tables[u] = snap[c].tables[u]
      BY <1>7, <2>1, Orders
    <3>2. read.tables = snap[c].tables
      BY <1>4, <1>5, <3>1 DEF Contents
    <3>3. ReadInv(c)'
      <4>1. /\ snap[c].version <= db.version /\ got[c].version = snap[c].version
            /\ snap[c].tables = log[snap[c].version + 1]
        BY <1>1 DEF IInv, ReadInv
      <4>2. got'[c].version <= db.version
        BY <1>5, <1>6, <4>1
      <4>3. got'[c].tables = log[got'[c].version + 1]
        BY <1>5, <1>6, <3>2, <4>1
      <4>4. log' = log /\ db' = db
        BY DEF SelectTable
      <4> QED
        BY <2>2, <4>2, <4>3, <4>4 DEF ReadInv
    <3> QED
      BY <1>1, <2>2, <3>3 DEF SelectTable, IInv, CallerInv, StageInv, MarkInv,
                              Rewriting
  <2> QED
    BY <2>3, <2>4, <2>5, <2>6 DEF IInv, CallerInv
<1> QED
  BY <1>8, <1>9 DEF SelectTable

LEMMA CallCommitKeeps ==
    ASSUME IInv, NEW c \in Callers, CallCommit(c) PROVE IInv'
<1>1. pc' = [pc EXCEPT ![c] = "await"] /\ pc[c] = "loaded" /\ pc'[c] = "await"
  BY DEF CallCommit, Goto, IInv, TypeOK
<1>2. queue' \in [Handles -> Seq(Callers)] /\ MutexInv'
  BY <1>1, EnterKeeps
     DEF CallCommit, IInv, Section, Inside, InLoad, InCommit
<1>3. TypeOK'
  BY <1>1, <1>2 DEF CallCommit, IInv, TypeOK, Labels
<1>4. LogInv' /\ HandleInv' /\ \A d \in Callers \ {c} : CallerInv(d)'
  BY <1>1, Frame DEF CallCommit, IInv, TypeOK
<1>5. CallerInv(c)'
  BY <1>1 DEF CallCommit, IInv, CallerInv, ReadInv, StageInv, MarkInv, InCommit,
              Rewriting
<1> QED
  BY <1>2, <1>3, <1>4, <1>5 DEF IInv, CallerInv

LEMMA BeginCommitKeeps ==
    ASSUME IInv, NEW c \in Callers, BeginCommit(c) PROVE IInv'
<1>1. pc' = [pc EXCEPT ![c] = "bump"] /\ pc[c] = "await" /\ pc'[c] = "bump"
  BY DEF BeginCommit, Goto, IInv, TypeOK
<1>2. MutexInv'
  BY <1>1, MoveKeeps DEF BeginCommit, IInv, Section, Inside, InLoad, InCommit
<1>3. TypeOK'
  BY <1>1 DEF BeginCommit, IInv, TypeOK, Labels, InCommit
<1>4. LogInv' /\ HandleInv' /\ \A d \in Callers \ {c} : CallerInv(d)'
  BY <1>1, Frame DEF BeginCommit, IInv, TypeOK
<1>5. CallerInv(c)'
  BY <1>1 DEF BeginCommit, IInv, CallerInv, ReadInv, StageInv, MarkInv,
              InCommit, Rewriting
<1> QED
  BY <1>2, <1>3, <1>4, <1>5 DEF IInv, CallerInv

LEMMA BumpKeeps == ASSUME IInv, NEW c \in Callers, Bump(c) PROVE IInv'
<1>1. pc[c] = "bump" /\ rowLock = NoOne
  BY DEF Bump
<1>2. /\ got[c].version \in Nat /\ db.version \in Nat /\ db.tables \in Contents
  BY DEF IInv, TypeOK, Databases
<1>3. CASE Expected(c) /\ rowLock' = c
  <2>1. /\ pc' = [pc EXCEPT ![c] = "delete"] /\ at' = [at EXCEPT ![c] = 1]
        /\ staged' = [staged EXCEPT ![c] = db.tables]
    BY <1>1, <1>3, NoOneAssumption DEF Bump, Goto
  <2>2. pc'[c] = "delete" /\ at'[c] = 1
    BY <2>1 DEF IInv, TypeOK
  <2>3. MutexInv'
    BY <1>1, <2>1, MoveKeeps DEF Bump, IInv, Inside, InCommit
  <2>4. TypeOK'
    BY <1>2, <1>3, <2>1 DEF Bump, IInv, TypeOK, Labels, InCommit
  <2>5. LogInv' /\ HandleInv' /\ \A d \in Callers \ {c} : CallerInv(d)'
    BY <1>1, <2>1, Frame DEF Bump, IInv, TypeOK
  <2>6. got[c].version = db.version
    BY <1>2, <1>3 DEF Expected, NextOf
  <2>7. StageInv(c)'
    BY <1>3, <2>2, <2>6 DEF Bump, StageInv
  <2>8. ReadInv(c)' /\ MarkInv(c)'
    BY <1>1, <2>2 DEF Bump, IInv, ReadInv, MarkInv, InCommit
  <2> QED
    BY <2>3, <2>4, <2>5, <2>7, <2>8 DEF IInv, CallerInv
<1>4. CASE pc' = [pc EXCEPT ![c] = "rollback"] /\ UNCHANGED <<rowLock, staged, at>>
  <2>1. pc'[c] = "rollback"
    BY <1>4 DEF IInv, TypeOK
  <2>2. MutexInv'
    BY <1>1, <1>4, MoveKeeps DEF Bump, IInv, Inside, InCommit
  <2>3. TypeOK'
    BY <1>4 DEF Bump, IInv, TypeOK, Labels, InCommit
  <2>4. LogInv' /\ HandleInv' /\ \A d \in Callers \ {c} : CallerInv(d)'
    BY <1>4, Frame DEF Bump, IInv, TypeOK
  <2>5. CallerInv(c)'
    BY <1>1, <2>1 DEF Bump, IInv, CallerInv, ReadInv, StageInv, MarkInv,
                      InCommit, Rewriting
  <2> QED
    BY <2>2, <2>3, <2>4, <2>5 DEF IInv, CallerInv
<1> QED
  BY <1>3, <1>4 DEF Bump, Goto

LEMMA DeleteKeeps == ASSUME IInv, NEW c \in Callers, Delete(c) PROVE IInv'
<1> DEFINE t == Deleting[at[c]]
           kept == [staged[c] EXCEPT ![t] = {}]
<1>1. pc[c] = "delete" /\ at[c] \in 1 .. 4 /\ t \in Tables
  BY Orders DEF Delete, IInv, TypeOK
<1>2. staged[c] \in Contents /\ staged' = [staged EXCEPT ![c] = kept]
  BY DEF Delete, IInv, TypeOK
<1>3. kept \in Contents
  BY <1>1, <1>2 DEF Contents
<1>4. staged' \in [Callers -> Contents] /\ staged'[c] = kept
  BY <1>2, <1>3 DEF IInv, TypeOK
<1>5. \A i \in 1 .. 4 : i <= at[c] => kept[Deleting[i]] = {}
  <2> TAKE i \in 1 .. 4
  <2> HAVE i <= at[c]
  <2>1. CASE i = at[c]
    BY <1>1, <1>2, <2>1 DEF Contents
  <2>2. CASE i # at[c]
    <3>1. Deleting[i] \in Tables /\ Deleting[i] # t /\ i < at[c]
      BY <1>1, <2>2, Orders
    <3>2. kept[Deleting[i]] = staged[c][Deleting[i]]
      BY <1>2, <3>1 DEF Contents
    <3> QED
      BY <1>1, <3>1, <3>2 DEF IInv, StageInv
  <2> QED
    BY <2>1, <2>2
<1> HIDE DEF kept
<1>6. ReadInv(c) /\ MarkInv(c) /\ rowLock = c /\ got[c].version = db.version
  BY <1>1 DEF IInv, StageInv, Rewriting
<1>7. CASE at[c] < Len(Deleting)
  <2>1. at[c] < 4 /\ at' = [at EXCEPT ![c] = @ + 1] /\ pc' = pc
    BY <1>7, Orders DEF Delete
  <2>2. at' \in [Callers -> 1 .. 4] /\ at'[c] = at[c] + 1
    BY <1>1, <2>1 DEF IInv, TypeOK
  <2>3. TypeOK'
    BY <1>4, <2>1, <2>2 DEF Delete, IInv, TypeOK
  <2>4. MutexInv'
    BY <2>1 DEF Delete, IInv, MutexInv
  <2>5. LogInv' /\ HandleInv' /\ \A d \in Callers \ {c} : CallerInv(d)'
    BY <1>2, <2>1, Frame DEF Delete, IInv, TypeOK
  <2>6. StageInv(c)'
    <3>1. \A i \in 1 .. 4 : i < at'[c] => staged'[c][Deleting[i]] = {}
      BY <1>1, <1>4, <1>5, <2>2
    <3> QED
      BY <1>1, <1>6, <2>1, <3>1 DEF Delete, StageInv
  <2>7. ReadInv(c)' /\ MarkInv(c)'
    BY <1>1, <1>6, <2>1 DEF Delete, ReadInv, MarkInv, InCommit
  <2> QED
    BY <2>3, <2>4, <2>5, <2>6, <2>7 DEF IInv, CallerInv
<1>8. CASE at[c] = Len(Deleting)
  <2>1. /\ at[c] = 4 /\ at' = [at EXCEPT ![c] = 1]
        /\ pc' = [pc EXCEPT ![c] = "insert"]
    BY <1>8, Orders DEF Delete, Goto
  <2>2. at' \in [Callers -> 1 .. 4] /\ at'[c] = 1 /\ pc'[c] = "insert"
    BY <2>1 DEF IInv, TypeOK
  <2>3. TypeOK'
    BY <1>4, <2>1, <2>2 DEF Delete, IInv, TypeOK, Labels, InCommit
  <2>4. MutexInv'
    BY <1>1, <2>1, MoveKeeps DEF Delete, IInv, Inside, InCommit
  <2>5. LogInv' /\ HandleInv' /\ \A d \in Callers \ {c} : CallerInv(d)'
    BY <1>2, <2>1, Frame DEF Delete, IInv, TypeOK
  <2>6. StageInv(c)'
    <3>1. \A u \in Tables : kept[u] = {}
      BY <1>5, <2>1, Orders
    <3>2. \A i \in 1 .. 4 : staged'[c][Inserting[i]] = {} /\ ~ (i < at'[c])
      BY <1>4, <2>2, <3>1, Orders
    <3> QED
      BY <1>6, <2>2, <3>2 DEF Delete, StageInv
  <2>7. ReadInv(c)' /\ MarkInv(c)'
    BY <1>1, <1>6, <2>2 DEF Delete, ReadInv, MarkInv, InCommit
  <2> QED
    BY <2>3, <2>4, <2>5, <2>6, <2>7 DEF IInv, CallerInv
<1> QED
  BY <1>7, <1>8 DEF Delete

LEMMA InsertKeeps == ASSUME IInv, NEW c \in Callers, Insert(c) PROVE IInv'
<1> DEFINE t == Inserting[at[c]]
           new == NextOf(c).tables
           kept == [staged[c] EXCEPT ![t] = staged[c][t] \cup new[t]]
<1>1. pc[c] = "insert" /\ at[c] \in 1 .. 4 /\ t \in Tables
  BY Orders DEF Insert, IInv, TypeOK
<1>2. staged[c] \in Contents /\ staged' = [staged EXCEPT ![c] = kept]
  BY DEF Insert, Inserted, IInv, TypeOK
<1>3. new \in Contents
  BY DEF NextOf, IInv, TypeOK, Databases, Contents
<1>4. NextOf(c)' = NextOf(c)
  BY DEF Insert, NextOf
<1> HIDE DEF new
<1>5. kept \in Contents
  BY <1>1, <1>2, <1>3 DEF Contents
<1>6. staged' \in [Callers -> Contents] /\ staged'[c] = kept
  BY <1>2, <1>5 DEF IInv, TypeOK
<1>7. \A i \in 1 .. 4 : staged[c][Inserting[i]] = IF i < at[c]
                                                  THEN new[Inserting[i]] ELSE {}
  BY <1>1 DEF IInv, StageInv, new
<1>8. \A i \in 1 .. 4 : kept[Inserting[i]] = IF i <= at[c]
                                              THEN new[Inserting[i]] ELSE {}
  <2> TAKE i \in 1 .. 4
  <2>1. CASE i = at[c]
    <3>1. staged[c][t] = {}
      BY <1>1, <1>7
    <3>2. kept[t] = new[t]
      BY <1>1, <1>2, <3>1 DEF Contents
    <3> QED
      BY <1>1, <2>1, <3>2
  <2>2. CASE i # at[c]
    <3>1. Inserting[i] \in Tables /\ Inserting[i] # t
      BY <1>1, <2>2, Orders
    <3>2. kept[Inserting[i]] = staged[c][Inserting[i]]
      BY <1>2, <3>1 DEF Contents
    <3> QED
      BY <1>1, <1>7, <2>2, <3>2
  <2> QED
    BY <2>1, <2>2
<1> HIDE DEF kept
<1>9. ReadInv(c) /\ MarkInv(c) /\ rowLock = c /\ got[c].version = db.version
  BY <1>1 DEF IInv, StageInv, Rewriting
<1>10. CASE at[c] < LastInsert
  <2>1. at[c] < 4 /\ at' = [at EXCEPT ![c] = @ + 1] /\ pc' = pc
    BY <1>10, Orders DEF Insert, LastInsert
  <2>2. at' \in [Callers -> 1 .. 4] /\ at'[c] = at[c] + 1
    BY <1>1, <2>1 DEF IInv, TypeOK
  <2>3. TypeOK'
    BY <1>6, <2>1, <2>2 DEF Insert, IInv, TypeOK
  <2>4. MutexInv'
    BY <2>1 DEF Insert, IInv, MutexInv
  <2>5. LogInv' /\ HandleInv' /\ \A d \in Callers \ {c} : CallerInv(d)'
    BY <1>2, <2>1, Frame DEF Insert, IInv, TypeOK
  <2>6. StageInv(c)'
    <3>1. \A i \in 1 .. 4 : staged'[c][Inserting[i]] =
              IF i < at'[c] THEN NextOf(c).tables[Inserting[i]] ELSE {}
      BY <1>1, <1>6, <1>8, <2>2 DEF new
    <3> QED
      BY <1>1, <1>4, <1>9, <2>1, <3>1 DEF Insert, StageInv
  <2>7. ReadInv(c)' /\ MarkInv(c)'
    BY <1>1, <1>9, <2>1 DEF Insert, ReadInv, MarkInv, InCommit
  <2> QED
    BY <2>3, <2>4, <2>5, <2>6, <2>7 DEF IInv, CallerInv
<1>11. CASE at[c] = LastInsert
  <2>1. at[c] = 4 /\ at' = at /\ pc' = [pc EXCEPT ![c] = "commit"]
    BY <1>11, Orders DEF Insert, Goto, LastInsert
  <2>2. pc'[c] = "commit"
    BY <2>1 DEF IInv, TypeOK
  <2>3. TypeOK'
    BY <1>6, <2>1 DEF Insert, IInv, TypeOK, Labels, InCommit
  <2>4. MutexInv'
    BY <1>1, <2>1, MoveKeeps DEF Insert, IInv, Inside, InCommit
  <2>5. LogInv' /\ HandleInv' /\ \A d \in Callers \ {c} : CallerInv(d)'
    BY <1>2, <2>1, Frame DEF Insert, IInv, TypeOK
  <2>6. StageInv(c)'
    <3>1. \A u \in Tables : kept[u] = new[u]
      BY <1>8, <2>1, Orders
    <3>2. kept = new
      BY <1>3, <1>5, <3>1 DEF Contents
    <3> QED
      BY <1>4, <1>6, <1>9, <2>2, <3>2 DEF Insert, StageInv, new
  <2>7. ReadInv(c)' /\ MarkInv(c)'
    BY <1>1, <1>9, <2>2 DEF Insert, ReadInv, MarkInv, InCommit
  <2> QED
    BY <2>3, <2>4, <2>5, <2>6, <2>7 DEF IInv, CallerInv
<1> QED
  BY <1>10, <1>11 DEF Insert

LEMMA CommitKeeps == ASSUME IInv, NEW c \in Callers, Commit(c) PROVE IInv'
<1>1. /\ pc[c] = "commit" /\ rowLock = c /\ got[c].version = db.version
      /\ staged[c] = NextOf(c).tables
  BY DEF Commit, IInv, StageInv, Rewriting
<1>2. /\ db.version \in Nat /\ db.tables \in Contents /\ staged[c] \in Contents
      /\ log \in Seq(Contents)
  BY DEF IInv, TypeOK, Databases
<1>3. got[c].tables = db.tables
  BY <1>1 DEF IInv, ReadInv, LogInv, InCommit
<1>4. \A t \in Tables : staged[c][t] = db.tables[t] \cup {c}
  BY <1>1, <1>3 DEF NextOf
<1>5. db'.version = db.version + 1 /\ db'.tables = staged[c] /\ db' \in Databases
  BY <1>2 DEF Commit, Databases
<1>6. /\ log' \in Seq(Contents) /\ Len(log') = Len(log) + 1
      /\ log'[Len(log) + 1] = staged[c]
      /\ \A i \in 1 .. Len(log) : log'[i] = log[i]
  BY <1>2 DEF Commit
<1>7. PICK l \in {"acked", "thrown"} : pc' = [pc EXCEPT ![c] = l]
  BY DEF Commit, Goto
<1>8. pc'[c] = l
  BY <1>7 DEF IInv, TypeOK
<1>9. queue' \in [Handles -> Seq(Callers)] /\ MutexInv'
  <2>1. l \notin Section /\ pc[c] \in Inside
    BY <1>1, <1>7 DEF Section, Inside, InLoad, InCommit
  <2> QED
    BY <1>7, <2>1, ExitKeeps DEF Commit, IInv
<1>10. TypeOK'
  <2>1. faults' \in 0 .. MaxFaults
    BY MaxFaultsAssumption DEF Commit, IInv, TypeOK
  <2>2. pc' \in [Callers -> Labels]
    BY <1>7 DEF IInv, TypeOK, Labels, Answered
  <2> QED
    BY <1>5, <1>6, <1>9, <2>1, <2>2 DEF Commit, IInv, TypeOK
<1>11. LogInv'
  <2>1. Len(log) = db.version + 1
    BY DEF IInv, LogInv
  <2>2. Len(log') = db'.version + 1 /\ log'[db'.version + 1] = db'.tables
    BY <1>5, <1>6, <2>1
  <2>3. "schedules" \in Tables
    BY DEF Tables
  <2>4. \A t \in Tables : db'.tables[t] = db'.tables["schedules"]
    BY <1>4, <1>5, <2>3 DEF IInv, LogInv
  <2> QED
    BY <2>2, <2>4 DEF LogInv
<1>12. HandleInv'
  BY DEF Commit, IInv, HandleInv, Repeatable
<1>13. \A i \in Nat : i <= db.version => log'[i + 1] = log[i + 1]
  <2>1. Len(log) = db.version + 1
    BY DEF IInv, LogInv
  <2>2. \A i \in Nat : i <= db.version => i + 1 \in 1 .. Len(log)
    BY <1>2, <2>1
  <2> QED
    BY <1>6, <2>2
<1>14. CallerInv(c)'
  <2>1. l = "acked" \/ l = "thrown"
    BY <1>7
  <2>2. ReadInv(c)' /\ StageInv(c)'
    BY <1>8, <2>1 DEF ReadInv, StageInv, InCommit, Rewriting
  <2>3. \A t \in Tables : c \in db'.tables[t]
    BY <1>4, <1>5
  <2>4. MarkInv(c)'
    BY <1>1, <1>8, <2>1, <2>3 DEF Commit, IInv, MarkInv
  <2> QED
    BY <2>2, <2>4 DEF CallerInv
<1>15. ASSUME NEW d \in Callers \ {c} PROVE CallerInv(d)'
  <2>1. /\ pc'[d] = pc[d] /\ at' = at /\ snap' = snap /\ got' = got
        /\ staged' = staged /\ handle' = handle
    BY <1>7, <1>15 DEF Commit, IInv, TypeOK
  <2>2. pc[d] \notin Rewriting
    BY <1>1, <1>15 DEF IInv, StageInv
  <2>3. ReadInv(d) /\ MarkInv(d)
    BY <1>15 DEF IInv
  <2>4. snap[d].version \in Nat /\ got[d].version \in Nat
    BY <1>15 DEF IInv, TypeOK, Databases
  <2>5. ReadInv(d)'
    <3>1. ASSUME pc[d] = "select"
          PROVE  /\ snap[d].version <= db'.version
                 /\ snap[d].tables = log'[snap[d].version + 1]
      BY <1>2, <1>5, <1>13, <2>3, <2>4, <3>1 DEF ReadInv
    <3>2. ASSUME pc[d] \in {"loaded", "await"} \cup InCommit
          PROVE  /\ got[d].version <= db'.version
                 /\ got[d].tables = log'[got[d].version + 1]
      BY <1>2, <1>5, <1>13, <2>3, <2>4, <3>2 DEF ReadInv
    <3> QED
      BY <2>1, <2>3, <3>1, <3>2 DEF ReadInv
  <2>6. StageInv(d)'
    BY <2>1, <2>2 DEF StageInv, Rewriting
  <2>7. MarkInv(d)'
    BY <1>4, <1>5, <1>15, <2>1, <2>3 DEF MarkInv
  <2> QED
    BY <2>5, <2>6, <2>7 DEF CallerInv
<1> QED
  BY <1>9, <1>10, <1>11, <1>12, <1>14, <1>15 DEF IInv, CallerInv

LEMMA RollbackKeeps == ASSUME IInv, NEW c \in Callers, Rollback(c) PROVE IInv'
<1>1. /\ pc' = [pc EXCEPT ![c] = "raced"] /\ pc[c] = "rollback"
      /\ pc'[c] = "raced"
  BY DEF Rollback, SentinelAnswer, Goto, IInv, TypeOK
<1>2. queue' \in [Handles -> Seq(Callers)] /\ MutexInv'
  BY <1>1, ExitKeeps DEF Rollback, IInv, Section, Inside, InLoad, InCommit
<1>3. TypeOK'
  BY <1>1, <1>2 DEF Rollback, IInv, TypeOK, Labels, Answered
<1>4. LogInv' /\ HandleInv' /\ \A d \in Callers \ {c} : CallerInv(d)'
  BY <1>1, Frame DEF Rollback, IInv, TypeOK
<1>5. CallerInv(c)'
  BY <1>1 DEF Rollback, IInv, CallerInv, ReadInv, StageInv, MarkInv, InCommit,
              Rewriting
<1> QED
  BY <1>2, <1>3, <1>4, <1>5 DEF IInv, CallerInv

LEMMA RetryKeeps == ASSUME IInv, NEW c \in Callers, Retry(c) PROVE IInv'
<1>1. pc' = [pc EXCEPT ![c] = "idle"] /\ pc[c] = "raced" /\ pc'[c] = "idle"
  BY DEF Retry, Goto, IInv, TypeOK
<1>2. MutexInv'
  <2>1. \A d \in Callers : pc'[d] \in Section <=> pc[d] \in Section
    BY <1>1 DEF IInv, TypeOK, Section, Inside, InLoad, InCommit
  <2>2. \A d \in Callers : pc'[d] \in Inside <=> pc[d] \in Inside
    BY <1>1 DEF IInv, TypeOK, Inside, InLoad, InCommit
  <2>3. \A h \in Handles : \A i \in 1 .. Len(queue[h]) :
            queue[h][i] \in Callers
    BY DEF IInv, TypeOK
  <2> QED
    BY <2>1, <2>2, <2>3 DEF Retry, IInv, MutexInv
<1>3. TypeOK'
  BY <1>1 DEF Retry, IInv, TypeOK, Labels
<1>4. LogInv' /\ HandleInv' /\ \A d \in Callers \ {c} : CallerInv(d)'
  BY <1>1, Frame DEF Retry, IInv, TypeOK
<1>5. CallerInv(c)'
  BY <1>1 DEF Retry, IInv, CallerInv, ReadInv, StageInv, MarkInv, InCommit,
              Rewriting
<1> QED
  BY <1>2, <1>3, <1>4, <1>5 DEF IInv, CallerInv

LEMMA FailKeeps == ASSUME IInv, NEW c \in Callers, Fail(c) PROVE IInv'
<1>1. /\ pc' = [pc EXCEPT ![c] = "thrown"] /\ pc[c] \in Inside
      /\ pc'[c] = "thrown"
  BY DEF Fail, Goto, IInv, TypeOK, Inside
<1>2. "thrown" \notin Section
  BY DEF Section, Inside, InLoad, InCommit
<1>3. queue' \in [Handles -> Seq(Callers)] /\ MutexInv'
  BY <1>1, <1>2, ExitKeeps DEF Fail, IInv
<1>4. TypeOK'
  <2>1. faults' \in 0 .. MaxFaults
    BY MaxFaultsAssumption DEF Fail, IInv, TypeOK
  <2>2. rowLock' \in Callers \cup {NoOne} /\ pc' \in [Callers -> Labels]
    BY <1>1 DEF Fail, IInv, TypeOK, Labels, Answered
  <2> QED
    BY <1>3, <2>1, <2>2 DEF Fail, IInv, TypeOK
<1>5. LogInv' /\ HandleInv' /\ \A d \in Callers \ {c} : CallerInv(d)'
  BY <1>1, Frame DEF Fail, IInv, TypeOK
<1>6. CallerInv(c)'
  <2>1. pc[c] # "idle"
    BY <1>1 DEF Inside, InLoad, InCommit
  <2> QED
    BY <1>1, <2>1 DEF Fail, IInv, CallerInv, ReadInv, StageInv, MarkInv,
                      InCommit, Rewriting
<1> QED
  BY <1>3, <1>4, <1>5, <1>6 DEF IInv, CallerInv

LEMMA InvNext == IInv /\ [Next]_vars => IInv'
<1> SUFFICES ASSUME IInv, [Next]_vars PROVE IInv'
  OBVIOUS
<1>1. CASE UNCHANGED vars
  <2>1. \A c \in Callers : NextOf(c)' = NextOf(c)
    BY <1>1 DEF vars, NextOf
  <2>2. TypeOK' /\ LogInv' /\ HandleInv' /\ MutexInv'
    <3>1. TypeOK /\ LogInv /\ HandleInv /\ MutexInv
      BY DEF IInv
    <3>2. TypeOK'
      BY <1>1, <3>1 DEF vars, TypeOK
    <3>3. LogInv'
      BY <1>1, <3>1 DEF vars, LogInv
    <3>4. HandleInv'
      BY <1>1, <3>1 DEF vars, HandleInv, Repeatable
    <3>5. MutexInv'
      BY <1>1, <3>1 DEF vars, MutexInv
    <3> QED
      BY <3>2, <3>3, <3>4, <3>5
  <2>3. ASSUME NEW c \in Callers
        PROVE  (ReadInv(c) /\ StageInv(c) /\ MarkInv(c))'
    <3>1. ReadInv(c)' /\ MarkInv(c)'
      BY <1>1 DEF vars, IInv, ReadInv, MarkInv
    <3>2. StageInv(c)'
      BY <1>1, <2>1 DEF vars, IInv, StageInv
    <3> QED
      BY <3>1, <3>2
  <2> QED
    BY <2>2, <2>3 DEF IInv
<1>2. CASE \E h \in Handles : Open(h)
  BY <1>2, OpenKeeps
<1>3. ASSUME NEW c \in Callers, Step(c) \/ Fail(c) PROVE IInv'
  BY <1>3, CallLoadKeeps, BeginLoadKeeps, SelectVersionKeeps, SelectTableKeeps,
     CallCommitKeeps, BeginCommitKeeps, BumpKeeps, DeleteKeeps, InsertKeeps,
     CommitKeeps, RollbackKeeps, RetryKeeps, FailKeeps DEF Step
<1> QED
  BY <1>1, <1>2, <1>3 DEF Next

-----------------------------------------------------------------------------
(* The contract of a LedgerStore.                                          *)

LEMMA Invariance == Spec => []IInv
BY InvInit, InvNext, PTL DEF Spec

\* The program's state keeps its type.
THEOREM TypeCorrect == Spec => []TypeOK
<1>1. IInv => TypeOK
  BY DEF IInv
<1> QED
  BY <1>1, Invariance, PTL

\* What load returns is a state the database was in, for every dialect and
\* every default isolation level of the server.
THEOREM LoadsAtomic == Spec => []LoadIsAtomic
<1>1. IInv => LoadIsAtomic
  BY DEF IInv, ReadInv, LoadIsAtomic
<1> QED
  BY <1>1, Invariance, PTL

\* committed: true means in every table, committed: false means in none.
THEOREM CommitTruthful == Spec => []AnswersAreTrue
<1>1. IInv => AnswersAreTrue
  BY DEF IInv, MarkInv, AnswersAreTrue
<1> QED
  BY <1>1, Invariance, PTL

\* The mutex keeps two operations off the one connection of an SQLite handle.
THEOREM ConnectionExclusive == Spec => []ConnectionNotShared
<1>1. IInv => ConnectionNotShared
  BY DEF IInv, MutexInv, Inside, ConnectionNotShared
<1> QED
  BY <1>1, Invariance, PTL

\* Commits only ever add: a commit replaces all four tables at once by the
\* ones it loaded with its own write, and nobody wrote in between.
THEOREM CommitsAdd == Spec => NothingDropped
<1> DEFINE Adds == /\ db'.version \in {db.version, db.version + 1}
                   /\ \A t \in Tables :
                         /\ db.tables[t] \subseteq db'.tables[t]
                         /\ db'.tables[t] = db'.tables["schedules"]
<1>1. IInv /\ IInv' /\ [Next]_vars => [Adds]_db
  <2> SUFFICES ASSUME IInv, IInv', [Next]_vars, db' # db PROVE Adds
    OBVIOUS
  <2>1. PICK c \in Callers : Commit(c)
    BY DEF Next, vars, Open, Step, CallLoad, BeginLoad, SelectVersion,
           SelectTable, CallCommit, BeginCommit, Bump, Delete, Insert,
           Rollback, Retry, Fail
  <2>2. /\ pc[c] = "commit" /\ got[c].version = db.version
        /\ staged[c] = NextOf(c).tables
    BY <2>1 DEF Commit, IInv, StageInv, Rewriting
  <2>3. got[c].tables = db.tables
    BY <2>2 DEF IInv, ReadInv, LogInv, InCommit
  <2>4. db'.version = db.version + 1 /\ db'.tables = staged[c]
    BY <2>1 DEF Commit
  <2>5. \A t \in Tables : staged[c][t] = db.tables[t] \cup {c}
    BY <2>2, <2>3 DEF NextOf
  <2> QED
    BY <2>4, <2>5 DEF IInv, LogInv
<1> QED
  BY <1>1, Invariance, PTL DEF Spec, NothingDropped

-----------------------------------------------------------------------------
(* The file backend.                                                       *)

Early == {"lock", "stat", "steal", "read", "open"}

\* Types, and that a transaction under way has been counted, so that a file it
\* creates has a name of its own.
KindInv == FileTypeOK /\ \A w \in Writers : phase[w] # "idle" => count[w] > 0

\* File f was created by a commit that has come past creating one.
Past(f) ==
    f # NoFile =>
        /\ f[2] <= count[f[1]]
        /\ f[2] = count[f[1]] => phase[f[1]] \notin Early

\* What a writer that uses the temporary file finds in it.
TempOf(w) ==
    /\ opened[w] # NoFile /\ tmp[ProcessOf[w]] = opened[w]
    /\ phase[w] = "write" => data[opened[w]].text = "blank"
    /\ phase[w] \in {"sync", "rename"} =>
          /\ data[opened[w]].text = "whole"
          /\ data[opened[w]].content = Rewritten(w)
    /\ phase[w] = "rename" => data[opened[w]].synced

\* No file has two names.
NamesInv ==
    \A p \in Processes : tmp[p] # NoFile =>
        /\ tmp[p] # ledger /\ tmp[p] # durable
        /\ \A q \in Processes : tmp[q] = tmp[p] => q = p

PastInv ==
    Past(ledger) /\ Past(durable) /\ \A p \in Processes : Past(tmp[p])

AloneInv ==
    \A v, w \in Writers :
        phase[v] \in Using /\ phase[w] \in Using /\ ProcessOf[v] = ProcessOf[w]
            => v = w

\* While no temporary was opened that another writer used.
TempInv ==
    /\ AloneInv /\ NamesInv /\ PastInv /\ LedgerIntact
    /\ \A w \in Writers : phase[w] \in Using => TempOf(w)

LEMMA FileFacts ==
    /\ \A f \in Files : /\ f[1] \in Writers /\ f[2] \in Nat /\ f = <<f[1], f[2]>>
                        /\ f # NoFile
    /\ \A w \in Writers, n \in 1 .. MaxCommits :
          /\ <<w, n>> \in Files /\ <<w, n>> # NoFile
          /\ <<w, n>>[1] = w /\ <<w, n>>[2] = n
BY NothingAssumption, MaxCommitsAssumption DEF Files

LEMMA KindInit == FileInit => KindInv
<1> SUFFICES ASSUME FileInit PROVE KindInv
  OBVIOUS
<1>1. EmptyFile \in Content
  BY DEF EmptyFile, Content
<1>2. [Blank EXCEPT !.synced = TRUE] \in Data
  BY <1>1 DEF Blank, Data
<1>3. 0 \in 0 .. MaxCommits
  BY MaxCommitsAssumption
<1> QED
  BY <1>1, <1>2, <1>3 DEF FileInit, KindInv, FileTypeOK, Phases

LEMMA RewrittenTyped ==
    ASSUME FileTypeOK, NEW w \in Writers PROVE Rewritten(w) \in Content
<1>1. /\ loaded[w].version \in Nat /\ loaded[w].writes \subseteq Writers \X Nat
      /\ count[w] \in Nat
  BY MaxCommitsAssumption DEF FileTypeOK, Content
<1> QED
  BY <1>1 DEF Rewritten, Content

LEMMA LedgerTyped ==
    ASSUME FileTypeOK
    PROVE  ContentOf(ledger) \in Content /\ ContentOf(durable) \in Content
<1>1. EmptyFile \in Content
  BY DEF EmptyFile, Content
<1> QED
  BY <1>1 DEF ContentOf, FileTypeOK, Data

\* The steps that change neither files nor names.
Quiet(w) ==
    \/ Load(w) \/ LoadFails(w) \/ CreateLock(w) \/ FindLock(w) \/ StatLock(w)
    \/ StealLock(w) \/ LockFails(w) \/ Compare(w) \/ CommitThrows(w)
    \/ ReleaseLock(w) \/ ReleaseFails(w)

LEMMA QuietKinds == ASSUME KindInv, NEW w \in Writers, Quiet(w) PROVE KindInv'
<1> USE DEF KindInv
<1>1. /\ phase \in [Writers -> Phases] /\ loaded \in [Writers -> Content]
      /\ tries \in [Writers -> Nat] /\ count \in [Writers -> 0 .. MaxCommits]
      /\ ContentOf(ledger) \in Content
      /\ \A v \in Writers : tries[v] + 1 \in Nat
  BY LedgerTyped DEF FileTypeOK
<1>2. CASE Load(w)
  <2>1. count[w] + 1 \in 1 .. MaxCommits
    BY <1>1, <1>2, MaxCommitsAssumption DEF Load
  <2>2. count' \in [Writers -> 0 .. MaxCommits]
    BY <1>1, <1>2, <2>1, MaxCommitsAssumption DEF Load
  <2>3. \A v \in Writers : phase'[v] # "idle" => count'[v] > 0
    BY <1>1, <1>2, <2>1 DEF Load, Proceed
  <2> QED
    BY <1>1, <1>2, <2>2, <2>3
    DEF Load, Proceed, FileTypeOK, fileState, lockfile, Phases
<1>3. CASE LoadFails(w)
  <2>1. count[w] + 1 \in 1 .. MaxCommits
    BY <1>1, <1>3, MaxCommitsAssumption DEF LoadFails
  <2>2. count' \in [Writers -> 0 .. MaxCommits]
    BY <1>1, <1>3, <2>1, MaxCommitsAssumption DEF LoadFails
  <2>3. \A v \in Writers : phase'[v] # "idle" => count'[v] > 0
    BY <1>1, <1>3, <2>1 DEF LoadFails
  <2> QED
    BY <1>1, <1>3, <2>2, <2>3 DEF LoadFails, FileTypeOK, fileState, lockfile
<1>4. CASE CreateLock(w)
  BY <1>1, <1>4 DEF CreateLock, Proceed, FileTypeOK, fileState, Phases, Holding
<1>5. CASE FindLock(w)
  BY <1>1, <1>5 DEF FindLock, Proceed, FileTypeOK, fileState, lockfile, Phases
<1>6. CASE StatLock(w)
  <2>1. tries' \in [Writers -> Nat]
    BY <1>1, <1>6 DEF StatLock
  <2> QED
    BY <1>1, <1>6, <2>1 DEF StatLock, Proceed, FileTypeOK, fileState, lockfile, Phases
<1>7. CASE StealLock(w)
  <2>1. /\ tries' \in [Writers -> Nat] /\ lock' \in Writers \cup {NoLock}
        /\ stale' \in BOOLEAN
    BY <1>1, <1>7 DEF StealLock, FileTypeOK, lockfile
  <2>2. robbed' \in BOOLEAN
    BY <1>7 DEF StealLock, FileTypeOK, lockfile
  <2> QED
    BY <1>1, <1>7, <2>1, <2>2 DEF StealLock, Proceed, FileTypeOK, fileState, Phases
<1>8. CASE LockFails(w)
  BY <1>1, <1>8 DEF LockFails, Proceed, FileTypeOK, fileState, lockfile, Phases
<1>9. CASE Compare(w)
  <2>1. CASE ContentOf(ledger).version = loaded[w].version
    BY <1>1, <1>9, <2>1
    DEF Compare, Leave, Proceed, FileTypeOK, fileState, lockfile, Phases, Holding
  <2>2. CASE ContentOf(ledger).version # loaded[w].version
    BY <1>1, <1>9, <2>2
    DEF Compare, Leave, Proceed, FileTypeOK, fileState, lockfile, Phases, Holding
  <2> QED
    BY <2>1, <2>2
<1>10. CASE CommitThrows(w)
  BY <1>1, <1>10
  DEF CommitThrows, Leave, Proceed, FileTypeOK, fileState, lockfile, Phases, Holding
<1>11. CASE ReleaseLock(w)
  <2>1. count[w] \in Nat
    BY <1>1, MaxCommitsAssumption
  <2>2. acked' \subseteq Writers \X Nat
    BY <1>11, <2>1 DEF ReleaseLock, FileTypeOK
  <2> QED
    BY <1>1, <1>11, <2>2 DEF ReleaseLock, Proceed, FileTypeOK, fileState, Phases
<1>12. CASE ReleaseFails(w)
  BY <1>1, <1>12 DEF ReleaseFails, Proceed, FileTypeOK, fileState, lockfile, Phases
<1> QED
  BY <1>2, <1>3, <1>4, <1>5, <1>6, <1>7, <1>8, <1>9, <1>10, <1>11, <1>12 DEF Quiet

\* The file a commit opens as its temporary.
Opens(w) == IF tmp[ProcessOf[w]] = NoFile THEN <<w, count[w]>> ELSE tmp[ProcessOf[w]]

LEMMA OpensTyped ==
    ASSUME KindInv, NEW w \in Writers, phase[w] = "open"
    PROVE  Opens(w) \in Files /\ Opens(w) # NoFile
<1>1. count[w] \in 1 .. MaxCommits
  BY MaxCommitsAssumption DEF KindInv, FileTypeOK
<1>2. <<w, count[w]>> \in Files
  BY <1>1, FileFacts
<1>3. tmp[ProcessOf[w]] \in Files \cup {NoFile}
  BY ProcessOfAssumption DEF KindInv, FileTypeOK
<1> QED
  BY <1>2, <1>3, NothingAssumption DEF Opens

LEMMA OpenedFacts ==
    ASSUME KindInv, NEW w \in Writers, OpenTemporary(w)
    PROVE  /\ phase[w] = "open" /\ phase' = [phase EXCEPT ![w] = "write"]
           /\ tmp' = [tmp EXCEPT ![ProcessOf[w]] = Opens(w)]
           /\ opened' = [opened EXCEPT ![w] = Opens(w)]
           /\ data' = [data EXCEPT ![Opens(w)] = Blank]
           /\ shared' = (shared \/ Users(ProcessOf[w]) # {})
           /\ UNCHANGED <<ledger, durable, lock, stale, robbed, loaded, tries,
                          outcome, count, acked>>
BY DEF OpenTemporary, Opens, Proceed, lockfile

LEMMA KindNext == KindInv /\ [FileNext]_fileVars => KindInv'
<1> SUFFICES ASSUME KindInv, [FileNext]_fileVars PROVE KindInv'
  OBVIOUS
<1>0. Blank \in Data
  BY DEF Blank, Data, EmptyFile, Content
<1>1. ASSUME NEW w \in Writers, Quiet(w) PROVE KindInv'
  BY <1>1, QuietKinds
<1>2. ASSUME NEW w \in Writers, OpenTemporary(w) PROVE KindInv'
  <2> DEFINE f == Opens(w)
  <2>1. f \in Files
    BY <1>2, OpensTyped DEF OpenTemporary
  <2>2. /\ phase[w] = "open" /\ phase' = [phase EXCEPT ![w] = "write"]
        /\ tmp' = [tmp EXCEPT ![ProcessOf[w]] = f]
        /\ opened' = [opened EXCEPT ![w] = f]
        /\ data' = [data EXCEPT ![f] = Blank]
        /\ shared' = (shared \/ Users(ProcessOf[w]) # {})
        /\ UNCHANGED <<ledger, durable, lock, stale, robbed, loaded, tries,
                       outcome, count, acked>>
    BY <1>2, OpenedFacts
  <2> HIDE DEF f
  <2>3. shared' \in BOOLEAN
    BY <2>2 DEF KindInv, FileTypeOK
  <2>4. /\ data' \in [Files -> Data] /\ tmp' \in [Processes -> Files \cup {NoFile}]
        /\ opened' \in [Writers -> Files \cup {NoFile}]
    BY <1>0, <2>1, <2>2 DEF KindInv, FileTypeOK
  <2> QED
    BY <2>2, <2>3, <2>4 DEF KindInv, FileTypeOK, Phases, Holding
<1>3. ASSUME NEW w \in Writers, WriteTemporary(w) PROVE KindInv'
  <2>1. PICK text \in {"whole", "torn"} : data' = [data EXCEPT ![opened[w]] =
            [text |-> text, content |-> Rewritten(w), synced |-> FALSE]]
    BY <1>3 DEF WriteTemporary
  <2>2. Rewritten(w) \in Content
    BY RewrittenTyped DEF KindInv
  <2>3. [text |-> text, content |-> Rewritten(w), synced |-> FALSE] \in Data
    BY <2>2 DEF Data
  <2>4. data' \in [Files -> Data]
    BY <2>1, <2>3 DEF KindInv, FileTypeOK
  <2> QED
    BY <1>3, <2>4 DEF WriteTemporary, Proceed, lockfile, KindInv, FileTypeOK, Phases, Holding
<1>4. ASSUME NEW w \in Writers, SyncTemporary(w) PROVE KindInv'
  <2>1. data' = [data EXCEPT ![opened[w]].synced = TRUE] /\ data \in [Files -> Data]
    BY <1>4 DEF SyncTemporary, KindInv, FileTypeOK
  <2>2. \A f \in Files : [data[f] EXCEPT !.synced = TRUE] \in Data
    BY <2>1 DEF Data
  <2>3. data' \in [Files -> Data]
    BY <2>1, <2>2
  <2> QED
    BY <1>4, <2>3 DEF SyncTemporary, Proceed, lockfile, KindInv, FileTypeOK, Phases, Holding
<1>5. ASSUME NEW w \in Writers, Rename(w) PROVE KindInv'
  <2>1. ProcessOf[w] \in Processes
    BY ProcessOfAssumption
  <2>2. /\ tmp' \in [Processes -> Files \cup {NoFile}]
        /\ ledger' \in Files \cup {NoFile}
    BY <1>5, <2>1 DEF Rename, KindInv, FileTypeOK
  <2> QED
    BY <1>5, <2>2 DEF Rename, Proceed, lockfile, KindInv, FileTypeOK, Phases, Holding
<1>6. ASSUME NEW w \in Writers, SyncDirectory(w) PROVE KindInv'
  BY <1>6 DEF SyncDirectory, Leave, Proceed, lockfile, KindInv, FileTypeOK, Phases, Holding
<1>7. ASSUME NEW p \in Processes, Crash(p) PROVE KindInv'
  BY <1>7 DEF Crash, fileState, lockfile, KindInv, FileTypeOK, Phases
<1>8. CASE LockAges
  BY <1>8 DEF LockAges, fileState, KindInv, FileTypeOK
<1>9. CASE PowerLoss
  <2>1. PICK lost \in SUBSET Files :
          data' = [f \in Files |-> IF f \in lost
                     THEN [data[f] EXCEPT !.text = "torn"] ELSE data[f]]
    BY <1>9 DEF PowerLoss
  <2>2. \A f \in Files : data[f] \in Data /\ [data[f] EXCEPT !.text = "torn"] \in Data
    BY DEF KindInv, FileTypeOK, Data
  <2>3. data' \in [Files -> Data]
    BY <2>1, <2>2
  <2>4. /\ ledger' \in Files \cup {NoFile} /\ durable' \in Files \cup {NoFile}
        /\ lock' \in Writers \cup {NoLock}
    BY <1>9 DEF PowerLoss, KindInv, FileTypeOK
  <2>5. stale' \in BOOLEAN
    BY <1>9 DEF PowerLoss, KindInv, FileTypeOK
  <2> QED
    BY <1>9, <2>3, <2>4, <2>5 DEF PowerLoss, KindInv, FileTypeOK, Phases
<1>10. CASE UNCHANGED fileVars
  BY <1>10 DEF fileVars, fileState, lockfile, KindInv, FileTypeOK
<1> QED
  BY <1>1, <1>2, <1>3, <1>4, <1>5, <1>6, <1>7, <1>8, <1>9, <1>10
  DEF FileNext, WriterStep, Quiet

LEMMA TempInit == FileInit => TempInv
<1> SUFFICES ASSUME FileInit PROVE TempInv
  OBVIOUS
<1>1. \A w \in Writers : phase[w] \notin Using
  BY DEF FileInit, Using
<1>2. ledger = NoFile /\ durable = NoFile /\ \A p \in Processes : tmp[p] = NoFile
  BY DEF FileInit
<1> QED
  BY <1>1, <1>2 DEF TempInv, AloneInv, NamesInv, PastInv, Past, LedgerIntact, Intact

\* Counts grow, and a transaction does not come back to a point before opening
\* the temporary file.
Onward ==
    \A w \in Writers :
        /\ count[w] \in Nat /\ count'[w] \in Nat /\ count[w] <= count'[w]
        /\ count'[w] = count[w] /\ phase'[w] \in Early => phase[w] \in Early

LEMMA PastKept ==
    ASSUME Onward, NEW f \in Files \cup {NoFile}, Past(f)
    PROVE  f # NoFile => /\ f[2] <= count'[f[1]]
                         /\ f[2] = count'[f[1]] => phase'[f[1]] \notin Early
<1> SUFFICES ASSUME f # NoFile
             PROVE  /\ f[2] <= count'[f[1]]
                    /\ f[2] = count'[f[1]] => phase'[f[1]] \notin Early
  OBVIOUS
<1> DEFINE v == f[1]
           n == f[2]
<1>1. v \in Writers /\ n \in Nat
  BY FileFacts
<1>2. n <= count[v] /\ (n = count[v] => phase[v] \notin Early)
  BY DEF Past
<1> HIDE DEF v, n
<1>3. /\ count[v] \in Nat /\ count'[v] \in Nat /\ count[v] <= count'[v]
      /\ count'[v] = count[v] /\ phase'[v] \in Early => phase[v] \in Early
  BY <1>1 DEF Onward
<1>4. n <= count'[v] /\ (n = count'[v] => phase'[v] \notin Early)
  BY <1>1, <1>2, <1>3
<1> QED
  BY <1>4 DEF v, n

\* Steps that leave files and names alone.
LEMMA TempFrame ==
    ASSUME KindInv, TempInv, UNCHANGED fileState, Onward,
           \A w \in Writers : phase'[w] \in Using =>
              /\ phase'[w] = phase[w] /\ count'[w] = count[w] /\ loaded'[w] = loaded[w]
    PROVE  TempInv'
<1>1. UNCHANGED <<data, ledger, durable, tmp, opened>>
  BY DEF fileState
<1>2. PastInv'
  <2>1. /\ ledger \in Files \cup {NoFile} /\ durable \in Files \cup {NoFile}
        /\ \A p \in Processes : tmp[p] \in Files \cup {NoFile}
    BY DEF KindInv, FileTypeOK
  <2>2. Past(ledger) /\ Past(durable) /\ \A p \in Processes : Past(tmp[p])
    BY DEF TempInv, PastInv
  <2>3. Past(ledger)' /\ Past(durable)'
    BY <1>1, <2>1, <2>2, PastKept DEF Past
  <2>4. \A p \in Processes : Past(tmp[p])'
    BY <1>1, <2>1, <2>2, PastKept DEF Past
  <2> QED
    BY <2>3, <2>4 DEF PastInv
<1>3. NamesInv' /\ LedgerIntact'
  BY <1>1 DEF TempInv, NamesInv, LedgerIntact, Intact
<1>4. AloneInv'
  BY DEF TempInv, AloneInv
<1>5. ASSUME NEW w \in Writers, phase'[w] \in Using PROVE TempOf(w)'
  <2>1. TempOf(w) /\ phase'[w] = phase[w] /\ Rewritten(w)' = Rewritten(w)
    BY <1>5 DEF TempInv, Rewritten
  <2> QED
    BY <1>1, <2>1 DEF TempOf
<1> QED
  BY <1>2, <1>3, <1>4, <1>5 DEF TempInv

LEMMA QuietTemps == ASSUME KindInv, TempInv, NEW w \in Writers, Quiet(w) PROVE TempInv'
<1>1. UNCHANGED fileState
  BY DEF Quiet, Load, LoadFails, CreateLock, FindLock, StatLock, StealLock, LockFails,
         Compare, CommitThrows, ReleaseLock, ReleaseFails
<1>2. /\ \A v \in Writers : count[v] \in Nat /\ count[v] + 1 \in Nat
      /\ phase \in [Writers -> Phases] /\ count \in [Writers -> 0 .. MaxCommits]
      /\ loaded \in [Writers -> Content]
  BY MaxCommitsAssumption DEF KindInv, FileTypeOK
<1>3. CASE Load(w) \/ LoadFails(w)
  <2>1. /\ phase[w] = "idle" /\ phase'[w] \notin Using
        /\ count' = [count EXCEPT ![w] = @ + 1]
        /\ \A v \in Writers \ {w} : phase'[v] = phase[v] /\ loaded'[v] = loaded[v]
    BY <1>2, <1>3 DEF Load, LoadFails, Proceed, Using
  <2>2. Onward
    BY <1>2, <2>1 DEF Onward
  <2> QED
    BY <1>1, <1>2, <2>1, <2>2, TempFrame
<1>4. CASE ~ (Load(w) \/ LoadFails(w))
  <2>1. /\ count' = count /\ loaded' = loaded
        /\ \E to \in Phases : /\ phase' = [phase EXCEPT ![w] = to] /\ to \notin Using
                              /\ to \in Early => phase[w] \in Early
    BY <1>4
    DEF Quiet, CreateLock, FindLock, StatLock, StealLock, LockFails, Compare, Leave,
        CommitThrows, ReleaseLock, ReleaseFails, Proceed, Phases, Holding, Using, Early
  <2>2. Onward
    BY <1>2, <2>1 DEF Onward
  <2> QED
    BY <1>1, <1>2, <2>1, <2>2, TempFrame
<1> QED
  BY <1>3, <1>4

\* A step that changes only the file of the one writer that uses a temporary.
LEMMA TempChange ==
    ASSUME KindInv, TempInv, NEW w \in Writers, phase[w] \in Using,
           NEW to \in Using, phase' = [phase EXCEPT ![w] = to],
           NEW d, data' = [data EXCEPT ![opened[w]] = d],
           UNCHANGED <<ledger, durable, tmp, opened, count, loaded>>,
           to # "write", d.text = "whole", d.content = Rewritten(w),
           to = "rename" => d.synced
    PROVE  TempInv'
<1> DEFINE f == opened[w]
<1>1. f \in Files /\ tmp[ProcessOf[w]] = f /\ ProcessOf[w] \in Processes
  BY ProcessOfAssumption DEF TempInv, TempOf, KindInv, FileTypeOK
<1>2. /\ phase'[w] = to /\ \A v \in Writers \ {w} : phase'[v] = phase[v]
      /\ data'[f] = d /\ \A g \in Files \ {f} : data'[g] = data[g]
  BY <1>1 DEF KindInv, FileTypeOK
<1>3. f # ledger /\ f # durable
  BY <1>1, NothingAssumption DEF TempInv, NamesInv
<1>4. PastInv'
  <2>1. Onward
    BY <1>2, MaxCommitsAssumption DEF Onward, KindInv, FileTypeOK, Using, Early
  <2>2. /\ ledger \in Files \cup {NoFile} /\ durable \in Files \cup {NoFile}
        /\ \A p \in Processes : tmp[p] \in Files \cup {NoFile}
        /\ Past(ledger) /\ Past(durable) /\ \A p \in Processes : Past(tmp[p])
    BY DEF KindInv, FileTypeOK, TempInv, PastInv
  <2>3. Past(ledger)' /\ Past(durable)'
    BY <2>1, <2>2, PastKept DEF Past
  <2>4. \A p \in Processes : Past(tmp[p])'
    BY <2>1, <2>2, PastKept DEF Past
  <2> QED
    BY <2>3, <2>4 DEF PastInv
<1>5. NamesInv' /\ AloneInv'
  BY <1>2 DEF TempInv, NamesInv, AloneInv
<1>6. LedgerIntact'
  BY <1>2, <1>3 DEF TempInv, LedgerIntact, Intact, KindInv, FileTypeOK
<1>7. ASSUME NEW v \in Writers, phase'[v] \in Using PROVE TempOf(v)'
  <2>1. CASE v = w
    <3>1. Rewritten(w)' = Rewritten(w)
      BY DEF Rewritten
    <3> QED
      BY <1>1, <1>2, <2>1, <3>1, NothingAssumption DEF TempOf, Using
  <2>2. CASE v # w
    <3>1. phase'[v] = phase[v] /\ TempOf(v) /\ Rewritten(v)' = Rewritten(v)
      BY <1>2, <1>7, <2>2 DEF TempInv, Rewritten
    <3>2. opened[v] # f /\ opened[v] \in Files
      <4>1. ProcessOf[v] # ProcessOf[w] /\ ProcessOf[v] \in Processes
        BY <1>7, <2>2, <3>1, ProcessOfAssumption DEF TempInv, AloneInv
      <4>2. tmp[ProcessOf[v]] = opened[v] /\ opened[v] # NoFile
        BY <3>1 DEF TempOf
      <4> QED
        BY <1>1, <4>1, <4>2 DEF TempInv, NamesInv, KindInv, FileTypeOK
    <3>3. data'[opened[v]] = data[opened[v]]
      BY <1>2, <3>2
    <3> QED
      BY <3>1, <3>3 DEF TempOf
  <2> QED
    BY <2>1, <2>2
<1> QED
  BY <1>4, <1>5, <1>6, <1>7 DEF TempInv

LEMMA OpenTemps ==
    ASSUME KindInv, TempInv, NEW w \in Writers, OpenTemporary(w), ~ shared'
    PROVE  TempInv'
<1> DEFINE f == Opens(w)
           p == ProcessOf[w]
<1>1. f \in Files /\ f # NoFile /\ p \in Processes
  BY OpensTyped, ProcessOfAssumption DEF OpenTemporary
<1>2. /\ phase[w] = "open" /\ phase' = [phase EXCEPT ![w] = "write"]
      /\ tmp' = [tmp EXCEPT ![p] = f]
      /\ opened' = [opened EXCEPT ![w] = f]
      /\ data' = [data EXCEPT ![f] = Blank]
      /\ Users(p) = {}
      /\ UNCHANGED <<ledger, durable, loaded, count>>
  BY OpenedFacts
<1>3. f = IF tmp[p] = NoFile THEN <<w, count[w]>> ELSE tmp[p]
  BY DEF Opens
<1>4. count[w] \in 1 .. MaxCommits
  BY <1>2, MaxCommitsAssumption DEF KindInv, FileTypeOK
<1> HIDE DEF f
<1>5. /\ phase'[w] = "write" /\ \A v \in Writers \ {w} : phase'[v] = phase[v]
      /\ data'[f] = Blank /\ \A g \in Files \ {f} : data'[g] = data[g]
      /\ tmp'[p] = f /\ \A q \in Processes \ {p} : tmp'[q] = tmp[q]
      /\ opened'[w] = f /\ \A v \in Writers \ {w} : opened'[v] = opened[v]
  BY <1>1, <1>2 DEF KindInv, FileTypeOK
<1>6. f # ledger /\ f # durable /\ \A q \in Processes \ {p} : tmp[q] # f
  <2>1. CASE tmp[p] # NoFile
    BY <1>1, <1>3, <2>1 DEF TempInv, NamesInv
  <2>2. CASE tmp[p] = NoFile
    <3>1. f[1] = w /\ f[2] = count[w]
      BY <1>3, <1>4, <2>2, FileFacts
    <3>2. ~ Past(f)
      BY <1>1, <1>2, <3>1 DEF Past, Early
    <3> QED
      BY <3>2 DEF TempInv, PastInv
  <2> QED
    BY <2>1, <2>2
<1>7. PastInv'
  <2>1. Onward
    BY <1>2, <1>5, MaxCommitsAssumption DEF Onward, KindInv, FileTypeOK, Early
  <2>2. /\ ledger \in Files \cup {NoFile} /\ durable \in Files \cup {NoFile}
        /\ \A q \in Processes : tmp[q] \in Files \cup {NoFile}
        /\ Past(ledger) /\ Past(durable) /\ \A q \in Processes : Past(tmp[q])
    BY DEF KindInv, FileTypeOK, TempInv, PastInv
  <2>3. Past(ledger)' /\ Past(durable)'
    BY <1>2, <2>1, <2>2, PastKept DEF Past
  <2>4. ASSUME NEW q \in Processes PROVE Past(tmp[q])'
    <3>1. CASE tmp'[q] = tmp[q]
      BY <2>1, <2>2, <3>1, PastKept DEF Past
    <3>2. CASE q = p /\ tmp[p] = NoFile
      <4>1. f[1] = w /\ f[2] = count[w] /\ count[w] \in Nat
        BY <1>3, <1>4, <3>2, FileFacts
      <4> QED
        BY <1>2, <1>5, <3>2, <4>1 DEF Past, Early
    <3> QED
      BY <1>3, <1>5, <3>1, <3>2
  <2> QED
    BY <2>3, <2>4 DEF PastInv
<1>8. NamesInv'
  BY <1>1, <1>2, <1>5, <1>6 DEF TempInv, NamesInv
<1>9. AloneInv'
  BY <1>2, <1>5 DEF TempInv, AloneInv, Users
<1>10. LedgerIntact'
  BY <1>2, <1>5, <1>6 DEF TempInv, LedgerIntact, Intact, KindInv, FileTypeOK
<1>11. ASSUME NEW v \in Writers, phase'[v] \in Using PROVE TempOf(v)'
  <2>1. CASE v = w
    BY <1>1, <1>5, <2>1 DEF TempOf, Blank
  <2>2. CASE v # w
    <3>1. phase'[v] = phase[v] /\ TempOf(v) /\ Rewritten(v)' = Rewritten(v)
      BY <1>2, <1>5, <1>11, <2>2 DEF TempInv, Rewritten
    <3>2. ProcessOf[v] # p /\ ProcessOf[v] \in Processes
      BY <1>2, <1>11, <3>1, ProcessOfAssumption DEF Users
    <3>3. opened[v] # f /\ opened[v] \in Files /\ opened[v] # NoFile
      BY <1>6, <3>1, <3>2 DEF TempOf, KindInv, FileTypeOK
    <3>4. /\ data'[opened[v]] = data[opened[v]] /\ opened'[v] = opened[v]
          /\ tmp'[ProcessOf[v]] = tmp[ProcessOf[v]]
      BY <1>5, <2>2, <3>2, <3>3
    <3> QED
      BY <3>1, <3>3, <3>4 DEF TempOf
  <2> QED
    BY <2>1, <2>2
<1> QED
  BY <1>7, <1>8, <1>9, <1>10, <1>11 DEF TempInv

\* What has been written and renamed.
LEMMA RenamedFacts ==
    ASSUME KindInv, TempInv, NEW w \in Writers, Rename(w)
    PROVE  /\ opened[w] \in Files /\ opened[w] # NoFile
           /\ ledger' = opened[w] /\ tmp[ProcessOf[w]] = opened[w]
           /\ tmp' = [tmp EXCEPT ![ProcessOf[w]] = NoFile]
           /\ phase[w] = "rename" /\ phase' = [phase EXCEPT ![w] = "fsync"]
           /\ data[opened[w]].text = "whole" /\ data[opened[w]].synced
           /\ data[opened[w]].content = Rewritten(w)
           /\ UNCHANGED <<data, durable, opened, shared, loaded, count>>
BY DEF Rename, Proceed, TempInv, TempOf, Using, KindInv, FileTypeOK

LEMMA RenameTemps ==
    ASSUME KindInv, TempInv, NEW w \in Writers, Rename(w) PROVE TempInv'
<1> DEFINE f == opened[w]
           p == ProcessOf[w]
<1>1. /\ f \in Files /\ f # NoFile /\ ledger' = f /\ tmp[p] = f
      /\ tmp' = [tmp EXCEPT ![p] = NoFile]
      /\ phase[w] = "rename" /\ phase' = [phase EXCEPT ![w] = "fsync"]
      /\ data[f].text = "whole" /\ data[f].synced
      /\ UNCHANGED <<data, durable, opened, loaded, count>>
      /\ p \in Processes
  BY RenamedFacts, ProcessOfAssumption
<1> HIDE DEF f
<1>2. /\ phase'[w] = "fsync" /\ \A v \in Writers \ {w} : phase'[v] = phase[v]
      /\ tmp'[p] = NoFile /\ \A q \in Processes \ {p} : tmp'[q] = tmp[q]
  BY <1>1 DEF KindInv, FileTypeOK
<1>3. PastInv'
  <2>1. Onward
    BY <1>1, <1>2, MaxCommitsAssumption DEF Onward, KindInv, FileTypeOK, Early
  <2>2. /\ durable \in Files \cup {NoFile} /\ Past(durable)
        /\ \A q \in Processes : tmp[q] \in Files \cup {NoFile} /\ Past(tmp[q])
    BY DEF KindInv, FileTypeOK, TempInv, PastInv
  <2>3. Past(ledger)' /\ Past(durable)'
    BY <1>1, <2>1, <2>2, PastKept DEF Past
  <2>4. \A q \in Processes : Past(tmp[q])'
    BY <1>2, <2>1, <2>2, PastKept DEF Past
  <2> QED
    BY <2>3, <2>4 DEF PastInv
<1>4. NamesInv'
  BY <1>1, <1>2 DEF TempInv, NamesInv
<1>5. AloneInv'
  BY <1>2 DEF TempInv, AloneInv, Using
<1>6. LedgerIntact'
  BY <1>1 DEF TempInv, LedgerIntact, Intact
<1>7. ASSUME NEW v \in Writers, phase'[v] \in Using PROVE TempOf(v)'
  <2>1. v # w /\ phase'[v] = phase[v] /\ TempOf(v) /\ Rewritten(v)' = Rewritten(v)
    BY <1>1, <1>2, <1>7 DEF TempInv, Rewritten, Using
  <2>2. ProcessOf[v] # p /\ ProcessOf[v] \in Processes
    BY <1>1, <1>7, <2>1, ProcessOfAssumption DEF TempInv, AloneInv, Using
  <2> QED
    BY <1>1, <1>2, <2>1, <2>2 DEF TempOf
<1> QED
  BY <1>3, <1>4, <1>5, <1>6, <1>7 DEF TempInv

LEMMA SharedStays ==
    ASSUME [FileNext]_fileVars, shared \in BOOLEAN, ~ shared' PROVE ~ shared
BY DEF FileNext, WriterStep, Load, LoadFails, CreateLock, FindLock, StatLock, StealLock,
       LockFails, Compare, OpenTemporary, WriteTemporary, SyncTemporary, Rename,
       SyncDirectory, CommitThrows, ReleaseLock, ReleaseFails, Crash, LockAges, PowerLoss,
       fileVars, fileState

LEMMA TempNext ==
    ASSUME KindInv, TempInv, [FileNext]_fileVars, ~ shared' PROVE TempInv'
<1>0. /\ phase \in [Writers -> Phases] /\ data \in [Files -> Data]
      /\ \A v \in Writers : count[v] \in Nat
  BY MaxCommitsAssumption DEF KindInv, FileTypeOK
<1>1. ASSUME NEW w \in Writers, Quiet(w) PROVE TempInv'
  BY <1>1, QuietTemps
<1>2. ASSUME NEW w \in Writers, OpenTemporary(w) PROVE TempInv'
  BY <1>2, OpenTemps
<1>3. ASSUME NEW w \in Writers, WriteTemporary(w) PROVE TempInv'
  <2> DEFINE d == [text |-> "whole", content |-> Rewritten(w), synced |-> FALSE]
  <2>1. /\ phase[w] = "write" /\ phase' = [phase EXCEPT ![w] = "sync"]
        /\ UNCHANGED <<ledger, durable, tmp, opened, count, loaded>>
        /\ \E text \in {"whole", "torn"} :
             /\ text = "torn" => data[opened[w]].text # "blank"
             /\ data' = [data EXCEPT ![opened[w]] =
                   [text |-> text, content |-> Rewritten(w), synced |-> FALSE]]
    BY <1>3 DEF WriteTemporary, Proceed
  <2>2. data[opened[w]].text = "blank"
    BY <2>1 DEF TempInv, TempOf, Using
  <2>3. data' = [data EXCEPT ![opened[w]] = d]
    BY <2>1, <2>2
  <2>4. d.text = "whole" /\ d.content = Rewritten(w)
    OBVIOUS
  <2> HIDE DEF d
  <2>5. phase[w] \in Using /\ "sync" \in Using /\ "sync" # "write" /\ "sync" # "rename"
    BY <2>1 DEF Using
  <2> QED
    BY <2>1, <2>3, <2>4, <2>5, TempChange
<1>4. ASSUME NEW w \in Writers, SyncTemporary(w) PROVE TempInv'
  <2> DEFINE d == [data[opened[w]] EXCEPT !.synced = TRUE]
  <2>1. /\ phase[w] = "sync" /\ phase' = [phase EXCEPT ![w] = "rename"]
        /\ data' = [data EXCEPT ![opened[w]].synced = TRUE]
        /\ UNCHANGED <<ledger, durable, tmp, opened, count, loaded>>
    BY <1>4 DEF SyncTemporary, Proceed
  <2>2. /\ opened[w] \in Files /\ data[opened[w]].text = "whole"
        /\ data[opened[w]].content = Rewritten(w)
    BY <2>1 DEF TempInv, TempOf, Using, KindInv, FileTypeOK
  <2>3. data' = [data EXCEPT ![opened[w]] = d]
    BY <2>1, <2>2
  <2>4. d.text = "whole" /\ d.content = Rewritten(w) /\ d.synced
    BY <1>0, <2>2 DEF Data
  <2> HIDE DEF d
  <2>5. phase[w] \in Using /\ "rename" \in Using /\ "rename" # "write"
    BY <2>1 DEF Using
  <2> QED
    BY <2>1, <2>3, <2>4, <2>5, TempChange
<1>5. ASSUME NEW w \in Writers, Rename(w) PROVE TempInv'
  BY <1>5, RenameTemps
<1>6. ASSUME NEW w \in Writers, SyncDirectory(w) PROVE TempInv'
  <2>1. /\ phase[w] = "fsync" /\ durable' = ledger
        /\ UNCHANGED <<data, ledger, tmp, opened, count, loaded>>
        /\ phase'[w] = "release" /\ \A v \in Writers \ {w} : phase'[v] = phase[v]
    BY <1>0, <1>6 DEF SyncDirectory, Leave, Proceed
  <2>2. \A v \in Writers : (phase'[v] \in Using \cup Early) => phase'[v] = phase[v]
    BY <2>1 DEF Using, Early
  <2>3. PastInv'
    BY <2>1, <2>2 DEF TempInv, PastInv, Past, KindInv, FileTypeOK, Files
  <2>4. NamesInv' /\ LedgerIntact'
    BY <2>1 DEF TempInv, NamesInv, LedgerIntact, Intact
  <2>5. AloneInv'
    BY <2>2 DEF TempInv, AloneInv
  <2>6. ASSUME NEW v \in Writers, phase'[v] \in Using PROVE TempOf(v)'
    <3>1. phase'[v] = phase[v] /\ TempOf(v) /\ Rewritten(v)' = Rewritten(v)
      BY <2>1, <2>2, <2>6 DEF TempInv, Rewritten
    <3> QED
      BY <2>1, <3>1 DEF TempOf
  <2> QED
    BY <2>3, <2>4, <2>5, <2>6 DEF TempInv
<1>7. ASSUME NEW p \in Processes, Crash(p) PROVE TempInv'
  <2>1. /\ UNCHANGED fileState /\ count' = count /\ loaded' = loaded
        /\ \A v \in Writers : phase'[v] \in {"idle", phase[v]}
    BY <1>7 DEF Crash
  <2>2. Onward
    BY <1>0, <2>1 DEF Onward, Early
  <2> QED
    BY <2>1, <2>2, TempFrame DEF Using
<1>8. CASE LockAges \/ UNCHANGED fileVars
  <2>1. UNCHANGED <<fileState, phase, count, loaded>>
    BY <1>8 DEF LockAges, fileVars
  <2>2. Onward
    BY <1>0, <2>1 DEF Onward
  <2> QED
    BY <2>1, <2>2, TempFrame
<1>9. CASE PowerLoss
  <2>1. PICK lost \in SUBSET {f \in Files : ~ data[f].synced} :
          data' = [f \in Files |-> IF f \in lost
                     THEN [data[f] EXCEPT !.text = "torn"] ELSE data[f]]
    BY <1>9 DEF PowerLoss
  <2>2. /\ ledger' \in {ledger, durable} /\ durable' = ledger'
        /\ UNCHANGED <<tmp, count>> /\ \A v \in Writers : phase'[v] = "idle"
    BY <1>9 DEF PowerLoss
  <2>3. PastInv'
    BY <2>2 DEF TempInv, PastInv, Past, KindInv, FileTypeOK, Files, Early
  <2>4. NamesInv'
    BY <2>2 DEF TempInv, NamesInv
  <2>5. LedgerIntact'
    BY <2>1, <2>2 DEF TempInv, LedgerIntact, Intact, KindInv, FileTypeOK
  <2> QED
    BY <2>2, <2>3, <2>4, <2>5 DEF TempInv, AloneInv, Using
<1> QED
  BY <1>1, <1>2, <1>3, <1>4, <1>5, <1>6, <1>7, <1>8, <1>9 DEF FileNext, WriterStep, Quiet

\* What the ledger holds now and after a loss of power.
Now == ContentOf(ledger)
Kept == ContentOf(durable)

\* What holds of a writer between its steps.
WriterInv(w) ==
    /\ phase[w] \in Holding => lock = w
    /\ phase[w] # "idle" =>
          /\ loaded[w].version <= Now.version
          /\ loaded[w].version = Now.version => loaded[w] = Now
    /\ phase[w] \in {"open"} \cup Using => Now = loaded[w]
    /\ phase[w] = "fsync" => <<w, count[w]>> \in Now.writes
    /\ phase[w] = "release" /\ outcome[w] = "committed" =>
          <<w, count[w]>> \in Now.writes \cap Kept.writes

\* While nobody was robbed of a lockfile.
LockInv ==
    /\ acked \subseteq Now.writes \cap Kept.writes
    /\ \A w \in Writers : WriterInv(w)

LEMMA LockInit == FileInit => LockInv
<1> SUFFICES ASSUME FileInit PROVE LockInv
  OBVIOUS
<1>1. acked = {} /\ \A w \in Writers : phase[w] = "idle"
  BY DEF FileInit
<1> QED
  BY <1>1 DEF LockInv, WriterInv, Holding, Using

\* Where the lock is, nobody else is in the critical section.
LEMMA Alone ==
    ASSUME LockInv, NEW w \in Writers, lock = w \/ lock = NoLock
    PROVE  \A v \in Writers \ {w} : phase[v] \notin Holding
BY NothingAssumption DEF LockInv, WriterInv

\* A step of w that leaves the ledger alone, and all other writers.
LEMMA LockFrame ==
    ASSUME KindInv, LockInv, NEW w \in Writers, Now' = Now, Kept' = Kept,
           acked' \subseteq Now.writes \cap Kept.writes,
           \A v \in Writers \ {w} :
              /\ phase'[v] = phase[v] /\ loaded'[v] = loaded[v]
              /\ outcome'[v] = outcome[v] /\ count'[v] = count[v]
              /\ phase[v] \in Holding => lock' = lock,
           WriterInv(w)'
    PROVE  LockInv'
<1>1. ASSUME NEW v \in Writers, v # w PROVE WriterInv(v)'
  <2>1. /\ phase'[v] = phase[v] /\ loaded'[v] = loaded[v] /\ outcome'[v] = outcome[v]
        /\ count'[v] = count[v] /\ (phase[v] \in Holding => lock' = lock)
        /\ WriterInv(v)
    BY <1>1 DEF LockInv
  <2> QED
    BY <2>1 DEF WriterInv
<1> QED
  BY <1>1 DEF LockInv

LEMMA QuietLocks ==
    ASSUME KindInv, LockInv, NEW w \in Writers, Quiet(w), ~ robbed' PROVE LockInv'
<1>1. Now' = Now /\ Kept' = Kept
  BY DEF Quiet, Load, LoadFails, CreateLock, FindLock, StatLock, StealLock, LockFails,
         Compare, CommitThrows, ReleaseLock, ReleaseFails, fileState, Now, Kept, ContentOf
<1>2. /\ phase \in [Writers -> Phases] /\ loaded \in [Writers -> Content]
      /\ outcome \in [Writers -> {"none", "committed", "lost", "throws"}]
      /\ count \in [Writers -> 0 .. MaxCommits]
      /\ \A v \in Writers : phase[v] = "release" <=> outcome[v] # "none"
  BY DEF KindInv, FileTypeOK
<1>3. Now \in Content /\ Now.version \in Nat
  BY LedgerTyped DEF KindInv, Now, Content
<1>4. acked \subseteq Now.writes \cap Kept.writes /\ WriterInv(w)
  BY DEF LockInv
<1>5. CASE Load(w)
  <2>1. /\ phase'[w] = "lock" /\ loaded'[w] = Now /\ acked' = acked /\ lock' = lock
        /\ \A v \in Writers \ {w} :
             /\ phase'[v] = phase[v] /\ loaded'[v] = loaded[v]
             /\ outcome'[v] = outcome[v] /\ count'[v] = count[v]
    BY <1>2, <1>5 DEF Load, Proceed, lockfile, Now
  <2>2. WriterInv(w)'
    BY <1>1, <1>3, <2>1 DEF WriterInv, Holding, Using
  <2> QED
    BY <1>1, <1>4, <2>1, <2>2, LockFrame
<1>6. CASE LoadFails(w)
  <2>1. /\ phase'[w] = "idle" /\ acked' = acked /\ lock' = lock
        /\ \A v \in Writers \ {w} :
             /\ phase'[v] = phase[v] /\ loaded'[v] = loaded[v]
             /\ outcome'[v] = outcome[v] /\ count'[v] = count[v]
    BY <1>2, <1>6 DEF LoadFails, lockfile
  <2>2. WriterInv(w)'
    BY <2>1 DEF WriterInv, Holding, Using
  <2> QED
    BY <1>1, <1>4, <2>1, <2>2, LockFrame
<1>7. CASE CreateLock(w)
  <2>1. /\ phase[w] = "lock" /\ phase'[w] = "read" /\ lock = NoLock /\ lock' = w
        /\ acked' = acked /\ UNCHANGED <<loaded, outcome, count>>
        /\ \A v \in Writers \ {w} : phase'[v] = phase[v]
    BY <1>2, <1>7 DEF CreateLock, Proceed
  <2>2. \A v \in Writers \ {w} : phase[v] \notin Holding
    BY <2>1, Alone
  <2>3. WriterInv(w)'
    BY <1>1, <1>4, <2>1 DEF WriterInv, Holding, Using
  <2> QED
    BY <1>1, <1>4, <2>1, <2>2, <2>3, LockFrame
<1>8. CASE FindLock(w) \/ StatLock(w)
  <2>1. /\ phase[w] \in {"lock", "stat"} /\ phase'[w] \in {"lock", "stat", "steal"}
        /\ lock' = lock /\ acked' = acked /\ UNCHANGED <<loaded, outcome, count>>
        /\ \A v \in Writers \ {w} : phase'[v] = phase[v]
    BY <1>2, <1>8 DEF FindLock, StatLock, Proceed, lockfile
  <2>2. WriterInv(w)'
    BY <1>1, <1>4, <2>1 DEF WriterInv, Holding, Using
  <2> QED
    BY <1>1, <1>4, <2>1, <2>2, LockFrame
<1>9. CASE StealLock(w)
  <2>1. /\ phase[w] = "steal" /\ phase'[w] = "lock"
        /\ acked' = acked /\ UNCHANGED <<loaded, outcome, count>>
        /\ \A v \in Writers \ {w} : phase'[v] = phase[v]
        /\ lock' = lock \/ lock = NoLock \/ phase[lock] \notin Holding
    BY <1>2, <1>9 DEF StealLock, Proceed, lockfile
  <2>2. \A v \in Writers : phase[v] \in Holding => lock' = lock
    BY <2>1, NothingAssumption DEF LockInv, WriterInv
  <2>3. WriterInv(w)'
    BY <1>1, <1>4, <2>1 DEF WriterInv, Holding, Using
  <2> QED
    BY <1>1, <1>4, <2>1, <2>2, <2>3, LockFrame
<1>10. CASE LockFails(w)
  <2>1. /\ phase'[w] = "idle" /\ acked' = acked /\ lock' = lock
        /\ UNCHANGED <<loaded, outcome, count>>
        /\ \A v \in Writers \ {w} : phase'[v] = phase[v]
    BY <1>2, <1>10 DEF LockFails, Proceed, lockfile
  <2>2. WriterInv(w)'
    BY <2>1 DEF WriterInv, Holding, Using
  <2> QED
    BY <1>1, <1>4, <2>1, <2>2, LockFrame
<1>11. CASE Compare(w)
  <2>1. /\ phase[w] = "read" /\ acked' = acked /\ lock' = lock
        /\ UNCHANGED <<loaded, count>>
        /\ \A v \in Writers \ {w} : phase'[v] = phase[v] /\ outcome'[v] = outcome[v]
        /\ \/ phase'[w] = "open" /\ Now.version = loaded[w].version
           \/ phase'[w] = "release" /\ outcome'[w] = "lost"
    BY <1>2, <1>11 DEF Compare, Leave, Proceed, lockfile, Now
  <2>2. /\ lock = w /\ loaded[w].version <= Now.version
        /\ loaded[w].version = Now.version => loaded[w] = Now
    BY <1>4, <2>1 DEF WriterInv, Holding
  <2>3. WriterInv(w)'
    BY <1>1, <2>1, <2>2 DEF WriterInv, Using
  <2> QED
    BY <1>1, <1>4, <2>1, <2>3, LockFrame
<1>12. CASE CommitThrows(w)
  <2>1. /\ phase[w] \in Holding /\ phase'[w] = "release" /\ outcome'[w] = "throws"
        /\ acked' = acked /\ lock' = lock /\ UNCHANGED <<loaded, count>>
        /\ \A v \in Writers \ {w} : phase'[v] = phase[v] /\ outcome'[v] = outcome[v]
    BY <1>2, <1>12 DEF CommitThrows, Leave, Proceed, lockfile
  <2>2. /\ lock = w /\ loaded[w].version <= Now.version
        /\ loaded[w].version = Now.version => loaded[w] = Now
    BY <1>4, <2>1 DEF WriterInv, Holding
  <2>3. WriterInv(w)'
    BY <1>1, <2>1, <2>2 DEF WriterInv, Using
  <2> QED
    BY <1>1, <1>4, <2>1, <2>3, LockFrame
<1>13. CASE ReleaseLock(w)
  <2>1. /\ phase[w] = "release" /\ phase'[w] = "idle" /\ UNCHANGED <<loaded, count>>
        /\ acked' = IF outcome[w] = "committed" THEN acked \cup {<<w, count[w]>>}
                    ELSE acked
        /\ \A v \in Writers \ {w} : phase'[v] = phase[v] /\ outcome'[v] = outcome[v]
    BY <1>2, <1>13 DEF ReleaseLock, Proceed
  <2>2. \A v \in Writers \ {w} : phase[v] \notin Holding
    BY <1>4, <2>1, Alone DEF WriterInv, Holding
  <2>3. acked' \subseteq Now.writes \cap Kept.writes
    BY <1>4, <2>1 DEF WriterInv
  <2>4. WriterInv(w)'
    BY <2>1 DEF WriterInv, Holding, Using
  <2> QED
    BY <1>1, <2>1, <2>2, <2>3, <2>4, LockFrame
<1>14. CASE ReleaseFails(w)
  <2>1. /\ phase'[w] = "idle" /\ UNCHANGED <<loaded, count>>
        /\ acked' = acked /\ lock' = lock
        /\ \A v \in Writers \ {w} : phase'[v] = phase[v] /\ outcome'[v] = outcome[v]
    BY <1>2, <1>14 DEF ReleaseFails, Proceed, lockfile
  <2>2. WriterInv(w)'
    BY <2>1 DEF WriterInv, Holding, Using
  <2> QED
    BY <1>1, <1>4, <2>1, <2>2, LockFrame
<1> QED
  BY <1>5, <1>6, <1>7, <1>8, <1>9, <1>10, <1>11, <1>12, <1>13, <1>14 DEF Quiet

\* The one writer in the critical section shares no temporary file.
LEMMA NotShared ==
    ASSUME KindInv, LockInv, ~ shared, [FileNext]_fileVars PROVE ~ shared'
<1>1. ASSUME NEW w \in Writers, OpenTemporary(w) PROVE ~ shared'
  <2>1. phase[w] = "open" /\ lock = w
    BY <1>1 DEF OpenTemporary, LockInv, WriterInv, Holding
  <2>2. \A v \in Writers \ {w} : phase[v] \notin Holding
    BY <2>1, Alone
  <2>3. Users(ProcessOf[w]) = {}
    BY <2>1, <2>2 DEF Users, Using, Holding
  <2> QED
    BY <1>1, <2>3, OpenedFacts
<1>2. CASE UNCHANGED shared
  BY <1>2
<1> QED
  BY <1>1, <1>2
  DEF FileNext, WriterStep, Load, LoadFails, CreateLock, FindLock, StatLock, StealLock,
      LockFails, Compare, WriteTemporary, SyncTemporary, Rename, SyncDirectory,
      CommitThrows, ReleaseLock, ReleaseFails, Crash, LockAges, PowerLoss,
      fileVars, fileState

\* Opening, writing and syncing the temporary file leaves the ledger alone.
LEMMA TemporaryLocks ==
    ASSUME KindInv, TempInv, LockInv, NEW w \in Writers,
           phase[w] \in {"open", "write", "sync"},
           NEW to \in Using, phase' = [phase EXCEPT ![w] = to],
           NEW f \in Files, NEW d, data' = [data EXCEPT ![f] = d],
           f # ledger, f # durable,
           UNCHANGED <<ledger, durable, lock, loaded, outcome, count, acked>>
    PROVE  LockInv'
<1>1. Now' = Now /\ Kept' = Kept
  BY DEF Now, Kept, ContentOf, KindInv, FileTypeOK
<1>2. phase'[w] = to /\ \A v \in Writers \ {w} : phase'[v] = phase[v]
  BY DEF KindInv, FileTypeOK
<1>3. WriterInv(w)
  BY DEF LockInv
<1>4. WriterInv(w)'
  BY <1>1, <1>2, <1>3 DEF WriterInv, Holding, Using
<1>5. acked \subseteq Now.writes \cap Kept.writes
  BY DEF LockInv
<1> QED
  BY <1>1, <1>2, <1>4, <1>5, LockFrame

LEMMA LockNext ==
    ASSUME KindInv, TempInv, LockInv, [FileNext]_fileVars, ~ shared', ~ robbed'
    PROVE  LockInv'
<1>0. /\ phase \in [Writers -> Phases] /\ data \in [Files -> Data]
      /\ outcome \in [Writers -> {"none", "committed", "lost", "throws"}]
      /\ Now \in Content /\ Now.version \in Nat
      /\ \A v \in Writers : loaded[v].version \in Nat
      /\ acked \subseteq Now.writes \cap Kept.writes
  BY LedgerTyped DEF KindInv, FileTypeOK, LockInv, Now, Content
<1>1. ASSUME NEW w \in Writers, Quiet(w) PROVE LockInv'
  BY <1>1, QuietLocks
<1>2. ASSUME NEW w \in Writers, OpenTemporary(w) PROVE LockInv'
  <2> DEFINE f == Opens(w)
  <2>1. f \in Files /\ f # NoFile
    BY <1>2, OpensTyped DEF OpenTemporary
  <2>2. /\ phase[w] = "open" /\ phase' = [phase EXCEPT ![w] = "write"]
        /\ data' = [data EXCEPT ![f] = Blank]
        /\ UNCHANGED <<ledger, durable, lock, loaded, outcome, count, acked>>
    BY <1>2, OpenedFacts
  <2>3. f # ledger /\ f # durable
    <3>1. CASE tmp[ProcessOf[w]] # NoFile
      BY <3>1, ProcessOfAssumption DEF TempInv, NamesInv, Opens
    <3>2. CASE tmp[ProcessOf[w]] = NoFile
      <4>1. count[w] \in 1 .. MaxCommits
        BY <2>2, MaxCommitsAssumption DEF KindInv, FileTypeOK
      <4>2. f[1] = w /\ f[2] = count[w]
        BY <3>2, <4>1, FileFacts DEF Opens
      <4>3. ~ Past(f)
        BY <2>1, <2>2, <4>2 DEF Past, Early
      <4> QED
        BY <4>3 DEF TempInv, PastInv
    <3> QED
      BY <3>1, <3>2
  <2> HIDE DEF f
  <2>4. "write" \in Using
    BY DEF Using
  <2> QED
    BY <2>1, <2>2, <2>3, <2>4, TemporaryLocks
<1>3. ASSUME NEW w \in Writers, WriteTemporary(w) \/ SyncTemporary(w) PROVE LockInv'
  <2>1. phase[w] \in {"write", "sync"} /\ phase[w] \in Using
    BY <1>3 DEF WriteTemporary, SyncTemporary, Using
  <2>2. opened[w] \in Files /\ opened[w] # ledger /\ opened[w] # durable
    BY <2>1, ProcessOfAssumption
    DEF TempInv, TempOf, NamesInv, KindInv, FileTypeOK
  <2>3. /\ \E to \in Using : phase' = [phase EXCEPT ![w] = to]
        /\ UNCHANGED <<ledger, durable, lock, loaded, outcome, count, acked>>
    BY <1>3 DEF WriteTemporary, SyncTemporary, Proceed, Using, lockfile
  <2>4. \E d : data' = [data EXCEPT ![opened[w]] = d]
    <3>1. CASE WriteTemporary(w)
      BY <3>1 DEF WriteTemporary
    <3>2. CASE SyncTemporary(w)
      <4>1. data' = [data EXCEPT ![opened[w]] = [data[opened[w]] EXCEPT !.synced = TRUE]]
        BY <1>0, <2>2, <3>2 DEF SyncTemporary
      <4> QED
        BY <4>1
    <3> QED
      BY <1>3, <3>1, <3>2
  <2> QED
    BY <2>1, <2>2, <2>3, <2>4, TemporaryLocks
<1>4. ASSUME NEW w \in Writers, Rename(w) PROVE LockInv'
  <2>1. /\ ledger' = opened[w] /\ opened[w] # NoFile
        /\ phase[w] = "rename" /\ phase' = [phase EXCEPT ![w] = "fsync"]
        /\ data[opened[w]].content = Rewritten(w)
        /\ UNCHANGED <<data, durable, loaded, count>>
    BY <1>4, RenamedFacts
  <2>2. UNCHANGED <<lock, outcome, acked>>
    BY <1>4 DEF Rename, lockfile
  <2>3. Now = loaded[w] /\ lock = w /\ WriterInv(w)
    BY <2>1 DEF LockInv, WriterInv, Holding, Using
  <2>4. Now' = Rewritten(w) /\ Kept' = Kept
    BY <2>1 DEF Now, Kept, ContentOf
  <2>5. /\ Now'.version = Now.version + 1 /\ Now'.writes = Now.writes \cup {<<w, count[w]>>}
    BY <2>3, <2>4 DEF Rewritten
  <2>6. phase'[w] = "fsync" /\ \A v \in Writers \ {w} : phase'[v] = phase[v]
    BY <1>0, <2>1
  <2>7. WriterInv(w)'
    <3>1. loaded[w].version <= Now'.version /\ loaded[w].version # Now'.version
      BY <1>0, <2>3, <2>5
    <3> QED
      BY <2>1, <2>2, <2>3, <2>5, <2>6, <3>1 DEF WriterInv, Using
  <2>8. ASSUME NEW v \in Writers, v # w PROVE WriterInv(v)'
    <3>1. phase[v] \notin Holding
      BY <2>3, <2>8, Alone
    <3>2. phase[v] # "idle" => loaded[v].version <= Now.version
      BY DEF LockInv, WriterInv
    <3>3. phase[v] # "idle" => /\ loaded[v].version <= Now'.version
                               /\ loaded[v].version # Now'.version
      BY <1>0, <2>5, <3>2
    <3> QED
      BY <2>1, <2>6, <2>8, <3>1, <3>3 DEF WriterInv, Holding, Using
  <2>9. acked' \subseteq Now'.writes \cap Kept'.writes
    BY <1>0, <2>2, <2>4, <2>5
  <2> QED
    BY <2>7, <2>8, <2>9 DEF LockInv
<1>5. ASSUME NEW w \in Writers, SyncDirectory(w) PROVE LockInv'
  <2>1. /\ phase[w] = "fsync" /\ phase'[w] = "release" /\ outcome'[w] = "committed"
        /\ UNCHANGED <<data, ledger, lock, loaded, count, acked>> /\ durable' = ledger
        /\ \A v \in Writers \ {w} : phase'[v] = phase[v] /\ outcome'[v] = outcome[v]
    BY <1>0, <1>5 DEF SyncDirectory, Leave, Proceed, lockfile
  <2>2. Now' = Now /\ Kept' = Now
    BY <2>1 DEF Now, Kept, ContentOf
  <2>3. WriterInv(w) /\ lock = w
    BY <2>1 DEF LockInv, WriterInv, Holding
  <2>4. WriterInv(w)'
    BY <2>1, <2>2, <2>3 DEF WriterInv, Using
  <2>5. ASSUME NEW v \in Writers, v # w PROVE WriterInv(v)'
    <3>1. phase[v] \notin Holding /\ WriterInv(v)
      BY <2>3, <2>5, Alone DEF LockInv
    <3> QED
      BY <2>1, <2>2, <2>5, <3>1 DEF WriterInv, Holding, Using
  <2> QED
    BY <1>0, <2>1, <2>2, <2>4, <2>5 DEF LockInv
<1>6. ASSUME NEW p \in Processes, Crash(p) PROVE LockInv'
  <2>1. /\ UNCHANGED <<data, ledger, durable, lock, loaded, count, acked>>
        /\ \A v \in Writers : \/ phase'[v] = "idle"
                              \/ phase'[v] = phase[v] /\ outcome'[v] = outcome[v]
    BY <1>6 DEF Crash, fileState, lockfile
  <2>2. Now' = Now /\ Kept' = Kept
    BY <2>1 DEF Now, Kept, ContentOf
  <2>3. ASSUME NEW v \in Writers PROVE WriterInv(v)'
    <3>1. WriterInv(v)
      BY DEF LockInv
    <3>2. CASE phase'[v] = "idle"
      BY <3>2 DEF WriterInv, Holding, Using
    <3>3. CASE phase'[v] = phase[v] /\ outcome'[v] = outcome[v]
      BY <2>1, <2>2, <3>1, <3>3 DEF WriterInv
    <3> QED
      BY <2>1, <3>2, <3>3
  <2> QED
    BY <1>0, <2>1, <2>2, <2>3 DEF LockInv
<1>7. CASE LockAges \/ UNCHANGED fileVars
  <2>1. UNCHANGED <<data, ledger, durable, lock, phase, loaded, outcome, count, acked>>
    BY <1>7 DEF LockAges, fileVars, fileState, lockfile
  <2>2. Now' = Now /\ Kept' = Kept
    BY <2>1 DEF Now, Kept, ContentOf
  <2> QED
    BY <2>1, <2>2 DEF LockInv, WriterInv
<1>8. CASE PowerLoss
  <2>1. /\ ledger' \in {ledger, durable} /\ durable' = ledger' /\ acked' = acked
        /\ \A v \in Writers : phase'[v] = "idle"
    BY <1>8 DEF PowerLoss
  <2>2. \A f \in Files : data'[f].content = data[f].content
    BY <1>0, <1>8 DEF PowerLoss, Data
  <2>3. Now' \in {Now, Kept} /\ Kept' = Now'
    BY <2>1, <2>2 DEF Now, Kept, ContentOf, KindInv, FileTypeOK
  <2>4. acked' \subseteq Now'.writes \cap Kept'.writes
    BY <1>0, <2>1, <2>3
  <2> QED
    BY <2>1, <2>4 DEF LockInv, WriterInv, Holding, Using
<1> QED
  BY <1>1, <1>2, <1>3, <1>4, <1>5, <1>6, <1>7, <1>8 DEF FileNext, WriterStep, Quiet

\* Who was robbed stays robbed.
LEMMA Robbed ==
    ASSUME KindInv, [FileNext]_fileVars, ~ robbed' PROVE ~ robbed
BY DEF FileNext, WriterStep, Load, LoadFails, CreateLock, FindLock, StatLock, StealLock,
       LockFails, Compare, OpenTemporary, WriteTemporary, SyncTemporary, Rename,
       SyncDirectory, CommitThrows, ReleaseLock, ReleaseFails, Crash, LockAges, PowerLoss,
       fileVars, lockfile, KindInv, FileTypeOK

FileInv ==
    /\ KindInv
    /\ ~ shared => TempInv
    /\ ~ robbed => LockInv /\ ~ shared

LEMMA FileInvariance == FileSpec => []FileInv
<1>1. FileInit => FileInv
  BY KindInit, TempInit, LockInit DEF FileInit, FileInv
<1>2. FileInv /\ [FileNext]_fileVars => FileInv'
  <2> SUFFICES ASSUME FileInv, [FileNext]_fileVars PROVE FileInv'
    OBVIOUS
  <2>1. KindInv /\ KindInv'
    BY KindNext DEF FileInv
  <2>2. ~ shared' => TempInv'
    <3>1. ~ shared' => ~ shared
      BY <2>1, SharedStays DEF KindInv, FileTypeOK
    <3> QED
      BY <2>1, <3>1, TempNext DEF FileInv
  <2>3. ~ robbed' => LockInv' /\ ~ shared'
    <3> SUFFICES ASSUME ~ robbed' PROVE LockInv' /\ ~ shared'
      OBVIOUS
    <3>1. LockInv /\ ~ shared /\ TempInv
      BY <2>1, Robbed DEF FileInv
    <3>2. ~ shared'
      BY <2>1, <3>1, NotShared
    <3> QED
      BY <2>1, <3>1, <3>2, LockNext
  <2> QED
    BY <2>1, <2>2, <2>3 DEF FileInv
<1> QED
  BY <1>1, <1>2, PTL DEF FileSpec

\* commit under the lockfile: concurrent writers serialize, until acquireLock
\* steals the lockfile of a writer in the critical section.
THEOREM SerializedTillTheft == FileSpec => []SerializedUntilRobbed
<1>1. FileInv => SerializedUntilRobbed
  BY DEF FileInv, LockInv, WriterInv, SerializedUntilRobbed, WritersSerialize
<1> QED
  BY <1>1, FileInvariance, PTL

\* commit is a compare and swap of the whole content of the file, which is
\* what LedgerService assumes of its store, until the same event.
THEOREM CommitIsCas == FileSpec => []ComparedStillCurrent
<1>1. FileInv => ComparedStillCurrent
  BY DEF FileInv, LockInv, WriterInv, Now, ComparedStillCurrent
<1> QED
  BY <1>1, FileInvariance, PTL

\* Write, sync, rename, sync of the directory: until the same event an
\* acknowledged write outlives other writers, crashes and losses of power.
THEOREM AckedIsDurable == FileSpec => []AckedWritesKept
<1>1. FileInv => AckedWritesKept
  BY DEF FileInv, LockInv, Now, AckedWritesKept
<1> QED
  BY <1>1, FileInvariance, PTL

\* The same order of syncs: no loss of power, stolen lock or racing process
\* leaves a torn ledger, until two transactions of one process share the
\* temporary file.
THEOREM LedgerNeverTorn == FileSpec => []IntactUntilShared
<1>1. FileInv => IntactUntilShared
  BY DEF FileInv, TempInv, IntactUntilShared
<1> QED
  BY <1>1, FileInvariance, PTL

=============================================================================
