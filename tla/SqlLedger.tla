------------------------------ MODULE SqlLedger ------------------------------
(***************************************************************************)
(* The SQL backend of the ledger, runtime/outbound/sql-ledger.ts: load     *)
(* reads the version and four tables in one transaction; commit bumps the  *)
(* version row if it is the expected one, deletes all rows and inserts the *)
(* new state, in one transaction.  A caller is one transaction attempt of  *)
(* ledger.ts: it loads, adds its mark to every table and commits.          *)
(*                                                                         *)
(* A table's content is the set of callers whose writes it carries, which  *)
(* is what a torn read or a lost update would disturb; decoding and        *)
(* statement texts are left out (a corrupt row is one way to fail).        *)
(*                                                                         *)
(* The database is external: rows written in a transaction are seen by     *)
(* others when it commits, the version row stays locked from the bump to   *)
(* the end of the transaction, and a transaction reads one snapshot, taken *)
(* at its first SELECT, exactly when it runs at REPEATABLE-READ or above.  *)
(***************************************************************************)
EXTENDS Naturals, Sequences

CONSTANTS
    Callers,        \* transaction attempts
    Handles,        \* opened stores
    HandleOf,       \* HandleOf[c]: the store caller c uses
    MaxFaults,      \* bound: failed statements and lost answers
    NoOne           \* the version row is not locked

ASSUME HandleOfAssumption == HandleOf \in [Callers -> Handles]
ASSUME MaxFaultsAssumption == MaxFaults \in Nat
ASSUME NoOneAssumption == NoOne \notin Callers

VARIABLES
    db,         \* the committed database
    log,        \* log[v + 1]: the tables that version v had (history)
    server,     \* its dialect and its default isolation level
    handle,     \* handle[h]: "closed", "open" or "refused"
    queue,      \* queue[h]: the mutex of an SQLite handle, holder first
    rowLock,    \* the caller whose transaction locked the version row
    pc,         \* pc[c]: what caller c does next
    at,         \* at[c]: the statement it has come to
    snap,       \* snap[c]: the snapshot of its load transaction
    got,        \* got[c]: what load has read
    staged,     \* staged[c]: the tables inside its commit transaction
    faults

vars == <<db, log, server, handle, queue, rowLock, pc, at, snap, got,
          staged, faults>>

Tables == {"schedules", "epochs", "invocations", "quarantine"}
Reading == <<"schedules", "epochs", "invocations", "quarantine">>
Deleting == <<"invocations", "epochs", "schedules", "quarantine">>
Inserting == <<"schedules", "epochs", "invocations", "quarantine">>

Contents == [Tables -> SUBSET Callers]
Databases == [version: Nat, tables: Contents]
Servers == [dialect: {"sqlite", "postgres", "mysql"},
            isolation: {"READ-COMMITTED", "REPEATABLE-READ"}]
Nothing == [t \in Tables |-> {}]
Empty == [version |-> 0, tables |-> Nothing]

\* Labels of a caller inside a transaction, and of one with its answer.
InLoad == {"version", "select"}
InCommit == {"bump", "delete", "insert", "commit", "rollback"}
Answered == {"acked", "raced", "thrown"}
Labels == {"idle", "load", "loaded"} \cup InLoad \cup {"await"} \cup InCommit
             \cup Answered

Init ==
    /\ db = Empty /\ log = <<Nothing>>
    /\ server \in Servers
    /\ handle = [h \in Handles |-> "closed"]
    /\ queue = [h \in Handles |-> <<>>]
    /\ rowLock = NoOne
    /\ pc = [c \in Callers |-> "idle"]
    /\ at = [c \in Callers |-> 1]
    /\ snap = [c \in Callers |-> Empty]
    /\ got = [c \in Callers |-> Empty]
    /\ staged = [c \in Callers |-> Nothing]
    /\ faults = 0

Goto(c, label) == pc' = [pc EXCEPT ![c] = label]

-----------------------------------------------------------------------------
(* Opening a store and the mutex of an SQLite handle.                      *)

\* openClient refuses a MySQL server below REPEATABLE-READ.
Acceptable == server.dialect = "mysql" => server.isolation = "REPEATABLE-READ"

Open(h) ==
    /\ handle[h] = "closed"
    /\ handle' = [handle EXCEPT ![h] = IF Acceptable THEN "open"
                                                     ELSE "refused"]
    /\ UNCHANGED <<db, log, server, queue, rowLock, pc, at, snap, got,
                   staged, faults>>

\* createMutex chains promises: a body waits for the one asked for before.
Enter(c) ==
    queue' = IF server.dialect = "sqlite"
             THEN [queue EXCEPT ![HandleOf[c]] = Append(@, c)]
             ELSE queue

\* Faulty variant of Turn: operations of one handle overlap.
TurnOfAnyone(c) == TRUE

Turn(c) == server.dialect = "sqlite" => Head(queue[HandleOf[c]]) = c

\* Faulty variant of Exit: release is not in a finally clause.
ExitUnlessThrown(c) ==
    queue' = IF server.dialect = "sqlite" /\ pc'[c] # "thrown"
             THEN [queue EXCEPT ![HandleOf[c]] = Tail(@)]
             ELSE queue

Exit(c) ==
    queue' = IF server.dialect = "sqlite"
             THEN [queue EXCEPT ![HandleOf[c]] = Tail(@)]
             ELSE queue

-----------------------------------------------------------------------------
(* load                                                                    *)

CallLoad(c) ==
    /\ pc[c] = "idle" /\ handle[HandleOf[c]] = "open"
    /\ Goto(c, "load") /\ Enter(c)
    /\ UNCHANGED <<db, log, server, handle, rowLock, at, snap, got, staged,
                   faults>>

BeginLoad(c) ==
    /\ pc[c] = "load" /\ Turn(c)
    /\ Goto(c, "version")
    /\ UNCHANGED <<db, log, server, handle, queue, rowLock, at, snap, got,
                   staged, faults>>

\* Faulty variant of Repeatable: PostgreSQL keeps the server's default.
RepeatableByDefault ==
    server.dialect = "sqlite" \/ server.isolation = "REPEATABLE-READ"

\* Whether the transaction of a load reads one snapshot: PostgreSQL is told
\* so in its first statement, MySQL has its default, SQLite always does.
Repeatable ==
    server.dialect \in {"sqlite", "postgres"} \/ server.isolation = "REPEATABLE-READ"

SelectVersion(c) ==
    /\ pc[c] = "version"
    /\ snap' = [snap EXCEPT ![c] = db]
    /\ got' = [got EXCEPT ![c] = [version |-> db.version, tables |-> Nothing]]
    /\ at' = [at EXCEPT ![c] = 1]
    /\ Goto(c, "select")
    /\ UNCHANGED <<db, log, server, handle, queue, rowLock, staged, faults>>

\* What load has read once it also has table t.
Noted(c, t) ==
    [version |-> got[c].version,
     tables  |-> [got[c].tables EXCEPT ![t] = IF Repeatable
                                              THEN snap[c].tables[t]
                                              ELSE db.tables[t]]]

\* The last SELECT ends the transaction and lets the next operation in.
SelectTable(c) ==
    LET t == Reading[at[c]]
    IN  /\ pc[c] = "select"
        /\ got' = [got EXCEPT ![c] = Noted(c, t)]
        /\ \/ /\ at[c] < Len(Reading)
              /\ at' = [at EXCEPT ![c] = @ + 1]
              /\ UNCHANGED <<pc, queue>>
           \/ /\ at[c] = Len(Reading)
              /\ Goto(c, "loaded") /\ Exit(c)
              /\ UNCHANGED at
        /\ UNCHANGED <<db, log, server, handle, rowLock, snap, staged,
                       faults>>

-----------------------------------------------------------------------------
(* commit                                                                  *)

\* The state the caller wants to persist.
NextOf(c) ==
    [version |-> got[c].version + 1,
     tables  |-> [t \in Tables |-> got[c].tables[t] \cup {c}]]

CallCommit(c) ==
    /\ pc[c] = "loaded"
    /\ Goto(c, "await") /\ Enter(c)
    /\ UNCHANGED <<db, log, server, handle, rowLock, at, snap, got, staged,
                   faults>>

BeginCommit(c) ==
    /\ pc[c] = "await" /\ Turn(c)
    /\ Goto(c, "bump")
    /\ UNCHANGED <<db, log, server, handle, queue, rowLock, at, snap, got,
                   staged, faults>>

\* Faulty variant of Expected: the bump is unconditional.
ExpectedAnything(c) == TRUE

Expected(c) == db.version = NextOf(c).version - 1

\* The conditional bump waits for the row lock and finds one row or none.
Bump(c) ==
    /\ pc[c] = "bump" /\ rowLock = NoOne
    /\ \/ /\ Expected(c)
          /\ rowLock' = c
          /\ staged' = [staged EXCEPT ![c] = db.tables]
          /\ at' = [at EXCEPT ![c] = 1]
          /\ Goto(c, "delete")
       \/ /\ ~ Expected(c)
          /\ Goto(c, "rollback")
          /\ UNCHANGED <<rowLock, staged, at>>
    /\ UNCHANGED <<db, log, server, handle, queue, snap, got, faults>>

Delete(c) ==
    /\ pc[c] = "delete"
    /\ staged' = [staged EXCEPT ![c] = [@ EXCEPT ![Deleting[at[c]]] = {}]]
    /\ \/ /\ at[c] < Len(Deleting)
          /\ at' = [at EXCEPT ![c] = @ + 1]
          /\ UNCHANGED pc
       \/ /\ at[c] = Len(Deleting)
          /\ at' = [at EXCEPT ![c] = 1]
          /\ Goto(c, "insert")
    /\ UNCHANGED <<db, log, server, handle, queue, rowLock, snap, got,
                   faults>>

LastInsert == Len(Inserting)

Inserted(c, t) ==
    [staged[c] EXCEPT ![t] = staged[c][t] \cup NextOf(c).tables[t]]

Insert(c) ==
    LET t == Inserting[at[c]]
    IN  /\ pc[c] = "insert"
        /\ staged' = [staged EXCEPT ![c] = Inserted(c, t)]
        /\ \/ /\ at[c] < LastInsert
              /\ at' = [at EXCEPT ![c] = @ + 1]
              /\ UNCHANGED pc
           \/ /\ at[c] = LastInsert
              /\ Goto(c, "commit")
              /\ UNCHANGED at
        /\ UNCHANGED <<db, log, server, handle, queue, rowLock, snap, got,
                       faults>>

\* COMMIT takes effect; its answer may be lost, and then commit throws.
Commit(c) ==
    /\ pc[c] = "commit"
    /\ db' = [version |-> db.version + 1, tables |-> staged[c]]
    /\ log' = Append(log, staged[c])
    /\ rowLock' = NoOne
    /\ \/ /\ Goto(c, "acked")
          /\ UNCHANGED faults
       \/ /\ faults < MaxFaults
          /\ faults' = faults + 1
          /\ Goto(c, "thrown")
    /\ Exit(c)
    /\ UNCHANGED <<server, handle, at, snap, got, staged>>

\* Faulty variant of SentinelAnswer: a lost race is reported committed.
SentinelAcked == "acked"

\* RollbackSentinel is { committed: false }.
SentinelAnswer == "raced"

Rollback(c) ==
    /\ pc[c] = "rollback"
    /\ Goto(c, SentinelAnswer) /\ Exit(c)
    /\ UNCHANGED <<db, log, server, handle, rowLock, at, snap, got, staged,
                   faults>>

\* ledger.ts starts over after a lost race.
Retry(c) ==
    /\ pc[c] = "raced"
    /\ Goto(c, "idle")
    /\ UNCHANGED <<db, log, server, handle, queue, rowLock, at, snap, got,
                   staged, faults>>

\* A statement, or COMMIT itself, fails: the transaction is rolled back and
\* load or commit throws.
Fail(c) ==
    /\ pc[c] \in InLoad \cup InCommit /\ faults < MaxFaults
    /\ faults' = faults + 1
    /\ rowLock' = IF rowLock = c THEN NoOne ELSE rowLock
    /\ Goto(c, "thrown") /\ Exit(c)
    /\ UNCHANGED <<db, log, server, handle, at, snap, got, staged>>

-----------------------------------------------------------------------------
Step(c) ==
    \/ CallLoad(c) \/ BeginLoad(c) \/ SelectVersion(c) \/ SelectTable(c)
    \/ CallCommit(c) \/ BeginCommit(c) \/ Bump(c) \/ Delete(c) \/ Insert(c)
    \/ Commit(c) \/ Rollback(c) \/ Retry(c)

Next ==
    \/ \E h \in Handles : Open(h)
    \/ \E c \in Callers : Step(c) \/ Fail(c)

Spec == Init /\ [][Next]_vars

\* A database answers every statement, and an event loop runs every
\* continuation.
FairSpec ==
    /\ Spec
    /\ \A h \in Handles : WF_vars(Open(h))
    /\ \A c \in Callers : WF_vars(Step(c))

-----------------------------------------------------------------------------
\* Every variable stays within its type.
TypeOK ==
    /\ db \in Databases /\ log \in Seq(Contents)
    /\ server \in Servers
    /\ handle \in [Handles -> {"closed", "open", "refused"}]
    /\ queue \in [Handles -> Seq(Callers)]
    /\ rowLock \in Callers \cup {NoOne}
    /\ pc \in [Callers -> Labels]
    /\ at \in [Callers -> 1 .. 4]
    /\ snap \in [Callers -> Databases]
    /\ got \in [Callers -> Databases]
    /\ staged \in [Callers -> Contents]
    /\ faults \in 0 .. MaxFaults

\* load returns one atomic (version, tables) pair: the tables are the ones
\* the database had at the version, whatever commits ran between the
\* SELECTs.  Server defaults below REPEATABLE-READ are refused or overridden.
LoadIsAtomic ==
    \A c \in Callers :
        pc[c] \in {"loaded", "await"} => got[c].tables = log[got[c].version + 1]

\* What commit answers is what it did: an acknowledged write is in every
\* table from then on, and a lost race left nothing behind.
AnswersAreTrue ==
    \A c \in Callers :
        /\ pc[c] = "acked" => \A t \in Tables : c \in db.tables[t]
        /\ pc[c] = "raced" => \A t \in Tables : c \notin db.tables[t]

\* No commit drops a row of another writer, in any table, nor shows a part
\* of itself: the tables gain the same writes, one version at a time.
NothingDropped ==
    [][/\ db'.version \in {db.version, db.version + 1}
       /\ \A t \in Tables :
             /\ db.tables[t] \subseteq db'.tables[t]
             /\ db'.tables[t] = db'.tables["schedules"]]_db

\* Concurrent begin() calls fail on one SQLite connection: at most one
\* operation of a handle is inside a transaction.
ConnectionNotShared ==
    server.dialect = "sqlite" =>
        \A c, d \in Callers :
            /\ pc[c] \in InLoad \cup InCommit
            /\ pc[d] \in InLoad \cup InCommit
            /\ HandleOf[c] = HandleOf[d]
            => c = d

\* Writers serialize on the version row and cannot deadlock, and a thrown
\* operation lets the next one in: every operation on an open handle ends.
EveryCallEnds ==
    \A c \in Callers :
        handle[HandleOf[c]] = "open" ~> pc[c] \in {"acked", "thrown"}

=============================================================================
