------------------------- MODULE LedgerServiceProofs -------------------------
(***************************************************************************)
(* Proofs about LedgerService, for any number of clients, requests, lost   *)
(* races and writes in doubt: its type invariant, its five state           *)
(* invariants, that it implements AtomicLedger, and its two action         *)
(* properties.                                                             *)
(*                                                                         *)
(* The argument.  A version number names one persisted state: the store's  *)
(* version only goes up, and goes up with every write.  So a loaded state  *)
(* that still has the store's version is the store, a commit that finds    *)
(* its expected version applies its operation to the store itself, and     *)
(* what ApplySound says of one operation carries over to the whole         *)
(* service.  None of the invariants is inductive without the others: IInv  *)
(* is.                                                                     *)
(***************************************************************************)
EXTENDS LedgerService, LedgerOpsProofs

\* What holds of a client's transaction between its steps.
ClientInv(c) ==
    /\ LedgerInv(loaded[c])
    /\ pc[c] = "idle" => attempt[c] = 0
    /\ pc[c] # "idle" => Admissible(call[c])
    /\ pc[c] = "commit" =>
          /\ Apply(loaded[c], call[c]).write
          /\ loaded[c].version <= store.version
          /\ loaded[c].version = store.version => loaded[c] = store
          /\ loaded[c].version >= base[c] + attempt[c]
    /\ pc[c] = "load" /\ attempt[c] > 0 =>
          store.version >= base[c] + attempt[c]

\* What holds of a write in doubt.
DoubtInv(w) ==
    /\ Admissible(w.call)
    /\ LedgerInv(w.loaded)
    /\ Apply(w.loaded, w.call).write
    /\ w.loaded.version <= store.version
    /\ w.loaded.version = store.version => w.loaded = store

IInv ==
    /\ TypeOK
    /\ LedgerInv(store)
    /\ \A c \in Clients : ClientInv(c)
    /\ \A w \in inDoubt : DoubtInv(w)

\* The store moves on by writes only.
Advances == store' = store \/ store'.version = store.version + 1

LEMMA VersionsTyped ==
    ASSUME NEW state, LedgerInv(state)
    PROVE  state.version \in Nat
BY DEF LedgerInv, LedgerTyped

\* A client and a doubt that a step does not touch keep their invariant
\* while the store stands still or moves on.
LEMMA ClientKeeps ==
    ASSUME NEW c \in Clients, ClientInv(c), TypeOK, LedgerInv(store),
           LedgerInv(store'), Advances,
           call'[c] = call[c], pc'[c] = pc[c], loaded'[c] = loaded[c],
           attempt'[c] = attempt[c], base'[c] = base[c]
    PROVE  ClientInv(c)'
<1>1. /\ store.version \in Nat /\ store'.version \in Nat
      /\ loaded[c].version \in Nat
      /\ attempt[c] \in Nat /\ base[c] \in Nat
  BY VersionsTyped DEF ClientInv, TypeOK
<1>2. store'.version >= store.version
  BY <1>1 DEF Advances
<1>3. CASE store' = store
  BY <1>3 DEF ClientInv
<1>4. CASE store'.version = store.version + 1
  <2>1. pc[c] = "commit" => loaded[c].version # store'.version
    BY <1>1, <1>4 DEF ClientInv
  <2> QED
    BY <1>1, <1>2, <2>1 DEF ClientInv
<1> QED
  BY <1>3, <1>4 DEF Advances

LEMMA DoubtKeeps ==
    ASSUME NEW w, DoubtInv(w), LedgerInv(store), LedgerInv(store'), Advances
    PROVE  DoubtInv(w)'
<1>1. /\ store.version \in Nat /\ store'.version \in Nat
      /\ w.loaded.version \in Nat
  BY VersionsTyped DEF DoubtInv
<1>2. CASE store' = store
  BY <1>2 DEF DoubtInv
<1>3. CASE store'.version = store.version + 1
  BY <1>1, <1>3 DEF DoubtInv
<1> QED
  BY <1>2, <1>3 DEF Advances

\* A client whose transaction has ended.
LEMMA ReturnKeeps ==
    ASSUME TypeOK, NEW c \in Clients, NEW value, Return(c, value)
    PROVE  /\ call' \in [Clients -> Calls \cup {NoCall}]
           /\ pc' \in [Clients -> {"idle", "load", "commit"}]
           /\ attempt' \in [Clients -> Nat] /\ base' \in [Clients -> Nat]
           /\ pc'[c] = "idle" /\ call'[c] = NoCall
           /\ loaded' = [d \in Clients |-> loaded'[d]]
           /\ loaded'[c] = EmptyLedgerState
           /\ attempt'[c] = 0
           /\ \A d \in Clients \ {c} :
                 /\ call'[d] = call[d] /\ pc'[d] = pc[d]
                 /\ loaded'[d] = loaded[d] /\ attempt'[d] = attempt[d]
                 /\ base'[d] = base[d]
BY DEF TypeOK, Return

\* Committing a write computed from the store itself.
LEMMA Persists ==
    ASSUME NEW state, NEW k, LedgerInv(store), LedgerInv(state), Admissible(k),
           Apply(state, k).write, state.version = store.version,
           store' = Apply(state, k).next
    PROVE  LedgerInv(store') /\ store'.version = store.version + 1
<1>1. Sound(state, Apply(state, k))
  BY ApplySound
<1> QED
  BY <1>1 DEF Sound

\* From the invariants of the clients to the invariant of the system.
LEMMA Assemble ==
    ASSUME IInv, NEW c \in Clients, LedgerInv(store'), Advances,
           call' \in [Clients -> Calls \cup {NoCall}],
           pc' \in [Clients -> {"idle", "load", "commit"}],
           attempt' \in [Clients -> Nat], base' \in [Clients -> Nat],
           overtaken' \subseteq Pools,
           loaded' = [d \in Clients |-> loaded'[d]],
           pc'[c] = "idle" <=> call'[c] = NoCall,
           ClientInv(c)',
           \A d \in Clients \ {c} :
              /\ call'[d] = call[d] /\ pc'[d] = pc[d]
              /\ loaded'[d] = loaded[d] /\ attempt'[d] = attempt[d]
              /\ base'[d] = base[d],
           \A w \in inDoubt' : w \in inDoubt \/ DoubtInv(w)'
    PROVE  IInv'
<1>1. \A d \in Clients \ {c} : ClientInv(d)'
  BY ClientKeeps DEF IInv
<1>2. \A d \in Clients : ClientInv(d)'
  BY <1>1
<1>3. \A w \in inDoubt' : DoubtInv(w)'
  BY DoubtKeeps DEF IInv
<1>4. \A d \in Clients : LedgerTyped(loaded'[d])
  BY <1>2 DEF ClientInv, LedgerInv
<1>5. \A d \in Clients : pc'[d] = "idle" <=> call'[d] = NoCall
  BY DEF IInv, TypeOK
<1>6. TypeOK'
  BY <1>4, <1>5 DEF TypeOK, LedgerInv
<1> QED
  BY <1>2, <1>3, <1>6 DEF IInv

\* A transaction that ends leaves the invariant.
LEMMA Ended ==
    ASSUME IInv, NEW c \in Clients, NEW value, Return(c, value),
           LedgerInv(store'), Advances, overtaken' \subseteq Pools,
           \A w \in inDoubt' : w \in inDoubt \/ DoubtInv(w)'
    PROVE  IInv'
<1>1. TypeOK
  BY DEF IInv
<1>2. ClientInv(c)'
  BY <1>1, ReturnKeeps, EmptyLedgerInv DEF ClientInv
<1>3. pc'[c] = "idle" /\ call'[c] = NoCall
  BY <1>1, ReturnKeeps
<1> QED
  BY <1>1, <1>2, <1>3, ReturnKeeps, Assemble

LEMMA InvInit == Init => IInv
<1> SUFFICES ASSUME Init PROVE IInv
  OBVIOUS
<1>1. LedgerInv(store) /\ \A c \in Clients : loaded[c] = EmptyLedgerState
  BY EmptyLedgerInv DEF Init
<1>2. \A c \in Clients : ClientInv(c)
  BY <1>1, EmptyLedgerInv DEF Init, ClientInv
<1>3. TypeOK
  BY <1>1, EmptyLedgerInv DEF Init, TypeOK, LedgerInv
<1> QED
  BY <1>1, <1>2, <1>3 DEF IInv, Init

LEMMA OvertakenTyped ==
    ASSUME TypeOK, [Next]_vars
    PROVE  overtaken' \subseteq Pools
<1>1. \A old, new : OvertakenBy(old, new) \subseteq Pools
  BY DEF OvertakenBy
<1>2. overtaken \subseteq Pools
  BY DEF TypeOK
<1>3. \/ overtaken' = overtaken
      \/ \E next : overtaken' = overtaken \cup OvertakenBy(store, next)
  BY DEF Next, Step, vars, Invoke, Refuse, LoadToReply, LoadToCommit, LoadFails,
         CommitOk, CommitLost, AttemptsExhausted, CommitThrows, Crash, Lands,
         Drops, Persist
<1> QED
  BY <1>1, <1>2, <1>3

LEMMA InvNext == IInv /\ [Next]_vars => IInv'
<1> SUFFICES ASSUME IInv, [Next]_vars PROVE IInv'
  OBVIOUS
<1>t. TypeOK /\ LedgerInv(store) /\ overtaken' \subseteq Pools
  BY OvertakenTyped DEF IInv
<1>1. ASSUME NEW c \in Clients, NEW request \in Requests, Invoke(c, request)
      PROVE  IInv'
  <2>1. Admissible(request) /\ request \in Calls /\ request # NoCall
    BY <1>1, RequestsAssumption, NoCallAssumption DEF Invoke, Admissible
  <2>2. ClientInv(c)
    BY DEF IInv
  <2>3. /\ call'[c] = request /\ pc'[c] = "load" /\ loaded' = loaded
        /\ attempt' = attempt /\ attempt[c] = 0 /\ base' = base
        /\ store' = store /\ inDoubt' = inDoubt
    BY <1>1, <1>t, <2>2 DEF Invoke, TypeOK, ClientInv
  <2>4. ClientInv(c)'
    BY <2>1, <2>2, <2>3 DEF ClientInv
  <2>5. /\ call' \in [Clients -> Calls \cup {NoCall}]
        /\ pc' \in [Clients -> {"idle", "load", "commit"}]
        /\ \A d \in Clients \ {c} : call'[d] = call[d] /\ pc'[d] = pc[d]
    BY <1>1, <1>t, <2>1 DEF Invoke, TypeOK
  <2> QED
    BY <1>t, <2>1, <2>3, <2>4, <2>5, Assemble DEF Advances, TypeOK
<1>2. ASSUME NEW c \in Clients, NEW request \in Requests, Refuse(c, request)
      PROVE  IInv'
  BY <1>2 DEF Refuse, IInv, TypeOK, ClientInv, DoubtInv
<1>3. ASSUME NEW c \in Clients, LoadToReply(c) PROVE IInv'
  BY <1>3, <1>t, Ended DEF LoadToReply, Advances
<1>4. ASSUME NEW c \in Clients, LoadToCommit(c) PROVE IInv'
  <2>1. ClientInv(c)
    BY DEF IInv
  <2>2. /\ call' = call /\ pc'[c] = "commit" /\ loaded'[c] = store
        /\ attempt' = attempt /\ store' = store /\ inDoubt' = inDoubt
        /\ base'[c] = IF attempt[c] = 0 THEN store.version ELSE base[c]
        /\ pc[c] = "load" /\ Apply(store, call[c]).write
    BY <1>4, <1>t DEF LoadToCommit, TypeOK
  <2>3. /\ pc' \in [Clients -> {"idle", "load", "commit"}]
        /\ loaded' = [d \in Clients |-> loaded'[d]]
        /\ \A d \in Clients \ {c} : /\ pc'[d] = pc[d]
                                    /\ loaded'[d] = loaded[d]
                                    /\ base'[d] = base[d]
    BY <1>4, <1>t DEF LoadToCommit, TypeOK
  <2>4. store.version \in Nat /\ attempt[c] \in Nat /\ base[c] \in Nat
    BY <1>t, VersionsTyped DEF TypeOK
  <2>5. base' \in [Clients -> Nat]
    BY <1>4, <1>t, <2>4 DEF LoadToCommit, TypeOK
  <2>6. store.version >= base'[c] + attempt[c]
    BY <2>1, <2>2, <2>4 DEF ClientInv
  <2>7. ClientInv(c)'
    BY <1>t, <2>1, <2>2, <2>4, <2>6 DEF ClientInv
  <2>8. pc'[c] = "idle" <=> call'[c] = NoCall
    BY <1>t, <2>2 DEF TypeOK
  <2> QED
    BY <1>t, <2>2, <2>3, <2>5, <2>7, <2>8, Assemble DEF Advances, TypeOK
<1>5. ASSUME NEW c \in Clients, LoadFails(c) PROVE IInv'
  BY <1>5, <1>t, Ended DEF LoadFails, Advances
<1>6. ASSUME NEW c \in Clients, CommitOk(c) PROVE IInv'
  <2>1. ClientInv(c) /\ pc[c] = "commit"
    BY <1>6 DEF IInv, CommitOk
  <2>2. LedgerInv(store') /\ store'.version = store.version + 1
    BY <1>6, <1>t, <2>1, Persists DEF CommitOk, Persist, ClientInv
  <2> QED
    BY <1>6, <1>t, <2>2, Ended DEF CommitOk, Advances
<1>7. ASSUME NEW c \in Clients, CommitLost(c) PROVE IInv'
  <2>1. ClientInv(c)
    BY DEF IInv
  <2>2. /\ call' = call /\ pc'[c] = "load" /\ loaded' = loaded
        /\ attempt'[c] = attempt[c] + 1 /\ store' = store
        /\ inDoubt' = inDoubt /\ base' = base
        /\ pc[c] = "commit" /\ store.version # loaded[c].version
    BY <1>7, <1>t DEF CommitLost, TypeOK
  <2>3. /\ pc' \in [Clients -> {"idle", "load", "commit"}]
        /\ attempt' \in [Clients -> Nat]
        /\ \A d \in Clients \ {c} : /\ pc'[d] = pc[d]
                                    /\ attempt'[d] = attempt[d]
    BY <1>7, <1>t DEF CommitLost, TypeOK
  <2>4. /\ store.version \in Nat /\ attempt[c] \in Nat /\ base[c] \in Nat
        /\ loaded[c].version \in Nat
    BY <1>t, <2>1, VersionsTyped DEF TypeOK, ClientInv
  <2>5. store.version >= base[c] + attempt'[c]
    BY <2>1, <2>2, <2>4 DEF ClientInv
  <2>6. ClientInv(c)'
    BY <2>1, <2>2, <2>5 DEF ClientInv
  <2>7. pc'[c] = "idle" <=> call'[c] = NoCall
    BY <1>t, <2>2 DEF TypeOK
  <2> QED
    BY <1>t, <2>2, <2>3, <2>6, <2>7, Assemble DEF Advances, TypeOK
<1>8. ASSUME NEW c \in Clients, AttemptsExhausted(c) PROVE IInv'
  BY <1>8, <1>t, Ended DEF AttemptsExhausted, Advances
<1>9. ASSUME NEW c \in Clients, pc[c] = "commit", LeaveInDoubt(c),
             store' = store
      PROVE  \A w \in inDoubt' : w \in inDoubt \/ DoubtInv(w)'
  <2>1. ClientInv(c)
    BY DEF IInv
  <2> SUFFICES ASSUME NEW w \in inDoubt', w \notin inDoubt
               PROVE  DoubtInv(w)'
    OBVIOUS
  <2>2. w = [call |-> call[c], loaded |-> loaded[c]]
    BY <1>9 DEF LeaveInDoubt
  <2>3. w.call = call[c] /\ w.loaded = loaded[c]
    BY <2>2
  <2>4. DoubtInv(w)
    BY <1>9, <2>1, <2>3 DEF ClientInv, DoubtInv
  <2> QED
    BY <1>9, <2>4 DEF DoubtInv
<1>10. ASSUME NEW c \in Clients, CommitThrows(c) PROVE IInv'
  BY <1>9, <1>10, <1>t, Ended DEF CommitThrows, Advances
<1>11. ASSUME NEW c \in Clients, Crash(c) PROVE IInv'
  <2>1. \A w \in inDoubt' : w \in inDoubt \/ DoubtInv(w)'
    BY <1>9, <1>11 DEF Crash
  <2> QED
    BY <1>11, <1>t, <2>1, Ended DEF Crash, Advances
<1>12. ASSUME NEW w \in inDoubt, Lands(w) PROVE IInv'
  <2>1. DoubtInv(w)
    BY DEF IInv
  <2>2. LedgerInv(store') /\ store'.version = store.version + 1
    BY <1>12, <1>t, <2>1, Persists DEF Lands, Persist, DoubtInv
  <2>3. /\ call' = call /\ pc' = pc /\ loaded' = loaded /\ attempt' = attempt
        /\ base' = base /\ inDoubt' \subseteq inDoubt
    BY <1>12 DEF Lands
  <2>4. \A c \in Clients : ClientInv(c)'
    BY <1>t, <2>2, <2>3, ClientKeeps DEF IInv, Advances
  <2>5. \A v \in inDoubt' : DoubtInv(v)'
    BY <1>t, <2>2, <2>3, DoubtKeeps DEF IInv, Advances
  <2>6. TypeOK'
    BY <1>t, <2>2, <2>3 DEF TypeOK, LedgerInv
  <2> QED
    BY <2>2, <2>4, <2>5, <2>6 DEF IInv
<1>13. ASSUME NEW w \in inDoubt, Drops(w) PROVE IInv'
  BY <1>13 DEF Drops, IInv, TypeOK, ClientInv, DoubtInv
<1>14. CASE UNCHANGED vars
  BY <1>14 DEF vars, IInv, TypeOK, ClientInv, DoubtInv
<1> QED
  BY <1>1, <1>2, <1>3, <1>4, <1>5, <1>6, <1>7, <1>8, <1>10, <1>11, <1>12,
     <1>13, <1>14 DEF Next, Step

LEMMA Invariance == Spec => []IInv
BY InvInit, InvNext, PTL DEF Spec

\* The ledger and every transaction stay within their types, and a client
\* is busy exactly while it has a call (runTransaction).
THEOREM TypeCorrect == Spec => []TypeOK
<1>1. IInv => TypeOK
  BY DEF IInv
<1> QED
  BY <1>1, Invariance, PTL

\* The budget (reserve, settle, releaseUndispatched over runTransaction):
\* whatever the number of callers and however they race, fail or crash, a
\* row none of whose invocations breached its bound never holds and debits
\* more than its limit.
THEOREM BudgetKept == Spec => []NoOverAdmission
<1>1. IInv => NoOverAdmission
  BY DEF IInv, LedgerInv, NoOverAdmission
<1> QED
  BY <1>1, Invariance, PTL

\* Optimistic concurrency (runTransaction, commit): a write that will find
\* its expected version was computed from the persisted state, writes in
\* doubt included.
THEOREM WritesAreFresh == Spec => []NoStaleWrite
<1>1. IInv => NoStaleWrite
  BY DEF IInv, ClientInv, DoubtInv, NoStaleWrite
<1> QED
  BY <1>1, Invariance, PTL

\* Convergence (comment of runTransaction): every lost race of a
\* transaction is paid for by a commit of another writer.
THEOREM RacesConverge == Spec => []RetriesPaidByCommits
<1>1. IInv => RetriesPaidByCommits
  BY DEF IInv, ClientInv, RetriesPaidByCommits
<1> QED
  BY <1>1, Invariance, PTL

-----------------------------------------------------------------------------
(* LedgerService implements AtomicLedger.                                  *)

LEMMA AtomicInit == Init => Atomic!Init
BY DEF Init, Atomic!Init

LEMMA AtomicNext == IInv /\ [Next]_vars => [Atomic!Next]_(Atomic!vars)
<1> SUFFICES ASSUME IInv, [Next]_vars
             PROVE  Atomic!Next \/ UNCHANGED Atomic!vars
  OBVIOUS
<1>t. TypeOK
  BY DEF IInv
<1>1. ASSUME NEW c \in Clients, NEW request \in Requests, Invoke(c, request)
      PROVE  Atomic!Invoke(c, request)
  BY <1>1, <1>t DEF Invoke, Atomic!Invoke, TypeOK
<1>2. ASSUME NEW c \in Clients, NEW request \in Requests, Refuse(c, request)
      PROVE  Atomic!Refuse(c, request)
  BY <1>2, <1>t DEF Refuse, Atomic!Refuse, TypeOK
<1>3. ASSUME NEW c \in Clients, LoadToReply(c) PROVE Atomic!Perform(c)
  <2>1. Sound(store, Apply(store, call[c]))
    BY <1>3, ApplySound DEF IInv, ClientInv, LoadToReply
  <2>2. store' = Apply(store, call[c]).next
    BY <1>3, <2>1 DEF Sound, LoadToReply
  <2> QED
    BY <1>3, <1>t, <2>2
       DEF LoadToReply, Return, Atomic!Perform, Atomic!Answer, TypeOK
<1>4. ASSUME NEW c \in Clients, LoadToCommit(c) PROVE UNCHANGED Atomic!vars
  BY <1>4 DEF LoadToCommit, Atomic!vars
<1>5. ASSUME NEW c \in Clients, LoadFails(c) PROVE Atomic!Fail(c)
  BY <1>5, <1>t DEF LoadFails, Return, Unavailable, Atomic!Fail,
                    Atomic!Answer, TypeOK
<1>6. ASSUME NEW c \in Clients, CommitOk(c) PROVE Atomic!Perform(c)
  <2>1. loaded[c] = store
    BY <1>6 DEF IInv, ClientInv, CommitOk
  <2> QED
    BY <1>6, <1>t, <2>1
       DEF CommitOk, Persist, Return, Atomic!Perform, Atomic!Answer, TypeOK
<1>7. ASSUME NEW c \in Clients, CommitLost(c) PROVE UNCHANGED Atomic!vars
  BY <1>7 DEF CommitLost, Atomic!vars
<1>8. ASSUME NEW c \in Clients, AttemptsExhausted(c) PROVE Atomic!Fail(c)
  BY <1>8, <1>t DEF AttemptsExhausted, Return, Unavailable, Atomic!Fail,
                    Atomic!Answer, TypeOK
<1>9. ASSUME NEW c \in Clients, LeaveInDoubt(c)
      PROVE  {w.call : w \in inDoubt'} = {w.call : w \in inDoubt} \cup {call[c]}
  <2> DEFINE w == [call |-> call[c], loaded |-> loaded[c]]
  <2>1. w.call = call[c] /\ inDoubt' = inDoubt \cup {w}
    BY <1>9 DEF LeaveInDoubt
  <2> HIDE DEF w
  <2> QED
    BY <2>1
<1>10. ASSUME NEW c \in Clients, CommitThrows(c) PROVE Atomic!Ambiguous(c)
  BY <1>9, <1>10, <1>t DEF CommitThrows, Return, Unavailable,
                           Atomic!Ambiguous, Atomic!Answer, TypeOK
<1>11. ASSUME NEW c \in Clients, Crash(c) PROVE Atomic!Crash(c)
  BY <1>9, <1>11, <1>t DEF Crash, Return, Atomic!Crash, Atomic!Answer, TypeOK
<1>12. ASSUME NEW w \in inDoubt, Lands(w)
       PROVE  \E request \in {v.call : v \in inDoubt} :
                 Atomic!TakeEffect(request)
  <2>1. w.loaded = store
    BY <1>12 DEF IInv, DoubtInv, Lands
  <2>2. Atomic!TakeEffect(w.call)
    BY <1>12, <2>1 DEF Lands, Persist, Atomic!TakeEffect
  <2> QED
    BY <2>2
<1>13. ASSUME NEW w \in inDoubt, Drops(w) PROVE Atomic!Dissolve
  BY <1>13 DEF Drops, Atomic!Dissolve
<1>14. CASE UNCHANGED vars
  BY <1>14 DEF vars, Atomic!vars
<1> QED
  BY <1>1, <1>2, <1>3, <1>4, <1>5, <1>6, <1>7, <1>8, <1>10, <1>11, <1>12,
     <1>13, <1>14 DEF Next, Step, Atomic!Next

\* runTransaction over a store that compares versions is atomic to its
\* callers: the service implements AtomicLedger.
THEOREM ServiceIsAtomic == Spec => IsAtomic
<1>1. Spec => [][Atomic!Next]_(Atomic!vars)
  BY Invariance, AtomicNext, PTL DEF Spec
<1> QED
  BY <1>1, AtomicInit, PTL DEF Spec, IsAtomic, Atomic!Spec

-----------------------------------------------------------------------------
(* What no step of the service does to the persisted ledger.               *)

\* A step leaves the store or applies one operation to it, and remembers the
\* pools it edited too late.
LEMMA StepIsOperation ==
    ASSUME IInv, [Next]_vars
    PROVE  \/ store' = store /\ overtaken' = overtaken
           \/ /\ \E k : Admissible(k) /\ store' = Apply(store, k).next
              /\ overtaken' = overtaken \cup OvertakenBy(store, store')
<1>1. ASSUME NEW c \in Clients, CommitOk(c)
      PROVE  /\ Admissible(call[c]) /\ store' = Apply(store, call[c]).next
             /\ overtaken' = overtaken \cup OvertakenBy(store, store')
  BY <1>1 DEF CommitOk, Persist, IInv, ClientInv
<1>2. ASSUME NEW w \in inDoubt, Lands(w)
      PROVE  /\ Admissible(w.call) /\ store' = Apply(store, w.call).next
             /\ overtaken' = overtaken \cup OvertakenBy(store, store')
  BY <1>2 DEF Lands, Persist, IInv, DoubtInv
<1>3. ASSUME NEW c \in Clients,
             \/ LoadToReply(c) \/ LoadToCommit(c) \/ LoadFails(c)
             \/ CommitLost(c) \/ AttemptsExhausted(c) \/ CommitThrows(c)
             \/ Crash(c)
             \/ \E request \in Requests : Invoke(c, request) \/ Refuse(c, request)
      PROVE  store' = store /\ overtaken' = overtaken
  BY <1>3 DEF LoadToReply, LoadToCommit, LoadFails, CommitLost,
              AttemptsExhausted, CommitThrows, Crash, Invoke, Refuse
<1>4. ASSUME NEW w \in inDoubt, Drops(w) PROVE store' = store /\ overtaken' = overtaken
  BY <1>4 DEF Drops
<1>5. CASE UNCHANGED vars
  BY <1>5 DEF vars
<1> QED
  BY <1>1, <1>2, <1>3, <1>4, <1>5 DEF Next, Step

LEMMA StepLawful ==
    ASSUME IInv, [Next]_vars
    PROVE  Lawful(store, store')
<1>1. LedgerTyped(store)
  BY DEF IInv, TypeOK
<1>2. CASE store' = store
  <2>1. Reply(store, Undefined).next = store
    BY DEF Reply
  <2> QED
    BY <1>1, <1>2, <2>1, ReplyLawful
<1>3. CASE \E k : Admissible(k) /\ store' = Apply(store, k).next
  BY <1>1, <1>3, ApplyLawful
<1> QED
  BY <1>2, <1>3, StepIsOperation

\* No timer, restart, lost race or write in doubt refunds a hold (header of
\* ledger.ts): over any run of the service the held tokens of a row go down
\* only by settled usage or by the proof that nothing was dispatched.
THEOREM HoldsNeedProof == Spec => HoldsLiftedByProof
<1>1. IInv /\ [Next]_vars => [HoldsLifted(store, store')]_vars
  BY StepLawful DEF Lawful
<1> QED
  BY <1>1, Invariance, PTL DEF Spec, HoldsLiftedByProof

\* Settlement debits the original admission epoch and an epoch never changes
\* (ledger.ts, epoch.ts): pinned rows, admissions, fences and final
\* invocations survive every step, retry, crash and late write.
THEOREM HistoryKeptForever == Spec => HistoryIsFinal
<1>1. IInv /\ [Next]_vars => [HistoryKept(store, store')]_vars
  BY StepLawful DEF Lawful
<1> QED
  BY <1>1, Invariance, PTL DEF Spec, HistoryIsFinal

\* One allowance per period (transitionPool, transitionSchedule, reserve):
\* for any number of callers, edits, retries with old clock readings and
\* writes that land late, the pinned epochs of a pool do not overlap unless
\* an edit took effect inside or before one of them.  Inductive is that the
\* versions of a pool are chained, each beginning on the grid of the one
\* before, and that every pinned epoch is on the grid of one version and ends
\* before the later ones begin.
THEOREM EpochsStayApart == Spec => []EpochsApartUntilOvertaken
<1> DEFINE GridInv == /\ \A p \in Pools : Chained(store.schedules[p])
                      /\ \A p \in Pools \ overtaken : Charted(store, p)
<1>1. Init => GridInv
  <2>1. Chained(<<>>)
    BY DEF Chained
  <2>2. /\ \A p \in Pools : EmptyLedgerState.schedules[p] = <<>>
        /\ DOMAIN EmptyLedgerState.epochs = {}
    BY DEF EmptyLedgerState
  <2> QED
    BY <2>1, <2>2 DEF Init, Charted
<1>2. IInv /\ GridInv /\ [Next]_vars => GridInv'
  <2> SUFFICES ASSUME IInv, GridInv, [Next]_vars PROVE GridInv'
    OBVIOUS
  <2>1. ChartKept(store, store')
    BY StepLawful DEF Lawful
  <2>2. CASE store' = store /\ overtaken' = overtaken
    BY <2>2
  <2>3. CASE overtaken' = overtaken \cup OvertakenBy(store, store')
    BY <2>1, <2>3 DEF ChartKept
  <2> QED
    BY <2>2, <2>3, StepIsOperation
<1>3. IInv /\ GridInv => EpochsApartUntilOvertaken
  BY ChartedApart DEF IInv, TypeOK, EpochsApartUntilOvertaken
<1> QED
  BY <1>1, <1>2, <1>3, Invariance, PTL DEF Spec

\* Nothing is lost or counted twice (reserve, settle, releaseUndispatched):
\* over any run, with lost races, unknown commits that land late and
\* crashes, the held tokens of every row are the bounds of its unresolved
\* invocations and its committed tokens the usage of its settled ones.  What
\* makes it inductive is in Conserved: every invocation has its row, and
\* every settled one its usage.
THEOREM TokensAccounted == Spec => []TokensConserved
<1>1. Init => Conserved(store)
  BY EmptyConserved DEF Init
<1>2. IInv /\ Conserved(store) /\ [Next]_vars => Conserved(store)'
  BY StepLawful DEF Lawful
<1>3. Conserved(store) => TokensConserved
  BY DEF Conserved, TokensConserved
<1> QED
  BY <1>1, <1>2, <1>3, Invariance, PTL DEF Spec

=============================================================================
