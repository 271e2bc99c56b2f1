---------------------------- MODULE LedgerService ----------------------------
(***************************************************************************)
(* runTransaction of runtime/outbound/ledger.ts: optimistic whole-state    *)
(* transactions of concurrent callers over one LedgerStore, with bounded   *)
(* retries, storage that fails, commits whose outcome is unknown and       *)
(* callers that crash.                                                     *)
(*                                                                         *)
(* The store is modelled by its contract (ledger.ts, LedgerStore): load    *)
(* returns the latest persisted state, commit persists `next` only while   *)
(* the persisted version is the expected one.  A commit that throws is     *)
(* commit-unknown: the write stays in `inDoubt` and may still reach the    *)
(* store as long as the version it expects is current (a database that     *)
(* commits after its client has lost the connection).                      *)
(***************************************************************************)
EXTENDS LedgerOps

CONSTANTS
    Clients,        \* concurrent callers, in one or in several processes
    Requests,       \* the calls the environment makes
    MaxAttempts,    \* 64 in the code
    MaxSchedules,   \* bound: no edit is asked for beyond this many versions
    MaxDoubt,       \* bound: writes in doubt at the same time
    NoCall          \* a client that has no call under way

ASSUME RequestsAssumption == Requests \subseteq Calls
ASSUME MaxAttemptsAssumption == MaxAttempts \in Nat \ {0}
ASSUME MaxSchedulesAssumption == MaxSchedules \in Nat
ASSUME MaxDoubtAssumption == MaxDoubt \in Nat
ASSUME NoCallAssumption == NoCall \notin Calls

VARIABLES
    store,      \* the persisted LedgerState
    call,       \* call[c]: the call c is executing, or NoCall
    pc,         \* pc[c]: "idle", "load" or "commit"
    loaded,     \* loaded[c]: the state c applied its call to
    attempt,    \* attempt[c]: lost races of the current transaction
    answer,     \* answer[c]: what the last call of c returned
    inDoubt,    \* writes of unknown outcome: the call and the state it read
    base,       \* base[c]: version of the first state loaded (history)
    overtaken   \* pools with an edit that admissions overtook (history)

vars ==
    <<store, call, pc, loaded, attempt, answer, inDoubt, base, overtaken>>

Init ==
    /\ store = EmptyLedgerState
    /\ call = [c \in Clients |-> NoCall]
    /\ pc = [c \in Clients |-> "idle"]
    /\ loaded = [c \in Clients |-> EmptyLedgerState]
    /\ attempt = [c \in Clients |-> 0]
    /\ answer = [c \in Clients |-> Undefined]
    /\ inDoubt = {}
    /\ base = [c \in Clients |-> 0]
    /\ overtaken = {}

-----------------------------------------------------------------------------
\* Faulty variant of Return: the call is not forgotten.
ReturnKeepsCall(c, value) ==
    /\ pc' = [pc EXCEPT ![c] = "idle"]
    /\ loaded' = [loaded EXCEPT ![c] = EmptyLedgerState]
    /\ attempt' = [attempt EXCEPT ![c] = 0]
    /\ base' = [base EXCEPT ![c] = 0]
    /\ answer' = [answer EXCEPT ![c] = value]
    /\ UNCHANGED call

\* The transaction of c ends with this answer; its locals are gone.
Return(c, value) ==
    /\ call' = [call EXCEPT ![c] = NoCall]
    /\ pc' = [pc EXCEPT ![c] = "idle"]
    /\ loaded' = [loaded EXCEPT ![c] = EmptyLedgerState]
    /\ attempt' = [attempt EXCEPT ![c] = 0]
    /\ base' = [base EXCEPT ![c] = 0]
    /\ answer' = [answer EXCEPT ![c] = value]

\* A caller enters the service.
Invoke(c, request) ==
    /\ pc[c] = "idle"
    /\ EarlyReturn(request) = Undefined
    /\ request.kind = "transition"
          => Len(store.schedules[request.pool]) < MaxSchedules
    /\ call' = [call EXCEPT ![c] = request]
    /\ pc' = [pc EXCEPT ![c] = "load"]
    /\ answer' = [answer EXCEPT ![c] = Undefined]
    /\ UNCHANGED <<store, loaded, attempt, inDoubt, base, overtaken>>

\* Arguments that never reach the store.
Refuse(c, request) ==
    /\ pc[c] = "idle"
    /\ EarlyReturn(request) # Undefined
    /\ answer' = [answer EXCEPT ![c] = EarlyReturn(request)]
    /\ UNCHANGED <<store, call, pc, loaded, attempt, inDoubt, base, overtaken>>

\* load succeeds and apply runs on its result: a reply ends the
\* transaction, a write goes on to commit.
LoadToReply(c) ==
    /\ pc[c] = "load"
    /\ ~ Apply(store, call[c]).write
    /\ Return(c, Apply(store, call[c]).value)
    /\ UNCHANGED <<store, inDoubt, overtaken>>

LoadToCommit(c) ==
    /\ pc[c] = "load"
    /\ Apply(store, call[c]).write
    /\ loaded' = [loaded EXCEPT ![c] = store]
    /\ base' = [base EXCEPT ![c] = IF attempt[c] = 0 THEN store.version ELSE @]
    /\ pc' = [pc EXCEPT ![c] = "commit"]
    /\ UNCHANGED <<store, call, attempt, answer, inDoubt, overtaken>>

LoadFails(c) ==
    /\ pc[c] = "load"
    /\ Return(c, Unavailable("storage-unavailable"))
    /\ UNCHANGED <<store, inDoubt, overtaken>>

\* The backend persists this state.
Persist(next) ==
    /\ store' = next
    /\ overtaken' = overtaken \cup OvertakenBy(store, next)

\* Faulty variant of CommitOk: the version is not compared.
CommitBlind(c) ==
    /\ pc[c] = "commit"
    /\ Persist(Apply(loaded[c], call[c]).next)
    /\ Return(c, Apply(loaded[c], call[c]).value)
    /\ UNCHANGED inDoubt

\* commit finds the expected version and persists.
CommitOk(c) ==
    /\ pc[c] = "commit"
    /\ store.version = loaded[c].version
    /\ Persist(Apply(loaded[c], call[c]).next)
    /\ Return(c, Apply(loaded[c], call[c]).value)
    /\ UNCHANGED inDoubt

\* Faulty variants of CommitLost: a race is reported lost that was not; a
\* lost race neither reloads nor counts.
CommitLostSpuriously(c) ==
    /\ pc[c] = "commit"
    /\ attempt[c] + 1 < MaxAttempts
    /\ attempt' = [attempt EXCEPT ![c] = @ + 1]
    /\ pc' = [pc EXCEPT ![c] = "load"]
    /\ UNCHANGED <<store, call, loaded, answer, inDoubt, base, overtaken>>

CommitRetried(c) ==
    /\ pc[c] = "commit"
    /\ store.version # loaded[c].version
    /\ UNCHANGED vars

\* commit reports committed: false; the race is lost and the state is
\* loaded again until the attempts are used up.
CommitLost(c) ==
    /\ pc[c] = "commit"
    /\ store.version # loaded[c].version
    /\ attempt[c] + 1 < MaxAttempts
    /\ attempt' = [attempt EXCEPT ![c] = @ + 1]
    /\ pc' = [pc EXCEPT ![c] = "load"]
    /\ UNCHANGED <<store, call, loaded, answer, inDoubt, base, overtaken>>

AttemptsExhausted(c) ==
    /\ pc[c] = "commit"
    /\ store.version # loaded[c].version
    /\ attempt[c] + 1 >= MaxAttempts
    /\ Return(c, Unavailable("storage-unavailable"))
    /\ UNCHANGED <<store, inDoubt, overtaken>>

\* The outcome of the commit under way at c is unknown from here on.
LeaveInDoubt(c) ==
    /\ Cardinality(inDoubt) < MaxDoubt
    /\ inDoubt' = inDoubt \cup {[call |-> call[c], loaded |-> loaded[c]]}

\* commit throws: whether the write reached the store is unknown.
CommitThrows(c) ==
    /\ pc[c] = "commit"
    /\ LeaveInDoubt(c)
    /\ Return(c, Unavailable("ambiguous-commit"))
    /\ UNCHANGED <<store, overtaken>>

\* The process of c dies; a commit under way is left in doubt.
Crash(c) ==
    /\ pc[c] # "idle"
    /\ IF pc[c] = "commit" THEN LeaveInDoubt(c) ELSE UNCHANGED inDoubt
    /\ Return(c, Undefined)
    /\ UNCHANGED <<store, overtaken>>

\* The backend completes a write nobody waits for, or drops it.
Lands(w) ==
    /\ store.version = w.loaded.version
    /\ Persist(Apply(w.loaded, w.call).next)
    /\ inDoubt' = inDoubt \ {w}
    /\ UNCHANGED <<call, pc, loaded, attempt, answer, base>>

Drops(w) ==
    /\ inDoubt' = inDoubt \ {w}
    /\ UNCHANGED <<store, call, pc, loaded, attempt, answer, base, overtaken>>

Step(c) ==
    \/ LoadFails(c) \/ LoadToReply(c) \/ LoadToCommit(c)
    \/ CommitLost(c) \/ AttemptsExhausted(c) \/ CommitThrows(c) \/ CommitOk(c)

Next ==
    \/ \E c \in Clients :
          \/ \E request \in Requests : Invoke(c, request) \/ Refuse(c, request)
          \/ Step(c)
          \/ Crash(c)
    \/ \E w \in inDoubt : Lands(w) \/ Drops(w)

Spec == Init /\ [][Next]_vars

\* Every load and commit the runtime awaits settles.
Fairness == \A c \in Clients : WF_vars(Step(c))

-----------------------------------------------------------------------------
(* Type invariant.                                                         *)

\* The ledger and every client stay within their types, and a client that
\* runs a transaction runs it for a call that reached the store.
TypeOK ==
    /\ LedgerTyped(store)
    /\ call \in [Clients -> Calls \cup {NoCall}]
    /\ pc \in [Clients -> {"idle", "load", "commit"}]
    /\ loaded = [c \in Clients |-> loaded[c]]
    /\ \A c \in Clients : LedgerTyped(loaded[c])
    /\ attempt \in [Clients -> Nat]
    /\ base \in [Clients -> Nat]
    /\ overtaken \subseteq Pools
    /\ \A c \in Clients : pc[c] = "idle" <=> call[c] = NoCall

-----------------------------------------------------------------------------
(* Safety.                                                                 *)

\* The budget itself (ledger.ts, reserve): in a row none of whose
\* invocations breached its bound, debits and holds together never exceed
\* the pinned limit, however reservations, settlements and releases of
\* racing callers interleave.
NoOverAdmission == WithinLimits(store)

\* The accounting identity (reserve, settle, releaseUndispatched): the held
\* tokens of a row are the bounds of its unresolved invocations, its
\* committed tokens the usage of its settled ones.  A lost update, a double
\* debit or a double release breaks it.
TokensConserved == Balanced(store)

\* Optimistic concurrency (runTransaction, commit): a write whose expected
\* version is still the persisted one was computed from exactly the
\* persisted state, so committing it overwrites nobody's work.  This covers
\* writes left in doubt as well.
NoStaleWrite ==
    /\ \A c \in Clients :
          pc[c] = "commit" /\ loaded[c].version = store.version
              => loaded[c] = store
    /\ \A w \in inDoubt :
          w.loaded.version = store.version => w.loaded = store

\* Convergence (comment of runTransaction: every lost race reloads and at
\* least one writer retires per round): each lost race of a transaction is
\* paid for by a different commit of another writer, so a transaction that
\* gives up has seen MaxAttempts commits since it first loaded.
RetriesPaidByCommits ==
    \A c \in Clients :
        /\ pc[c] = "commit" => loaded[c].version >= base[c] + attempt[c]
        /\ pc[c] = "load" /\ attempt[c] > 0
              => store.version >= base[c] + attempt[c]

\* What one step may do to a hold (header of ledger.ts: no timer, disposal,
\* restart or empty response refunds a hold): it is lifted only by the usage
\* of the invocation, or by the proof that it was never dispatched.
HoldsLiftedByProof == [][HoldsLifted(store, store')]_vars

\* What no step may do (epoch.ts: an existing epoch never changes; ledger.ts:
\* settlement debits in the original admission epoch): rows, admissions,
\* fences and final invocations stay what they are.
HistoryIsFinal == [][HistoryKept(store, store')]_vars

\* One allowance per period (transitionPool, transitionSchedule): the epochs
\* pinned for a pool do not overlap, so no instant is paid for by two rows,
\* unless an edit took effect inside, before or at the first instant of an
\* epoch that already had a row.  Edits race with reservations of any epoch,
\* retries keep the clock reading they began with, and writes in doubt land
\* late.  The exception is not in the comments: they say that "overlapping or
\* retroactive transitions are TypeErrors" (epoch.ts:79), but
\* transitionSchedule looks at no row and accepts nowMs itself as the boundary
\* (epoch.ts:102), and the workload EditRequests takes both ways into it.
EpochsApartUntilOvertaken ==
    \A p \in Pools \ overtaken : EpochsApart(store, p)

-----------------------------------------------------------------------------
(* Refinement and liveness.                                                *)

Atomic == INSTANCE AtomicLedger WITH
    state <- store, doubt <- {w.call : w \in inDoubt},
    Idle <- NoCall, NoAnswer <- Undefined,
    InitialState <- EmptyLedgerState, Effect <- Apply,
    Early <- EarlyReturn, NoEarly <- Undefined

\* The service is atomic to its callers: runTransaction over a store that
\* compares versions implements AtomicLedger.
IsAtomic == Atomic!Spec

\* Every call is answered (bounded retries of runTransaction): no interleaving
\* of lost races keeps a transaction going for ever, so a caller is idle again
\* and again.
EveryCallAnswered ==
    \A c \in Clients : []<>(pc[c] = "idle")

=============================================================================
