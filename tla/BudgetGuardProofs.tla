-------------------------- MODULE BudgetGuardProofs --------------------------
(***************************************************************************)
(* Proofs about BudgetGuard, for any number of guards, tasks, operators,   *)
(* invocation IDs and operations in doubt: no provider call without a      *)
(* durable fence, IDs in flight exact, no uncertain operation reported as  *)
(* done, consumption covered by the ledger.                                *)
(*                                                                         *)
(* The argument.  ApplyLawful says what one operation does to the ledger:  *)
(* a fence stays, a fenced invocation is never released, a settled or      *)
(* released one is final.  So what a task has learned from an answer, and  *)
(* what a report has said, stays true whatever the others do, and an       *)
(* operation in doubt can only be one more lawful step.  The inductive     *)
(* invariant adds what a task knows at each await.  For consumption: the   *)
(* ledger's rows are the sums over their invocations (LedgerOpsProofs), so *)
(* it is enough that each invocation sent once covers its own call: by its *)
(* hold, or by a debit that is the usage the call reported, the only one   *)
(* any report, answer on its way or operation in doubt can carry.          *)
(***************************************************************************)
EXTENDS BudgetGuard, LedgerOpsProofs

Labels == {"idle", "reserve", "fence", "release", "send", "response", "settle"}

\* The ledger shows i as fenced, and not as released.
ShowsFence(state, i) ==
    /\ i \in DOMAIN state.invocations
    /\ state.invocations[i].fenced
    /\ state.invocations[i].state # "released"

\* A report that the ledger bears out.
BorneOut(state, r) ==
    r.outcome # "unresolved" =>
        /\ r.id \in DOMAIN state.invocations
        /\ LET record == state.invocations[r.id]
           IN  IF r.outcome = "released" THEN record.state = "released"
               ELSE /\ record.state = "settled"
                    /\ r.outcome = "breach" => record.breach

Typed ==
    /\ pc \in [Tasks -> Labels]
    /\ job = [t \in Tasks |-> job[t]]
    /\ usage \in [Tasks -> 0..MaxSafe]
    /\ DOMAIN inflight = Guards
    /\ sent \in [Ids -> Nat]
    /\ consumed \in [Ids -> Nat]

\* What task t knows: its job while it runs, and the fence once it may send.
TaskInv(t) ==
    /\ pc[t] # "idle" => job[t] \in ReserveCall /\ job[t].qualified
    /\ pc[t] \in {"send", "response", "settle"} => ShowsFence(store, job[t].id)

LedgerPart ==
    /\ LedgerInv(store)
    /\ \A k \in doubt : Admissible(k)

IInv ==
    /\ LedgerPart
    /\ Typed
    /\ \A t \in Tasks : TaskInv(t)
    /\ SentUnderFence
    /\ InflightExact
    /\ ReportsTruthful

-----------------------------------------------------------------------------
(* What lasts.                                                             *)

LEMMA FenceLasts ==
    ASSUME NEW old, NEW new, Lawful(old, new), NEW i, ShowsFence(old, i)
    PROVE  ShowsFence(new, i)
BY DEF Lawful, HistoryKept, ShowsFence

LEMMA ReportLasts ==
    ASSUME NEW old, NEW new, Lawful(old, new), NEW r, BorneOut(old, r)
    PROVE  BorneOut(new, r)
<1>1. CASE r.outcome = "unresolved"
  BY <1>1 DEF BorneOut
<1>2. CASE r.outcome # "unresolved"
  <2> DEFINE was == old.invocations[r.id]
  <2>1. r.id \in DOMAIN old.invocations /\ was.state \in {"released", "settled"}
    BY <1>2 DEF BorneOut
  <2>2. ~ Unresolved(was)
    BY <2>1 DEF Unresolved
  <2>3. r.id \in DOMAIN new.invocations /\ new.invocations[r.id] = was
    BY <2>1, <2>2 DEF Lawful, HistoryKept
  <2> QED
    BY <1>2, <2>3 DEF BorneOut
<1> QED
  BY <1>1, <1>2

\* The ledger of a lawful step, with what tasks and reports say of it.
LEMMA StoreMoves ==
    ASSUME IInv, LedgerInv(store'), Lawful(store, store')
    PROVE  /\ \A i : ShowsFence(store, i) => ShowsFence(store', i)
           /\ \A r \in reports : BorneOut(store', r)
           /\ \A i \in Ids : sent[i] > 0 => ShowsFence(store', i)
<1>1. \A i : ShowsFence(store, i) => ShowsFence(store', i)
  BY FenceLasts
<1>2. \A r \in reports : BorneOut(store, r)
  BY DEF IInv, ReportsTruthful, BorneOut
<1>3. \A i \in Ids : sent[i] > 0 => ShowsFence(store, i)
  BY DEF IInv, SentUnderFence, ShowsFence
<1> QED
  BY <1>1, <1>2, <1>3, ReportLasts

-----------------------------------------------------------------------------
(* What an answer of the ledger means.                                     *)

\* One operation, whichever way it is answered, is a lawful step; what it
\* leaves in doubt can still be applied.
LEMMA AnsweredSound ==
    ASSUME LedgerPart, NEW k \in Calls, NEW value, Answered(k, value)
    PROVE  LedgerPart' /\ Lawful(store, store')
<1>1. LedgerInv(store) /\ LedgerTyped(store)
  BY DEF LedgerPart, LedgerInv
<1>2. Lawful(store, store)
  <2>1. Reply(store, Undefined).next = store
    BY DEF Reply
  <2> QED
    BY <1>1, <2>1, ReplyLawful
<1>3. CASE UNCHANGED <<store, doubt>>
  BY <1>2, <1>3 DEF LedgerPart
<1>4. CASE /\ EarlyReturn(k) = Undefined
           /\ store' = Apply(store, k).next /\ UNCHANGED doubt
  <2>1. Admissible(k)
    BY <1>4 DEF Admissible
  <2>2. Lawful(store, store')
    BY <1>1, <1>4, <2>1, ApplyLawful
  <2>3. Sound(store, Apply(store, k))
    BY <1>1, <2>1, ApplySound
  <2> QED
    BY <1>4, <2>2, <2>3 DEF Sound, LedgerPart
<1>5. CASE /\ EarlyReturn(k) = Undefined
           /\ doubt' = doubt \cup {k} /\ UNCHANGED store
  BY <1>1, <1>2, <1>5 DEF LedgerPart, Admissible
<1> QED
  BY <1>3, <1>4, <1>5 DEF Answered

\* Only an operation that took effect answers anything but unavailable.
LEMMA AnsweredDone ==
    ASSUME NEW k, NEW value, Answered(k, value), value.outcome # "unavailable"
    PROVE  /\ EarlyReturn(k) = Undefined
           /\ value = Apply(store, k).value /\ store' = Apply(store, k).next
<1>1. Failed.outcome = "unavailable" /\ Ambiguous.outcome = "unavailable"
  BY DEF Failed, Ambiguous, Unavailable
<1>2. EarlyReturn(k) # Undefined => EarlyReturn(k).outcome = "unavailable"
  BY DEF EarlyReturn, Unavailable
<1> QED
  BY <1>1, <1>2 DEF Answered

\* fence
LEMMA FencedMeans ==
    ASSUME LedgerPart, NEW k \in FenceCall, NEW value, Answered(k, value),
           value.outcome = "fenced"
    PROVE  ShowsFence(store', k.id)
<1>1. value = Apply(store, k).value /\ store' = Apply(store, k).next
  BY AnsweredDone
<1>2. k.kind = "fence"
  BY DEF FenceCall
<1>3. CASE k.id \in DOMAIN store.invocations
  <2>1. Apply(store, k) = FenceKnown(store, k.id)
    BY <1>2, <1>3 DEF Apply
  <2> QED
    BY <1>1, <1>3, <2>1, FenceLawful DEF ShowsFence, LedgerPart, LedgerInv
<1>4. CASE k.id \notin DOMAIN store.invocations
  <2>1. Apply(store, k) = Reply(store, Unavailable("unknown-invocation"))
    BY <1>2, <1>4 DEF Apply
  <2> QED
    BY <1>1, <2>1 DEF Reply, Unavailable
<1> QED
  BY <1>3, <1>4

\* releaseUndispatched
LEMMA ReleasedMeans ==
    ASSUME LedgerPart, NEW k \in ReleaseCall, NEW value, Answered(k, value),
           value.outcome = "released"
    PROVE  BorneOut(store', [id |-> k.id, outcome |-> "released"])
<1>1. value = Apply(store, k).value /\ store' = Apply(store, k).next
  BY AnsweredDone
<1>2. k.kind = "release"
  BY DEF ReleaseCall
<1>3. CASE k.id \in DOMAIN store.invocations
  <2>1. Apply(store, k) = ReleaseKnown(store, k.id)
    BY <1>2, <1>3 DEF Apply
  <2>2. /\ k.id \in DOMAIN store'.invocations
        /\ store'.invocations[k.id].state = "released"
    BY <1>1, <1>3, <2>1, ReleaseLawful DEF LedgerPart, LedgerInv
  <2> QED
    BY <2>2 DEF BorneOut
<1>4. CASE k.id \notin DOMAIN store.invocations
  <2>1. Apply(store, k) = Reply(store, Unavailable("unknown-invocation"))
    BY <1>2, <1>4 DEF Apply
  <2> QED
    BY <1>1, <2>1 DEF Reply, Unavailable
<1> QED
  BY <1>3, <1>4

\* settle
LEMMA SettledMeans ==
    ASSUME LedgerPart, NEW k \in SettleCall, NEW value, Answered(k, value),
           value.outcome = "settled"
    PROVE  /\ BorneOut(store', [id |-> k.id, outcome |-> "settled"])
           /\ value.breach => BorneOut(store', [id |-> k.id, outcome |-> "breach"])
<1>1. /\ value = Apply(store, k).value /\ store' = Apply(store, k).next
      /\ EarlyReturn(k) = Undefined
  BY AnsweredDone
<1>2. k.kind = "settle" /\ k.usage \in Usage \cup {Undefined}
  BY DEF SettleCall
<1>3. CASE k.id \in DOMAIN store.invocations
  <2>1. Apply(store, k) = SettleKnown(store, k.id, k.usage)
    BY <1>2, <1>3 DEF Apply
  <2>2. MeteringUsage(k.usage) # Undefined
    BY <1>1, <1>2, UndefinedIsNoAnswer DEF EarlyReturn
  <2>3. k.usage \in Usage /\ k.usage # Undefined
    BY <1>2, <2>2 DEF MeteringUsage
  <2>4. /\ k.id \in DOMAIN store'.invocations
        /\ store'.invocations[k.id].state = "settled"
        /\ store'.invocations[k.id].breach = value.breach
    BY <1>1, <1>3, <2>1, <2>3, SettleLawful DEF LedgerPart, LedgerInv
  <2> QED
    BY <2>4 DEF BorneOut
<1>4. CASE k.id \notin DOMAIN store.invocations
  <2>1. Apply(store, k) = Reply(store, Unavailable("unknown-invocation"))
    BY <1>2, <1>4 DEF Apply
  <2> QED
    BY <1>1, <2>1 DEF Reply, Unavailable
<1> QED
  BY <1>3, <1>4

-----------------------------------------------------------------------------
(* Steps of a task.                                                        *)

\* The other tasks do not move.
OthersStay(t) ==
    \A u \in Tasks \ {t} : pc'[u] = pc[u] /\ job'[u] = job[u]

TasksTyped ==
    /\ pc \in [Tasks -> Labels]
    /\ job = [t \in Tasks |-> job[t]]
    /\ usage \in [Tasks -> 0..MaxSafe]
    /\ DOMAIN inflight = Guards

\* From a lawful ledger step, the task that took it and the reports to the
\* invariant of the system.
LEMMA Assemble ==
    ASSUME IInv, LedgerPart', Lawful(store, store'), TasksTyped',
           \A t \in Tasks : \/ TaskInv(t)'
                            \/ pc'[t] = pc[t] /\ job'[t] = job[t],
           InflightExact',
           \A r \in reports' : r \in reports \/ BorneOut(store', r),
           sent' = sent, consumed' = consumed
    PROVE  IInv'
<1>1. LedgerInv(store')
  BY DEF LedgerPart
<1>2. /\ \A i : ShowsFence(store, i) => ShowsFence(store', i)
      /\ \A r \in reports : BorneOut(store', r)
      /\ \A i \in Ids : sent[i] > 0 => ShowsFence(store', i)
  BY <1>1, StoreMoves
<1>3. ASSUME NEW t \in Tasks PROVE TaskInv(t)'
  <2>1. CASE pc'[t] = pc[t] /\ job'[t] = job[t]
    BY <1>2, <2>1 DEF IInv, TaskInv
  <2> QED
    BY <2>1
<1>4. Typed'
  BY DEF IInv, Typed, TasksTyped
<1>5. SentUnderFence'
  BY <1>2 DEF SentUnderFence, ShowsFence
<1>6. ReportsTruthful'
  BY <1>2 DEF ReportsTruthful, BorneOut
<1> QED
  BY <1>3, <1>4, <1>5, <1>6 DEF IInv

LEMMA FinishKeeps ==
    ASSUME IInv, NEW t \in Tasks, pc[t] # "idle", NEW value, Finish(t, value)
    PROVE  /\ TasksTyped' /\ OthersStay(t) /\ TaskInv(t)'
           /\ InflightExact'
<1>1. TasksTyped
  BY DEF IInv, Typed, TasksTyped
<1>2. TasksTyped'
  <2>1. pc' \in [Tasks -> Labels] /\ job' = [u \in Tasks |-> job'[u]]
    BY <1>1 DEF TasksTyped, Finish, Labels
  <2>2. usage' \in [Tasks -> 0..MaxSafe]
    BY <1>1, MaxSafeAssumption DEF TasksTyped, Finish
  <2>3. DOMAIN inflight' = Guards
    BY <1>1 DEF TasksTyped, Finish
  <2> QED
    BY <2>1, <2>2, <2>3 DEF TasksTyped
<1>3. OthersStay(t) /\ pc'[t] = "idle"
  BY <1>1 DEF TasksTyped, Finish, OthersStay
<1>4. TaskInv(t)'
  BY <1>3 DEF TaskInv
<1>5. InflightExact'
  <2> SUFFICES ASSUME NEW g \in Guards
               PROVE  LET busy == {u \in Tasks : GuardOf[u] = g /\ pc'[u] # "idle"}
                      IN  /\ inflight'[g] = {job'[u].id : u \in busy}
                          /\ \A u, v \in busy : u # v => job'[u].id # job'[v].id
    BY DEF InflightExact
  <2> DEFINE busy == {u \in Tasks : GuardOf[u] = g /\ pc[u] # "idle"}
             left == {u \in Tasks : GuardOf[u] = g /\ pc'[u] # "idle"}
  <2>1. /\ inflight[g] = {job[u].id : u \in busy}
        /\ \A u, v \in busy : u # v => job[u].id # job[v].id
    BY DEF IInv, InflightExact
  <2>2. left = busy \ {t} /\ \A u \in left : job'[u] = job[u]
    BY <1>3 DEF OthersStay
  <2>3. inflight'[g] = IF g = GuardOf[t] THEN inflight[g] \ {job[t].id}
                       ELSE inflight[g]
    BY <1>1, GuardOfAssumption DEF TasksTyped, Finish
  <2>4. g = GuardOf[t] <=> t \in busy
    OBVIOUS
  <2> HIDE DEF busy, left
  <2>5. inflight'[g] = {job[u].id : u \in busy \ {t}}
    <3>1. CASE t \in busy
      BY <3>1, <2>1, <2>3, <2>4
    <3>2. CASE t \notin busy
      BY <3>2, <2>1, <2>3, <2>4
    <3> QED
      BY <3>1, <3>2
  <2>6. inflight'[g] = {job'[u].id : u \in left}
    BY <2>2, <2>5
  <2>7. \A u, v \in left : u # v => job'[u].id # job'[v].id
    BY <2>1, <2>2
  <2> QED
    BY <2>6, <2>7 DEF left
<1> QED
  BY <1>2, <1>3, <1>4, <1>5

\* A task goes on to another await.
LEMMA MovesKeeps ==
    ASSUME IInv, NEW t \in Tasks, pc[t] # "idle",
           NEW label \in Labels \ {"idle"}, pc' = [pc EXCEPT ![t] = label],
           job' = job, inflight' = inflight, usage' \in [Tasks -> 0..MaxSafe]
    PROVE  /\ TasksTyped' /\ OthersStay(t) /\ InflightExact'
           /\ pc'[t] = label
           /\ job[t] \in ReserveCall /\ job[t].qualified
<1>1. TasksTyped
  BY DEF IInv, Typed, TasksTyped
<1>2. TasksTyped' /\ OthersStay(t) /\ pc'[t] = label
  BY <1>1 DEF TasksTyped, OthersStay
<1>3. \A u \in Tasks : pc'[u] # "idle" <=> pc[u] # "idle"
  BY <1>2 DEF OthersStay
<1>4. InflightExact'
  <2> SUFFICES ASSUME NEW g \in Guards
               PROVE  LET busy == {u \in Tasks : GuardOf[u] = g /\ pc'[u] # "idle"}
                      IN  /\ inflight[g] = {job[u].id : u \in busy}
                          /\ \A u, v \in busy : u # v => job[u].id # job[v].id
    BY DEF InflightExact
  <2>1. {u \in Tasks : GuardOf[u] = g /\ pc'[u] # "idle"}
          = {u \in Tasks : GuardOf[u] = g /\ pc[u] # "idle"}
    BY <1>3
  <2> QED
    BY <2>1 DEF IInv, InflightExact
<1> QED
  BY <1>2, <1>4 DEF IInv, TaskInv

\* The operations a task awaits are calls of the ledger.
LEMMA TaskCalls ==
    ASSUME IInv, NEW t \in Tasks, pc[t] # "idle"
    PROVE  /\ job[t] \in ReserveCall /\ job[t].qualified /\ job[t].id \in Ids
           /\ FenceOf(t) \in FenceCall /\ FenceOf(t).id = job[t].id
           /\ ReleaseOf(t) \in ReleaseCall /\ ReleaseOf(t).id = job[t].id
           /\ SettleOf(t) \in SettleCall /\ SettleOf(t).id = job[t].id
           /\ UsageTotal(SettleOf(t).usage) = usage[t]
<1>1. job[t] \in ReserveCall /\ job[t].qualified
  BY DEF IInv, TaskInv
<1>2. job[t].id \in Ids
  BY <1>1 DEF ReserveCall
<1>3. usage[t] \in 0..MaxSafe
  BY DEF IInv, Typed
<1>4. /\ FenceOf(t) \in FenceCall /\ FenceOf(t).id = job[t].id
      /\ ReleaseOf(t) \in ReleaseCall /\ ReleaseOf(t).id = job[t].id
  BY <1>2 DEF FenceOf, FenceCall, ReleaseOf, ReleaseCall
<1>5. UsageOf(usage[t]) \in Usage /\ UsageTotal(UsageOf(usage[t])) = usage[t]
  BY <1>3, MaxSafeAssumption DEF UsageOf, Usage, UsageTotal
<1>6. /\ SettleOf(t) \in SettleCall /\ SettleOf(t).id = job[t].id
      /\ SettleOf(t).usage = UsageOf(usage[t])
  BY <1>2, <1>5 DEF SettleOf, SettleCall
<1> QED
  BY <1>1, <1>2, <1>4, <1>5, <1>6

\* An operation whose answer ends the dispatch of t.
LEMMA FinishAnswered ==
    ASSUME IInv, NEW t \in Tasks, pc[t] # "idle", NEW k \in Calls, NEW value,
           Answered(k, value), NEW last, Finish(t, last),
           \A r \in reports' : r \in reports \/ BorneOut(store', r),
           sent' = sent, consumed' = consumed
    PROVE  IInv'
<1>1. LedgerPart' /\ Lawful(store, store')
  BY AnsweredSound DEF IInv
<1>2. TasksTyped' /\ OthersStay(t) /\ TaskInv(t)' /\ InflightExact'
  BY FinishKeeps
<1>3. \A u \in Tasks : \/ TaskInv(u)'
                       \/ pc'[u] = pc[u] /\ job'[u] = job[u]
  BY <1>2 DEF OthersStay
<1> QED
  BY <1>1, <1>2, <1>3, Assemble

\* An operation whose answer lets t go on.
LEMMA MovesAnswered ==
    ASSUME IInv, NEW t \in Tasks, pc[t] # "idle", NEW k \in Calls, NEW value,
           Answered(k, value),
           NEW label \in Labels \ {"idle"}, pc' = [pc EXCEPT ![t] = label],
           label \in {"send", "response", "settle"} =>
               ShowsFence(store', job[t].id),
           job' = job, inflight' = inflight, usage' = usage,
           reports' = reports, sent' = sent, consumed' = consumed
    PROVE  IInv'
<1>1. LedgerPart' /\ Lawful(store, store')
  BY AnsweredSound DEF IInv
<1>2. usage' \in [Tasks -> 0..MaxSafe]
  BY DEF IInv, Typed
<1>3. /\ TasksTyped' /\ OthersStay(t) /\ InflightExact'
      /\ pc'[t] = label
      /\ job[t] \in ReserveCall /\ job[t].qualified
  BY <1>2, MovesKeeps
<1>4. TaskInv(t)'
  BY <1>3 DEF TaskInv
<1>5. \A u \in Tasks : \/ TaskInv(u)'
                       \/ pc'[u] = pc[u] /\ job'[u] = job[u]
  BY <1>3, <1>4 DEF OthersStay
<1> QED
  BY <1>1, <1>3, <1>5, Assemble

\* What is reported is borne out; "unresolved" always is.
LEMMA Reported ==
    ASSUME NEW i, NEW outcome, Report(i, outcome),
           \/ outcome = "unresolved"
           \/ BorneOut(store', [id |-> i, outcome |-> outcome])
    PROVE  \A r \in reports' : r \in reports \/ BorneOut(store', r)
<1>1. BorneOut(store', [id |-> i, outcome |-> outcome])
  BY DEF BorneOut
<1> QED
  BY <1>1 DEF Report

\* A ledger that is left alone.
LEMMA StoreStays ==
    ASSUME IInv, UNCHANGED <<store, doubt>>
    PROVE  LedgerPart' /\ Lawful(store, store')
<1>1. Reply(store, Undefined).next = store
  BY DEF Reply
<1>2. Lawful(store, store)
  BY <1>1, ReplyLawful DEF IInv, LedgerPart, LedgerInv
<1> QED
  BY <1>2 DEF IInv, LedgerPart

-----------------------------------------------------------------------------
(* One lemma per action of dispatch.                                       *)

LEMMA DispatchKeeps ==
    ASSUME IInv, NEW t \in Tasks, NEW a \in Attempts,
           NEW i \in InvocationIds(a), NEW now \in Times, Dispatch(t, a, i, now)
    PROVE  IInv'
<1> DEFINE call == [kind |-> "reserve", id |-> i, tenant |-> a.tenant,
                    pool |-> a.pool, correlation |-> a.correlation,
                    profile |-> a.profile, qualified |-> TRUE,
                    upperBound |-> Registry[a.profile], at |-> now]
<1>1. TasksTyped
  BY DEF IInv, Typed, TasksTyped
<1>2. Registry[a.profile] # Undefined
  BY UndefinedIsNoReason DEF Dispatch, Refusal
<1>3. /\ a.tenant \in Tenants /\ a.pool \in Pools
      /\ a.correlation \in Correlations /\ a.profile \in Profiles
      /\ i \in Ids /\ now \in 0..MaxSafe
  BY AttemptsAssumption, BoundsAssumption DEF Attempt, InvocationIds
<1>4. Registry[a.profile] \in 1..MaxSafe
  BY <1>2, <1>3, RegistryAssumption
<1>5. call \in ReserveCall /\ call.qualified /\ call.id = i
  BY <1>3, <1>4 DEF ReserveCall
<1>6. /\ pc' = [pc EXCEPT ![t] = "reserve"] /\ job' = [job EXCEPT ![t] = call]
      /\ usage' = usage
      /\ inflight' = [inflight EXCEPT ![GuardOf[t]] = @ \cup {i}]
      /\ pc[t] = "idle" /\ i \notin inflight[GuardOf[t]]
      /\ UNCHANGED <<store, doubt, reports, sent, consumed>>
  BY DEF Dispatch
<1> HIDE DEF call
<1>7. /\ TasksTyped' /\ OthersStay(t) /\ pc'[t] = "reserve" /\ job'[t] = call
  BY <1>1, <1>6 DEF TasksTyped, OthersStay, Labels
<1>8. TaskInv(t)'
  BY <1>5, <1>7 DEF TaskInv
<1>9. InflightExact'
  <2> SUFFICES ASSUME NEW g \in Guards
               PROVE  LET busy == {u \in Tasks : GuardOf[u] = g /\ pc'[u] # "idle"}
                      IN  /\ inflight'[g] = {job'[u].id : u \in busy}
                          /\ \A u, v \in busy : u # v => job'[u].id # job'[v].id
    BY DEF InflightExact
  <2> DEFINE busy == {u \in Tasks : GuardOf[u] = g /\ pc[u] # "idle"}
             more == {u \in Tasks : GuardOf[u] = g /\ pc'[u] # "idle"}
  <2>1. /\ inflight[g] = {job[u].id : u \in busy}
        /\ \A u, v \in busy : u # v => job[u].id # job[v].id
    BY DEF IInv, InflightExact
  <2>2. /\ t \notin busy
        /\ more = IF g = GuardOf[t] THEN busy \cup {t} ELSE busy
        /\ \A u \in busy : job'[u] = job[u]
    BY <1>6, <1>7 DEF OthersStay
  <2>3. inflight'[g] = IF g = GuardOf[t] THEN inflight[g] \cup {i} ELSE inflight[g]
    BY <1>1, <1>6, GuardOfAssumption DEF TasksTyped
  <2>4. job'[t].id = i
    BY <1>5, <1>7
  <2> HIDE DEF busy, more
  <2>5. {job'[u].id : u \in busy} = inflight[g]
    BY <2>1, <2>2
  <2>6. inflight'[g] = {job'[u].id : u \in more}
    <3>1. CASE g = GuardOf[t]
      BY <3>1, <2>2, <2>3, <2>4, <2>5
    <3>2. CASE g # GuardOf[t]
      BY <3>2, <2>2, <2>3, <2>5
    <3> QED
      BY <3>1, <3>2
  <2>7. g = GuardOf[t] => \A u \in busy : job'[u].id # i
    BY <1>6, <2>5
  <2>8. \A u, v \in more : u # v => job'[u].id # job'[v].id
    BY <2>1, <2>2, <2>4, <2>7
  <2> QED
    BY <2>6, <2>8 DEF more
<1>10. LedgerPart' /\ Lawful(store, store')
  BY <1>6, StoreStays
<1>11. \A u \in Tasks : TaskInv(u)' \/ (pc'[u] = pc[u] /\ job'[u] = job[u])
  BY <1>7, <1>8 DEF OthersStay
<1> QED
  BY <1>6, <1>7, <1>9, <1>10, <1>11, Assemble

\* A step that changes no task and not the ledger.
LEMMA QuietKeeps ==
    ASSUME IInv, UNCHANGED <<store, doubt, pc, job, usage, inflight, sent, consumed>>,
           \A r \in reports' : r \in reports \/ BorneOut(store', r)
    PROVE  IInv'
<1>1. LedgerPart' /\ Lawful(store, store')
  BY StoreStays
<1>2. TasksTyped' /\ InflightExact'
  BY DEF IInv, Typed, TasksTyped, InflightExact
<1> QED
  BY <1>1, <1>2, Assemble

LEMMA ReserveKeeps ==
    ASSUME IInv, NEW t \in Tasks, Reserve(t)
    PROVE  IInv'
<1>1. pc[t] = "reserve" /\ UNCHANGED <<reports, sent, consumed>>
  BY DEF Reserve
<1>2. PICK value : /\ Answered(job[t], value)
                   /\ \/ GoOn(t, "fence")
                      \/ Finish(t, value)
  BY DEF Reserve
<1>3. job[t] \in Calls
  BY <1>1, TaskCalls DEF Calls
<1>4. CASE GoOn(t, "fence")
  BY <1>1, <1>2, <1>3, <1>4, MovesAnswered DEF GoOn, Labels
<1>5. CASE Finish(t, value)
  BY <1>1, <1>2, <1>3, <1>5, FinishAnswered
<1> QED
  BY <1>2, <1>4, <1>5

LEMMA FenceKeeps ==
    ASSUME IInv, NEW t \in Tasks, Fence(t)
    PROVE  IInv'
<1>1. pc[t] = "fence" /\ UNCHANGED <<sent, consumed>>
  BY DEF Fence
<1>2. PICK value : Answered(FenceOf(t), value) /\ Fenced(t, value)
  BY DEF Fence
<1>3. /\ FenceOf(t) \in FenceCall /\ FenceOf(t) \in Calls
      /\ FenceOf(t).id = job[t].id
  BY <1>1, TaskCalls DEF Calls
<1>4. CASE value.outcome = "fenced" /\ GoOn(t, "send") /\ UNCHANGED reports
  <2>1. ShowsFence(store', job[t].id)
    BY <1>2, <1>3, <1>4, FencedMeans DEF IInv
  <2> QED
    BY <1>1, <1>2, <1>3, <1>4, <2>1, MovesAnswered DEF GoOn, Labels
<1>5. CASE Finish(t, value) /\ Report(job[t].id, "unresolved")
  BY <1>1, <1>2, <1>3, <1>5, Reported, FinishAnswered
<1>6. CASE Finish(t, value) /\ UNCHANGED reports
  BY <1>1, <1>2, <1>3, <1>6, FinishAnswered
<1>7. CASE /\ pc' = [pc EXCEPT ![t] = "release"]
           /\ UNCHANGED <<job, usage, inflight, reports>>
  BY <1>1, <1>2, <1>3, <1>7, MovesAnswered DEF Labels
<1> QED
  BY <1>2, <1>4, <1>5, <1>6, <1>7 DEF Fenced

LEMMA ReleaseKeeps ==
    ASSUME IInv, NEW t \in Tasks, Release(t)
    PROVE  IInv'
<1>1. pc[t] = "release" /\ UNCHANGED <<sent, consumed>> /\ Finish(t, result[t])
  BY DEF Release
<1>2. PICK value :
        /\ Answered(ReleaseOf(t), value)
        /\ Report(job[t].id, IF value.outcome = "released" THEN "released"
                             ELSE "unresolved")
  BY DEF Release
<1>3. /\ ReleaseOf(t) \in ReleaseCall /\ ReleaseOf(t) \in Calls
      /\ ReleaseOf(t).id = job[t].id
  BY <1>1, TaskCalls DEF Calls
<1>4. \A r \in reports' : r \in reports \/ BorneOut(store', r)
  <2>1. CASE value.outcome = "released"
    BY <1>2, <1>3, <2>1, ReleasedMeans, Reported DEF IInv
  <2>2. CASE value.outcome # "released"
    BY <1>2, <2>2, Reported
  <2> QED
    BY <2>1, <2>2
<1> QED
  BY <1>1, <1>2, <1>3, <1>4, FinishAnswered

LEMMA SendKeeps ==
    ASSUME IInv, NEW t \in Tasks, NEW n \in Uses, Send(t, n)
    PROVE  IInv'
<1>1. /\ pc[t] = "send" /\ pc' = [pc EXCEPT ![t] = "response"]
      /\ usage' = [usage EXCEPT ![t] = n]
      /\ sent' = [sent EXCEPT ![job[t].id] = @ + 1]
      /\ consumed' = [consumed EXCEPT ![job[t].id] = @ + n]
      /\ UNCHANGED <<store, doubt, job, inflight, reports>>
  BY DEF Send
<1>2. job[t].id \in Ids
  BY <1>1, TaskCalls
<1>3. ShowsFence(store, job[t].id)
  BY <1>1 DEF IInv, TaskInv
<1>4. n \in 0..MaxSafe /\ n \in Nat
  BY BoundsAssumption, MaxSafeAssumption
<1>5. usage' \in [Tasks -> 0..MaxSafe]
  BY <1>1, <1>4 DEF IInv, Typed
<1>6. /\ TasksTyped' /\ OthersStay(t) /\ InflightExact'
      /\ pc'[t] = "response"
      /\ job[t] \in ReserveCall /\ job[t].qualified
  BY <1>1, <1>5, MovesKeeps DEF Labels
<1>7. LedgerPart'
  BY <1>1, StoreStays
<1>8. \A u \in Tasks : TaskInv(u)'
  <2>1. TaskInv(t)'
    BY <1>1, <1>3, <1>6 DEF TaskInv
  <2>2. \A u \in Tasks \ {t} : TaskInv(u)'
    BY <1>1, <1>6 DEF IInv, TaskInv, OthersStay
  <2> QED
    BY <2>1, <2>2
<1>9. sent' \in [Ids -> Nat] /\ consumed' \in [Ids -> Nat]
  BY <1>1, <1>2, <1>4 DEF IInv, Typed
<1>10. SentUnderFence'
  <2>1. \A i \in Ids : i # job[t].id => sent'[i] = sent[i]
    BY <1>1 DEF IInv, Typed
  <2> QED
    BY <1>1, <1>3, <2>1 DEF IInv, SentUnderFence, ShowsFence
<1>11. ReportsTruthful'
  BY <1>1 DEF IInv, ReportsTruthful
<1> QED
  BY <1>6, <1>7, <1>8, <1>9, <1>10, <1>11 DEF IInv, Typed, TasksTyped

LEMMA ResponseKeeps ==
    ASSUME IInv, NEW t \in Tasks, Response(t)
    PROVE  IInv'
<1>1. pc[t] = "response" /\ UNCHANGED <<store, doubt, sent, consumed>>
  BY DEF Response
<1>2. LedgerPart' /\ Lawful(store, store')
  BY <1>1, StoreStays
<1>3. CASE GoOn(t, "settle") /\ UNCHANGED reports
  <2>1. usage' \in [Tasks -> 0..MaxSafe]
    BY <1>3 DEF GoOn, IInv, Typed
  <2>2. /\ TasksTyped' /\ OthersStay(t) /\ InflightExact'
        /\ pc'[t] = "settle" /\ job' = job
        /\ job[t] \in ReserveCall /\ job[t].qualified
    BY <1>1, <1>3, <2>1, MovesKeeps DEF GoOn, Labels
  <2>3. TaskInv(t)'
    BY <1>1, <2>2 DEF IInv, TaskInv
  <2>4. \A u \in Tasks : TaskInv(u)' \/ (pc'[u] = pc[u] /\ job'[u] = job[u])
    BY <2>2, <2>3 DEF OthersStay
  <2> QED
    BY <1>1, <1>2, <1>3, <2>2, <2>4, Assemble
<1>4. ASSUME NEW value, Finish(t, value), Report(job[t].id, "unresolved")
      PROVE  IInv'
  <2>1. TasksTyped' /\ OthersStay(t) /\ TaskInv(t)' /\ InflightExact'
    BY <1>1, <1>4, FinishKeeps
  <2>2. \A u \in Tasks : TaskInv(u)' \/ (pc'[u] = pc[u] /\ job'[u] = job[u])
    BY <2>1 DEF OthersStay
  <2>3. \A r \in reports' : r \in reports \/ BorneOut(store', r)
    BY <1>4, Reported
  <2> QED
    BY <1>1, <1>2, <2>1, <2>2, <2>3, Assemble
<1> QED
  BY <1>3, <1>4 DEF Response

LEMMA SettleKeeps ==
    ASSUME IInv, NEW t \in Tasks, Settle(t)
    PROVE  IInv'
<1>1. pc[t] = "settle" /\ UNCHANGED <<sent, consumed>>
  BY DEF Settle
<1>2. PICK value : Answered(SettleOf(t), value) /\ SettledOrNot(t, value)
  BY DEF Settle
<1>3. /\ SettleOf(t) \in SettleCall /\ SettleOf(t) \in Calls
      /\ SettleOf(t).id = job[t].id
  BY <1>1, TaskCalls DEF Calls
<1>4. value.outcome = "settled" =>
        /\ BorneOut(store', [id |-> job[t].id, outcome |-> "settled"])
        /\ value.breach => BorneOut(store', [id |-> job[t].id, outcome |-> "breach"])
  BY <1>2, <1>3, SettledMeans DEF IInv
<1>5. ASSUME NEW last, Finish(t, last),
             \A r \in reports' : r \in reports \/ BorneOut(store', r)
      PROVE  IInv'
  BY <1>1, <1>2, <1>3, <1>5, FinishAnswered
<1>6. CASE /\ value.outcome = "settled" /\ value.breach
           /\ Report(job[t].id, "breach")
           /\ Finish(t, Unavailable("breached-profile"))
  BY <1>4, <1>5, <1>6, Reported
<1>7. CASE /\ value.outcome = "settled"
           /\ Report(job[t].id, "settled") /\ Finish(t, Completion)
  BY <1>4, <1>5, <1>7, Reported
<1>8. CASE Finish(t, value) /\ UNCHANGED reports
  BY <1>5, <1>8
<1>9. CASE Report(job[t].id, "unresolved") /\ Finish(t, Completion)
  BY <1>5, <1>9, Reported
<1> QED
  BY <1>2, <1>6, <1>7, <1>8, <1>9 DEF SettledOrNot

\* A process dies: its tasks end, what they awaited stays in doubt.
LEMMA CrashKeeps ==
    ASSUME IInv, NEW g \in Guards, Crash(g)
    PROVE  IInv'
<1> DEFINE dead == {t \in Tasks : GuardOf[t] = g}
<1>1. TasksTyped
  BY DEF IInv, Typed, TasksTyped
<1>2. /\ pc' = [t \in Tasks |-> IF t \in dead THEN "idle" ELSE pc[t]]
      /\ job' = [t \in Tasks |-> IF t \in dead THEN Undefined ELSE job[t]]
      /\ usage' = [t \in Tasks |-> IF t \in dead THEN 0 ELSE usage[t]]
      /\ inflight' = [inflight EXCEPT ![g] = {}]
      /\ UNCHANGED <<store, reports, sent, consumed>>
  BY DEF Crash
<1>3. \A k \in doubt' : Admissible(k)
  <2>1. ASSUME NEW t \in Tasks, pc[t] # "idle"
        PROVE  /\ Admissible(job[t]) /\ Admissible(FenceOf(t))
               /\ Admissible(ReleaseOf(t)) /\ Admissible(SettleOf(t))
    <3>1. /\ job[t] \in ReserveCall /\ job[t].qualified
          /\ FenceOf(t) \in FenceCall /\ ReleaseOf(t) \in ReleaseCall
          /\ SettleOf(t) \in SettleCall
          /\ UsageTotal(SettleOf(t).usage) = usage[t]
      BY <2>1, TaskCalls
    <3>2. /\ job[t].kind = "reserve" /\ FenceOf(t).kind = "fence"
          /\ ReleaseOf(t).kind = "release" /\ SettleOf(t).kind = "settle"
      BY <3>1 DEF ReserveCall, FenceCall, ReleaseCall, SettleCall
    <3>3. usage[t] <= MaxSafe
      BY DEF IInv, Typed
    <3>4. UsageOf(usage[t]) \in Usage
      BY MaxSafeAssumption DEF UsageOf, Usage, IInv, Typed
    <3>5. SettleOf(t).usage # Undefined
      <4>1. SettleOf(t).usage = UsageOf(usage[t])
        BY DEF SettleOf
      <4> QED
        BY <3>4, <4>1, UndefinedIsNoUsage
    <3>6. MeteringUsage(SettleOf(t).usage) # Undefined
      BY <3>1, <3>3, <3>5 DEF MeteringUsage
    <3> QED
      BY <3>1, <3>2, <3>6 DEF Admissible, EarlyReturn, Calls
  <2>2. \A k \in doubt' : \/ k \in doubt
                          \/ \E t \in Tasks :
                               /\ pc[t] # "idle"
                               /\ k \in {job[t], FenceOf(t), ReleaseOf(t), SettleOf(t)}
    BY DEF Crash
  <2> QED
    BY <2>1, <2>2 DEF IInv, LedgerPart
<1>4. LedgerPart'
  BY <1>2, <1>3 DEF IInv, LedgerPart
<1>5. Lawful(store, store')
  <2>1. Reply(store, Undefined).next = store
    BY DEF Reply
  <2> QED
    BY <1>2, <2>1, ReplyLawful DEF IInv, LedgerPart, LedgerInv
<1>6. TasksTyped'
  BY <1>1, <1>2, MaxSafeAssumption DEF TasksTyped, Labels
<1>7. ASSUME NEW t \in Tasks
      PROVE  TaskInv(t)' \/ (pc'[t] = pc[t] /\ job'[t] = job[t])
  BY <1>2 DEF TaskInv
<1>8. InflightExact'
  <2> SUFFICES ASSUME NEW h \in Guards
               PROVE  LET busy == {u \in Tasks : GuardOf[u] = h /\ pc'[u] # "idle"}
                      IN  /\ inflight'[h] = {job'[u].id : u \in busy}
                          /\ \A u, v \in busy : u # v => job'[u].id # job'[v].id
    BY DEF InflightExact
  <2> DEFINE busy == {u \in Tasks : GuardOf[u] = h /\ pc'[u] # "idle"}
  <2>1. CASE h = g
    <3>1. busy = {}
      BY <1>2, <2>1
    <3>2. inflight'[h] = {}
      BY <1>1, <1>2, <2>1 DEF TasksTyped
    <3> QED
      BY <3>1, <3>2
  <2>2. CASE h # g
    <3>1. \A u \in Tasks : GuardOf[u] = h => pc'[u] = pc[u] /\ job'[u] = job[u]
      BY <1>2, <2>2
    <3>2. inflight'[h] = inflight[h]
      BY <1>1, <1>2, <2>2 DEF TasksTyped
    <3> DEFINE was == {u \in Tasks : GuardOf[u] = h /\ pc[u] # "idle"}
    <3>3. busy = was /\ \A u \in was : job'[u] = job[u]
      BY <3>1
    <3>4. /\ inflight[h] = {job[u].id : u \in was}
          /\ \A u, v \in was : u # v => job[u].id # job[v].id
      BY DEF IInv, InflightExact
    <3> HIDE DEF was, busy
    <3>5. inflight'[h] = {job'[u].id : u \in busy}
      BY <3>2, <3>3, <3>4
    <3> QED
      BY <3>3, <3>4, <3>5 DEF busy
  <2> QED
    BY <2>1, <2>2
<1> QED
  BY <1>2, <1>4, <1>5, <1>6, <1>7, <1>8, Assemble

-----------------------------------------------------------------------------
(* Operators, and operations in doubt.                                     *)

\* An operation that no task awaits.
LEMMA OperatorAnswered ==
    ASSUME IInv, NEW k \in Calls, NEW value, Answered(k, value),
           UNCHANGED <<pc, job, usage, inflight, sent, consumed>>,
           \A r \in reports' : r \in reports \/ BorneOut(store', r)
    PROVE  IInv'
<1>1. LedgerPart' /\ Lawful(store, store')
  BY AnsweredSound DEF IInv
<1>2. TasksTyped' /\ InflightExact'
  BY DEF IInv, Typed, TasksTyped, InflightExact
<1> QED
  BY <1>1, <1>2, Assemble

LEMMA SettleUsageKeeps ==
    ASSUME IInv, NEW o \in Operators, NEW i \in Ids, SettleUsage(o, i)
    PROVE  IInv'
<1> DEFINE k == [kind |-> "settle", id |-> i, usage |-> UsageOf(consumed[i])]
<1>1. UsageOf(consumed[i]) \in Usage
  BY DEF UsageOf, Usage, IInv, Typed
<1>2. k \in SettleCall /\ k \in Calls /\ k.id = i
  BY <1>1 DEF SettleCall, Calls
<1>3. UNCHANGED <<pc, job, usage, inflight, sent, consumed>>
  BY DEF SettleUsage, guardVars
<1>4. PICK value :
        /\ Answered(k, value)
        /\ \/ /\ value.outcome = "settled"
              /\ Report(i, IF value.breach THEN "breach" ELSE "settled")
           \/ UNCHANGED reports
  BY DEF SettleUsage
<1> HIDE DEF k
<1>5. \A r \in reports' : r \in reports \/ BorneOut(store', r)
  <2>1. CASE /\ value.outcome = "settled"
             /\ Report(i, IF value.breach THEN "breach" ELSE "settled")
    <3>1. /\ BorneOut(store', [id |-> i, outcome |-> "settled"])
          /\ value.breach => BorneOut(store', [id |-> i, outcome |-> "breach"])
      BY <1>2, <1>4, <2>1, SettledMeans DEF IInv
    <3>2. CASE value.breach
      BY <2>1, <3>1, <3>2, Reported
    <3>3. CASE ~ value.breach
      BY <2>1, <3>1, <3>3, Reported
    <3> QED
      BY <3>2, <3>3
  <2>2. CASE UNCHANGED reports
    BY <2>2
  <2> QED
    BY <1>4, <2>1, <2>2
<1> QED
  BY <1>2, <1>3, <1>4, <1>5, OperatorAnswered

LEMMA ReviewUsageKeeps ==
    ASSUME IInv, NEW o \in Operators, ReviewUsage(o)
    PROVE  IInv'
<1> DEFINE i == review[o]
           record == Reconcile(store, i)
<1>1. UNCHANGED <<store, doubt, pc, job, usage, inflight, sent, consumed>>
  BY DEF ReviewUsage, guardVars
<1>2. \/ UNCHANGED reports
      \/ /\ record # Undefined
         /\ Report(i, IF record.state = "settled" THEN "settled" ELSE "unresolved")
  BY DEF ReviewUsage
<1>3. ASSUME record # Undefined, record.state = "settled"
      PROVE  BorneOut(store', [id |-> i, outcome |-> "settled"])
  <2>1. i \in DOMAIN store.invocations /\ record = store.invocations[i]
    BY <1>3 DEF Reconcile
  <2> QED
    BY <1>1, <1>3, <2>1 DEF BorneOut
<1> HIDE DEF record, i
<1>4. \A r \in reports' : r \in reports \/ BorneOut(store', r)
  <2>1. CASE record # Undefined /\ record.state = "settled" /\ Report(i, "settled")
    BY <1>3, <2>1, Reported
  <2>2. CASE Report(i, "unresolved")
    BY <2>2, Reported
  <2> QED
    BY <1>2, <2>1, <2>2
<1> QED
  BY <1>1, <1>4, QuietKeeps

LEMMA ReleaseReservationKeeps ==
    ASSUME IInv, NEW i \in Ids, ReleaseReservation(i)
    PROVE  IInv'
<1> DEFINE k == [kind |-> "release", id |-> i]
<1>1. k \in ReleaseCall /\ k \in Calls /\ k.id = i
  BY DEF ReleaseCall, Calls
<1>2. UNCHANGED <<pc, job, usage, inflight, sent, consumed>>
  BY DEF ReleaseReservation, guardVars
<1>3. PICK value :
        /\ Answered(k, value)
        /\ \/ value.outcome = "released" /\ Report(i, "released")
           \/ Report(i, "unresolved")
           \/ UNCHANGED reports
  BY DEF ReleaseReservation
<1> HIDE DEF k
<1>4. \A r \in reports' : r \in reports \/ BorneOut(store', r)
  <2>1. CASE value.outcome = "released" /\ Report(i, "released")
    BY <1>1, <1>3, <2>1, ReleasedMeans, Reported DEF IInv
  <2>2. CASE Report(i, "unresolved")
    BY <2>2, Reported
  <2> QED
    BY <1>3, <2>1, <2>2
<1> QED
  BY <1>1, <1>2, <1>3, <1>4, OperatorAnswered

\* An operation in doubt is one more lawful step, or none.
LEMMA DoubtKeeps ==
    ASSUME IInv, NEW k \in doubt, TakesEffect(k) \/ IsLost(k)
    PROVE  IInv'
<1>1. Admissible(k) /\ LedgerInv(store) /\ LedgerTyped(store)
  BY DEF IInv, LedgerPart, LedgerInv
<1>2. /\ UNCHANGED <<pc, job, usage, inflight, reports, sent, consumed>>
      /\ doubt' \subseteq doubt
  BY DEF TakesEffect, IsLost, guardVars
<1>3. LedgerInv(store') /\ Lawful(store, store')
  <2>1. CASE TakesEffect(k)
    <3>1. store' = Apply(store, k).next
      BY <2>1 DEF TakesEffect
    <3>2. Sound(store, Apply(store, k))
      BY <1>1, ApplySound
    <3> QED
      BY <1>1, <3>1, <3>2, ApplyLawful DEF Sound
  <2>2. CASE IsLost(k)
    <3>1. store' = store
      BY <2>2 DEF IsLost
    <3>2. Reply(store, Undefined).next = store
      BY DEF Reply
    <3> QED
      BY <1>1, <3>1, <3>2, ReplyLawful
  <2> QED
    BY <2>1, <2>2
<1>4. LedgerPart'
  BY <1>2, <1>3 DEF IInv, LedgerPart
<1>5. TasksTyped' /\ InflightExact'
  BY <1>2 DEF IInv, Typed, TasksTyped, InflightExact
<1> QED
  BY <1>2, <1>3, <1>4, <1>5, Assemble

-----------------------------------------------------------------------------
(* The invariant.                                                          *)

LEMMA InvInit == Init => IInv
<1> SUFFICES ASSUME Init PROVE IInv
  OBVIOUS
<1>1. Setup.kind = "configure"
  BY SetupAssumption DEF ConfigureCall
<1>2. Admissible(Setup)
  BY <1>1, SetupAssumption DEF Admissible, Calls, EarlyReturn
<1>3. Sound(EmptyLedgerState, Apply(EmptyLedgerState, Setup))
  BY <1>2, EmptyLedgerInv, ApplySound
<1>4. LedgerPart
  BY <1>3 DEF Init, Sound, LedgerPart
<1>5. Typed
  BY MaxSafeAssumption DEF Init, Typed, Labels
<1>6. \A t \in Tasks : TaskInv(t)
  BY DEF Init, TaskInv
<1>7. SentUnderFence /\ InflightExact /\ ReportsTruthful
  BY DEF Init, SentUnderFence, InflightExact, ReportsTruthful
<1> QED
  BY <1>4, <1>5, <1>6, <1>7 DEF IInv

LEMMA InvNext == IInv /\ [Next]_vars => IInv'
<1> SUFFICES ASSUME IInv, [Next]_vars PROVE IInv'
  OBVIOUS
<1>1. ASSUME NEW t \in Tasks, NEW a \in Attempts, Refuse(t, a) PROVE IInv'
  BY <1>1, QuietKeeps DEF Refuse
<1>2. CASE UNCHANGED vars
  BY <1>2, QuietKeeps DEF vars, guardVars
<1> QED
  BY <1>1, <1>2, DispatchKeeps, ReserveKeeps, FenceKeeps, ReleaseKeeps,
     SendKeeps, ResponseKeeps, SettleKeeps, CrashKeeps, SettleUsageKeeps,
     ReviewUsageKeeps, ReleaseReservationKeeps, DoubtKeeps DEF Next

LEMMA Invariance == Spec => []IInv
BY InvInit, InvNext, PTL DEF Spec

\* Dispatch only under a durable fence (budget.ts, dispatch): whatever the
\* number of processes, tasks and operators, and however fences, releases
\* and operations in doubt are ordered, a provider call was made only under
\* an invocation the ledger shows as fenced and never as released.
THEOREM FencedBeforeSent == Spec => []SentUnderFence
<1>1. IInv => SentUnderFence
  BY DEF IInv
<1> QED
  BY <1>1, Invariance, PTL

\* The IDs in flight of a guard (comment on `inflight` in budget.ts) are
\* exactly those of its running dispatches, which are all different.
THEOREM FlightsExact == Spec => []InflightExact
<1>1. IInv => InflightExact
  BY DEF IInv
<1> QED
  BY <1>1, Invariance, PTL

\* A final accounting report (report in budget.ts) states what the ledger
\* holds for good; an uncertain operation is never reported as done.
THEOREM ReportsHold == Spec => []ReportsTruthful
<1>1. IInv => ReportsTruthful
  BY DEF IInv
<1> QED
  BY <1>1, Invariance, PTL

-----------------------------------------------------------------------------
(* What the provider consumed is covered.                                  *)

\* The usage u accounts for the provider call of i, if it was the only one.
Accounts(u, i) == sent[i] > 0 /\ (sent[i] = 1 => UsageTotal(u) = consumed[i])

\* Every usage on its way to the ledger, and every one that has arrived,
\* accounts for what was consumed; what was never sent consumed nothing.
SpendInv ==
    /\ Conserved(store)
    /\ \A i \in Ids : sent[i] = 0 => consumed[i] = 0
    /\ \A t \in Tasks : pc[t] \in {"response", "settle"} =>
          Accounts(UsageOf(usage[t]), job[t].id)
    /\ \A k \in doubt : k.kind = "settle" => Accounts(k.usage, k.id)
    /\ \A i \in DOMAIN store.invocations :
          store.invocations[i].state = "settled" =>
             Accounts(store.invocations[i].usage, i)

\* A settlement, if k is one, that accounts for its call.
Accountable(k) == k.kind = "settle" => Accounts(k.usage, k.id)

\* A step that sends nothing: one accountable operation on the ledger, or
\* none, and no usage that was not there before.
LEMMA SpendStep ==
    ASSUME IInv, SpendInv, sent' = sent, consumed' = consumed,
           \/ store' = store
           \/ \E k : /\ Admissible(k) /\ Accountable(k)
                     /\ store' = Apply(store, k).next,
           \A k \in doubt' : k \in doubt \/ Accountable(k),
           \A t \in Tasks : pc'[t] \in {"response", "settle"} =>
              /\ pc[t] \in {"response", "settle"}
              /\ job'[t] = job[t] /\ usage'[t] = usage[t]
    PROVE  SpendInv'
<1>1. LedgerTyped(store)
  BY DEF IInv, LedgerPart, LedgerInv
<1>2. \A u, i : Accounts(u, i) <=> Accounts(u, i)'
  BY DEF Accounts
<1>3. /\ Conserved(store')
      /\ \A i \in DOMAIN store'.invocations :
            store'.invocations[i].state = "settled" =>
               Accounts(store'.invocations[i].usage, i)
  <2>1. CASE store' = store
    BY <2>1 DEF SpendInv
  <2>2. ASSUME NEW k, Admissible(k), Accountable(k), store' = Apply(store, k).next
        PROVE  /\ Conserved(store')
               /\ \A i \in DOMAIN store'.invocations :
                     store'.invocations[i].state = "settled" =>
                        Accounts(store'.invocations[i].usage, i)
    <3>1. Lawful(store, store')
      BY <1>1, <2>2, ApplyLawful
    <3>2. Conserved(store')
      BY <3>1 DEF Lawful, SpendInv
    <3>3. \/ SettlesNone(store, store')
          \/ k.kind = "settle" /\ SettlesOnly(store, store', k.id, k.usage)
      BY <1>1, <2>2, ApplySettles
    <3>4. ASSUME NEW i \in DOMAIN store'.invocations,
                 store'.invocations[i].state = "settled"
          PROVE  Accounts(store'.invocations[i].usage, i)
      <4>1. CASE i \in DOMAIN store.invocations
                 /\ store'.invocations[i] = store.invocations[i]
        BY <3>4, <4>1 DEF SpendInv
      <4>2. CASE k.kind = "settle" /\ i = k.id /\ store'.invocations[i].usage = k.usage
        BY <2>2, <4>2 DEF Accountable
      <4> QED
        BY <3>3, <3>4, <4>1, <4>2 DEF SettlesNone, SettlesOnly
    <3> QED
      BY <3>2, <3>4
  <2> QED
    BY <2>1, <2>2
<1>4. \A t \in Tasks : pc'[t] \in {"response", "settle"} =>
        Accounts(UsageOf(usage'[t]), job'[t].id)
  BY DEF SpendInv
<1>5. \A k \in doubt' : k.kind = "settle" => Accounts(k.usage, k.id)
  BY DEF SpendInv, Accountable
<1>6. \A i \in Ids : sent'[i] = 0 => consumed'[i] = 0
  BY DEF SpendInv
<1> QED
  BY <1>2, <1>3, <1>4, <1>5, <1>6 DEF SpendInv, UsageOf

\* An operation, whichever way it is answered.
LEMMA AnsweredSpend ==
    ASSUME NEW k \in Calls, Accountable(k), NEW value, Answered(k, value)
    PROVE  /\ \/ store' = store
              \/ \E c : /\ Admissible(c) /\ Accountable(c)
                        /\ store' = Apply(store, c).next
           /\ \A c \in doubt' : c \in doubt \/ Accountable(c)
BY DEF Answered, Admissible

\* The tasks after a dispatch ended or went on.
LEMMA TasksSpend ==
    ASSUME IInv, NEW t \in Tasks,
           \/ \E value : Finish(t, value)
           \/ /\ \E label \in Labels : pc' = [pc EXCEPT ![t] = label]
              /\ pc'[t] \in {"response", "settle"} => pc[t] \in {"response", "settle"}
              /\ job' = job /\ usage' = usage
    PROVE  \A u \in Tasks : pc'[u] \in {"response", "settle"} =>
              /\ pc[u] \in {"response", "settle"}
              /\ job'[u] = job[u] /\ usage'[u] = usage[u]
<1>1. /\ pc \in [Tasks -> Labels] /\ job = [u \in Tasks |-> job[u]]
      /\ usage \in [Tasks -> 0..MaxSafe]
  BY DEF IInv, Typed
<1>2. CASE \E value : Finish(t, value)
  BY <1>1, <1>2 DEF Finish
<1>3. CASE /\ \E label \in Labels : pc' = [pc EXCEPT ![t] = label]
           /\ pc'[t] \in {"response", "settle"} => pc[t] \in {"response", "settle"}
           /\ job' = job /\ usage' = usage
  BY <1>1, <1>3
<1> QED
  BY <1>2, <1>3

\* attempt.send(): the first call under an ID finds no usage for it anywhere;
\* a second one frees every usage of the ID from its claim.
LEMMA SendSpend ==
    ASSUME IInv, SpendInv, NEW t \in Tasks, NEW n \in Uses, Send(t, n)
    PROVE  SpendInv'
<1>1. /\ pc[t] = "send" /\ pc' = [pc EXCEPT ![t] = "response"]
      /\ usage' = [usage EXCEPT ![t] = n]
      /\ sent' = [sent EXCEPT ![job[t].id] = @ + 1]
      /\ consumed' = [consumed EXCEPT ![job[t].id] = @ + n]
      /\ UNCHANGED <<store, doubt, job>>
  BY DEF Send
<1> DEFINE x == job[t].id
           Later(u, i) == sent'[i] > 0 /\ (sent'[i] = 1 => UsageTotal(u) = consumed'[i])
<1>2. x \in Ids
  BY <1>1, TaskCalls
<1>3. /\ pc \in [Tasks -> Labels] /\ usage \in [Tasks -> 0..MaxSafe]
      /\ sent \in [Ids -> Nat] /\ consumed \in [Ids -> Nat] /\ n \in Nat
  BY BoundsAssumption, MaxSafeAssumption DEF IInv, Typed
<1>4. /\ sent'[x] = sent[x] + 1 /\ consumed'[x] = consumed[x] + n
      /\ sent[x] \in Nat /\ consumed[x] \in Nat
      /\ \A i \in Ids : i # x => sent'[i] = sent[i] /\ consumed'[i] = consumed[i]
  BY <1>1, <1>2, <1>3
<1> HIDE DEF x
<1>5. ASSUME NEW u, NEW i \in Ids, Accounts(u, i) PROVE Later(u, i)
  <2>1. CASE i = x
    BY <1>4, <1>5, <2>1 DEF Accounts
  <2>2. CASE i # x
    BY <1>4, <1>5, <2>2 DEF Accounts
  <2> QED
    BY <2>1, <2>2
<1> HIDE DEF Later
<1>6. \A i \in Ids : sent'[i] = 0 => consumed'[i] = 0
  BY <1>4 DEF SpendInv
<1>7. ASSUME NEW u \in Tasks, pc'[u] \in {"response", "settle"}
      PROVE  Later(UsageOf(usage'[u]), job'[u].id)
  <2>1. CASE u = t
    <3>1. usage'[u] = n /\ job'[u].id = x
      BY <1>1, <1>3, <2>1 DEF x
    <3>2. UsageTotal(UsageOf(n)) = n
      BY <1>3 DEF UsageTotal, UsageOf
    <3>3. sent[x] = 0 => consumed[x] = 0
      BY <1>2 DEF SpendInv
    <3>4. sent'[x] > 0 /\ (sent'[x] = 1 => n = consumed'[x])
      BY <1>3, <1>4, <3>3
    <3>5. Later(UsageOf(n), x)
      BY <3>2, <3>4 DEF Later
    <3> QED
      BY <3>1, <3>5
  <2>2. CASE u # t
    <3>1. usage'[u] = usage[u] /\ job'[u] = job[u] /\ pc'[u] = pc[u]
      BY <1>1, <1>3, <2>2
    <3>2. Accounts(UsageOf(usage[u]), job[u].id)
      BY <1>7, <3>1 DEF SpendInv
    <3>3. job[u].id \in Ids
      BY <1>7, <3>1, TaskCalls
    <3>4. Later(UsageOf(usage[u]), job[u].id)
      BY <1>5, <3>2, <3>3
    <3> QED
      BY <3>1, <3>4
  <2> QED
    BY <2>1, <2>2
<1>8. ASSUME NEW k \in doubt', k.kind = "settle" PROVE Later(k.usage, k.id)
  <2>1. Accounts(k.usage, k.id) /\ Admissible(k)
    BY <1>1, <1>8 DEF SpendInv, IInv, LedgerPart
  <2>2. k.id \in Ids
    BY <1>8, <2>1 DEF Admissible, Calls, ReserveCall, FenceCall, SettleCall,
                      ReleaseCall, ConfigureCall, TransitionCall
  <2> QED
    BY <1>5, <2>1, <2>2
<1>9. ASSUME NEW i \in DOMAIN store'.invocations,
             store'.invocations[i].state = "settled"
      PROVE  Later(store'.invocations[i].usage, i)
  <2>1. i \in Ids
    BY <1>1, <1>9 DEF IInv, LedgerPart, LedgerInv, LedgerTyped
  <2>2. Accounts(store.invocations[i].usage, i)
    BY <1>1, <1>9 DEF SpendInv
  <2> QED
    BY <1>1, <1>5, <2>1, <2>2
<1>10. Conserved(store')
  BY <1>1 DEF SpendInv
<1> QED
  BY <1>6, <1>7, <1>8, <1>9, <1>10 DEF SpendInv, Accounts, Later

LEMMA SpendInit == Init => SpendInv
<1> SUFFICES ASSUME Init PROVE SpendInv
  OBVIOUS
<1>1. Setup.kind = "configure"
  BY SetupAssumption DEF ConfigureCall
<1>2. Admissible(Setup)
  BY <1>1, SetupAssumption DEF Admissible, Calls, EarlyReturn
<1>3. LedgerTyped(EmptyLedgerState)
  BY EmptyLedgerInv DEF LedgerInv
<1>4. Conserved(store)
  BY <1>2, <1>3, ApplyLawful, EmptyConserved DEF Init, Lawful
<1>5. \/ SettlesNone(EmptyLedgerState, store)
      \/ Setup.kind = "settle"
  BY <1>2, <1>3, ApplySettles DEF Init
<1>6. \A i \in DOMAIN store.invocations : store.invocations[i].state # "settled"
  BY <1>1, <1>5 DEF SettlesNone, EmptyLedgerState
<1> QED
  BY <1>4, <1>6 DEF Init, SpendInv

LEMMA SpendNext == IInv /\ SpendInv /\ [Next]_vars => SpendInv'
<1> SUFFICES ASSUME IInv, SpendInv, [Next]_vars PROVE SpendInv'
  OBVIOUS
<1> DEFINE Same == \A u \in Tasks : pc'[u] \in {"response", "settle"} =>
              /\ pc[u] \in {"response", "settle"}
              /\ job'[u] = job[u] /\ usage'[u] = usage[u]
<1>1. /\ pc \in [Tasks -> Labels] /\ job = [u \in Tasks |-> job[u]]
      /\ usage \in [Tasks -> 0..MaxSafe]
  BY DEF IInv, Typed
<1>2. ASSUME UNCHANGED <<store, doubt, sent, consumed>>, Same PROVE SpendInv'
  BY <1>2, SpendStep
<1>3. ASSUME NEW k \in Calls, Accountable(k), NEW value, Answered(k, value), Same,
             UNCHANGED <<sent, consumed>>
      PROVE  SpendInv'
  BY <1>3, AnsweredSpend, SpendStep
<1>4. ASSUME NEW t \in Tasks, NEW a \in Attempts, Refuse(t, a) PROVE SpendInv'
  BY <1>2, <1>4 DEF Refuse
<1>5. ASSUME NEW t \in Tasks, NEW a \in Attempts, NEW i \in InvocationIds(a),
             NEW now \in Times, Dispatch(t, a, i, now)
      PROVE  SpendInv'
  <2>1. Same
    BY <1>1, <1>5 DEF Dispatch
  <2> QED
    BY <1>2, <1>5, <2>1 DEF Dispatch
<1>6. ASSUME NEW t \in Tasks, Reserve(t) PROVE SpendInv'
  <2>1. PICK value : /\ Answered(job[t], value)
                     /\ GoOn(t, "fence") \/ Finish(t, value)
    BY <1>6 DEF Reserve
  <2>2. job[t] \in Calls /\ Accountable(job[t])
    BY <1>6, TaskCalls DEF Calls, Reserve, ReserveCall, Accountable
  <2>3. Same
    BY <1>1, <2>1, TasksSpend DEF GoOn, Labels
  <2> QED
    BY <1>3, <1>6, <2>1, <2>2, <2>3 DEF Reserve
<1>7. ASSUME NEW t \in Tasks, Fence(t) PROVE SpendInv'
  <2>1. PICK value : Answered(FenceOf(t), value) /\ Fenced(t, value)
    BY <1>7 DEF Fence
  <2>2. FenceOf(t) \in Calls /\ Accountable(FenceOf(t))
    BY <1>7, TaskCalls DEF Calls, Fence, FenceCall, Accountable
  <2>3. Same
    BY <1>1, <2>1, TasksSpend DEF Fenced, GoOn, Labels
  <2> QED
    BY <1>3, <1>7, <2>1, <2>2, <2>3 DEF Fence
<1>8. ASSUME NEW t \in Tasks, Release(t) PROVE SpendInv'
  <2>1. PICK value : Answered(ReleaseOf(t), value)
    BY <1>8 DEF Release
  <2>2. ReleaseOf(t) \in Calls /\ Accountable(ReleaseOf(t))
    BY <1>8, TaskCalls DEF Calls, Release, ReleaseCall, Accountable
  <2>3. Same
    BY <1>8, TasksSpend DEF Release
  <2> QED
    BY <1>3, <1>8, <2>1, <2>2, <2>3 DEF Release
<1>9. ASSUME NEW t \in Tasks, Response(t) PROVE SpendInv'
  <2>1. Same
    BY <1>1, <1>9, TasksSpend DEF Response, GoOn, Labels
  <2> QED
    BY <1>2, <1>9, <2>1 DEF Response
<1>10. ASSUME NEW t \in Tasks, pc[t] = "settle"
       PROVE  SettleOf(t) \in Calls /\ Accountable(SettleOf(t))
  <2>1. SettleOf(t) \in Calls
    BY <1>10, TaskCalls DEF Calls
  <2>2. Accounts(UsageOf(usage[t]), job[t].id)
    BY <1>10 DEF SpendInv
  <2> QED
    BY <2>1, <2>2 DEF Accountable, SettleOf
<1>11. ASSUME NEW t \in Tasks, Settle(t) PROVE SpendInv'
  <2>1. PICK value : Answered(SettleOf(t), value) /\ SettledOrNot(t, value)
    BY <1>11 DEF Settle
  <2>2. Same
    BY <2>1, TasksSpend DEF SettledOrNot
  <2> QED
    BY <1>3, <1>10, <1>11, <2>1, <2>2 DEF Settle
<1>12. ASSUME NEW g \in Guards, Crash(g) PROVE SpendInv'
  <2>1. Same
    BY <1>12 DEF Crash
  <2>2. \A k \in doubt' :
           \/ k \in doubt
           \/ \E t \in Tasks : pc[t] = "reserve" /\ k = job[t]
           \/ \E t \in Tasks : pc[t] # "idle" /\ k \in {FenceOf(t), ReleaseOf(t)}
           \/ \E t \in Tasks : pc[t] = "settle" /\ k = SettleOf(t)
    BY <1>12 DEF Crash
  <2>3. \A t \in Tasks : pc[t] = "reserve" => Accountable(job[t])
    BY TaskCalls DEF ReserveCall, Accountable
  <2>4. \A t \in Tasks : Accountable(FenceOf(t)) /\ Accountable(ReleaseOf(t))
    BY DEF Accountable, FenceOf, ReleaseOf
  <2>5. \A k \in doubt' : k \in doubt \/ Accountable(k)
    BY <1>10, <2>2, <2>3, <2>4
  <2>6. UNCHANGED <<store, sent, consumed>>
    BY <1>12 DEF Crash
  <2> QED
    BY <2>1, <2>5, <2>6, SpendStep
<1>13. ASSUME NEW o \in Operators, NEW i \in Ids, SettleUsage(o, i) PROVE SpendInv'
  <2> DEFINE k == [kind |-> "settle", id |-> i, usage |-> UsageOf(consumed[i])]
  <2>1. UNCHANGED <<pc, job, usage, sent, consumed>> /\ sent[i] > 0
    BY <1>13 DEF SettleUsage, guardVars
  <2>2. PICK value : Answered(k, value)
    BY <1>13 DEF SettleUsage
  <2>3. consumed[i] \in Nat
    BY DEF IInv, Typed
  <2>4. UsageOf(consumed[i]) \in Usage /\ UsageTotal(UsageOf(consumed[i])) = consumed[i]
    BY <2>3 DEF UsageOf, Usage, UsageTotal
  <2>5. Accounts(UsageOf(consumed[i]), i)
    BY <2>1, <2>4 DEF Accounts
  <2>6. k \in Calls /\ Accountable(k)
    BY <2>4, <2>5 DEF Calls, SettleCall, Accountable
  <2> HIDE DEF k
  <2> QED
    BY <1>3, <2>1, <2>2, <2>6
<1>14. ASSUME NEW o \in Operators, ReviewUsage(o) PROVE SpendInv'
  BY <1>2, <1>14 DEF ReviewUsage, guardVars
<1>15. ASSUME NEW i \in Ids, ReleaseReservation(i) PROVE SpendInv'
  <2> DEFINE k == [kind |-> "release", id |-> i]
  <2>1. UNCHANGED <<pc, job, usage, sent, consumed>>
    BY <1>15 DEF ReleaseReservation, guardVars
  <2>2. PICK value : Answered(k, value)
    BY <1>15 DEF ReleaseReservation
  <2>3. k \in Calls /\ Accountable(k)
    BY DEF Calls, ReleaseCall, Accountable
  <2> HIDE DEF k
  <2> QED
    BY <1>3, <2>1, <2>2, <2>3
<1>16. ASSUME NEW k \in doubt, TakesEffect(k) \/ IsLost(k) PROVE SpendInv'
  <2>1. Admissible(k) /\ Accountable(k)
    BY DEF IInv, LedgerPart, SpendInv, Accountable
  <2>2. /\ UNCHANGED <<pc, job, usage, sent, consumed>> /\ doubt' \subseteq doubt
        /\ store' = store \/ store' = Apply(store, k).next
    BY <1>16 DEF TakesEffect, IsLost, guardVars
  <2> QED
    BY <2>1, <2>2, SpendStep
<1>17. CASE UNCHANGED vars
  BY <1>2, <1>17 DEF vars, guardVars
<1> HIDE DEF Same
<1> QED
  BY <1>4, <1>5, <1>6, <1>7, <1>8, <1>9, <1>11, <1>12, <1>13, <1>14, <1>15,
     <1>16, <1>17, SendSpend DEF Next

\* Nothing the provider consumed escapes the ledger (budget.ts, dispatch and
\* settleUsage): for any number of processes, tasks, operators and
\* invocations, through crashes, failures and operations in doubt, the row
\* that admitted the calls holds or has debited all they consumed, unless a
\* call was sent twice or used more than its bound.
THEOREM ConsumptionCovered == Spec => []SpendCovered
<1>1. ASSUME IInv, SpendInv PROVE SpendCovered
  <2> SUFFICES ASSUME NEW k \in DOMAIN store.epochs,
                      \A i \in InRow(k) :
                         /\ sent[i] <= 1
                         /\ consumed[i] <= store.invocations[i].upperBound
               PROVE  Total(SpentIn(k)) <= store.epochs[k].committed
                                             + store.epochs[k].held
    BY DEF SpendCovered
  <2>1. LedgerTyped(store) /\ Conserved(store)
    BY <1>1 DEF IInv, LedgerPart, LedgerInv, SpendInv
  <2>2. /\ store.epochs[k].held = Total(HeldIn(store, k))
        /\ store.epochs[k].committed = Total(DebitedIn(store, k))
    BY <2>1 DEF Conserved, Balanced
  <2>3. /\ IsFiniteSet(DOMAIN HeldIn(store, k))
        /\ \A i \in DOMAIN HeldIn(store, k) : HeldIn(store, k)[i] \in Nat
        /\ IsFiniteSet(DOMAIN DebitedIn(store, k))
        /\ \A i \in DOMAIN DebitedIn(store, k) : DebitedIn(store, k)[i] \in Nat
    BY <2>1, AmountsTyped
  <2>4. ASSUME NEW i \in InRow(k)
        PROVE  /\ consumed[i] \in Nat
               /\ \/ consumed[i] = 0
                  \/ /\ i \in DOMAIN DebitedIn(store, k)
                     /\ consumed[i] <= DebitedIn(store, k)[i]
                  \/ /\ i \in DOMAIN HeldIn(store, k)
                     /\ consumed[i] <= HeldIn(store, k)[i]
    <3>1. /\ i \in DOMAIN store.invocations /\ RowKey(store.invocations[i]) = k
          /\ i \in Ids /\ store.invocations[i] \in Record
      BY <2>1 DEF InRow, LedgerTyped
    <3>2. sent[i] \in Nat /\ consumed[i] \in Nat
      BY <1>1, <3>1 DEF IInv, Typed
    <3>3. CASE Unresolved(store.invocations[i])
      BY <3>1, <3>2, <3>3, HeldFacts
    <3>4. CASE store.invocations[i].state = "settled"
      <4>1. Accounts(store.invocations[i].usage, i)
        BY <1>1, <3>1, <3>4 DEF SpendInv
      <4>2. UsageTotal(store.invocations[i].usage) = consumed[i]
        BY <3>2, <4>1 DEF Accounts
      <4> QED
        BY <3>1, <3>2, <3>4, <4>2, DebitedFacts
    <3>5. CASE store.invocations[i].state = "released"
      <4>1. sent[i] = 0
        BY <1>1, <3>1, <3>2, <3>5 DEF IInv, SentUnderFence
      <4> QED
        BY <1>1, <3>1, <3>2, <4>1 DEF SpendInv
    <3> QED
      BY <3>1, <3>3, <3>4, <3>5 DEF Record, InvocationStates, Unresolved
  <2>5. /\ DOMAIN SpentIn(k) = InRow(k)
        /\ \A i \in InRow(k) : SpentIn(k)[i] = consumed[i]
    BY DEF SpentIn
  <2>6. Total(SpentIn(k)) <= Total(DebitedIn(store, k)) + Total(HeldIn(store, k))
    BY <2>3, <2>4, <2>5, TotalCovered
  <2> QED
    BY <2>2, <2>6
<1>2. IInv /\ SpendInv => SpendCovered
  BY <1>1
<1> QED
  BY <1>2, Invariance, SpendInit, SpendNext, PTL DEF Spec

=============================================================================
