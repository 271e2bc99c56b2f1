----------------------------- MODULE BudgetGuard -----------------------------
(***************************************************************************)
(* The AI budget guard, runtime/ai/budget.ts: dispatch reserves the bound  *)
(* of a provider call, fences it, sends it and settles its usage, each a   *)
(* ledger operation it awaits, while other dispatches of the same process, *)
(* other processes and operators act on the same ledger.                   *)
(*                                                                         *)
(* The ledger is used by its contract, AtomicLedger: an operation takes    *)
(* effect at one instant, or fails as storage-unavailable, or answers      *)
(* ambiguous-commit and takes effect later or never.  LedgerServiceProofs  *)
(* proves that the ledger service keeps that contract.  A step is one      *)
(* awaited operation with the code that runs up to the next await.         *)
(*                                                                         *)
(* The provider is external: a call consumes tokens when it is sent,       *)
(* whatever becomes of its answer.                                         *)
(***************************************************************************)
EXTENDS LedgerOps

CONSTANTS
    Guards,         \* guard instances, one per process
    Tasks,          \* asynchronous tasks that dispatch
    GuardOf,        \* the guard of each task
    Operators,      \* callers of settleUsage and releaseReservation
    Attempts,       \* what dispatch is called with
    Registry,       \* boundFor: qualified bound of a profile, or Undefined
    Setup,          \* the call that pins the pool's schedule
    Times,          \* readings of the clock
    Uses,           \* tokens one provider call may consume
    MaxSends,       \* bound: provider calls per invocation ID
    MaxDoubt        \* bound: operations in doubt at the same time

\* A malformed pool, profile, body limit or ID is refused like a malformed
\* context; a profile is otherwise known by its bound in the registry.
Attempt == [context: {"absent", "malformed", "valid"}, tenant: Tenants,
            pool: Pools, correlation: Correlations, permittedPool: Pools,
            profile: Profiles, id: Ids \cup {Undefined}]

ASSUME AttemptsAssumption == Attempts \subseteq Attempt
ASSUME GuardOfAssumption == GuardOf \in [Tasks -> Guards]
ASSUME RegistryAssumption ==
    Registry \in [Profiles -> (1..MaxSafe) \cup {Undefined}]
ASSUME UndefinedIsNoReason ==
    Undefined \notin {"missing-context", "invalid-policy",
                      "missing-qualification"}
ASSUME SetupAssumption == Setup \in ConfigureCall
ASSUME BoundsAssumption ==
    /\ Times \subseteq 0..MaxSafe /\ Uses \subseteq 0..MaxSafe
    /\ MaxSends \in Nat /\ MaxDoubt \in Nat

VARIABLES
    store,      \* the ledger
    doubt,      \* calls answered ambiguous-commit that may take effect yet
    pc,         \* pc[t]: what task t awaits
    job,        \* job[t]: the reserve call of the dispatch of t
    usage,      \* usage[t]: tokens the provider call of t consumed
    inflight,   \* inflight[g]: invocation IDs of the dispatches under way
    result,     \* result[t]: what the last dispatch of t returned
    reports,    \* accounting reports emitted
    review,     \* review[o]: ID operator o looks up again, or Undefined
    used,       \* invocation IDs given out so far (newInvocationId)
    sent,       \* sent[i]: provider calls made under invocation i (history)
    consumed    \* consumed[i]: tokens they consumed (history)

guardVars == <<pc, job, usage, inflight, result>>
vars == <<store, doubt, guardVars, reports, review, used, sent, consumed>>

Init ==
    /\ store = Apply(EmptyLedgerState, Setup).next
    /\ doubt = {}
    /\ pc = [t \in Tasks |-> "idle"]
    /\ job = [t \in Tasks |-> Undefined]
    /\ usage = [t \in Tasks |-> 0]
    /\ inflight = [g \in Guards |-> {}]
    /\ result = [t \in Tasks |-> Undefined]
    /\ reports = {}
    /\ review = [o \in Operators |-> Undefined]
    /\ used = {}
    /\ sent = [i \in Ids |-> 0]
    /\ consumed = [i \in Ids |-> 0]

-----------------------------------------------------------------------------
(* The ledger.                                                             *)

Ambiguous == Unavailable("ambiguous-commit")
Failed == Unavailable("storage-unavailable")

\* What an operation may answer, and what it does to the ledger then.
Answers(k) ==
    IF EarlyReturn(k) # Undefined THEN {EarlyReturn(k)}
    ELSE {Apply(store, k).value, Failed, Ambiguous}

Answered(k, value) ==
    \/ /\ EarlyReturn(k) # Undefined
       /\ value = EarlyReturn(k)
       /\ UNCHANGED <<store, doubt>>
    \/ /\ EarlyReturn(k) = Undefined
       /\ value = Apply(store, k).value
       /\ store' = Apply(store, k).next
       /\ UNCHANGED doubt
    \/ /\ EarlyReturn(k) = Undefined
       /\ value = Failed
       /\ UNCHANGED <<store, doubt>>
    \/ /\ EarlyReturn(k) = Undefined
       /\ value = Ambiguous
       /\ Cardinality(doubt) < MaxDoubt
       /\ doubt' = doubt \cup {k}
       /\ UNCHANGED store

\* An operation in doubt takes effect after all, or is lost.
TakesEffect(k) ==
    /\ store' = Apply(store, k).next
    /\ doubt' = doubt \ {k}
    /\ UNCHANGED <<guardVars, reports, review, used, sent, consumed>>

IsLost(k) ==
    /\ doubt' = doubt \ {k}
    /\ UNCHANGED <<store, guardVars, reports, review, used, sent, consumed>>

-----------------------------------------------------------------------------
(* dispatch                                                                *)

\* Why dispatch refuses an attempt before any ledger I/O, if it does.
Refusal(a) ==
    IF a.context = "absent" THEN "missing-context"
    ELSE IF a.context = "malformed" THEN "invalid-policy"
    ELSE IF a.pool # a.permittedPool THEN "invalid-policy"
    ELSE IF Registry[a.profile] = Undefined THEN "missing-qualification"
    ELSE Undefined

FenceOf(t) == [kind |-> "fence", id |-> job[t].id]
ReleaseOf(t) == [kind |-> "release", id |-> job[t].id]
UsageOf(n) == [inputTokens |-> n, outputTokens |-> 0]
SettleOf(t) ==
    [kind |-> "settle", id |-> job[t].id, usage |-> UsageOf(usage[t])]

\* An ID the caller supplies, or a new one.
InvocationIds(a) == IF a.id = Undefined THEN Ids \ used ELSE {a.id}

\* Faulty variant of Dispatch: the IDs in flight are not looked at.
DispatchAnyway(t, a, i, now) ==
    /\ pc[t] = "idle" /\ Refusal(a) = Undefined
    /\ inflight' = [inflight EXCEPT ![GuardOf[t]] = @ \cup {i}]
    /\ used' = used \cup {i}
    /\ job' = [job EXCEPT ![t] =
         [kind |-> "reserve", id |-> i, tenant |-> a.tenant, pool |-> a.pool,
          correlation |-> a.correlation, profile |-> a.profile,
          qualified |-> TRUE, upperBound |-> Registry[a.profile], at |-> now]]
    /\ pc' = [pc EXCEPT ![t] = "reserve"]
    /\ result' = [result EXCEPT ![t] = Undefined]
    /\ UNCHANGED <<store, doubt, usage, reports, review, sent, consumed>>

\* The check of the IDs in flight and the registration are one step.
Dispatch(t, a, i, now) ==
    /\ pc[t] = "idle" /\ Refusal(a) = Undefined
    /\ i \notin inflight[GuardOf[t]]
    /\ inflight' = [inflight EXCEPT ![GuardOf[t]] = @ \cup {i}]
    /\ used' = used \cup {i}
    /\ job' = [job EXCEPT ![t] =
         [kind |-> "reserve", id |-> i, tenant |-> a.tenant, pool |-> a.pool,
          correlation |-> a.correlation, profile |-> a.profile,
          qualified |-> TRUE, upperBound |-> Registry[a.profile], at |-> now]]
    /\ pc' = [pc EXCEPT ![t] = "reserve"]
    /\ result' = [result EXCEPT ![t] = Undefined]
    /\ UNCHANGED <<store, doubt, usage, reports, review, sent, consumed>>

Refuse(t, a) ==
    /\ pc[t] = "idle"
    /\ \/ /\ Refusal(a) # Undefined
          /\ result' = [result EXCEPT ![t] = Unavailable(Refusal(a))]
       \/ /\ Refusal(a) = Undefined
          /\ a.id \in inflight[GuardOf[t]]
          /\ result' = [result EXCEPT ![t] =
                           Unavailable("conflicting-settlement")]
    /\ UNCHANGED <<store, doubt, pc, job, usage, inflight, reports, review,
                   used, sent, consumed>>

\* dispatch returns; its finally takes the ID out of flight.
Finish(t, value) ==
    /\ pc' = [pc EXCEPT ![t] = "idle"]
    /\ job' = [job EXCEPT ![t] = Undefined]
    /\ usage' = [usage EXCEPT ![t] = 0]
    /\ inflight' = [inflight EXCEPT ![GuardOf[t]] = @ \ {job[t].id}]
    /\ result' = [result EXCEPT ![t] = value]

GoOn(t, label) ==
    /\ pc' = [pc EXCEPT ![t] = label]
    /\ UNCHANGED <<job, usage, inflight, result>>

Report(i, outcome) == reports' = reports \cup {[id |-> i, outcome |-> outcome]}

\* What the caller gets of the provider's own completion.
Completion == [outcome |-> "completion"]
Caught == [outcome |-> "caught"]

Reserve(t) ==
    /\ pc[t] = "reserve"
    /\ \E value \in Answers(job[t]) :
          /\ Answered(job[t], value)
          /\ \/ value.outcome = "admitted" /\ GoOn(t, "fence")
             \/ value.outcome # "admitted" /\ Finish(t, value)
    /\ UNCHANGED <<reports, review, used, sent, consumed>>

\* Faulty variant of Fenced: an unclear fence counts as a fence.
FencedMaybe(t, value) ==
    \/ /\ value.outcome = "fenced" \/ value = Ambiguous
       /\ GoOn(t, "send") /\ UNCHANGED reports
    \/ /\ value = Unavailable("conflicting-settlement")
       /\ Finish(t, value) /\ UNCHANGED reports
    \/ /\ value = Failed
       /\ pc' = [pc EXCEPT ![t] = "release"]
       /\ result' = [result EXCEPT ![t] = value]
       /\ UNCHANGED <<job, usage, inflight, reports>>

\* dispatch goes by the outcome of fence: a duplicate fence is a fence too.
Fenced(t, value) ==
    \/ /\ value.outcome = "fenced"
       /\ GoOn(t, "send") /\ UNCHANGED reports
    \/ /\ value = Ambiguous
       /\ Finish(t, value) /\ Report(job[t].id, "unresolved")
    \/ /\ value = Unavailable("conflicting-settlement")
       /\ Finish(t, value) /\ UNCHANGED reports
    \/ /\ value \in {Failed, Unavailable("unknown-invocation")}
       /\ pc' = [pc EXCEPT ![t] = "release"]
       /\ result' = [result EXCEPT ![t] = value]
       /\ UNCHANGED <<job, usage, inflight, reports>>

Fence(t) ==
    /\ pc[t] = "fence"
    /\ \E value \in Answers(FenceOf(t)) :
          Answered(FenceOf(t), value) /\ Fenced(t, value)
    /\ UNCHANGED <<review, used, sent, consumed>>

\* An attempt that is certainly not fenced was not sent.
Release(t) ==
    /\ pc[t] = "release"
    /\ \E value \in Answers(ReleaseOf(t)) :
          /\ Answered(ReleaseOf(t), value)
          /\ Report(job[t].id, IF value.outcome = "released" THEN "released"
                               ELSE "unresolved")
    /\ Finish(t, result[t])
    /\ UNCHANGED <<review, used, sent, consumed>>

\* attempt.send(): the provider works on the call.
Send(t, n) ==
    /\ pc[t] = "send"
    /\ sent[job[t].id] < MaxSends
    /\ sent' = [sent EXCEPT ![job[t].id] = @ + 1]
    /\ consumed' = [consumed EXCEPT ![job[t].id] = @ + n]
    /\ usage' = [usage EXCEPT ![t] = n]
    /\ pc' = [pc EXCEPT ![t] = "response"]
    /\ UNCHANGED <<store, doubt, job, inflight, result, reports, review, used>>

\* A body with usage counters goes on to settle; without them, and when
\* send throws, the hold stays.
Response(t) ==
    /\ pc[t] = "response"
    /\ \/ GoOn(t, "settle") /\ UNCHANGED reports
       \/ \E value \in {Completion, Caught} :
             Finish(t, value) /\ Report(job[t].id, "unresolved")
    /\ UNCHANGED <<store, doubt, review, used, sent, consumed>>

\* Faulty variant of SettledOrNot: an unclear settlement is reported settled.
SettledMaybe(t, value) ==
    /\ value # Unavailable("conflicting-settlement")
    /\ Report(job[t].id, "settled") /\ Finish(t, Completion)

SettledOrNot(t, value) ==
    \/ /\ value.outcome = "settled" /\ value.breach
       /\ Report(job[t].id, "breach")
       /\ Finish(t, Unavailable("breached-profile"))
    \/ /\ value.outcome = "settled" /\ ~ value.breach
       /\ Report(job[t].id, "settled") /\ Finish(t, Completion)
    \/ /\ value = Unavailable("conflicting-settlement")
       /\ Finish(t, value) /\ UNCHANGED reports
    \/ /\ value.outcome = "unavailable"
       /\ value # Unavailable("conflicting-settlement")
       /\ Report(job[t].id, "unresolved") /\ Finish(t, Completion)

Settle(t) ==
    /\ pc[t] = "settle"
    /\ \E value \in Answers(SettleOf(t)) :
          Answered(SettleOf(t), value) /\ SettledOrNot(t, value)
    /\ UNCHANGED <<review, used, sent, consumed>>

\* The process of guard g dies with its tasks; what they awaited of the
\* ledger may still take effect.
Crash(g) ==
    LET dead == {t \in Tasks : GuardOf[t] = g}
        calls == {job[t] : t \in {u \in dead : pc[u] = "reserve"}}
                   \cup {FenceOf(t) : t \in {u \in dead : pc[u] = "fence"}}
                   \cup {ReleaseOf(t) : t \in {u \in dead : pc[u] = "release"}}
                   \cup {SettleOf(t) : t \in {u \in dead : pc[u] = "settle"}}
    IN  /\ \E t \in dead : pc[t] # "idle"
        /\ \E lost \in SUBSET calls :
              /\ Cardinality(doubt \cup lost) <= MaxDoubt
              /\ doubt' = doubt \cup lost
        /\ pc' = [t \in Tasks |-> IF t \in dead THEN "idle" ELSE pc[t]]
        /\ job' = [t \in Tasks |-> IF t \in dead THEN Undefined ELSE job[t]]
        /\ usage' = [t \in Tasks |-> IF t \in dead THEN 0 ELSE usage[t]]
        /\ result' = [t \in Tasks |-> IF t \in dead THEN Undefined
                                      ELSE result[t]]
        /\ inflight' = [inflight EXCEPT ![g] = {}]
        /\ UNCHANGED <<store, reports, review, used, sent, consumed>>

-----------------------------------------------------------------------------
(* settleUsage and releaseReservation                                      *)

\* Late usage of a call that was sent, as the provider accounts for it.
SettleUsage(o, i) ==
    LET k == [kind |-> "settle", id |-> i, usage |-> UsageOf(consumed[i])]
    IN  /\ review[o] = Undefined
        /\ sent[i] > 0
        /\ \E value \in Answers(k) :
              /\ Answered(k, value)
              /\ \/ /\ value.outcome = "settled"
                    /\ Report(i, IF value.breach THEN "breach" ELSE "settled")
                    /\ UNCHANGED review
                 \/ /\ value.outcome = "unavailable"
                    /\ value.reason \in {"invalid-usage", "storage-unavailable",
                                         "ambiguous-commit"}
                    /\ review' = [review EXCEPT ![o] = i]
                    /\ UNCHANGED reports
                 \/ /\ value.outcome = "unavailable"
                    /\ value.reason \notin {"invalid-usage",
                                            "storage-unavailable",
                                            "ambiguous-commit"}
                    /\ UNCHANGED <<review, reports>>
        /\ UNCHANGED <<guardVars, used, sent, consumed>>

\* The second half of settleUsage: what the record says now; the read may
\* fail, and then nothing is reported.
ReviewUsage(o) ==
    LET i == review[o]
        record == Reconcile(store, i)
    IN  /\ i # Undefined
        /\ review' = [review EXCEPT ![o] = Undefined]
        /\ \/ UNCHANGED reports
           \/ /\ record # Undefined
              /\ Report(i, IF record.state = "settled" THEN "settled"
                           ELSE "unresolved")
        /\ UNCHANGED <<store, doubt, guardVars, used, sent, consumed>>

ReleaseReservation(i) ==
    LET k == [kind |-> "release", id |-> i]
    IN  /\ i \in used
        /\ \E value \in Answers(k) :
              /\ Answered(k, value)
              /\ \/ value.outcome = "released" /\ Report(i, "released")
                 \/ value.outcome = "held" /\ Report(i, "unresolved")
                 \/ value.outcome = "unavailable" /\ UNCHANGED reports
        /\ UNCHANGED <<guardVars, review, used, sent, consumed>>

Next ==
    \/ \E t \in Tasks :
          \/ \E a \in Attempts :
                \/ Refuse(t, a)
                \/ \E i \in InvocationIds(a), now \in Times :
                      Dispatch(t, a, i, now)
          \/ Reserve(t) \/ Fence(t) \/ Release(t)
          \/ \E n \in Uses : Send(t, n)
          \/ Response(t) \/ Settle(t)
    \/ \E g \in Guards : Crash(g)
    \/ \E o \in Operators :
          \/ \E i \in Ids : SettleUsage(o, i)
          \/ ReviewUsage(o)
    \/ Operators # {} /\ \E i \in Ids : ReleaseReservation(i)
    \/ \E k \in doubt : TakesEffect(k) \/ IsLost(k)

Spec == Init /\ [][Next]_vars

-----------------------------------------------------------------------------
(* Properties.                                                             *)

\* Dispatch only under a durable fence (dispatch; header of fence): a
\* provider call was made only under an invocation the ledger shows as
\* fenced, so an invocation released as undispatched was never sent, in
\* whatever order fences, releases and operations in doubt arrive.
SentUnderFence ==
    \A i \in Ids : sent[i] > 0 =>
        /\ i \in DOMAIN store.invocations
        /\ store.invocations[i].fenced
        /\ store.invocations[i].state # "released"

\* The invocations admitted in a row, and what their calls consumed.
InRow(k) ==
    {i \in DOMAIN store.invocations : RowKey(store.invocations[i]) = k}
SpentIn(k) == [i \in InRow(k) |-> consumed[i]]

\* Every token a provider call really consumed is debited in the row that
\* admitted the call or still held there (dispatch: a hold is lifted only
\* for usage or for proof that nothing was sent), through crashes, failures
\* and operations in doubt: as long as no call was sent twice and the bound
\* of its profile was right.
SpendCovered ==
    \A k \in DOMAIN store.epochs :
        (\A i \in InRow(k) :
            sent[i] <= 1 /\ consumed[i] <= store.invocations[i].upperBound)
        => Total(SpentIn(k)) <= store.epochs[k].committed + store.epochs[k].held

\* The comment on `inflight`: dispatches of one guard that are under way
\* have different IDs, and exactly their IDs are in flight, whichever way a
\* dispatch ends.
InflightExact ==
    \A g \in Guards :
        LET busy == {t \in Tasks : GuardOf[t] = g /\ pc[t] # "idle"}
        IN  /\ inflight[g] = {job[t].id : t \in busy}
            /\ \A t, u \in busy : t # u => job[t].id # job[u].id

\* A final report states what the ledger holds for good: settled, breached
\* or released.  An uncertain operation is never reported as done.
ReportsTruthful ==
    \A r \in reports :
        r.outcome # "unresolved" =>
            /\ r.id \in DOMAIN store.invocations
            /\ LET record == store.invocations[r.id]
               IN  IF r.outcome = "released" THEN record.state = "released"
                   ELSE /\ record.state = "settled"
                        /\ r.outcome = "breach" => record.breach

-----------------------------------------------------------------------------
(* What the repository says and the guard does not do.                     *)

\* ledger.ts and outbound-policy.md: a crashed or uncertain fenced attempt
\* is never resent on the same reservation.
NeverResent == \A i \in Ids : sent[i] <= 1

=============================================================================
