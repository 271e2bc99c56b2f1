------------------------------ MODULE LedgerOps ------------------------------
(***************************************************************************)
(* The pure core of the durable token ledger: runtime/outbound/ledger.ts   *)
(* and runtime/outbound/epoch.ts.  Every ledger operation of the service   *)
(* is a function `apply` from the loaded ledger state to an Applied value: *)
(* whether to write, the next state, and the value returned to the caller. *)
(* The operators below are those functions; how they are run against a     *)
(* shared store is LedgerService, what the guard does with them is         *)
(* BudgetGuard.                                                            *)
(*                                                                         *)
(* Abstractions.  Identities are members of small sets.  Report detail     *)
(* (remaining tokens, reset time) is left out of the returned values.  A   *)
(* thrown TypeError is the value Throws: the transaction writes nothing    *)
(* and the caller's promise rejects.                                       *)
(***************************************************************************)
EXTENDS Integers, Sequences, FiniteSets

CONSTANTS
    Tenants, Pools, Correlations, Profiles, Ids,
    Versions,       \* names of schedule versions
    Identities,     \* display identities of metering profiles
    ProfileId,      \* profileId: profile -> display identity
    MaxSafe,        \* Number.MAX_SAFE_INTEGER
    Undefined       \* JavaScript's undefined

ASSUME MaxSafeAssumption == MaxSafe \in Nat \ {0}
ASSUME ProfileIdAssumption == ProfileId \in [Profiles -> Identities]
ASSUME UndefinedAssumption == Undefined \notin Int

-----------------------------------------------------------------------------
(* Epoch schedules (epoch.ts).                                             *)

Schedule == [limit: Nat, periodMs: Nat \ {0}, anchorMs: Nat, version: Versions]

\* A policy edit: every field but the version may be omitted.
Change == [limit: Nat \cup {Undefined}, periodMs: (Nat \ {0}) \cup {Undefined},
           anchorMs: Nat \cup {Undefined}, version: Versions]

Given(value, default) == IF value = Undefined THEN default ELSE value

\* The half-open epoch [start, end) of schedule s that holds time now.
EpochStart(s, now) ==
    s.anchorMs + ((now - s.anchorMs) \div s.periodMs) * s.periodMs

EpochEnd(s, now) == EpochStart(s, now) + s.periodMs

\* Faulty variant of Boundary: an edit takes effect at once.
BoundaryAtOnce(s, now) == IF now < s.anchorMs THEN s.anchorMs ELSE now

\* The first boundary of s that is not in the past.
Boundary(s, now) ==
    IF now < s.anchorMs THEN s.anchorMs
    ELSE IF (now - s.anchorMs) % s.periodMs = 0 THEN now
    ELSE EpochEnd(s, now)

\* transitionSchedule throws unless this holds.
TransitionAllowed(s, change, now) ==
    /\ change.version # s.version
    /\ Boundary(s, now) <= MaxSafe
    /\ change.anchorMs # Undefined =>
          /\ change.anchorMs >= Boundary(s, now)
          /\ change.anchorMs >= s.anchorMs
          /\ (change.anchorMs - s.anchorMs) % s.periodMs = 0

TransitionSchedule(s, change, now) ==
    [limit    |-> Given(change.limit, s.limit),
     periodMs |-> Given(change.periodMs, s.periodMs),
     anchorMs |-> Given(change.anchorMs, Boundary(s, now)),
     version  |-> change.version]

\* The schedule versions a left-to-right scan passes before it meets an
\* anchor the clock has not reached; the last of them applies.
ReachedVersions(versions, now) ==
    {i \in 1..Len(versions) : \A j \in 1..i : versions[j].anchorMs <= now}

HasApplicable(versions, now) == ReachedVersions(versions, now) # {}

ApplicableSchedule(versions, now) ==
    versions[Cardinality(ReachedVersions(versions, now))]

-----------------------------------------------------------------------------
(* Ledger state (LedgerState, EpochRow, InvocationRecord).                 *)

Usage == [inputTokens: Nat, outputTokens: Nat]

ASSUME UndefinedIsNoUsage == Undefined \notin Usage

UsageTotal(usage) == usage.inputTokens + usage.outputTokens

EpochKeys == Tenants \X Pools \X Int

Row == [end: Int, limit: Nat, scheduleVersion: Versions,
        committed: Nat, held: Int]

InvocationStates == {"held", "fenced", "settled", "released"}

Record == [tenant: Tenants, pool: Pools, correlation: Correlations,
           epochStart: Int, epochEnd: Int, limit: Nat,
           scheduleVersion: Versions, profile: Profiles,
           upperBound: Nat \ {0}, state: InvocationStates, fenced: BOOLEAN,
           usage: Usage \cup {Undefined}, breach: BOOLEAN]

\* The fields a ledger state has and the types of what they hold.
LedgerTyped(state) ==
    /\ state = [version |-> state.version, schedules |-> state.schedules,
                epochs |-> state.epochs, invocations |-> state.invocations,
                order |-> state.order, quarantined |-> state.quarantined]
    /\ state.version \in Nat
    /\ state.schedules \in [Pools -> Seq(Schedule)]
    /\ DOMAIN state.epochs \subseteq EpochKeys
    /\ \A k \in DOMAIN state.epochs : state.epochs[k] \in Row
    /\ DOMAIN state.invocations \subseteq Ids
    /\ \A i \in DOMAIN state.invocations : state.invocations[i] \in Record
    /\ state.order \in Seq(Ids)
    /\ state.quarantined \subseteq Profiles

\* A pool without a schedule has the empty sequence.  `order` is the order
\* in which Object.values enumerates the invocations (insertion order).
EmptyLedgerState ==
    [version     |-> 0,
     schedules   |-> [p \in Pools |-> <<>>],
     epochs      |-> [k \in {} |-> Undefined],
     invocations |-> [i \in {} |-> Undefined],
     order       |-> <<>>,
     quarantined |-> {}]

\* Object spread with one key replaced or added.
Put(f, key, value) ==
    [k \in DOMAIN f \cup {key} |-> IF k = key THEN value ELSE f[k]]

RowKey(record) == <<record.tenant, record.pool, record.epochStart>>

Unresolved(record) == record.state \in {"held", "fenced"}

\* Some invocation of the row used more than its bound.
RowBreached(state, k) ==
    \E i \in DOMAIN state.invocations :
        RowKey(state.invocations[i]) = k /\ state.invocations[i].breach

\* Debits and holds of a row without a breach are within its limit.
WithinLimits(state) ==
    \A k \in DOMAIN state.epochs :
        \/ RowBreached(state, k)
        \/ state.epochs[k].committed + state.epochs[k].held
               <= state.epochs[k].limit

\* A sum as a count: one element for every token of every key of `amount`.
Tokens(amount) == UNION {{i} \X (1..amount[i]) : i \in DOMAIN amount}
Total(amount) == Cardinality(Tokens(amount))

\* The bounds of the unresolved invocations of a row, and the usage of the
\* settled ones.
HeldIn(state, k) ==
    [i \in {j \in DOMAIN state.invocations :
              /\ RowKey(state.invocations[j]) = k
              /\ Unresolved(state.invocations[j])}
       |-> state.invocations[i].upperBound]
DebitedIn(state, k) ==
    [i \in {j \in DOMAIN state.invocations :
              /\ RowKey(state.invocations[j]) = k
              /\ state.invocations[j].state = "settled"}
       |-> UsageTotal(state.invocations[i].usage)]

\* Every row holds and has committed exactly what its invocations account
\* for.
Balanced(state) ==
    \A k \in DOMAIN state.epochs :
        /\ state.epochs[k].held = Total(HeldIn(state, k))
        /\ state.epochs[k].committed = Total(DebitedIn(state, k))

\* Faulty variant of Fits: holds are not counted.
FitsIgnoringHolds(limit, committed, held, upperBound) ==
    upperBound <= limit /\ committed <= limit - upperBound

\* committed + held + upperBound <= limit, compared through the headroom.
Fits(limit, committed, held, upperBound) ==
    /\ upperBound <= limit
    /\ committed <= limit - upperBound
    /\ held <= limit - upperBound - committed

-----------------------------------------------------------------------------
(* Calls of the service and what they return.                              *)

ReserveCall ==
    [kind: {"reserve"}, id: Ids, tenant: Tenants, pool: Pools,
     correlation: Correlations, profile: Profiles, qualified: BOOLEAN,
     upperBound: 1..MaxSafe, at: 0..MaxSafe]
FenceCall == [kind: {"fence"}, id: Ids]
SettleCall == [kind: {"settle"}, id: Ids, usage: Usage \cup {Undefined}]
ReleaseCall == [kind: {"release"}, id: Ids]
ConfigureCall == [kind: {"configure"}, pool: Pools, schedule: Schedule]
TransitionCall ==
    [kind: {"transition"}, pool: Pools, change: Change, at: 0..MaxSafe]

Calls == ReserveCall \cup FenceCall \cup SettleCall \cup ReleaseCall
            \cup ConfigureCall \cup TransitionCall

Unavailable(reason) == [outcome |-> "unavailable", reason |-> reason]
Throws == [outcome |-> "throws"]

ASSUME UndefinedIsNoAnswer ==
    \A reason \in {"missing-qualification", "invalid-usage"} :
        Undefined # Unavailable(reason)

\* meteringUsage: counters whose sum is not a safe integer are no usage.
MeteringUsage(usage) ==
    IF usage # Undefined /\ UsageTotal(usage) <= MaxSafe
    THEN usage ELSE Undefined

\* What a call answers before it touches the store, Undefined if nothing.
EarlyReturn(call) ==
    IF call.kind = "reserve" /\ ~ call.qualified
    THEN Unavailable("missing-qualification")
    ELSE IF call.kind = "settle" /\ MeteringUsage(call.usage) = Undefined
    THEN Unavailable("invalid-usage")
    ELSE Undefined

\* Applied<T>: a reply that leaves the ledger as it was, or a write.
Reply(state, value) == [write |-> FALSE, next |-> state, value |-> value]

\* Faulty variant of Write: the version does not advance.
WriteSameVersion(state, changes, value) ==
    [write |-> TRUE, value |-> value, next |-> changes]

Write(state, changes, value) ==
    [write |-> TRUE, value |-> value,
     next  |-> [changes EXCEPT !.version = state.version + 1]]

-----------------------------------------------------------------------------
(* reserve                                                                 *)

Admitted(duplicate) == [outcome |-> "admitted", duplicate |-> duplicate]

\* A known invocation ID: the same request is admitted again, whatever has
\* become of the reservation; a changed request conflicts.
SameRequest(record, call) ==
    /\ record.tenant = call.tenant
    /\ record.pool = call.pool
    /\ record.correlation = call.correlation
    /\ record.upperBound = call.upperBound
    /\ ProfileId[record.profile] = ProfileId[call.profile]

\* The row of the epoch, or the one the schedule prescribes for it.
EpochRowFor(state, key, schedule, now) ==
    IF key \in DOMAIN state.epochs THEN state.epochs[key]
    ELSE [end |-> EpochEnd(schedule, now), limit |-> schedule.limit,
          scheduleVersion |-> schedule.version, committed |-> 0, held |-> 0]

NewRecord(call, key, row) ==
    [tenant |-> call.tenant, pool |-> call.pool,
     correlation |-> call.correlation, epochStart |-> key[3],
     epochEnd |-> row.end, limit |-> row.limit,
     scheduleVersion |-> row.scheduleVersion, profile |-> call.profile,
     upperBound |-> call.upperBound, state |-> "held", fenced |-> FALSE,
     usage |-> Undefined, breach |-> FALSE]

Admit(state, call, key, row) ==
    Write(state,
          [state EXCEPT
             !.epochs = Put(state.epochs, key,
                            [row EXCEPT !.held = row.held + call.upperBound]),
             !.invocations = Put(state.invocations, call.id,
                                 NewRecord(call, key, row)),
             !.order = Append(state.order, call.id)],
          Admitted(FALSE))

ReserveApply(state, call) ==
    LET versions == state.schedules[call.pool]
        schedule == ApplicableSchedule(versions, call.at)
        key == <<call.tenant, call.pool, EpochStart(schedule, call.at)>>
        row == EpochRowFor(state, key, schedule, call.at)
    IN  IF ~ HasApplicable(versions, call.at)
        THEN Reply(state, Unavailable("invalid-policy"))
        ELSE IF EpochEnd(schedule, call.at) > MaxSafe
        THEN Reply(state, Throws)
        ELSE IF call.id \in DOMAIN state.invocations
        THEN IF SameRequest(state.invocations[call.id], call)
             THEN Reply(state, Admitted(TRUE))
             ELSE Reply(state, Unavailable("conflicting-settlement"))
        ELSE IF call.profile \in state.quarantined
        THEN Reply(state, Unavailable("breached-profile"))
        ELSE IF ~ Fits(row.limit, row.committed, row.held, call.upperBound)
        THEN Reply(state, [outcome |-> "exceeded"])
        ELSE Admit(state, call, key, row)

-----------------------------------------------------------------------------
(* fence, settle and releaseUndispatched act on a known invocation.        *)

\* fence persists the once-only dispatch fence.
FenceKnown(state, id) ==
    LET record == state.invocations[id]
    IN  IF record.state \in {"settled", "released"}
        THEN Reply(state, Unavailable("conflicting-settlement"))
        ELSE IF record.fenced
        THEN Reply(state, [outcome |-> "fenced", duplicate |-> TRUE])
        ELSE Write(state,
                   [state EXCEPT !.invocations =
                      Put(@, id, [record EXCEPT !.state = "fenced",
                                                !.fenced = TRUE])],
                   [outcome |-> "fenced", duplicate |-> FALSE])

Settled(duplicate, breach) ==
    [outcome |-> "settled", duplicate |-> duplicate, breach |-> breach]

\* Debit the actual usage in the row of the original admission and lift
\* the hold; usage above the bound quarantines the profile.
Debit(state, id, usage) ==
    LET record == state.invocations[id]
        key == RowKey(record)
        row == state.epochs[key]
        breached == UsageTotal(usage) > record.upperBound
    IN  Write(state,
              [state EXCEPT
                 !.epochs = Put(state.epochs, key,
                    [row EXCEPT !.committed = row.committed + UsageTotal(usage),
                                !.held = row.held - record.upperBound]),
                 !.invocations = Put(state.invocations, id,
                    [record EXCEPT !.state = "settled", !.usage = usage,
                                   !.breach = breached]),
                 !.quarantined = IF breached THEN @ \cup {record.profile}
                                 ELSE @],
              Settled(FALSE, breached))

\* Faulty variant of SettleKnown: a released attempt can be settled.
SettleReleased(state, id, usage) ==
    LET record == state.invocations[id]
    IN  IF record.state = "settled"
        THEN Reply(state, Unavailable("conflicting-settlement"))
        ELSE Debit(state, id, usage)

SettleKnown(state, id, usage) ==
    LET record == state.invocations[id]
        key == RowKey(record)
    IN  IF record.state = "released"
        THEN Reply(state, Unavailable("conflicting-settlement"))
        ELSE IF record.state = "settled"
        THEN IF record.usage # usage
             THEN Reply(state, Unavailable("conflicting-settlement"))
             ELSE Reply(state, Settled(TRUE, record.breach))
        ELSE IF key \notin DOMAIN state.epochs
        THEN Reply(state, Unavailable("storage-unavailable"))
        ELSE IF state.epochs[key].committed + UsageTotal(usage) > MaxSafe
        THEN Reply(state, Unavailable("invalid-usage"))
        ELSE Debit(state, id, usage)

\* Lift the hold of an attempt whose missing fence proves it was not sent.
LiftHold(state, id) ==
    LET record == state.invocations[id]
        key == RowKey(record)
        row == state.epochs[key]
    IN  Write(state,
              [state EXCEPT
                 !.epochs = Put(state.epochs, key,
                    [row EXCEPT !.held = row.held - record.upperBound]),
                 !.invocations = Put(state.invocations, id,
                    [record EXCEPT !.state = "released"])],
              [outcome |-> "released", duplicate |-> FALSE])

\* Faulty variants of ReleaseKnown: the fence is not looked at; a second
\* release lifts the hold again.
ReleaseFenced(state, id) ==
    LET record == state.invocations[id]
    IN  IF record.state = "settled"
        THEN Reply(state, Unavailable("conflicting-settlement"))
        ELSE IF record.state = "released"
        THEN Reply(state, [outcome |-> "released", duplicate |-> TRUE])
        ELSE LiftHold(state, id)

ReleaseTwice(state, id) ==
    LET record == state.invocations[id]
    IN  IF record.state = "settled"
        THEN Reply(state, Unavailable("conflicting-settlement"))
        ELSE IF record.fenced THEN Reply(state, [outcome |-> "held"])
        ELSE LiftHold(state, id)

ReleaseKnown(state, id) ==
    LET record == state.invocations[id]
    IN  IF record.state = "settled"
        THEN Reply(state, Unavailable("conflicting-settlement"))
        ELSE IF record.state = "released"
        THEN Reply(state, [outcome |-> "released", duplicate |-> TRUE])
        ELSE IF record.fenced
        THEN Reply(state, [outcome |-> "held"])
        ELSE IF RowKey(record) \notin DOMAIN state.epochs
        THEN Reply(state, Unavailable("storage-unavailable"))
        ELSE LiftHold(state, id)

\* reconcile reads one record by invocation ID.
Reconcile(state, id) ==
    IF id \in DOMAIN state.invocations THEN state.invocations[id] ELSE Undefined

-----------------------------------------------------------------------------
(* configurePool and transitionPool                                        *)

ConfigureApply(state, call) ==
    IF state.schedules[call.pool] # <<>>
    THEN Reply(state, Unavailable("invalid-policy"))
    ELSE Write(state,
               [state EXCEPT !.schedules[call.pool] = <<call.schedule>>],
               [outcome |-> "configured"])

TransitionApply(state, call) ==
    LET versions == state.schedules[call.pool]
        current == versions[Len(versions)]
    IN  IF versions = <<>>
        THEN Reply(state, Unavailable("invalid-policy"))
        ELSE IF ~ TransitionAllowed(current, call.change, call.at)
        THEN Reply(state, Throws)
        ELSE Write(state,
                   [state EXCEPT !.schedules[call.pool] =
                      Append(versions, TransitionSchedule(current, call.change,
                                                          call.at))],
                   [outcome |-> "transitioned"])

\* The apply function of a call.
Apply(state, call) ==
    CASE call.kind = "reserve" -> ReserveApply(state, call)
      [] call.kind = "configure" -> ConfigureApply(state, call)
      [] call.kind = "transition" -> TransitionApply(state, call)
      [] call.kind \in {"fence", "settle", "release"} ->
           IF call.id \notin DOMAIN state.invocations
           THEN Reply(state, Unavailable("unknown-invocation"))
           ELSE IF call.kind = "fence" THEN FenceKnown(state, call.id)
           ELSE IF call.kind = "settle"
                THEN SettleKnown(state, call.id, call.usage)
           ELSE ReleaseKnown(state, call.id)

-----------------------------------------------------------------------------
(* What a step of the ledger may do to it, from an old to a new state.     *)

\* Rows keep their pinned bounds and limit and never lose debits;
\* invocations keep their admission and their fence, a fenced one is never
\* released, and a settled or released one is final.
HistoryKept(old, new) ==
    /\ \A k \in DOMAIN old.epochs :
          /\ k \in DOMAIN new.epochs
          /\ new.epochs[k].end = old.epochs[k].end
          /\ new.epochs[k].limit = old.epochs[k].limit
          /\ new.epochs[k].committed >= old.epochs[k].committed
    /\ \A i \in DOMAIN old.invocations :
          LET was == old.invocations[i]
              is == new.invocations[i]
          IN  /\ i \in DOMAIN new.invocations
              /\ RowKey(is) = RowKey(was)
              /\ is.upperBound = was.upperBound
              /\ was.fenced => is.fenced
              /\ was.fenced /\ was.state # "released" => is.state # "released"
              /\ ~ Unresolved(was) => is = was

\* The held tokens of a row go down only by the bound of one invocation that
\* is settled with its usage or released without ever having been fenced.
HoldsLifted(old, new) ==
    \A k \in DOMAIN old.epochs :
        new.epochs[k].held < old.epochs[k].held =>
            \E i \in DOMAIN old.invocations :
               LET was == old.invocations[i]
                   is == new.invocations[i]
               IN  /\ RowKey(was) = k /\ Unresolved(was)
                   /\ old.epochs[k].held - new.epochs[k].held = was.upperBound
                   /\ \/ is.state = "settled" /\ is.usage # Undefined
                      \/ is.state = "released" /\ ~ was.fenced

\* The pinned epochs of a pool do not overlap within a tenant.
EpochsApart(state, p) ==
    \A k, l \in DOMAIN state.epochs :
        k[1] = l[1] /\ k[2] = p /\ l[2] = p /\ k[3] < l[3]
            => state.epochs[k].end <= l[3]

\* The pools whose edit takes effect inside, before or at the first instant of
\* an epoch that has a row: admissions have overtaken it.
OvertakenBy(old, new) ==
    {p \in Pools :
        /\ old.schedules[p] # <<>>
        /\ new.schedules[p] # old.schedules[p]
        /\ \E k \in DOMAIN old.epochs :
              /\ k[2] = p
              /\ old.epochs[k].end
                    > new.schedules[p][Len(new.schedules[p])].anchorMs}

=============================================================================
