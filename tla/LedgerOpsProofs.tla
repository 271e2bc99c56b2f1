--------------------------- MODULE LedgerOpsProofs ---------------------------
(***************************************************************************)
(* Facts about the ledger operations that hold for every ledger state and  *)
(* every call: an operation keeps the types, a reply changes nothing, a    *)
(* write advances the version by one, no operation takes a row without a   *)
(* breach above its limit, and what a row holds and has committed remains  *)
(* what its invocations account for.                                       *)
(***************************************************************************)
EXTENDS LedgerOps, FiniteSetTheorems, TLAPS

\* What the operations need and keep: the types, rows within their limits,
\* and a breach recorded only by a settlement.
BreachesAreSettled(state) ==
    \A i \in DOMAIN state.invocations :
        state.invocations[i].breach => state.invocations[i].state = "settled"

LedgerInv(state) ==
    /\ LedgerTyped(state)
    /\ WithinLimits(state)
    /\ BreachesAreSettled(state)

\* The ledger before its first operation.
LEMMA EmptyLedgerInv == LedgerInv(EmptyLedgerState)
<1> DEFINE s == EmptyLedgerState
<1>1. /\ s.version = 0 /\ s.schedules = [p \in Pools |-> <<>>]
      /\ DOMAIN s.epochs = {} /\ DOMAIN s.invocations = {}
      /\ s.order = <<>> /\ s.quarantined = {}
      /\ s = [version |-> s.version, schedules |-> s.schedules,
              epochs |-> s.epochs, invocations |-> s.invocations,
              order |-> s.order, quarantined |-> s.quarantined]
  BY DEF EmptyLedgerState
<1> HIDE DEF s
<1>2. s.schedules \in [Pools -> Seq(Schedule)] /\ s.order \in Seq(Ids)
  BY <1>1
<1>3. LedgerTyped(s)
  BY <1>1, <1>2 DEF LedgerTyped
<1> QED
  BY <1>1, <1>3 DEF LedgerInv, WithinLimits, BreachesAreSettled, s

\* A call that reaches the store.
Admissible(call) == call \in Calls /\ EarlyReturn(call) = Undefined

\* The version scan of applicableSchedule picks a schedule of the pool.
LEMMA ReachedInRange ==
    ASSUME NEW versions \in Seq(Schedule), NEW now \in Int,
           HasApplicable(versions, now)
    PROVE  Cardinality(ReachedVersions(versions, now)) \in 1..Len(versions)
<1> DEFINE R == ReachedVersions(versions, now)
<1>1. R \subseteq 1..Len(versions)
  BY DEF ReachedVersions
<1> DEFINE n == Len(versions)
<1>n. n \in Nat /\ n \in Int /\ 1 \in Int
  OBVIOUS
<1> HIDE DEF n
<1>2. /\ IsFiniteSet(1..n)
      /\ Cardinality(1..n) = IF 1 > n THEN 0 ELSE n - 1 + 1
  BY <1>n, FS_Interval
<1>3. IsFiniteSet(R) /\ Cardinality(R) <= n
  <2>1. R \in SUBSET (1..n)
    BY <1>1 DEF n
  <2>2. IsFiniteSet(R) /\ Cardinality(R) <= Cardinality(1..n)
    BY <1>2, <2>1, FS_Subset
  <2> QED
    BY <1>2, <1>n, <2>2
<1>4. Cardinality(R) \in Nat /\ Cardinality(R) # 0
  BY <1>3, FS_CardinalityType, FS_EmptySet DEF HasApplicable
<1>5. Cardinality(R) \in 1..Len(versions)
  BY <1>3, <1>4 DEF n
<1> QED
  BY <1>5

LEMMA ApplicableInRange ==
    ASSUME NEW versions \in Seq(Schedule), NEW now \in Int,
           HasApplicable(versions, now)
    PROVE  ApplicableSchedule(versions, now) \in Schedule
BY ReachedInRange DEF ApplicableSchedule

\* The bounds of an epoch are integers.
LEMMA EpochBoundsTyped ==
    ASSUME NEW s \in Schedule, NEW now \in Int
    PROVE  EpochStart(s, now) \in Int /\ EpochEnd(s, now) \in Int
BY DEF EpochStart, EpochEnd, Schedule

\* What an operation may do to the ledger.
Sound(state, applied) ==
    /\ applied.write \in BOOLEAN
    /\ ~ applied.write => applied.next = state
    /\ applied.write => applied.next.version = state.version + 1
    /\ LedgerInv(applied.next)

LEMMA ReplySound ==
    ASSUME NEW state, NEW value, LedgerInv(state)
    PROVE  Sound(state, Reply(state, value))
BY DEF Sound, Reply

\* The state with its rows, invocations, order and quarantine replaced.
With(state, epochs, invocations, order, quarantined) ==
    [version |-> state.version, schedules |-> state.schedules,
     epochs |-> epochs, invocations |-> invocations, order |-> order,
     quarantined |-> quarantined]

LEMMA ExceptIsWith ==
    ASSUME NEW state, LedgerTyped(state), NEW epochs, NEW invocations
    PROVE  /\ [state EXCEPT !.epochs = epochs, !.invocations = invocations]
                = With(state, epochs, invocations, state.order,
                       state.quarantined)
           /\ [state EXCEPT !.invocations = invocations]
                = With(state, state.epochs, invocations, state.order,
                       state.quarantined)
<1> DEFINE r0 == With(state, state.epochs, state.invocations, state.order,
                      state.quarantined)
           r1 == With(state, epochs, state.invocations, state.order,
                      state.quarantined)
<1>1. state = r0
  BY DEF LedgerTyped, With
<1>2. [r0 EXCEPT !.epochs = epochs] = r1
  BY DEF With
<1>3. [r1 EXCEPT !.invocations = invocations]
        = With(state, epochs, invocations, state.order, state.quarantined)
  BY DEF With
<1>4. [r0 EXCEPT !.invocations = invocations]
        = With(state, state.epochs, invocations, state.order,
               state.quarantined)
  BY DEF With
<1>5. [state EXCEPT !.epochs = epochs, !.invocations = invocations]
         = [[state EXCEPT !.epochs = epochs] EXCEPT !.invocations = invocations]
  OBVIOUS
<1> HIDE DEF r0, r1
<1>6. [state EXCEPT !.epochs = epochs] = r1
  BY <1>1, <1>2
<1> QED
  BY <1>1, <1>3, <1>4, <1>5, <1>6

LEMMA ExceptWithOrder ==
    ASSUME NEW state, LedgerTyped(state), NEW epochs, NEW invocations,
           NEW order
    PROVE  [state EXCEPT !.epochs = epochs, !.invocations = invocations,
                         !.order = order]
             = With(state, epochs, invocations, order, state.quarantined)
<1> DEFINE r == With(state, epochs, invocations, state.order,
                     state.quarantined)
<1>1. [state EXCEPT !.epochs = epochs, !.invocations = invocations] = r
  BY ExceptIsWith
<1>2. [r EXCEPT !.order = order]
        = With(state, epochs, invocations, order, state.quarantined)
  BY DEF With
<1>3. [state EXCEPT !.epochs = epochs, !.invocations = invocations,
                    !.order = order]
        = [[state EXCEPT !.epochs = epochs, !.invocations = invocations]
             EXCEPT !.order = order]
  OBVIOUS
<1> HIDE DEF r
<1> QED
  BY <1>1, <1>2, <1>3

LEMMA ExceptWithQuarantine ==
    ASSUME NEW state, LedgerTyped(state), NEW epochs, NEW invocations,
           NEW quarantined
    PROVE  [state EXCEPT !.epochs = epochs, !.invocations = invocations,
                         !.quarantined = quarantined]
             = With(state, epochs, invocations, state.order, quarantined)
<1> DEFINE r == With(state, epochs, invocations, state.order,
                     state.quarantined)
<1>1. [state EXCEPT !.epochs = epochs, !.invocations = invocations] = r
  BY ExceptIsWith
<1>2. [r EXCEPT !.quarantined = quarantined]
        = With(state, epochs, invocations, state.order, quarantined)
  BY DEF With
<1>3. [state EXCEPT !.epochs = epochs, !.invocations = invocations,
                    !.quarantined = quarantined]
        = [[state EXCEPT !.epochs = epochs, !.invocations = invocations]
             EXCEPT !.quarantined = quarantined]
  OBVIOUS
<1> HIDE DEF r
<1> QED
  BY <1>1, <1>2, <1>3

LEMMA WithFields ==
    ASSUME NEW state, NEW epochs, NEW invocations, NEW order, NEW quarantined,
           NEW s, s = With(state, epochs, invocations, order, quarantined)
    PROVE  /\ s.version = state.version /\ s.schedules = state.schedules
           /\ s.epochs = epochs /\ s.invocations = invocations
           /\ s.order = order /\ s.quarantined = quarantined
           /\ s = [version |-> s.version, schedules |-> s.schedules,
                   epochs |-> s.epochs, invocations |-> s.invocations,
                   order |-> s.order, quarantined |-> s.quarantined]
BY DEF With

\* A write whose result has the invariant is sound.
LEMMA WriteSound ==
    ASSUME NEW state, NEW changes, NEW value, LedgerTyped(state),
           LedgerTyped(changes),
           LedgerInv([changes EXCEPT !.version = state.version + 1])
    PROVE  Sound(state, Write(state, changes, value))
BY DEF Sound, Write, LedgerTyped

\* The version plays no part in the invariant.
LEMMA VersionIrrelevant ==
    ASSUME NEW state, LedgerInv(state), NEW v \in Nat
    PROVE  LedgerInv([state EXCEPT !.version = v])
<1> DEFINE s == [state EXCEPT !.version = v]
<1>1. /\ s = [version |-> v, schedules |-> state.schedules,
              epochs |-> state.epochs, invocations |-> state.invocations,
              order |-> state.order, quarantined |-> state.quarantined]
      /\ s.version = v /\ s.schedules = state.schedules
      /\ s.epochs = state.epochs /\ s.invocations = state.invocations
      /\ s.order = state.order /\ s.quarantined = state.quarantined
  BY DEF LedgerInv, LedgerTyped
<1> HIDE DEF s
<1>2. LedgerTyped(s)
  BY <1>1 DEF LedgerInv, LedgerTyped
<1>3. WithinLimits(s)
  BY <1>1 DEF LedgerInv, WithinLimits, RowBreached
<1>4. BreachesAreSettled(s)
  BY <1>1 DEF LedgerInv, BreachesAreSettled
<1> QED
  BY <1>2, <1>3, <1>4 DEF LedgerInv, s

LEMMA ChangeSound ==
    ASSUME NEW state, NEW changes, NEW value, LedgerTyped(state),
           LedgerInv(changes)
    PROVE  Sound(state, Write(state, changes, value))
<1>1. state.version + 1 \in Nat
  BY DEF LedgerTyped
<1>2. LedgerInv([changes EXCEPT !.version = state.version + 1])
  BY <1>1, VersionIrrelevant
<1> QED
  BY <1>2, WriteSound DEF LedgerInv

\* fence
LEMMA FenceSound ==
    ASSUME NEW state, LedgerInv(state), NEW id \in DOMAIN state.invocations
    PROVE  Sound(state, FenceKnown(state, id))
<1> DEFINE record == state.invocations[id]
           fenced == [record EXCEPT !.state = "fenced", !.fenced = TRUE]
           s == With(state, state.epochs, Put(state.invocations, id, fenced),
                     state.order, state.quarantined)
<1>1. record \in Record /\ LedgerTyped(state)
  BY DEF LedgerInv, LedgerTyped
<1>2. CASE record.state \in {"settled", "released"} \/ record.fenced
  BY <1>2, ReplySound DEF FenceKnown
<1>3. CASE record.state \notin {"settled", "released"} /\ ~ record.fenced
  <2>1. /\ fenced \in Record /\ RowKey(fenced) = RowKey(record)
        /\ fenced.breach = record.breach /\ ~ record.breach
    BY <1>1, <1>3 DEF Record, RowKey, InvocationStates, LedgerInv,
                      BreachesAreSettled
  <2> HIDE DEF fenced
  <2>2. /\ s.version = state.version /\ s.schedules = state.schedules
        /\ s.epochs = state.epochs
        /\ s.invocations = Put(state.invocations, id, fenced)
        /\ s.order = state.order /\ s.quarantined = state.quarantined
        /\ s = [version |-> s.version, schedules |-> s.schedules,
                epochs |-> s.epochs, invocations |-> s.invocations,
                order |-> s.order, quarantined |-> s.quarantined]
    BY WithFields
  <2> HIDE DEF s
  <2>3. /\ DOMAIN s.invocations = DOMAIN state.invocations
        /\ s.invocations[id] = fenced
        /\ \A i \in DOMAIN state.invocations :
              i # id => s.invocations[i] = state.invocations[i]
    BY <2>2 DEF Put
  <2>4. LedgerTyped(s)
    BY <1>1, <2>1, <2>2, <2>3 DEF LedgerTyped
  <2>5. WithinLimits(s)
    BY <2>1, <2>2, <2>3 DEF LedgerInv, WithinLimits, RowBreached
  <2>6. BreachesAreSettled(s)
    BY <2>1, <2>3 DEF LedgerInv, BreachesAreSettled
  <2>7. LedgerInv(s)
    BY <2>4, <2>5, <2>6 DEF LedgerInv
  <2>8. FenceKnown(state, id) =
          Write(state, s, [outcome |-> "fenced", duplicate |-> FALSE])
    BY <1>1, <1>3, ExceptIsWith DEF FenceKnown, s, fenced
  <2> QED
    BY <1>1, <2>7, <2>8, ChangeSound
<1> QED
  BY <1>2, <1>3

\* Resolving one invocation: its row gives up its hold for at most as much,
\* or the row is breached by it.
LEMMA ResolveInv ==
    ASSUME NEW state, LedgerInv(state), NEW id \in DOMAIN state.invocations,
           NEW row \in Row, NEW record \in Record, NEW quarantined,
           quarantined \subseteq Profiles,
           RowKey(state.invocations[id]) \in DOMAIN state.epochs,
           ~ state.invocations[id].breach,
           RowKey(record) = RowKey(state.invocations[id]),
           record.breach => record.state = "settled",
           row.limit = state.epochs[RowKey(record)].limit,
           \/ record.breach
           \/ row.committed + row.held
                <= state.epochs[RowKey(record)].committed
                     + state.epochs[RowKey(record)].held
    PROVE  LedgerInv(With(state, Put(state.epochs, RowKey(record), row),
                          Put(state.invocations, id, record), state.order,
                          quarantined))
<1> DEFINE key == RowKey(record)
           s == With(state, Put(state.epochs, key, row),
                     Put(state.invocations, id, record), state.order,
                     quarantined)
<1>1. LedgerTyped(state) /\ key \in DOMAIN state.epochs
  BY DEF LedgerInv
<1>2. /\ s.version = state.version /\ s.schedules = state.schedules
      /\ s.epochs = Put(state.epochs, key, row)
      /\ s.invocations = Put(state.invocations, id, record)
      /\ s.order = state.order /\ s.quarantined = quarantined
      /\ s = [version |-> s.version, schedules |-> s.schedules,
              epochs |-> s.epochs, invocations |-> s.invocations,
              order |-> s.order, quarantined |-> s.quarantined]
  BY WithFields
<1> HIDE DEF s, key
<1>3. /\ DOMAIN s.invocations = DOMAIN state.invocations
      /\ s.invocations[id] = record
      /\ \A i \in DOMAIN state.invocations :
            i # id => s.invocations[i] = state.invocations[i]
  BY <1>2 DEF Put
<1>4. /\ DOMAIN s.epochs = DOMAIN state.epochs
      /\ s.epochs[key] = row
      /\ \A k \in DOMAIN state.epochs :
            k # key => s.epochs[k] = state.epochs[k]
  BY <1>1, <1>2 DEF Put
<1>5. LedgerTyped(s)
  BY <1>1, <1>2, <1>3, <1>4 DEF LedgerTyped
<1>6. WithinLimits(s)
  <2> SUFFICES ASSUME NEW k \in DOMAIN s.epochs, ~ RowBreached(s, k)
               PROVE  s.epochs[k].committed + s.epochs[k].held
                        <= s.epochs[k].limit
    BY DEF WithinLimits
  <2>1. ~ RowBreached(state, k)
    BY <1>3, <1>4 DEF RowBreached
  <2>2. state.epochs[k].committed + state.epochs[k].held
          <= state.epochs[k].limit
    BY <2>1, <1>4 DEF LedgerInv, WithinLimits
  <2>3. CASE k # key
    BY <2>2, <2>3, <1>4
  <2>4. CASE k = key
    <3>1. ~ record.breach
      BY <2>4, <1>3 DEF RowBreached, key
    <3>2. row.committed + row.held <= state.epochs[k].committed + state.epochs[k].held
      BY <3>1, <2>4 DEF key
    <3>3. /\ row.committed \in Int /\ row.held \in Int /\ row.limit \in Int
          /\ state.epochs[k].committed \in Int
          /\ state.epochs[k].held \in Int
      BY <1>1, <1>4, <2>4 DEF LedgerTyped, Row
    <3>4. s.epochs[k] = row /\ row.limit = state.epochs[k].limit
      BY <1>4, <2>4 DEF key
    <3> QED
      BY <2>2, <3>2, <3>3, <3>4
  <2> QED
    BY <2>3, <2>4
<1>7. BreachesAreSettled(s)
  BY <1>3 DEF LedgerInv, BreachesAreSettled
<1> QED
  BY <1>5, <1>6, <1>7 DEF LedgerInv, s, key

\* releaseUndispatched
LEMMA ReleaseSound ==
    ASSUME NEW state, LedgerInv(state), NEW id \in DOMAIN state.invocations
    PROVE  Sound(state, ReleaseKnown(state, id))
<1> DEFINE record == state.invocations[id]
           key == RowKey(record)
           row == state.epochs[key]
           newRow == [row EXCEPT !.held = row.held - record.upperBound]
           newRecord == [record EXCEPT !.state = "released"]
           s == With(state, Put(state.epochs, key, newRow),
                     Put(state.invocations, id, newRecord), state.order,
                     state.quarantined)
<1>1. record \in Record /\ LedgerTyped(state)
  BY DEF LedgerInv, LedgerTyped
<1>2. CASE \/ record.state \in {"settled", "released"} \/ record.fenced
           \/ key \notin DOMAIN state.epochs
  BY <1>2, ReplySound DEF ReleaseKnown
<1>3. CASE /\ record.state \notin {"settled", "released"} /\ ~ record.fenced
           /\ key \in DOMAIN state.epochs
  <2>1. row \in Row
    BY <1>1, <1>3 DEF LedgerTyped
  <2>2. ~ record.breach
    BY <1>3 DEF LedgerInv, BreachesAreSettled
  <2>3. newRecord \in Record /\ RowKey(newRecord) = key /\ ~ newRecord.breach
    BY <1>1, <2>2 DEF Record, InvocationStates, RowKey
  <2>4. /\ newRow \in Row /\ newRow.limit = row.limit
        /\ newRow.committed + newRow.held <= row.committed + row.held
    BY <1>1, <2>1 DEF Row, Record
  <2>5. state.quarantined \subseteq Profiles
    BY <1>1 DEF LedgerTyped
  <2>6. ReleaseKnown(state, id) =
          Write(state, s, [outcome |-> "released", duplicate |-> FALSE])
    BY <1>1, <1>3, ExceptIsWith DEF ReleaseKnown, LiftHold
  <2> HIDE DEF newRow, newRecord
  <2>7. LedgerInv(With(state, Put(state.epochs, RowKey(newRecord), newRow),
                       Put(state.invocations, id, newRecord), state.order,
                       state.quarantined))
    BY <1>3, <2>2, <2>3, <2>4, <2>5, ResolveInv
  <2>8. LedgerInv(s)
    BY <2>3, <2>7
  <2> QED
    BY <1>1, <2>6, <2>8, ChangeSound
<1> QED
  BY <1>2, <1>3

\* settle
LEMMA SettleSound ==
    ASSUME NEW state, LedgerInv(state), NEW id \in DOMAIN state.invocations,
           NEW usage \in Usage
    PROVE  Sound(state, SettleKnown(state, id, usage))
<1> DEFINE record == state.invocations[id]
           key == RowKey(record)
           row == state.epochs[key]
           total == UsageTotal(usage)
           breached == total > record.upperBound
           newRow == [row EXCEPT !.committed = row.committed + total,
                                 !.held = row.held - record.upperBound]
           newRecord == [record EXCEPT !.state = "settled", !.usage = usage,
                                       !.breach = breached]
           q == IF breached THEN state.quarantined \cup {record.profile}
                ELSE state.quarantined
           s == With(state, Put(state.epochs, key, newRow),
                     Put(state.invocations, id, newRecord), state.order,
                     q)
<1>1. record \in Record /\ LedgerTyped(state)
  BY DEF LedgerInv, LedgerTyped
<1>2. CASE ~ /\ record.state \notin {"settled", "released"}
             /\ key \in DOMAIN state.epochs
             /\ row.committed + total <= MaxSafe
  <2>1. \E value : SettleKnown(state, id, usage) = Reply(state, value)
    <3>1. CASE record.state \in {"settled", "released"}
      BY <3>1 DEF SettleKnown
    <3>2. CASE /\ record.state \notin {"settled", "released"}
               /\ key \notin DOMAIN state.epochs
      BY <3>2 DEF SettleKnown
    <3>3. CASE /\ record.state \notin {"settled", "released"}
               /\ key \in DOMAIN state.epochs
               /\ ~ (row.committed + total <= MaxSafe)
      <4>1. row.committed \in Nat
        BY <1>1, <3>3 DEF LedgerTyped, Row
      <4>2. total \in Nat
        BY DEF UsageTotal, Usage
      <4>3. row.committed + total > MaxSafe
        BY <3>3, <4>1, <4>2, MaxSafeAssumption
      <4> QED
        BY <3>3, <4>3 DEF SettleKnown
    <3> QED
      BY <1>2, <3>1, <3>2, <3>3
  <2> QED
    BY <2>1, ReplySound
<1>3. CASE /\ record.state \notin {"settled", "released"}
           /\ key \in DOMAIN state.epochs
           /\ row.committed + total <= MaxSafe
  <2>1. row \in Row
    BY <1>1, <1>3 DEF LedgerTyped
  <2>2. ~ record.breach
    BY <1>3 DEF LedgerInv, BreachesAreSettled
  <2>3. total \in Nat
    BY DEF UsageTotal, Usage
  <2>b. breached \in BOOLEAN
    BY SMT
  <2>u. /\ record.upperBound \in Nat /\ row.committed \in Nat
        /\ row.held \in Int
        /\ ~ breached => total <= record.upperBound
    BY <1>1, <2>1, <2>3 DEF Record, Row
  <2>4. /\ newRecord \in Record /\ RowKey(newRecord) = key
        /\ newRecord.breach = breached /\ newRecord.state = "settled"
    <3> HIDE DEF record, breached
    <3>1. newRecord \in Record
      BY <1>1, <2>b DEF Record, InvocationStates
    <3>2. /\ newRecord.breach = breached /\ newRecord.state = "settled"
          /\ newRecord.tenant = record.tenant /\ newRecord.pool = record.pool
          /\ newRecord.epochStart = record.epochStart
      BY <1>1 DEF Record
    <3> QED
      BY <3>1, <3>2 DEF RowKey
  <2>5. /\ newRow \in Row /\ newRow.limit = row.limit
        /\ ~ breached =>
              newRow.committed + newRow.held <= row.committed + row.held
    <3> HIDE DEF total, row, record, breached
    <3>1. row.committed + total \in Nat /\ row.held - record.upperBound \in Int
      BY <2>3, <2>u
    <3>2. newRow \in Row
      BY <2>1, <3>1 DEF Row
    <3>3. /\ newRow.committed = row.committed + total
          /\ newRow.held = row.held - record.upperBound
          /\ newRow.limit = row.limit
      BY <2>1 DEF Row
    <3> QED
      BY <3>2, <3>3, <2>3, <2>u
  <2>6. q \subseteq Profiles
    BY <1>1 DEF LedgerTyped, Record
  <2>7. SettleKnown(state, id, usage) = Debit(state, id, usage)
    <3>1. ~ (row.committed + total > MaxSafe)
      BY <1>3, <2>1, <2>3, MaxSafeAssumption DEF Row
    <3> QED
      BY <1>3, <3>1 DEF SettleKnown
  <2>8. Debit(state, id, usage) = Write(state, s, Settled(FALSE, breached))
    <3> DEFINE e == Put(state.epochs, key, newRow)
               v == Put(state.invocations, id, newRecord)
    <3>t. LedgerTyped(state)
      BY DEF LedgerInv
    <3>1. Debit(state, id, usage) =
            Write(state, [state EXCEPT !.epochs = e, !.invocations = v,
                                       !.quarantined = q],
                  Settled(FALSE, breached))
      BY DEF Debit
    <3>2. \A x, y, z : [state EXCEPT !.epochs = x, !.invocations = y,
                                     !.quarantined = z]
                         = With(state, x, y, state.order, z)
      BY <3>t, ExceptWithQuarantine
    <3> HIDE DEF e, v, q
    <3>3. [state EXCEPT !.epochs = e, !.invocations = v, !.quarantined = q]
            = With(state, e, v, state.order, q)
      BY <3>2
    <3> QED
      BY <3>1, <3>3 DEF e, v, q
  <2> HIDE DEF newRow, newRecord, q, breached
  <2>9. LedgerInv(With(state, Put(state.epochs, RowKey(newRecord), newRow),
                       Put(state.invocations, id, newRecord), state.order,
                       q))
    BY <1>3, <2>2, <2>4, <2>5, <2>6, ResolveInv
  <2>10. LedgerInv(s)
    BY <2>4, <2>9
  <2> QED
    BY <1>1, <2>7, <2>8, <2>10, ChangeSound
<1> QED
  BY <1>2, <1>3

\* The headroom comparison of fits admits no more than the limit.
LEMMA FitsBounds ==
    ASSUME NEW limit \in Int, NEW committed \in Int, NEW held \in Int,
           NEW bound \in Int, Fits(limit, committed, held, bound)
    PROVE  committed + (held + bound) <= limit
BY DEF Fits

\* Admitting a reservation that fits.
LEMMA AdmitSound ==
    ASSUME NEW state, LedgerInv(state), NEW call \in ReserveCall,
           NEW start \in Int, NEW row \in Row,
           call.id \notin DOMAIN state.invocations,
           LET key == <<call.tenant, call.pool, start>>
           IN  key \in DOMAIN state.epochs => row = state.epochs[key],
           Fits(row.limit, row.committed, row.held, call.upperBound)
    PROVE  Sound(state, Admit(state, call, <<call.tenant, call.pool, start>>, row))
<1> DEFINE key == <<call.tenant, call.pool, start>>
           newRow == [row EXCEPT !.held = row.held + call.upperBound]
           record == NewRecord(call, key, row)
           s == With(state, Put(state.epochs, key, newRow),
                     Put(state.invocations, call.id, record),
                     Append(state.order, call.id), state.quarantined)
<1>1. LedgerTyped(state)
  BY DEF LedgerInv
<1>2. /\ call.tenant \in Tenants /\ call.pool \in Pools /\ call.id \in Ids
      /\ call.correlation \in Correlations /\ call.profile \in Profiles
      /\ call.upperBound \in Nat \ {0}
  BY MaxSafeAssumption DEF ReserveCall
<1>3. key \in EpochKeys /\ key[1] = call.tenant /\ key[2] = call.pool /\ key[3] = start
  BY <1>2 DEF EpochKeys
<1>4. /\ newRow \in Row /\ newRow.limit = row.limit
      /\ newRow.committed = row.committed
      /\ newRow.held = row.held + call.upperBound
  BY <1>2 DEF Row
<1>5. newRow.committed + newRow.held <= newRow.limit
  <2>1. row.committed + (row.held + call.upperBound) <= row.limit
    BY <1>2, FitsBounds DEF Row
  <2> QED
    BY <2>1, <1>4
<1>6. record \in Record /\ ~ record.breach
  BY <1>2, <1>3 DEF NewRecord, Record, Row, InvocationStates
<1> DEFINE e == Put(state.epochs, key, newRow)
           v == Put(state.invocations, call.id, record)
           o == Append(state.order, call.id)
<1>7. Admit(state, call, key, row) = Write(state, s, Admitted(FALSE))
  <2>1. Admit(state, call, key, row) =
          Write(state, [state EXCEPT !.epochs = e, !.invocations = v,
                                     !.order = o], Admitted(FALSE))
    BY DEF Admit
  <2> HIDE DEF e, v, o
  <2>2. [state EXCEPT !.epochs = e, !.invocations = v, !.order = o]
          = With(state, e, v, o, state.quarantined)
    BY <1>1, ExceptWithOrder
  <2> QED
    BY <2>1, <2>2 DEF e, v, o
<1>8. key \in DOMAIN state.epochs => row = state.epochs[key]
  OBVIOUS
<1> HIDE DEF newRow, record, key
<1> HIDE DEF e, v, o
<1>9. /\ s.version = state.version /\ s.schedules = state.schedules
      /\ s.epochs = e /\ s.invocations = v /\ s.order = o
      /\ s.quarantined = state.quarantined
      /\ s = [version |-> s.version, schedules |-> s.schedules,
              epochs |-> s.epochs, invocations |-> s.invocations,
              order |-> s.order, quarantined |-> s.quarantined]
  <2>1. s = With(state, e, v, o, state.quarantined)
    BY DEF e, v, o
  <2> HIDE DEF s
  <2> QED
    BY <2>1, WithFields
<1> HIDE DEF s
<1>10. /\ DOMAIN s.invocations = DOMAIN state.invocations \cup {call.id}
       /\ s.invocations[call.id] = record
       /\ \A i \in DOMAIN state.invocations :
             s.invocations[i] = state.invocations[i]
  BY <1>9 DEF Put, v
<1>11. /\ DOMAIN s.epochs = DOMAIN state.epochs \cup {key}
       /\ s.epochs[key] = newRow
       /\ \A k \in DOMAIN state.epochs :
             k # key => s.epochs[k] = state.epochs[k]
  BY <1>9 DEF Put, e
<1>12. LedgerTyped(s)
  <2>1. s.order \in Seq(Ids)
    BY <1>1, <1>2, <1>9 DEF LedgerTyped, o
  <2> QED
    BY <1>1, <1>2, <1>3, <1>4, <1>6, <1>9, <1>10, <1>11, <2>1 DEF LedgerTyped
<1>13. WithinLimits(s)
  <2> SUFFICES ASSUME NEW k \in DOMAIN s.epochs, ~ RowBreached(s, k)
               PROVE  s.epochs[k].committed + s.epochs[k].held
                        <= s.epochs[k].limit
    BY DEF WithinLimits
  <2>1. CASE k = key
    BY <2>1, <1>5, <1>11
  <2>2. CASE k # key
    <3>1. ~ RowBreached(state, k)
      BY <1>10 DEF RowBreached
    <3> QED
      BY <2>2, <3>1, <1>11 DEF LedgerInv, WithinLimits
  <2> QED
    BY <2>1, <2>2
<1>14. BreachesAreSettled(s)
  BY <1>6, <1>10 DEF LedgerInv, BreachesAreSettled
<1>15. LedgerInv(s)
  BY <1>12, <1>13, <1>14 DEF LedgerInv
<1> QED
  BY <1>1, <1>7, <1>15, ChangeSound DEF key

\* reserve
LEMMA ReserveSound ==
    ASSUME NEW state, LedgerInv(state), NEW call \in ReserveCall
    PROVE  Sound(state, ReserveApply(state, call))
<1> DEFINE versions == state.schedules[call.pool]
           schedule == ApplicableSchedule(versions, call.at)
           start == EpochStart(schedule, call.at)
           key == <<call.tenant, call.pool, start>>
           row == EpochRowFor(state, key, schedule, call.at)
           admits == /\ HasApplicable(versions, call.at)
                     /\ ~ (EpochEnd(schedule, call.at) > MaxSafe)
                     /\ call.id \notin DOMAIN state.invocations
                     /\ call.profile \notin state.quarantined
                     /\ Fits(row.limit, row.committed, row.held,
                             call.upperBound)
<1>1. CASE ~ admits
  <2>1. \E value : ReserveApply(state, call) = Reply(state, value)
    BY <1>1 DEF ReserveApply
  <2> QED
    BY <2>1, ReplySound
<1>2. CASE admits
  <2>1. versions \in Seq(Schedule) /\ call.at \in Int
    BY MaxSafeAssumption DEF LedgerInv, LedgerTyped, ReserveCall
  <2>2. schedule \in Schedule
    BY <1>2, <2>1, ApplicableInRange
  <2>3. start \in Int /\ EpochEnd(schedule, call.at) \in Int
    BY <2>1, <2>2, EpochBoundsTyped
  <2>4. row \in Row
    BY <2>2, <2>3 DEF EpochRowFor, LedgerInv, LedgerTyped, Row, Schedule
  <2>5. key \in DOMAIN state.epochs => row = state.epochs[key]
    BY DEF EpochRowFor
  <2>6. ReserveApply(state, call) = Admit(state, call, key, row)
    BY <1>2 DEF ReserveApply
  <2> HIDE DEF row, start
  <2>7. Sound(state, Admit(state, call, key, row))
    BY <1>2, <2>3, <2>4, <2>5, AdmitSound
  <2> QED
    BY <2>6, <2>7
<1> QED
  BY <1>1, <1>2

\* Replacing the schedules of a pool touches no row and no invocation.
LEMMA SchedulesInv ==
    ASSUME NEW state, LedgerInv(state), NEW pool \in Pools,
           NEW versions \in Seq(Schedule)
    PROVE  LedgerInv([state EXCEPT !.schedules[pool] = versions])
<1> DEFINE table == [state.schedules EXCEPT ![pool] = versions]
           s == [state EXCEPT !.schedules[pool] = versions]
<1>1. LedgerTyped(state)
  BY DEF LedgerInv
<1>2. table \in [Pools -> Seq(Schedule)]
  BY <1>1 DEF LedgerTyped
<1>s. s = [state EXCEPT !.schedules = table]
  BY <1>1 DEF LedgerTyped
<1>r. state = [version |-> state.version, schedules |-> state.schedules,
               epochs |-> state.epochs, invocations |-> state.invocations,
               order |-> state.order, quarantined |-> state.quarantined]
  BY <1>1 DEF LedgerTyped
<1>3. /\ s = [version |-> state.version, schedules |-> table,
              epochs |-> state.epochs, invocations |-> state.invocations,
              order |-> state.order, quarantined |-> state.quarantined]
      /\ s.version = state.version /\ s.schedules = table
      /\ s.epochs = state.epochs /\ s.invocations = state.invocations
      /\ s.order = state.order /\ s.quarantined = state.quarantined
  <2> HIDE DEF table
  <2>1. s = [version |-> state.version, schedules |-> table,
             epochs |-> state.epochs, invocations |-> state.invocations,
             order |-> state.order, quarantined |-> state.quarantined]
    BY <1>s, <1>r
  <2> HIDE DEF s
  <2> QED
    BY <2>1
<1> HIDE DEF s, table
<1>4. LedgerTyped(s)
  BY <1>1, <1>2, <1>3 DEF LedgerTyped
<1>5. WithinLimits(s)
  BY <1>3 DEF LedgerInv, WithinLimits, RowBreached
<1>6. BreachesAreSettled(s)
  BY <1>3 DEF LedgerInv, BreachesAreSettled
<1> QED
  BY <1>4, <1>5, <1>6 DEF LedgerInv, s

\* configurePool
LEMMA ConfigureSound ==
    ASSUME NEW state, LedgerInv(state), NEW call \in ConfigureCall
    PROVE  Sound(state, ConfigureApply(state, call))
<1>1. call.pool \in Pools /\ <<call.schedule>> \in Seq(Schedule)
  BY DEF ConfigureCall
<1>2. LedgerInv([state EXCEPT !.schedules[call.pool] = <<call.schedule>>])
  BY <1>1, SchedulesInv
<1> QED
  BY <1>2, ReplySound, ChangeSound DEF ConfigureApply, LedgerInv

\* The first boundary not in the past is a time, whichever branch finds it.
LEMMA BoundaryTyped ==
    ASSUME NEW s \in Schedule, NEW now \in Nat
    PROVE  Boundary(s, now) \in Nat
<1> DEFINE gap == now - s.anchorMs
           n == gap \div s.periodMs
<1>1. s.anchorMs \in Nat /\ s.periodMs \in Nat /\ s.periodMs > 0
  BY DEF Schedule
<1>2. CASE now < s.anchorMs
  BY <1>1, <1>2 DEF Boundary
<1>3. CASE ~ (now < s.anchorMs)
  <2>1. gap \in Nat
    BY <1>1, <1>3
  <2> HIDE DEF gap
  <2>2. n \in Nat
    BY <1>1, <2>1
  <2> HIDE DEF n
  <2>3. n * s.periodMs \in Nat
    BY <1>1, <2>2
  <2>4. EpochEnd(s, now) = s.anchorMs + n * s.periodMs + s.periodMs
    BY DEF EpochEnd, EpochStart, n, gap
  <2>5. EpochEnd(s, now) \in Nat
    BY <1>1, <2>3, <2>4
  <2> QED
    BY <1>3, <2>5 DEF Boundary
<1> QED
  BY <1>2, <1>3

\* transitionPool
LEMMA TransitionSound ==
    ASSUME NEW state, LedgerInv(state), NEW call \in TransitionCall
    PROVE  Sound(state, TransitionApply(state, call))
<1> DEFINE versions == state.schedules[call.pool]
           current == versions[Len(versions)]
           new == TransitionSchedule(current, call.change, call.at)
<1>1. /\ call.pool \in Pools /\ call.at \in Nat /\ call.change \in Change
      /\ versions \in Seq(Schedule)
  BY MaxSafeAssumption DEF TransitionCall, LedgerInv, LedgerTyped
<1>2. CASE versions = <<>> \/ ~ TransitionAllowed(current, call.change, call.at)
  <2>1. \E value : TransitionApply(state, call) = Reply(state, value)
    BY <1>2 DEF TransitionApply
  <2> QED
    BY <2>1, ReplySound
<1>3. CASE versions # <<>> /\ TransitionAllowed(current, call.change, call.at)
  <2>1. current \in Schedule
    BY <1>1, <1>3
  <2>2. Boundary(current, call.at) \in Nat
    BY <1>1, <2>1, BoundaryTyped
  <2>3. new \in Schedule
    BY <1>1, <2>1, <2>2 DEF TransitionSchedule, Given, Change, Schedule
  <2> HIDE DEF new, current
  <2>4. Append(versions, new) \in Seq(Schedule)
    BY <1>1, <2>3
  <2>5. LedgerInv([state EXCEPT !.schedules[call.pool] = Append(versions, new)])
    BY <1>1, <2>4, SchedulesInv
  <2>6. TransitionApply(state, call) =
          Write(state,
                [state EXCEPT !.schedules[call.pool] = Append(versions, new)],
                [outcome |-> "transitioned"])
    BY <1>3 DEF TransitionApply, new, current
  <2> QED
    BY <2>5, <2>6, ChangeSound DEF LedgerInv
<1> QED
  BY <1>2, <1>3

\* Every operation of the service (ledger.ts, the apply functions given to
\* runTransaction) keeps the ledger typed and within its limits, changes
\* nothing when it replies, and advances the version by one when it writes.
THEOREM ApplySound ==
    ASSUME NEW state, LedgerInv(state), NEW call, Admissible(call)
    PROVE  Sound(state, Apply(state, call))
<1>1. CASE call \in ReserveCall
  BY <1>1, ReserveSound DEF Apply, ReserveCall
<1>2. CASE call \in ConfigureCall
  BY <1>2, ConfigureSound DEF Apply, ConfigureCall
<1>3. CASE call \in TransitionCall
  BY <1>3, TransitionSound DEF Apply, TransitionCall
<1>4. CASE call \in FenceCall
  <2>1. call.kind = "fence"
    BY <1>4 DEF FenceCall
  <2> QED
    BY <2>1, FenceSound, ReplySound DEF Apply
<1>5. CASE call \in ReleaseCall
  <2>1. call.kind = "release"
    BY <1>5 DEF ReleaseCall
  <2> QED
    BY <2>1, ReleaseSound, ReplySound DEF Apply
<1>6. CASE call \in SettleCall
  <2>1. call.kind = "settle" /\ call.usage \in Usage \cup {Undefined}
    BY <1>6 DEF SettleCall
  <2>2. MeteringUsage(call.usage) # Undefined
    BY <2>1, UndefinedIsNoAnswer DEF Admissible, EarlyReturn
  <2>3. call.usage \in Usage
    BY <2>1, <2>2 DEF MeteringUsage
  <2> QED
    BY <2>1, <2>3, SettleSound, ReplySound DEF Apply
<1> QED
  BY <1>1, <1>2, <1>3, <1>4, <1>5, <1>6 DEF Admissible, Calls

-----------------------------------------------------------------------------
(* Totals: Total(amount) is the sum of the amounts.                        *)

\* An interval of n numbers, and the tokens of one key.
LEMMA KeyTokens ==
    ASSUME NEW x, NEW n \in Nat
    PROVE  IsFiniteSet({x} \X (1..n)) /\ Cardinality({x} \X (1..n)) = n
<1>1. IsFiniteSet(1..n) /\ Cardinality(1..n) = IF 1 > n THEN 0 ELSE n - 1 + 1
  <2>1. 1 \in Int /\ n \in Int
    OBVIOUS
  <2> QED
    BY ONLY <2>1, FS_Interval, Zenon
<1>2. IsFiniteSet(1..n) /\ Cardinality(1..n) = n
  BY <1>1
<1>3. IsFiniteSet({x}) /\ Cardinality({x}) = 1
  BY FS_Singleton, Zenon
<1>4. /\ IsFiniteSet({x} \X (1..n))
      /\ Cardinality({x} \X (1..n)) = Cardinality({x}) * Cardinality(1..n)
  BY <1>2, <1>3, FS_Product, Zenon
<1>5. Cardinality({x}) * Cardinality(1..n) = n
  BY <1>2, <1>3
<1> QED
  BY <1>4, <1>5

\* Tokens of finitely many keys are finitely many.
LEMMA TokensFinite ==
    ASSUME NEW amount, IsFiniteSet(DOMAIN amount),
           \A i \in DOMAIN amount : amount[i] \in Nat
    PROVE  IsFiniteSet(Tokens(amount)) /\ Total(amount) \in Nat
<1> DEFINE part == [i \in DOMAIN amount |-> {i} \X (1..amount[i])]
           parts == {{i} \X (1..amount[i]) : i \in DOMAIN amount}
<1>1. part \in Surjection(DOMAIN amount, parts)
  BY DEF Surjection
<1>2. IsFiniteSet(parts)
  BY <1>1, FS_Surjection
<1>3. ASSUME NEW i \in DOMAIN amount
      PROVE  IsFiniteSet({i} \X (1..amount[i]))
  BY KeyTokens
<1>4. \A p \in parts : IsFiniteSet(p)
  BY <1>3
<1> HIDE DEF parts
<1>5. IsFiniteSet(UNION parts)
  BY <1>2, <1>4, FS_UNION
<1>6. IsFiniteSet(Tokens(amount))
  BY <1>5 DEF parts, Tokens
<1> QED
  BY <1>6, FS_CardinalityType DEF Total

\* One key more adds its tokens: Total is the sum.
LEMMA TotalAdd ==
    ASSUME NEW small, NEW large, NEW x, IsFiniteSet(DOMAIN small),
           x \notin DOMAIN small, DOMAIN large = DOMAIN small \cup {x},
           \A i \in DOMAIN small : small[i] \in Nat /\ large[i] = small[i],
           large[x] \in Nat
    PROVE  Total(large) = Total(small) + large[x]
<1> DEFINE more == {x} \X (1..large[x])
<1>1. IsFiniteSet(Tokens(small)) /\ Total(small) \in Nat
  BY TokensFinite
<1>2. IsFiniteSet(more) /\ Cardinality(more) = large[x]
  BY KeyTokens
<1>3. Tokens(large) = Tokens(small) \cup more
  BY DEF Tokens
<1>4. Tokens(small) \cap more = {}
  BY DEF Tokens
<1> HIDE DEF more
<1>5. Cardinality(Tokens(small) \cup more) =
        Cardinality(Tokens(small)) + Cardinality(more)
          - Cardinality(Tokens(small) \cap more)
  BY <1>1, <1>2, FS_Union
<1>6. Cardinality(Tokens(small) \cap more) = 0
  BY <1>4, FS_EmptySet
<1> QED
  BY <1>1, <1>2, <1>3, <1>5, <1>6 DEF Total

LEMMA TotalNone ==
    ASSUME NEW amount, DOMAIN amount = {}
    PROVE  Total(amount) = 0
<1>1. Tokens(amount) = {}
  BY DEF Tokens
<1> QED
  BY <1>1, FS_EmptySet DEF Total

\* What is covered key by key is covered in total.
LEMMA TotalCovered ==
    ASSUME NEW part, NEW one, NEW other,
           IsFiniteSet(DOMAIN one), IsFiniteSet(DOMAIN other),
           \A i \in DOMAIN one : one[i] \in Nat,
           \A i \in DOMAIN other : other[i] \in Nat,
           \A i \in DOMAIN part :
              /\ part[i] \in Nat
              /\ \/ part[i] = 0
                 \/ i \in DOMAIN one /\ part[i] <= one[i]
                 \/ i \in DOMAIN other /\ part[i] <= other[i]
    PROVE  Total(part) <= Total(one) + Total(other)
<1>1. IsFiniteSet(Tokens(one)) /\ IsFiniteSet(Tokens(other))
  BY TokensFinite
<1>2. Tokens(part) \subseteq Tokens(one) \cup Tokens(other)
  <2> SUFFICES ASSUME NEW i \in DOMAIN part, NEW u \in {i} \X (1..part[i])
               PROVE  u \in Tokens(one) \cup Tokens(other)
    BY DEF Tokens
  <2>1. u[2] \in 1..part[i] /\ u[2] >= 1 /\ u[2] <= part[i] /\ part[i] # 0
    OBVIOUS
  <2>2. CASE i \in DOMAIN one /\ part[i] <= one[i]
    <3>1. u \in {i} \X (1..one[i])
      BY <2>1, <2>2
    <3> QED
      BY <3>1, <2>2 DEF Tokens
  <2>3. CASE i \in DOMAIN other /\ part[i] <= other[i]
    <3>1. u \in {i} \X (1..other[i])
      BY <2>1, <2>3
    <3> QED
      BY <3>1, <2>3 DEF Tokens
  <2> QED
    BY <2>1, <2>2, <2>3
<1>3. /\ IsFiniteSet(Tokens(one) \cup Tokens(other))
      /\ Cardinality(Tokens(one) \cup Tokens(other)) =
           Cardinality(Tokens(one)) + Cardinality(Tokens(other))
             - Cardinality(Tokens(one) \cap Tokens(other))
  BY <1>1, FS_Union
<1>4. /\ IsFiniteSet(Tokens(part))
      /\ Cardinality(Tokens(part)) <= Cardinality(Tokens(one) \cup Tokens(other))
  BY <1>2, <1>3, FS_Subset
<1>5. /\ IsFiniteSet(Tokens(one) \cap Tokens(other))
  BY <1>1, FS_Intersection
<1>6. /\ Cardinality(Tokens(one)) \in Nat /\ Cardinality(Tokens(other)) \in Nat
      /\ Cardinality(Tokens(part)) \in Nat
      /\ Cardinality(Tokens(one) \cap Tokens(other)) \in Nat
  BY <1>1, <1>4, <1>5, FS_CardinalityType
<1> QED
  BY <1>3, <1>4, <1>6 DEF Total

-----------------------------------------------------------------------------
(* The accounting identity, operation by operation.                        *)

\* What keeps the identity going: finitely many invocations, each with its
\* row, and a usage for every settled one.
Conserved(state) ==
    /\ IsFiniteSet(DOMAIN state.invocations)
    /\ \A i \in DOMAIN state.invocations :
          /\ RowKey(state.invocations[i]) \in DOMAIN state.epochs
          /\ state.invocations[i].state = "settled"
                => state.invocations[i].usage \in Usage
    /\ Balanced(state)

LEMMA HeldFacts ==
    ASSUME NEW state, NEW k
    PROVE  /\ \A i : i \in DOMAIN HeldIn(state, k) <=>
                       /\ i \in DOMAIN state.invocations
                       /\ RowKey(state.invocations[i]) = k
                       /\ Unresolved(state.invocations[i])
           /\ \A i \in DOMAIN HeldIn(state, k) :
                 HeldIn(state, k)[i] = state.invocations[i].upperBound
BY DEF HeldIn

LEMMA DebitedFacts ==
    ASSUME NEW state, NEW k
    PROVE  /\ \A i : i \in DOMAIN DebitedIn(state, k) <=>
                       /\ i \in DOMAIN state.invocations
                       /\ RowKey(state.invocations[i]) = k
                       /\ state.invocations[i].state = "settled"
           /\ \A i \in DOMAIN DebitedIn(state, k) :
                 DebitedIn(state, k)[i] = UsageTotal(state.invocations[i].usage)
BY DEF DebitedIn

\* The amounts of a row are finitely many numbers.
LEMMA AmountsTyped ==
    ASSUME NEW state, LedgerTyped(state), Conserved(state), NEW k
    PROVE  /\ IsFiniteSet(DOMAIN HeldIn(state, k))
           /\ \A i \in DOMAIN HeldIn(state, k) : HeldIn(state, k)[i] \in Nat
           /\ IsFiniteSet(DOMAIN DebitedIn(state, k))
           /\ \A i \in DOMAIN DebitedIn(state, k) : DebitedIn(state, k)[i] \in Nat
<1>1. /\ DOMAIN HeldIn(state, k) \subseteq DOMAIN state.invocations
      /\ DOMAIN DebitedIn(state, k) \subseteq DOMAIN state.invocations
  BY HeldFacts, DebitedFacts
<1>2. IsFiniteSet(DOMAIN HeldIn(state, k)) /\ IsFiniteSet(DOMAIN DebitedIn(state, k))
  BY <1>1, FS_Subset DEF Conserved
<1>3. \A i \in DOMAIN state.invocations : state.invocations[i].upperBound \in Nat
  BY DEF LedgerTyped, Record
<1>4. \A u \in Usage : UsageTotal(u) \in Nat
  BY DEF Usage, UsageTotal
<1>5. \A i \in DOMAIN HeldIn(state, k) : HeldIn(state, k)[i] \in Nat
  BY <1>1, <1>3, HeldFacts
<1>6. \A i \in DOMAIN DebitedIn(state, k) : DebitedIn(state, k)[i] \in Nat
  BY <1>4, DebitedFacts DEF Conserved
<1> QED
  BY <1>2, <1>5, <1>6

LEMMA SameTotal ==
    ASSUME NEW f, NEW g, DOMAIN f = DOMAIN g, \A i \in DOMAIN f : f[i] = g[i]
    PROVE  Total(f) = Total(g)
<1>1. Tokens(f) = Tokens(g)
  BY DEF Tokens
<1> QED
  BY <1>1 DEF Total

\* Rows whose invocations keep what they account for.
LEMMA RowsSame ==
    ASSUME NEW old, NEW new, NEW k,
           \A i : /\ i \in DOMAIN HeldIn(new, k) <=> i \in DOMAIN HeldIn(old, k)
                  /\ i \in DOMAIN DebitedIn(new, k) <=> i \in DOMAIN DebitedIn(old, k)
                  /\ i \in DOMAIN HeldIn(old, k)
                        => HeldIn(new, k)[i] = HeldIn(old, k)[i]
                  /\ i \in DOMAIN DebitedIn(old, k)
                        => DebitedIn(new, k)[i] = DebitedIn(old, k)[i]
    PROVE  /\ Total(HeldIn(new, k)) = Total(HeldIn(old, k))
           /\ Total(DebitedIn(new, k)) = Total(DebitedIn(old, k))
<1>1. /\ DOMAIN HeldIn(new, k) = DOMAIN HeldIn(old, k)
      /\ DOMAIN DebitedIn(new, k) = DOMAIN DebitedIn(old, k)
  OBVIOUS
<1> QED
  BY <1>1, SameTotal

\* An operation that leaves rows and invocations alone.
LEMMA QuietConserves ==
    ASSUME NEW old, NEW new, Conserved(old),
           new.epochs = old.epochs, new.invocations = old.invocations
    PROVE  Conserved(new)
<1>1. \A k : HeldIn(new, k) = HeldIn(old, k) /\ DebitedIn(new, k) = DebitedIn(old, k)
  BY DEF HeldIn, DebitedIn
<1> QED
  BY <1>1 DEF Conserved, Balanced

\* fence: the invocation stays unresolved, with its bound, in its row.
LEMMA FenceConserves ==
    ASSUME NEW old, Conserved(old), NEW new,
           NEW id \in DOMAIN old.invocations, NEW record,
           new.epochs = old.epochs,
           new.invocations = Put(old.invocations, id, record),
           Unresolved(old.invocations[id]), Unresolved(record),
           RowKey(record) = RowKey(old.invocations[id]),
           record.upperBound = old.invocations[id].upperBound
    PROVE  Conserved(new)
<1>1. /\ DOMAIN new.invocations = DOMAIN old.invocations
      /\ new.invocations[id] = record
      /\ \A i \in DOMAIN old.invocations :
            i # id => new.invocations[i] = old.invocations[i]
  BY DEF Put
<1>2. record.state # "settled" /\ old.invocations[id].state # "settled"
  BY DEF Unresolved
<1>3. ASSUME NEW k
      PROVE  /\ Total(HeldIn(new, k)) = Total(HeldIn(old, k))
             /\ Total(DebitedIn(new, k)) = Total(DebitedIn(old, k))
  <2>1. ASSUME NEW i
        PROVE  /\ i \in DOMAIN HeldIn(new, k) <=> i \in DOMAIN HeldIn(old, k)
               /\ i \in DOMAIN DebitedIn(new, k) <=> i \in DOMAIN DebitedIn(old, k)
               /\ i \in DOMAIN HeldIn(old, k)
                     => HeldIn(new, k)[i] = HeldIn(old, k)[i]
               /\ i \in DOMAIN DebitedIn(old, k)
                     => DebitedIn(new, k)[i] = DebitedIn(old, k)[i]
    <3>1. CASE i = id
      BY <3>1, <1>1, <1>2, HeldFacts, DebitedFacts
    <3>2. CASE i # id
      BY <3>2, <1>1, HeldFacts, DebitedFacts
    <3> QED
      BY <3>1, <3>2
  <2> QED
    BY <2>1, RowsSame
<1>4. Balanced(new)
  BY <1>3 DEF Conserved, Balanced
<1>5. \A i \in DOMAIN new.invocations :
          /\ RowKey(new.invocations[i]) \in DOMAIN new.epochs
          /\ new.invocations[i].state = "settled"
                => new.invocations[i].usage \in Usage
  BY <1>1, <1>2 DEF Conserved
<1> QED
  BY <1>1, <1>4, <1>5 DEF Conserved

\* settle and releaseUndispatched: the bound leaves the held tokens of the
\* row, the usage enters its committed ones.
LEMMA ResolveConserves ==
    ASSUME NEW old, LedgerTyped(old), Conserved(old), NEW new,
           NEW id \in DOMAIN old.invocations, NEW key,
           key = RowKey(old.invocations[id]), key \in DOMAIN old.epochs,
           NEW row, NEW record,
           new.epochs = Put(old.epochs, key, row),
           new.invocations = Put(old.invocations, id, record),
           Unresolved(old.invocations[id]), RowKey(record) = key,
           row.held = old.epochs[key].held - old.invocations[id].upperBound,
           \/ /\ record.state = "settled" /\ record.usage \in Usage
              /\ row.committed = old.epochs[key].committed + UsageTotal(record.usage)
           \/ /\ record.state = "released"
              /\ row.committed = old.epochs[key].committed
    PROVE  Conserved(new)
<1>1. /\ DOMAIN new.invocations = DOMAIN old.invocations
      /\ new.invocations[id] = record
      /\ \A i \in DOMAIN old.invocations :
            i # id => new.invocations[i] = old.invocations[i]
  BY DEF Put
<1>2. /\ DOMAIN new.epochs = DOMAIN old.epochs
      /\ new.epochs[key] = row
      /\ \A k \in DOMAIN old.epochs :
            k # key => new.epochs[k] = old.epochs[k]
  BY DEF Put
<1>3. /\ ~ Unresolved(record) /\ old.invocations[id].state # "settled"
  BY DEF Unresolved
<1>4. \A k \in DOMAIN old.epochs :
          /\ old.epochs[k].held = Total(HeldIn(old, k))
          /\ old.epochs[k].committed = Total(DebitedIn(old, k))
  BY DEF Conserved, Balanced
<1>5. ASSUME NEW k \in DOMAIN new.epochs, k # key
      PROVE  /\ new.epochs[k].held = Total(HeldIn(new, k))
             /\ new.epochs[k].committed = Total(DebitedIn(new, k))
  <2>1. ASSUME NEW i
        PROVE  /\ i \in DOMAIN HeldIn(new, k) <=> i \in DOMAIN HeldIn(old, k)
               /\ i \in DOMAIN DebitedIn(new, k) <=> i \in DOMAIN DebitedIn(old, k)
               /\ i \in DOMAIN HeldIn(old, k)
                     => HeldIn(new, k)[i] = HeldIn(old, k)[i]
               /\ i \in DOMAIN DebitedIn(old, k)
                     => DebitedIn(new, k)[i] = DebitedIn(old, k)[i]
    <3>1. CASE i = id
      BY <3>1, <1>1, <1>5, HeldFacts, DebitedFacts
    <3>2. CASE i # id
      BY <3>2, <1>1, HeldFacts, DebitedFacts
    <3> QED
      BY <3>1, <3>2
  <2>2. /\ Total(HeldIn(new, k)) = Total(HeldIn(old, k))
        /\ Total(DebitedIn(new, k)) = Total(DebitedIn(old, k))
    BY <2>1, RowsSame
  <2> QED
    BY <1>2, <1>4, <1>5, <2>2
<1>6. row.held = Total(HeldIn(new, key))
  <2> DEFINE small == HeldIn(new, key)
             large == HeldIn(old, key)
  <2>1. \A i : i \in DOMAIN small <=> i \in DOMAIN large /\ i # id
    BY <1>1, <1>3, HeldFacts
  <2>2. /\ id \notin DOMAIN small /\ id \in DOMAIN large
        /\ DOMAIN large = DOMAIN small \cup {id}
    <3>1. id \in DOMAIN large
      BY HeldFacts
    <3> HIDE DEF small, large
    <3> QED
      BY <2>1, <3>1
  <2>3. \A i \in DOMAIN small : small[i] = large[i]
    BY <1>1, <2>1, HeldFacts
  <2>4. large[id] = old.invocations[id].upperBound
    BY <2>2, HeldFacts
  <2>5. IsFiniteSet(DOMAIN large) /\ \A i \in DOMAIN large : large[i] \in Nat
    BY AmountsTyped
  <2> HIDE DEF small, large
  <2>6. IsFiniteSet(DOMAIN small)
    BY <2>2, <2>5, FS_Subset
  <2>7. \A i \in DOMAIN small : small[i] \in Nat /\ large[i] = small[i]
    BY <2>2, <2>3, <2>5
  <2>8. Total(large) = Total(small) + large[id] /\ Total(small) \in Nat
    BY <2>2, <2>5, <2>6, <2>7, TotalAdd, TokensFinite
  <2>9. old.epochs[key].held = Total(large) /\ large[id] \in Nat
    BY <1>4, <2>2, <2>5 DEF large
  <2>10. row.held = Total(small)
    BY <2>4, <2>8, <2>9
  <2> QED
    BY <2>10 DEF small
<1>7. row.committed = Total(DebitedIn(new, key))
  <2> DEFINE small == DebitedIn(old, key)
             large == DebitedIn(new, key)
  <2>1. IsFiniteSet(DOMAIN small) /\ \A i \in DOMAIN small : small[i] \in Nat
    BY AmountsTyped
  <2>2. id \notin DOMAIN small
    BY <1>3, DebitedFacts
  <2>3. \A i \in DOMAIN small : i \in DOMAIN large /\ large[i] = small[i]
    BY <1>1, <2>2, DebitedFacts
  <2>4. CASE record.state = "released" /\ row.committed = old.epochs[key].committed
    <3>1. \A i : i \in DOMAIN large => i \in DOMAIN small
      <4> SUFFICES ASSUME NEW i \in DOMAIN large PROVE i \in DOMAIN small
        OBVIOUS
      <4>1. i # id
        BY <1>1, <2>4, DebitedFacts
      <4> QED
        BY <1>1, <4>1, DebitedFacts
    <3>2. DOMAIN large = DOMAIN small
      BY <3>1, <2>3
    <3>3. Total(large) = Total(small)
      BY <3>2, <2>3, SameTotal
    <3> QED
      BY <1>4, <2>4, <3>3
  <2>5. CASE /\ record.state = "settled" /\ record.usage \in Usage
             /\ row.committed = old.epochs[key].committed + UsageTotal(record.usage)
    <3>1. UsageTotal(record.usage) \in Nat
      BY <2>5 DEF Usage, UsageTotal
    <3>2. id \in DOMAIN large /\ large[id] = UsageTotal(record.usage)
      BY <1>1, <2>5, DebitedFacts
    <3>3. \A i : i \in DOMAIN large => i \in DOMAIN small \/ i = id
      BY <1>1, DebitedFacts
    <3>4. DOMAIN large = DOMAIN small \cup {id}
      BY <2>3, <3>2, <3>3
    <3> HIDE DEF small, large
    <3>5. Total(large) = Total(small) + large[id]
      BY <2>1, <2>2, <2>3, <3>1, <3>2, <3>4, TotalAdd
    <3>6. old.epochs[key].committed = Total(small)
      BY <1>4 DEF small
    <3> QED
      BY <2>5, <3>2, <3>5, <3>6 DEF large
  <2> QED
    BY <2>4, <2>5
<1>8. Balanced(new)
  BY <1>2, <1>5, <1>6, <1>7 DEF Balanced
<1>9. \A i \in DOMAIN new.invocations :
          /\ RowKey(new.invocations[i]) \in DOMAIN new.epochs
          /\ new.invocations[i].state = "settled"
                => new.invocations[i].usage \in Usage
  <2> SUFFICES ASSUME NEW i \in DOMAIN new.invocations
               PROVE  /\ RowKey(new.invocations[i]) \in DOMAIN new.epochs
                      /\ new.invocations[i].state = "settled"
                            => new.invocations[i].usage \in Usage
    OBVIOUS
  <2>1. CASE i = id
    BY <1>1, <1>2, <2>1
  <2>2. CASE i # id
    BY <1>1, <1>2, <2>2 DEF Conserved
  <2> QED
    BY <2>1, <2>2
<1> QED
  BY <1>1, <1>8, <1>9 DEF Conserved

\* reserve: a new invocation brings its bound to the held tokens of its row,
\* which may be new as well.
LEMMA AdmitConserves ==
    ASSUME NEW old, LedgerTyped(old), Conserved(old), NEW new,
           NEW id, id \notin DOMAIN old.invocations, NEW key, NEW row, NEW record,
           new.epochs = Put(old.epochs, key, row),
           new.invocations = Put(old.invocations, id, record),
           RowKey(record) = key, record.state = "held",
           record.upperBound \in Nat,
           key \in DOMAIN old.epochs =>
              /\ row.held = old.epochs[key].held + record.upperBound
              /\ row.committed = old.epochs[key].committed,
           key \notin DOMAIN old.epochs =>
              row.held = record.upperBound /\ row.committed = 0
    PROVE  Conserved(new)
<1>1. /\ DOMAIN new.invocations = DOMAIN old.invocations \cup {id}
      /\ new.invocations[id] = record
      /\ \A i \in DOMAIN old.invocations :
            i # id /\ new.invocations[i] = old.invocations[i]
  BY DEF Put
<1>2. /\ DOMAIN new.epochs = DOMAIN old.epochs \cup {key}
      /\ new.epochs[key] = row
      /\ \A k \in DOMAIN old.epochs :
            k # key => new.epochs[k] = old.epochs[k]
  BY DEF Put
<1>3. Unresolved(record) /\ record.state # "settled"
  BY DEF Unresolved
<1>4. \A k \in DOMAIN old.epochs :
          /\ old.epochs[k].held = Total(HeldIn(old, k))
          /\ old.epochs[k].committed = Total(DebitedIn(old, k))
  BY DEF Conserved, Balanced
<1>5. \A k : Total(DebitedIn(new, k)) = Total(DebitedIn(old, k))
  <2> SUFFICES ASSUME NEW k
               PROVE  Total(DebitedIn(new, k)) = Total(DebitedIn(old, k))
    OBVIOUS
  <2>1. \A i : i \in DOMAIN DebitedIn(new, k) <=> i \in DOMAIN DebitedIn(old, k)
    BY <1>1, <1>3, DebitedFacts
  <2>2. DOMAIN DebitedIn(new, k) = DOMAIN DebitedIn(old, k)
    BY <2>1
  <2>3. \A i \in DOMAIN DebitedIn(new, k) : DebitedIn(new, k)[i] = DebitedIn(old, k)[i]
    BY <1>1, <2>1, DebitedFacts
  <2> QED
    BY <2>2, <2>3, SameTotal
<1>6. ASSUME NEW k \in DOMAIN old.epochs, k # key
      PROVE  Total(HeldIn(new, k)) = Total(HeldIn(old, k))
  <2>1. \A i : i \in DOMAIN HeldIn(new, k) <=> i \in DOMAIN HeldIn(old, k)
    BY <1>1, <1>6, HeldFacts
  <2>2. DOMAIN HeldIn(new, k) = DOMAIN HeldIn(old, k)
    BY <2>1
  <2>3. \A i \in DOMAIN HeldIn(new, k) : HeldIn(new, k)[i] = HeldIn(old, k)[i]
    BY <1>1, <2>1, HeldFacts
  <2> QED
    BY <2>2, <2>3, SameTotal
<1>7. /\ Total(HeldIn(new, key)) = Total(HeldIn(old, key)) + record.upperBound
      /\ Total(HeldIn(old, key)) \in Nat
  <2> DEFINE small == HeldIn(old, key)
             large == HeldIn(new, key)
  <2>1. IsFiniteSet(DOMAIN small) /\ \A i \in DOMAIN small : small[i] \in Nat
    BY AmountsTyped
  <2>2. id \notin DOMAIN small
    BY HeldFacts
  <2>3. id \in DOMAIN large /\ large[id] = record.upperBound
    BY <1>1, <1>3, HeldFacts
  <2>4. \A i : i \in DOMAIN large <=> i \in DOMAIN small \/ i = id
    BY <1>1, <2>3, HeldFacts
  <2>5. \A i \in DOMAIN small : large[i] = small[i]
    BY <1>1, <2>4, HeldFacts
  <2>6. DOMAIN large = DOMAIN small \cup {id}
    BY <2>4
  <2> HIDE DEF small, large
  <2>7. Total(large) = Total(small) + large[id] /\ Total(small) \in Nat
    BY <2>1, <2>2, <2>3, <2>5, <2>6, TotalAdd, TokensFinite
  <2> QED
    BY <2>3, <2>7 DEF small, large
<1>8. /\ row.held = Total(HeldIn(new, key))
      /\ row.committed = Total(DebitedIn(new, key))
  <2>1. CASE key \in DOMAIN old.epochs
    BY <1>4, <1>5, <1>7, <2>1
  <2>2. CASE key \notin DOMAIN old.epochs
    <3>1. \A i : i \notin DOMAIN HeldIn(old, key) /\ i \notin DOMAIN DebitedIn(old, key)
      BY <2>2, HeldFacts, DebitedFacts DEF Conserved
    <3>2. DOMAIN HeldIn(old, key) = {} /\ DOMAIN DebitedIn(old, key) = {}
      BY <3>1
    <3>3. Total(HeldIn(old, key)) = 0 /\ Total(DebitedIn(old, key)) = 0
      BY <3>2, TotalNone
    <3> QED
      BY <1>5, <1>7, <2>2, <3>3
  <2> QED
    BY <2>1, <2>2
<1>9. Balanced(new)
  <2> SUFFICES ASSUME NEW k \in DOMAIN new.epochs
               PROVE  /\ new.epochs[k].held = Total(HeldIn(new, k))
                      /\ new.epochs[k].committed = Total(DebitedIn(new, k))
    BY DEF Balanced
  <2>1. CASE k = key
    BY <1>2, <1>8, <2>1
  <2>2. CASE k # key
    BY <1>2, <1>4, <1>5, <1>6, <2>2
  <2> QED
    BY <2>1, <2>2
<1>10. IsFiniteSet(DOMAIN new.invocations)
  BY <1>1, FS_AddElement DEF Conserved
<1>11. \A i \in DOMAIN new.invocations :
          /\ RowKey(new.invocations[i]) \in DOMAIN new.epochs
          /\ new.invocations[i].state = "settled"
                => new.invocations[i].usage \in Usage
  <2> SUFFICES ASSUME NEW i \in DOMAIN new.invocations
               PROVE  /\ RowKey(new.invocations[i]) \in DOMAIN new.epochs
                      /\ new.invocations[i].state = "settled"
                            => new.invocations[i].usage \in Usage
    OBVIOUS
  <2>1. CASE i = id
    BY <1>1, <1>2, <1>3, <2>1
  <2>2. CASE i \in DOMAIN old.invocations
    BY <1>1, <1>2, <2>2 DEF Conserved
  <2> QED
    BY <1>1, <2>1, <2>2
<1> QED
  BY <1>9, <1>10, <1>11 DEF Conserved

\* The empty ledger is balanced.
LEMMA EmptyConserved == Conserved(EmptyLedgerState)
<1>1. DOMAIN EmptyLedgerState.invocations = {} /\ DOMAIN EmptyLedgerState.epochs = {}
  BY DEF EmptyLedgerState
<1> QED
  BY <1>1, FS_EmptySet DEF Conserved, Balanced

-----------------------------------------------------------------------------
(* What one operation may do to rows, invocations and schedules.           *)

\* Each version of a pool begins on the grid of the one before it, and not
\* before any earlier one.
Chained(versions) ==
    /\ \A i \in 1..Len(versions) : \A j \in i..Len(versions) :
          versions[i].anchorMs <= versions[j].anchorMs
    /\ \A i \in 1..Len(versions) : i + 1 <= Len(versions) =>
          \E n \in Nat : versions[i + 1].anchorMs
                            = versions[i].anchorMs + n * versions[i].periodMs

\* An epoch on the grid of one version that ends before the later ones begin.
OnGrid(versions, start, end) ==
    \E i \in 1..Len(versions) :
        /\ \E n \in Nat : start = versions[i].anchorMs + n * versions[i].periodMs
        /\ end = start + versions[i].periodMs
        /\ \A j \in (i + 1)..Len(versions) : end <= versions[j].anchorMs

\* Every pinned epoch of the pool is one of its schedule's.
Charted(state, p) ==
    \A k \in DOMAIN state.epochs :
        k[2] = p => OnGrid(state.schedules[p], k[3], state.epochs[k].end)

\* A step keeps the chain of versions, and the chart of a pool unless it
\* edits the pool too late.
ChartKept(old, new) ==
    \A p \in Pools : Chained(old.schedules[p]) =>
        /\ Chained(new.schedules[p])
        /\ Charted(old, p) /\ p \notin OvertakenBy(old, new) => Charted(new, p)

\* The epochs a step pins belong to the schedules it found.
NewRowsOnGrid(old, new) ==
    \A k \in DOMAIN new.epochs :
        k \notin DOMAIN old.epochs /\ Chained(old.schedules[k[2]])
            => OnGrid(old.schedules[k[2]], k[3], new.epochs[k].end)

Lawful(old, new) ==
    /\ HistoryKept(old, new)
    /\ HoldsLifted(old, new)
    /\ ChartKept(old, new)
    /\ Conserved(old) => Conserved(new)

\* Which invocation an operation may have settled, and with what usage.
SettlesOnly(old, new, id, usage) ==
    \A i \in DOMAIN new.invocations :
        new.invocations[i].state = "settled" =>
            \/ i \in DOMAIN old.invocations /\ new.invocations[i] = old.invocations[i]
            \/ i = id /\ new.invocations[i].usage = usage

SettlesNone(old, new) ==
    \A i \in DOMAIN new.invocations :
        new.invocations[i].state = "settled" =>
            i \in DOMAIN old.invocations /\ new.invocations[i] = old.invocations[i]

\* A step that touches neither rows nor invocations.
LEMMA RowsUntouched ==
    ASSUME NEW old, NEW new, LedgerTyped(old),
           new.epochs = old.epochs, new.invocations = old.invocations
    PROVE  HistoryKept(old, new) /\ HoldsLifted(old, new)
<1>1. \A k \in DOMAIN old.epochs :
          old.epochs[k].committed \in Int /\ old.epochs[k].held \in Int
  BY DEF LedgerTyped, Row
<1>2. HistoryKept(old, new)
  BY <1>1 DEF HistoryKept
<1>3. HoldsLifted(old, new)
  BY <1>1 DEF HoldsLifted
<1> QED
  BY <1>2, <1>3

LEMMA ReplyLawful ==
    ASSUME NEW state, NEW value, LedgerTyped(state)
    PROVE  /\ Lawful(state, Reply(state, value).next)
           /\ SettlesNone(state, Reply(state, value).next)
<1>1. Reply(state, value).next = state
  BY DEF Reply
<1>2. ChartKept(state, state)
  BY DEF ChartKept
<1> QED
  BY <1>1, <1>2, RowsUntouched DEF Lawful, SettlesNone

\* What a write makes of the fields.
LEMMA WriteFields ==
    ASSUME NEW state, NEW changes, NEW value,
           changes = [version |-> changes.version, schedules |-> changes.schedules,
                      epochs |-> changes.epochs, invocations |-> changes.invocations,
                      order |-> changes.order, quarantined |-> changes.quarantined]
    PROVE  /\ Write(state, changes, value).next.epochs = changes.epochs
           /\ Write(state, changes, value).next.invocations = changes.invocations
           /\ Write(state, changes, value).next.schedules = changes.schedules
           /\ Write(state, changes, value).value = value
<1> DEFINE v == state.version + 1
           r == [version |-> changes.version, schedules |-> changes.schedules,
                 epochs |-> changes.epochs, invocations |-> changes.invocations,
                 order |-> changes.order, quarantined |-> changes.quarantined]
<1>1. changes = r
  OBVIOUS
<1>2. Write(state, changes, value).next = [changes EXCEPT !.version = v]
      /\ Write(state, changes, value).value = value
  BY DEF Write
<1>3. [r EXCEPT !.version = v] =
        [version |-> v, schedules |-> changes.schedules,
         epochs |-> changes.epochs, invocations |-> changes.invocations,
         order |-> changes.order, quarantined |-> changes.quarantined]
  OBVIOUS
<1> HIDE DEF r, v
<1>4. [changes EXCEPT !.version = v] =
        [version |-> v, schedules |-> changes.schedules,
         epochs |-> changes.epochs, invocations |-> changes.invocations,
         order |-> changes.order, quarantined |-> changes.quarantined]
  BY <1>1, <1>3
<1> QED
  BY <1>2, <1>4

\* Settling or releasing one unresolved invocation lifts its own hold.
LEMMA ResolveLawful ==
    ASSUME NEW old, LedgerTyped(old), NEW new,
           NEW id \in DOMAIN old.invocations, NEW key,
           key = RowKey(old.invocations[id]), key \in DOMAIN old.epochs,
           NEW row, NEW record,
           new.epochs = Put(old.epochs, key, row),
           new.invocations = Put(old.invocations, id, record),
           row.end = old.epochs[key].end, row.limit = old.epochs[key].limit,
           row.committed >= old.epochs[key].committed,
           row.held = old.epochs[key].held - old.invocations[id].upperBound,
           Unresolved(old.invocations[id]),
           RowKey(record) = key,
           record.upperBound = old.invocations[id].upperBound,
           record.fenced = old.invocations[id].fenced,
           \/ record.state = "settled" /\ record.usage # Undefined
           \/ record.state = "released" /\ ~ old.invocations[id].fenced
    PROVE  HistoryKept(old, new) /\ HoldsLifted(old, new)
<1>1. /\ DOMAIN new.invocations = DOMAIN old.invocations
      /\ new.invocations[id] = record
      /\ \A i \in DOMAIN old.invocations :
            i # id => new.invocations[i] = old.invocations[i]
  BY DEF Put
<1>2. /\ DOMAIN new.epochs = DOMAIN old.epochs
      /\ new.epochs[key] = row
      /\ \A k \in DOMAIN old.epochs :
            k # key => new.epochs[k] = old.epochs[k]
  BY DEF Put
<1>3. /\ \A k \in DOMAIN old.epochs :
            old.epochs[k].committed \in Int /\ old.epochs[k].held \in Int
      /\ old.invocations[id].upperBound \in Int
  BY DEF LedgerTyped, Row, Record
<1>4. HistoryKept(old, new)
  <2>1. ASSUME NEW k \in DOMAIN old.epochs
        PROVE  /\ k \in DOMAIN new.epochs
               /\ new.epochs[k].end = old.epochs[k].end
               /\ new.epochs[k].limit = old.epochs[k].limit
               /\ new.epochs[k].committed >= old.epochs[k].committed
    BY <1>2, <1>3
  <2>2. ASSUME NEW i \in DOMAIN old.invocations
        PROVE  LET was == old.invocations[i]
                   is == new.invocations[i]
               IN  /\ i \in DOMAIN new.invocations
                   /\ RowKey(is) = RowKey(was)
                   /\ is.upperBound = was.upperBound
                   /\ was.fenced => is.fenced
                   /\ was.fenced /\ was.state # "released" => is.state # "released"
                   /\ ~ Unresolved(was) => is = was
    <3>1. CASE i = id
      BY <3>1, <1>1
    <3>2. CASE i # id
      BY <3>2, <1>1
    <3> QED
      BY <3>1, <3>2
  <2> QED
    BY <2>1, <2>2 DEF HistoryKept
<1>5. HoldsLifted(old, new)
  <2> SUFFICES ASSUME NEW k \in DOMAIN old.epochs,
                      new.epochs[k].held < old.epochs[k].held
               PROVE  \E i \in DOMAIN old.invocations :
                        LET was == old.invocations[i]
                            is == new.invocations[i]
                        IN  /\ RowKey(was) = k /\ Unresolved(was)
                            /\ old.epochs[k].held - new.epochs[k].held = was.upperBound
                            /\ \/ is.state = "settled" /\ is.usage # Undefined
                               \/ is.state = "released" /\ ~ was.fenced
    BY DEF HoldsLifted
  <2>1. k = key
    BY <1>2, <1>3
  <2>2. old.epochs[k].held - new.epochs[k].held = old.invocations[id].upperBound
    BY <2>1, <1>2, <1>3
  <2> WITNESS id \in DOMAIN old.invocations
  <2> QED
    BY <2>1, <2>2, <1>1
<1> QED
  BY <1>4, <1>5
\* A write of rows, invocations, order and quarantine.
LEMMA WriteWith ==
    ASSUME NEW state, NEW epochs, NEW invocations, NEW order, NEW quarantined,
           NEW value, NEW next,
           next = Write(state, With(state, epochs, invocations, order, quarantined),
                        value).next
    PROVE  /\ next.epochs = epochs /\ next.invocations = invocations
           /\ next.schedules = state.schedules
<1> DEFINE c == With(state, epochs, invocations, order, quarantined)
<1>1. /\ c.schedules = state.schedules /\ c.epochs = epochs
      /\ c.invocations = invocations
      /\ c = [version |-> c.version, schedules |-> c.schedules,
              epochs |-> c.epochs, invocations |-> c.invocations,
              order |-> c.order, quarantined |-> c.quarantined]
  BY WithFields
<1> HIDE DEF c
<1>2. next = Write(state, c, value).next
  BY DEF c
<1> QED
  BY <1>1, <1>2, WriteFields

LEMMA SameSchedules ==
    ASSUME NEW old, NEW new, HistoryKept(old, new), HoldsLifted(old, new),
           new.schedules = old.schedules, Conserved(old) => Conserved(new),
           NewRowsOnGrid(old, new)
    PROVE  Lawful(old, new)
<1>1. ASSUME NEW p \in Pools, Chained(old.schedules[p]), Charted(old, p)
      PROVE  Charted(new, p)
  <2> SUFFICES ASSUME NEW k \in DOMAIN new.epochs, k[2] = p
               PROVE  OnGrid(new.schedules[p], k[3], new.epochs[k].end)
    BY DEF Charted
  <2>1. CASE k \in DOMAIN old.epochs
    <3>1. new.epochs[k].end = old.epochs[k].end
      BY <2>1 DEF HistoryKept
    <3>2. OnGrid(old.schedules[p], k[3], old.epochs[k].end)
      BY <1>1, <2>1 DEF Charted
    <3> QED
      BY <3>1, <3>2
  <2>2. CASE k \notin DOMAIN old.epochs
    BY <1>1, <2>2 DEF NewRowsOnGrid
  <2> QED
    BY <2>1, <2>2
<1>2. ChartKept(old, new)
  BY <1>1 DEF ChartKept
<1> QED
  BY <1>2 DEF Lawful

LEMMA NoNewRows ==
    ASSUME NEW old, NEW new, DOMAIN new.epochs \subseteq DOMAIN old.epochs
    PROVE  NewRowsOnGrid(old, new)
BY DEF NewRowsOnGrid

\* fence; an invocation it answers as fenced is fenced and not released.
LEMMA FenceLawful ==
    ASSUME NEW state, LedgerTyped(state), NEW id \in DOMAIN state.invocations
    PROVE  LET applied == FenceKnown(state, id)
           IN  /\ Lawful(state, applied.next)
               /\ SettlesNone(state, applied.next)
               /\ applied.value.outcome = "fenced" =>
                    /\ id \in DOMAIN applied.next.invocations
                    /\ applied.next.invocations[id].fenced
                    /\ applied.next.invocations[id].state # "released"
<1> DEFINE record == state.invocations[id]
           fenced == [record EXCEPT !.state = "fenced", !.fenced = TRUE]
           v == Put(state.invocations, id, fenced)
           applied == FenceKnown(state, id)
<1>1. record \in Record
  BY DEF LedgerTyped
<1>2. CASE record.state \in {"settled", "released"}
  <2>1. applied = Reply(state, Unavailable("conflicting-settlement"))
    BY <1>2 DEF FenceKnown
  <2>2. applied.value.outcome = "unavailable"
    BY <2>1 DEF Reply, Unavailable
  <2> QED
    BY <2>1, <2>2, ReplyLawful
<1>3. CASE record.state \notin {"settled", "released"} /\ record.fenced
  <2>1. applied = Reply(state, [outcome |-> "fenced", duplicate |-> TRUE])
    BY <1>3 DEF FenceKnown
  <2>2. applied.next = state
    BY <2>1 DEF Reply
  <2> QED
    BY <1>3, <2>1, <2>2, ReplyLawful
<1>4. CASE record.state \notin {"settled", "released"} /\ ~ record.fenced
  <2>1. /\ RowKey(fenced) = RowKey(record) /\ fenced.upperBound = record.upperBound
        /\ fenced.fenced /\ fenced.state = "fenced"
    BY <1>1 DEF Record, RowKey
  <2>2. Unresolved(record)
    BY <1>1, <1>4 DEF Unresolved, Record, InvocationStates
  <2>3. applied = Write(state, With(state, state.epochs, v, state.order, state.quarantined),
                        [outcome |-> "fenced", duplicate |-> FALSE])
    BY <1>4, ExceptIsWith DEF FenceKnown
  <2> HIDE DEF fenced, applied
  <2>4. /\ applied.next.epochs = state.epochs
        /\ applied.next.invocations = v
        /\ applied.next.schedules = state.schedules
    BY <2>3, WriteWith
  <2>5. /\ DOMAIN v = DOMAIN state.invocations /\ v[id] = fenced
        /\ \A i \in DOMAIN state.invocations : i # id => v[i] = state.invocations[i]
    BY DEF Put
  <2> HIDE DEF v, record
  <2>6. \A k \in DOMAIN state.epochs :
          state.epochs[k].committed \in Int /\ state.epochs[k].held \in Int
    BY DEF LedgerTyped, Row
  <2>7. ASSUME NEW i \in DOMAIN state.invocations
        PROVE  LET was == state.invocations[i]
               IN  /\ i \in DOMAIN v
                   /\ RowKey(v[i]) = RowKey(was)
                   /\ v[i].upperBound = was.upperBound
                   /\ was.fenced => v[i].fenced
                   /\ was.fenced /\ was.state # "released" => v[i].state # "released"
                   /\ ~ Unresolved(was) => v[i] = was
    <3>1. CASE i = id
      BY <3>1, <2>1, <2>2, <2>5 DEF record
    <3>2. CASE i # id
      BY <3>2, <2>5
    <3> QED
      BY <3>1, <3>2
  <2>8. HistoryKept(state, applied.next)
    BY <2>4, <2>6, <2>7 DEF HistoryKept
  <2>9. HoldsLifted(state, applied.next)
    BY <2>4, <2>6 DEF HoldsLifted
  <2>10. Conserved(state) => Conserved(applied.next)
    <3>1. Unresolved(fenced) /\ Unresolved(state.invocations[id])
      BY <2>1, <2>2 DEF Unresolved, record
    <3>2. /\ RowKey(fenced) = RowKey(state.invocations[id])
          /\ fenced.upperBound = state.invocations[id].upperBound
      BY <2>1 DEF record
    <3>3. applied.next.invocations = Put(state.invocations, id, fenced)
      BY <2>4 DEF v
    <3> QED
      BY <2>4, <3>1, <3>2, <3>3, FenceConserves
  <2>11. SettlesNone(state, applied.next)
    BY <2>1, <2>4, <2>5 DEF SettlesNone
  <2>12. NewRowsOnGrid(state, applied.next)
    BY <2>4, NoNewRows
  <2> QED
    BY <2>1, <2>4, <2>5, <2>8, <2>9, <2>10, <2>11, <2>12, SameSchedules DEF applied
<1> QED
  BY <1>2, <1>3, <1>4

\* releaseUndispatched; an invocation it answers as released is released.
LEMMA ReleaseLawful ==
    ASSUME NEW state, LedgerTyped(state), NEW id \in DOMAIN state.invocations
    PROVE  LET applied == ReleaseKnown(state, id)
           IN  /\ Lawful(state, applied.next)
               /\ SettlesNone(state, applied.next)
               /\ applied.value.outcome = "released" =>
                    /\ id \in DOMAIN applied.next.invocations
                    /\ applied.next.invocations[id].state = "released"
<1> DEFINE record == state.invocations[id]
           key == RowKey(record)
           row == state.epochs[key]
           newRow == [row EXCEPT !.held = row.held - record.upperBound]
           newRecord == [record EXCEPT !.state = "released"]
           applied == ReleaseKnown(state, id)
<1>1. record \in Record
  BY DEF LedgerTyped
<1>2. CASE record.state = "released"
  <2>1. applied = Reply(state, [outcome |-> "released", duplicate |-> TRUE])
    BY <1>2 DEF ReleaseKnown
  <2>2. applied.next = state
    BY <2>1 DEF Reply
  <2> QED
    BY <1>2, <2>1, <2>2, ReplyLawful
<1>3. CASE record.state = "settled"
           \/ (record.state # "released" /\ (record.fenced \/ key \notin DOMAIN state.epochs))
  <2>1. PICK value : /\ applied = Reply(state, value)
                     /\ value.outcome \in {"unavailable", "held"}
    BY <1>3 DEF ReleaseKnown, Unavailable
  <2>2. applied.value = value
    BY <2>1 DEF Reply
  <2> QED
    BY <2>1, <2>2, ReplyLawful
<1>4. CASE /\ record.state \notin {"settled", "released"} /\ ~ record.fenced
           /\ key \in DOMAIN state.epochs
  <2>1. /\ RowKey(newRecord) = key /\ newRecord.upperBound = record.upperBound
        /\ newRecord.fenced = record.fenced /\ newRecord.state = "released"
    BY <1>1 DEF Record, RowKey
  <2>2. Unresolved(record)
    BY <1>1, <1>4 DEF Unresolved, Record, InvocationStates
  <2>3. applied = Write(state, With(state, Put(state.epochs, key, newRow),
                                    Put(state.invocations, id, newRecord),
                                    state.order, state.quarantined),
                        [outcome |-> "released", duplicate |-> FALSE])
    BY <1>4, ExceptIsWith DEF ReleaseKnown, LiftHold
  <2>4. row \in Row
    BY <1>4 DEF LedgerTyped
  <2>5. /\ newRow.end = row.end /\ newRow.limit = row.limit
        /\ newRow.committed >= row.committed
        /\ newRow.held = row.held - record.upperBound
        /\ newRow.committed = row.committed
    BY <2>4 DEF Row
  <2> HIDE DEF newRow, newRecord, applied, key
  <2>6. /\ applied.next.epochs = Put(state.epochs, key, newRow)
        /\ applied.next.invocations = Put(state.invocations, id, newRecord)
        /\ applied.next.schedules = state.schedules
    BY <2>3, WriteWith
  <2>7. HistoryKept(state, applied.next) /\ HoldsLifted(state, applied.next)
    BY <1>4, <2>1, <2>2, <2>5, <2>6, ResolveLawful DEF key
  <2>8. id \in DOMAIN applied.next.invocations /\ applied.next.invocations[id] = newRecord
    BY <2>6 DEF Put
  <2>9. Conserved(state) => Conserved(applied.next)
    BY <1>4, <2>1, <2>2, <2>5, <2>6, ResolveConserves DEF key
  <2>10. SettlesNone(state, applied.next)
    BY <2>1, <2>6 DEF SettlesNone, Put
  <2>11. NewRowsOnGrid(state, applied.next)
    <3>1. DOMAIN applied.next.epochs = DOMAIN state.epochs \cup {key}
      BY <2>6 DEF Put
    <3> QED
      BY <1>4, <3>1, NoNewRows
  <2> QED
    BY <2>1, <2>6, <2>7, <2>8, <2>9, <2>10, <2>11, SameSchedules DEF applied
<1> QED
  BY <1>1, <1>2, <1>3, <1>4 DEF Record, InvocationStates
\* settle; an invocation it answers as settled is settled, and breached if it
\* says so.
LEMMA SettleLawful ==
    ASSUME NEW state, LedgerTyped(state), NEW id \in DOMAIN state.invocations,
           NEW usage \in Usage, usage # Undefined
    PROVE  LET applied == SettleKnown(state, id, usage)
           IN  /\ Lawful(state, applied.next)
               /\ SettlesOnly(state, applied.next, id, usage)
               /\ applied.value.outcome = "settled" =>
                    /\ id \in DOMAIN applied.next.invocations
                    /\ applied.next.invocations[id].state = "settled"
                    /\ applied.next.invocations[id].breach = applied.value.breach
<1> DEFINE record == state.invocations[id]
           key == RowKey(record)
           row == state.epochs[key]
           total == UsageTotal(usage)
           breached == total > record.upperBound
           newRow == [row EXCEPT !.committed = row.committed + total,
                                 !.held = row.held - record.upperBound]
           newRecord == [record EXCEPT !.state = "settled", !.usage = usage,
                                       !.breach = breached]
           q == IF breached THEN state.quarantined \cup {record.profile}
                ELSE state.quarantined
           applied == SettleKnown(state, id, usage)
           debits == /\ record.state \notin {"settled", "released"}
                     /\ key \in DOMAIN state.epochs
                     /\ ~ (row.committed + total > MaxSafe)
<1>1. record \in Record
  BY DEF LedgerTyped
<1>2. CASE record.state = "settled" /\ record.usage = usage
  <2>1. applied = Reply(state, Settled(TRUE, record.breach))
    BY <1>2 DEF SettleKnown
  <2>2. applied.next = state /\ applied.value.breach = record.breach
    BY <2>1 DEF Reply, Settled
  <2> QED
    BY <1>2, <2>1, <2>2, ReplyLawful DEF SettlesNone, SettlesOnly
<1>3. CASE ~ debits /\ ~ (record.state = "settled" /\ record.usage = usage)
  <2>1. PICK reason : applied = Reply(state, Unavailable(reason))
    BY <1>3 DEF SettleKnown
  <2>2. applied.value.outcome = "unavailable"
    BY <2>1 DEF Reply, Unavailable
  <2> QED
    BY <2>1, <2>2, ReplyLawful DEF SettlesNone, SettlesOnly
<1>4. CASE debits
  <2>1. /\ RowKey(newRecord) = key /\ newRecord.upperBound = record.upperBound
        /\ newRecord.fenced = record.fenced /\ newRecord.state = "settled"
        /\ newRecord.usage = usage /\ newRecord.breach = breached
    <3> HIDE DEF breached
    <3> QED
      BY <1>1 DEF Record, RowKey
  <2>2. Unresolved(record)
    BY <1>1, <1>4 DEF Unresolved, Record, InvocationStates
  <2>3. row \in Row /\ total \in Nat
    BY <1>4 DEF LedgerTyped, UsageTotal, Usage
  <2>4. /\ newRow.end = row.end /\ newRow.limit = row.limit
        /\ newRow.committed >= row.committed
        /\ newRow.held = row.held - record.upperBound
        /\ newRow.committed = row.committed + total
    <3> HIDE DEF total
    <3>1. row.committed \in Nat
      BY <2>3 DEF Row
    <3>2. newRow.committed = row.committed + total
      BY <2>3 DEF Row
    <3>3. /\ newRow.end = row.end /\ newRow.limit = row.limit
          /\ newRow.held = row.held - record.upperBound
      BY <2>3 DEF Row
    <3> QED
      BY <3>1, <3>2, <3>3, <2>3
  <2>5. applied = Debit(state, id, usage)
    BY <1>4 DEF SettleKnown
  <2>6. applied = Write(state, With(state, Put(state.epochs, key, newRow),
                                    Put(state.invocations, id, newRecord),
                                    state.order, q),
                        Settled(FALSE, breached))
    <3> DEFINE e == Put(state.epochs, key, newRow)
               v == Put(state.invocations, id, newRecord)
    <3>1. Debit(state, id, usage) =
            Write(state, [state EXCEPT !.epochs = e, !.invocations = v,
                                       !.quarantined = q],
                  Settled(FALSE, breached))
      BY DEF Debit
    <3>2. \A x, y, z : [state EXCEPT !.epochs = x, !.invocations = y,
                                     !.quarantined = z]
                         = With(state, x, y, state.order, z)
      BY ExceptWithQuarantine
    <3> HIDE DEF e, v, q
    <3>3. [state EXCEPT !.epochs = e, !.invocations = v, !.quarantined = q]
            = With(state, e, v, state.order, q)
      BY <3>2
    <3> QED
      BY <3>1, <3>3, <2>5 DEF e, v, q
  <2>7. applied.value.breach = breached
    <3> DEFINE changed == With(state, Put(state.epochs, key, newRow),
                               Put(state.invocations, id, newRecord), state.order, q)
    <3>1. applied = Write(state, changed, Settled(FALSE, breached))
      BY <2>6
    <3> HIDE DEF changed, applied, breached
    <3>2. applied.value = Settled(FALSE, breached)
      BY <3>1 DEF Write
    <3> QED
      BY <3>2 DEF Settled
  <2> HIDE DEF newRow, newRecord, applied, key, q, breached
  <2>8. /\ applied.next.epochs = Put(state.epochs, key, newRow)
        /\ applied.next.invocations = Put(state.invocations, id, newRecord)
        /\ applied.next.schedules = state.schedules
    <3> DEFINE e == Put(state.epochs, key, newRow)
               v == Put(state.invocations, id, newRecord)
               value == Settled(FALSE, breached)
    <3>1. applied.next = Write(state, With(state, e, v, state.order, q), value).next
      BY <2>6
    <3> HIDE DEF e, v, value
    <3>2. /\ applied.next.epochs = e /\ applied.next.invocations = v
          /\ applied.next.schedules = state.schedules
      BY <3>1, WriteWith
    <3> QED
      BY <3>2 DEF e, v
  <2>9. HistoryKept(state, applied.next) /\ HoldsLifted(state, applied.next)
    BY <1>4, <2>1, <2>2, <2>4, <2>8, ResolveLawful DEF key
  <2>10. id \in DOMAIN applied.next.invocations /\ applied.next.invocations[id] = newRecord
    BY <2>8 DEF Put
  <2>11. Conserved(state) => Conserved(applied.next)
    <3>1. newRecord.usage \in Usage /\ UsageTotal(newRecord.usage) = total
      BY <2>1
    <3> HIDE DEF total
    <3> QED
      BY <1>4, <2>1, <2>2, <2>4, <2>8, <3>1, ResolveConserves DEF key
  <2>12. SettlesOnly(state, applied.next, id, usage)
    BY <2>1, <2>8 DEF SettlesOnly, Put
  <2>13. NewRowsOnGrid(state, applied.next)
    <3>1. DOMAIN applied.next.epochs = DOMAIN state.epochs \cup {key}
      BY <2>8 DEF Put
    <3> QED
      BY <1>4, <3>1, NoNewRows
  <2> QED
    BY <2>1, <2>7, <2>8, <2>9, <2>10, <2>11, <2>12, <2>13, SameSchedules DEF applied
<1> QED
  BY <1>2, <1>3, <1>4

\* reserve adds an invocation and a hold, and nothing else.
LEMMA AdmitLawful ==
    ASSUME NEW state, LedgerTyped(state), NEW call \in ReserveCall,
           NEW key, NEW row \in Row,
           call.id \notin DOMAIN state.invocations,
           key = <<call.tenant, call.pool, key[3]>>,
           key \in DOMAIN state.epochs => row = state.epochs[key],
           key \notin DOMAIN state.epochs => row.held = 0 /\ row.committed = 0,
           Chained(state.schedules[call.pool]) /\ key \notin DOMAIN state.epochs
               => OnGrid(state.schedules[call.pool], key[3], row.end)
    PROVE  /\ Lawful(state, Admit(state, call, key, row).next)
           /\ SettlesNone(state, Admit(state, call, key, row).next)
<1> DEFINE newRow == [row EXCEPT !.held = row.held + call.upperBound]
           record == NewRecord(call, key, row)
           next == Admit(state, call, key, row).next
<1>1. PICK o : Admit(state, call, key, row) =
        Write(state, With(state, Put(state.epochs, key, newRow),
                          Put(state.invocations, call.id, record),
                          o, state.quarantined),
              Admitted(FALSE))
  <2> DEFINE e == Put(state.epochs, key, newRow)
             v == Put(state.invocations, call.id, record)
             o == Append(state.order, call.id)
  <2>1. Admit(state, call, key, row) =
          Write(state, [state EXCEPT !.epochs = e, !.invocations = v, !.order = o],
                Admitted(FALSE))
    BY DEF Admit
  <2>2. \A x, y, z : [state EXCEPT !.epochs = x, !.invocations = y, !.order = z]
                       = With(state, x, y, z, state.quarantined)
    BY ExceptWithOrder
  <2> HIDE DEF e, v, o
  <2>3. [state EXCEPT !.epochs = e, !.invocations = v, !.order = o]
          = With(state, e, v, o, state.quarantined)
    BY <2>2
  <2> QED
    BY <2>1, <2>3 DEF e, v, o
<1>2. /\ newRow.end = row.end /\ newRow.limit = row.limit
      /\ newRow.committed = row.committed /\ newRow.held = row.held + call.upperBound
  BY DEF Row
<1>3. /\ row.held \in Int /\ row.committed \in Int
      /\ call.upperBound \in Int /\ call.upperBound >= 0
  BY MaxSafeAssumption DEF Row, ReserveCall
<1>10. /\ RowKey(record) = key /\ record.state = "held"
       /\ record.upperBound = call.upperBound
  BY DEF NewRecord, RowKey
<1> HIDE DEF newRow, record, next
<1>4. /\ next.epochs = Put(state.epochs, key, newRow)
      /\ next.invocations = Put(state.invocations, call.id, record)
      /\ next.schedules = state.schedules
  <2> DEFINE e == Put(state.epochs, key, newRow)
             v == Put(state.invocations, call.id, record)
             value == Admitted(FALSE)
  <2>1. next = Write(state, With(state, e, v, o, state.quarantined), value).next
    BY <1>1 DEF next
  <2> HIDE DEF e, v, value
  <2>2. next.epochs = e /\ next.invocations = v /\ next.schedules = state.schedules
    BY <2>1, WriteWith
  <2> QED
    BY <2>2 DEF e, v
<1>5. \A i \in DOMAIN state.invocations :
          i \in DOMAIN next.invocations /\ next.invocations[i] = state.invocations[i]
  BY <1>4 DEF Put
<1>6. \A k \in DOMAIN state.epochs :
          /\ k \in DOMAIN next.epochs
          /\ k = key => next.epochs[k] = newRow
          /\ k # key => next.epochs[k] = state.epochs[k]
  BY <1>4 DEF Put
<1>7. \A k \in DOMAIN state.epochs :
          state.epochs[k].committed \in Int /\ state.epochs[k].held \in Int
  BY DEF LedgerTyped, Row
<1>8. \A k \in DOMAIN state.epochs :
          /\ next.epochs[k].end = state.epochs[k].end
          /\ next.epochs[k].limit = state.epochs[k].limit
          /\ next.epochs[k].committed >= state.epochs[k].committed
          /\ ~ (next.epochs[k].held < state.epochs[k].held)
  BY <1>2, <1>3, <1>6, <1>7
<1>9. HistoryKept(state, next) /\ HoldsLifted(state, next)
  BY <1>5, <1>6, <1>8 DEF HistoryKept, HoldsLifted
<1>11. Conserved(state) => Conserved(next)
  <2>1. record.upperBound \in Nat /\ newRow.held = row.held + record.upperBound
    BY <1>2, <1>3, <1>10
  <2>2. key \notin DOMAIN state.epochs =>
          newRow.held = record.upperBound /\ newRow.committed = 0
    BY <1>2, <1>3, <2>1
  <2> QED
    BY <1>2, <1>4, <1>10, <2>1, <2>2, AdmitConserves
<1>12. SettlesNone(state, next)
  BY <1>4, <1>10 DEF SettlesNone, Put
<1>13. NewRowsOnGrid(state, next)
  <2> SUFFICES ASSUME NEW k \in DOMAIN next.epochs, k \notin DOMAIN state.epochs,
                      Chained(state.schedules[k[2]])
               PROVE  OnGrid(state.schedules[k[2]], k[3], next.epochs[k].end)
    BY DEF NewRowsOnGrid
  <2>1. k = key /\ next.epochs[k] = newRow
    BY <1>4 DEF Put
  <2>2. k[2] = call.pool
    BY <2>1
  <2> QED
    BY <1>2, <2>1, <2>2
<1> QED
  BY <1>4, <1>9, <1>11, <1>12, <1>13, SameSchedules DEF next

LEMMA VersionTyped ==
    ASSUME NEW versions \in Seq(Schedule), NEW i \in 1..Len(versions)
    PROVE  /\ versions[i] \in Schedule
           /\ versions[i].anchorMs \in Nat /\ versions[i].periodMs \in Nat \ {0}
<1>1. versions[i] \in Schedule
  OBVIOUS
<1> QED
  BY <1>1 DEF Schedule

\* The scan of applicableSchedule stops at the first anchor ahead.
LEMMA ReachedIsPrefix ==
    ASSUME NEW versions \in Seq(Schedule), NEW now \in Int,
           HasApplicable(versions, now)
    PROVE  LET m == Cardinality(ReachedVersions(versions, now))
           IN  /\ m \in 1..Len(versions)
               /\ versions[m].anchorMs <= now
               /\ m + 1 <= Len(versions) => now < versions[m + 1].anchorMs
<1> DEFINE R == ReachedVersions(versions, now)
           m == Cardinality(R)
           n == Len(versions)
<1>1. m \in 1..n
  BY ReachedInRange
<1>2. /\ R \subseteq 1..n
      /\ \A i \in R : \A j \in 1..i : j \in R
      /\ \A i \in R : versions[i].anchorMs <= now
  BY DEF ReachedVersions
<1>3. n \in Nat
  OBVIOUS
<1>4. \A i \in 1..n : versions[i].anchorMs \in Nat
  BY VersionTyped
<1>5. \A i \in 1..n : (\A j \in 1..i : versions[j].anchorMs <= now) => i \in R
  BY DEF ReachedVersions
<1> HIDE DEF n, R
<1>6. IsFiniteSet(1..n)
  BY <1>3, FS_Interval
<1>7. IsFiniteSet(R)
  BY <1>2, <1>6, FS_Subset
<1>8. \A k \in Nat : IsFiniteSet(1..k) /\ Cardinality(1..k) = k
  <2> TAKE k \in Nat
  <2>1. IsFiniteSet(1..k) /\ Cardinality(1..k) = IF 1 > k THEN 0 ELSE k - 1 + 1
    BY FS_Interval
  <2> QED
    BY <2>1
<1>9. m \in R
  <2> SUFFICES ASSUME m \notin R PROVE FALSE
    OBVIOUS
  <2>1. \A i \in R : i < m
    BY <1>1, <1>2
  <2>2. R \subseteq 1..(m - 1) /\ m - 1 \in Nat
    BY <1>1, <1>2, <2>1
  <2>3. Cardinality(R) <= Cardinality(1..(m - 1)) /\ Cardinality(1..(m - 1)) = m - 1
    BY <1>8, <2>2, FS_Subset
  <2> QED
    BY <1>1, <2>3
<1>10. m + 1 \notin R
  <2> SUFFICES ASSUME m + 1 \in R PROVE FALSE
    OBVIOUS
  <2>1. 1..(m + 1) \subseteq R /\ m + 1 \in Nat
    BY <1>1, <1>2
  <2>2. Cardinality(1..(m + 1)) <= Cardinality(R) /\ Cardinality(1..(m + 1)) = m + 1
    BY <1>7, <1>8, <2>1, FS_Subset
  <2> QED
    BY <1>1, <2>2
<1>11. m + 1 <= n => now < versions[m + 1].anchorMs
  <2> SUFFICES ASSUME m + 1 <= n, ~ (now < versions[m + 1].anchorMs) PROVE FALSE
    OBVIOUS
  <2> HIDE DEF m
  <2>1. m + 1 \in 1..n /\ versions[m + 1].anchorMs <= now
    BY <1>1, <1>3, <1>4
  <2>2. \A j \in 1..(m + 1) : j = m + 1 \/ j \in 1..m
    BY <1>1
  <2>3. \A j \in 1..(m + 1) : versions[j].anchorMs <= now
    BY <1>2, <1>9, <2>1, <2>2
  <2> QED
    BY <1>5, <1>10, <2>1, <2>3
<1> QED
  BY <1>1, <1>2, <1>9, <1>11 DEF R, n

\* Multiples of a period: the next one after a smaller one.
LEMMA NextMultiple ==
    ASSUME NEW m \in Nat, NEW n \in Nat, NEW p \in Nat \ {0}, m * p < n * p
    PROVE  m * p + p <= n * p
<1>1. \A x, y \in Nat : \A z \in Nat : x >= y => x * z >= y * z
  OBVIOUS
<1>2. m + 1 <= n
  <2>1. ~ (m >= n)
    BY <1>1
  <2> QED
    BY <2>1
<1>3. (m + 1) * p <= n * p
  BY <1>1, <1>2
<1>4. \A k, q \in Nat : k * q + q = (k + 1) * q
  OBVIOUS
<1> QED
  BY <1>3, <1>4

\* Two epochs of a chained schedule do not overlap.
LEMMA GridApart ==
    ASSUME NEW versions \in Seq(Schedule), Chained(versions),
           NEW start1 \in Int, NEW end1 \in Int, OnGrid(versions, start1, end1),
           NEW start2 \in Int, NEW end2 \in Int, OnGrid(versions, start2, end2),
           start1 < start2
    PROVE  end1 <= start2
<1>1. PICK i \in 1..Len(versions) :
        /\ \E n \in Nat : start1 = versions[i].anchorMs + n * versions[i].periodMs
        /\ end1 = start1 + versions[i].periodMs
        /\ \A l \in (i + 1)..Len(versions) : end1 <= versions[l].anchorMs
  BY DEF OnGrid
<1>2. PICK j \in 1..Len(versions) :
        /\ \E n \in Nat : start2 = versions[j].anchorMs + n * versions[j].periodMs
        /\ end2 = start2 + versions[j].periodMs
        /\ \A l \in (j + 1)..Len(versions) : end2 <= versions[l].anchorMs
  BY DEF OnGrid
<1>3. PICK m \in Nat : start1 = versions[i].anchorMs + m * versions[i].periodMs
  BY <1>1
<1>4. PICK n \in Nat : start2 = versions[j].anchorMs + n * versions[j].periodMs
  BY <1>2
<1>5. /\ versions[i].anchorMs \in Nat /\ versions[i].periodMs \in Nat \ {0}
      /\ versions[j].anchorMs \in Nat /\ versions[j].periodMs \in Nat \ {0}
  BY VersionTyped
<1> DEFINE a == versions[i].anchorMs
           p == versions[i].periodMs
           b == versions[j].anchorMs
           q == versions[j].periodMs
           x == m * p
           y == n * q
<1>6. x \in Nat /\ y \in Nat
  <2>1. \A u, v \in Nat : u * v \in Nat
    OBVIOUS
  <2> QED
    BY <1>5, <2>1
<1>7. /\ start1 = a + x /\ end1 = start1 + p /\ start2 = b + y /\ end2 = start2 + q
      /\ a \in Nat /\ p \in Nat \ {0} /\ b \in Nat /\ q \in Nat \ {0}
  BY <1>1, <1>2, <1>3, <1>4, <1>5
<1>8. i < j => end1 <= b
  BY <1>1
<1>9. j < i => end2 <= a
  BY <1>2
<1>10. i = j => a = b /\ p = q
  OBVIOUS
<1>11. i = j /\ x < y => x + p <= y
  BY <1>5, NextMultiple
<1> HIDE DEF a, b, p, q, x, y
<1>12. CASE i < j
  BY <1>6, <1>7, <1>8, <1>12
<1>13. CASE j < i
  BY <1>6, <1>7, <1>9, <1>13
<1>14. CASE i = j
  BY <1>6, <1>7, <1>10, <1>11, <1>14
<1> QED
  BY <1>12, <1>13, <1>14

LEMMA ChartedApart ==
    ASSUME NEW state, LedgerTyped(state), NEW p \in Pools,
           Chained(state.schedules[p]), Charted(state, p)
    PROVE  EpochsApart(state, p)
<1> SUFFICES ASSUME NEW k \in DOMAIN state.epochs, NEW l \in DOMAIN state.epochs,
                    k[2] = p, l[2] = p, k[3] < l[3]
             PROVE  state.epochs[k].end <= l[3]
  BY DEF EpochsApart
<1>1. state.schedules[p] \in Seq(Schedule)
  BY DEF LedgerTyped
<1>2. /\ k[3] \in Int /\ state.epochs[k].end \in Int
      /\ l[3] \in Int /\ state.epochs[l].end \in Int
  BY DEF LedgerTyped, EpochKeys, Row
<1>3. /\ OnGrid(state.schedules[p], k[3], state.epochs[k].end)
      /\ OnGrid(state.schedules[p], l[3], state.epochs[l].end)
  BY DEF Charted
<1> QED
  BY <1>1, <1>2, <1>3, GridApart

\* The epoch of an admission is one of the pool's schedule.
LEMMA AdmissionOnGrid ==
    ASSUME NEW versions \in Seq(Schedule), NEW now \in Int,
           HasApplicable(versions, now), Chained(versions)
    PROVE  LET s == ApplicableSchedule(versions, now)
           IN  OnGrid(versions, EpochStart(s, now), EpochEnd(s, now))
<1> DEFINE m == Cardinality(ReachedVersions(versions, now))
           s == versions[m]
           n == (now - s.anchorMs) \div s.periodMs
           start == s.anchorMs + n * s.periodMs
           end == start + s.periodMs
<1>1. /\ m \in 1..Len(versions)
      /\ s.anchorMs <= now
      /\ m + 1 <= Len(versions) => now < versions[m + 1].anchorMs
  BY ReachedIsPrefix
<1>2. s \in Schedule /\ s = ApplicableSchedule(versions, now)
  BY <1>1 DEF ApplicableSchedule
<1>3. EpochStart(s, now) = start /\ EpochEnd(s, now) = end
  BY DEF EpochStart, EpochEnd
<1> HIDE DEF m, s
<1>4. s.anchorMs \in Nat /\ s.periodMs \in Nat \ {0} /\ now - s.anchorMs \in Nat
  BY <1>1, <1>2 DEF Schedule
<1>5. n \in Nat /\ n * s.periodMs \in Nat /\ n * s.periodMs <= now - s.anchorMs
  <2>1. \A x \in Nat : \A p \in Nat \ {0} :
          x \div p \in Nat /\ (x \div p) * p \in Nat /\ (x \div p) * p <= x
    BY SMTT(30)
  <2> QED
    BY <1>4, <2>1
<1> HIDE DEF n
<1>6. ASSUME m + 1 <= Len(versions)
      PROVE  end <= versions[m + 1].anchorMs
  <2>1. PICK q \in Nat : versions[m + 1].anchorMs = s.anchorMs + q * s.periodMs
    BY <1>1, <1>6 DEF Chained, s
  <2>2. now < versions[m + 1].anchorMs
    BY <1>1, <1>6
  <2>3. q * s.periodMs \in Nat
    BY <1>4
  <2>4. n * s.periodMs < q * s.periodMs
    BY <1>4, <1>5, <2>1, <2>2, <2>3
  <2>5. n * s.periodMs + s.periodMs <= q * s.periodMs
    BY <1>4, <1>5, <2>1, <2>4, NextMultiple
  <2> DEFINE x == n * s.periodMs
             y == q * s.periodMs
  <2>6. x \in Nat /\ y \in Nat /\ x + s.periodMs <= y
    BY <1>5, <2>3, <2>5
  <2> HIDE DEF x, y
  <2>7. s.anchorMs + x + s.periodMs <= s.anchorMs + y
    BY <1>4, <2>6
  <2> QED
    BY <2>1, <2>7 DEF x, y
<1>7. ASSUME NEW j \in (m + 1)..Len(versions)
      PROVE  end <= versions[j].anchorMs
  <2>1. m + 1 <= Len(versions) /\ m + 1 \in 1..Len(versions) /\ j \in 1..Len(versions)
    BY <1>1, <1>7
  <2>2. versions[m + 1].anchorMs <= versions[j].anchorMs
    BY <2>1 DEF Chained
  <2>3. versions[m + 1].anchorMs \in Nat /\ versions[j].anchorMs \in Nat
    BY <2>1, VersionTyped
  <2>4. end \in Nat
    <3> DEFINE x == n * s.periodMs
    <3>1. x \in Nat
      BY <1>5
    <3> HIDE DEF x
    <3>2. s.anchorMs + x + s.periodMs \in Nat
      BY <1>4, <3>1
    <3> QED
      BY <3>2 DEF x
  <2> HIDE DEF end
  <2> QED
    BY <1>6, <2>1, <2>2, <2>3, <2>4
<1>8. OnGrid(versions, start, end)
  <2> HIDE DEF start
  <2>1. \E k \in Nat : start = versions[m].anchorMs + k * versions[m].periodMs
    BY <1>5 DEF start, s
  <2>2. end = start + versions[m].periodMs
    BY DEF s
  <2> HIDE DEF end
  <2> QED
    BY <1>1, <1>7, <2>1, <2>2 DEF OnGrid
<1> QED
  BY <1>2, <1>3, <1>8

LEMMA ReserveLawful ==
    ASSUME NEW state, LedgerTyped(state), NEW call \in ReserveCall
    PROVE  /\ Lawful(state, ReserveApply(state, call).next)
           /\ SettlesNone(state, ReserveApply(state, call).next)
<1> DEFINE versions == state.schedules[call.pool]
           schedule == ApplicableSchedule(versions, call.at)
           start == EpochStart(schedule, call.at)
           key == <<call.tenant, call.pool, start>>
           row == EpochRowFor(state, key, schedule, call.at)
           admits == /\ HasApplicable(versions, call.at)
                     /\ ~ (EpochEnd(schedule, call.at) > MaxSafe)
                     /\ call.id \notin DOMAIN state.invocations
                     /\ call.profile \notin state.quarantined
                     /\ Fits(row.limit, row.committed, row.held,
                             call.upperBound)
<1>1. CASE ~ admits
  <2>1. \E value : ReserveApply(state, call) = Reply(state, value)
    BY <1>1 DEF ReserveApply
  <2> QED
    BY <2>1, ReplyLawful
<1>2. CASE admits
  <2>1. versions \in Seq(Schedule) /\ call.at \in Int
    BY MaxSafeAssumption DEF LedgerTyped, ReserveCall
  <2>2. schedule \in Schedule
    BY <1>2, <2>1, ApplicableInRange
  <2>3. EpochEnd(schedule, call.at) \in Int
    BY <2>1, <2>2, EpochBoundsTyped
  <2>4. row \in Row
    BY <2>2, <2>3 DEF EpochRowFor, LedgerTyped, Row, Schedule
  <2>5. key \in DOMAIN state.epochs => row = state.epochs[key]
    BY DEF EpochRowFor
  <2>6. ReserveApply(state, call) = Admit(state, call, key, row)
    BY <1>2 DEF ReserveApply
  <2>7. /\ key = <<call.tenant, call.pool, key[3]>>
        /\ key \notin DOMAIN state.epochs => row.held = 0 /\ row.committed = 0
    BY DEF EpochRowFor
  <2>8. Chained(versions) /\ key \notin DOMAIN state.epochs
          => OnGrid(versions, start, row.end)
    <3>1. key \notin DOMAIN state.epochs => row.end = EpochEnd(schedule, call.at)
      BY DEF EpochRowFor
    <3>2. Chained(versions) => OnGrid(versions, start, EpochEnd(schedule, call.at))
      BY <1>2, <2>1, AdmissionOnGrid
    <3> QED
      BY <3>1, <3>2
  <2>9. key[3] = start
    OBVIOUS
  <2> HIDE DEF row, key
  <2> QED
    BY <1>2, <2>4, <2>5, <2>6, <2>7, <2>8, <2>9, AdmitLawful
<1> QED
  BY <1>1, <1>2

\* New versions of a pool: chained if the old were, and with the same epochs
\* before the last anchor.
Follows(old, new) ==
    /\ Chained(old) => Chained(new)
    /\ \A start, end \in Int :
          /\ OnGrid(old, start, end)
          /\ old # <<>> /\ new # old => end <= new[Len(new)].anchorMs
          => OnGrid(new, start, end)

\* A write of the schedules of one pool.
LEMMA SchedulesLawful ==
    ASSUME NEW state, LedgerTyped(state), NEW pool \in Pools,
           NEW versions \in Seq(Schedule), NEW value, versions # <<>>,
           Follows(state.schedules[pool], versions)
    PROVE  LET next == Write(state, [state EXCEPT !.schedules[pool] = versions],
                             value).next
           IN  Lawful(state, next) /\ SettlesNone(state, next)
<1> DEFINE table == [state.schedules EXCEPT ![pool] = versions]
           s == [state EXCEPT !.schedules[pool] = versions]
           next == Write(state, s, value).next
<1>1. s = [state EXCEPT !.schedules = table]
  BY DEF LedgerTyped
<1>2. state = [version |-> state.version, schedules |-> state.schedules,
               epochs |-> state.epochs, invocations |-> state.invocations,
               order |-> state.order, quarantined |-> state.quarantined]
  BY DEF LedgerTyped
<1>3. \A p \in Pools : table[p] = IF p = pool THEN versions ELSE state.schedules[p]
  BY DEF LedgerTyped
<1> HIDE DEF table
<1>4. s = [version |-> state.version, schedules |-> table,
           epochs |-> state.epochs, invocations |-> state.invocations,
           order |-> state.order, quarantined |-> state.quarantined]
  BY <1>1, <1>2
<1> HIDE DEF s
<1>5. /\ s.schedules = table /\ s.epochs = state.epochs
      /\ s.invocations = state.invocations
      /\ s = [version |-> s.version, schedules |-> s.schedules,
              epochs |-> s.epochs, invocations |-> s.invocations,
              order |-> s.order, quarantined |-> s.quarantined]
  BY <1>4
<1>6. /\ next.schedules = table /\ next.epochs = state.epochs
      /\ next.invocations = state.invocations
  BY <1>5, WriteFields
<1> HIDE DEF next
<1>7. HistoryKept(state, next) /\ HoldsLifted(state, next)
  BY <1>6, RowsUntouched
<1>8. ChartKept(state, next)
  <2> SUFFICES ASSUME NEW p \in Pools, Chained(state.schedules[p])
               PROVE  /\ Chained(next.schedules[p])
                      /\ Charted(state, p) /\ p \notin OvertakenBy(state, next)
                            => Charted(next, p)
    BY DEF ChartKept
  <2>1. CASE p # pool
    <3>1. next.schedules[p] = state.schedules[p]
      BY <1>3, <1>6, <2>1
    <3> QED
      BY <1>6, <3>1 DEF Charted
  <2>2. CASE p = pool
    <3>1. next.schedules[p] = versions
      BY <1>3, <1>6, <2>2
    <3>2. Chained(next.schedules[p])
      BY <2>2, <3>1 DEF Follows
    <3>3. ASSUME Charted(state, p), p \notin OvertakenBy(state, next),
                 NEW k \in DOMAIN next.epochs, k[2] = p
          PROVE  OnGrid(next.schedules[p], k[3], next.epochs[k].end)
      <4>1. k \in DOMAIN state.epochs /\ next.epochs[k] = state.epochs[k]
        BY <1>6
      <4>2. k[3] \in Int /\ state.epochs[k].end \in Int
        BY <4>1 DEF LedgerTyped, EpochKeys, Row
      <4>3. versions[Len(versions)].anchorMs \in Nat
        <5>1. Len(versions) \in 1..Len(versions)
          OBVIOUS
        <5> QED
          BY <5>1, VersionTyped
      <4>4. OnGrid(state.schedules[p], k[3], state.epochs[k].end)
        BY <3>3, <4>1 DEF Charted
      <4>5. state.schedules[p] # <<>> /\ versions # state.schedules[p]
              => state.epochs[k].end <= versions[Len(versions)].anchorMs
        BY <3>1, <3>3, <4>1, <4>2, <4>3 DEF OvertakenBy
      <4>6. OnGrid(versions, k[3], state.epochs[k].end)
        BY <2>2, <4>2, <4>4, <4>5 DEF Follows
      <4> QED
        BY <3>1, <4>1, <4>6
    <3> QED
      BY <3>2, <3>3 DEF Charted
  <2> QED
    BY <2>1, <2>2
<1>9. Conserved(state) => Conserved(next)
  BY <1>6, QuietConserves
<1>10. SettlesNone(state, next)
  BY <1>6 DEF SettlesNone
<1> QED
  BY <1>7, <1>8, <1>9, <1>10 DEF Lawful, next, s

\* configurePool gives a schedule to a pool that has none.
LEMMA ConfigureLawful ==
    ASSUME NEW state, LedgerTyped(state), NEW call \in ConfigureCall
    PROVE  /\ Lawful(state, ConfigureApply(state, call).next)
           /\ SettlesNone(state, ConfigureApply(state, call).next)
<1>1. CASE state.schedules[call.pool] # <<>>
  BY <1>1, ReplyLawful DEF ConfigureApply
<1>2. CASE state.schedules[call.pool] = <<>>
  <2>1. call.pool \in Pools /\ <<call.schedule>> \in Seq(Schedule)
    BY DEF ConfigureCall
  <2>2. Follows(state.schedules[call.pool], <<call.schedule>>)
    <3>1. \A start, end : ~ OnGrid(<<>>, start, end)
      BY DEF OnGrid
    <3>2. Chained(<<call.schedule>>)
      <4>1. call.schedule.anchorMs \in Nat
        BY DEF ConfigureCall, Schedule
      <4>2. /\ Len(<<call.schedule>>) = 1 /\ <<call.schedule>>[1] = call.schedule
            /\ \A i \in 1..1 : i = 1 /\ \A j \in i..1 : j = 1
        OBVIOUS
      <4> QED
        BY <4>1, <4>2 DEF Chained
    <3> QED
      BY <1>2, <3>1, <3>2 DEF Follows
  <2> QED
    BY <1>2, <2>1, <2>2, SchedulesLawful DEF ConfigureApply
<1> QED
  BY <1>1, <1>2

\* The first boundary not in the past lies on the grid of its schedule.
LEMMA BoundaryOnGrid ==
    ASSUME NEW s \in Schedule, NEW now \in Nat
    PROVE  /\ Boundary(s, now) >= s.anchorMs
           /\ (Boundary(s, now) - s.anchorMs) % s.periodMs = 0
<1> DEFINE gap == now - s.anchorMs
           n == gap \div s.periodMs
<1>1. s.anchorMs \in Nat /\ s.periodMs \in Nat /\ s.periodMs > 0
  BY DEF Schedule
<1>2. CASE now < s.anchorMs
  BY <1>1, <1>2 DEF Boundary
<1>3. CASE ~ (now < s.anchorMs) /\ (now - s.anchorMs) % s.periodMs = 0
  BY <1>1, <1>3 DEF Boundary
<1>4. CASE ~ (now < s.anchorMs) /\ ~ ((now - s.anchorMs) % s.periodMs = 0)
  <2>1. gap \in Nat
    BY <1>1, <1>4
  <2> HIDE DEF gap
  <2>2. n \in Nat
    BY <1>1, <2>1
  <2>3. Boundary(s, now) = s.anchorMs + n * s.periodMs + s.periodMs
    BY <1>4 DEF Boundary, EpochEnd, EpochStart, n, gap
  <2> HIDE DEF n
  <2>4. n * s.periodMs \in Nat /\ n * s.periodMs + s.periodMs = (n + 1) * s.periodMs
    <3>1. \A k, m \in Nat : k * m \in Nat
      OBVIOUS
    <3>2. \A k, m \in Nat : k * m + m = (k + 1) * m
      OBVIOUS
    <3> QED
      BY <1>1, <2>2, <3>1, <3>2
  <2>5. \A k, m \in Nat : m > 0 => (k * m) % m = 0
    OBVIOUS
  <2>6. ((n + 1) * s.periodMs) % s.periodMs = 0
    BY <1>1, <2>2, <2>5, SMTT(30)
  <2>7. Boundary(s, now) - s.anchorMs = (n + 1) * s.periodMs
    BY <1>1, <2>3, <2>4
  <2> QED
    BY <1>1, <2>3, <2>4, <2>6, <2>7
<1> QED
  BY <1>2, <1>3, <1>4

\* A version added on the grid of the last one, and not before it.
LEMMA AppendFollows ==
    ASSUME NEW versions \in Seq(Schedule), versions # <<>>, NEW x \in Schedule,
           NEW n \in Nat,
           LET last == versions[Len(versions)]
           IN  x.anchorMs = last.anchorMs + n * last.periodMs
    PROVE  Follows(versions, Append(versions, x))
<1> DEFINE len == Len(versions)
           new == Append(versions, x)
           last == versions[len]
<1>1. /\ len \in Nat /\ len >= 1 /\ Len(new) = len + 1 /\ new[len + 1] = x
      /\ \A i \in 1..len : new[i] = versions[i]
  OBVIOUS
<1>2. \A i \in 1..len : versions[i].anchorMs \in Nat
  BY VersionTyped
<1>3. x.anchorMs \in Nat /\ last.anchorMs \in Nat /\ last.periodMs \in Nat
  <2>1. x.anchorMs \in Nat
    BY DEF Schedule
  <2>2. len \in 1..len
    BY <1>1
  <2> QED
    BY <2>1, <2>2, VersionTyped
<1>4. last.anchorMs <= x.anchorMs /\ x.anchorMs = last.anchorMs + n * last.periodMs
  <2>1. \A a, b \in Nat : a * b \in Nat
    OBVIOUS
  <2>2. n * last.periodMs \in Nat
    BY <1>3, <2>1
  <2> QED
    BY <1>3, <2>2
<1> HIDE DEF len, new
<1>5. ASSUME Chained(versions) PROVE Chained(new)
  <2>1. ASSUME NEW i \in 1..(len + 1), NEW j \in i..(len + 1)
        PROVE  new[i].anchorMs <= new[j].anchorMs
    <3>1. CASE j \in 1..len
      <4>1. i \in 1..len /\ j \in i..len
        BY <1>1, <3>1
      <4> QED
        BY <1>1, <1>5, <4>1 DEF Chained, len
    <3>2. CASE j = len + 1 /\ i \in 1..len
      <4>1. versions[i].anchorMs <= last.anchorMs
        BY <1>1, <1>5, <3>2 DEF Chained, len
      <4>2. new[i] = versions[i] /\ new[j] = x
        BY <1>1, <3>2
      <4>3. versions[i].anchorMs \in Nat
        BY <1>2, <3>2
      <4> HIDE DEF last
      <4> QED
        BY <1>3, <1>4, <4>1, <4>2, <4>3
    <3>3. CASE i = len + 1 /\ j = len + 1
      BY <1>1, <1>3, <3>3
    <3> QED
      BY <1>1, <3>1, <3>2, <3>3
  <2>2. ASSUME NEW i \in 1..(len + 1), i + 1 <= len + 1
        PROVE  \E q \in Nat : new[i + 1].anchorMs
                                = new[i].anchorMs + q * new[i].periodMs
    <3>1. i \in 1..len /\ new[i] = versions[i]
      BY <1>1, <2>2
    <3>2. CASE i = len
      <4>1. new[i + 1] = x /\ new[i] = last
        BY <1>1, <3>1, <3>2
      <4> HIDE DEF last
      <4> QED
        BY <1>4, <4>1
    <3>3. CASE i # len
      <4>1. i + 1 <= len /\ i + 1 \in 1..len
        BY <1>1, <3>1, <3>3
      <4>2. new[i + 1] = versions[i + 1]
        BY <1>1, <4>1
      <4> QED
        BY <1>5, <3>1, <4>1, <4>2 DEF Chained, len
    <3> QED
      BY <3>2, <3>3
  <2> QED
    BY <1>1, <2>1, <2>2 DEF Chained
<1>6. ASSUME NEW start \in Int, NEW end \in Int, OnGrid(versions, start, end),
             end <= x.anchorMs
      PROVE  OnGrid(new, start, end)
  <2>1. PICK i \in 1..len :
          /\ \E q \in Nat : start = versions[i].anchorMs + q * versions[i].periodMs
          /\ end = start + versions[i].periodMs
          /\ \A j \in (i + 1)..len : end <= versions[j].anchorMs
    BY <1>6 DEF OnGrid, len
  <2>2. i \in 1..(len + 1) /\ new[i] = versions[i]
    BY <1>1
  <2>3. ASSUME NEW j \in (i + 1)..(len + 1) PROVE end <= new[j].anchorMs
    <3>1. CASE j = len + 1
      BY <1>1, <1>6, <3>1
    <3>2. CASE j # len + 1
      <4>1. j \in (i + 1)..len /\ j \in 1..len
        BY <1>1, <3>2
      <4> QED
        BY <1>1, <2>1, <4>1
    <3> QED
      BY <3>1, <3>2
  <2> QED
    BY <1>1, <2>1, <2>2, <2>3 DEF OnGrid
<1>7. new # versions /\ new[Len(new)] = x
  BY <1>1 DEF len
<1> QED
  BY <1>5, <1>6, <1>7 DEF Follows, new

\* transitionPool adds a version that begins at a boundary of the last one.
LEMMA TransitionLawful ==
    ASSUME NEW state, LedgerTyped(state), NEW call \in TransitionCall
    PROVE  /\ Lawful(state, TransitionApply(state, call).next)
           /\ SettlesNone(state, TransitionApply(state, call).next)
<1> DEFINE versions == state.schedules[call.pool]
           current == versions[Len(versions)]
           new == TransitionSchedule(current, call.change, call.at)
<1>1. /\ call.pool \in Pools /\ call.at \in Nat /\ call.change \in Change
      /\ versions \in Seq(Schedule)
  BY MaxSafeAssumption DEF TransitionCall, LedgerTyped
<1>2. CASE versions = <<>> \/ ~ TransitionAllowed(current, call.change, call.at)
  <2>1. \E value : TransitionApply(state, call) = Reply(state, value)
    BY <1>2 DEF TransitionApply
  <2> QED
    BY <2>1, ReplyLawful
<1>3. CASE versions # <<>> /\ TransitionAllowed(current, call.change, call.at)
  <2>1. current \in Schedule
    BY <1>1, <1>3
  <2>2. Boundary(current, call.at) \in Nat
    BY <1>1, <2>1, BoundaryTyped
  <2>3. new \in Schedule
    BY <1>1, <2>1, <2>2 DEF TransitionSchedule, Given, Change, Schedule
  <2>4. TransitionApply(state, call) =
          Write(state,
                [state EXCEPT !.schedules[call.pool] = Append(versions, new)],
                [outcome |-> "transitioned"])
    BY <1>3 DEF TransitionApply
  <2>5. /\ current.anchorMs <= new.anchorMs
        /\ (new.anchorMs - current.anchorMs) % current.periodMs = 0
    <3>1. new.anchorMs = Given(call.change.anchorMs, Boundary(current, call.at))
      BY DEF TransitionSchedule
    <3>2. CASE call.change.anchorMs = Undefined
      BY <1>1, <2>1, <2>2, <3>1, <3>2, BoundaryOnGrid DEF Given, Schedule
    <3>3. CASE call.change.anchorMs # Undefined
      <4>1. new.anchorMs = call.change.anchorMs
        BY <3>1, <3>3 DEF Given
      <4>2. new.anchorMs \in Nat /\ current.anchorMs \in Nat
        BY <2>1, <2>3 DEF Schedule
      <4> HIDE DEF new, current
      <4> QED
        BY <1>3, <3>3, <4>1, <4>2 DEF TransitionAllowed
    <3> QED
      BY <3>2, <3>3
  <2> HIDE DEF new, versions, current
  <2>6. Append(versions, new) \in Seq(Schedule)
    BY <1>1, <2>3
  <2>7. \E n \in Nat : new.anchorMs = current.anchorMs + n * current.periodMs
    <3> DEFINE gap == new.anchorMs - current.anchorMs
    <3>1. /\ new.anchorMs \in Nat /\ current.anchorMs \in Nat
          /\ current.periodMs \in Nat \ {0}
      BY <2>1, <2>3 DEF Schedule
    <3>2. gap \in Nat /\ new.anchorMs = current.anchorMs + gap
      BY <2>5, <3>1
    <3> HIDE DEF gap
    <3>3. \A a \in Nat : \A b \in Nat \ {0} :
            a % b = 0 => a \div b \in Nat /\ a = (a \div b) * b
      BY SMTT(30)
    <3>4. gap % current.periodMs = 0
      BY <2>5 DEF gap
    <3> DEFINE q == gap \div current.periodMs
    <3>5. q \in Nat /\ gap = q * current.periodMs
      BY <3>1, <3>2, <3>3, <3>4
    <3> HIDE DEF q
    <3> QED
      BY <3>2, <3>5
  <2>8. Append(versions, new) # <<>>
    BY <1>1, <2>3
  <2>9. Follows(versions, Append(versions, new))
    BY <1>1, <1>3, <2>3, <2>7, AppendFollows DEF current
  <2> QED
    BY <1>1, <2>4, <2>6, <2>8, <2>9, SchedulesLawful DEF versions
<1> QED
  BY <1>2, <1>3

\* Every operation of the service (ledger.ts, the apply functions given to
\* runTransaction) leaves pinned rows, debits, admissions, fences and final
\* invocations what they are, lifts a hold only by usage or by the proof
\* that nothing was dispatched, and keeps the epochs of a pool on the grid of
\* its schedules unless it edits the pool too late.
THEOREM ApplyLawful ==
    ASSUME NEW state, LedgerTyped(state), NEW call, Admissible(call)
    PROVE  Lawful(state, Apply(state, call).next)
<1>1. CASE call \in ReserveCall
  BY <1>1, ReserveLawful DEF Apply, ReserveCall
<1>2. CASE call \in ConfigureCall
  BY <1>2, ConfigureLawful DEF Apply, ConfigureCall
<1>3. CASE call \in TransitionCall
  BY <1>3, TransitionLawful DEF Apply, TransitionCall
<1>4. CASE call \in FenceCall
  <2>1. call.kind = "fence"
    BY <1>4 DEF FenceCall
  <2> QED
    BY <2>1, FenceLawful, ReplyLawful DEF Apply
<1>5. CASE call \in ReleaseCall
  <2>1. call.kind = "release"
    BY <1>5 DEF ReleaseCall
  <2> QED
    BY <2>1, ReleaseLawful, ReplyLawful DEF Apply
<1>6. CASE call \in SettleCall
  <2>1. call.kind = "settle" /\ call.usage \in Usage \cup {Undefined}
    BY <1>6 DEF SettleCall
  <2>2. MeteringUsage(call.usage) # Undefined
    BY <2>1, UndefinedIsNoAnswer DEF Admissible, EarlyReturn
  <2>3. call.usage \in Usage /\ call.usage # Undefined
    BY <2>1, <2>2 DEF MeteringUsage
  <2> QED
    BY <2>1, <2>3, SettleLawful, ReplyLawful DEF Apply
<1> QED
  BY <1>1, <1>2, <1>3, <1>4, <1>5, <1>6 DEF Admissible, Calls

\* An operation settles nothing but the invocation a settlement names, with
\* the usage it carries (settle).
LEMMA ApplySettles ==
    ASSUME NEW state, LedgerTyped(state), NEW call, Admissible(call)
    PROVE  \/ SettlesNone(state, Apply(state, call).next)
           \/ /\ call.kind = "settle"
              /\ SettlesOnly(state, Apply(state, call).next, call.id, call.usage)
<1>1. CASE call \in ReserveCall
  BY <1>1, ReserveLawful DEF Apply, ReserveCall
<1>2. CASE call \in ConfigureCall
  BY <1>2, ConfigureLawful DEF Apply, ConfigureCall
<1>3. CASE call \in TransitionCall
  BY <1>3, TransitionLawful DEF Apply, TransitionCall
<1>4. CASE call \in FenceCall
  <2>1. call.kind = "fence"
    BY <1>4 DEF FenceCall
  <2> QED
    BY <2>1, FenceLawful, ReplyLawful DEF Apply
<1>5. CASE call \in ReleaseCall
  <2>1. call.kind = "release"
    BY <1>5 DEF ReleaseCall
  <2> QED
    BY <2>1, ReleaseLawful, ReplyLawful DEF Apply
<1>6. CASE call \in SettleCall
  <2>1. call.kind = "settle" /\ call.usage \in Usage \cup {Undefined}
    BY <1>6 DEF SettleCall
  <2>2. MeteringUsage(call.usage) # Undefined
    BY <2>1, UndefinedIsNoAnswer DEF Admissible, EarlyReturn
  <2>3. call.usage \in Usage /\ call.usage # Undefined
    BY <2>1, <2>2 DEF MeteringUsage
  <2> QED
    BY <2>1, <2>3, SettleLawful, ReplyLawful DEF Apply
<1> QED
  BY <1>1, <1>2, <1>3, <1>4, <1>5, <1>6 DEF Admissible, Calls

=============================================================================
