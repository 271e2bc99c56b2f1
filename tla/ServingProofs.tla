---------------------------- MODULE ServingProofs ----------------------------
(***************************************************************************)
(* Proofs about Serving, for any number of requests, handlers, sessions,   *)
(* messages and prompts: operation boundaries have one true outcome, and a *)
(* pump hands out the events of its socket in order.                       *)
(*                                                                         *)
(* The argument for boundaries.  A request is in liveScopes from its       *)
(* arrival until it has drained, and a task races only meanwhile; so the   *)
(* prompt that expires every live scope finds every race, and no request   *)
(* arrives after it.  A race still pending is one nothing was filed for.   *)
(*                                                                         *)
(* The argument for pumps.  Each operation of the pump is shown to keep    *)
(* one relation between the pump, what the hooks told it and what readers  *)
(* took: the queue is what is told and not taken, or empty for good; who   *)
(* waits finds it empty; a drain is pending exactly while one is queued.   *)
(***************************************************************************)
EXTENDS Serving, FiniteSetTheorems, TLAPS

Underway == {"ingress", "handler", "draining"}
Places == {"idle", "refused", "done"} \cup Underway
Reasons == {"disconnect", "shutdown"}
Ats == {"off", "idle", "racing", "taking", "waiting", "closing", "done"}
TaskRecord == [at: Ats, got: Nat, want: Nat, holds: BOOLEAN]
OpRecord == [native: {"none", "running", "resolved", "rejected"},
             on: {"none", "request", "outer"},
             outcome: {"none", "unknown", "resolved", "rejected"},
             cause: {"none", "budget"} \cup Reasons,
             escalations: Nat, lates: Nat]

Typed ==
    /\ server \in {"open", "closing", "closed"} /\ prompts \in Nat
    /\ live \subseteq Requests
    /\ pc \in [Requests -> Places]
    /\ scope \in [Requests -> {"live"} \cup Reasons]
    /\ task \in [Tasks -> TaskRecord]
    /\ op \in [Tasks -> OpRecord]

-----------------------------------------------------------------------------
(* Operation boundaries.                                                   *)

\* What a boundary has filed, in a scope with state s.
Honest(o, s) ==
    /\ o.escalations = IF o.outcome = "unknown" THEN 1 ELSE 0
    /\ o.outcome \in {"resolved", "rejected"} => o.native = o.outcome
    /\ o.outcome # "unknown" => o.lates = 0 /\ o.cause = "none"
    /\ o.lates > 0 => o.lates = 1 /\ o.native \in {"resolved", "rejected"}
    /\ o.cause \in Reasons => s = o.cause

\* liveScopes holds the requests under way, and tasks race only in those.
LivePart ==
    /\ \A r \in Requests : r \in live <=> pc[r] \in Underway
    /\ \A t \in Tasks : task[t].at = "racing" => pc[t[1]] \in {"handler", "draining"}

\* After a prompt nothing arrives and every scope has expired.
StopPart ==
    prompts > 0 => server # "open" /\ \A r \in live : scope[r] # "live"

RacePart ==
    \A t \in Tasks : /\ Honest(op[t], scope[t[1]])
                     /\ Pending(t) => scope[t[1]] = "live"

RaceInv == Typed /\ LivePart /\ StopPart /\ RacePart

\* The tasks of a request.
LEMMA TaskFacts ==
    /\ \A t \in Tasks : t[1] \in Requests
    /\ \A r \in Requests : /\ Main(r) \in Tasks /\ Side(r) \in Tasks
                           /\ Main(r)[1] = r /\ Side(r)[1] = r
                           /\ Main(r) # Side(r) /\ Of(r) \subseteq Tasks
    /\ \A t \in Tasks : t \in Of(t[1])
BY DEF Tasks, Main, Side, Of

LEMMA RaceInit == Init => RaceInv
<1> SUFFICES ASSUME Init PROVE RaceInv
  OBVIOUS
<1>1. Off \in TaskRecord /\ Unused \in OpRecord
  BY DEF Off, Unused, TaskRecord, OpRecord, Ats
<1>2. Typed
  BY <1>1 DEF Init, Typed, Places
<1>3. LivePart /\ StopPart
  BY DEF Init, LivePart, StopPart, Off, Underway
<1>4. ASSUME NEW t \in Tasks PROVE Honest(op[t], scope[t[1]])
  BY DEF Init, Honest, Unused, Reasons
<1>5. ASSUME NEW t \in Tasks PROVE scope[t[1]] = "live"
  BY TaskFacts DEF Init
<1> QED
  BY <1>2, <1>3, <1>4, <1>5 DEF RaceInv, RacePart

\* A step of a session, its socket or its readers: no race begins.
LEMMA RaceFrame ==
    ASSUME RaceInv, UNCHANGED <<server, prompts, live, pc, scope, op>>,
           task' \in [Tasks -> TaskRecord],
           \A t \in Tasks : task'[t].at = "racing" => task[t].at = "racing"
    PROVE  RaceInv'
<1>1. Typed' /\ LivePart' /\ StopPart'
  BY DEF RaceInv, Typed, LivePart, StopPart
<1>2. RacePart'
  BY DEF RaceInv, RacePart, Pending
<1> QED
  BY <1>1, <1>2 DEF RaceInv

\* Who is woken is neither racing nor begins to.
LEMMA ResumedTyped ==
    ASSUME task \in [Tasks -> TaskRecord], NEW t \in Tasks, NEW a
    PROVE  Resumed(t, a) \in TaskRecord /\ Resumed(t, a).at # "racing"
<1> DEFINE holds == task[t].holds
           more == task[t].got + 1
           want == task[t].want
<1>1. task[t] \in TaskRecord
  OBVIOUS
<1>2. holds \in BOOLEAN /\ more \in Nat /\ want \in Nat
  BY <1>1 DEF TaskRecord
<1>3. CASE Resumed(t, a) = [task[t] EXCEPT !.at = "idle", !.got = 0, !.want = 0]
  <2>1. Resumed(t, a) = [at |-> "idle", got |-> 0, want |-> 0, holds |-> holds]
    BY <1>1, <1>3 DEF TaskRecord
  <2> HIDE DEF holds
  <2> QED
    BY <1>2, <2>1 DEF TaskRecord, Ats
<1>4. CASE Resumed(t, a) = [task[t] EXCEPT !.at = "taking", !.got = @ + 1]
  <2>1. Resumed(t, a) = [at |-> "taking", got |-> more, want |-> want, holds |-> holds]
    BY <1>1, <1>4 DEF TaskRecord
  <2> HIDE DEF holds, more, want
  <2> QED
    BY <1>2, <2>1 DEF TaskRecord, Ats
<1> QED
  BY <1>3, <1>4 DEF Resumed

LEMMA DeliveredTasks ==
    ASSUME task \in [Tasks -> TaskRecord],
           NEW r, NEW result, NEW s, Delivered(r, result, s)
    PROVE  /\ task' \in [Tasks -> TaskRecord]
           /\ \A t \in Tasks : task'[t].at = "racing" => task[t].at = "racing"
<1>1. task' = [t \in Tasks |-> IF t \in DOMAIN result.wakes
                                 THEN Resumed(t, result.wakes[t]) ELSE task[t]]
  BY DEF Delivered
<1>2. ASSUME NEW t \in Tasks
      PROVE  /\ task'[t] \in TaskRecord
             /\ task'[t].at = "racing" => task[t].at = "racing"
  <2>1. CASE t \in DOMAIN result.wakes
    <3>1. task'[t] = Resumed(t, result.wakes[t])
      BY <1>1, <2>1
    <3> QED
      BY <3>1, ResumedTyped
  <2>2. CASE t \notin DOMAIN result.wakes
    BY <1>1, <2>2
  <2> QED
    BY <2>1, <2>2
<1> QED
  BY <1>1, <1>2

\* One escalation is filed for a race that had no outcome.
LEMMA EscalatedHonest ==
    ASSUME NEW t \in Tasks, op[t] \in OpRecord, NEW s, Honest(op[t], s),
           op[t].outcome = "none", NEW why \in {"budget"} \cup Reasons,
           NEW z, why \in Reasons => z = why
    PROVE  /\ Escalated(t, why) \in OpRecord /\ Honest(Escalated(t, why), z)
           /\ Escalated(t, why).outcome = "unknown"
<1> DEFINE e == Escalated(t, why)
<1>1. op[t].escalations = 0 /\ op[t].lates = 0
  BY DEF Honest
<1>2. /\ e.native = op[t].native /\ e.outcome = "unknown" /\ e.cause = why
      /\ e.escalations = op[t].escalations + 1 /\ e.lates = op[t].lates
  BY DEF Escalated, OpRecord
<1>3. e \in OpRecord
  <2> DEFINE a == [op[t] EXCEPT !.outcome = "unknown"]
             b == [a EXCEPT !.cause = why]
             n == op[t].escalations + 1
  <2>1. a \in OpRecord /\ n \in Nat
    BY DEF OpRecord
  <2>2. e = [b EXCEPT !.escalations = n]
    BY DEF Escalated, OpRecord
  <2> HIDE DEF a, e, n
  <2>3. b \in OpRecord
    BY <2>1 DEF OpRecord
  <2> HIDE DEF b
  <2> QED
    BY <2>1, <2>2, <2>3 DEF OpRecord
<1> HIDE DEF e
<1>4. Honest(e, z)
  BY <1>1, <1>2 DEF Honest, Reasons
<1> QED
  BY <1>2, <1>3, <1>4 DEF e

\* expire: whatever the reason, the races of the scope end with it.
LEMMA ExpireKeeps ==
    ASSUME Typed, RacePart, NEW rs, NEW reason \in Reasons,
           scope' = ExpiredScope(rs, reason), op' = ExpiredOp(rs, reason)
    PROVE  /\ scope' \in [Requests -> {"live"} \cup Reasons]
           /\ op' \in [Tasks -> OpRecord]
           /\ \A r \in rs \cap Requests : scope'[r] # "live"
           /\ \A r \in Requests : scope[r] # "live" => scope'[r] # "live"
           /\ \A t \in Tasks :
                /\ Honest(op'[t], scope'[t[1]])
                /\ task[t].at = "racing" /\ op'[t].outcome = "none"
                     => scope'[t[1]] = "live"
<1>1. scope' \in [Requests -> {"live"} \cup Reasons]
  BY DEF Typed, ExpiredScope
<1>2. \A r \in Requests : /\ r \in rs => scope'[r] # "live"
                          /\ scope[r] # "live" => scope'[r] = scope[r]
  BY DEF Typed, ExpiredScope, Expirable, Reasons
<1>3. ASSUME NEW t \in Tasks
      PROVE  /\ op'[t] \in OpRecord
             /\ Honest(op'[t], scope'[t[1]])
             /\ task[t].at = "racing" /\ op'[t].outcome = "none"
                  => scope'[t[1]] = "live"
  <2>1. t[1] \in Requests /\ op[t] \in OpRecord /\ Honest(op[t], scope[t[1]])
    BY TaskFacts DEF Typed, RacePart
  <2>2. CASE Pending(t) /\ t[1] \in Expirable(rs)
    <3>1. op'[t] = Escalated(t, reason)
      BY <2>2 DEF ExpiredOp
    <3>2. scope'[t[1]] = reason
      BY <2>1, <2>2 DEF ExpiredScope
    <3>3. op[t].outcome = "none"
      BY <2>2 DEF Pending
    <3>4. /\ Escalated(t, reason) \in OpRecord
          /\ Honest(Escalated(t, reason), reason)
          /\ Escalated(t, reason).outcome = "unknown"
      BY <2>1, <3>3, EscalatedHonest
    <3> QED
      BY <3>1, <3>2, <3>4
  <2>3. CASE ~ (Pending(t) /\ t[1] \in Expirable(rs))
    <3>1. op'[t] = op[t]
      BY <2>3 DEF ExpiredOp
    <3>2. op[t].cause \in Reasons => scope'[t[1]] = op[t].cause
      BY <1>2, <2>1 DEF Honest, Reasons
    <3>3. Honest(op'[t], scope'[t[1]])
      BY <2>1, <3>1, <3>2 DEF Honest
    <3>4. ASSUME task[t].at = "racing", op[t].outcome = "none"
          PROVE  scope'[t[1]] = "live"
      <4>1. Pending(t)
        BY <3>4 DEF Pending
      <4>2. scope[t[1]] = "live" /\ t[1] \notin Expirable(rs)
        BY <2>3, <4>1 DEF RacePart
      <4> QED
        BY <2>1, <4>2 DEF ExpiredScope
    <3> QED
      BY <2>1, <3>1, <3>3, <3>4
  <2> QED
    BY <2>2, <2>3
<1>4. op' \in [Tasks -> OpRecord]
  BY <1>3 DEF ExpiredOp
<1> QED
  BY <1>1, <1>2, <1>3, <1>4

\* The operation of a task in a scope that stays as it is.
LEMMA OpFrame ==
    ASSUME RaceInv, NEW t \in Tasks, NEW o \in OpRecord, Honest(o, scope[t[1]]),
           op' = [op EXCEPT ![t] = o],
           UNCHANGED <<server, prompts, live, pc, scope>>,
           task' \in [Tasks -> TaskRecord],
           \A u \in Tasks \ {t} : task'[u] = task[u],
           task'[t].at = "racing" =>
              /\ pc[t[1]] \in {"handler", "draining"}
              /\ o.outcome = "none" => scope[t[1]] = "live"
    PROVE  RaceInv'
<1>1. op'[t] = o /\ \A u \in Tasks \ {t} : op'[u] = op[u]
  BY DEF RaceInv, Typed
<1>2. Typed' /\ StopPart'
  BY DEF RaceInv, Typed, StopPart
<1>3. LivePart'
  BY DEF RaceInv, LivePart
<1>4. ASSUME NEW u \in Tasks
      PROVE  /\ Honest(op'[u], scope'[u[1]])
             /\ task'[u].at = "racing" /\ op'[u].outcome = "none"
                  => scope'[u[1]] = "live"
  <2>1. CASE u = t
    BY <1>1, <2>1
  <2>2. CASE u # t
    BY <1>1, <2>2 DEF RaceInv, RacePart, Pending
  <2> QED
    BY <2>1, <2>2
<1> QED
  BY <1>2, <1>3, <1>4 DEF RaceInv, RacePart, Pending

LEMMA RaceRefusedKeeps ==
    ASSUME RaceInv, NEW t \in Tasks, RaceRefused(t) PROVE RaceInv'
<1> DEFINE cause == IF scope[t[1]] = "live" THEN "budget" ELSE scope[t[1]]
<1>1. /\ op[t] \in OpRecord /\ Honest(op[t], scope[t[1]]) /\ op[t].outcome = "none"
      /\ task[t].at = "idle" /\ task \in [Tasks -> TaskRecord]
      /\ scope[t[1]] \in {"live"} \cup Reasons
  BY TaskFacts DEF RaceInv, Typed, RacePart, RaceRefused, Runs, Unused
<1>2. cause \in {"budget"} \cup Reasons /\ (cause \in Reasons => scope[t[1]] = cause)
  BY <1>1 DEF Reasons
<1>3. /\ op' = [op EXCEPT ![t] = Escalated(t, cause)]
      /\ UNCHANGED <<server, prompts, live, pc, scope, task>>
  BY DEF RaceRefused, serverVars, requestVars
<1> HIDE DEF cause
<1>4. /\ Escalated(t, cause) \in OpRecord
      /\ Honest(Escalated(t, cause), scope[t[1]])
  BY <1>1, <1>2, EscalatedHonest
<1> QED
  BY <1>1, <1>3, <1>4, OpFrame

LEMMA RaceStartsKeeps ==
    ASSUME RaceInv, NEW t \in Tasks, NEW on \in {"request", "outer"},
           RaceStarts(t, on)
    PROVE  RaceInv'
<1> DEFINE o == [native |-> "running", on |-> on, outcome |-> "none", cause |-> "none",
                 escalations |-> 0, lates |-> 0]
<1>1. /\ task \in [Tasks -> TaskRecord] /\ task[t] \in TaskRecord
      /\ op[t] = Unused /\ op \in [Tasks -> OpRecord]
  BY DEF RaceInv, Typed, RaceStarts
<1>2. /\ op' = [op EXCEPT ![t].native = "running", ![t].on = on]
      /\ task' = [task EXCEPT ![t].at = "racing"]
      /\ UNCHANGED <<server, prompts, live, pc, scope>>
      /\ scope[t[1]] = "live" /\ pc[t[1]] \in {"handler", "draining"}
  BY DEF RaceStarts, Runs, serverVars, requestVars
<1>3. op' = [op EXCEPT ![t] = o]
  <2> DEFINE a == [op[t] EXCEPT !.native = "running"]
  <2>0. a = [native |-> "running", on |-> "none", outcome |-> "none",
             cause |-> "none", escalations |-> 0, lates |-> 0]
    BY <1>1 DEF Unused
  <2>1. [a EXCEPT !.on = on] = o
    <3> HIDE DEF a
    <3> QED
      BY <2>0
  <2> HIDE DEF o
  <2> QED
    BY <1>1, <1>2, <2>1
<1>4. o \in OpRecord /\ Honest(o, scope[t[1]])
  BY DEF OpRecord, Honest, Reasons
<1>5. /\ task' \in [Tasks -> TaskRecord]
      /\ \A u \in Tasks \ {t} : task'[u] = task[u]
  BY <1>1, <1>2 DEF TaskRecord, Ats
<1> HIDE DEF o
<1> QED
  BY <1>2, <1>3, <1>4, <1>5, OpFrame

LEMMA NativeSettlesKeeps ==
    ASSUME RaceInv, NEW t \in Tasks, NEW how \in {"resolved", "rejected"},
           NativeSettles(t, how)
    PROVE  RaceInv'
<1> DEFINE o == [op[t] EXCEPT !.native = how]
<1>1. /\ op[t] \in OpRecord /\ Honest(op[t], scope[t[1]])
      /\ task \in [Tasks -> TaskRecord]
      /\ Pending(t) => scope[t[1]] = "live"
      /\ task[t].at = "racing" => pc[t[1]] \in {"handler", "draining"}
  BY DEF RaceInv, Typed, RacePart, LivePart
<1>2. /\ op[t].native = "running"
      /\ op' = [op EXCEPT ![t] = o]
      /\ UNCHANGED <<server, prompts, live, pc, scope, task>>
  BY DEF NativeSettles, serverVars, requestVars
<1>3. o \in OpRecord
  BY <1>1 DEF OpRecord
<1>4. Honest(o, scope[t[1]]) /\ o.outcome = op[t].outcome
  BY <1>1, <1>2 DEF OpRecord, Honest
<1> HIDE DEF o
<1> QED
  BY <1>1, <1>2, <1>3, <1>4, OpFrame DEF Pending

LEMMA ObservedKeeps ==
    ASSUME RaceInv, NEW t \in Tasks, Observed(t) PROVE RaceInv'
<1> DEFINE o == [op[t] EXCEPT !.outcome = op[t].native]
<1>1. /\ op[t] \in OpRecord /\ Honest(op[t], scope[t[1]])
      /\ task \in [Tasks -> TaskRecord] /\ task[t] \in TaskRecord
  BY DEF RaceInv, Typed, RacePart
<1>2. /\ op[t].native \in {"resolved", "rejected"} /\ op[t].outcome = "none"
      /\ op' = [op EXCEPT ![t] = o]
      /\ task' = [task EXCEPT ![t].at = "idle"]
      /\ UNCHANGED <<server, prompts, live, pc, scope>>
  BY DEF Observed, Pending, serverVars, requestVars
<1>3. o \in OpRecord
  BY <1>1, <1>2 DEF OpRecord
<1>4. Honest(o, scope[t[1]])
  BY <1>1, <1>2 DEF OpRecord, Honest
<1>5. /\ task' \in [Tasks -> TaskRecord] /\ task'[t].at = "idle"
      /\ \A u \in Tasks \ {t} : task'[u] = task[u]
  BY <1>1, <1>2 DEF TaskRecord, Ats
<1> HIDE DEF o
<1> QED
  BY <1>2, <1>3, <1>4, <1>5, OpFrame

LEMMA TimerFiresKeeps ==
    ASSUME RaceInv, NEW t \in Tasks, TimerFires(t) PROVE RaceInv'
<1>1. /\ op[t] \in OpRecord /\ Honest(op[t], scope[t[1]])
      /\ task \in [Tasks -> TaskRecord] /\ task[t] \in TaskRecord
  BY DEF RaceInv, Typed, RacePart
<1>2. /\ op[t].outcome = "none"
      /\ op' = [op EXCEPT ![t] = Escalated(t, "budget")]
      /\ task' = [task EXCEPT ![t].at = "idle"]
      /\ UNCHANGED <<server, prompts, live, pc, scope>>
  BY DEF TimerFires, Pending, serverVars, requestVars
<1>3. /\ Escalated(t, "budget") \in OpRecord
      /\ Honest(Escalated(t, "budget"), scope[t[1]])
  <2>1. "budget" \in {"budget"} \cup Reasons /\ "budget" \notin Reasons
    BY DEF Reasons
  <2> QED
    BY <1>1, <1>2, <2>1, EscalatedHonest
<1>4. /\ task' \in [Tasks -> TaskRecord] /\ task'[t].at = "idle"
      /\ \A u \in Tasks \ {t} : task'[u] = task[u]
  BY <1>1, <1>2 DEF TaskRecord, Ats
<1> QED
  BY <1>2, <1>3, <1>4, OpFrame

LEMMA LateObservedKeeps ==
    ASSUME RaceInv, NEW t \in Tasks, LateObserved(t) PROVE RaceInv'
<1> DEFINE o == [op[t] EXCEPT !.lates = 1]
<1>1. /\ op[t] \in OpRecord /\ Honest(op[t], scope[t[1]])
      /\ op \in [Tasks -> OpRecord] /\ task \in [Tasks -> TaskRecord]
      /\ task[t].at = "racing" => pc[t[1]] \in {"handler", "draining"}
  BY DEF RaceInv, Typed, RacePart, LivePart
<1>2. /\ op[t].native \in {"resolved", "rejected"} /\ op[t].outcome = "unknown"
      /\ op[t].lates = 0 /\ op' = [op EXCEPT ![t].lates = @ + 1]
      /\ UNCHANGED <<server, prompts, live, pc, scope, task>>
  BY DEF LateObserved, serverVars, requestVars
<1>3. op' = [op EXCEPT ![t] = o]
  BY <1>1, <1>2
<1>4. o \in OpRecord /\ o.outcome = "unknown"
  BY <1>1, <1>2 DEF OpRecord
<1>5. Honest(o, scope[t[1]])
  BY <1>1, <1>2 DEF OpRecord, Honest
<1> HIDE DEF o
<1> QED
  BY <1>1, <1>2, <1>3, <1>4, <1>5, OpFrame

\* A request comes, is refused, or moves on: its tasks do not race unless the
\* request is under way.
LEMMA PlaceFrame ==
    ASSUME RaceInv, NEW r \in Requests, NEW place \in Places,
           pc' = [pc EXCEPT ![r] = place],
           live' = IF place \in Underway THEN live \cup {r} ELSE live \ {r},
           place \in Underway => pc[r] \in Underway \/ server = "open",
           UNCHANGED <<server, prompts, scope, op>>,
           task' \in [Tasks -> TaskRecord],
           \A t \in Tasks : task'[t].at = "racing" =>
              /\ task[t].at = "racing"
              /\ t[1] = r => place \in {"handler", "draining"}
    PROVE  RaceInv'
<1>1. \A q \in Requests : pc'[q] = IF q = r THEN place ELSE pc[q]
  BY DEF RaceInv, Typed
<1>2. Typed'
  BY DEF RaceInv, Typed, Underway
<1>3. LivePart'
  <2>1. \A q \in Requests : q \in live' <=> pc'[q] \in Underway
    BY <1>1 DEF RaceInv, LivePart
  <2>2. ASSUME NEW t \in Tasks, task'[t].at = "racing"
        PROVE  pc'[t[1]] \in {"handler", "draining"}
    <3>1. t[1] \in Requests /\ pc[t[1]] \in {"handler", "draining"}
      BY <2>2, TaskFacts DEF RaceInv, LivePart
    <3> QED
      BY <1>1, <2>2, <3>1
  <2> QED
    BY <2>1, <2>2 DEF LivePart
<1>4. StopPart'
  <2>1. place \in Underway /\ prompts > 0 => r \in live
    BY DEF RaceInv, LivePart, StopPart
  <2> QED
    BY <2>1 DEF RaceInv, StopPart
<1>5. RacePart'
  BY DEF RaceInv, RacePart, Pending
<1> QED
  BY <1>2, <1>3, <1>4, <1>5 DEF RaceInv

LEMMA ArriveKeeps ==
    ASSUME RaceInv, NEW r \in Requests, Arrive(r) PROVE RaceInv'
<1> DEFINE place == IF server = "open" THEN "ingress" ELSE "refused"
<1>1. /\ pc[r] = "idle" /\ pc' = [pc EXCEPT ![r] = place]
      /\ live' = IF server = "open" THEN live \cup {r} ELSE live
      /\ UNCHANGED <<server, prompts, scope, op, task>>
  BY DEF Arrive, serverVars
<1>2. r \notin live
  BY <1>1 DEF RaceInv, LivePart, Underway
<1>3. /\ place \in Places /\ (place \in Underway <=> server = "open")
      /\ live' = IF place \in Underway THEN live \cup {r} ELSE live \ {r}
  BY <1>1, <1>2 DEF Places, Underway
<1>4. \A t \in Tasks : t[1] = r => task[t].at # "racing"
  BY <1>1 DEF RaceInv, LivePart
<1> HIDE DEF place
<1>5. task' \in [Tasks -> TaskRecord]
  BY <1>1 DEF RaceInv, Typed
<1>6. /\ pc' = [pc EXCEPT ![r] = place] /\ place \in Places
      /\ live' = IF place \in Underway THEN live \cup {r} ELSE live \ {r}
      /\ place \in Underway => pc[r] \in Underway \/ server = "open"
      /\ UNCHANGED <<server, prompts, scope, op>>
      /\ task' \in [Tasks -> TaskRecord]
  BY <1>1, <1>3, <1>5
<1>7. \A t \in Tasks : task'[t].at = "racing" =>
        /\ task[t].at = "racing"
        /\ t[1] = r => place \in {"handler", "draining"}
  BY <1>1, <1>4
<1> QED
  BY <1>6, <1>7, PlaceFrame

LEMMA IngressKeeps ==
    ASSUME RaceInv, NEW r \in Requests, NEW accepted \in BOOLEAN, Ingress(r, accepted)
    PROVE  RaceInv'
<1> DEFINE place == IF accepted THEN "handler" ELSE "done"
<1>1. /\ pc[r] = "ingress" /\ pc' = [pc EXCEPT ![r] = place]
      /\ live' = IF accepted THEN live ELSE live \ {r}
      /\ task' = IF accepted THEN [task EXCEPT ![Main(r)].at = "idle"] ELSE task
      /\ UNCHANGED <<server, prompts, scope, op>>
  BY DEF Ingress, serverVars
<1>2. r \in live /\ task \in [Tasks -> TaskRecord]
  BY <1>1 DEF RaceInv, Typed, LivePart, Underway
<1>3. /\ place \in Places /\ pc[r] \in Underway
      /\ live' = IF place \in Underway THEN live \cup {r} ELSE live \ {r}
  BY <1>1, <1>2 DEF Places, Underway
<1>4. /\ task' \in [Tasks -> TaskRecord]
      /\ \A t \in Tasks : task'[t].at = "racing" => task[t].at = "racing"
  BY <1>1, <1>2 DEF TaskRecord, Ats
<1>5. \A t \in Tasks : t[1] = r => task[t].at # "racing"
  BY <1>1 DEF RaceInv, LivePart
<1> HIDE DEF place
<1>6. /\ pc' = [pc EXCEPT ![r] = place] /\ place \in Places
      /\ live' = IF place \in Underway THEN live \cup {r} ELSE live \ {r}
      /\ place \in Underway => pc[r] \in Underway \/ server = "open"
      /\ UNCHANGED <<server, prompts, scope, op>>
      /\ task' \in [Tasks -> TaskRecord]
  BY <1>1, <1>3, <1>4
<1>7. \A t \in Tasks : task'[t].at = "racing" =>
        /\ task[t].at = "racing"
        /\ t[1] = r => place \in {"handler", "draining"}
  BY <1>4, <1>5
<1> QED
  BY <1>6, <1>7, PlaceFrame

LEMMA PublishKeeps ==
    ASSUME RaceInv, NEW r \in Requests, Publish(r) PROVE RaceInv'
<1>1. /\ pc[r] = "handler" /\ pc' = [pc EXCEPT ![r] = "draining"]
      /\ task' = [task EXCEPT ![Main(r)].at = "done"]
      /\ UNCHANGED <<server, prompts, live, scope, op>>
  BY DEF Publish, serverVars
<1>2. r \in live /\ task \in [Tasks -> TaskRecord]
  BY <1>1 DEF RaceInv, Typed, LivePart, Underway
<1>3. /\ "draining" \in Places /\ "draining" \in Underway /\ pc[r] \in Underway
      /\ live' = live \cup {r}
  BY <1>1, <1>2 DEF Places, Underway
<1>4. /\ task' \in [Tasks -> TaskRecord]
      /\ \A t \in Tasks : task'[t].at = "racing" => task[t].at = "racing"
  BY <1>1, <1>2 DEF TaskRecord, Ats
<1>5. /\ pc' = [pc EXCEPT ![r] = "draining"] /\ "draining" \in Places
      /\ live' = IF "draining" \in Underway THEN live \cup {r} ELSE live \ {r}
      /\ "draining" \in Underway => pc[r] \in Underway \/ server = "open"
      /\ UNCHANGED <<server, prompts, scope, op>>
      /\ task' \in [Tasks -> TaskRecord]
  BY <1>1, <1>3, <1>4
<1>6. \A t \in Tasks : task'[t].at = "racing" =>
        /\ task[t].at = "racing"
        /\ t[1] = r => "draining" \in {"handler", "draining"}
  BY <1>4
<1> QED
  BY <1>5, <1>6, PlaceFrame

LEMMA DrainedKeeps ==
    ASSUME RaceInv, NEW r \in Requests, Drained(r) PROVE RaceInv'
<1>1. /\ pc' = [pc EXCEPT ![r] = "done"] /\ live' = live \ {r}
      /\ \A t \in Of(r) : task[t].at \in {"off", "done"}
      /\ UNCHANGED <<server, prompts, scope, op, task>>
  BY DEF Drained, serverVars
<1>2. "done" \in Places /\ "done" \notin Underway
  BY DEF Places, Underway
<1>3. \A t \in Tasks : t[1] = r => task[t].at # "racing"
  BY <1>1, TaskFacts
<1>4. task' \in [Tasks -> TaskRecord]
  BY <1>1 DEF RaceInv, Typed
<1>5. /\ pc' = [pc EXCEPT ![r] = "done"] /\ "done" \in Places
      /\ live' = IF "done" \in Underway THEN live \cup {r} ELSE live \ {r}
      /\ "done" \in Underway => pc[r] \in Underway \/ server = "open"
      /\ UNCHANGED <<server, prompts, scope, op>>
      /\ task' \in [Tasks -> TaskRecord]
  BY <1>1, <1>2, <1>4
<1>6. \A t \in Tasks : task'[t].at = "racing" =>
        /\ task[t].at = "racing"
        /\ t[1] = r => "done" \in {"handler", "draining"}
  BY <1>1, <1>3
<1> QED
  BY <1>5, <1>6, PlaceFrame

\* The tasks whose races an expiry ended.
LEMMA ExpiredTasks ==
    ASSUME task \in [Tasks -> TaskRecord], NEW rs, NEW t \in Tasks
    PROVE  /\ ExpiredTask(rs)[t] \in TaskRecord
           /\ ExpiredTask(rs)[t].at = "racing" => ExpiredTask(rs)[t] = task[t]
<1>1. CASE Pending(t) /\ t[1] \in Expirable(rs)
  <2>1. ExpiredTask(rs)[t] = [task[t] EXCEPT !.at = "idle"]
    BY <1>1 DEF ExpiredTask
  <2>2. task[t] \in TaskRecord
    OBVIOUS
  <2> QED
    BY <2>1, <2>2 DEF TaskRecord, Ats
<1>2. CASE ~ (Pending(t) /\ t[1] \in Expirable(rs))
  <2>1. ExpiredTask(rs)[t] = task[t]
    BY <1>2 DEF ExpiredTask
  <2> QED
    BY <2>1
<1> QED
  BY <1>1, <1>2

LEMMA DisconnectKeeps ==
    ASSUME RaceInv, NEW r \in Requests, Disconnect(r) PROVE RaceInv'
<1>1. /\ scope' = ExpiredScope({r}, "disconnect")
      /\ op' = ExpiredOp({r}, "disconnect")
      /\ task' = ExpiredTask({r})
      /\ UNCHANGED <<server, prompts, live, pc>>
  BY DEF Disconnect, serverVars
<1>2. "disconnect" \in Reasons /\ Typed /\ RacePart
  BY DEF Reasons, RaceInv
<1>3. /\ scope' \in [Requests -> {"live"} \cup Reasons]
      /\ op' \in [Tasks -> OpRecord]
      /\ \A q \in Requests : scope[q] # "live" => scope'[q] # "live"
      /\ \A t \in Tasks :
           /\ Honest(op'[t], scope'[t[1]])
           /\ task[t].at = "racing" /\ op'[t].outcome = "none" => scope'[t[1]] = "live"
  BY <1>1, <1>2, ExpireKeeps
<1>4. \A t \in Tasks : /\ task'[t] \in TaskRecord
                       /\ task'[t].at = "racing" => task[t].at = "racing"
  BY <1>1, ExpiredTasks DEF RaceInv, Typed
<1>5. task' \in [Tasks -> TaskRecord]
  BY <1>1, <1>4 DEF ExpiredTask
<1>6. Typed'
  BY <1>1, <1>3, <1>5 DEF RaceInv, Typed
<1>7. LivePart'
  BY <1>1, <1>4 DEF RaceInv, LivePart
<1>8. StopPart'
  BY <1>1, <1>3 DEF RaceInv, StopPart, Typed
<1> QED
  BY <1>3, <1>4, <1>6, <1>7, <1>8 DEF RaceInv, RacePart, Pending

LEMMA PromptKeeps == ASSUME RaceInv, Prompt PROVE RaceInv'
<1> DEFINE failed == [r \in Requests |-> IF r \in Registered
                        THEN FailPump(pump[r]) ELSE Quietly(pump[r])]
<1>1. /\ prompts' = prompts + 1
      /\ scope' = ExpiredScope(live, "shutdown")
      /\ op' = ExpiredOp(live, "shutdown")
      /\ task' = [t \in Tasks |->
                    IF t \in DOMAIN failed[t[1]].wakes
                    THEN Resumed(t, failed[t[1]].wakes[t])
                    ELSE ExpiredTask(live)[t]]
      /\ server' = IF server = "open" THEN "closing" ELSE server
      /\ UNCHANGED <<live, pc>>
  BY DEF Prompt
<1> HIDE DEF failed
<1>2. "shutdown" \in Reasons /\ Typed /\ RacePart /\ live \subseteq Requests
  BY DEF Reasons, RaceInv, Typed
<1>3. /\ scope' \in [Requests -> {"live"} \cup Reasons]
      /\ op' \in [Tasks -> OpRecord]
      /\ \A r \in live \cap Requests : scope'[r] # "live"
      /\ \A t \in Tasks :
           /\ Honest(op'[t], scope'[t[1]])
           /\ task[t].at = "racing" /\ op'[t].outcome = "none" => scope'[t[1]] = "live"
  BY <1>1, <1>2, ExpireKeeps
<1>4. ASSUME NEW t \in Tasks
      PROVE  /\ task'[t] \in TaskRecord
             /\ task'[t].at = "racing" => task[t].at = "racing"
  <2>1. task \in [Tasks -> TaskRecord]
    BY <1>2 DEF Typed
  <2>2. CASE t \in DOMAIN failed[t[1]].wakes
    <3>1. task'[t] = Resumed(t, failed[t[1]].wakes[t])
      BY <1>1, <2>2
    <3> QED
      BY <2>1, <3>1, ResumedTyped
  <2>3. CASE t \notin DOMAIN failed[t[1]].wakes
    <3>1. task'[t] = ExpiredTask(live)[t]
      BY <1>1, <2>3
    <3> QED
      BY <2>1, <3>1, ExpiredTasks
  <2> QED
    BY <2>2, <2>3
<1>5. task' \in [Tasks -> TaskRecord]
  <2>1. task' = [t \in Tasks |-> task'[t]]
    BY <1>1
  <2> QED
    BY <1>4, <2>1
<1>6. server' \in {"closing", "closed"} /\ prompts' \in Nat
  BY <1>1, <1>2 DEF Typed
<1>7. Typed'
  BY <1>1, <1>2, <1>3, <1>5, <1>6 DEF Typed
<1>8. LivePart'
  BY <1>1, <1>4 DEF RaceInv, LivePart
<1>9. StopPart'
  BY <1>1, <1>2, <1>3, <1>6 DEF StopPart
<1> QED
  BY <1>3, <1>4, <1>7, <1>8, <1>9 DEF RaceInv, RacePart, Pending

\* Steps of sessions, sockets and readers.
LEMMA SessionsKeep ==
    ASSUME RaceInv, NEW r \in Requests,
           \/ Fork(r) \/ SideEnds(r) \/ Accept(r) \/ Message(r) \/ BadMessage(r)
           \/ Drain(r) \/ PeerCloses(r) \/ CloseSession(r) \/ SessionClosed(r)
           \/ ReaderClosed(r)
    PROVE  RaceInv'
<1>0. task \in [Tasks -> TaskRecord] /\ Main(r) \in Tasks /\ Side(r) \in Tasks
  BY TaskFacts DEF RaceInv, Typed
<1>1. UNCHANGED <<server, prompts, live, pc, scope, op>>
  BY DEF Fork, SideEnds, Accept, Message, BadMessage, Drain, PeerCloses,
         CloseSession, SessionClosed, ReaderClosed, serverVars, requestVars
<1>2. /\ task' \in [Tasks -> TaskRecord]
      /\ \A t \in Tasks : task'[t].at = "racing" => task[t].at = "racing"
  <2>1. CASE Fork(r)
    <3> DEFINE holds == sess[r].reader # "none"
               x == [Off EXCEPT !.at = "idle", !.holds = holds]
    <3>1. task' = [task EXCEPT ![Side(r)] = x]
      BY <2>1 DEF Fork
    <3>2. holds \in BOOLEAN
      OBVIOUS
    <3> HIDE DEF holds
    <3>3. Off \in TaskRecord
      BY DEF Off, TaskRecord, Ats
    <3>4. x \in TaskRecord /\ x.at = "idle"
      BY <3>2, <3>3 DEF TaskRecord, Ats
    <3> HIDE DEF x
    <3> QED
      BY <1>0, <3>1, <3>4
  <2>2. CASE SideEnds(r)
    <3> DEFINE x == [Off EXCEPT !.at = "done"]
    <3>1. x \in TaskRecord /\ x.at = "done"
      BY DEF Off, TaskRecord, Ats
    <3>2. task' = [task EXCEPT ![Side(r)] = x]
      BY <2>2 DEF SideEnds
    <3> HIDE DEF x
    <3> QED
      BY <1>0, <3>1, <3>2
  <2>3. CASE Accept(r) \/ ReaderClosed(r)
    BY <1>0, <2>3 DEF Accept, ReaderClosed
  <2>4. CASE CloseSession(r)
    BY <1>0, <2>4 DEF CloseSession, TaskRecord, Ats
  <2>5. CASE SessionClosed(r)
    BY <1>0, <2>5 DEF SessionClosed, TaskRecord, Ats
  <2>6. CASE Message(r) \/ BadMessage(r) \/ Drain(r) \/ PeerCloses(r)
    <3>1. \E result, s : Delivered(r, result, s)
      BY <2>6 DEF Message, BadMessage, Drain, PeerCloses
    <3> QED
      BY <1>0, <3>1, DeliveredTasks
  <2> QED
    BY <2>1, <2>2, <2>3, <2>4, <2>5, <2>6
<1> QED
  BY <1>1, <1>2, RaceFrame

LEMMA ReadersKeep ==
    ASSUME RaceInv, NEW t \in Tasks,
           \/ \E want \in Batches : ReadMany(t, want)
           \/ PullEvent(t) \/ CloseReader(t) \/ CancelReader(t)
    PROVE  RaceInv'
<1>0. task \in [Tasks -> TaskRecord] /\ task[t] \in TaskRecord
  BY DEF RaceInv, Typed
<1>1. UNCHANGED <<server, prompts, live, pc, scope, op>>
  BY DEF ReadMany, PullEvent, CloseReader, CancelReader, serverVars, requestVars
<1>2. /\ task' \in [Tasks -> TaskRecord]
      /\ \A u \in Tasks : task'[u].at = "racing" => task[u].at = "racing"
  <2>1. ASSUME NEW want \in Batches, ReadMany(t, want)
        PROVE  /\ task' \in [Tasks -> TaskRecord]
               /\ \A u \in Tasks : task'[u].at = "racing" => task[u].at = "racing"
    <3>1. want \in Nat
      BY BatchesAssumption
    <3>2. task' = [task EXCEPT ![t] = [task[t] EXCEPT !.at = "taking", !.want = want]]
      BY <1>0, <2>1 DEF ReadMany
    <3> DEFINE x == [task[t] EXCEPT !.at = "taking", !.want = want]
    <3>3. x \in TaskRecord /\ x.at = "taking"
      BY <1>0, <3>1 DEF TaskRecord, Ats
    <3> HIDE DEF x
    <3> QED
      BY <1>0, <3>2, <3>3 DEF x
  <2>2. CASE PullEvent(t)
    <3> DEFINE answer == Answer(pump[t[1]])
               waits == [task[t] EXCEPT !.at = "waiting"]
               x == IF answer.kind = "wait" THEN waits ELSE Resumed(t, answer)
    <3>1. task' = [task EXCEPT ![t] = x]
      BY <2>2 DEF PullEvent
    <3>2. waits \in TaskRecord /\ waits.at = "waiting"
      BY <1>0 DEF TaskRecord, Ats
    <3>3. Resumed(t, answer) \in TaskRecord /\ Resumed(t, answer).at # "racing"
      BY <1>0, ResumedTyped
    <3>4. x \in TaskRecord /\ x.at # "racing"
      BY <3>2, <3>3
    <3> HIDE DEF x
    <3> QED
      BY <1>0, <3>1, <3>4
  <2>3. CASE CloseReader(t)
    BY <1>0, <2>3 DEF CloseReader
  <2>4. CASE CancelReader(t)
    <3>1. \E result, s : Delivered(t[1], result, s)
      BY <2>4 DEF CancelReader
    <3> QED
      BY <1>0, <3>1, DeliveredTasks
  <2> QED
    BY <2>1, <2>2, <2>3, <2>4
<1> QED
  BY <1>1, <1>2, RaceFrame

LEMMA RaceNext == RaceInv /\ [Next]_vars => RaceInv'
<1> SUFFICES ASSUME RaceInv, [Next]_vars PROVE RaceInv'
  OBVIOUS
<1>1. ASSUME NEW t \in Tasks, TaskStep(t) PROVE RaceInv'
  BY <1>1, RaceRefusedKeeps, RaceStartsKeeps, ObservedKeeps, TimerFiresKeeps,
     LateObservedKeeps, NativeSettlesKeeps, ReadersKeep DEF TaskStep
<1>2. ASSUME NEW r \in Requests, RequestStep(r) PROVE RaceInv'
  BY <1>2, ArriveKeeps, DisconnectKeeps, IngressKeeps, PublishKeeps,
     DrainedKeeps, SessionsKeep DEF RequestStep
<1>3. CASE Prompt
  BY <1>3, PromptKeeps
<1>4. CASE OwnerEnds \/ Closer
  <2>1. /\ UNCHANGED <<prompts, live, pc, scope, task, op>>
        /\ server' \in {"closing", "closed"}
    BY <1>4 DEF OwnerEnds, Closer, requestVars
  <2>2. Typed' /\ LivePart' /\ StopPart'
    BY <2>1 DEF RaceInv, Typed, LivePart, StopPart
  <2> QED
    BY <2>1, <2>2 DEF RaceInv, RacePart, Pending
<1>5. CASE UNCHANGED vars
  BY <1>5 DEF vars, RaceInv, Typed, LivePart, StopPart, RacePart, Pending
<1> QED
  BY <1>1, <1>2, <1>3, <1>4, <1>5 DEF Next

\* raceBoundary and expire: for any number of requests and tasks an operation
\* has one true outcome, its escalation names the first reason, and once the
\* server was told to stop nobody waits at a boundary any more.
THEOREM BoundariesHonest == Spec => []BoundaryHonest
<1>1. RaceInv => BoundaryHonest
  <2> SUFFICES ASSUME RaceInv, NEW t \in Tasks
               PROVE  LET o == op[t]
                          r == t[1]
                          settled == {"resolved", "rejected"}
                      IN  /\ o.escalations = IF o.outcome = "unknown" THEN 1 ELSE 0
                          /\ o.outcome \in settled => o.native = o.outcome
                          /\ o.lates > 0 =>
                                /\ o.lates = 1 /\ o.outcome = "unknown"
                                /\ o.native \in settled
                          /\ o.cause \in Reasons => scope[r] = o.cause
                          /\ Pending(t) => scope[r] = "live" /\ prompts = 0
    BY DEF BoundaryHonest, Reasons
  <2>1. Honest(op[t], scope[t[1]])
    BY DEF RaceInv, RacePart
  <2>2. op[t].lates \in Nat
    BY DEF RaceInv, Typed, OpRecord
  <2>3. ASSUME Pending(t) PROVE scope[t[1]] = "live" /\ prompts = 0
    <3>1. scope[t[1]] = "live"
      BY <2>3 DEF RaceInv, RacePart
    <3>2. t[1] \in live
      BY <2>3, TaskFacts DEF RaceInv, LivePart, Pending, Underway
    <3>3. ~ (prompts > 0) /\ prompts \in Nat
      BY <3>1, <3>2 DEF RaceInv, StopPart, Typed
    <3> QED
      BY <3>1, <3>3
  <2> QED
    BY <2>1, <2>2, <2>3 DEF Honest, Reasons
<1> QED
  BY <1>1, RaceInit, RaceNext, PTL DEF Spec

-----------------------------------------------------------------------------
(* Event pumps.                                                            *)

Event == [kind: {"text", "drain", "close"}, n: Nat]
PumpRecord == [queue: Seq(Event), waiters: Seq(Tasks),
               terminal: {"none", "failed", "end"}, interrupted: BOOLEAN,
               disposed: BOOLEAN, drainPending: BOOLEAN]

\* read is what heard begins with, and q what it goes on with.
Begins(read, heard) ==
    Len(read) <= Len(heard) /\ \A i \in 1 .. Len(read) : read[i] = heard[i]
GoesOn(q, heard, read) ==
    /\ Len(q) = Len(heard) - Len(read)
    /\ \A i \in 1 .. Len(q) : q[i] = heard[Len(read) + i]

HasDrain(q) == \E i \in 1 .. Len(q) : q[i].kind = "drain"

\* One drain at most, and data within the bound.
Sparse(q) ==
    /\ \A i, j \in 1 .. Len(q) :
          q[i].kind = "drain" /\ q[j].kind = "drain" => i = j
    /\ \A i \in 1 .. Len(q) : q[i].kind = "text" => i <= MaxQueued

Gone(p) == p.disposed \/ p.terminal = "failed"

\* How a pump is related to what it was told and what was taken from it.
Follows(p, heard, read) ==
    /\ p \in PumpRecord /\ heard \in Seq(Event) /\ read \in Seq(Event)
    /\ Begins(read, heard)
    /\ Gone(p) => p.queue = <<>>
    /\ ~ Gone(p) => GoesOn(p.queue, heard, read)
    /\ p.waiters # <<>> => p.queue = <<>>
    /\ ~ Deaf(p) => (p.drainPending <=> HasDrain(p.queue))
    /\ Sparse(p.queue)

LEMMA QueueAppend ==
    ASSUME NEW q \in Seq(Event), NEW heard \in Seq(Event), NEW read \in Seq(Event),
           NEW e \in Event, Begins(read, heard), GoesOn(q, heard, read)
    PROVE  /\ Begins(read, Append(heard, e))
           /\ GoesOn(Append(q, e), Append(heard, e), read)
<1>1. /\ Len(Append(q, e)) = Len(q) + 1 /\ Len(Append(heard, e)) = Len(heard) + 1
      /\ Append(q, e)[Len(q) + 1] = e /\ Append(heard, e)[Len(heard) + 1] = e
      /\ \A i \in 1 .. Len(q) : Append(q, e)[i] = q[i]
      /\ \A i \in 1 .. Len(heard) : Append(heard, e)[i] = heard[i]
      /\ Len(q) \in Nat /\ Len(heard) \in Nat /\ Len(read) \in Nat
  OBVIOUS
<1>2. Begins(read, Append(heard, e))
  BY <1>1 DEF Begins
<1>3. ASSUME NEW i \in 1 .. Len(q) + 1
      PROVE  Append(q, e)[i] = Append(heard, e)[Len(read) + i]
  <2>1. CASE i = Len(q) + 1
    <3>1. Len(read) + i = Len(heard) + 1
      BY <1>1, <2>1 DEF GoesOn
    <3> QED
      BY <1>1, <2>1, <3>1
  <2>2. CASE i # Len(q) + 1
    <3>1. i \in 1 .. Len(q) /\ Len(read) + i \in 1 .. Len(heard)
      BY <1>1, <2>2 DEF GoesOn
    <3> QED
      BY <1>1, <3>1 DEF GoesOn
  <2> QED
    BY <2>1, <2>2
<1> QED
  BY <1>1, <1>2, <1>3 DEF GoesOn

LEMMA SparseAppend ==
    ASSUME NEW q \in Seq(Event), NEW e \in Event, Sparse(q),
           e.kind = "text" => Len(q) < MaxQueued,
           e.kind = "drain" => ~ HasDrain(q)
    PROVE  /\ Sparse(Append(q, e))
           /\ HasDrain(Append(q, e)) <=> HasDrain(q) \/ e.kind = "drain"
<1> DEFINE s == Append(q, e)
<1>1. /\ Len(s) = Len(q) + 1 /\ s[Len(q) + 1] = e
      /\ \A i \in 1 .. Len(q) : s[i] = q[i]
      /\ Len(q) \in Nat /\ MaxQueued \in Nat
  BY BoundsAssumption
<1> HIDE DEF s
<1>2. \A i \in 1 .. Len(s) : i = Len(q) + 1 \/ i \in 1 .. Len(q)
  BY <1>1
<1>3. ASSUME NEW i \in 1 .. Len(s), NEW j \in 1 .. Len(s),
             s[i].kind = "drain", s[j].kind = "drain"
      PROVE  i = j
  <2>1. CASE i \in 1 .. Len(q) /\ j \in 1 .. Len(q)
    BY <1>1, <1>3, <2>1 DEF Sparse
  <2>2. CASE i = Len(q) + 1 \/ j = Len(q) + 1
    BY <1>1, <1>2, <1>3, <2>2 DEF HasDrain
  <2> QED
    BY <1>2, <2>1, <2>2
<1>4. ASSUME NEW i \in 1 .. Len(s), s[i].kind = "text" PROVE i <= MaxQueued
  <2>1. CASE i = Len(q) + 1
    BY <1>1, <1>4, <2>1
  <2>2. CASE i \in 1 .. Len(q)
    BY <1>1, <1>4, <2>2 DEF Sparse
  <2> QED
    BY <1>2, <2>1, <2>2
<1>5. HasDrain(s) <=> HasDrain(q) \/ e.kind = "drain"
  <2>1. ASSUME HasDrain(s) PROVE HasDrain(q) \/ e.kind = "drain"
    BY <1>1, <1>2, <2>1 DEF HasDrain
  <2>2. ASSUME HasDrain(q) PROVE HasDrain(s)
    <3>1. PICK i \in 1 .. Len(q) : q[i].kind = "drain"
      BY <2>2 DEF HasDrain
    <3>2. i \in 1 .. Len(s) /\ s[i].kind = "drain"
      BY <1>1, <3>1
    <3> QED
      BY <3>2 DEF HasDrain
  <2>3. ASSUME e.kind = "drain" PROVE HasDrain(s)
    <3>1. Len(q) + 1 \in 1 .. Len(s) /\ s[Len(q) + 1].kind = "drain"
      BY <1>1, <2>3
    <3> QED
      BY <3>1 DEF HasDrain
  <2> QED
    BY <2>1, <2>2, <2>3
<1> QED
  BY <1>3, <1>4, <1>5 DEF Sparse, s

LEMMA QueueTail ==
    ASSUME NEW q \in Seq(Event), q # <<>>, NEW heard \in Seq(Event),
           NEW read \in Seq(Event), Begins(read, heard), GoesOn(q, heard, read),
           Sparse(q)
    PROVE  /\ Head(q) \in Event /\ Tail(q) \in Seq(Event)
           /\ Begins(Append(read, Head(q)), heard)
           /\ GoesOn(Tail(q), heard, Append(read, Head(q)))
           /\ Sparse(Tail(q))
           /\ HasDrain(Tail(q)) <=> HasDrain(q) /\ Head(q).kind # "drain"
<1> DEFINE e == Head(q)
           s == Tail(q)
           more == Append(read, e)
<1>1. /\ e \in Event /\ s \in Seq(Event) /\ e = q[1]
      /\ Len(q) \in Nat /\ Len(q) >= 1 /\ Len(s) = Len(q) - 1
      /\ \A i \in 1 .. Len(s) : s[i] = q[i + 1]
      /\ Len(heard) \in Nat /\ Len(read) \in Nat
  OBVIOUS
<1>2. /\ Len(more) = Len(read) + 1 /\ more[Len(read) + 1] = e
      /\ \A i \in 1 .. Len(read) : more[i] = read[i]
  BY <1>1
<1> HIDE DEF e, s, more
<1>3. e = heard[Len(read) + 1] /\ Len(read) + 1 <= Len(heard)
  BY <1>1 DEF GoesOn
<1>4. Begins(more, heard)
  BY <1>1, <1>2, <1>3 DEF Begins
<1>5. GoesOn(s, heard, more)
  <2>1. Len(s) = Len(heard) - Len(more)
    BY <1>1, <1>2 DEF GoesOn
  <2>2. ASSUME NEW i \in 1 .. Len(s) PROVE s[i] = heard[Len(more) + i]
    <3>0. i \in Nat /\ 1 <= i /\ i <= Len(q) - 1
      BY <1>1
    <3>1. i + 1 \in 1 .. Len(q) /\ Len(read) + (i + 1) = Len(more) + i
      <4>1. i + 1 \in 1 .. Len(q)
        BY <1>1, <3>0
      <4>2. Len(read) + (i + 1) = Len(more) + i
        BY <1>1, <1>2, <3>0
      <4> QED
        BY <4>1, <4>2
    <3>2. q[i + 1] = heard[Len(read) + (i + 1)]
      BY <3>1 DEF GoesOn
    <3> QED
      BY <1>1, <3>1, <3>2
  <2> QED
    BY <2>1, <2>2 DEF GoesOn
<1>6. Sparse(s)
  <2>1. ASSUME NEW i \in 1 .. Len(s), NEW j \in 1 .. Len(s),
               s[i].kind = "drain", s[j].kind = "drain"
        PROVE  i = j
    <3>1. i + 1 \in 1 .. Len(q) /\ j + 1 \in 1 .. Len(q)
      BY <1>1
    <3>2. i + 1 = j + 1
      BY <1>1, <2>1, <3>1 DEF Sparse
    <3> QED
      BY <3>2
  <2>2. ASSUME NEW i \in 1 .. Len(s), s[i].kind = "text" PROVE i <= MaxQueued
    <3>1. i + 1 \in 1 .. Len(q)
      BY <1>1
    <3>2. i + 1 <= MaxQueued /\ MaxQueued \in Nat
      BY <1>1, <2>2, <3>1, BoundsAssumption DEF Sparse
    <3> QED
      BY <3>2
  <2> QED
    BY <2>1, <2>2 DEF Sparse
<1>7. HasDrain(s) <=> HasDrain(q) /\ e.kind # "drain"
  <2>1. ASSUME HasDrain(s) PROVE HasDrain(q) /\ e.kind # "drain"
    <3>1. PICK i \in 1 .. Len(s) : s[i].kind = "drain"
      BY <2>1 DEF HasDrain
    <3>2. i + 1 \in 1 .. Len(q) /\ 1 \in 1 .. Len(q) /\ i + 1 # 1
      BY <1>1
    <3>3. q[i + 1].kind = "drain"
      BY <1>1, <3>1
    <3> QED
      BY <1>1, <3>2, <3>3 DEF HasDrain, Sparse
  <2>2. ASSUME HasDrain(q), e.kind # "drain" PROVE HasDrain(s)
    <3>1. PICK i \in 1 .. Len(q) : q[i].kind = "drain"
      BY <2>2 DEF HasDrain
    <3>2. i # 1
      BY <1>1, <2>2, <3>1
    <3>3. i - 1 \in 1 .. Len(s) /\ (i - 1) + 1 = i
      BY <1>1, <3>2
    <3>4. s[i - 1].kind = "drain"
      BY <1>1, <3>1, <3>3
    <3> QED
      BY <3>3, <3>4 DEF HasDrain
  <2> QED
    BY <2>1, <2>2
<1> QED
  BY <1>1, <1>4, <1>5, <1>6, <1>7 DEF e, s, more

LEMMA HandOver ==
    ASSUME NEW heard \in Seq(Event), NEW read \in Seq(Event), NEW e \in Event,
           Begins(read, heard), GoesOn(<<>>, heard, read)
    PROVE  /\ Begins(Append(read, e), Append(heard, e))
           /\ GoesOn(<<>>, Append(heard, e), Append(read, e))
<1>1. /\ Len(heard) = Len(read) /\ Len(heard) \in Nat
      /\ \A i \in 1 .. Len(read) : read[i] = heard[i]
  BY DEF GoesOn, Begins
<1>2. /\ Len(Append(heard, e)) = Len(heard) + 1 /\ Append(heard, e)[Len(heard) + 1] = e
      /\ \A i \in 1 .. Len(heard) : Append(heard, e)[i] = heard[i]
  OBVIOUS
<1>3. /\ Len(Append(read, e)) = Len(read) + 1 /\ Append(read, e)[Len(read) + 1] = e
      /\ \A i \in 1 .. Len(read) : Append(read, e)[i] = read[i]
  OBVIOUS
<1>4. \A i \in 1 .. Len(read) + 1 : Append(read, e)[i] = Append(heard, e)[i]
  <2> TAKE i \in 1 .. Len(read) + 1
  <2>1. CASE i = Len(read) + 1
    BY <1>1, <1>2, <1>3, <2>1
  <2>2. CASE i \in 1 .. Len(read)
    BY <1>1, <1>2, <1>3, <2>2
  <2> QED
    BY <1>1, <2>1, <2>2
<1> QED
  BY <1>1, <1>2, <1>3, <1>4 DEF Begins, GoesOn

\* A queue with nothing in it.
LEMMA EmptyQueue == Sparse(<<>>) /\ ~ HasDrain(<<>>) /\ <<>> \in Seq(Event)
BY DEF Sparse, HasDrain

\* The events among the answers of an operation.
EventsOf(wakes) ==
    SetToSeq({a \in {wakes[t] : t \in DOMAIN wakes} : IsEvent(a)})

LEMMA NoEvents ==
    ASSUME NEW wakes, \A t \in DOMAIN wakes : ~ IsEvent(wakes[t])
    PROVE  EventsOf(wakes) = <<>>
<1>1. {a \in {wakes[t] : t \in DOMAIN wakes} : IsEvent(a)} = {}
  OBVIOUS
<1>2. SetToSeq({}) \in [1 .. 0 -> {}]
  <2> DEFINE P(f) == f \in [1 .. 0 -> {}] /\ IsInjective(f)
  <2>1. Cardinality({}) = 0
    BY FS_EmptySet
  <2>2. P(<<>>)
    BY DEF IsInjective
  <2> QED
    BY <2>1, <2>2 DEF SetToSeq
<1>3. SetToSeq({}) = <<>>
  BY <1>2
<1> QED
  BY <1>1, <1>3 DEF EventsOf

LEMMA OneEvent ==
    ASSUME NEW wakes, NEW e, IsEvent(e), NEW u \in DOMAIN wakes, wakes[u] = e,
           \A t \in DOMAIN wakes : wakes[t] = e \/ ~ IsEvent(wakes[t])
    PROVE  EventsOf(wakes) = <<e>>
<1>1. {a \in {wakes[t] : t \in DOMAIN wakes} : IsEvent(a)} = {e}
  OBVIOUS
<1>2. SetToSeq({e}) \in [1 .. 1 -> {e}]
  <2> DEFINE P(f) == f \in [1 .. 1 -> {e}] /\ IsInjective(f)
  <2>1. Cardinality({e}) = 1
    BY FS_Singleton
  <2>2. P(<<e>>)
    BY DEF IsInjective
  <2> QED
    BY <2>1, <2>2 DEF SetToSeq
<1> QED
  BY <1>1, <1>2 DEF EventsOf

\* Nothing is told or taken: nobody is woken with an event.
LEMMA QuietEvents == EventsOf(<<>>) = <<>>
BY NoEvents

LEMMA WakeAllFacts ==
    ASSUME NEW p \in PumpRecord, NEW kind \in {"end", "failed", "interrupted"}
    PROVE  /\ EventsOf(WakeAll(p, kind).wakes) = <<>>
           /\ WakeAll(p, kind).pump = [p EXCEPT !.waiters = <<>>]
<1>1. \A t \in DOMAIN WakeAll(p, kind).wakes : ~ IsEvent(WakeAll(p, kind).wakes[t])
  BY DEF WakeAll, Told, IsEvent
<1> QED
  BY <1>1, NoEvents DEF WakeAll

LEMMA HandFacts ==
    ASSUME NEW p, NEW e \in Event
    PROVE  EventsOf(Hand(p, e).wakes) = <<e>>
<1> DEFINE wakes == [t \in {Head(p.waiters)} |-> e]
<1>1. IsEvent(e)
  BY DEF IsEvent, Event
<1>2. /\ Head(p.waiters) \in DOMAIN wakes /\ wakes[Head(p.waiters)] = e
      /\ \A t \in DOMAIN wakes : wakes[t] = e
  OBVIOUS
<1>3. Hand(p, e).wakes = wakes
  BY DEF Hand
<1> HIDE DEF wakes
<1> QED
  BY <1>1, <1>2, <1>3, OneEvent

\* settle.
LEMMA SettleKeeps ==
    ASSUME NEW p, NEW heard, NEW read, Follows(p, heard, read),
           NEW kind \in {"end", "failed"}
    PROVE  /\ Follows(SettlePump(p, kind).pump, heard, read)
           /\ EventsOf(SettlePump(p, kind).wakes) = <<>>
<1>0. p \in PumpRecord
  BY DEF Follows
<1>1. CASE p.terminal # "none"
  BY <1>1, QuietEvents DEF SettlePump, Quietly
<1>2. CASE p.terminal = "none"
  <2> DEFINE q == IF kind = "failed" THEN <<>> ELSE p.queue
             z == [p EXCEPT !.terminal = kind, !.queue = q]
             y == [z EXCEPT !.waiters = <<>>]
  <2>1. SettlePump(p, kind) = WakeAll(z, kind)
    BY <1>2 DEF SettlePump
  <2>2. q \in Seq(Event) /\ Sparse(q)
    BY <1>0, EmptyQueue DEF Follows, PumpRecord
  <2>3. q = <<>> \/ (q = p.queue /\ kind = "end")
    OBVIOUS
  <2> HIDE DEF q
  <2>4. z \in PumpRecord
    BY <1>0, <2>2 DEF PumpRecord
  <2>5. z.queue = q /\ z.terminal = kind /\ z.disposed = p.disposed
    BY <1>0 DEF PumpRecord
  <2> HIDE DEF z
  <2>6. y \in PumpRecord
    <3>1. <<>> \in Seq(Tasks)
      OBVIOUS
    <3> QED
      BY <2>4, <3>1 DEF PumpRecord
  <2>7. /\ y.queue = q /\ y.terminal = kind /\ y.disposed = p.disposed
        /\ y.waiters = <<>>
    BY <2>4, <2>5 DEF PumpRecord
  <2>8. SettlePump(p, kind).pump = y /\ EventsOf(SettlePump(p, kind).wakes) = <<>>
    BY <2>1, <2>4, WakeAllFacts
  <2> HIDE DEF y
  <2>9. Follows(y, heard, read)
    <3>1. Gone(y) => q = <<>>
      BY <2>3, <2>7 DEF Gone, Follows
    <3>2. ~ Gone(y) => GoesOn(q, heard, read)
      <4>1. ASSUME ~ Gone(y) PROVE kind = "end" /\ ~ Gone(p)
        BY <1>2, <2>7, <4>1 DEF Gone
      <4>2. ASSUME kind = "end" PROVE q = p.queue
        BY <4>2 DEF q
      <4> QED
        BY <4>1, <4>2 DEF Follows
    <3>3. Deaf(y)
      BY <2>7 DEF Deaf
    <3> QED
      BY <2>2, <2>6, <2>7, <3>1, <3>2, <3>3 DEF Follows
  <2> QED
    BY <2>8, <2>9
<1> QED
  BY <1>1, <1>2

\* fail.
LEMMA FailKeeps ==
    ASSUME NEW p, NEW heard, NEW read, Follows(p, heard, read)
    PROVE  /\ Follows(FailPump(p).pump, heard, read)
           /\ EventsOf(FailPump(p).wakes) = <<>>
BY SettleKeeps, QuietEvents DEF FailPump, Quietly

LEMMA ReadOn ==
    ASSUME NEW read \in Seq(Event), NEW e \in Event
    PROVE  read \o <<>> = read /\ read \o <<e>> = Append(read, e)
OBVIOUS

LEMMA InterruptKeeps ==
    ASSUME NEW p, NEW heard, NEW read, Follows(p, heard, read)
    PROVE  /\ Follows(Interrupt(p).pump, heard, read)
           /\ EventsOf(Interrupt(p).wakes) = <<>>
<1> DEFINE z == [p EXCEPT !.interrupted = TRUE]
           y == [z EXCEPT !.waiters = <<>>]
<1>0. p \in PumpRecord /\ <<>> \in Seq(Tasks)
  BY DEF Follows
<1>1. Interrupt(p) = WakeAll(z, "interrupted")
  BY DEF Interrupt
<1>2. z \in PumpRecord
  BY <1>0 DEF PumpRecord
<1>3. Interrupt(p).pump = y /\ EventsOf(Interrupt(p).wakes) = <<>>
  BY <1>1, <1>2, WakeAllFacts
<1>4. /\ z.queue = p.queue /\ z.terminal = p.terminal
      /\ z.disposed = p.disposed /\ z.drainPending = p.drainPending
  BY <1>0 DEF PumpRecord
<1> HIDE DEF z
<1>5. y \in PumpRecord
  BY <1>0, <1>2 DEF PumpRecord
<1>6. /\ y.queue = p.queue /\ y.terminal = p.terminal /\ y.waiters = <<>>
      /\ y.disposed = p.disposed /\ y.drainPending = p.drainPending
  BY <1>2, <1>4 DEF PumpRecord
<1> HIDE DEF y
<1>7. Follows(y, heard, read)
  BY <1>5, <1>6 DEF Follows, Gone, Deaf
<1> QED
  BY <1>3, <1>7

LEMMA DisposeKeeps ==
    ASSUME NEW p, NEW heard, NEW read, Follows(p, heard, read)
    PROVE  Follows(Dispose(p), heard, read)
<1>0. p \in PumpRecord /\ <<>> \in Seq(Event)
  BY DEF Follows
<1>1. Dispose(p) \in PumpRecord
  BY <1>0 DEF Dispose, PumpRecord
<1>2. Dispose(p).queue = <<>> /\ Dispose(p).disposed
  BY <1>0 DEF Dispose, PumpRecord
<1> QED
  BY <1>1, <1>2, EmptyQueue DEF Follows, Gone, Deaf

\* The first waiter is handed an event that was just told.
LEMMA HandKeeps ==
    ASSUME NEW p, NEW heard, NEW read, Follows(p, heard, read), ~ Deaf(p),
           p.waiters # <<>>, NEW e \in Event
    PROVE  /\ Follows(Hand(p, e).pump, Append(heard, e), Append(read, e))
           /\ ~ Deaf(Hand(p, e).pump) /\ Hand(p, e).pump.terminal = "none"
<1> DEFINE y == [p EXCEPT !.waiters = Tail(p.waiters)]
<1>0. /\ p \in PumpRecord /\ heard \in Seq(Event) /\ read \in Seq(Event)
      /\ Begins(read, heard)
  BY DEF Follows
<1>1. Tail(p.waiters) \in Seq(Tasks)
  <2>1. p.waiters \in Seq(Tasks)
    BY <1>0 DEF PumpRecord
  <2> QED
    BY <2>1
<1>2. Hand(p, e).pump = y
  BY DEF Hand
<1>3. y \in PumpRecord
  BY <1>0, <1>1 DEF PumpRecord
<1>4. /\ y.queue = p.queue /\ y.terminal = p.terminal
      /\ y.disposed = p.disposed /\ y.drainPending = p.drainPending
  BY <1>0 DEF PumpRecord
<1> HIDE DEF y
<1>5. p.queue = <<>> /\ p.terminal = "none" /\ ~ p.disposed /\ ~ Gone(p)
  BY DEF Follows, Deaf, Gone
<1>6. GoesOn(<<>>, heard, read)
  BY <1>5 DEF Follows
<1>7. /\ Begins(Append(read, e), Append(heard, e))
      /\ GoesOn(<<>>, Append(heard, e), Append(read, e))
  BY <1>0, <1>6, HandOver
<1>8. ~ p.drainPending
  BY <1>5, EmptyQueue DEF Follows
<1>9. Append(heard, e) \in Seq(Event) /\ Append(read, e) \in Seq(Event)
  BY <1>0
<1>10. ~ Gone(y) /\ ~ Deaf(y)
  BY <1>4, <1>5 DEF Gone, Deaf
<1>11. Follows(y, Append(heard, e), Append(read, e))
  BY <1>3, <1>4, <1>5, <1>7, <1>8, <1>9, <1>10, EmptyQueue DEF Follows
<1> QED
  BY <1>2, <1>4, <1>5, <1>10, <1>11

\* An event that was just told is queued.
LEMMA QueuedKeeps ==
    ASSUME NEW p, NEW heard, NEW read, Follows(p, heard, read), ~ Deaf(p),
           p.waiters = <<>>, NEW e \in Event,
           e.kind = "text" => Len(p.queue) < MaxQueued,
           e.kind = "drain" => ~ p.drainPending,
           NEW y \in PumpRecord, y.queue = Append(p.queue, e), y.waiters = <<>>,
           y.terminal = p.terminal, y.disposed = p.disposed,
           y.drainPending <=> p.drainPending \/ e.kind = "drain"
    PROVE  Follows(y, Append(heard, e), read) /\ ~ Deaf(y)
<1>0. /\ p \in PumpRecord /\ heard \in Seq(Event) /\ read \in Seq(Event)
      /\ Begins(read, heard) /\ Sparse(p.queue)
  BY DEF Follows
<1>1. p.queue \in Seq(Event) /\ Append(heard, e) \in Seq(Event)
  BY <1>0 DEF PumpRecord
<1>2. ~ Gone(p) /\ ~ Gone(y) /\ ~ Deaf(y)
  BY DEF Deaf, Gone
<1>3. GoesOn(p.queue, heard, read) /\ (p.drainPending <=> HasDrain(p.queue))
  BY <1>2 DEF Follows
<1>4. /\ Begins(read, Append(heard, e))
      /\ GoesOn(Append(p.queue, e), Append(heard, e), read)
  BY <1>0, <1>1, <1>3, QueueAppend
<1>5. /\ Sparse(Append(p.queue, e))
      /\ HasDrain(Append(p.queue, e)) <=> HasDrain(p.queue) \/ e.kind = "drain"
  BY <1>0, <1>1, <1>3, SparseAppend
<1> QED
  BY <1>0, <1>1, <1>2, <1>3, <1>4, <1>5 DEF Follows

\* push, and what readers get by it.
LEMMA PushKeeps ==
    ASSUME NEW p, NEW heard, NEW read, Follows(p, heard, read),
           NEW e \in Event, e.kind = "text"
    PROVE  LET result == Push(p, e, MaxQueued)
           IN  Follows(result.pump,
                       IF Deaf(result.pump) THEN heard ELSE Append(heard, e),
                       read \o EventsOf(result.wakes))
<1> DEFINE result == Push(p, e, MaxQueued)
<1>0. p \in PumpRecord /\ read \in Seq(Event)
  BY DEF Follows
<1>1. CASE Deaf(p)
  <2>1. result = Quietly(p)
    BY <1>1 DEF Push
  <2>2. result.pump = p /\ result.wakes = <<>>
    BY <2>1 DEF Quietly
  <2> QED
    BY <1>0, <1>1, <2>2, QuietEvents, ReadOn
<1>2. CASE ~ Deaf(p) /\ p.waiters # <<>>
  <2>1. result = Hand(p, e)
    BY <1>2 DEF Push
  <2>2. EventsOf(result.wakes) = <<e>>
    BY <2>1, HandFacts
  <2>3. /\ Follows(result.pump, Append(heard, e), Append(read, e))
        /\ ~ Deaf(result.pump)
    BY <1>2, <2>1, HandKeeps
  <2>4. read \o EventsOf(result.wakes) = Append(read, e)
    BY <1>0, <2>2, ReadOn
  <2> HIDE DEF result
  <2> QED
    BY <2>3, <2>4 DEF result
<1>3. CASE ~ Deaf(p) /\ p.waiters = <<>> /\ Len(p.queue) >= MaxQueued
  <2>1. result = SettlePump(p, "failed")
    BY <1>3 DEF Push
  <2>2. /\ Follows(result.pump, heard, read) /\ EventsOf(result.wakes) = <<>>
    BY <2>1, SettleKeeps
  <2>3. result.pump.terminal = "failed"
    <3> DEFINE z == [p EXCEPT !.terminal = "failed", !.queue = <<>>]
    <3>1. result.pump = [z EXCEPT !.waiters = <<>>]
      BY <1>3, <2>1 DEF SettlePump, WakeAll, Deaf
    <3>2. z \in PumpRecord /\ z.terminal = "failed"
      BY <1>0, EmptyQueue DEF PumpRecord
    <3> HIDE DEF z
    <3> QED
      BY <3>1, <3>2 DEF PumpRecord
  <2> HIDE DEF result
  <2> QED
    BY <1>0, <2>2, <2>3, ReadOn DEF Deaf, result
<1>4. CASE ~ Deaf(p) /\ p.waiters = <<>> /\ ~ (Len(p.queue) >= MaxQueued)
  <2> DEFINE y == [p EXCEPT !.queue = Append(p.queue, e)]
  <2>1. result.pump = y /\ result.wakes = <<>>
    BY <1>4 DEF Push, Quietly
  <2>2. p.queue \in Seq(Event) /\ Append(p.queue, e) \in Seq(Event)
    BY <1>0 DEF PumpRecord
  <2>3. Len(p.queue) < MaxQueued
    <3>1. Len(p.queue) \in Nat /\ MaxQueued \in Nat
      BY <2>2, BoundsAssumption
    <3> QED
      BY <1>4, <3>1
  <2>4. y \in PumpRecord
    BY <1>0, <2>2 DEF PumpRecord
  <2>5. /\ y.queue = Append(p.queue, e) /\ y.waiters = p.waiters
        /\ y.terminal = p.terminal /\ y.disposed = p.disposed
        /\ y.drainPending = p.drainPending
    BY <1>0 DEF PumpRecord
  <2> HIDE DEF y
  <2>6. Follows(y, Append(heard, e), read) /\ ~ Deaf(y)
    BY <1>4, <2>3, <2>4, <2>5, QueuedKeeps
  <2> QED
    BY <1>0, <2>1, <2>6, QuietEvents, ReadOn
<1> QED
  BY <1>1, <1>2, <1>3, <1>4

\* pushDrain: coalesced while one waits to be read.
LEMMA PushDrainKeeps ==
    ASSUME NEW p, NEW heard, NEW read, Follows(p, heard, read),
           NEW e \in Event, e.kind = "drain"
    PROVE  LET result == PushDrain(p, e)
           IN  Follows(result.pump,
                       IF Deaf(p) \/ HasDrain(p.queue) THEN heard
                       ELSE Append(heard, e),
                       read \o EventsOf(result.wakes))
<1> DEFINE result == PushDrain(p, e)
<1>0. p \in PumpRecord /\ read \in Seq(Event)
  BY DEF Follows
<1>1. ASSUME ~ Deaf(p) PROVE p.drainPending <=> HasDrain(p.queue)
  BY <1>1 DEF Follows
<1>2. CASE Deaf(p) \/ HasDrain(p.queue)
  <2>1. result = Quietly(p)
    BY <1>1, <1>2 DEF PushDrain
  <2>2. result.pump = p /\ result.wakes = <<>>
    BY <2>1 DEF Quietly
  <2> QED
    BY <1>0, <1>2, <2>2, QuietEvents, ReadOn
<1>3. CASE ~ (Deaf(p) \/ HasDrain(p.queue)) /\ p.waiters # <<>>
  <2>1. result = Hand(p, e)
    BY <1>1, <1>3 DEF PushDrain
  <2>2. EventsOf(result.wakes) = <<e>>
    BY <2>1, HandFacts
  <2>3. Follows(result.pump, Append(heard, e), Append(read, e))
    BY <1>3, <2>1, HandKeeps
  <2>4. read \o EventsOf(result.wakes) = Append(read, e)
    BY <1>0, <2>2, ReadOn
  <2> QED
    BY <1>3, <2>3, <2>4
<1>4. CASE ~ (Deaf(p) \/ HasDrain(p.queue)) /\ p.waiters = <<>>
  <2> DEFINE y == [p EXCEPT !.drainPending = TRUE, !.queue = Append(p.queue, e)]
  <2>1. result.pump = y /\ result.wakes = <<>>
    BY <1>1, <1>4 DEF PushDrain, Quietly
  <2>2. p.queue \in Seq(Event) /\ Append(p.queue, e) \in Seq(Event)
    BY <1>0 DEF PumpRecord
  <2>3. y \in PumpRecord
    BY <1>0, <2>2 DEF PumpRecord
  <2>4. /\ y.queue = Append(p.queue, e) /\ y.waiters = p.waiters
        /\ y.terminal = p.terminal /\ y.disposed = p.disposed
        /\ y.drainPending
    BY <1>0 DEF PumpRecord
  <2> HIDE DEF y
  <2>5. Follows(y, Append(heard, e), read)
    BY <1>1, <1>4, <2>3, <2>4, QueuedKeeps
  <2> QED
    BY <1>0, <1>4, <2>1, <2>5, QuietEvents, ReadOn
<1> QED
  BY <1>2, <1>3, <1>4

\* pushClose: the close is the last event; who else waits is told the end.
LEMMA PushCloseKeeps ==
    ASSUME NEW p, NEW heard, NEW read, Follows(p, heard, read),
           NEW e \in Event, e.kind = "close"
    PROVE  LET result == PushClose(p, e)
           IN  Follows(result.pump, IF Deaf(p) THEN heard ELSE Append(heard, e),
                       read \o EventsOf(result.wakes))
<1> DEFINE result == PushClose(p, e)
<1>0. p \in PumpRecord /\ read \in Seq(Event)
  BY DEF Follows
<1>1. CASE Deaf(p)
  <2>1. result = Quietly(p)
    BY <1>1 DEF PushClose
  <2>2. result.pump = p /\ result.wakes = <<>>
    BY <2>1 DEF Quietly
  <2> QED
    BY <1>0, <1>1, <2>2, QuietEvents, ReadOn
<1>2. CASE ~ Deaf(p) /\ p.waiters # <<>>
  <2> DEFINE wakes == [t \in ToSet(p.waiters) |->
                         IF t = Head(p.waiters) THEN e ELSE Told("end")]
             handed == Hand(p, e).pump
  <2>1. result.wakes = wakes /\ result.pump = SettlePump(handed, "end").pump
    BY <1>2 DEF PushClose
  <2>2. Head(p.waiters) \in ToSet(p.waiters)
    <3>1. p.waiters \in Seq(Tasks)
      BY <1>0 DEF PumpRecord
    <3>2. 1 \in DOMAIN p.waiters /\ p.waiters[1] = Head(p.waiters)
      BY <1>2, <3>1
    <3> QED
      BY <3>2 DEF ToSet
  <2>3. IsEvent(e) /\ ~ IsEvent(Told("end"))
    BY DEF IsEvent, Told, Event
  <2>4. /\ Head(p.waiters) \in DOMAIN wakes /\ wakes[Head(p.waiters)] = e
        /\ \A t \in DOMAIN wakes : wakes[t] = e \/ ~ IsEvent(wakes[t])
    BY <2>2, <2>3
  <2> HIDE DEF wakes
  <2>5. EventsOf(wakes) = <<e>>
    BY <2>3, <2>4, OneEvent
  <2>6. Follows(handed, Append(heard, e), Append(read, e))
    BY <1>2, HandKeeps
  <2> HIDE DEF handed
  <2>7. Follows(result.pump, Append(heard, e), Append(read, e))
    BY <2>1, <2>6, SettleKeeps
  <2>8. read \o EventsOf(result.wakes) = Append(read, e)
    BY <1>0, <2>1, <2>5, ReadOn
  <2> QED
    BY <1>2, <2>7, <2>8
<1>3. CASE ~ Deaf(p) /\ p.waiters = <<>>
  <2> DEFINE y == [p EXCEPT !.queue = Append(p.queue, e)]
  <2>1. result = SettlePump(y, "end")
    BY <1>3 DEF PushClose
  <2>2. p.queue \in Seq(Event) /\ Append(p.queue, e) \in Seq(Event)
    BY <1>0 DEF PumpRecord
  <2>3. y \in PumpRecord
    BY <1>0, <2>2 DEF PumpRecord
  <2>4. /\ y.queue = Append(p.queue, e) /\ y.waiters = p.waiters
        /\ y.terminal = p.terminal /\ y.disposed = p.disposed
        /\ y.drainPending = p.drainPending
    BY <1>0 DEF PumpRecord
  <2> HIDE DEF y
  <2>5. Follows(y, Append(heard, e), read)
    BY <1>3, <2>3, <2>4, QueuedKeeps
  <2>6. Follows(result.pump, Append(heard, e), read) /\ EventsOf(result.wakes) = <<>>
    BY <2>1, <2>5, SettleKeeps
  <2> QED
    BY <1>0, <1>3, <2>6, ReadOn
<1> QED
  BY <1>1, <1>2, <1>3

\* take: the head of the queue, or nothing.
LEMMA TakeKeeps ==
    ASSUME NEW p, NEW heard, NEW read, Follows(p, heard, read), NEW t \in Tasks
    PROVE  Follows(Take(p, t), heard,
                   IF IsEvent(Answer(p)) THEN Append(read, Answer(p)) ELSE read)
<1>0. /\ p \in PumpRecord /\ read \in Seq(Event) /\ heard \in Seq(Event)
      /\ Begins(read, heard) /\ Sparse(p.queue)
      /\ p.queue \in Seq(Event) /\ p.waiters \in Seq(Tasks)
      /\ p.terminal \in {"none", "failed", "end"}
  BY DEF Follows, PumpRecord
<1>1. CASE p.queue # <<>>
  <2> DEFINE e == Head(p.queue)
             d == p.drainPending /\ Head(p.queue).kind # "drain"
             y == [p EXCEPT !.queue = Tail(p.queue), !.drainPending = d]
  <2>1. Answer(p) = e /\ Take(p, t) = y
    BY <1>1 DEF Answer, Take
  <2>2. ~ Gone(p) /\ p.waiters = <<>> /\ GoesOn(p.queue, heard, read)
    BY <1>1 DEF Follows
  <2>3. /\ e \in Event /\ Tail(p.queue) \in Seq(Event)
        /\ Begins(Append(read, e), heard)
        /\ GoesOn(Tail(p.queue), heard, Append(read, e))
        /\ Sparse(Tail(p.queue))
        /\ HasDrain(Tail(p.queue)) <=> HasDrain(p.queue) /\ e.kind # "drain"
    BY <1>0, <1>1, <2>2, QueueTail
  <2>4. d \in BOOLEAN
    OBVIOUS
  <2>5. ASSUME ~ Deaf(p) PROVE d <=> HasDrain(Tail(p.queue))
    BY <2>3, <2>5 DEF Follows
  <2> HIDE DEF d
  <2>6. y \in PumpRecord
    BY <1>0, <2>3, <2>4 DEF PumpRecord
  <2>7. /\ y.queue = Tail(p.queue) /\ y.waiters = p.waiters
        /\ y.terminal = p.terminal /\ y.disposed = p.disposed
    BY <1>0 DEF PumpRecord
  <2>8. y.drainPending = d
    BY <1>0 DEF PumpRecord
  <2>9. Append(read, e) \in Seq(Event) /\ IsEvent(e)
    BY <1>0, <2>3 DEF IsEvent, Event
  <2> HIDE DEF y, e
  <2>10. ~ Gone(y) /\ (Deaf(y) <=> Deaf(p))
    BY <2>2, <2>7 DEF Gone, Deaf
  <2>11. Follows(y, heard, Append(read, e))
    BY <1>0, <2>2, <2>3, <2>5, <2>6, <2>7, <2>8, <2>9, <2>10 DEF Follows
  <2> QED
    BY <2>1, <2>9, <2>11
<1>2. CASE p.queue = <<>>
  <2>1. ~ IsEvent(Answer(p))
    BY <1>0, <1>2 DEF Answer, Told, IsEvent
  <2>2. CASE Answer(p).kind = "wait"
    <3> DEFINE y == [p EXCEPT !.waiters = Append(p.waiters, t)]
    <3>1. Take(p, t) = y
      BY <1>2, <2>2 DEF Take
    <3>2. Append(p.waiters, t) \in Seq(Tasks)
      BY <1>0
    <3>3. y \in PumpRecord
      BY <1>0, <3>2 DEF PumpRecord
    <3>4. /\ y.queue = p.queue /\ y.drainPending = p.drainPending
          /\ y.terminal = p.terminal /\ y.disposed = p.disposed
      BY <1>0 DEF PumpRecord
    <3> HIDE DEF y
    <3>5. Follows(y, heard, read)
      BY <1>2, <3>3, <3>4 DEF Follows, Gone, Deaf
    <3> QED
      BY <2>1, <3>1, <3>5
  <2>3. CASE Answer(p).kind # "wait"
    <3>1. Take(p, t) = p
      BY <1>2, <2>3 DEF Take
    <3> QED
      BY <2>1, <3>1
  <2> QED
    BY <2>2, <2>3
<1> QED
  BY <1>1, <1>2

\* What was told and not taken, as the model writes it.
LEMMA QueueIsRest ==
    ASSUME NEW q \in Seq(Event), NEW heard \in Seq(Event), NEW read \in Seq(Event),
           Begins(read, heard), GoesOn(q, heard, read)
    PROVE  q = SubSeq(heard, Len(read) + 1, Len(heard))
<1> DEFINE s == SubSeq(heard, Len(read) + 1, Len(heard))
<1>1. Len(heard) \in Nat /\ Len(read) \in Nat /\ Len(read) <= Len(heard)
  BY DEF Begins
<1>2. /\ s \in Seq(Event) /\ Len(s) = Len(heard) - Len(read)
      /\ \A i \in 1 .. Len(s) : s[i] = heard[Len(read) + i]
  BY <1>1
<1> HIDE DEF s
<1>3. Len(q) = Len(s) /\ \A i \in 1 .. Len(q) : q[i] = s[i]
  BY <1>2 DEF GoesOn
<1> QED
  BY <1>2, <1>3 DEF s

\* Every pump of every request.
PumpInv ==
    /\ pump \in [Requests -> PumpRecord] /\ hooks \in [Requests -> Nat]
    /\ told \in [Requests -> Seq(Event)] /\ taken \in [Requests -> Seq(Event)]
    /\ \A r \in Requests : Follows(pump[r], told[r], taken[r])

LEMMA PumpInit == Init => PumpInv
<1> SUFFICES ASSUME Init PROVE PumpInv
  OBVIOUS
<1>1. FreshPump \in PumpRecord /\ <<>> \in Seq(Event)
  BY DEF FreshPump, PumpRecord
<1>2. Begins(<<>>, <<>>) /\ GoesOn(<<>>, <<>>, <<>>)
  BY DEF Begins, GoesOn
<1>3. /\ FreshPump.queue = <<>> /\ FreshPump.waiters = <<>>
      /\ FreshPump.drainPending = FALSE
  BY DEF FreshPump
<1>4. Follows(FreshPump, <<>>, <<>>)
  BY <1>1, <1>2, <1>3, EmptyQueue DEF Follows
<1> QED
  BY <1>1, <1>4 DEF Init, PumpInv

\* A step about the pump of one request.
LEMMA PumpFrame ==
    ASSUME PumpInv, NEW r \in Requests, NEW p, NEW heard, NEW read,
           Follows(p, heard, read), hooks' \in [Requests -> Nat],
           pump' = [pump EXCEPT ![r] = p], told' = [told EXCEPT ![r] = heard],
           taken' = [taken EXCEPT ![r] = read]
    PROVE  PumpInv'
<1>1. p \in PumpRecord /\ heard \in Seq(Event) /\ read \in Seq(Event)
  BY DEF Follows
<1>2. /\ pump' \in [Requests -> PumpRecord]
      /\ told' \in [Requests -> Seq(Event)] /\ taken' \in [Requests -> Seq(Event)]
  BY <1>1 DEF PumpInv
<1>3. ASSUME NEW q \in Requests PROVE Follows(pump'[q], told'[q], taken'[q])
  <2>1. CASE q = r
    <3>1. pump'[q] = p /\ told'[q] = heard /\ taken'[q] = read
      BY <2>1 DEF PumpInv
    <3> QED
      BY <3>1
  <2>2. CASE q # r
    <3>1. pump'[q] = pump[q] /\ told'[q] = told[q] /\ taken'[q] = taken[q]
      BY <2>2 DEF PumpInv
    <3> QED
      BY <3>1 DEF PumpInv
  <2> QED
    BY <2>1, <2>2
<1> QED
  BY <1>2, <1>3 DEF PumpInv

\* The operations of the pump that tell readers something.
LEMMA DeliveredPump ==
    ASSUME NEW r, NEW result, NEW s, Delivered(r, result, s)
    PROVE  /\ pump' = [pump EXCEPT ![r] = result.pump]
           /\ taken' = [taken EXCEPT ![r] = taken[r] \o EventsOf(result.wakes)]
BY DEF Delivered, EventsOf

LEMMA MessagePumps ==
    ASSUME PumpInv, NEW r \in Requests, Message(r) PROVE PumpInv'
<1> DEFINE e == [kind |-> "text", n |-> hooks[r] + 1]
           result == Push(pump[r], e, MaxQueued)
           heard == IF Deaf(result.pump) THEN told[r] ELSE Append(told[r], e)
           read == taken[r] \o EventsOf(result.wakes)
<1>1. e \in Event /\ e.kind = "text" /\ hooks' \in [Requests -> Nat]
  BY DEF PumpInv, Event, Message, Hook
<1>2. Delivered(r, result, sess[r])
  BY DEF Message
<1>3. told' = [told EXCEPT ![r] = heard]
  BY DEF Message, PumpInv
<1> HIDE DEF e
<1>4. Follows(result.pump, heard, read)
  BY <1>1, PushKeeps DEF PumpInv
<1> HIDE DEF result, heard
<1>5. pump' = [pump EXCEPT ![r] = result.pump] /\ taken' = [taken EXCEPT ![r] = read]
  BY <1>2, DeliveredPump
<1> HIDE DEF read
<1> QED
  BY <1>1, <1>3, <1>4, <1>5, PumpFrame

LEMMA DrainPumps ==
    ASSUME PumpInv, NEW r \in Requests, Drain(r) PROVE PumpInv'
<1> DEFINE e == [kind |-> "drain", n |-> hooks[r] + 1]
           p == pump[r]
           result == PushDrain(p, e)
           pending == \E i \in DOMAIN Untaken(r) : Untaken(r)[i].kind = "drain"
           heard == IF Deaf(p) \/ HasDrain(p.queue) THEN told[r]
                    ELSE Append(told[r], e)
           read == taken[r] \o EventsOf(result.wakes)
<1>1. e \in Event /\ e.kind = "drain" /\ hooks' \in [Requests -> Nat]
  BY DEF PumpInv, Event, Drain, Hook
<1>2. Delivered(r, result, sess[r])
  BY DEF Drain
<1>3. Follows(p, told[r], taken[r])
  BY DEF PumpInv
<1>4. ASSUME ~ Deaf(p) PROVE pending <=> HasDrain(p.queue)
  <2>1. /\ p.queue \in Seq(Event) /\ told[r] \in Seq(Event) /\ taken[r] \in Seq(Event)
        /\ Begins(taken[r], told[r]) /\ GoesOn(p.queue, told[r], taken[r])
    BY <1>3, <1>4 DEF Follows, PumpRecord, Deaf, Gone
  <2>2. Untaken(r) = p.queue
    BY <2>1, QueueIsRest DEF Untaken
  <2>3. DOMAIN p.queue = 1 .. Len(p.queue)
    BY <2>1
  <2> QED
    BY <2>2, <2>3 DEF HasDrain
<1>5. told' = [told EXCEPT ![r] = heard]
  <2>1. told' = IF Deaf(p) \/ pending THEN told
                ELSE [told EXCEPT ![r] = Append(told[r], e)]
    BY DEF Drain
  <2>2. Deaf(p) \/ pending <=> Deaf(p) \/ HasDrain(p.queue)
    BY <1>4
  <2> HIDE DEF pending, p, e
  <2>3. CASE Deaf(p) \/ HasDrain(p.queue)
    BY <2>1, <2>2, <2>3 DEF PumpInv
  <2>4. CASE ~ (Deaf(p) \/ HasDrain(p.queue))
    BY <2>1, <2>2, <2>4
  <2> QED
    BY <2>3, <2>4
<1> HIDE DEF e, p
<1>6. Follows(result.pump, heard, read)
  BY <1>1, <1>3, PushDrainKeeps
<1> HIDE DEF result, heard
<1>7. pump' = [pump EXCEPT ![r] = result.pump] /\ taken' = [taken EXCEPT ![r] = read]
  BY <1>2, DeliveredPump
<1> HIDE DEF read
<1> QED
  BY <1>1, <1>5, <1>6, <1>7, PumpFrame

LEMMA PeerClosesPumps ==
    ASSUME PumpInv, NEW r \in Requests, PeerCloses(r) PROVE PumpInv'
<1> DEFINE e == [kind |-> "close", n |-> 0]
           result == PushClose(pump[r], e)
           heard == IF Deaf(pump[r]) THEN told[r] ELSE Append(told[r], e)
           read == taken[r] \o EventsOf(result.wakes)
<1>1. e \in Event /\ e.kind = "close" /\ hooks' \in [Requests -> Nat]
  BY DEF PumpInv, Event, PeerCloses
<1>2. Delivered(r, result, [sess[r] EXCEPT !.registered = FALSE])
  BY DEF PeerCloses
<1>3. told' = [told EXCEPT ![r] = heard]
  BY DEF PeerCloses, PumpInv
<1> HIDE DEF e
<1>4. Follows(result.pump, heard, read)
  BY <1>1, PushCloseKeeps DEF PumpInv
<1> HIDE DEF result, heard
<1>5. pump' = [pump EXCEPT ![r] = result.pump] /\ taken' = [taken EXCEPT ![r] = read]
  BY <1>2, DeliveredPump
<1> HIDE DEF read
<1> QED
  BY <1>1, <1>3, <1>4, <1>5, PumpFrame

\* BadMessage and cancelReader: readers are woken, but not with an event.
LEMMA WakingPumps ==
    ASSUME PumpInv, NEW r \in Requests, NEW result, NEW s,
           Delivered(r, result, s), told' = told, hooks' \in [Requests -> Nat],
           Follows(result.pump, told[r], taken[r]), EventsOf(result.wakes) = <<>>
    PROVE  PumpInv'
<1>1. /\ pump' = [pump EXCEPT ![r] = result.pump]
      /\ taken' = [taken EXCEPT ![r] = taken[r] \o EventsOf(result.wakes)]
  BY DeliveredPump
<1>2. taken[r] \in Seq(Event)
  BY DEF PumpInv
<1>3. taken[r] \o <<>> = taken[r]
  BY <1>2
<1>4. taken' = [taken EXCEPT ![r] = taken[r]] /\ told' = [told EXCEPT ![r] = told[r]]
  BY <1>1, <1>3 DEF PumpInv
<1> DEFINE p == result.pump
           heard == told[r]
           read == taken[r]
<1>5. /\ Follows(p, heard, read) /\ pump' = [pump EXCEPT ![r] = p]
      /\ told' = [told EXCEPT ![r] = heard] /\ taken' = [taken EXCEPT ![r] = read]
  BY <1>1, <1>4
<1> HIDE DEF p, heard, read
<1> QED
  BY <1>5, PumpFrame

LEMMA PullEventPumps ==
    ASSUME PumpInv, NEW t \in Tasks, PullEvent(t) PROVE PumpInv'
<1> DEFINE r == t[1]
           a == Answer(pump[r])
           read == IF IsEvent(a) THEN Append(taken[r], a) ELSE taken[r]
<1>1. r \in Requests
  BY TaskFacts
<1>2. /\ pump' = [pump EXCEPT ![r] = Take(pump[r], t)]
      /\ taken' = IF IsEvent(a)
                    THEN [taken EXCEPT ![r] = Append(taken[r], a)] ELSE taken
      /\ UNCHANGED <<hooks, told>>
  BY DEF PullEvent
<1>3. Follows(Take(pump[r], t), told[r], read)
  BY <1>1, TakeKeeps DEF PumpInv
<1>4. told' = [told EXCEPT ![r] = told[r]] /\ hooks' \in [Requests -> Nat]
  BY <1>1, <1>2 DEF PumpInv
<1> HIDE DEF r, a
<1>5. taken' = [taken EXCEPT ![r] = read]
  BY <1>1, <1>2 DEF PumpInv
<1> DEFINE p == Take(pump[r], t)
           heard == told[r]
<1>6. /\ Follows(p, heard, read) /\ pump' = [pump EXCEPT ![r] = p]
      /\ told' = [told EXCEPT ![r] = heard]
  BY <1>2, <1>3, <1>4
<1> HIDE DEF p, heard, read
<1> QED
  BY <1>1, <1>4, <1>5, <1>6, PumpFrame

\* Disposal, by the reader's close or by the end of the request.
LEMMA DisposePumps ==
    ASSUME PumpInv, NEW r \in Requests, Drained(r) \/ ReaderClosed(r)
    PROVE  PumpInv'
<1>1. /\ \/ pump' = [pump EXCEPT ![r] = Dispose(pump[r])]
         \/ pump' = [pump EXCEPT ![r] = pump[r]]
      /\ UNCHANGED <<hooks, told, taken>>
  BY DEF Drained, ReaderClosed
<1>2. /\ Follows(pump[r], told[r], taken[r])
      /\ Follows(Dispose(pump[r]), told[r], taken[r])
  BY DisposeKeeps DEF PumpInv
<1>3. /\ told' = [told EXCEPT ![r] = told[r]] /\ taken' = [taken EXCEPT ![r] = taken[r]]
      /\ hooks' \in [Requests -> Nat]
  BY <1>1 DEF PumpInv
<1> DEFINE p == pump'[r]
           heard == told[r]
           read == taken[r]
<1>4. pump' = [pump EXCEPT ![r] = p] /\ Follows(p, heard, read)
  BY <1>1, <1>2 DEF PumpInv
<1>5. told' = [told EXCEPT ![r] = heard] /\ taken' = [taken EXCEPT ![r] = read]
  BY <1>3
<1> HIDE DEF p, heard, read
<1> QED
  BY <1>3, <1>4, <1>5, PumpFrame

\* A prompt fails the pumps of the registered sessions.
LEMMA PromptPumps == ASSUME PumpInv, Prompt PROVE PumpInv'
<1>1. /\ pump' = [r \in Requests |-> IF r \in Registered
                    THEN FailPump(pump[r]).pump ELSE Quietly(pump[r]).pump]
      /\ UNCHANGED <<hooks, told, taken>>
  BY DEF Prompt
<1>2. ASSUME NEW r \in Requests PROVE Follows(pump'[r], told[r], taken[r])
  <2>1. pump'[r] = IF r \in Registered THEN FailPump(pump[r]).pump ELSE pump[r]
    BY <1>1 DEF Quietly
  <2>2. /\ Follows(pump[r], told[r], taken[r])
        /\ Follows(FailPump(pump[r]).pump, told[r], taken[r])
    BY FailKeeps DEF PumpInv
  <2> QED
    BY <2>1, <2>2
<1>3. \A r \in Requests : pump'[r] \in PumpRecord
  BY <1>2 DEF Follows
<1>4. pump' \in [Requests -> PumpRecord]
  <2>1. pump' = [r \in Requests |-> pump'[r]]
    BY <1>1
  <2> QED
    BY <1>3, <2>1
<1> QED
  BY <1>1, <1>2, <1>4 DEF PumpInv

LEMMA PumpNext == PumpInv /\ [Next]_vars => PumpInv'
<1> SUFFICES ASSUME PumpInv, [Next]_vars PROVE PumpInv'
  OBVIOUS
<1>0. ASSUME UNCHANGED <<pump, hooks, told, taken>> PROVE PumpInv'
  BY <1>0 DEF PumpInv
<1>1. ASSUME NEW t \in Tasks, TaskStep(t) PROVE PumpInv'
  <2>1. CASE PullEvent(t)
    BY <2>1, PullEventPumps
  <2>2. CASE CancelReader(t)
    <3> DEFINE s == IF sess[t[1]].reader = "open" THEN Shut(t) ELSE sess[t[1]]
    <3>1. /\ Delivered(t[1], Interrupt(pump[t[1]]), s)
          /\ told' = told /\ hooks' = hooks /\ t[1] \in Requests
      BY <2>2, TaskFacts DEF CancelReader
    <3> HIDE DEF s
    <3>2. /\ Follows(Interrupt(pump[t[1]]).pump, told[t[1]], taken[t[1]])
          /\ EventsOf(Interrupt(pump[t[1]]).wakes) = <<>>
      BY <3>1, InterruptKeeps DEF PumpInv
    <3>3. hooks' \in [Requests -> Nat]
      BY <3>1 DEF PumpInv
    <3> QED
      BY <3>1, <3>2, <3>3, WakingPumps
  <2>3. CASE UNCHANGED <<pump, hooks, told, taken>>
    BY <1>0, <2>3
  <2> QED
    BY <1>1, <2>1, <2>2, <2>3
    DEF TaskStep, RaceRefused, RaceStarts, NativeSettles, Observed, TimerFires,
        LateObserved, ReadMany, CloseReader, socketVars
<1>2. ASSUME NEW r \in Requests, RequestStep(r) PROVE PumpInv'
  <2>1. CASE Message(r)
    BY <2>1, MessagePumps
  <2>2. CASE Drain(r)
    BY <2>2, DrainPumps
  <2>3. CASE PeerCloses(r)
    BY <2>3, PeerClosesPumps
  <2>4. CASE BadMessage(r)
    <3>1. /\ Delivered(r, FailPump(pump[r]), sess[r]) /\ told' = told
          /\ hooks' \in [Requests -> Nat]
      BY <2>4 DEF BadMessage, Hook, PumpInv
    <3>2. /\ Follows(FailPump(pump[r]).pump, told[r], taken[r])
          /\ EventsOf(FailPump(pump[r]).wakes) = <<>>
      BY FailKeeps DEF PumpInv
    <3> QED
      BY <3>1, <3>2, WakingPumps
  <2>5. CASE Drained(r) \/ ReaderClosed(r)
    BY <2>5, DisposePumps
  <2>6. CASE UNCHANGED <<pump, hooks, told, taken>>
    BY <1>0, <2>6
  <2> QED
    BY <1>2, <2>1, <2>2, <2>3, <2>4, <2>5, <2>6
    DEF RequestStep, Arrive, Disconnect, Ingress, Fork, SideEnds, Publish,
        Accept, CloseSession, SessionClosed, socketVars
<1>3. CASE Prompt
  BY <1>3, PromptPumps
<1>4. CASE OwnerEnds \/ Closer
  BY <1>0, <1>4 DEF OwnerEnds, Closer, socketVars
<1>5. CASE UNCHANGED vars
  BY <1>0, <1>5 DEF vars
<1> QED
  BY <1>1, <1>2, <1>3, <1>4, <1>5 DEF Next

\* createPump: for any number of sessions, messages and readers, whatever is
\* cancelled, closed, failed or stopped meanwhile, readers get the events of
\* the hooks in order and none twice, nothing is lost while the pump works,
\* and queued data stays within its bound.
THEOREM PumpsFaithful == Spec => []PumpFaithful
<1>1. PumpInv => PumpFaithful
  <2> SUFFICES ASSUME PumpInv, NEW r \in Requests
               PROVE  /\ IsPrefix(taken[r], told[r])
                      /\ ~ pump[r].disposed /\ pump[r].terminal # "failed" =>
                           pump[r].queue = Untaken(r)
                      /\ Cardinality({i \in DOMAIN pump[r].queue :
                            pump[r].queue[i].kind = "text"}) <= MaxQueued
    BY DEF PumpFaithful, Data
  <2> DEFINE q == pump[r].queue
             heard == told[r]
             read == taken[r]
  <2>1. /\ q \in Seq(Event) /\ heard \in Seq(Event) /\ read \in Seq(Event)
        /\ Begins(read, heard) /\ Sparse(q)
        /\ ~ Gone(pump[r]) => GoesOn(q, heard, read)
    BY DEF PumpInv, Follows, PumpRecord
  <2>2. ~ pump[r].disposed /\ pump[r].terminal # "failed" => q = Untaken(r)
    BY <2>1, QueueIsRest DEF Gone, Untaken
  <2> HIDE DEF q
  <2>3. Cardinality({i \in DOMAIN q : q[i].kind = "text"}) <= MaxQueued
    <3>1. DOMAIN q = 1 .. Len(q) /\ Len(q) \in Nat /\ MaxQueued \in Nat
      BY <2>1, BoundsAssumption
    <3>2. {i \in DOMAIN q : q[i].kind = "text"} \subseteq 1 .. MaxQueued
      BY <2>1, <3>1 DEF Sparse
    <3>3. IsFiniteSet(1 .. MaxQueued) /\ Cardinality(1 .. MaxQueued) = MaxQueued
      BY <3>1, FS_Interval, SMTT(30)
    <3> QED
      BY <3>2, <3>3, FS_Subset
  <2> HIDE DEF heard, read
  <2>4. IsPrefix(read, heard)
    <3>1. Len(read) \in Nat /\ Len(heard) \in Nat /\ Len(read) <= Len(heard)
      BY <2>1 DEF Begins
    <3>2. SubSeq(read, 1, Len(read)) = read
      BY <2>1
    <3>3. read = SubSeq(heard, 1, Len(read))
      <4> DEFINE s == SubSeq(heard, 1, Len(read))
      <4>1. /\ s \in Seq(Event) /\ Len(s) = Len(read)
            /\ \A i \in 1 .. Len(read) : s[i] = heard[i]
        BY <2>1, <3>1
      <4> HIDE DEF s
      <4>2. \A i \in 1 .. Len(read) : read[i] = s[i]
        BY <2>1, <4>1 DEF Begins
      <4> QED
        BY <2>1, <4>1, <4>2 DEF s
    <3> QED
      BY <3>1, <3>2, <3>3 DEF IsPrefix
  <2> QED
    BY <2>2, <2>3, <2>4 DEF q, heard, read
<1> QED
  BY <1>1, PumpInit, PumpNext, PTL DEF Spec

=============================================================================
