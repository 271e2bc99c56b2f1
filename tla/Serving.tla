------------------------------- MODULE Serving -------------------------------
(***************************************************************************)
(* A server while it answers requests and while it stops (server.ts), with *)
(* the request scopes and operation boundaries its handlers run under      *)
(* (request-scope.ts, operation-budget.ts) and the WebSocket sessions they  *)
(* accept and read (websocket.ts, stream/readable.ts, EventPump).           *)
(*                                                                         *)
(* A request is served by a main task, which may launch a side task: a     *)
(* participant of a group that main does not wait for to the end (a race   *)
(* it lost), so that it outlives the response.  A step is what runs        *)
(* between two awaits.  Owner models how leases and draining work; here a  *)
(* lease is implied by where a task is.                                    *)
(***************************************************************************)
EXTENDS EventPump, FiniteSets, Integers

CONSTANTS
    Requests,
    Mixes,          \* the handlers the requests may come to, see Routes
    Batches,        \* values of maxItems of readMany
    MaxQueued,      \* the queue bound a session is accepted with
    MaxHooks,       \* bound: data messages and drains per session
    MaxPrompts      \* bound: calls of stop and signals

\* What a handler may do: nothing that waits, run operations under a
\* boundary, or accept a session; none for a request that never comes.
Routes == {"none", "plain", "operate", "upgrade"}

ASSUME MixesAssumption == Mixes \subseteq [Requests -> Routes]
ASSUME BatchesAssumption == Batches \subseteq Nat \ {0}
ASSUME BoundsAssumption == MaxQueued \in Nat /\ MaxHooks \in Nat /\ MaxPrompts \in Nat

VARIABLES
    server,     \* the token: "open", "closing" or "closed"
    prompts,    \* how often stop or a signal prompted the server
    route,      \* route[r]: the handler of the request
    live,       \* liveScopes: requests whose scope stop expires
    pc,         \* pc[r]: where the request is
    scope,      \* scope[r]: "live", or the first reason it was expired for
    task,       \* task[t]: where a task is
    op,         \* op[t]: the boundary race of the task
    sess,       \* sess[r]: the session of the request
    pump,       \* pump[r]: its events
    hooks,      \* hooks[r]: data messages and drains of its socket so far
    told,       \* history: the events of the hooks, drains coalesced
    taken       \* history: the events readers got

vars == <<server, prompts, route, live, pc, scope, task, op, sess, pump, hooks, told, taken>>

Tasks == Requests \X {"main", "side"}
Main(r) == <<r, "main">>
Side(r) == <<r, "side">>
Of(r) == {Main(r), Side(r)}

Off == [at |-> "off", got |-> 0, want |-> 0, holds |-> FALSE]
Unused == [native |-> "none", on |-> "none", outcome |-> "none", cause |-> "none",
           escalations |-> 0, lates |-> 0]
NoSession == [registered |-> FALSE, handle |-> "none", reader |-> "none",
              initial |-> FALSE, ended |-> FALSE, errored |-> FALSE,
              late |-> FALSE]

Init ==
    /\ server = "open" /\ prompts = 0
    /\ route \in Mixes
    /\ live = {}
    /\ pc = [r \in Requests |-> "idle"]
    /\ scope = [r \in Requests |-> "live"]
    /\ task = [t \in Tasks |-> Off]
    /\ op = [t \in Tasks |-> Unused]
    /\ sess = [r \in Requests |-> NoSession]
    /\ pump = [r \in Requests |-> FreshPump]
    /\ hooks = [r \in Requests |-> 0]
    /\ told = [r \in Requests |-> <<>>]
    /\ taken = [r \in Requests |-> <<>>]

serverVars == <<server, prompts, route>>
requestVars == <<live, pc, scope>>
socketVars == <<sess, pump, hooks, told, taken>>

Runs(t) == task[t].at = "idle" /\ pc[t[1]] \in {"handler", "draining"}

-----------------------------------------------------------------------------
(* Operation boundaries: raceBoundary.                                     *)

Pending(t) == task[t].at = "racing" /\ op[t].outcome = "none"

\* fileUnknown and expire: one escalation, with the cause that came first.
Escalated(t, cause) ==
    [op[t] EXCEPT !.outcome = "unknown", !.cause = cause, !.escalations = @ + 1]

\* An expired scope or an exhausted budget: nothing is started.
RaceRefused(t) ==
    /\ route[t[1]] = "operate" /\ Runs(t) /\ op[t] = Unused
    /\ op' = [op EXCEPT ![t] =
                Escalated(t, IF scope[t[1]] = "live" THEN "budget" ELSE scope[t[1]])]
    /\ UNCHANGED <<serverVars, requestVars, task, socketVars>>

\* The operation is started and raced against its timer and its scope. It
\* leases what it works on: a resource of the request's own scope (the handle
\* of a transaction, a pool the handler opened) or one of an outer scope.
RaceStarts(t, on) ==
    /\ route[t[1]] = "operate" /\ Runs(t) /\ op[t] = Unused
    /\ scope[t[1]] = "live"
    /\ op' = [op EXCEPT ![t].native = "running", ![t].on = on]
    /\ task' = [task EXCEPT ![t].at = "racing"]
    /\ UNCHANGED <<serverVars, requestVars, socketVars>>

\* The native operation settles, in time or late, and gives back its lease.
NativeSettles(t, how) ==
    /\ op[t].native = "running"
    /\ op' = [op EXCEPT ![t].native = how]
    /\ UNCHANGED <<serverVars, requestVars, task, socketVars>>

\* The reaction to a settlement that nothing preceded.
Observed(t) ==
    /\ Pending(t) /\ op[t].native \in {"resolved", "rejected"}
    /\ op' = [op EXCEPT ![t].outcome = op[t].native]
    /\ task' = [task EXCEPT ![t].at = "idle"]
    /\ UNCHANGED <<serverVars, requestVars, socketVars>>

\* The timer: no reaction to a settlement is waiting when a timer fires.
TimerFires(t) ==
    /\ Pending(t) /\ op[t].native = "running"
    /\ op' = [op EXCEPT ![t] = Escalated(t, "budget")]
    /\ task' = [task EXCEPT ![t].at = "idle"]
    /\ UNCHANGED <<serverVars, requestVars, socketVars>>

\* The settlement of an operation whose boundary had returned.
LateObserved(t) ==
    /\ op[t].outcome = "unknown" /\ op[t].native \in {"resolved", "rejected"}
    /\ op[t].lates = 0
    /\ op' = [op EXCEPT ![t].lates = @ + 1]
    /\ UNCHANGED <<serverVars, requestVars, task, socketVars>>

\* expire: the first reason wins; the races of the scope end in the same turn.
Expirable(rs) == {r \in rs : scope[r] = "live"}
ExpiredScope(rs, reason) ==
    [r \in Requests |-> IF r \in Expirable(rs) THEN reason ELSE scope[r]]
ExpiredOp(rs, reason) ==
    [t \in Tasks |-> IF Pending(t) /\ t[1] \in Expirable(rs)
                       THEN Escalated(t, reason) ELSE op[t]]
ExpiredTask(rs) ==
    [t \in Tasks |-> IF Pending(t) /\ t[1] \in Expirable(rs)
                       THEN [task[t] EXCEPT !.at = "idle"] ELSE task[t]]

-----------------------------------------------------------------------------
(* Requests: serveOuter and serveNative.                                   *)

\* guardCallback and useResource of the server token: a closing server
\* answers 500; otherwise the request has its scope and a lease.
Arrive(r) ==
    /\ pc[r] = "idle" /\ route[r] # "none"
    /\ pc' = [pc EXCEPT ![r] = IF server = "open" THEN "ingress" ELSE "refused"]
    /\ live' = IF server = "open" THEN live \cup {r} ELSE live
    /\ UNCHANGED <<serverVars, scope, task, op, socketVars>>

\* The signal of the native request aborts, until the request has drained.
Disconnect(r) ==
    /\ pc[r] \in {"ingress", "handler", "draining"} /\ scope[r] = "live"
    /\ scope' = ExpiredScope({r}, "disconnect")
    /\ op' = ExpiredOp({r}, "disconnect")
    /\ task' = ExpiredTask({r})
    /\ UNCHANGED <<serverVars, live, pc, socketVars>>

\* The snapshot of the request is rejected, or its handler starts.
Ingress(r, accepted) ==
    /\ pc[r] = "ingress"
    /\ pc' = [pc EXCEPT ![r] = IF accepted THEN "handler" ELSE "done"]
    /\ live' = IF accepted THEN live ELSE live \ {r}
    /\ task' = IF accepted THEN [task EXCEPT ![Main(r)].at = "idle"] ELSE task
    /\ UNCHANGED <<serverVars, scope, op, socketVars>>

\* The participant captures the session if there is one.
Fork(r) ==
    /\ route[r] # "plain" /\ pc[r] = "handler" /\ Runs(Main(r))
    /\ task[Side(r)].at = "off"
    /\ task' = [task EXCEPT ![Side(r)] =
                  [Off EXCEPT !.at = "idle", !.holds = (sess[r].reader # "none")]]
    /\ UNCHANGED <<serverVars, requestVars, op, socketVars>>

SideEnds(r) ==
    /\ Runs(Side(r))
    /\ task' = [task EXCEPT ![Side(r)] = [Off EXCEPT !.at = "done"]]
    /\ UNCHANGED <<serverVars, requestVars, op, socketVars>>

\* Faulty variant of Publish: the scope leaves liveScopes with the response.
PublishForgets(r) ==
    /\ pc[r] = "handler" /\ Runs(Main(r))
    /\ pc' = [pc EXCEPT ![r] = "draining"]
    /\ live' = live \ {r}
    /\ task' = [task EXCEPT ![Main(r)].at = "done"]
    /\ sess' = [sess EXCEPT ![r].initial = FALSE]
    /\ UNCHANGED <<serverVars, scope, op, pump, hooks, told, taken>>

\* The handler completes and the response is published: the server's lease
\* and the initial leases of what the handler created end, the scope drains.
Publish(r) ==
    /\ pc[r] = "handler" /\ Runs(Main(r))
    /\ pc' = [pc EXCEPT ![r] = "draining"]
    /\ task' = [task EXCEPT ![Main(r)].at = "done"]
    /\ sess' = [sess EXCEPT ![r].initial = FALSE]
    /\ UNCHANGED <<serverVars, live, scope, op, pump, hooks, told, taken>>

\* A boundary that gave up leaves its operation the lease until it settles.
Leased(t) == op[t].on = "request" /\ op[t].native = "running"

\* The scope has no group left and none of its resources is leased: what it
\* still has open is closed, the request is revoked and its scope leaves
\* liveScopes.
Drained(r) ==
    /\ pc[r] = "draining"
    /\ \A t \in Of(r) : task[t].at \in {"off", "done"} /\ ~Leased(t)
    /\ pc' = [pc EXCEPT ![r] = "done"]
    /\ live' = live \ {r}
    /\ sess' = [sess EXCEPT
                  ![r].registered = @ /\ sess[r].handle = "closed",
                  ![r].handle = IF @ = "open" THEN "closed" ELSE @,
                  ![r].reader = IF @ = "none" THEN @ ELSE "closed"]
    /\ pump' = [pump EXCEPT ![r] = IF sess[r].reader = "none" THEN @ ELSE Dispose(@)]
    /\ UNCHANGED <<serverVars, scope, task, op, hooks, told, taken>>

-----------------------------------------------------------------------------
(* Sessions: accept, close and the hooks of the native socket.             *)

\* accept: an upgrade the server grants; one that it refuses is torn down
\* before anyone else has its tokens.
Accept(r) ==
    /\ route[r] = "upgrade" /\ pc[r] = "handler" /\ Runs(Main(r))
    /\ sess[r].reader = "none"
    /\ sess' = [sess EXCEPT ![r] =
                  [NoSession EXCEPT !.registered = TRUE, !.handle = "open",
                                    !.reader = "open", !.initial = TRUE,
                                    !.late = (prompts > 0)]]
    /\ UNCHANGED <<serverVars, requestVars, task, op, pump, hooks, told, taken>>

\* readMany goes on with an event until it has as many as it wants, and
\* returns with anything else.
Resumed(t, answer) ==
    IF answer.kind \in {"end", "failed", "interrupted"}
    THEN [task[t] EXCEPT !.at = "idle", !.got = 0, !.want = 0]
    ELSE IF task[t].got + 1 = task[t].want
    THEN [task[t] EXCEPT !.at = "idle", !.got = 0, !.want = 0]
    ELSE [task[t] EXCEPT !.at = "taking", !.got = @ + 1]

\* What an answer leaves in the cell of the reader.
Noted(s, answers) ==
    [s EXCEPT !.ended = @ \/ \E a \in answers : a.kind = "end",
              !.errored = @ \/ \E a \in answers : a.kind = "failed"]

IsEvent(answer) == answer.kind \in {"text", "drain", "close"}

\* An operation of the pump of r and the readers it wakes, at most one of
\* them with an event.
Delivered(r, result, s) ==
    LET wakes == result.wakes
        answers == {wakes[t] : t \in DOMAIN wakes}
    IN  /\ pump' = [pump EXCEPT ![r] = result.pump]
        /\ task' = [t \in Tasks |-> IF t \in DOMAIN wakes
                                      THEN Resumed(t, wakes[t]) ELSE task[t]]
        /\ taken' = [taken EXCEPT ![r] =
                       @ \o SetToSeq({a \in answers : IsEvent(a)})]
        /\ sess' = [sess EXCEPT ![r] = Noted(s, answers)]

\* Events of the hooks that no reader has yet.
Untaken(r) == SubSeq(told[r], Len(taken[r]) + 1, Len(told[r]))

\* A hook that finds the session of its socket.
Hook(r) ==
    /\ sess[r].registered /\ hooks[r] < MaxHooks
    /\ hooks' = [hooks EXCEPT ![r] = @ + 1]

\* serverSocketMessage with data of an acceptable size and type.
Message(r) ==
    /\ Hook(r)
    /\ LET event == [kind |-> "text", n |-> hooks[r] + 1]
           result == Push(pump[r], event, MaxQueued)
       IN  /\ Delivered(r, result, sess[r])
           /\ told' = IF Deaf(result.pump) THEN told
                      ELSE [told EXCEPT ![r] = Append(@, event)]
    /\ UNCHANGED <<serverVars, requestVars, op>>

\* serverSocketMessage with any other data.
BadMessage(r) ==
    /\ Hook(r)
    /\ Delivered(r, FailPump(pump[r]), sess[r])
    /\ UNCHANGED <<serverVars, requestVars, op, told>>

\* serverSocketDrain: a sender may try again. A drain that was not read yet
\* says as much as a second one.
Drain(r) ==
    /\ Hook(r)
    /\ LET event == [kind |-> "drain", n |-> hooks[r] + 1]
           pending == \E i \in DOMAIN Untaken(r) : Untaken(r)[i].kind = "drain"
       IN  /\ Delivered(r, PushDrain(pump[r], event), sess[r])
           /\ told' = IF Deaf(pump[r]) \/ pending THEN told
                      ELSE [told EXCEPT ![r] = Append(@, event)]
    /\ UNCHANGED <<serverVars, requestVars, op>>

\* serverSocketClose: the peer closed, or echoed a close.
PeerCloses(r) ==
    /\ sess[r].registered
    /\ LET event == [kind |-> "close", n |-> 0]
       IN  /\ Delivered(r, PushClose(pump[r], event),
                        [sess[r] EXCEPT !.registered = FALSE])
           /\ told' = IF Deaf(pump[r]) THEN told
                      ELSE [told EXCEPT ![r] = Append(@, event)]
    /\ UNCHANGED <<serverVars, requestVars, op, hooks>>

\* close: the frame goes out and the handle closes; the registration stays
\* for the echo.
CloseSession(r) ==
    /\ Runs(Main(r)) /\ sess[r].handle = "open"
    /\ sess' = [sess EXCEPT ![r].handle = "closing"]
    /\ task' = [task EXCEPT ![Main(r)].at = "closing"]
    /\ UNCHANGED <<serverVars, requestVars, op, pump, hooks, told, taken>>

\* A participant that captured the handle leases it until it ends.
Captured(r) == task[Side(r)].holds

SessionClosed(r) ==
    /\ task[Main(r)].at = "closing" /\ ~Captured(r)
    /\ sess' = [sess EXCEPT ![r].handle = "closed"]
    /\ task' = [task EXCEPT ![Main(r)].at = "idle"]
    /\ UNCHANGED <<serverVars, requestVars, op, pump, hooks, told, taken>>

-----------------------------------------------------------------------------
(* Readers: readMany, cancelReader and closeReader.                        *)

\* A closing reader, or one of a closing scope, admits only those who hold a
\* lease of it already. A read of an ended, failed or cancelled reader with
\* nothing queued is answered at once and leaves no trace: it is left out.
Leases(t) == IF t = Main(t[1]) THEN sess[t[1]].initial ELSE task[t].holds
MayRead(t) ==
    /\ t = Main(t[1]) \/ task[t].holds
    /\ ~sess[t[1]].errored /\ ~sess[t[1]].ended
    /\ pump[t[1]].interrupted => pump[t[1]].queue # <<>>
    /\ \/ sess[t[1]].reader = "open" /\ pc[t[1]] = "handler"
       \/ sess[t[1]].reader \in {"open", "closing"} /\ Leases(t)

ReadMany(t, want) ==
    /\ Runs(t) /\ MayRead(t)
    /\ task' = [task EXCEPT ![t].at = "taking", ![t].want = want]
    /\ UNCHANGED <<serverVars, requestVars, op, socketVars>>

\* One turn of pullEvents.
PullEvent(t) ==
    /\ task[t].at = "taking"
    /\ LET r == t[1]
           answer == Answer(pump[r])
       IN  /\ pump' = [pump EXCEPT ![r] = Take(@, t)]
           /\ task' = [task EXCEPT ![t] = IF answer.kind = "wait"
                         THEN [@ EXCEPT !.at = "waiting"] ELSE Resumed(t, answer)]
           /\ taken' = IF IsEvent(answer)
                         THEN [taken EXCEPT ![r] = Append(@, answer)] ELSE taken
           /\ sess' = [sess EXCEPT ![r] = Noted(@, {answer})]
    /\ UNCHANGED <<serverVars, requestVars, op, hooks, told>>

\* closeResource of the reader: the creator gives up its initial lease. The
\* caller waits for the close or its deadline.
Shut(t) == [sess[t[1]] EXCEPT !.reader = "closing",
                              !.initial = @ /\ t # Main(t[1])]

CloseReader(t) ==
    /\ Runs(t) /\ sess[t[1]].reader = "open" /\ (t = Main(t[1]) \/ task[t].holds)
    /\ sess' = [sess EXCEPT ![t[1]] = Shut(t)]
    /\ UNCHANGED <<serverVars, requestVars, task, op, pump, hooks, told, taken>>

\* cancelReader first wakes the readers that wait; then a reader that is
\* open closes.
CancelReader(t) ==
    /\ Runs(t) /\ (t = Main(t[1]) \/ task[t].holds)
    /\ sess[t[1]].reader \in {"open", "closing"}
    /\ Delivered(t[1], Interrupt(pump[t[1]]),
                 IF sess[t[1]].reader = "open" THEN Shut(t) ELSE sess[t[1]])
    /\ UNCHANGED <<serverVars, requestVars, op, hooks, told>>

Reading(t) == task[t].at \in {"taking", "waiting"}

\* releaseReader, when nobody leases the reader.
ReaderClosed(r) ==
    /\ sess[r].reader = "closing" /\ ~sess[r].initial /\ ~Captured(r)
    /\ \A t \in Of(r) : ~Reading(t)
    /\ sess' = [sess EXCEPT ![r].reader = "closed"]
    /\ pump' = [pump EXCEPT ![r] = Dispose(@)]
    /\ UNCHANGED <<serverVars, requestVars, task, op, hooks, told, taken>>

-----------------------------------------------------------------------------
(* Stopping.                                                               *)

Registered == {r \in Requests : sess[r].registered}

\* stop, and the handler of a signal: the scopes expire, the sessions fail,
\* and the close of the server begins unless it has begun.
Prompt ==
    /\ prompts < MaxPrompts
    /\ prompts' = prompts + 1
    /\ scope' = ExpiredScope(live, "shutdown")
    /\ op' = ExpiredOp(live, "shutdown")
    /\ LET failed == [r \in Requests |-> IF r \in Registered
                                           THEN FailPump(pump[r]) ELSE Quietly(pump[r])]
       IN  /\ pump' = [r \in Requests |-> failed[r].pump]
           /\ task' = [t \in Tasks |->
                         IF t \in DOMAIN failed[t[1]].wakes
                         THEN Resumed(t, failed[t[1]].wakes[t])
                         ELSE ExpiredTask(live)[t]]
           /\ sess' = [r \in Requests |->
                         [sess[r] EXCEPT !.registered = FALSE, !.late = FALSE,
                                         !.errored = @ \/ failed[r].wakes # <<>>]]
    /\ server' = IF server = "open" THEN "closing" ELSE server
    /\ UNCHANGED <<route, live, pc, hooks, told, taken>>

\* The caller's scope ends without a stop: the drain closes the server.
OwnerEnds ==
    /\ server = "open" /\ server' = "closing"
    /\ UNCHANGED <<prompts, route, requestVars, task, op, socketVars>>

\* The closer: every handler has given back its lease of the server.
Closer ==
    /\ server = "closing"
    /\ \A r \in Requests : pc[r] \notin {"ingress", "handler"}
    /\ server' = "closed"
    /\ UNCHANGED <<prompts, route, requestVars, task, op, socketVars>>

-----------------------------------------------------------------------------

TaskStep(t) ==
    \/ RaceRefused(t) \/ Observed(t) \/ TimerFires(t) \/ LateObserved(t)
    \/ \E on \in {"request", "outer"} : RaceStarts(t, on)
    \/ \E how \in {"resolved", "rejected"} : NativeSettles(t, how)
    \/ \E want \in Batches : ReadMany(t, want)
    \/ PullEvent(t) \/ CloseReader(t) \/ CancelReader(t)

RequestStep(r) ==
    \/ Arrive(r) \/ Disconnect(r) \/ \E accepted \in BOOLEAN : Ingress(r, accepted)
    \/ Fork(r) \/ SideEnds(r) \/ Publish(r) \/ Drained(r)
    \/ Accept(r) \/ Message(r) \/ BadMessage(r) \/ Drain(r) \/ PeerCloses(r)
    \/ CloseSession(r) \/ SessionClosed(r) \/ ReaderClosed(r)

Next ==
    \/ \E t \in Tasks : TaskStep(t)
    \/ \E r \in Requests : RequestStep(r)
    \/ Prompt \/ OwnerEnds \/ Closer

Spec == Init /\ [][Next]_vars

\* The runtime's own reactions happen, handlers and participants end when
\* they wait for nothing, and a request that arrives is read or given up (the
\* server's idle timeout). Neither peers nor native operations ever have to
\* do anything.
Fairness ==
    /\ \A t \in Tasks : WF_vars(Observed(t)) /\ WF_vars(PullEvent(t))
    /\ \A r \in Requests :
         /\ WF_vars(\E accepted \in BOOLEAN : Ingress(r, accepted))
         /\ WF_vars(SideEnds(r)) /\ WF_vars(Publish(r)) /\ WF_vars(Drained(r))
         /\ WF_vars(SessionClosed(r))
    /\ WF_vars(Closer)

FairSpec == Spec /\ Fairness

-----------------------------------------------------------------------------
(* Properties.                                                             *)

\* raceBoundary and expire: an operation has one outcome, a true one. It is
\* unknown exactly when one escalation was filed, whose cause is the first
\* reason of the scope; a late settlement is recorded at most once, and only
\* for such an outcome; nothing is started in an expired scope, and once the
\* server was told to stop no boundary is waited for, the ones of requests
\* already answered included.
BoundaryHonest ==
    \A t \in Tasks :
        LET o == op[t]
            r == t[1]
        IN  /\ o.escalations = IF o.outcome = "unknown" THEN 1 ELSE 0
            /\ o.outcome \in {"resolved", "rejected"} => o.native = o.outcome
            /\ o.lates > 0 => /\ o.lates = 1 /\ o.outcome = "unknown"
                              /\ o.native \in {"resolved", "rejected"}
            /\ o.cause \in {"disconnect", "shutdown"} => scope[r] = o.cause
            /\ Pending(t) => scope[r] = "live" /\ prompts = 0

\* The places of the queue that hold data, which is what its bound is for.
Data(r) == {i \in DOMAIN pump[r].queue : pump[r].queue[i].kind = "text"}

\* createPump: readers get the events of the hooks in order, none twice, and
\* while the pump has not failed none is lost: what was not read yet is
\* queued. A drain is missing only while an earlier one waits to be read,
\* and the close comes last. Data never exceeds the bound; it may overrun the
\* queue earlier, because a waiting drain counts (websocket.ts:139).
PumpFaithful ==
    \A r \in Requests :
        /\ IsPrefix(taken[r], told[r])
        /\ ~pump[r].disposed /\ pump[r].terminal # "failed" =>
             pump[r].queue = Untaken(r)
        /\ Cardinality(Data(r)) <= MaxQueued

\* The server is closed and every request that got in has drained.
Quiet == server = "closed" /\ \A r \in Requests : pc[r] \in {"idle", "refused", "done"}

\* A task waits for the peer of a session accepted after the last prompt.
WaitsOnPeer ==
    \E t \in Tasks : task[t].at = "waiting" /\ sess[t[1]].late

\* stop and the header of closeServerSessions: once prompted, the server
\* closes and every request drains, whatever peers never answer, with two
\* exceptions. A session accepted after the prompt is failed by nothing: its
\* reader may wait for its peer for ever. And an operation that never settles
\* keeps the request whose own resource it leases from draining, though not
\* the server from closing; one on a resource of an outer scope holds up
\* neither.
StopEnds ==
    <>(prompts > 0) =>
        \/ <>[]WaitsOnPeer
        \/ <>(server = "closed") /\ (<>Quiet \/ <>[](\E t \in Tasks : Leased(t)))

=============================================================================
