------------------------------ MODULE EventPump ------------------------------
(***************************************************************************)
(* createPump of websocket.ts: the bounded queue between the socket's hooks *)
(* and the readers of a session.  A pump is a record; every operation      *)
(* returns the new pump and, in wakes, what it hands to waiting readers.    *)
(*                                                                         *)
(* An event is [kind, n]: "text" for any data message, "drain" or "close", *)
(* numbered.  A reader is given an event, or a record whose kind is "end",  *)
(* "failed" or "interrupted".                                              *)
(***************************************************************************)
EXTENDS Naturals, Sequences, SequencesExt

Told(kind) == [kind |-> kind, n |-> 0]

FreshPump == [queue |-> <<>>, waiters |-> <<>>, terminal |-> "none",
              interrupted |-> FALSE, disposed |-> FALSE, drainPending |-> FALSE]

Quietly(p) == [pump |-> p, wakes |-> <<>>]

\* wake: every waiter is told the same.
WakeAll(p, kind) ==
    [pump |-> [p EXCEPT !.waiters = <<>>],
     wakes |-> [t \in ToSet(p.waiters) |-> Told(kind)]]

\* settle: the first terminal stays; a failure drops what is queued.
SettlePump(p, kind) ==
    IF p.terminal # "none" THEN Quietly(p)
    ELSE WakeAll([p EXCEPT !.terminal = kind,
                           !.queue = IF kind = "failed" THEN <<>> ELSE @], kind)

\* The first waiter gets the event.
Hand(p, event) ==
    [pump |-> [p EXCEPT !.waiters = Tail(@)],
     wakes |-> [t \in {Head(p.waiters)} |-> event]]

Deaf(p) == p.terminal # "none" \/ p.disposed

\* push: data is handed over, queued, or overruns the queue.
Push(p, event, maxQueued) ==
    IF Deaf(p) THEN Quietly(p)
    ELSE IF p.waiters # <<>> THEN Hand(p, event)
    ELSE IF Len(p.queue) >= maxQueued THEN SettlePump(p, "failed")
    ELSE Quietly([p EXCEPT !.queue = Append(@, event)])

\* pushDrain: coalesced, and not subject to the bound.
PushDrain(p, event) ==
    IF Deaf(p) \/ p.drainPending THEN Quietly(p)
    ELSE IF p.waiters # <<>> THEN Hand(p, event)
    ELSE Quietly([p EXCEPT !.drainPending = TRUE, !.queue = Append(@, event)])

\* pushClose: not subject to the bound either; then the end.
PushClose(p, event) ==
    IF Deaf(p) THEN Quietly(p)
    ELSE IF p.waiters # <<>>
    THEN [pump |-> SettlePump(Hand(p, event).pump, "end").pump,
          wakes |-> [t \in ToSet(p.waiters) |->
                       IF t = Head(p.waiters) THEN event ELSE Told("end")]]
    ELSE SettlePump([p EXCEPT !.queue = Append(@, event)], "end")

\* Faulty variant of FailPump: the readers that wait are not woken.
FailQuietly(p) ==
    Quietly(IF Deaf(p) THEN p ELSE [p EXCEPT !.terminal = "failed", !.queue = <<>>])

\* fail: by the hooks, and by a stop.
FailPump(p) == IF p.disposed THEN Quietly(p) ELSE SettlePump(p, "failed")

Interrupt(p) == WakeAll([p EXCEPT !.interrupted = TRUE], "interrupted")

Dispose(p) == [p EXCEPT !.disposed = TRUE, !.queue = <<>>, !.drainPending = FALSE]

\* What take answers at once, or "wait".
Answer(p) ==
    IF p.queue # <<>> THEN Head(p.queue)
    ELSE IF p.terminal # "none" THEN Told(p.terminal)
    ELSE IF p.disposed THEN Told("end")
    ELSE IF p.interrupted THEN Told("interrupted")
    ELSE Told("wait")

\* Faulty variant of Take: a drain that was read still counts as pending.
TakeForgetful(p, t) ==
    IF p.queue # <<>> THEN [p EXCEPT !.queue = Tail(@)]
    ELSE IF Answer(p).kind = "wait" THEN [p EXCEPT !.waiters = Append(@, t)]
    ELSE p

\* What take leaves behind, called by reader t.
Take(p, t) ==
    IF p.queue # <<>>
    THEN [p EXCEPT !.queue = Tail(@),
                   !.drainPending = @ /\ Head(p.queue).kind # "drain"]
    ELSE IF Answer(p).kind = "wait" THEN [p EXCEPT !.waiters = Append(@, t)]
    ELSE p

=============================================================================
