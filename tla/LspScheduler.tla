----------------------------- MODULE LspScheduler -----------------------------
(***************************************************************************)
(* The language server's main loop (compiler/lsp_scheduler.go).  One loop  *)
(* owns the open buffers; one worker goroutine owns the compiler and is    *)
(* given a clone of the buffers, so an edit never waits for an analysis:   *)
(* it bumps the revision, cancels the running job and marks the roots that *)
(* must be diagnosed again.  The worker's result waits in a channel, and   *)
(* any number of messages may be handled before the loop receives it.      *)
(*                                                                         *)
(* A buffer's text is the revision at which it was written, which no two   *)
(* texts share.  What the client sees is kept with the inputs it was       *)
(* computed from: screen for the findings of a document, told for the last *)
(* word on a root.  The disk belongs to others; a job may find at its end  *)
(* that it changed, as often as it likes.                                  *)
(***************************************************************************)
EXTENDS Integers, Sequences, FiniteSets

CONSTANTS
    Docs,           \* document URIs
    Roots,          \* analysis roots, in the order of their paths
    RootOf,         \* the root of each document
    Scratch,        \* the untitled documents, each its own root
    Requests,       \* the ids of the client's requests
    MaxPending,     \* maxPendingRequests
    MaxRetries,     \* re-runs of a job whose inputs changed under it
    MaxRevision     \* bound: notifications that invalidate

ASSUME RootsAssumption ==
    /\ Roots \subseteq Nat
    /\ RootOf \in [Docs -> Roots]
    /\ Scratch \subseteq Docs
    /\ \A u \in Scratch, d \in Docs : RootOf[u] = RootOf[d] => u = d

ASSUME LimitsAssumption ==
    /\ MaxPending \in Nat
    /\ MaxRetries \in Nat
    /\ MaxRevision \in Nat

VARIABLES
    loop,           \* "top" of an iteration, in its "select", or "ended"
    input,          \* messages may still arrive
    shutdown,       \* the shutdown request was served
    revision,       \* bumped by every invalidation
    docs,           \* the text of each open buffer, Closed for the others
    workspaces,     \* workspace roots that hold a manifest
    published,      \* documents whose last publication is on record
    dirty,          \* roots to diagnose
    retries,        \* re-runs of each root since the last invalidation
    pending,        \* queued requests
    active,         \* the worker's job, Idle when there is none
    screen,         \* per document: the inputs of the findings the client shows
    told,           \* per root: the inputs of the last word the client got
    asked,          \* requests the loop has received
    answers         \* how often each request was answered

vars == <<loop, input, shutdown, revision, docs, workspaces, published, dirty,
          retries, pending, active, screen, told, asked, answers>>
client == <<screen, told, asked, answers>>
buffers == <<revision, docs, workspaces, published, dirty, retries>>

Closed == 0
Clear == <<>>
Idle == [id |-> {}, root |-> {}]

DocsOf(r) == {d \in Docs : RootOf[d] = r}
Open(texts) == {d \in Docs : texts[d] # Closed}
Inputs(texts, r) == [d \in DocsOf(r) |-> texts[d]]

Init ==
    /\ loop = "top"
    /\ input = TRUE
    /\ shutdown = FALSE
    /\ revision = 0
    /\ docs = [d \in Docs |-> Closed]
    /\ workspaces \in SUBSET {r \in Roots : DocsOf(r) \cap Scratch = {}}
    /\ published = {}
    /\ dirty = {}
    /\ retries = [r \in Roots |-> 0]
    /\ pending = <<>>
    /\ active = Idle
    /\ screen = [d \in Docs |-> Clear]
    /\ told = [r \in Roots |-> Clear]
    /\ asked = {}
    /\ answers = [q \in Requests |-> 0]

-----------------------------------------------------------------------------
(* The top of an iteration: queued requests go before diagnostics.         *)

Work(id, root) ==
    [id |-> id, root |-> root, revision |-> revision, cancelled |-> FALSE,
     stopped |-> FALSE, docs |-> docs, published |-> published, outcome |-> "busy"]

Answer(ids) == answers' = [q \in Requests |-> answers[q] + (IF q \in ids THEN 1 ELSE 0)]

Unfit(q) == q.cancelled \/ q.revision # revision

RefuseQueued ==
    /\ loop = "top" /\ active = Idle /\ pending # <<>>
    /\ Unfit(Head(pending))
    /\ pending' = Tail(pending)
    /\ Answer({Head(pending).id})
    /\ UNCHANGED <<loop, input, shutdown, buffers, active, screen, told, asked>>

StartRequest ==
    /\ loop = "top" /\ active = Idle /\ pending # <<>>
    /\ ~Unfit(Head(pending))
    /\ pending' = Tail(pending)
    /\ active' = Work({Head(pending).id}, {})
    /\ loop' = "select"
    /\ UNCHANGED <<input, shutdown, buffers, client>>

StartRoot ==
    /\ loop = "top" /\ active = Idle /\ pending = <<>> /\ dirty # {}
    /\ \E r \in dirty :
         /\ \A other \in dirty : r <= other
         /\ active' = Work({}, {r})
         /\ dirty' = dirty \ {r}
    /\ loop' = "select"
    /\ UNCHANGED <<input, shutdown, revision, docs, workspaces, published, retries,
                   pending, client>>

AwaitOrEnd ==
    /\ loop = "top" /\ active = Idle /\ pending = <<>> /\ dirty = {}
    /\ loop' = IF input THEN "select" ELSE "ended"
    /\ UNCHANGED <<input, shutdown, buffers, pending, active, client>>

-----------------------------------------------------------------------------
(* The worker.  The context is looked at once, when the job is done.  What a *)
(* request's answer says is not recorded, so its outcome is not told apart.  *)

Verdicts(w) ==
    CASE w.stopped -> {"canceled"}
      [] w.root = {} -> {"ok"}
      [] OTHER -> {"ok", "changed", "failed"}

WorkerDone ==
    /\ active # Idle
    /\ active.outcome = "busy"
    /\ \E o \in Verdicts(active) : active' = [active EXCEPT !.outcome = o]
    /\ UNCHANGED <<loop, input, shutdown, buffers, pending, client>>

-----------------------------------------------------------------------------
(* Messages.  Each is taken in the select and leads back to the top, where  *)
(* nothing happens while the worker is busy.                                *)

Stopped(w) == IF w = Idle THEN w ELSE [w EXCEPT !.stopped = TRUE]
Cancelled(w) == IF w = Idle THEN w ELSE [w EXCEPT !.stopped = TRUE, !.cancelled = TRUE]

Heard ==
    /\ loop = "select"
    /\ input
    /\ loop' = IF active = Idle THEN "top" ELSE "select"

\* The effect of a notification that leaves the buffers as texts, the recorded
\* publications as records and the workspaces as spaces.
Invalidate(texts, records, spaces, also) ==
    /\ revision < MaxRevision
    /\ revision' = revision + 1
    /\ docs' = texts
    /\ published' = records
    /\ workspaces' = spaces
    /\ retries' = [r \in Roots |-> 0]
    /\ active' = Stopped(active)
    /\ dirty' = dirty \cup also \cup spaces
                      \cup {RootOf[d] : d \in records \cup Open(texts)}
    /\ UNCHANGED <<input, shutdown, pending, told, asked, answers>>

DidOpen(d) ==
    /\ Heard /\ ~shutdown
    /\ Invalidate([docs EXCEPT ![d] = revision + 1], published, workspaces, {})
    /\ UNCHANGED screen

DidChange(d) ==
    /\ Heard /\ ~shutdown
    /\ docs[d] # Closed
    /\ Invalidate([docs EXCEPT ![d] = revision + 1], published, workspaces, {})
    /\ UNCHANGED screen

DidClose(d) ==
    /\ Heard /\ ~shutdown
    /\ Invalidate([docs EXCEPT ![d] = Closed], published \ {d}, workspaces,
                  IF docs[d] # Closed /\ d \notin Scratch THEN {RootOf[d]} ELSE {})
    /\ screen' = [screen EXCEPT ![d] = Clear]

\* didSave, didChangeWatchedFiles and didChangeConfiguration.
Touched ==
    /\ Heard /\ ~shutdown
    /\ Invalidate(docs, published, workspaces, {})
    /\ UNCHANGED screen

DidChangeWorkspaceFolders ==
    /\ Heard /\ ~shutdown
    /\ \E spaces \in SUBSET {r \in Roots : DocsOf(r) \cap Scratch = {}} :
           Invalidate(docs, published, spaces, {})
    /\ UNCHANGED screen

Request(q) ==
    /\ Heard
    /\ q \notin asked
    /\ asked' = asked \cup {q}
    /\ IF shutdown \/ Len(pending) >= MaxPending
       THEN Answer({q}) /\ UNCHANGED pending
       ELSE /\ pending' = Append(pending, [id |-> q, revision |-> revision,
                                           cancelled |-> FALSE])
            /\ UNCHANGED answers
    /\ UNCHANGED <<input, shutdown, buffers, active, screen, told>>

CancelRequest(q) ==
    /\ Heard /\ ~shutdown
    /\ active' = IF active.id = {q} THEN Cancelled(active) ELSE active
    /\ pending' = [i \in 1..Len(pending) |->
                      IF pending[i].id = q THEN [pending[i] EXCEPT !.cancelled = TRUE]
                                           ELSE pending[i]]
    /\ UNCHANGED <<input, shutdown, buffers, client>>

\* A bug: the queue is answered and kept.
ShutdownKeepsQueue ==
    /\ Heard
    /\ shutdown' = TRUE
    /\ active' = Cancelled(active)
    /\ Answer({pending[i].id : i \in 1..Len(pending)})
    /\ dirty' = {}
    /\ UNCHANGED <<input, revision, docs, workspaces, published, retries, pending,
                   screen, told, asked>>

Shutdown ==
    /\ Heard
    /\ shutdown' = TRUE
    /\ active' = Cancelled(active)
    /\ Answer({pending[i].id : i \in 1..Len(pending)})
    /\ pending' = <<>>
    /\ dirty' = {}
    /\ UNCHANGED <<input, revision, docs, workspaces, published, retries, screen, told,
                   asked>>

\* The end of the input, or a frame after which the stream cannot be trusted.
InputEnds ==
    /\ Heard
    /\ input' = FALSE
    /\ UNCHANGED <<shutdown, buffers, pending, active, client>>

\* exit ends the loop at once; so does a write the client no longer takes.
Exit ==
    /\ loop = "select"
    /\ loop' = "ended"
    /\ active' = Stopped(active)
    /\ UNCHANGED <<input, shutdown, buffers, pending, client>>

-----------------------------------------------------------------------------
(* The loop receives the worker's result.                                  *)

Stale(w) == w.revision # revision \/ w.outcome \in {"canceled", "changed"}

\* A bug: the context's word is taken for the revision's.
UselessTrusting(w) == w.outcome # "ok"

Useless(w) == w.revision # revision \/ w.outcome # "ok"

ClosedScratch(r) == DocsOf(r) \cap Scratch # {} /\ DocsOf(r) \cap Open(docs) = {}

Retry(w, r) == Stale(w) /\ (w.revision # revision \/ retries[r] < MaxRetries)

Received ==
    /\ loop = "select"
    /\ active # Idle
    /\ active.outcome # "busy"
    /\ loop' = "top"
    /\ active' = Idle
    /\ Answer(active.id)
    /\ UNCHANGED <<input, shutdown, revision, docs, workspaces, pending, asked>>

\* The answer of a request: its result, or that it was cancelled, stale or failed.
RequestReceived ==
    /\ active.id # {}
    /\ Received
    /\ UNCHANGED <<published, dirty, retries, screen, told>>

\* Diagnostics nobody waits for: the server is shutting down, or their untitled
\* buffer was closed.
RootDropped(r) ==
    /\ active.root = {r}
    /\ active.cancelled \/ (Useless(active) /\ ClosedScratch(r))
    /\ Received
    /\ UNCHANGED <<published, dirty, retries, screen, told>>

\* A bug: the retry is not counted.
RetriedUncounted(r) ==
    /\ active.root = {r}
    /\ ~active.cancelled /\ Useless(active) /\ ~ClosedScratch(r)
    /\ Retry(active, r)
    /\ Received
    /\ dirty' = dirty \cup {r}
    /\ UNCHANGED <<published, retries, screen, told>>

RootRetried(r) ==
    /\ active.root = {r}
    /\ ~active.cancelled /\ Useless(active) /\ ~ClosedScratch(r)
    /\ Retry(active, r)
    /\ Received
    /\ dirty' = dirty \cup {r}
    /\ retries' = [retries EXCEPT ![r] = @ + 1]
    /\ UNCHANGED <<published, screen, told>>

RootFailed(r) ==
    /\ active.root = {r}
    /\ ~active.cancelled /\ Useless(active) /\ ~ClosedScratch(r)
    /\ ~Retry(active, r)
    /\ Received
    /\ screen' = [d \in Docs |-> IF d \in DocsOf(r) \cap published THEN Clear ELSE screen[d]]
    /\ published' = published \ DocsOf(r)
    /\ told' = [told EXCEPT ![r] = Inputs(docs, r)]
    /\ UNCHANGED <<dirty, retries>>

\* The job's frames: every open document of the root and every closed one with
\* findings gets them, what was published before and is no longer found is cleared.
RootPublished(r) ==
    /\ active.root = {r}
    /\ ~active.cancelled /\ ~Useless(active)
    /\ Received
    /\ \E found \in SUBSET (DocsOf(r) \ (Open(active.docs) \cup Scratch)) :
         LET targets == found \cup (DocsOf(r) \cap Open(active.docs))
             cleared == (DocsOf(r) \cap active.published) \ targets IN
         /\ screen' = [d \in Docs |->
                          CASE d \in targets -> Inputs(active.docs, r)
                            [] d \in cleared -> Clear
                            [] OTHER -> screen[d]]
         /\ published' = (active.published \ cleared) \cup targets
    /\ told' = [told EXCEPT ![r] = Inputs(active.docs, r)]
    /\ retries' = [retries EXCEPT ![r] = 0]
    /\ UNCHANGED dirty

RootReceived(r) ==
    RootDropped(r) \/ RootRetried(r) \/ RootFailed(r) \/ RootPublished(r)

-----------------------------------------------------------------------------
Schedule == RefuseQueued \/ StartRequest \/ StartRoot \/ AwaitOrEnd

Completed == RequestReceived \/ \E r \in Roots : RootReceived(r)

Message ==
    \/ \E d \in Docs : DidOpen(d) \/ DidChange(d) \/ DidClose(d)
    \/ Touched \/ DidChangeWorkspaceFolders
    \/ \E q \in Requests : Request(q) \/ CancelRequest(q)
    \/ Shutdown \/ InputEnds \/ Exit

Done == loop = "ended" /\ UNCHANGED vars

Next == Schedule \/ WorkerDone \/ Completed \/ Message \/ Done

Spec == Init /\ [][Next]_vars

\* The loop keeps running, an analysis ends, and a result that waits in its channel
\* is chosen by a select sooner or later, though messages wait too (Go's select
\* chooses at random).  Nothing is asked of the client.
FairSpec == Spec /\ WF_vars(Schedule) /\ WF_vars(WorkerDone) /\ WF_vars(Completed)

-----------------------------------------------------------------------------
\* Every request the loop received is answered exactly once, or still can be: it is
\* answered, queued or the worker's, in one of these ways and once in it, whatever
\* edits, cancellations, a full queue and shutdown do meanwhile (lsp_scheduler.go, the
\* answers of the scheduling, message and completion branches).
AnsweredOnce ==
    \A q \in Requests :
        answers[q] + (IF active.id = {q} THEN 1 ELSE 0)
            + Cardinality({i \in 1..Len(pending) : pending[i].id = q})
        = (IF q \in asked THEN 1 ELSE 0)

Watched(r) ==
    \/ r \in workspaces /\ revision > 0
    \/ DocsOf(r) \cap (published \cup Open(docs)) # {}
    \/ \E d \in DocsOf(r) : screen[d] # Clear

Due(r) == r \in dirty \/ active.root = {r}

\* No finding is lost and none goes stale on the client's screen: while the server
\* serves, a root with an open document, a recorded workspace or anything on the
\* screen is waiting to be diagnosed, being diagnosed, or the client's last word on
\* it, and everything it shows for it, was computed from the buffers as they are
\* now (lsp_scheduler.go invalidate and the completion branches).
FindingsCurrent ==
    loop # "ended" /\ ~shutdown =>
        \A r \in Roots : Watched(r) =>
            \/ Due(r)
            \/ /\ told[r] = Inputs(docs, r)
               /\ \A d \in DocsOf(r) : screen[d] \in {Clear, Inputs(docs, r)}

\* However often the disk changes under an analysis, the loop gets to the end of its
\* work: every request it received is answered unless the client leaves, and once
\* the input has ended, the loop ends (lsp_scheduler.go, the bounded retries).
WorkEnds ==
    /\ \A q \in Requests : q \in asked ~> answers[q] = 1 \/ loop = "ended"
    /\ ~input ~> loop = "ended"
=============================================================================
