-------------------------- MODULE LspSchedulerProofs --------------------------
(***************************************************************************)
(* FindingsCurrent of LspScheduler, for any documents, roots and messages. *)
(* It is not inductive: what a job publishes is computed from its clone of *)
(* the server, so JobInv says that the clone is the server as long as the  *)
(* revision is; what an invalidation marks is computed from the recorded   *)
(* publications, so ScreenInv says that the client shows nothing else.     *)
(*                                                                         *)
(* AnsweredOnce counts the places of a request: its answers, the worker's  *)
(* job and the queue.  It needs only that a job is of at most one request, *)
(* and how the count of the queue changes when the loop takes its head,    *)
(* appends to it, cancels in it and empties it.                            *)
(***************************************************************************)
EXTENDS LspScheduler, SequenceTheorems, FiniteSetTheorems, TLAPS

Jobs == [id : SUBSET Requests, root : SUBSET Roots, revision : Nat,
         cancelled : BOOLEAN, stopped : BOOLEAN, docs : [Docs -> Nat],
         published : SUBSET Docs,
         outcome : {"busy", "ok", "changed", "failed", "canceled"}]

Queued == [id : Requests, revision : Nat, cancelled : BOOLEAN]
Queue == Seq(Queued)

\* The types of what the argument is about.
Typed ==
    /\ revision \in Nat
    /\ docs \in [Docs -> Nat]
    /\ published \in SUBSET Docs
    /\ workspaces \in SUBSET Roots
    /\ dirty \in SUBSET Roots
    /\ active \in Jobs \cup {Idle}
    /\ pending \in Queue
    /\ shutdown \in BOOLEAN
    /\ DOMAIN screen = Docs
    /\ DOMAIN told = Roots

\* A job of a root is not a request, is cancelled only by a shutdown, and has
\* the server's documents and publications while its revision is current.
JobInv ==
    active # Idle =>
        /\ active.id = {} \/ active.root = {}
        /\ active.root # {} /\ active.cancelled => shutdown
        /\ active.revision <= revision
        /\ active.revision = revision =>
             active.docs = docs /\ active.published = published

\* The client shows findings only of documents on record, and an untitled
\* document is on record only while it is open; none is in a workspace.
ScreenInv ==
    /\ \A d \in Docs : screen[d] # Clear => d \in published
    /\ \A d \in Scratch : d \in published => d \in Open(docs)
    /\ \A r \in workspaces : DocsOf(r) \cap Scratch = {}

IInv == Typed /\ JobInv /\ ScreenInv /\ FindingsCurrent

-----------------------------------------------------------------------------
\* The queue of requests, as the loop uses it: emptied, shifted, extended, or with
\* the entries replaced by others.
LEMMA QueueFacts ==
    ASSUME NEW S
    PROVE  /\ <<>> \in Seq(S)
           /\ \A s \in Seq(S) : s # <<>> => Head(s) \in S /\ Tail(s) \in Seq(S)
           /\ \A s \in Seq(S), e \in S : Append(s, e) \in Seq(S)
           /\ \A s \in Seq(S) : \A f \in [1..Len(s) -> S] : f \in Seq(S)
<1>1. <<>> \in Seq(S)
  OBVIOUS
<1>2. ASSUME NEW s \in Seq(S), s # <<>> PROVE Head(s) \in S /\ Tail(s) \in Seq(S)
  BY <1>2
<1>3. ASSUME NEW s \in Seq(S), NEW e \in S PROVE Append(s, e) \in Seq(S)
  OBVIOUS
<1>4. ASSUME NEW s \in Seq(S), NEW f \in [1..Len(s) -> S] PROVE f \in Seq(S)
  <2>1. Len(s) \in Nat
    OBVIOUS
  <2> QED
    BY <2>1, SeqDef
<1> QED
  BY <1>1, <1>2, <1>3, <1>4

\* Init: nothing is open, shown or due.
LEMMA InitInv == Init => IInv
<1> SUFFICES ASSUME Init PROVE IInv
  OBVIOUS
<1>1. Typed
  BY QueueFacts DEF Init, Typed, Closed, Queue
<1>2. JobInv /\ ScreenInv
  BY DEF Init, JobInv, ScreenInv
<1>3. FindingsCurrent
  BY RootsAssumption DEF Init, FindingsCurrent, Watched, DocsOf, Open, Closed
<1> QED
  BY <1>1, <1>2, <1>3 DEF IInv

\* A notification that invalidates (invalidate): whatever the client shows, and
\* whatever is open or on record after it, is due.
LEMMA InvalidateInv ==
    ASSUME IInv,
           NEW texts \in [Docs -> Nat], NEW records \in SUBSET published,
           NEW spaces \in SUBSET {r \in Roots : DocsOf(r) \cap Scratch = {}},
           NEW also \in SUBSET Roots,
           Invalidate(texts, records, spaces, also),
           DOMAIN screen' = Docs,
           \A d \in Docs : screen'[d] # Clear => d \in records,
           \A d \in Scratch : d \in records => d \in Open(texts)
    PROVE  IInv'
<1> USE DEF IInv
<1>1. /\ revision' = revision + 1 /\ docs' = texts /\ published' = records
      /\ workspaces' = spaces /\ active' = Stopped(active)
      /\ dirty' = dirty \cup also \cup spaces \cup {RootOf[d] : d \in records \cup Open(texts)}
      /\ shutdown' = shutdown /\ told' = told /\ pending' = pending
  BY DEF Invalidate
<1>2. active' \in Jobs \cup {Idle}
  BY <1>1 DEF Typed, Jobs, Stopped
<1>3. Typed'
  <2>1. \A d \in records \cup Open(texts) : RootOf[d] \in Roots
    BY RootsAssumption DEF Typed, Open
  <2>2. dirty' \in SUBSET Roots
    BY <2>1, <1>1 DEF Typed
  <2>3. published' \in SUBSET Docs /\ workspaces' \in SUBSET Roots /\ docs' \in [Docs -> Nat]
    BY <1>1 DEF Typed
  <2> QED
    BY <2>2, <2>3, <1>1, <1>2 DEF Typed
<1>4. JobInv'
  <2> SUFFICES ASSUME active' # Idle
               PROVE  /\ active'.id = {} \/ active'.root = {}
                      /\ active'.root # {} /\ active'.cancelled => shutdown'
                      /\ active'.revision < revision'
    BY <1>2, <1>3 DEF JobInv, Typed, Jobs
  <2>1. active \in Jobs /\ active # Idle /\ active' = [active EXCEPT !.stopped = TRUE]
    BY <1>1 DEF Stopped, Typed
  <2>2. /\ active'.id = active.id /\ active'.root = active.root
        /\ active'.cancelled = active.cancelled /\ active'.revision = active.revision
    BY <2>1 DEF Jobs
  <2> QED
    BY <2>1, <2>2, <1>1 DEF JobInv, Typed, Jobs
<1>5. ScreenInv'
  BY <1>1 DEF ScreenInv, DocsOf, Open
<1>6. FindingsCurrent'
  <2> SUFFICES ASSUME NEW r \in Roots, Watched(r)'
               PROVE  r \in dirty'
    BY DEF FindingsCurrent, Due
  <2>1. CASE r \in workspaces'
    BY <2>1, <1>1
  <2>2. CASE \E d \in DocsOf(r) : d \in published' \/ d \in Open(docs')
    BY <2>2, <1>1 DEF DocsOf
  <2>3. CASE \E d \in DocsOf(r) : screen'[d] # Clear
    BY <2>3, <1>1 DEF DocsOf
  <2> QED
    BY <2>1, <2>2, <2>3 DEF Watched, DocsOf, Open
<1> QED
  BY <1>3, <1>4, <1>5, <1>6

\* A step after which documents, publications and the screen are as before, and
\* every root that was due is due, unless the server is shut down.
LEMMA QuietInv ==
    ASSUME IInv,
           UNCHANGED <<revision, docs, workspaces, published, screen, told>>,
           dirty' \in SUBSET Roots,
           active' \in Jobs \cup {Idle},
           pending' \in Queue,
           JobInv',
           shutdown' \in BOOLEAN, shutdown => shutdown',
           loop = "ended" => loop' = "ended",
           ~shutdown' => \A r \in Roots : Watched(r) /\ Due(r) => Due(r)'
    PROVE  IInv'
<1> USE DEF IInv
<1>1. Typed'
  BY DEF Typed
<1>2. ScreenInv'
  BY DEF ScreenInv, DocsOf, Open
<1>3. FindingsCurrent'
  <2> SUFFICES ASSUME loop' # "ended", ~shutdown', NEW r \in Roots, Watched(r)', ~Due(r)'
               PROVE  /\ told'[r] = Inputs(docs', r)
                      /\ \A d \in DocsOf(r) : screen'[d] \in {Clear, Inputs(docs', r)}
    BY DEF FindingsCurrent, Inputs, DocsOf
  <2>1. Watched(r)
    BY DEF Watched, DocsOf, Open
  <2>2. ~Due(r)
    BY <2>1
  <2> QED
    BY <2>1, <2>2 DEF FindingsCurrent, Inputs, DocsOf
<1> QED
  BY <1>1, <1>2, <1>3

-----------------------------------------------------------------------------
\* The notifications: didOpen, didChange, didClose, the ones that only touch files,
\* and didChangeWorkspaceFolders invalidate what they leave behind.
LEMMA NotificationInv ==
    ASSUME IInv,
           \/ \E d \in Docs : DidOpen(d) \/ DidChange(d) \/ DidClose(d)
           \/ Touched \/ DidChangeWorkspaceFolders
    PROVE  IInv'
<1>1. workspaces \in SUBSET {r \in Roots : DocsOf(r) \cap Scratch = {}}
  BY DEF IInv, Typed, ScreenInv
<1>2. /\ DOMAIN screen = Docs /\ docs \in [Docs -> Nat] /\ revision \in Nat
      /\ published \in SUBSET Docs
      /\ \A d \in Docs : screen[d] # Clear => d \in published
      /\ \A d \in Scratch : d \in published => d \in Open(docs)
  BY DEF IInv, Typed, ScreenInv
<1>3. ASSUME NEW d \in Docs, DidOpen(d) \/ DidChange(d)
      PROVE  IInv'
  <2>1. [docs EXCEPT ![d] = revision + 1] \in [Docs -> Nat]
    BY <1>2
  <2>2. \A u \in Scratch : u \in published => u \in Open([docs EXCEPT ![d] = revision + 1])
    BY <1>2 DEF Open, Closed
  <2>3. Invalidate([docs EXCEPT ![d] = revision + 1], published, workspaces, {})
        /\ screen' = screen
    BY <1>3 DEF DidOpen, DidChange
  <2> QED
    BY <2>1, <2>2, <2>3, <1>1, <1>2, InvalidateInv
<1>4. ASSUME NEW d \in Docs, DidClose(d)
      PROVE  IInv'
  <2> DEFINE texts == [docs EXCEPT ![d] = Closed]
             also == IF docs[d] # Closed /\ d \notin Scratch THEN {RootOf[d]} ELSE {}
  <2>1. texts \in [Docs -> Nat]
    BY <1>2 DEF Closed
  <2>2. \A u \in Scratch : u \in published \ {d} => u \in Open(texts)
    BY <1>2 DEF Open, Closed
  <2>3. Invalidate(texts, published \ {d}, workspaces, also)
        /\ screen' = [screen EXCEPT ![d] = Clear]
    BY <1>4 DEF DidClose
  <2>4. also \in SUBSET Roots
    BY RootsAssumption
  <2>5. DOMAIN screen' = Docs /\ \A e \in Docs : screen'[e] # Clear => e \in published \ {d}
    BY <2>3, <1>2
  <2>6. published \ {d} \in SUBSET published
    OBVIOUS
  <2> HIDE DEF texts, also
  <2> QED
    BY <2>1, <2>2, <2>3, <2>4, <2>5, <2>6, <1>1, InvalidateInv
<1>5. CASE Touched
  <2>1. Invalidate(docs, published, workspaces, {}) /\ screen' = screen
    BY <1>5 DEF Touched
  <2> QED
    BY <2>1, <1>1, <1>2, InvalidateInv
<1>6. CASE DidChangeWorkspaceFolders
  <2>1. PICK spaces \in SUBSET {r \in Roots : DocsOf(r) \cap Scratch = {}} :
            Invalidate(docs, published, spaces, {})
    BY <1>6 DEF DidChangeWorkspaceFolders
  <2>2. screen' = screen
    BY <1>6 DEF DidChangeWorkspaceFolders
  <2> QED
    BY <2>1, <2>2, <1>2, InvalidateInv
<1> QED
  BY <1>3, <1>4, <1>5, <1>6

\* A step that leaves the job alone keeps what is known of it.
LEMMA SameJob ==
    ASSUME JobInv, UNCHANGED <<revision, docs, published, active>>, shutdown => shutdown'
    PROVE  JobInv'
  BY DEF JobInv

\* The other messages: a request, its cancellation, shutdown, the end of the input
\* and exit leave the documents and the screen alone, and every root that is due.
LEMMA ControlInv ==
    ASSUME IInv,
           \/ \E q \in Requests : Request(q) \/ CancelRequest(q)
           \/ Shutdown \/ InputEnds \/ Exit
    PROVE  IInv'
<1> USE DEF IInv
<1>1. /\ dirty \in SUBSET Roots /\ active \in Jobs \cup {Idle} /\ shutdown \in BOOLEAN
      /\ pending \in Queue /\ revision \in Nat
  BY DEF Typed
<1>2. /\ Stopped(active) \in Jobs \cup {Idle} /\ Cancelled(active) \in Jobs \cup {Idle}
      /\ active = Idle => Stopped(active) = Idle /\ Cancelled(active) = Idle
      /\ active # Idle => \A w \in {Stopped(active), Cancelled(active)} :
            /\ w.id = active.id /\ w.root = active.root /\ w.revision = active.revision
            /\ w.docs = active.docs /\ w.published = active.published
      /\ active # Idle => Stopped(active).cancelled = active.cancelled
  BY <1>1 DEF Stopped, Cancelled, Jobs
<1>3. ASSUME NEW q \in Requests, Request(q)
      PROVE  IInv'
  <2>1. /\ UNCHANGED <<revision, docs, workspaces, published, screen, told, dirty, active, shutdown>>
        /\ loop = "ended" => loop' = "ended"
    BY <1>3 DEF Request, Heard, buffers
  <2>2. JobInv'
    BY <2>1, SameJob
  <2>3. pending' \in Queue
    <3>1. [id |-> q, revision |-> revision, cancelled |-> FALSE] \in Queued
      BY <1>1 DEF Queued
    <3>2. \/ pending' = pending
          \/ pending' = Append(pending, [id |-> q, revision |-> revision, cancelled |-> FALSE])
      BY <1>3 DEF Request
    <3> QED
      BY <3>1, <3>2, <1>1, QueueFacts DEF Queue
  <2> QED
    BY <2>1, <2>2, <2>3, <1>1, QuietInv DEF Due
<1>4. ASSUME NEW q \in Requests, CancelRequest(q)
      PROVE  IInv'
  <2>1. /\ UNCHANGED <<revision, docs, workspaces, published, screen, told, dirty, shutdown>>
        /\ loop = "ended" => loop' = "ended"
        /\ active' = IF active.id = {q} THEN Cancelled(active) ELSE active
    BY <1>4 DEF CancelRequest, Heard, buffers, client
  <2>q. pending' \in Queue
    <3>1. pending' = [i \in 1..Len(pending) |->
                        IF pending[i].id = q THEN [pending[i] EXCEPT !.cancelled = TRUE]
                                             ELSE pending[i]]
      BY <1>4 DEF CancelRequest
    <3>2. \A i \in 1..Len(pending) : pending[i] \in Queued
      BY <1>1 DEF Queue
    <3>3. \A e \in Queued : [e EXCEPT !.cancelled = TRUE] \in Queued
      BY DEF Queued
    <3>4. pending' \in [1..Len(pending) -> Queued]
      BY <3>1, <3>2, <3>3
    <3> QED
      BY <3>4, <1>1, QueueFacts DEF Queue
  <2>2. CASE active.id = {q} /\ active # Idle
    <3>1. active' = Cancelled(active) /\ active'.root = active.root
      BY <2>1, <2>2, <1>2
    <3>2. JobInv'
      BY <3>1, <2>1, <2>2, <1>2 DEF JobInv
    <3> QED
      BY <3>1, <3>2, <2>1, <2>q, <1>1, <1>2, QuietInv DEF Due
  <2>3. CASE active.id # {q} \/ active = Idle
    <3>1. active' = active
      BY <2>1, <2>3, <1>2
    <3>2. JobInv'
      BY <3>1, <2>1, SameJob
    <3> QED
      BY <3>1, <3>2, <2>1, <2>q, <1>1, QuietInv DEF Due
  <2> QED
    BY <2>2, <2>3
<1>5. CASE Shutdown
  <2>1. /\ UNCHANGED <<revision, docs, workspaces, published, screen, told>>
        /\ loop = "ended" => loop' = "ended"
        /\ active' = Cancelled(active) /\ dirty' = {} /\ shutdown' = TRUE
        /\ pending' = <<>>
    BY <1>5 DEF Shutdown, Heard
  <2>2. JobInv'
    BY <2>1, <1>2 DEF JobInv
  <2> QED
    BY <2>1, <2>2, <1>2, QuietInv DEF Queue
<1>6. CASE InputEnds
  <2>1. /\ UNCHANGED <<revision, docs, workspaces, published, screen, told, dirty, active, shutdown,
                      pending>>
        /\ loop = "ended" => loop' = "ended"
    BY <1>6 DEF InputEnds, Heard, buffers, client
  <2>2. JobInv'
    BY <2>1, SameJob
  <2> QED
    BY <2>1, <2>2, <1>1, QuietInv DEF Due
<1>7. CASE Exit
  <2>1. /\ UNCHANGED <<revision, docs, workspaces, published, screen, told, dirty, shutdown, pending>>
        /\ loop' = "ended"
        /\ active' = Stopped(active)
    BY <1>7 DEF Exit, buffers, client
  <2>2. active'.root = active.root
    BY <2>1, <1>2
  <2>3. JobInv'
    BY <2>1, <1>2 DEF JobInv
  <2> QED
    BY <2>1, <2>2, <2>3, <1>1, <1>2, QuietInv DEF Due
<1> QED
  BY <1>3, <1>4, <1>5, <1>6, <1>7

-----------------------------------------------------------------------------
\* The top of an iteration and the worker: a root leaves the dirty ones only to
\* become the job, whose clone is the server.
LEMMA ScheduleInv ==
    ASSUME IInv, Schedule \/ WorkerDone
    PROVE  IInv'
<1> USE DEF IInv
<1>1. /\ dirty \in SUBSET Roots /\ active \in Jobs \cup {Idle} /\ shutdown \in BOOLEAN
      /\ pending \in Queue /\ revision \in Nat
      /\ docs \in [Docs -> Nat] /\ published \in SUBSET Docs
  BY DEF Typed
<1>2. CASE RefuseQueued \/ AwaitOrEnd
  <2>1. /\ UNCHANGED <<revision, docs, workspaces, published, screen, told, dirty, active, shutdown>>
        /\ loop = "ended" => loop' = "ended"
    BY <1>2 DEF RefuseQueued, AwaitOrEnd, buffers, client
  <2>2. JobInv'
    BY <2>1, SameJob
  <2>3. pending' \in Queue
    <3>1. pending' = pending \/ (pending # <<>> /\ pending' = Tail(pending))
      BY <1>2 DEF RefuseQueued, AwaitOrEnd
    <3> QED
      BY <3>1, <1>1, QueueFacts DEF Queue
  <2> QED
    BY <2>1, <2>2, <2>3, <1>1, QuietInv DEF Due
<1>3. CASE StartRequest
  <2>1. /\ UNCHANGED <<revision, docs, workspaces, published, screen, told, dirty, shutdown>>
        /\ loop # "ended" /\ active = Idle
        /\ active' = Work({Head(pending).id}, {})
        /\ pending # <<>> /\ pending' = Tail(pending)
    BY <1>3 DEF StartRequest, buffers, client
  <2>2. pending' \in Queue /\ Head(pending).id \in Requests
    <3>1. Head(pending) \in Queued /\ Tail(pending) \in Queue
      BY <2>1, <1>1, QueueFacts DEF Queue
    <3> QED
      BY <3>1, <2>1 DEF Queued
  <2>3. active' \in Jobs
    BY <2>1, <2>2, <1>1 DEF Work, Jobs
  <2>4. JobInv'
    BY <2>1, <1>1 DEF JobInv, Work
  <2> QED
    BY <2>1, <2>2, <2>3, <2>4, <1>1, QuietInv DEF Due, Idle
<1>4. CASE StartRoot
  <2>1. /\ UNCHANGED <<revision, docs, workspaces, published, screen, told, shutdown,
                      pending>>
        /\ loop # "ended" /\ active = Idle
    BY <1>4 DEF StartRoot, client
  <2>2. PICK r \in dirty : active' = Work({}, {r}) /\ dirty' = dirty \ {r}
    BY <1>4 DEF StartRoot
  <2>3. active' \in Jobs /\ active'.root = {r}
    BY <2>2, <1>1 DEF Work, Jobs
  <2>4. JobInv'
    BY <2>1, <2>2, <1>1 DEF JobInv, Work
  <2>5. \A s \in Roots : Due(s) => Due(s)'
    BY <2>1, <2>2, <2>3 DEF Due, Idle
  <2> QED
    BY <2>1, <2>2, <2>3, <2>4, <2>5, <1>1, QuietInv
<1>5. CASE WorkerDone
  <2>1. /\ UNCHANGED <<revision, docs, workspaces, published, screen, told, dirty, shutdown, loop,
                      pending>>
        /\ active # Idle
    BY <1>5 DEF WorkerDone, buffers, client
  <2>2. PICK o \in Verdicts(active) : active' = [active EXCEPT !.outcome = o]
    BY <1>5 DEF WorkerDone
  <2>3. o \in {"ok", "changed", "failed", "canceled"}
    BY <2>2 DEF Verdicts
  <2>4. active' \in Jobs
    BY <2>1, <2>2, <2>3, <1>1 DEF Jobs
  <2>5. /\ active'.id = active.id /\ active'.root = active.root
        /\ active'.revision = active.revision /\ active'.docs = active.docs
        /\ active'.published = active.published /\ active'.cancelled = active.cancelled
    BY <2>1, <2>2, <1>1 DEF Jobs
  <2>6. JobInv'
    BY <2>1, <2>5 DEF JobInv
  <2> QED
    BY <2>1, <2>4, <2>5, <2>6, <1>1, QuietInv DEF Due
<1> QED
  BY <1>2, <1>3, <1>4, <1>5 DEF Schedule

-----------------------------------------------------------------------------
\* The loop receives a result: what the branches of the completion have in common.
LEMMA ReceivedFacts ==
    ASSUME IInv, Received
    PROVE  /\ UNCHANGED <<shutdown, revision, docs, workspaces, pending>>
           /\ loop # "ended" /\ active \in Jobs /\ active' = Idle /\ JobInv'
  BY DEF Received, IInv, Typed, JobInv

\* An answered request, a dropped root and one to be retried: a root that stops being
\* the job is dirty again, or is no longer watched, or the server is shut down.
LEMMA QuietlyReceivedInv ==
    ASSUME IInv,
           \/ RequestReceived
           \/ \E r \in Roots : RootDropped(r) \/ RootRetried(r)
    PROVE  IInv'
<1> USE DEF IInv
<1>1. Typed
  OBVIOUS
<1>2. CASE RequestReceived
  <2>1. Received /\ active.id # {} /\ UNCHANGED <<published, dirty, screen, told>>
    BY <1>2 DEF RequestReceived
  <2>2. active.root = {}
    BY <2>1, ReceivedFacts DEF JobInv, Received
  <2> QED
    BY <2>1, <2>2, <1>1, ReceivedFacts, QuietInv DEF Due, Typed
<1>3. ASSUME NEW r \in Roots, RootDropped(r)
      PROVE  IInv'
  <2>1. /\ Received /\ active.root = {r} /\ UNCHANGED <<published, dirty, screen, told>>
        /\ active.cancelled \/ ClosedScratch(r)
    BY <1>3 DEF RootDropped
  <2>2. ASSUME ~shutdown PROVE ~Watched(r)
    <3>1. ClosedScratch(r)
      BY <2>1, <2>2 DEF JobInv, Received
    <3>2. PICK u \in Scratch : u \in DocsOf(r)
      BY <3>1 DEF ClosedScratch
    <3>3. DocsOf(r) = {u}
      BY <3>2, RootsAssumption DEF DocsOf
    <3>4. u \notin Open(docs)
      BY <3>1, <3>3 DEF ClosedScratch
    <3>5. u \notin published /\ screen[u] = Clear /\ r \notin workspaces
      BY <3>2, <3>3, <3>4, RootsAssumption DEF ScreenInv
    <3> QED
      BY <3>3, <3>4, <3>5 DEF Watched
  <2>3. \A s \in Roots : Due(s) /\ s # r => Due(s)'
    BY <2>1 DEF Due
  <2>4. shutdown' = shutdown
    BY <2>1, ReceivedFacts
  <2> QED
    BY <2>1, <2>2, <2>3, <2>4, <1>1, ReceivedFacts, QuietInv DEF Typed
<1>4. ASSUME NEW r \in Roots, RootRetried(r)
      PROVE  IInv'
  <2>1. /\ Received /\ active.root = {r} /\ UNCHANGED <<published, screen, told>>
        /\ dirty' = dirty \cup {r}
    BY <1>4 DEF RootRetried
  <2>2. \A s \in Roots : Due(s) => Due(s)'
    BY <2>1 DEF Due
  <2> QED
    BY <2>1, <2>2, <1>1, ReceivedFacts, QuietInv DEF Typed
<1> QED
  BY <1>2, <1>3, <1>4

\* A step that has the last word on a root: it leaves the screen of every other root
\* alone and, for this one, Clear or computed from the buffers as they are.
LEMMA LastWordInv ==
    ASSUME IInv, NEW r \in Roots, Received, active.root = {r},
           dirty' = dirty,
           told' = [told EXCEPT ![r] = Inputs(docs, r)],
           DOMAIN screen' = Docs,
           published' \in SUBSET Docs,
           \A d \in Docs \ DocsOf(r) :
               screen'[d] = screen[d] /\ (d \in published' <=> d \in published),
           \A d \in DocsOf(r) : screen'[d] \in {Clear, Inputs(docs, r)},
           \A d \in Docs : screen'[d] # Clear => d \in published',
           \A d \in Scratch : d \in published' => d \in Open(docs)
    PROVE  IInv'
<1> USE DEF IInv
<1>1. /\ UNCHANGED <<shutdown, revision, docs, workspaces, pending>>
      /\ loop # "ended" /\ active' = Idle /\ JobInv'
  BY ReceivedFacts
<1>2. Typed'
  BY <1>1 DEF Typed
<1>3. ScreenInv'
  BY <1>1 DEF ScreenInv, DocsOf, Open
<1>4. FindingsCurrent'
  <2>1. ASSUME ~shutdown, NEW s \in Roots, Watched(s)', s \notin dirty
        PROVE  /\ told'[s] = Inputs(docs, s)
               /\ \A d \in DocsOf(s) : screen'[d] \in {Clear, Inputs(docs, s)}
    <3>1. CASE s = r
      BY <3>1 DEF Typed
    <3>2. CASE s # r
      <4>1. \A d \in DocsOf(s) : d \in Docs \ DocsOf(r)
        BY <3>2 DEF DocsOf
      <4>2. Watched(s)
        BY <2>1, <4>1, <1>1 DEF Watched, DocsOf, Open
      <4>3. ~Due(s)
        BY <2>1, <3>2 DEF Due
      <4>4. told'[s] = told[s]
        BY <3>2 DEF Typed
      <4>5. /\ told[s] = Inputs(docs, s)
            /\ \A d \in DocsOf(s) : screen[d] \in {Clear, Inputs(docs, s)}
        BY <2>1, <4>2, <4>3, <1>1 DEF FindingsCurrent
      <4> QED
        BY <4>1, <4>4, <4>5
    <3> QED
      BY <3>1, <3>2
  <2>2. \A s \in Roots : s \in dirty => Due(s)'
    BY DEF Due
  <2>3. docs' = docs /\ shutdown' = shutdown
    BY <1>1
  <2>4. ~shutdown => \A s \in Roots : Watched(s)' =>
          \/ Due(s)'
          \/ /\ told'[s] = Inputs(docs, s)
             /\ \A d \in DocsOf(s) : screen'[d] \in {Clear, Inputs(docs, s)}
    BY <2>1, <2>2
  <2> QED
    BY <2>3, <2>4 DEF FindingsCurrent
<1> QED
  BY <1>1, <1>2, <1>3, <1>4

\* The analysis failed: what was published for its root is cleared, and the client
\* showed nothing else of it.
LEMMA FailedInv ==
    ASSUME IInv, NEW r \in Roots, RootFailed(r)
    PROVE  IInv'
<1> USE DEF IInv
<1>1. /\ Received /\ active.root = {r} /\ dirty' = dirty
      /\ told' = [told EXCEPT ![r] = Inputs(docs, r)]
      /\ screen' = [d \in Docs |-> IF d \in DocsOf(r) \cap published THEN Clear ELSE screen[d]]
      /\ published' = published \ DocsOf(r)
  BY DEF RootFailed
<1>2. \A d \in DocsOf(r) : screen'[d] = Clear
  BY <1>1 DEF ScreenInv, DocsOf
<1>3. \A d \in Docs \ DocsOf(r) :
          screen'[d] = screen[d] /\ (d \in published' <=> d \in published)
  BY <1>1
<1>4. \A d \in Docs : screen'[d] # Clear => d \in published'
  BY <1>1, <1>2, <1>3 DEF ScreenInv
<1>5. /\ DOMAIN screen' = Docs /\ published' \in SUBSET Docs
      /\ \A d \in Scratch : d \in published' => d \in Open(docs)
  BY <1>1 DEF Typed, ScreenInv
<1> QED
  BY <1>1, <1>2, <1>3, <1>4, <1>5, LastWordInv

\* The analysis is published: its revision is current, so its clone is the server and
\* what it does not touch of its root shows nothing.
LEMMA PublishedInv ==
    ASSUME IInv, NEW r \in Roots, RootPublished(r)
    PROVE  IInv'
<1> USE DEF IInv
<1>1. Received /\ active.root = {r} /\ dirty' = dirty /\ active.revision = revision
  BY DEF RootPublished, Useless
<1>2. active.docs = docs /\ active.published = published
  BY <1>1 DEF JobInv, Received
<1>3. told' = [told EXCEPT ![r] = Inputs(docs, r)]
  BY <1>2 DEF RootPublished
<1>4. PICK found \in SUBSET (DocsOf(r) \ (Open(docs) \cup Scratch)) :
        LET targets == found \cup (DocsOf(r) \cap Open(docs))
            cleared == (DocsOf(r) \cap published) \ targets IN
        /\ screen' = [d \in Docs |-> CASE d \in targets -> Inputs(docs, r)
                                       [] d \in cleared -> Clear
                                       [] OTHER -> screen[d]]
        /\ published' = (published \ cleared) \cup targets
  BY <1>2 DEF RootPublished
<1> DEFINE targets == found \cup (DocsOf(r) \cap Open(docs))
           cleared == (DocsOf(r) \cap published) \ targets
<1>5. /\ targets \subseteq DocsOf(r) /\ cleared \subseteq DocsOf(r) /\ DocsOf(r) \subseteq Docs
      /\ \A d \in DocsOf(r) : d \in targets \/ d \in cleared \/ d \notin published
      /\ \A d \in Scratch : d \in targets => d \in Open(docs)
      /\ \A d \in cleared : d \notin targets
  BY <1>4 DEF DocsOf
<1>6. /\ screen' = [d \in Docs |-> IF d \in targets THEN Inputs(docs, r)
                                   ELSE IF d \in cleared THEN Clear ELSE screen[d]]
      /\ published' = (published \ cleared) \cup targets
  BY <1>4
<1> HIDE DEF targets, cleared
<1>7. \A d \in DocsOf(r) : screen'[d] \in {Clear, Inputs(docs, r)}
  BY <1>5, <1>6 DEF ScreenInv
<1>8. \A d \in Docs \ DocsOf(r) :
          screen'[d] = screen[d] /\ (d \in published' <=> d \in published)
  BY <1>5, <1>6
<1>9. \A d \in Docs : screen'[d] # Clear => d \in published'
  BY <1>5, <1>6 DEF ScreenInv
<1>10. /\ DOMAIN screen' = Docs /\ published' \in SUBSET Docs
       /\ \A d \in Scratch : d \in published' => d \in Open(docs)
  BY <1>5, <1>6 DEF Typed, ScreenInv
<1> QED
  BY <1>1, <1>3, <1>7, <1>8, <1>9, <1>10, LastWordInv

\* Every step of the loop, the worker and the client keeps the invariant.
LEMMA NextInv == IInv /\ [Next]_vars => IInv'
<1> SUFFICES ASSUME IInv, [Next]_vars PROVE IInv'
  OBVIOUS
<1>1. CASE Schedule \/ WorkerDone
  BY <1>1, ScheduleInv
<1>2. CASE Completed
  BY <1>2, QuietlyReceivedInv, FailedInv, PublishedInv DEF Completed, RootReceived
<1>3. CASE Message
  BY <1>3, NotificationInv, ControlInv DEF Message
<1>4. CASE UNCHANGED vars
  <2>1. JobInv'
    BY <1>4, SameJob DEF vars, IInv
  <2> QED
    BY <2>1, <1>4, QuietInv DEF vars, IInv, Typed, Due
<1> QED
  BY <1>1, <1>2, <1>3, <1>4 DEF Next, Done

\* While the server serves, no finding is lost and none is stale on the client's screen,
\* however edits, closes, retries, cancellations and late results interleave
\* (lsp_scheduler.go invalidate and the completion branches).
THEOREM FindingsStayCurrent == Spec => []FindingsCurrent
<1>1. IInv => FindingsCurrent
  BY DEF IInv
<1> QED
  BY <1>1, InitInv, NextInv, PTL DEF Spec

-----------------------------------------------------------------------------
\* The positions of a request in a queue, and how many they are.
Places(p, q) == {i \in 1..Len(p) : p[i].id = q}
Waiting(p, q) == Cardinality(Places(p, q))

Same(x, y) == IF x = y THEN 1 ELSE 0
In(x, S) == IF x \in S THEN 1 ELSE 0

\* A queue has finitely many positions, and a request that has none is not in it.
LEMMA WaitingFacts ==
    ASSUME NEW p \in Queue, NEW q
    PROVE  /\ IsFiniteSet(Places(p, q))
           /\ Waiting(p, q) \in Nat
           /\ Waiting(p, q) = 0 <=> Places(p, q) = {}
<1>1. Len(p) \in Nat
  BY DEF Queue
<1>2. IsFiniteSet(1..Len(p))
  BY <1>1, FS_Interval
<1>3. Places(p, q) \in SUBSET (1..Len(p))
  BY DEF Places
<1>4. IsFiniteSet(Places(p, q))
  BY <1>2, <1>3, FS_Subset
<1> QED
  BY <1>4, FS_CardinalityType, FS_EmptySet DEF Waiting

\* Nobody waits in an empty queue.
LEMMA WaitingEmpty ==
    ASSUME NEW q
    PROVE  Waiting(<<>>, q) = 0
<1>1. Places(<<>>, q) = {}
  BY DEF Places
<1> QED
  BY <1>1, FS_EmptySet DEF Waiting

\* The loop takes the head: its request waits once less, the others as before.
LEMMA WaitingTail ==
    ASSUME NEW p \in Queue, p # <<>>, NEW q
    PROVE  Waiting(p, q) = Waiting(Tail(p), q) + Same(Head(p).id, q)
<1> DEFINE old == Places(p, q)
           new == Places(Tail(p), q)
           rest == old \ {1}
           f == [i \in new |-> i + 1]
<1>1. /\ Tail(p) \in Queue /\ Len(p) \in Nat /\ Len(p) >= 1
      /\ Len(Tail(p)) = Len(p) - 1
      /\ \A i \in 1..Len(Tail(p)) : Tail(p)[i] = p[i + 1]
      /\ Head(p) = p[1]
  BY DEF Queue
<1>2. IsFiniteSet(new) /\ IsFiniteSet(old)
  BY <1>1, WaitingFacts
<1>3. \A i \in new : i \in Nat /\ i + 1 \in rest
  BY <1>1 DEF Places
<1>4. \A j \in rest : j - 1 \in new /\ (j - 1) + 1 = j
  BY <1>1 DEF Places
<1>5. 1 \in old <=> Head(p).id = q
  BY <1>1 DEF Places
<1> HIDE DEF old, new
<1>6. f \in [new -> rest]
  BY <1>3
<1>7. \A a, b \in new : f[a] = f[b] => a = b
  BY <1>3
<1>8. \A j \in rest : \E i \in new : f[i] = j
  BY <1>4
<1>9. f \in Bijection(new, rest)
  BY <1>6, <1>7, <1>8 DEF Bijection, Injection, Surjection, IsInjective
<1>10. Cardinality(rest) = Cardinality(new)
  BY <1>9, <1>2, FS_Bijection DEF ExistsBijection
<1>11. Cardinality(rest) = IF 1 \in old THEN Cardinality(old) - 1 ELSE Cardinality(old)
  BY <1>2, FS_RemoveElement
<1>12. Cardinality(old) \in Nat /\ Cardinality(new) \in Nat
  BY <1>2, FS_CardinalityType
<1> QED
  BY <1>5, <1>10, <1>11, <1>12 DEF old, new, Waiting, Same, In

\* A request joins at the end: it waits once more, the others as before.
LEMMA WaitingAppend ==
    ASSUME NEW p \in Queue, NEW e \in Queued, NEW q
    PROVE  Waiting(Append(p, e), q) = Waiting(p, q) + Same(e.id, q)
<1> DEFINE old == Places(p, q)
           new == Places(Append(p, e), q)
<1>1. /\ Append(p, e) \in Queue /\ Len(p) \in Nat
      /\ Len(Append(p, e)) = Len(p) + 1
      /\ \A i \in 1..Len(p) : Append(p, e)[i] = p[i]
      /\ Append(p, e)[Len(p) + 1] = e
  BY DEF Queue
<1>2. IsFiniteSet(old) /\ Cardinality(old) \in Nat
  BY WaitingFacts, FS_CardinalityType
<1>3. Len(p) + 1 \notin old
  BY <1>1 DEF Places
<1>4. e.id = q => new = old \cup {Len(p) + 1}
  BY <1>1 DEF Places
<1>5. e.id # q => new = old
  BY <1>1 DEF Places
<1> HIDE DEF old, new
<1>6. e.id = q => Cardinality(new) = Cardinality(old) + 1
  BY <1>2, <1>3, <1>4, FS_AddElement
<1> QED
  BY <1>2, <1>5, <1>6 DEF old, new, Waiting, Same, In

-----------------------------------------------------------------------------
\* A job is of one request or of none, and every request has one place at most.
AnswersInv ==
    /\ answers \in [Requests -> Nat]
    /\ active.id = {} \/ \E q \in Requests : active.id = {q}
    /\ AnsweredOnce

\* AnsweredOnce in terms of the counts.
LEMMA OneEach ==
    AnsweredOnce <=>
        \A q \in Requests :
            answers[q] + Same(active.id, {q}) + Waiting(pending, q) = In(q, asked)
  BY DEF AnsweredOnce, Same, In, Waiting, Places

\* The same after a step.
LEMMA OneEachNext ==
    AnsweredOnce' <=>
        \A q \in Requests :
            answers'[q] + Same(active'.id, {q}) + Waiting(pending', q) = In(q, asked')
  BY DEF AnsweredOnce, Same, In, Waiting, Places

\* What answering a set of requests does to the counts.
LEMMA AnswerFacts ==
    ASSUME answers \in [Requests -> Nat], NEW ids, Answer(ids)
    PROVE  /\ answers' \in [Requests -> Nat]
           /\ \A q \in Requests : answers'[q] = answers[q] + In(q, ids)
  BY DEF Answer, Same, In

\* A step that moves no request: it leaves the answers, the request of the job and
\* the number of times each request waits.
LEMMA AnswersKept ==
    ASSUME AnswersInv, answers' = answers, asked' = asked, active'.id = active.id,
           \A q \in Requests : Waiting(pending', q) = Waiting(pending, q)
    PROVE  AnswersInv'
<1>1. AnsweredOnce'
  BY OneEach, OneEachNext DEF AnswersInv
<1> QED
  BY <1>1 DEF AnswersInv

\* Stopping or cancelling a job leaves its request, and an idle worker has none.
LEMMA SameRequest ==
    ASSUME Typed
    PROVE  /\ Stopped(active).id = active.id
           /\ Cancelled(active).id = active.id
           /\ Idle.id = {}
  BY DEF Typed, Jobs, Stopped, Cancelled, Idle

\* Notifications, the end of the input, exit and a step of the worker move no request.
LEMMA BystanderAnswers ==
    ASSUME Typed, AnswersInv,
           \/ WorkerDone \/ AwaitOrEnd \/ InputEnds \/ Exit \/ Touched
           \/ DidChangeWorkspaceFolders
           \/ \E d \in Docs : DidOpen(d) \/ DidChange(d) \/ DidClose(d)
           \/ UNCHANGED vars
    PROVE  AnswersInv'
<1>1. answers' = answers /\ asked' = asked /\ pending' = pending
  BY DEF WorkerDone, AwaitOrEnd, InputEnds, Exit, Touched, DidChangeWorkspaceFolders,
         DidOpen, DidChange, DidClose, Invalidate, vars, client
<1>2. \/ active' = active \/ active' = Stopped(active)
      \/ WorkerDone
  BY DEF AwaitOrEnd, InputEnds, Exit, Touched, DidChangeWorkspaceFolders,
         DidOpen, DidChange, DidClose, Invalidate, vars
<1>3. WorkerDone => active'.id = active.id
  BY DEF WorkerDone, Typed, Jobs, Idle
<1>4. active'.id = active.id
  BY <1>2, <1>3, SameRequest
<1> QED
  BY <1>1, <1>4, AnswersKept

\* A queued request becomes the job, or is answered because it was cancelled or its
\* revision has passed; a root's job is of no request.
LEMMA ScheduledAnswers ==
    ASSUME Typed, AnswersInv, RefuseQueued \/ StartRequest \/ StartRoot
    PROVE  AnswersInv'
<1>1. /\ active \in Jobs \cup {Idle} /\ pending \in Queue /\ answers \in [Requests -> Nat]
      /\ AnsweredOnce
  BY DEF Typed, AnswersInv
<1>2. active = Idle /\ active.id = {} /\ asked' = asked
  BY DEF RefuseQueued, StartRequest, StartRoot, client, Idle
<1>3. ASSUME pending # <<>>
      PROVE  /\ Head(pending).id \in Requests
             /\ \A q \in Requests : /\ Waiting(Tail(pending), q) \in Nat
                                    /\ Waiting(pending, q) = Waiting(Tail(pending), q)
                                                             + Same(Head(pending).id, q)
  <2>1. Head(pending) \in Queued /\ Tail(pending) \in Queue
    BY <1>1, <1>3, QueueFacts DEF Queue
  <2>2. \A q \in Requests : Waiting(Tail(pending), q) \in Nat
    BY <2>1, WaitingFacts
  <2>3. \A q \in Requests : Waiting(pending, q) = Waiting(Tail(pending), q)
                                                  + Same(Head(pending).id, q)
    BY <1>1, <1>3, WaitingTail
  <2> QED
    BY <2>1, <2>2, <2>3 DEF Queued
<1>4. CASE RefuseQueued
  <2>1. pending # <<>> /\ pending' = Tail(pending) /\ active' = active
        /\ Answer({Head(pending).id})
    BY <1>4 DEF RefuseQueued
  <2>2. /\ answers' \in [Requests -> Nat]
        /\ \A q \in Requests : answers'[q] = answers[q] + Same(Head(pending).id, q)
    BY <2>1, <1>1, AnswerFacts DEF Same, In
  <2>3. AnsweredOnce'
    <3>1. \A q \in Requests :
            answers'[q] + Same(active'.id, {q}) + Waiting(pending', q) = In(q, asked)
      <4> TAKE q \in Requests
      <4>1. answers[q] + Same(active.id, {q}) + Waiting(pending, q) = In(q, asked)
        BY <1>1, OneEach
      <4>2. /\ Same(Head(pending).id, q) \in Nat /\ Same(active.id, {q}) \in Nat
            /\ answers[q] \in Nat /\ Waiting(Tail(pending), q) \in Nat
        BY <2>1, <1>1, <1>3 DEF Same, In
      <4>3. /\ Same(active'.id, {q}) = Same(active.id, {q})
            /\ pending' = Tail(pending)
            /\ answers'[q] = answers[q] + Same(Head(pending).id, q)
            /\ Waiting(pending, q) = Waiting(Tail(pending), q) + Same(Head(pending).id, q)
        BY <2>1, <2>2, <1>3
      <4> QED
        BY <4>1, <4>2, <4>3
    <3> QED
      BY <3>1, <1>2, OneEachNext
  <2> QED
    BY <2>1, <2>2, <2>3, <1>2 DEF AnswersInv
<1>5. CASE StartRequest
  <2>1. pending # <<>> /\ pending' = Tail(pending) /\ active'.id = {Head(pending).id}
        /\ answers' = answers
    BY <1>5 DEF StartRequest, Work, client
  <2>2. AnsweredOnce'
    <3>1. \A q \in Requests : Same(active'.id, {q}) = Same(Head(pending).id, q)
      BY <2>1 DEF Same, In
    <3>2. \A q \in Requests : Same(active.id, {q}) = 0
      BY <1>2 DEF Same, In
    <3>3. \A q \in Requests :
            answers'[q] + Same(active'.id, {q}) + Waiting(pending', q) = In(q, asked)
      <4> TAKE q \in Requests
      <4>1. answers[q] + Same(active.id, {q}) + Waiting(pending, q) = In(q, asked)
        BY <1>1, OneEach
      <4>2. /\ Same(Head(pending).id, q) \in Nat
            /\ answers[q] \in Nat /\ Waiting(Tail(pending), q) \in Nat
        BY <2>1, <1>1, <1>3 DEF Same, In
      <4>3. /\ answers' = answers /\ pending' = Tail(pending)
            /\ Waiting(pending, q) = Waiting(Tail(pending), q) + Same(Head(pending).id, q)
        BY <2>1, <1>3
      <4>4. Same(active'.id, {q}) = Same(Head(pending).id, q) /\ Same(active.id, {q}) = 0
        BY <3>1, <3>2
      <4> QED
        BY <4>1, <4>2, <4>3, <4>4
    <3> QED
      BY <3>3, <1>2, OneEachNext
  <2> QED
    BY <2>1, <2>2, <1>1, <1>3 DEF AnswersInv
<1>6. CASE StartRoot
  <2>1. pending' = pending /\ active'.id = {} /\ answers' = answers
    BY <1>6 DEF StartRoot, Work, client
  <2> QED
    BY <2>1, <1>2, AnswersKept
<1> QED
  BY <1>4, <1>5, <1>6

\* The loop receives a result and answers the request of the job, if there is one.
LEMMA ReceivedAnswers ==
    ASSUME Typed, AnswersInv, Received
    PROVE  AnswersInv'
<1>1. /\ active'.id = {} /\ asked' = asked /\ pending' = pending /\ Answer(active.id)
      /\ pending \in Queue /\ answers \in [Requests -> Nat] /\ AnsweredOnce
  BY DEF Received, Idle, AnswersInv, Typed
<1>2. /\ answers' \in [Requests -> Nat]
      /\ \A q \in Requests : answers'[q] = answers[q] + In(q, active.id)
  BY <1>1, AnswerFacts
<1>3. \A q \in Requests : In(q, active.id) = Same(active.id, {q}) /\ Same(active'.id, {q}) = 0
  <2>1. \A q \in Requests : q \in active.id <=> active.id = {q}
    BY DEF AnswersInv
  <2>2. \A q \in Requests : active'.id # {q}
    BY <1>1
  <2> QED
    BY <2>1, <2>2 DEF Same, In
<1>4. \A q \in Requests : Waiting(pending, q) \in Nat
  BY <1>1, WaitingFacts
<1>5. \A q \in Requests :
          answers'[q] + Same(active'.id, {q}) + Waiting(pending', q) = In(q, asked')
  BY <1>1, <1>2, <1>3, <1>4, OneEach DEF Same, In
<1> QED
  BY <1>1, <1>2, <1>5, OneEachNext DEF AnswersInv

\* A new request is queued, or answered at once: the server shuts down or its queue
\* is full.
LEMMA RequestAnswers ==
    ASSUME Typed, AnswersInv, NEW r \in Requests, Request(r)
    PROVE  AnswersInv'
<1>1. /\ asked' = asked \cup {r} /\ r \notin asked /\ active' = active
      /\ pending \in Queue /\ revision \in Nat
      /\ answers \in [Requests -> Nat] /\ AnsweredOnce
  BY DEF Request, AnswersInv, Typed
<1>2. \A q \in Requests : In(q, asked') = In(q, asked) + Same(q, r)
  BY <1>1 DEF Same, In
<1>3. \A q \in Requests : Waiting(pending, q) \in Nat
  BY <1>1, WaitingFacts
<1>4. CASE Answer({r}) /\ pending' = pending
  <2>1. /\ answers' \in [Requests -> Nat]
        /\ \A q \in Requests : answers'[q] = answers[q] + Same(q, r)
    BY <1>1, <1>4, AnswerFacts DEF Same, In
  <2>2. \A q \in Requests :
          answers'[q] + Same(active'.id, {q}) + Waiting(pending', q) = In(q, asked')
    <3> TAKE q \in Requests
    <3>1. answers[q] + Same(active.id, {q}) + Waiting(pending, q) = In(q, asked)
      BY <1>1, OneEach
    <3>2. /\ Same(q, r) \in Nat /\ Same(active.id, {q}) \in Nat /\ In(q, asked) \in Nat
          /\ answers[q] \in Nat /\ Waiting(pending, q) \in Nat
      BY <1>1, <1>3 DEF Same, In
    <3>3. /\ Same(active'.id, {q}) = Same(active.id, {q})
          /\ answers'[q] = answers[q] + Same(q, r) /\ pending' = pending
          /\ In(q, asked') = In(q, asked) + Same(q, r)
      BY <2>1, <1>1, <1>2, <1>4
    <3> QED
      BY <3>1, <3>2, <3>3
  <2> QED
    BY <2>1, <2>2, <1>1, OneEachNext DEF AnswersInv
<1>5. CASE /\ pending' = Append(pending, [id |-> r, revision |-> revision, cancelled |-> FALSE])
           /\ answers' = answers
  <2> DEFINE e == [id |-> r, revision |-> revision, cancelled |-> FALSE]
  <2>1. e \in Queued /\ e.id = r
    BY <1>1 DEF Queued
  <2> HIDE DEF e
  <2>2. \A q \in Requests : Waiting(Append(pending, e), q) = Waiting(pending, q) + Same(e.id, q)
    BY <2>1, <1>1, WaitingAppend
  <2>3. \A q \in Requests : Waiting(pending', q) = Waiting(pending, q) + Same(q, r)
    BY <2>1, <2>2, <1>5 DEF e, Same, In
  <2>4. \A q \in Requests :
          answers'[q] + Same(active'.id, {q}) + Waiting(pending', q) = In(q, asked')
    <3> TAKE q \in Requests
    <3>1. answers[q] + Same(active.id, {q}) + Waiting(pending, q) = In(q, asked)
      BY <1>1, OneEach
    <3>2. /\ Same(q, r) \in Nat /\ Same(active.id, {q}) \in Nat /\ In(q, asked) \in Nat
          /\ answers[q] \in Nat /\ Waiting(pending, q) \in Nat
      BY <1>1, <1>3 DEF Same, In
    <3>3. /\ Same(active'.id, {q}) = Same(active.id, {q})
          /\ answers' = answers /\ Waiting(pending', q) = Waiting(pending, q) + Same(q, r)
          /\ In(q, asked') = In(q, asked) + Same(q, r)
      BY <2>3, <1>1, <1>2, <1>5
    <3> QED
      BY <3>1, <3>2, <3>3
  <2> QED
    BY <2>4, <1>1, <1>5, OneEachNext DEF AnswersInv
<1> QED
  BY <1>4, <1>5 DEF Request

\* A cancellation marks a request where it is.
LEMMA CancelAnswers ==
    ASSUME Typed, AnswersInv, NEW r \in Requests, CancelRequest(r)
    PROVE  AnswersInv'
<1>1. /\ asked' = asked /\ answers' = answers
      /\ active' = active \/ active' = Cancelled(active)
      /\ pending' = [i \in 1..Len(pending) |->
                        IF pending[i].id = r THEN [pending[i] EXCEPT !.cancelled = TRUE]
                                             ELSE pending[i]]
  BY DEF CancelRequest, client
<1>2. active'.id = active.id
  BY <1>1, SameRequest
<1>3. pending \in Seq(Queued) /\ Len(pending) \in Nat
  BY DEF Typed, Queue
<1>4. \A i \in 1..Len(pending) : pending'[i].id = pending[i].id
  BY <1>1, <1>3 DEF Queued
<1>5. Len(pending') = Len(pending)
  BY <1>1, <1>3
<1>6. \A q \in Requests : Waiting(pending', q) = Waiting(pending, q)
  BY <1>4, <1>5 DEF Waiting, Places
<1> QED
  BY <1>1, <1>2, <1>6, AnswersKept

\* Shutdown answers every queued request, each of which waits only once, and the
\* request of the running job later.
LEMMA ShutdownAnswers ==
    ASSUME Typed, AnswersInv, Shutdown
    PROVE  AnswersInv'
<1> DEFINE ids == {pending[i].id : i \in 1..Len(pending)}
<1>1. /\ asked' = asked /\ active' = Cancelled(active) /\ pending' = <<>> /\ Answer(ids)
      /\ pending \in Queue /\ answers \in [Requests -> Nat] /\ AnsweredOnce
  BY DEF Shutdown, AnswersInv, Typed
<1>2. active'.id = active.id
  BY <1>1, SameRequest
<1>3. \A q : q \in ids <=> Places(pending, q) # {}
  BY DEF Places
<1> HIDE DEF ids
<1>4. /\ answers' \in [Requests -> Nat]
      /\ \A q \in Requests : answers'[q] = answers[q] + In(q, ids)
  BY <1>1, AnswerFacts
<1>5. \A q \in Requests : /\ Waiting(pending, q) \in Nat
                          /\ Waiting(pending, q) = 0 <=> q \notin ids
  BY <1>1, <1>3, WaitingFacts
<1>6. \A q \in Requests : Waiting(pending, q) <= 1
  BY <1>1, <1>5, OneEach DEF Same, In
<1>7. \A q \in Requests : Waiting(pending, q) = In(q, ids) /\ Waiting(pending', q) = 0
  BY <1>1, <1>5, <1>6, WaitingEmpty DEF Same, In
<1>8. \A q \in Requests :
          answers'[q] + Same(active'.id, {q}) + Waiting(pending', q) = In(q, asked')
  BY <1>1, <1>2, <1>4, <1>7, OneEach DEF Same, In
<1> QED
  BY <1>1, <1>2, <1>4, <1>8, OneEachNext DEF AnswersInv

\* At the start nothing was asked.
LEMMA InitAnswers == Init => AnswersInv
<1> SUFFICES ASSUME Init PROVE AnswersInv
  OBVIOUS
<1>1. \A q \in Requests :
          answers[q] + Same(active.id, {q}) + Waiting(pending, q) = In(q, asked)
  BY WaitingEmpty DEF Init, Same, In, Idle
<1> QED
  BY <1>1, OneEach DEF Init, AnswersInv, Idle

\* Every step keeps every request in one place.
LEMMA NextAnswers == Typed /\ AnswersInv /\ [Next]_vars => AnswersInv'
<1> SUFFICES ASSUME Typed, AnswersInv, [Next]_vars PROVE AnswersInv'
  OBVIOUS
<1>1. CASE Schedule \/ WorkerDone
  BY <1>1, ScheduledAnswers, BystanderAnswers DEF Schedule
<1>2. CASE Completed
  <2>1. Received
    BY <1>2 DEF Completed, RequestReceived, RootReceived, RootDropped, RootRetried,
                RootFailed, RootPublished
  <2> QED
    BY <2>1, ReceivedAnswers
<1>3. CASE Message
  BY <1>3, BystanderAnswers, RequestAnswers, CancelAnswers, ShutdownAnswers DEF Message
<1>4. CASE UNCHANGED vars
  BY <1>4, BystanderAnswers
<1> QED
  BY <1>1, <1>2, <1>3, <1>4 DEF Next, Done

\* Every request is answered exactly once or still can be, for any number of requests
\* and any limit of the queue, whatever edits, cancellations and shutdown do meanwhile
\* (lsp_scheduler.go, the answers of the scheduling, message and completion branches).
THEOREM RequestsAnsweredOnce == Spec => []AnsweredOnce
<1>1. IInv => Typed
  BY DEF IInv
<1>2. AnswersInv => AnsweredOnce
  BY DEF AnswersInv
<1> QED
  BY <1>1, <1>2, InitInv, NextInv, InitAnswers, NextAnswers, PTL DEF Spec
=============================================================================
