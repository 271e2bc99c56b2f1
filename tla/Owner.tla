-------------------------------- MODULE Owner --------------------------------
(***************************************************************************)
(* The lifecycle core of the runtime, runtime/owner-core.ts, with the      *)
(* selection of runtime/coordination.ts: one root, its nested scopes, the  *)
(* resources registered in them, the participants and callbacks that lease *)
(* the resources, and the draining of a scope.                             *)
(*                                                                         *)
(* JavaScript runs one continuation at a time, so what a function does up  *)
(* to its next await is one action here.  An actor is the body of the root *)
(* or a task (a launched participant or a dispatched callback).  Awaiting  *)
(* a close, a drain or a selection blocks the actor; native operations on  *)
(* a resource may outlive the code that asked for them (a deadline that    *)
(* gave up on one), so they are steps of their own.  A call the code       *)
(* rejects as invalid changes nothing and is no action.                    *)
(*                                                                         *)
(* Payloads, resource kinds and provenance, several roots, the delivery of *)
(* diagnostics and the traversal that finds captured resources are left    *)
(* out: a captured set of resources is an input.                           *)
(***************************************************************************)
EXTENDS Integers, Sequences, FiniteSets

CONSTANTS
    Main,           \* the body of the root
    Tasks,          \* participants and callbacks
    Root,           \* the root's scope
    Children,       \* scopes of withScope
    Resources,
    Options,        \* options resources are registered with
    Modes,          \* forms of coordination, and "native" for launchNative
    MaxGroup,       \* bound: participants of one group
    MaxUses         \* bound: native operations under way

ASSUME TasksAssumption == IsFiniteSet(Tasks)
ASSUME MainAssumption == Main \notin Tasks
ASSUME RootAssumption == Root \notin Children
ASSUME KeysAssumption == (Children \cup {Root}) \cap Tasks = {}
ASSUME OptionsAssumption ==
    Options \subseteq [managed: BOOLEAN, idempotent: BOOLEAN, shutdown: BOOLEAN]
ASSUME ModesAssumption ==
    Modes \subseteq {"all", "settled", "any", "race", "native"}
ASSUME MaxGroupAssumption == MaxGroup \in Nat
ASSUME MaxUsesAssumption == MaxUses \in Nat

Actors == Tasks \cup {Main}
Scopes == Children \cup {Root}

\* Owners of leases: a group or callback (by one of its tasks), or the base
\* of a scope for code that runs in no task.
Keys == Tasks \cup Scopes

VARIABLES
    scope,      \* scope[s]: "unborn", "open", "closing" or "closed"
    parent,     \* parent[s]: the scope it was opened in
    runner,     \* runner[s]: the actor that runs its body
    drain,      \* drain[s]: how far draining it has come
    res,        \* res[r]: a resource
    order,      \* resources in the order they were registered
    leases,     \* leases[r][k]: leases of owner k
    closer,     \* closer[r]: the close promise
    actor,      \* actor[a]: where an actor is: "unborn", "running", waiting
                \*   ("closing", "selecting", "draining") or "done"
    uses,       \* native operations under way: actor, resource, owner
    group,      \* group[g]: a launched group, by one of its tasks
    reported,   \* tasks whose failure was reported as late
    failed      \* the root had a cleanup failure

vars == <<scope, parent, runner, drain, res, order, leases, closer, actor,
          uses, group, reported, failed>>

Closers == {"none", "waiting", "running", "ok", "failed"}
Outcomes == {"ok", "domain", "standard"}

Inactive ==
    [status |-> "unborn", kind |-> "callback", scope |-> Root, home |-> Root,
     key |-> Root, captures |-> {}, group |-> Main, awaits |-> {},
     outcome |-> "ok"]
Unregistered ==
    [state |-> "unborn", scope |-> Root,
     options |-> [managed |-> FALSE, idempotent |-> FALSE, shutdown |-> FALSE],
     creator |-> Main, initial |-> FALSE, auto |-> FALSE, timer |-> FALSE,
     cleanup |-> FALSE]
NoGroup ==
    [live |-> FALSE, mode |-> "native", launcher |-> Main, scope |-> Root,
     members |-> {}, settled |-> <<>>, sealed |-> FALSE, selected |-> {}]
NotDraining ==
    [phase |-> "none", todo |-> {}, awaits |-> FALSE, found |-> FALSE]

Init ==
    /\ scope = [s \in Scopes |-> IF s = Root THEN "open" ELSE "unborn"]
    /\ parent = [s \in Scopes |-> Root]
    /\ runner = [s \in Scopes |-> Main]
    /\ drain = [s \in Scopes |-> NotDraining]
    /\ res = [r \in Resources |-> Unregistered]
    /\ order = <<>>
    /\ leases = [r \in Resources |-> [k \in Keys |-> 0]]
    /\ closer = [r \in Resources |-> "none"]
    /\ actor = [a \in Actors |->
                  IF a = Main
                  THEN [Inactive EXCEPT !.status = "running", !.kind = "main"]
                  ELSE Inactive]
    /\ uses = {}
    /\ group = [g \in Tasks |-> NoGroup]
    /\ reported = {}
    /\ failed = FALSE

-----------------------------------------------------------------------------
(* Scopes, owners and leases.                                              *)

\* inside: the walk from s along the parents p comes to t, so t is in every
\* set of scopes that holds s and the parents of its members.
Within(p, s, t) ==
    \A A \in SUBSET Scopes : s \in A /\ (\A x \in A : p[x] \in A) => t \in A
Inside(s, t) == Within(parent, s, t)

Running(a) == actor[a].status = "running"
Live(t) == actor[t].status \notin {"unborn", "done"}
IsTask(a) == a \in Tasks

\* The owner an actor leases under.
Key(a) == IF IsTask(a) THEN actor[a].key ELSE actor[a].scope

\* The scopes in which r may be touched, from the scope s of the caller.
ValidScope(r, s) ==
    /\ res[r].state # "unborn"
    /\ Inside(s, res[r].scope)
    /\ scope[res[r].scope] # "closed"

\* Faulty variant of Admits: a closing resource takes new owners.
AdmitsWhileClosing(r, s, k) ==
    ValidScope(r, s) /\ res[r].state # "closed"

\* acquire: a closing resource, or one of a closing scope, only takes owners
\* that already lease it.
Admits(r, s, k) ==
    /\ ValidScope(r, s)
    /\ res[r].state # "closed"
    /\ res[r].state = "closing" \/ scope[res[r].scope] = "closing"
         => leases[r][k] > 0

Lease(r, k, n) == [leases EXCEPT ![r][k] = @ + n]
Unlease(r, k) == [leases EXCEPT ![r][k] = @ - 1]
Unleased(r) == \A k \in Keys : leases[r][k] = 0

-----------------------------------------------------------------------------
(* Resources.                                                              *)

\* registerResource: what a task creates it leases from the start.
Register(a, r, options) ==
    /\ Running(a) /\ scope[actor[a].scope] = "open"
    /\ res[r].state = "unborn"
    /\ res' = [res EXCEPT ![r] =
                 [Unregistered EXCEPT !.state = "open", !.scope = actor[a].scope,
                                      !.options = options, !.creator = a,
                                      !.initial = IsTask(a)]]
    /\ order' = Append(order, r)
    /\ leases' = IF IsTask(a) THEN Lease(r, Key(a), 1) ELSE leases
    /\ UNCHANGED <<scope, parent, runner, drain, closer, actor, uses, group,
                   reported, failed>>

\* useResource: the lease of a native operation.
Use(a, r) ==
    /\ Running(a) /\ scope[actor[a].scope] # "closed"
    /\ Admits(r, actor[a].scope, Key(a))
    /\ <<a, r, Key(a)>> \notin uses /\ Cardinality(uses) < MaxUses
    /\ uses' = uses \cup {<<a, r, Key(a)>>}
    /\ leases' = Lease(r, Key(a), 1)
    /\ UNCHANGED <<scope, parent, runner, drain, res, order, closer, actor,
                   group, reported, failed>>

UseEnds(u) ==
    /\ u \in uses
    /\ uses' = uses \ {u}
    /\ leases' = Unlease(u[2], u[3])
    /\ UNCHANGED <<scope, parent, runner, drain, res, order, closer, actor,
                   group, reported, failed>>

\* Faulty variant of Closing: every close starts a close of its own.
ClosingAnew(r, record) ==
    /\ res' = [res EXCEPT ![r] = [record EXCEPT !.state = "closing",
                                                !.auto = FALSE]]
    /\ closer' = [closer EXCEPT ![r] = "waiting"]

\* state.closing ?? beginClose(state), on a resource that is record by then
Closing(r, record) ==
    IF closer[r] # "none"
    THEN /\ res' = [res EXCEPT ![r] = record]
         /\ UNCHANGED closer
    ELSE /\ res' = [res EXCEPT ![r] = [record EXCEPT !.state = "closing",
                                                     !.auto = FALSE]]
         /\ closer' = [closer EXCEPT ![r] = "waiting"]

\* closeResource: the creator gives up its initial lease; then the caller
\* awaits the one close of r.
Close(a, r) ==
    /\ Running(a) /\ ValidScope(r, actor[a].scope)
    /\ res[r].state = "open" \/ res[r].options.idempotent
    /\ LET mine == res[r].initial /\ res[r].creator = a
       IN  /\ Closing(r, [res[r] EXCEPT !.initial = @ /\ ~mine])
           /\ leases' = IF mine THEN Unlease(r, Key(a)) ELSE leases
    /\ actor' = [actor EXCEPT ![a] =
                   [@ EXCEPT !.status = "closing", !.awaits = {r}]]
    /\ UNCHANGED <<scope, parent, runner, drain, order, uses, group, reported,
                   failed>>

CloseReturns(a) ==
    /\ actor[a].status = "closing"
    /\ \A r \in actor[a].awaits : closer[r] \in {"ok", "failed"}
    /\ actor' = [actor EXCEPT ![a] =
                   [@ EXCEPT !.status = "running", !.awaits = {}]]
    /\ UNCHANGED <<scope, parent, runner, drain, res, order, leases, closer,
                   uses, group, reported, failed>>

\* The deadline of a close ends the wait of its caller, and nothing else.
CloseDeadline(a) ==
    /\ actor[a].status = "closing"
    /\ \E r \in actor[a].awaits :
         /\ closer[r] \notin {"ok", "failed"}
         /\ res' = [res EXCEPT ![r] = [@ EXCEPT !.cleanup = TRUE]]
    /\ failed' = TRUE
    /\ actor' = [actor EXCEPT ![a] =
                   [@ EXCEPT !.status = "running", !.awaits = {}]]
    /\ UNCHANGED <<scope, parent, runner, drain, order, leases, closer, uses,
                   group, reported>>

\* beginClose: the native close runs once nobody leases the resource,
CloserStarts(r) ==
    /\ closer[r] = "waiting" /\ Unleased(r)
    /\ closer' = [closer EXCEPT ![r] = "running"]
    /\ UNCHANGED <<scope, parent, runner, drain, res, order, leases, actor,
                   uses, group, reported, failed>>

\* Faulty variant of CloserEnds: the failure is not kept with the resource.
CloserEndsForgets(r, ok) ==
    /\ closer[r] = "running"
    /\ closer' = [closer EXCEPT ![r] = IF ok THEN "ok" ELSE "failed"]
    /\ res' = [res EXCEPT ![r] =
                 IF ok THEN [@ EXCEPT !.state = "closed", !.timer = FALSE]
                       ELSE [@ EXCEPT !.timer = FALSE]]
    /\ failed' = (failed \/ ~ok)
    /\ UNCHANGED <<scope, parent, runner, drain, order, leases, actor, uses,
                   group, reported>>

\* and what it reports decides the fate of the resource.
CloserEnds(r, ok) ==
    /\ closer[r] = "running"
    /\ closer' = [closer EXCEPT ![r] = IF ok THEN "ok" ELSE "failed"]
    /\ res' = [res EXCEPT ![r] =
                 IF ok THEN [@ EXCEPT !.state = "closed", !.timer = FALSE]
                       ELSE [@ EXCEPT !.cleanup = TRUE, !.timer = FALSE]]
    /\ failed' = (failed \/ ~ok)
    /\ UNCHANGED <<scope, parent, runner, drain, order, leases, actor, uses,
                   group, reported>>

-----------------------------------------------------------------------------
(* Groups of participants.                                                 *)

\* What a task held is released when it settles: its captures, and the
\* initial leases of what it created.
\* InitialsKept is a faulty variant: only captures are released.
InitialsKept(t) == {}
Initials(t) == {r \in Resources : res[r].initial /\ res[r].creator = t}
Released(t) ==
    [r \in Resources |->
       [leases[r] EXCEPT ![actor[t].key] =
          @ - (IF r \in actor[t].captures THEN 1 ELSE 0)
            - (IF r \in Initials(t) THEN 1 ELSE 0)]]
Surrendered(t) ==
    [r \in Resources |->
       IF r \in Initials(t) THEN [res[r] EXCEPT !.initial = FALSE] ELSE res[r]]

\* prepareLaunch and launchOwned or launchNative: every capture of every
\* participant is leased before the first one runs.
Launch(a, caps, mode) ==
    LET T == DOMAIN caps
        g == CHOOSE t \in T : TRUE
        native == mode = "native"
        key == IF native /\ IsTask(a) THEN actor[a].key ELSE g
    IN
    /\ Running(a)
    /\ \A t \in T : actor[t].status = "unborn"
    /\ native => Cardinality(T) = 1
    /\ scope[actor[a].scope] = "open" \/ (native /\ IsTask(a))
    /\ \A t \in T : \A r \in caps[t] : Admits(r, actor[a].scope, key)
    /\ leases' = [r \in Resources |->
                    [leases[r] EXCEPT ![key] =
                       @ + Cardinality({t \in T : r \in caps[t]})]]
    /\ group' = [group EXCEPT ![g] =
                   [live |-> TRUE, mode |-> mode, launcher |-> a,
                    scope |-> actor[a].scope, members |-> T, settled |-> <<>>,
                    sealed |-> FALSE, selected |-> {}]]
    /\ actor' = [b \in Actors |->
                   IF b \in T
                   THEN [Inactive EXCEPT !.status = "running",
                           !.kind = "participant", !.scope = actor[a].scope,
                           !.home = actor[a].scope, !.key = key,
                           !.captures = caps[b], !.group = g]
                   ELSE IF b = a /\ ~native
                   THEN [actor[a] EXCEPT !.status = "selecting"]
                   ELSE actor[b]]
    /\ UNCHANGED <<scope, parent, runner, drain, res, order, closer, uses,
                   reported, failed>>

\* What selectFromGroup selects from the completions observed so far, in
\* the order they came, and whether it can select yet.
Elements(seq) == {seq[i] : i \in DOMAIN seq}
Went(t, outcomes) == actor[t].outcome \in outcomes
Selects(g, chosen) ==
    LET gr == group[g]
        done == gr.settled
        all == Elements(done) = gr.members
        First(outcomes, i) ==
            /\ i \in DOMAIN done /\ Went(done[i], outcomes)
            /\ \A j \in 1 .. i - 1 : ~Went(done[j], outcomes)
        Bad == Outcomes \ {"ok"}
        none(outcomes) == \A i \in DOMAIN done : ~Went(done[i], outcomes)
    IN  CASE gr.mode = "settled" -> all /\ chosen = gr.members
          [] gr.mode = "all" ->
               \/ all /\ none(Bad) /\ chosen = gr.members
               \/ \E i \in DOMAIN done : First(Bad, i) /\ chosen = {done[i]}
          [] gr.mode = "any" ->
               \/ all /\ none({"ok"}) /\ chosen = gr.members
               \/ \E i \in DOMAIN done :
                    First({"ok"}, i) /\ chosen = Elements(SubSeq(done, 1, i))
          [] gr.mode = "race" -> done # <<>> /\ chosen = {done[1]}
          [] OTHER -> chosen \subseteq gr.members

\* Faulty variant of Late: completions that came before the selection are not
\* looked at.
LateIgnored(members, chosen) == {}

\* Members whose standard failure nobody selected.
Late(members, chosen) ==
    {t \in members : /\ actor[t].status = "done"
                     /\ actor[t].outcome = "standard"
                     /\ t \notin chosen}

\* A group whose last participant has settled leaves the root; what it
\* selected is remembered for the properties.
Kept(gr, live) ==
    IF live THEN gr
    ELSE [NoGroup EXCEPT !.members = gr.members, !.sealed = TRUE,
                         !.selected = gr.selected]

\* publish: seals the group and observes the completions already there.
Publish(g, chosen) ==
    /\ group[g].live /\ ~group[g].sealed
    /\ Selects(g, chosen)
    /\ group' = [group EXCEPT ![g] =
                   Kept([@ EXCEPT !.sealed = TRUE, !.selected = chosen],
                        \E t \in group[g].members : Live(t))]
    /\ reported' = reported \cup Late(group[g].members, chosen)
    /\ actor' = IF group[g].mode = "native" THEN actor
                ELSE [actor EXCEPT ![group[g].launcher] =
                        [@ EXCEPT !.status = "running"]]
    /\ UNCHANGED <<scope, parent, runner, drain, res, order, leases, closer,
                   uses, failed>>

\* settleLaunched: releases what the participant held; once the group is
\* sealed, each settlement observes its own outcome.
Settle(t, outcome) ==
    LET g == actor[t].group IN
    /\ Running(t) /\ actor[t].kind = "participant"
    /\ actor[t].scope = actor[t].home
    /\ leases' = Released(t)
    /\ res' = Surrendered(t)
    /\ actor' = [actor EXCEPT ![t] =
                   [Inactive EXCEPT !.status = "done", !.outcome = outcome]]
    /\ group' = [group EXCEPT ![g] =
                   Kept([group[g] EXCEPT !.settled = Append(@, t)],
                        \/ ~group[g].sealed
                        \/ \E u \in group[g].members \ {t} : Live(u))]
    /\ reported' = IF /\ group[g].sealed /\ outcome = "standard"
                      /\ t \notin group[g].selected
                   THEN reported \cup {t} ELSE reported
    /\ UNCHANGED <<scope, parent, runner, drain, order, closer, uses, failed>>

-----------------------------------------------------------------------------
(* Callbacks.                                                              *)

Called(t, s, k) ==
    actor' = [actor EXCEPT ![t] =
                [Inactive EXCEPT !.status = "running", !.scope = s, !.home = s,
                                 !.key = k]]

\* guardCallback: a native event enters the scope of the callback while it is
\* open,
Dispatch(t, s) ==
    /\ actor[t].status = "unborn" /\ scope[s] = "open"
    /\ Called(t, s, t)
    /\ UNCHANGED <<scope, parent, runner, drain, res, order, leases, closer,
                   uses, group, reported, failed>>

\* and a call from a task inside it belongs to that task, also while the
\* scope is closing.
Reenter(t, a, s) ==
    /\ actor[t].status = "unborn" /\ scope[s] \in {"open", "closing"}
    /\ IsTask(a) /\ Running(a) /\ Inside(actor[a].scope, s)
    /\ Called(t, actor[a].scope, actor[a].key)
    /\ UNCHANGED <<scope, parent, runner, drain, res, order, leases, closer,
                   uses, group, reported, failed>>

\* settleCallbackTask
CallbackEnds(t) ==
    /\ Running(t) /\ actor[t].kind = "callback"
    /\ actor[t].scope = actor[t].home
    /\ leases' = Released(t)
    /\ res' = Surrendered(t)
    /\ actor' = [actor EXCEPT ![t] = [Inactive EXCEPT !.status = "done"]]
    /\ UNCHANGED <<scope, parent, runner, drain, order, closer, uses, group,
                   reported, failed>>

-----------------------------------------------------------------------------
(* Scopes and the root.                                                    *)

\* withScope
EnterScope(a, c) ==
    /\ Running(a) /\ scope[actor[a].scope] = "open"
    /\ c \in Children /\ scope[c] = "unborn"
    /\ scope' = [scope EXCEPT ![c] = "open"]
    /\ parent' = [parent EXCEPT ![c] = actor[a].scope]
    /\ runner' = [runner EXCEPT ![c] = a]
    /\ actor' = [actor EXCEPT ![a] = [@ EXCEPT !.scope = c]]
    /\ UNCHANGED <<drain, res, order, leases, closer, uses, group, reported,
                   failed>>

\* Groups and callbacks that still run inside s.
Busy(s) ==
    \/ \E g \in Tasks : group[g].live /\ Inside(group[g].scope, s)
    \/ \E t \in Tasks : /\ Live(t) /\ actor[t].kind = "callback"
                        /\ Inside(actor[t].home, s)

\* Resources whose shutdown timer an iteration of drain arms.
Armable(s) ==
    {r \in Resources : /\ res[r].state \in {"open", "closing"}
                       /\ Inside(res[r].scope, s)
                       /\ res[r].options.shutdown
                       /\ ~res[r].timer /\ ~res[r].cleanup}

\* The resources registered in s, and the one of them registered last.
Registered(s) ==
    {r \in Resources : res[r].state # "unborn" /\ Inside(res[r].scope, s)}
Latest(todo, r) ==
    /\ r \in todo
    /\ \A i, j \in DOMAIN order : order[i] \in todo /\ order[j] = r => i <= j

\* One iteration of drain's loop: arm the timers, and leave the loop when
\* nothing runs inside s any more.  now is the record of resources, states
\* the states of the scopes it finds.
Iteration(s, now, states) ==
    /\ res' = [r \in Resources |->
                 IF r \in Armable(s) THEN [now[r] EXCEPT !.timer = TRUE]
                 ELSE now[r]]
    /\ IF Busy(s)
       THEN /\ drain' = [drain EXCEPT ![s] = [NotDraining EXCEPT !.phase = "waiting"]]
            /\ scope' = states
       ELSE /\ drain' = [drain EXCEPT ![s] =
                           [NotDraining EXCEPT !.phase = "sweeping",
                                               !.todo = Registered(s)]]
            /\ scope' = [states EXCEPT ![s] = "closing"]

\* Faulty variant of ExitReleases: no initial lease ends with the body.
ExitKeeps(c) == {}

\* Initial leases that end with the body of c.
ExitReleases(c) ==
    {r \in Resources : /\ res[r].initial /\ res[r].scope = c
                       /\ actor[res[r].creator].home # c}

\* settleScopeBody: the body has completed; the scope takes no new owners and
\* is drained.
ExitScope(a) ==
    LET c == actor[a].scope
        out == ExitReleases(c)
    IN
    /\ Running(a) /\ c \in Children /\ runner[c] = a
    /\ leases' = [r \in Resources |->
                    IF r \in out
                    THEN [leases[r] EXCEPT ![actor[res[r].creator].key] = @ - 1]
                    ELSE leases[r]]
    /\ Iteration(c, [r \in Resources |-> [res[r] EXCEPT !.initial = @ /\ r \notin out]],
                 [scope EXCEPT ![c] = "closing"])
    /\ actor' = [actor EXCEPT ![a] = [@ EXCEPT !.status = "draining"]]
    /\ UNCHANGED <<parent, runner, order, closer, uses, group, reported, failed>>

\* The body of the root has completed: its scope stays open while it waits.
FinishMain ==
    /\ Running(Main) /\ actor[Main].scope = Root
    /\ Iteration(Root, res, scope)
    /\ actor' = [actor EXCEPT ![Main] = [@ EXCEPT !.status = "draining"]]
    /\ UNCHANGED <<parent, runner, order, leases, closer, uses, group,
                   reported, failed>>

\* A signal of the root wakes a drain.
DrainWakes(s) ==
    /\ drain[s].phase = "waiting"
    /\ Armable(s) # {} \/ ~Busy(s)
    /\ Iteration(s, res, scope)
    /\ UNCHANGED <<parent, runner, order, leases, closer, actor, uses, group,
                   reported, failed>>

\* A registered shutdown deadline: it closes the resource to new owners, and
\* leaves the close itself to the drain.
Timer(r) ==
    /\ res[r].timer
    /\ res' = [res EXCEPT ![r] =
                 [res[r] EXCEPT !.timer = FALSE, !.cleanup = TRUE,
                                !.state = "closing",
                                !.auto = @ \/ res[r].state = "open"]]
    /\ failed' = TRUE
    /\ UNCHANGED <<scope, parent, runner, drain, order, leases, closer, actor,
                   uses, group, reported>>

\* Faulty variant of Leftover: a resource a timer closed is left alone.
LeftoverUnlessTimed(r) == res[r].state = "open"

\* Resources nobody has begun to close.
Leftover(r) == res[r].state = "open" \/ res[r].auto

\* The sweep goes through the resources, the last one registered first.  It
\* begins to close one that is still open, or awaits the close somebody else
\* began.
SweepStep(s) ==
    /\ drain[s].phase = "sweeping" /\ ~drain[s].awaits
    /\ \E r \in drain[s].todo :
         LET untold == ~res[r].options.managed /\ ~res[r].cleanup
         IN  /\ Latest(drain[s].todo, r)
             /\ IF Leftover(r)
                THEN /\ Closing(r, [res[r] EXCEPT !.cleanup = @ \/ untold])
                     /\ failed' = (failed \/ untold)
                ELSE UNCHANGED <<res, closer, failed>>
    /\ drain' = [drain EXCEPT ![s] = [@ EXCEPT !.awaits = TRUE]]
    /\ UNCHANGED <<scope, parent, runner, order, leases, actor, uses, group,
                   reported>>

\* first ??= resource.cleanup
SweepNext(s) ==
    /\ drain[s].phase = "sweeping" /\ drain[s].awaits
    /\ \E r \in drain[s].todo :
         /\ Latest(drain[s].todo, r)
         /\ closer[r] \in {"none", "ok", "failed"}
         /\ drain' = [drain EXCEPT ![s] =
                        [drain[s] EXCEPT !.todo = @ \ {r}, !.awaits = FALSE,
                                         !.found = @ \/ res[r].cleanup]]
    /\ UNCHANGED <<scope, parent, runner, res, order, leases, closer, actor,
                   uses, group, reported, failed>>

\* The scope is drained: it closes, and its runner goes on outside of it.
DrainEnds(s) ==
    LET a == runner[s] IN
    /\ drain[s].phase = "sweeping" /\ drain[s].todo = {}
    /\ scope' = [scope EXCEPT ![s] = "closed"]
    /\ drain' = [drain EXCEPT ![s] = [@ EXCEPT !.phase = "none"]]
    /\ actor' = [actor EXCEPT ![a] =
                   IF s = Root THEN [@ EXCEPT !.status = "done"]
                   ELSE [@ EXCEPT !.status = "running", !.scope = parent[s]]]
    /\ UNCHANGED <<parent, runner, res, order, leases, closer, uses, group,
                   reported, failed>>

-----------------------------------------------------------------------------
\* Groups are launched with at most MaxGroup participants.
Launches ==
    UNION {[T -> SUBSET Resources] :
             T \in {T \in SUBSET Tasks : T # {} /\ Cardinality(T) <= MaxGroup}}

Ends(t) == CallbackEnds(t) \/ \E o \in Outcomes : Settle(t, o)

Next ==
    \/ \E a \in Actors :
         \/ \E r \in Resources :
              \/ \E options \in Options : Register(a, r, options)
              \/ Use(a, r)
              \/ Close(a, r)
         \/ \E caps \in Launches, mode \in Modes : Launch(a, caps, mode)
         \/ \E c \in Children : EnterScope(a, c)
         \/ CloseReturns(a)
         \/ CloseDeadline(a)
         \/ ExitScope(a)
    \/ FinishMain
    \/ \E u \in uses : UseEnds(u)
    \/ \E r \in Resources :
         \/ CloserStarts(r)
         \/ \E ok \in BOOLEAN : CloserEnds(r, ok)
         \/ Timer(r)
    \/ \E g \in Tasks, chosen \in SUBSET Tasks : Publish(g, chosen)
    \/ \E t \in Tasks :
         \/ Ends(t)
         \/ \E s \in Scopes :
              \/ Dispatch(t, s)
              \/ \E a \in Tasks : Reenter(t, a, s)
    \/ \E s \in Scopes :
         DrainWakes(s) \/ SweepStep(s) \/ SweepNext(s) \/ DrainEnds(s)

Spec == Init /\ [][Next]_vars

\* The event loop runs what is ready, and every native operation ends in
\* time.  Every body returns: one that gets back again and again to where it
\* may return does not stay for ever.  A close deadline need not be set at
\* all, and nothing need be registered, launched or called.
Fairness ==
    /\ SF_vars(FinishMain)
    /\ \A a \in Actors : WF_vars(CloseReturns(a)) /\ SF_vars(ExitScope(a))
    /\ \A a \in Actors, r \in Resources, k \in Keys : WF_vars(UseEnds(<<a, r, k>>))
    /\ \A r \in Resources :
         WF_vars(CloserStarts(r)) /\ WF_vars(\E ok \in BOOLEAN : CloserEnds(r, ok))
    /\ \A t \in Tasks :
         /\ SF_vars(Ends(t))
         /\ WF_vars(\E chosen \in SUBSET Tasks : Publish(t, chosen))
    /\ \A s \in Scopes :
         /\ WF_vars(DrainWakes(s))
         /\ WF_vars(SweepStep(s)) /\ WF_vars(SweepNext(s)) /\ WF_vars(DrainEnds(s))

FairSpec == Spec /\ Fairness

-----------------------------------------------------------------------------
(* Properties.                                                             *)

\* beginClose and acquire: the native close of a resource runs only when
\* nobody leases it, and nobody leases it again.
NotClosedInUse ==
    \A r \in Resources :
        closer[r] \in {"running", "ok", "failed"} => Unleased(r)

\* acquire, settleLaunched, settleScopeBody: the leases of a resource are
\* those of the live tasks that captured it or created it and of the native
\* operations on it; none is lost or released twice.
LeasesExact ==
    \A r \in Resources, k \in Keys :
        leases[r][k] =
            Cardinality({t \in Tasks : /\ Live(t) /\ actor[t].key = k
                                       /\ r \in actor[t].captures})
          + Cardinality({u \in uses : u[2] = r /\ u[3] = k})
          + (IF res[r].initial /\ Key(res[r].creator) = k THEN 1 ELSE 0)

\* drain: when a scope closes, everything that ran inside has ended and every
\* resource registered inside has been closed, or its close has failed.
ScopesDieEmpty ==
    \A s \in Scopes : scope[s] = "closed" =>
        /\ ~Busy(s)
        /\ \A a \in Actors : Live(a) => ~Inside(actor[a].scope, s)
        /\ \A r \in Resources :
             res[r].state # "unborn" /\ Inside(res[r].scope, s) =>
                 closer[r] \in {"ok", "failed"} /\ Unleased(r)

\* drain: a closed scope has told of every cleanup failure inside it, and the
\* root of every one.
CleanupTold ==
    /\ \A s \in Scopes : scope[s] = "closed" =>
         (drain[s].found <=> \E r \in Resources : /\ Inside(res[r].scope, s)
                                                  /\ res[r].cleanup)
    /\ failed <=> \E r \in Resources : res[r].cleanup

\* finishLaunched: when the last participant of a sealed group has settled,
\* the standard failures nobody selected, and no others, have been reported.
LateFailuresReported ==
    \A g \in Tasks : group[g].sealed =>
        \A t \in group[g].members :
            t \in reported <=> /\ actor[t].status = "done"
                              /\ actor[t].outcome = "standard"
                              /\ t \notin group[g].selected

\* beginClose: a resource is closed once, whoever asks for it and however
\* often; a deadline or a timer never makes it closed without its close.
ClosedOnce ==
    [][\A r \in Resources :
         /\ <<closer[r], closer'[r]>> \in
              {<<c, c>> : c \in Closers} \cup
              {<<"none", "waiting">>, <<"waiting", "running">>,
               <<"running", "ok">>, <<"running", "failed">>}
         /\ (res'[r].state = "closed") <=> (closer'[r] = "ok")]_vars

\* Actors that wait for one another for ever: each of them closes, without a
\* deadline, a resource that one of them leases, awaits a selection they
\* hold up, or drains a scope one of them works in.
Detains(b, a, r) ==
    \/ r \in actor[b].captures
    \/ b # a /\ res[r].initial /\ res[r].creator = b
Tangled ==
    \E B \in SUBSET Actors : B # {} /\ \A a \in B :
        \/ /\ actor[a].status = "closing"
           /\ \E b \in B : \E r \in actor[a].awaits : Detains(b, a, r)
        \/ /\ actor[a].status = "selecting"
           /\ \E g \in Tasks :
                /\ group[g].live /\ ~group[g].sealed
                /\ group[g].launcher = a /\ group[g].mode # "native"
                /\ LET live == {t \in group[g].members : Live(t)}
                   IN  live # {} /\ live \subseteq B
        \/ /\ actor[a].status = "draining"
           /\ drain[actor[a].scope].phase = "waiting"
           /\ \E b \in B \cap Tasks : Live(b) /\ Inside(actor[b].home, actor[a].scope)

\* drain: the root ends, unless actors wait for one another for ever.
RootEnds == <>[](scope[Root] = "closed" \/ Tangled)
=============================================================================
