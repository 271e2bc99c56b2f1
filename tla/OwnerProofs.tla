----------------------------- MODULE OwnerProofs -----------------------------
(***************************************************************************)
(* Proofs about Owner, for any finite number of tasks and any scopes,      *)
(* resources and options.                                                  *)
(*                                                                         *)
(* Two invariants carry them.  IInv is about leases, closes and groups and *)
(* does not look at the tree of scopes: an initial lease belongs to a live *)
(* task, an actor that is awaited is where its waker expects it, groups    *)
(* share no member, and the leases of a resource are counted exactly, so   *)
(* they are never negative and one that has run out stays out.             *)
(*                                                                         *)
(* SInv is about the tree, and takes IInv for granted: a live actor has    *)
(* come to its scope through scopes it runs itself, so once nothing is     *)
(* busy inside a scope the only actor left in it is the one that waits for *)
(* its drain, and no scope inside it can be open; what the sweep has gone  *)
(* past is closed, and stays as it is.                                     *)
(***************************************************************************)
EXTENDS Owner, FiniteSetTheorems, TLAPS

Statuses == {"unborn", "running", "closing", "selecting", "draining", "done"}

ActorRecord ==
    [status: Statuses, kind: {"main", "participant", "callback"},
     scope: Scopes, home: Scopes, key: Keys, captures: SUBSET Resources,
     group: Actors, awaits: SUBSET Resources, outcome: Outcomes]
ResourceRecord ==
    [state: {"unborn", "open", "closing", "closed"}, scope: Scopes,
     options: [managed: BOOLEAN, idempotent: BOOLEAN, shutdown: BOOLEAN],
     creator: Actors, initial: BOOLEAN, auto: BOOLEAN, timer: BOOLEAN,
     cleanup: BOOLEAN]
GroupRecord ==
    [live: BOOLEAN, mode: {"all", "settled", "any", "race", "native"},
     launcher: Actors, scope: Scopes, members: SUBSET Tasks,
     settled: Seq(Tasks), sealed: BOOLEAN, selected: SUBSET Tasks]
DrainRecord ==
    [phase: {"none", "waiting", "sweeping"}, todo: SUBSET Resources,
     awaits: BOOLEAN, found: BOOLEAN]

TypeOK ==
    /\ scope \in [Scopes -> {"unborn", "open", "closing", "closed"}]
    /\ parent \in [Scopes -> Scopes]
    /\ runner \in [Scopes -> Actors]
    /\ drain \in [Scopes -> DrainRecord]
    /\ res \in [Resources -> ResourceRecord]
    /\ order \in Seq(Resources)
    /\ leases \in [Resources -> [Keys -> Int]]
    /\ closer \in [Resources -> Closers]
    /\ actor \in [Actors -> ActorRecord]
    /\ uses \subseteq Actors \X Resources \X Keys
    /\ IsFiniteSet(uses)
    /\ group \in [Tasks -> GroupRecord]
    /\ reported \subseteq Tasks
    /\ failed \in BOOLEAN

LEMMA RecordsTyped ==
    /\ Inactive \in ActorRecord /\ Unregistered \in ResourceRecord
    /\ NoGroup \in GroupRecord /\ NotDraining \in DrainRecord
<1>1. Root \in Scopes /\ Root \in Keys /\ Main \in Actors
  BY DEF Scopes, Keys, Actors
<1>2. Inactive \in ActorRecord
  BY <1>1 DEF Inactive, ActorRecord, Statuses, Outcomes
<1>3. Unregistered \in ResourceRecord
  BY <1>1 DEF Unregistered, ResourceRecord
<1>4. NoGroup \in GroupRecord
  BY <1>1 DEF NoGroup, GroupRecord
<1>5. NotDraining \in DrainRecord
  BY DEF NotDraining, DrainRecord
<1> QED
  BY <1>2, <1>3, <1>4, <1>5

\* Fields that replace fields.
LEMMA ActorFields ==
    ASSUME NEW x \in ActorRecord
    PROVE  /\ \A st \in Statuses : [x EXCEPT !.status = st] \in ActorRecord
           /\ \A st \in Statuses, w \in SUBSET Resources :
                [x EXCEPT !.status = st, !.awaits = w] \in ActorRecord
           /\ \A s \in Scopes : [x EXCEPT !.scope = s] \in ActorRecord
           /\ \A st \in Statuses, s \in Scopes :
                [x EXCEPT !.status = st, !.scope = s] \in ActorRecord
BY DEF ActorRecord

LEMMA KeyTyped ==
    ASSUME TypeOK, NEW a \in Actors
    PROVE  Key(a) \in Keys /\ actor[a].key \in Keys /\ actor[a].scope \in Scopes
<1>1. actor[a] \in ActorRecord
  BY DEF TypeOK
<1> QED
  BY <1>1 DEF ActorRecord, Key, Keys

\* Leases, entry by entry.
LEMMA LeaseAt ==
    ASSUME TypeOK, NEW r \in Resources, NEW k \in Keys, NEW n \in Int
    PROVE  /\ Lease(r, k, n) \in [Resources -> [Keys -> Int]]
           /\ \A q \in Resources, j \in Keys :
                Lease(r, k, n)[q][j] =
                    IF q = r /\ j = k THEN leases[q][j] + n ELSE leases[q][j]
BY DEF TypeOK, Lease

LEMMA UnleaseAt ==
    ASSUME TypeOK, NEW r \in Resources, NEW k \in Keys
    PROVE  /\ Unlease(r, k) \in [Resources -> [Keys -> Int]]
           /\ \A q \in Resources, j \in Keys :
                Unlease(r, k)[q][j] =
                    IF q = r /\ j = k THEN leases[q][j] - 1 ELSE leases[q][j]
BY DEF TypeOK, Unlease

LEMMA InitTyped == Init => TypeOK
<1> SUFFICES ASSUME Init PROVE TypeOK
  OBVIOUS
<1>1. /\ Root \in Scopes /\ Main \in Actors
      /\ Inactive \in ActorRecord /\ Unregistered \in ResourceRecord
      /\ NoGroup \in GroupRecord /\ NotDraining \in DrainRecord
  BY RecordsTyped DEF Scopes, Actors
<1>2. [Inactive EXCEPT !.status = "running", !.kind = "main"] \in ActorRecord
  BY <1>1 DEF ActorRecord, Statuses
<1>3. actor \in [Actors -> ActorRecord]
  BY <1>1, <1>2 DEF Init
<1>4. IsFiniteSet(uses)
  BY FS_EmptySet DEF Init
<1>5. leases \in [Resources -> [Keys -> Int]] /\ order \in Seq(Resources)
  BY DEF Init
<1>6. /\ scope \in [Scopes -> {"unborn", "open", "closing", "closed"}]
      /\ parent \in [Scopes -> Scopes] /\ runner \in [Scopes -> Actors]
      /\ drain \in [Scopes -> DrainRecord]
      /\ res \in [Resources -> ResourceRecord]
      /\ closer \in [Resources -> Closers]
      /\ group \in [Tasks -> GroupRecord]
      /\ uses \subseteq Actors \X Resources \X Keys
      /\ reported \subseteq Tasks /\ failed \in BOOLEAN
  BY <1>1 DEF Init, Closers
<1> QED
  BY <1>3, <1>4, <1>5, <1>6 DEF TypeOK

-----------------------------------------------------------------------------
(* The inductive invariant.                                                *)

\* A resource and its close: an initial lease belongs to a live task, what
\* is being closed takes no new owners, and only a close closes.
ResourceInv(r) ==
    /\ res[r].state = "unborn" => /\ closer[r] = "none" /\ ~ res[r].initial
                                  /\ ~ res[r].cleanup /\ ~ res[r].auto
    /\ res[r].initial => res[r].creator \in Tasks /\ Live(res[r].creator)
    /\ closer[r] # "none" => res[r].state \in {"closing", "closed"} /\ ~ res[r].auto
    /\ closer[r] = "none" /\ res[r].state = "closing" => res[r].auto
    /\ res[r].state = "closed" <=> closer[r] = "ok"
    /\ res[r].timer => /\ res[r].state \in {"open", "closing"}
                       /\ closer[r] # "failed"
    /\ closer[r] = "failed" => res[r].cleanup
    /\ res[r].state # "unborn" => \E i \in DOMAIN order : order[i] = r

\* A group whose launcher still awaits the selection.
Awaited(g) == group[g].live /\ ~ group[g].sealed /\ group[g].mode # "native"

\* Actors that wait are where those who wake them expect them.
ControlInv ==
    /\ \A g \in Tasks : Awaited(g) => actor[group[g].launcher].status = "selecting"
    /\ \A g, h \in Tasks :
          Awaited(g) /\ Awaited(h) /\ group[g].launcher = group[h].launcher => g = h
    /\ \A s \in Scopes : drain[s].phase # "none" =>
          /\ actor[runner[s]].status = "draining"
          /\ actor[runner[s]].scope = s
          /\ scope[s] # "unborn"
    /\ runner[Root] = Main /\ scope[Root] # "unborn"

\* An actor awaits closes that have begun.
AwaitsInv == \A a \in Actors : \A r \in actor[a].awaits : closer[r] # "none"

\* Groups have no member in common, and a member is reported late only
\* after it has settled in a sealed group.
GroupInv ==
    /\ \A g \in Tasks : group[g].members # {} => g \in group[g].members
    /\ \A g \in Tasks : \A t \in group[g].members : actor[t].status # "unborn"
    /\ \A g, h \in Tasks : \A t \in group[g].members :
          t \in group[h].members => g = h
    /\ \A t \in Tasks : Live(t) /\ actor[t].kind = "participant" =>
          actor[t].group \in Tasks /\ t \in group[actor[t].group].members
    /\ \A t \in reported : actor[t].status = "done"
    /\ \A g \in Tasks : ~ group[g].sealed => group[g].members \cap reported = {}

\* What the leases of owner k on r stand for.
Holders(r, k) ==
    {t \in Tasks : /\ Live(t) /\ actor[t].key = k
                   /\ r \in actor[t].captures}
Operations(r, k) == {u \in uses : u[2] = r /\ u[3] = k}
Owned(r, k) == IF res[r].initial /\ Key(res[r].creator) = k THEN 1 ELSE 0
Count(r, k) ==
    Cardinality(Holders(r, k)) + Cardinality(Operations(r, k)) + Owned(r, k)

IInv ==
    /\ TypeOK
    /\ \A r \in Resources : ResourceInv(r)
    /\ ControlInv
    /\ AwaitsInv
    /\ GroupInv
    /\ LeasesExact
    /\ NotClosedInUse
    /\ LateFailuresReported

LEMMA ExactIsCount == LeasesExact <=> \A r \in Resources, k \in Keys :
                                         leases[r][k] = Count(r, k)
BY DEF LeasesExact, Count, Holders, Operations, Owned

LEMMA CountTyped ==
    ASSUME TypeOK, NEW r, NEW k
    PROVE  /\ IsFiniteSet(Holders(r, k)) /\ Cardinality(Holders(r, k)) \in Nat
           /\ IsFiniteSet(Operations(r, k)) /\ Cardinality(Operations(r, k)) \in Nat
           /\ Owned(r, k) \in {0, 1} /\ Count(r, k) \in Nat
<1>1. Holders(r, k) \in SUBSET Tasks /\ Operations(r, k) \in SUBSET uses
  BY DEF Holders, Operations
<1>2. IsFiniteSet(Tasks) /\ IsFiniteSet(uses)
  BY TasksAssumption DEF TypeOK
<1>3. IsFiniteSet(Holders(r, k)) /\ IsFiniteSet(Operations(r, k))
  BY <1>1, <1>2, FS_Subset
<1>4. Cardinality(Holders(r, k)) \in Nat /\ Cardinality(Operations(r, k)) \in Nat
  BY <1>3, FS_CardinalityType
<1>5. Owned(r, k) \in {0, 1}
  BY DEF Owned
<1> QED
  BY <1>3, <1>4, <1>5 DEF Count

LEMMA CountTypedNext ==
    ASSUME TypeOK', NEW r, NEW k
    PROVE  /\ IsFiniteSet(Holders(r, k)') /\ Cardinality(Holders(r, k)') \in Nat
           /\ IsFiniteSet(Operations(r, k)') /\ Cardinality(Operations(r, k)') \in Nat
           /\ Owned(r, k)' \in {0, 1} /\ Count(r, k)' \in Nat
<1>1. Holders(r, k)' \in SUBSET Tasks /\ Operations(r, k)' \in SUBSET uses'
  BY DEF Holders, Operations
<1>2. IsFiniteSet(Tasks) /\ IsFiniteSet(uses')
  BY TasksAssumption DEF TypeOK
<1>3. IsFiniteSet(Holders(r, k)') /\ IsFiniteSet(Operations(r, k)')
  BY <1>1, <1>2, FS_Subset
<1>4. Cardinality(Holders(r, k)') \in Nat /\ Cardinality(Operations(r, k)') \in Nat
  BY <1>3, FS_CardinalityType
<1>5. Owned(r, k)' \in {0, 1}
  BY DEF Owned
<1> QED
  BY <1>3, <1>4, <1>5 DEF Count

\* The native close of r is under way or over.
Ended(r) == closer[r] \in {"running", "ok", "failed"}

\* acquire lets nobody in once the native close runs.
LEMMA AdmitsOnlyBefore ==
    ASSUME TypeOK, NEW r \in Resources, ResourceInv(r), NotClosedInUse,
           NEW s, NEW k \in Keys, Admits(r, s, k)
    PROVE  ~ Ended(r)
<1> SUFFICES ASSUME Ended(r) PROVE FALSE
  OBVIOUS
<1>1. leases[r][k] = 0
  BY DEF Ended, NotClosedInUse, Unleased
<1>2. res[r].state = "closing"
  BY DEF Ended, ResourceInv, Admits
<1> QED
  BY <1>1, <1>2 DEF Admits

\* Exact leases are never negative: a resource whose leases do not grow
\* while its close runs stays unleased.
LEMMA NotClosedKeeps ==
    ASSUME TypeOK', LeasesExact',
           \A r \in Resources : Ended(r)' => \A k \in Keys : leases'[r][k] <= 0
    PROVE  NotClosedInUse'
<1> SUFFICES ASSUME NEW r \in Resources, Ended(r)', NEW k \in Keys
             PROVE  leases'[r][k] = 0
  BY DEF NotClosedInUse, Ended, Unleased
<1>1. leases'[r][k] = Count(r, k)'
  BY DEF LeasesExact, Count, Holders, Operations, Owned
<1>2. Count(r, k)' \in Nat
  BY CountTypedNext
<1>3. leases'[r][k] <= 0
  OBVIOUS
<1> QED
  BY <1>1, <1>2, <1>3

-----------------------------------------------------------------------------
(* What a step leaves alone.                                               *)

\* t is as it was, but for where it is and what it waits for.
Steady(t) ==
    /\ \/ actor'[t].status = actor[t].status
       \/ Live(t) /\ actor'[t].status \notin {"unborn", "done"}
    /\ actor'[t].key = actor[t].key
    /\ actor'[t].captures = actor[t].captures
    /\ actor'[t].kind = actor[t].kind
    /\ actor'[t].group = actor[t].group
    /\ actor'[t].outcome = actor[t].outcome

\* One live actor moves on.
LEMMA OneMoves ==
    ASSUME TypeOK, NEW a \in Actors, Live(a), NEW x,
           x.status \notin {"unborn", "done"} \/ a = Main,
           x.key = actor[a].key, x.captures = actor[a].captures,
           x.kind = actor[a].kind, x.group = actor[a].group,
           x.outcome = actor[a].outcome,
           actor' = [actor EXCEPT ![a] = x]
    PROVE  \A t \in Tasks : Steady(t)
<1> SUFFICES ASSUME NEW t \in Tasks PROVE Steady(t)
  OBVIOUS
<1>1. CASE t = a
  BY <1>1, MainAssumption DEF Steady, TypeOK
<1>2. CASE t # a
  BY <1>2 DEF Steady, TypeOK, Actors
<1> QED
  BY <1>1, <1>2

LEMMA NobodyMoves ==
    ASSUME actor' = actor
    PROVE  \A t \in Tasks : Steady(t)
BY DEF Steady

LEMMA SteadyLives ==
    ASSUME \A t \in Tasks : Steady(t), NEW t \in Tasks
    PROVE  /\ Live(t)' <=> Live(t)
           /\ (actor'[t].status = "unborn") <=> (actor[t].status = "unborn")
           /\ (actor'[t].status = "done") <=> (actor[t].status = "done")
           /\ Key(t)' = Key(t)
BY DEF Steady, Live, Key, IsTask

\* Registered resources stay on the list.
OrderKept == \A r \in Resources : (\E i \in DOMAIN order : order[i] = r)
                                    => (\E i \in DOMAIN order' : order'[i] = r)

\* A resource whose life and close go on as they were.
LEMMA ResourceKeeps ==
    ASSUME NEW r \in Resources, ResourceInv(r), \A t \in Tasks : Steady(t),
           OrderKept,
           res'[r].state = res[r].state, res'[r].initial = res[r].initial,
           res'[r].creator = res[r].creator, res'[r].auto = res[r].auto,
           closer'[r] = closer[r], res[r].cleanup => res'[r].cleanup,
           res'[r].cleanup => res[r].cleanup \/ res[r].state # "unborn",
           res'[r].timer => \/ res[r].timer
                            \/ /\ res[r].state \in {"open", "closing"}
                               /\ ~ res[r].cleanup
    PROVE  ResourceInv(r)'
<1>1. ASSUME res'[r].initial
      PROVE  /\ res'[r].creator \in Tasks
             /\ actor'[res'[r].creator].status \notin {"unborn", "done"}
  <2>1. res[r].creator \in Tasks /\ Live(res[r].creator)
    BY <1>1 DEF ResourceInv
  <2>2. \A t \in Tasks : Live(t) => actor'[t].status \notin {"unborn", "done"}
    BY SteadyLives DEF Live
  <2> QED
    BY <2>1, <2>2
<1>2. res'[r].state # "unborn" => \E i \in DOMAIN order' : order'[i] = r
  BY DEF ResourceInv, OrderKept
<1> QED
  BY <1>1, <1>2 DEF ResourceInv, Live

LEMMA GroupsKeep ==
    ASSUME TypeOK, GroupInv, LateFailuresReported,
           \A t \in Tasks : Steady(t), group' = group, reported' = reported
    PROVE  GroupInv' /\ LateFailuresReported'
<1>1. \A g \in Tasks : group[g].members \subseteq Tasks
  BY DEF TypeOK, GroupRecord
<1>2. reported \subseteq Tasks
  BY DEF TypeOK
<1>3. \A t \in Tasks : /\ Live(t)' <=> Live(t)
                       /\ (actor'[t].status = "unborn") <=> (actor[t].status = "unborn")
                       /\ (actor'[t].status = "done") <=> (actor[t].status = "done")
  BY SteadyLives
<1>4. \A t \in Tasks : /\ actor'[t].kind = actor[t].kind
                       /\ actor'[t].group = actor[t].group
                       /\ actor'[t].outcome = actor[t].outcome
  BY DEF Steady
<1>5. GroupInv'
  BY <1>1, <1>2, <1>3, <1>4 DEF GroupInv
<1>6. LateFailuresReported'
  BY <1>1, <1>3, <1>4 DEF LateFailuresReported
<1> QED
  BY <1>5, <1>6

LEMMA HoldersKeep ==
    ASSUME \A t \in Tasks : Steady(t), NEW r, NEW k
    PROVE  Holders(r, k)' = Holders(r, k)
<1>1. \A t \in Tasks : Live(t)' <=> Live(t)
  BY SteadyLives
<1> QED
  BY <1>1 DEF Holders, Steady

LEMMA OwnedKeeps ==
    ASSUME NEW r, ResourceInv(r), \A t \in Tasks : Steady(t),
           res'[r].initial = res[r].initial, res'[r].creator = res[r].creator,
           NEW k
    PROVE  Owned(r, k)' = Owned(r, k)
<1>1. CASE res[r].initial
  <2>1. res[r].creator \in Tasks
    BY <1>1 DEF ResourceInv
  <2>2. Key(res[r].creator)' = Key(res[r].creator)
    BY <2>1, SteadyLives
  <2> QED
    BY <1>1, <2>2 DEF Owned
<1>2. CASE ~ res[r].initial
  BY <1>2 DEF Owned
<1> QED
  BY <1>1, <1>2

\* Awaited launchers go on waiting, and who runs a drain waits for its end.
LEMMA ControlMoves ==
    ASSUME TypeOK, ControlInv, runner'[Root] = runner[Root],
           \A a \in Actors : actor[a].status = "selecting" =>
               actor'[a].status = "selecting",
           \A g \in Tasks : Awaited(g)' =>
               Awaited(g) /\ group'[g].launcher = group[g].launcher,
           \A s \in Scopes : drain'[s].phase # "none" =>
               \/ /\ drain[s].phase # "none" /\ runner'[s] = runner[s]
                  /\ actor'[runner[s]] = actor[runner[s]]
               \/ /\ actor'[runner'[s]].status = "draining"
                  /\ actor'[runner'[s]].scope = s
                  /\ scope'[s] # "unborn",
           \A s \in Scopes : scope[s] # "unborn" => scope'[s] # "unborn"
    PROVE  ControlInv'
<1>1. \A g \in Tasks : group[g].launcher \in Actors
  BY DEF TypeOK, GroupRecord
<1>2. \A g \in Tasks : Awaited(g)' => actor'[group'[g].launcher].status = "selecting"
  BY <1>1 DEF ControlInv
<1>3. \A g, h \in Tasks :
          (Awaited(g)' /\ Awaited(h)' /\ group'[g].launcher = group'[h].launcher)
              => g = h
  BY DEF ControlInv
<1>4. \A s \in Scopes : drain'[s].phase # "none" =>
          /\ actor'[runner'[s]].status = "draining"
          /\ actor'[runner'[s]].scope = s
          /\ scope'[s] # "unborn"
  BY DEF ControlInv
<1>5. runner'[Root] = Main /\ scope'[Root] # "unborn"
  BY DEF ControlInv, Scopes
<1> QED
  BY <1>2, <1>3, <1>4, <1>5 DEF ControlInv

\* Steps of actors that are neither awaited nor awaiting.
LEMMA ControlKeeps ==
    ASSUME TypeOK, ControlInv, runner' = runner,
           \A a \in Actors : actor[a].status \in {"selecting", "draining"} =>
               actor'[a] = actor[a],
           \A g \in Tasks : Awaited(g)' =>
               Awaited(g) /\ group'[g].launcher = group[g].launcher,
           \A s \in Scopes : drain'[s].phase # "none" => drain[s].phase # "none",
           \A s \in Scopes : scope[s] # "unborn" => scope'[s] # "unborn"
    PROVE  ControlInv'
<1>1. \A s \in Scopes : drain[s].phase # "none" =>
          actor'[runner[s]] = actor[runner[s]]
  BY DEF TypeOK, ControlInv
<1> QED
  BY <1>1, ControlMoves

\* Leases that stand for the same as before.
LEMMA LeasesKeep ==
    ASSUME TypeOK, LeasesExact, NotClosedInUse, TypeOK',
           \A r \in Resources : ResourceInv(r),
           \A t \in Tasks : Steady(t), leases' = leases, uses' = uses,
           \A r \in Resources : /\ res'[r].initial = res[r].initial
                                /\ res'[r].creator = res[r].creator
    PROVE  LeasesExact'
<1> SUFFICES ASSUME NEW r \in Resources, NEW k \in Keys
             PROVE  leases'[r][k] = Count(r, k)'
  BY DEF LeasesExact, Count, Holders, Operations, Owned
<1>1. leases[r][k] = Count(r, k)
  BY ExactIsCount
<1>2. Holders(r, k)' = Holders(r, k) /\ Owned(r, k)' = Owned(r, k)
  BY HoldersKeep, OwnedKeeps
<1>3. Operations(r, k)' = Operations(r, k)
  BY DEF Operations
<1> QED
  BY <1>1, <1>2, <1>3 DEF Count

\* Closes that have begun stay begun.
LEMMA AwaitsKeep ==
    ASSUME TypeOK, AwaitsInv,
           \A a \in Actors : actor'[a].awaits \subseteq actor[a].awaits,
           \A r \in Resources : closer[r] # "none" => closer'[r] # "none"
    PROVE  AwaitsInv'
<1>1. \A a \in Actors : actor[a].awaits \subseteq Resources
  BY DEF TypeOK, ActorRecord
<1> QED
  BY <1>1 DEF AwaitsInv

\* A step that leaves tasks, groups and leases alone.
LEMMA QuietStep ==
    ASSUME IInv, TypeOK', \A t \in Tasks : Steady(t),
           leases' = leases, uses' = uses, group' = group, reported' = reported,
           \A r \in Resources : /\ res'[r].initial = res[r].initial
                                /\ res'[r].creator = res[r].creator,
           \A r \in Resources : ResourceInv(r)', ControlInv', AwaitsInv',
           \A r \in Resources : Ended(r)' => Ended(r) \/ Unleased(r)
    PROVE  IInv'
<1>1. LeasesExact'
  BY LeasesKeep DEF IInv
<1>2. NotClosedInUse'
  <2>1. \A r \in Resources : Ended(r)' => Unleased(r)
    BY DEF IInv, NotClosedInUse, Ended
  <2>2. \A r \in Resources : Ended(r)' => \A k \in Keys : leases'[r][k] <= 0
    BY <2>1 DEF Unleased
  <2> QED
    BY <1>1, <2>2, NotClosedKeeps
<1>3. GroupInv' /\ LateFailuresReported'
  BY GroupsKeep DEF IInv
<1> QED
  BY <1>1, <1>2, <1>3 DEF IInv

-----------------------------------------------------------------------------
(* Closing.                                                                *)

LEMMA CloseReturnsKeeps ==
    ASSUME IInv, NEW a \in Actors, CloseReturns(a) \/ CloseDeadline(a)
    PROVE  IInv'
<1> DEFINE x == [actor[a] EXCEPT !.status = "running", !.awaits = {}]
<1>1. TypeOK
  BY DEF IInv
<1>2. /\ actor' = [actor EXCEPT ![a] = x] /\ actor[a].status = "closing"
      /\ UNCHANGED <<scope, parent, runner, drain, order, leases, closer, uses,
                     group, reported>>
  BY DEF CloseReturns, CloseDeadline
<1>3. /\ x \in ActorRecord /\ x.status = "running" /\ x.awaits = {}
      /\ x.key = actor[a].key /\ x.captures = actor[a].captures
      /\ x.kind = actor[a].kind /\ x.group = actor[a].group
      /\ x.outcome = actor[a].outcome
  <2>1. actor[a] \in ActorRecord
    BY <1>1 DEF TypeOK
  <2> QED
    BY <2>1 DEF ActorRecord, Statuses
<1> HIDE DEF x
<1>4. \A t \in Tasks : Steady(t)
  BY <1>1, <1>2, <1>3, OneMoves DEF Live
<1>5. /\ failed' \in BOOLEAN
      /\ \A r \in Resources :
           \/ res'[r] = res[r]
           \/ /\ res'[r] = [res[r] EXCEPT !.cleanup = TRUE]
              /\ r \in actor[a].awaits
      /\ res' \in [Resources -> ResourceRecord]
  <2>1. CASE CloseReturns(a)
    BY <1>1, <2>1 DEF CloseReturns, TypeOK
  <2>2. CASE CloseDeadline(a)
    <3>1. PICK r \in actor[a].awaits :
            res' = [res EXCEPT ![r] = [@ EXCEPT !.cleanup = TRUE]]
      BY <2>2 DEF CloseDeadline
    <3>2. failed' = TRUE
      BY <2>2 DEF CloseDeadline
    <3>3. \A q \in Resources : res[q] \in ResourceRecord
      BY <1>1 DEF TypeOK
    <3>4. \A q \in Resources : [res[q] EXCEPT !.cleanup = TRUE] \in ResourceRecord
      BY <3>3 DEF ResourceRecord
    <3>5. res' \in [Resources -> ResourceRecord]
      BY <1>1, <3>1, <3>4 DEF TypeOK
    <3> QED
      BY <1>1, <3>1, <3>2, <3>5 DEF TypeOK
  <2> QED
    BY <2>1, <2>2
<1>6. TypeOK'
  <2>1. actor' \in [Actors -> ActorRecord]
    BY <1>1, <1>2, <1>3 DEF TypeOK
  <2> QED
    BY <1>1, <1>2, <1>5, <2>1 DEF TypeOK
<1>7. \A r \in Resources :
        /\ res'[r].state = res[r].state /\ res'[r].initial = res[r].initial
        /\ res'[r].creator = res[r].creator /\ res'[r].auto = res[r].auto
        /\ res'[r].timer = res[r].timer
        /\ res[r].cleanup => res'[r].cleanup
        /\ res'[r].cleanup => res[r].cleanup \/ res[r].state # "unborn"
  <2> SUFFICES ASSUME NEW r \in Resources, r \in actor[a].awaits,
                      res'[r] = [res[r] EXCEPT !.cleanup = TRUE]
               PROVE  /\ res'[r].state = res[r].state /\ res'[r].initial = res[r].initial
                      /\ res'[r].creator = res[r].creator /\ res'[r].auto = res[r].auto
                      /\ res'[r].timer = res[r].timer
                      /\ res[r].cleanup => res'[r].cleanup
                      /\ res'[r].cleanup => res[r].cleanup \/ res[r].state # "unborn"
    BY <1>5
  <2>1. res[r] \in ResourceRecord
    BY <1>1 DEF TypeOK
  <2>2. res[r].state # "unborn"
    BY DEF IInv, AwaitsInv, ResourceInv
  <2> QED
    BY <2>1, <2>2 DEF ResourceRecord
<1>8. \A r \in Resources : ResourceInv(r)'
  BY <1>2, <1>4, <1>7, ResourceKeeps DEF IInv, OrderKept
<1>9. ControlInv'
  <2>1. \A b \in Actors : actor[b].status \in {"selecting", "draining"} =>
          actor'[b] = actor[b]
    BY <1>1, <1>2 DEF TypeOK
  <2>2. \A g \in Tasks : Awaited(g)' => Awaited(g)
    BY <1>2 DEF Awaited
  <2> QED
    BY <1>1, <1>2, <2>1, <2>2, ControlKeeps DEF IInv
<1>10. AwaitsInv'
  <2>1. \A b \in Actors : actor'[b].awaits \subseteq actor[b].awaits
    BY <1>1, <1>2, <1>3 DEF TypeOK
  <2> QED
    BY <1>1, <1>2, <2>1, AwaitsKeep DEF IInv
<1>11. \A r \in Resources : Ended(r)' => Ended(r)
  BY <1>2 DEF Ended
<1> QED
  BY <1>2, <1>4, <1>6, <1>7, <1>8, <1>9, <1>10, <1>11, QuietStep

\* One resource changes.
LEMMA OneResource ==
    ASSUME IInv, NEW r \in Resources, \A t \in Tasks : Steady(t), OrderKept,
           \A q \in Resources \ {r} : res'[q] = res[q] /\ closer'[q] = closer[q],
           ResourceInv(r)'
    PROVE  \A q \in Resources : ResourceInv(q)'
<1> SUFFICES ASSUME NEW q \in Resources, q # r PROVE ResourceInv(q)'
  OBVIOUS
<1> QED
  BY ResourceKeeps DEF IInv

LEMMA CloserStartsKeeps ==
    ASSUME IInv, NEW r \in Resources, CloserStarts(r)
    PROVE  IInv'
<1>1. TypeOK /\ closer[r] = "waiting" /\ Unleased(r)
  BY DEF IInv, CloserStarts
<1>2. /\ closer' = [closer EXCEPT ![r] = "running"]
      /\ UNCHANGED <<scope, parent, runner, drain, res, order, leases, actor,
                     uses, group, reported, failed>>
  BY DEF CloserStarts
<1>3. closer'[r] = "running" /\ \A q \in Resources \ {r} : closer'[q] = closer[q]
  BY <1>1, <1>2 DEF TypeOK
<1>4. TypeOK'
  BY <1>1, <1>2 DEF TypeOK, Closers
<1>5. \A t \in Tasks : Steady(t)
  BY <1>2, NobodyMoves
<1>6. ResourceInv(r)'
  BY <1>1, <1>2, <1>3 DEF IInv, ResourceInv, Live
<1>7. \A q \in Resources : ResourceInv(q)'
  BY <1>2, <1>3, <1>5, <1>6, OneResource DEF OrderKept
<1>8. ControlInv' /\ AwaitsInv'
  <2>1. ControlInv'
    BY <1>2 DEF IInv, ControlInv, Awaited
  <2>2. \A q \in Resources : closer[q] # "none" => closer'[q] # "none"
    BY <1>3
  <2> QED
    BY <1>1, <1>2, <2>1, <2>2, AwaitsKeep DEF IInv
<1>9. \A q \in Resources : Ended(q)' => Ended(q) \/ Unleased(q)
  BY <1>1, <1>3 DEF Ended
<1> QED
  BY <1>2, <1>4, <1>5, <1>7, <1>8, <1>9, QuietStep

LEMMA CloserEndsKeeps ==
    ASSUME IInv, NEW r \in Resources, NEW ok \in BOOLEAN, CloserEnds(r, ok)
    PROVE  IInv'
<1> DEFINE x == IF ok THEN [res[r] EXCEPT !.state = "closed", !.timer = FALSE]
                      ELSE [res[r] EXCEPT !.cleanup = TRUE, !.timer = FALSE]
           c == IF ok THEN "ok" ELSE "failed"
<1>1. TypeOK /\ closer[r] = "running" /\ res[r] \in ResourceRecord
  BY DEF IInv, CloserEnds, TypeOK
<1>2. /\ closer' = [closer EXCEPT ![r] = c] /\ res' = [res EXCEPT ![r] = x]
      /\ failed' = (failed \/ ~ok)
      /\ UNCHANGED <<scope, parent, runner, drain, order, leases, actor, uses,
                     group, reported>>
  BY <1>1 DEF CloserEnds, TypeOK
<1>3. /\ x \in ResourceRecord /\ ~ x.timer
      /\ x.state = (IF ok THEN "closed" ELSE res[r].state)
      /\ x.initial = res[r].initial /\ x.creator = res[r].creator
      /\ x.auto = res[r].auto
      /\ x.cleanup = (IF ok THEN res[r].cleanup ELSE TRUE)
  BY <1>1 DEF ResourceRecord
<1> HIDE DEF x
<1>4. /\ closer'[r] = c /\ res'[r] = x
      /\ \A q \in Resources \ {r} : closer'[q] = closer[q] /\ res'[q] = res[q]
  BY <1>1, <1>2 DEF TypeOK
<1>5. TypeOK'
  BY <1>1, <1>2, <1>3 DEF TypeOK, Closers
<1>6. \A t \in Tasks : Steady(t)
  BY <1>2, NobodyMoves
<1>7. \A q \in Resources : ResourceInv(q)'
  <2>1. ResourceInv(r) /\ actor' = actor /\ order' = order
    BY <1>2 DEF IInv
  <2>2. ASSUME ok PROVE ResourceInv(r)'
    BY <1>1, <1>3, <1>4, <2>1, <2>2 DEF ResourceInv, Live
  <2>3. ASSUME ~ ok PROVE ResourceInv(r)'
    BY <1>1, <1>3, <1>4, <2>1, <2>3 DEF ResourceInv, Live
  <2> QED
    BY <1>2, <1>4, <1>6, <2>2, <2>3, OneResource DEF OrderKept
<1>8. ControlInv' /\ AwaitsInv'
  <2>1. ControlInv'
    BY <1>2 DEF IInv, ControlInv, Awaited
  <2>2. \A q \in Resources : closer[q] # "none" => closer'[q] # "none"
    BY <1>4
  <2> QED
    BY <1>1, <1>2, <2>1, <2>2, AwaitsKeep DEF IInv
<1>9. \A q \in Resources : /\ res'[q].initial = res[q].initial
                           /\ res'[q].creator = res[q].creator
  BY <1>3, <1>4
<1>10. \A q \in Resources : Ended(q)' => Ended(q)
  BY <1>1, <1>4 DEF Ended
<1> QED
  BY <1>2, <1>5, <1>6, <1>7, <1>8, <1>9, <1>10, QuietStep

LEMMA TimerKeeps ==
    ASSUME IInv, NEW r \in Resources, Timer(r)
    PROVE  IInv'
<1> DEFINE x == [res[r] EXCEPT !.timer = FALSE, !.cleanup = TRUE,
                               !.state = "closing",
                               !.auto = @ \/ res[r].state = "open"]
<1>1. TypeOK /\ res[r].timer /\ res[r] \in ResourceRecord
  BY DEF IInv, Timer, TypeOK
<1>2. /\ res' = [res EXCEPT ![r] = x] /\ failed' = TRUE
      /\ UNCHANGED <<scope, parent, runner, drain, order, leases, closer, actor,
                     uses, group, reported>>
  BY DEF Timer
<1>3. /\ x \in ResourceRecord /\ ~ x.timer /\ x.state = "closing" /\ x.cleanup
      /\ x.initial = res[r].initial /\ x.creator = res[r].creator
      /\ x.auto <=> res[r].auto \/ res[r].state = "open"
  BY <1>1 DEF ResourceRecord
<1> HIDE DEF x
<1>4. res'[r] = x /\ \A q \in Resources \ {r} : res'[q] = res[q]
  BY <1>1, <1>2 DEF TypeOK
<1>5. TypeOK'
  BY <1>1, <1>2, <1>3 DEF TypeOK
<1>6. \A t \in Tasks : Steady(t)
  BY <1>2, NobodyMoves
<1>7. \A q \in Resources : ResourceInv(q)'
  <2>1. ResourceInv(r)'
    BY <1>1, <1>2, <1>3, <1>4 DEF IInv, ResourceInv, Live
  <2> QED
    BY <1>2, <1>4, <1>6, <2>1, OneResource DEF OrderKept
<1>8. ControlInv' /\ AwaitsInv'
  <2>1. ControlInv'
    BY <1>2 DEF IInv, ControlInv, Awaited
  <2> QED
    BY <1>1, <1>2, <2>1, AwaitsKeep DEF IInv
<1>9. \A q \in Resources : /\ res'[q].initial = res[q].initial
                           /\ res'[q].creator = res[q].creator
  BY <1>3, <1>4
<1>10. \A q \in Resources : Ended(q)' => Ended(q)
  BY <1>2 DEF Ended
<1> QED
  BY <1>2, <1>5, <1>6, <1>7, <1>8, <1>9, <1>10, QuietStep

-----------------------------------------------------------------------------
(* Scopes and their draining.                                              *)

LEMMA EnterScopeKeeps ==
    ASSUME IInv, NEW a \in Actors, NEW c \in Children, EnterScope(a, c)
    PROVE  IInv'
<1> DEFINE x == [actor[a] EXCEPT !.scope = c]
<1>1. TypeOK /\ Running(a) /\ scope[c] = "unborn" /\ c \in Scopes /\ c # Root
  BY RootAssumption DEF IInv, EnterScope, Scopes
<1>2. /\ actor' = [actor EXCEPT ![a] = x]
      /\ scope' = [scope EXCEPT ![c] = "open"]
      /\ parent' = [parent EXCEPT ![c] = actor[a].scope]
      /\ runner' = [runner EXCEPT ![c] = a]
      /\ UNCHANGED <<drain, res, order, leases, closer, uses, group, reported,
                     failed>>
  BY DEF EnterScope
<1>3. /\ x \in ActorRecord /\ x.status = "running" /\ x.awaits = actor[a].awaits
      /\ x.key = actor[a].key /\ x.captures = actor[a].captures
      /\ x.kind = actor[a].kind /\ x.group = actor[a].group
      /\ x.outcome = actor[a].outcome
  <2>1. actor[a] \in ActorRecord
    BY <1>1 DEF TypeOK
  <2> QED
    BY <1>1, <2>1 DEF ActorRecord, Running
<1> HIDE DEF x
<1>4. \A t \in Tasks : Steady(t)
  BY <1>1, <1>2, <1>3, OneMoves DEF Live, Running
<1>5. TypeOK'
  <2>1. actor' \in [Actors -> ActorRecord]
    BY <1>1, <1>2, <1>3 DEF TypeOK
  <2>2. actor[a].scope \in Scopes
    BY <1>1, KeyTyped
  <2> QED
    BY <1>1, <1>2, <2>1, <2>2 DEF TypeOK
<1>6. \A r \in Resources : ResourceInv(r)'
  BY <1>2, <1>4, ResourceKeeps DEF IInv, OrderKept
<1>7. ControlInv'
  <2>1. runner'[Root] = runner[Root] /\ ControlInv
    BY <1>1, <1>2 DEF TypeOK, Scopes, IInv
  <2>2. \A b \in Actors : actor[b].status \in {"selecting", "draining"} =>
          actor'[b] = actor[b]
    BY <1>1, <1>2 DEF TypeOK, Running
  <2>3. \A g \in Tasks : Awaited(g)' => Awaited(g) /\ group'[g] = group[g]
    BY <1>2 DEF Awaited
  <2>4. \A s \in Scopes : drain'[s].phase # "none" =>
          /\ drain[s].phase # "none" /\ runner'[s] = runner[s]
          /\ actor'[runner[s]] = actor[runner[s]]
    BY <1>1, <1>2, <2>1, <2>2 DEF TypeOK, ControlInv
  <2>5. \A s \in Scopes : scope[s] # "unborn" => scope'[s] # "unborn"
    BY <1>1, <1>2 DEF TypeOK
  <2> QED
    BY <1>1, <2>1, <2>2, <2>3, <2>4, <2>5, ControlMoves
<1>8. AwaitsInv'
  <2>1. \A b \in Actors : actor'[b].awaits \subseteq actor[b].awaits
    BY <1>1, <1>2, <1>3 DEF TypeOK
  <2> QED
    BY <1>1, <1>2, <2>1, AwaitsKeep DEF IInv
<1>9. \A r \in Resources : Ended(r)' => Ended(r)
  BY <1>2 DEF Ended
<1> QED
  BY <1>2, <1>4, <1>5, <1>6, <1>7, <1>8, <1>9, QuietStep

\* What an iteration of drain's loop changes.
Iterated(s, now, states) ==
    /\ res' \in [Resources -> ResourceRecord]
    /\ drain' \in [Scopes -> DrainRecord]
    /\ scope' \in [Scopes -> {"unborn", "open", "closing", "closed"}]
    /\ \A r \in Resources :
         /\ res'[r].state = now[r].state /\ res'[r].scope = now[r].scope
         /\ res'[r].options = now[r].options
         /\ res'[r].creator = now[r].creator
         /\ res'[r].initial = now[r].initial
         /\ res'[r].auto = now[r].auto /\ res'[r].cleanup = now[r].cleanup
         /\ res'[r].timer <=> now[r].timer \/ r \in Armable(s)
    /\ \A q \in Scopes \ {s} : drain'[q] = drain[q] /\ scope'[q] = states[q]
    /\ \/ /\ Busy(s) /\ scope'[s] = states[s]
          /\ drain'[s] = [NotDraining EXCEPT !.phase = "waiting"]
       \/ /\ ~ Busy(s) /\ scope'[s] = "closing"
          /\ drain'[s] = [NotDraining EXCEPT !.phase = "sweeping",
                                             !.todo = Registered(s)]

LEMMA IterationChanges ==
    ASSUME TypeOK, NEW s \in Scopes,
           NEW now \in [Resources -> ResourceRecord],
           NEW states \in [Scopes -> {"unborn", "open", "closing", "closed"}],
           Iteration(s, now, states)
    PROVE  Iterated(s, now, states)
<1>1. \A r \in Resources :
        /\ [now[r] EXCEPT !.timer = TRUE] \in ResourceRecord
        /\ now[r] \in ResourceRecord
  BY ZenonT(40) DEF ResourceRecord
<1>2. res' = [r \in Resources |->
                IF r \in Armable(s) THEN [now[r] EXCEPT !.timer = TRUE] ELSE now[r]]
  BY DEF Iteration
<1>3. res' \in [Resources -> ResourceRecord]
  BY <1>1, <1>2
<1>4. \A r \in Resources :
        /\ res'[r].state = now[r].state /\ res'[r].scope = now[r].scope
        /\ res'[r].options = now[r].options
        /\ res'[r].creator = now[r].creator
        /\ res'[r].initial = now[r].initial
        /\ res'[r].auto = now[r].auto /\ res'[r].cleanup = now[r].cleanup
        /\ res'[r].timer <=> now[r].timer \/ r \in Armable(s)
  <2> TAKE r \in Resources
  <2>1. CASE r \in Armable(s)
    BY <1>1, <1>2, <2>1 DEF ResourceRecord
  <2>2. CASE r \notin Armable(s)
    BY <1>1, <1>2, <2>2
  <2> QED
    BY <2>1, <2>2
<1>5. /\ [NotDraining EXCEPT !.phase = "waiting"] \in DrainRecord
      /\ [NotDraining EXCEPT !.phase = "sweeping", !.todo = Registered(s)]
           \in DrainRecord
  <2>1. Registered(s) \in SUBSET Resources
    BY DEF Registered
  <2> QED
    BY <2>1 DEF NotDraining, DrainRecord
<1>6. CASE Busy(s)
  BY <1>3, <1>4, <1>5, <1>6, ZenonT(40) DEF Iteration, Iterated, TypeOK
<1>7. CASE ~ Busy(s)
  BY <1>3, <1>4, <1>5, <1>7, ZenonT(40) DEF Iteration, Iterated, TypeOK
<1> QED
  BY <1>6, <1>7

\* A resource whose timer an iteration arms.
LEMMA ArmedKeeps ==
    ASSUME IInv, TypeOK, NEW s \in Scopes, NEW r \in Resources,
           \A t \in Tasks : Steady(t), OrderKept, closer' = closer,
           res'[r].state = res[r].state, res'[r].creator = res[r].creator,
           res'[r].initial = res[r].initial, res'[r].auto = res[r].auto,
           res'[r].cleanup = res[r].cleanup,
           res'[r].timer <=> res[r].timer \/ r \in Armable(s)
    PROVE  ResourceInv(r)'
<1>1. r \in Armable(s) => res[r].state \in {"open", "closing"} /\ ~ res[r].cleanup
  BY DEF Armable
<1> QED
  BY <1>1, ResourceKeeps DEF IInv

LEMMA FinishMainKeeps ==
    ASSUME IInv, FinishMain
    PROVE  IInv'
<1> DEFINE x == [actor[Main] EXCEPT !.status = "draining"]
<1>1. /\ TypeOK /\ Running(Main) /\ actor[Main].scope = Root
      /\ Main \in Actors /\ Root \in Scopes /\ ControlInv
  BY DEF IInv, FinishMain, Actors, Scopes
<1>2. /\ actor' = [actor EXCEPT ![Main] = x]
      /\ UNCHANGED <<parent, runner, order, leases, closer, uses, group,
                     reported, failed>>
      /\ Iteration(Root, res, scope)
  BY DEF FinishMain
<1>3. /\ x \in ActorRecord /\ x.status = "draining" /\ x.awaits = actor[Main].awaits
      /\ x.key = actor[Main].key /\ x.captures = actor[Main].captures
      /\ x.kind = actor[Main].kind /\ x.group = actor[Main].group
      /\ x.outcome = actor[Main].outcome /\ x.scope = Root
  <2>1. actor[Main] \in ActorRecord
    BY <1>1 DEF TypeOK
  <2> QED
    BY <1>1, <2>1 DEF ActorRecord, Statuses
<1> HIDE DEF x
<1>4. \A t \in Tasks : Steady(t)
  BY <1>1, <1>2, <1>3, OneMoves DEF Live, Running
<1>5. /\ res' \in [Resources -> ResourceRecord]
      /\ drain' \in [Scopes -> DrainRecord]
      /\ scope' \in [Scopes -> {"unborn", "open", "closing", "closed"}]
      /\ \A r \in Resources :
           /\ res'[r].state = res[r].state /\ res'[r].creator = res[r].creator
           /\ res'[r].initial = res[r].initial /\ res'[r].auto = res[r].auto
           /\ res'[r].cleanup = res[r].cleanup
           /\ res'[r].timer <=> res[r].timer \/ r \in Armable(Root)
      /\ \A q \in Scopes \ {Root} : drain'[q] = drain[q] /\ scope'[q] = scope[q]
      /\ scope'[Root] \in {scope[Root], "closing"}
  <2>1. /\ res \in [Resources -> ResourceRecord]
        /\ scope \in [Scopes -> {"unborn", "open", "closing", "closed"}]
    BY <1>1 DEF TypeOK
  <2>2. Iterated(Root, res, scope)
    BY <1>1, <1>2, <2>1, IterationChanges
  <2> QED
    BY <2>2 DEF Iterated
<1>6. TypeOK'
  <2>1. actor' \in [Actors -> ActorRecord]
    BY <1>1, <1>2, <1>3 DEF TypeOK
  <2> QED
    BY <1>1, <1>2, <1>5, <2>1 DEF TypeOK
<1>7. \A r \in Resources : ResourceInv(r)'
  BY <1>1, <1>2, <1>4, <1>5, ArmedKeeps DEF OrderKept
<1>8. ControlInv'
  <2>1. \A b \in Actors : actor[b].status \in {"selecting", "draining"} =>
          actor'[b] = actor[b]
    BY <1>1, <1>2 DEF TypeOK, Running
  <2>2. \A g \in Tasks : Awaited(g)' => Awaited(g) /\ group'[g] = group[g]
    BY <1>2 DEF Awaited
  <2>3. \A s \in Scopes : scope[s] # "unborn" => scope'[s] # "unborn"
    BY <1>5
  <2>4. ASSUME NEW s \in Scopes, drain'[s].phase # "none"
        PROVE  \/ /\ drain[s].phase # "none" /\ runner'[s] = runner[s]
                  /\ actor'[runner[s]] = actor[runner[s]]
               \/ /\ actor'[runner'[s]].status = "draining"
                  /\ actor'[runner'[s]].scope = s
                  /\ scope'[s] # "unborn"
    <3>1. CASE s = Root
      <4>1. actor'[Main] = x /\ runner'[Root] = Main /\ scope'[Root] # "unborn"
        BY <1>1, <1>2, <1>5 DEF ControlInv, TypeOK
      <4> QED
        BY <1>3, <3>1, <4>1
    <3>2. CASE s # Root
      BY <1>1, <1>2, <1>5, <2>1, <2>4, <3>2 DEF ControlInv, TypeOK
    <3> QED
      BY <3>1, <3>2
  <2> QED
    BY <1>1, <1>2, <2>1, <2>2, <2>3, <2>4, ControlMoves
<1>9. AwaitsInv'
  <2>1. \A b \in Actors : actor'[b].awaits \subseteq actor[b].awaits
    BY <1>1, <1>2, <1>3 DEF TypeOK
  <2> QED
    BY <1>1, <1>2, <2>1, AwaitsKeep DEF IInv
<1>10. \A r \in Resources : Ended(r)' => Ended(r)
  BY <1>2 DEF Ended
<1> QED
  BY <1>2, <1>4, <1>5, <1>6, <1>7, <1>8, <1>9, <1>10, QuietStep

LEMMA DrainWakesKeeps ==
    ASSUME IInv, NEW s \in Scopes, DrainWakes(s)
    PROVE  IInv'
<1>1. TypeOK /\ ControlInv /\ drain[s].phase # "none"
  BY DEF IInv, DrainWakes
<1>2. /\ UNCHANGED <<parent, runner, order, leases, closer, actor, uses, group,
                     reported, failed>>
      /\ Iteration(s, res, scope)
  BY DEF DrainWakes
<1>3. \A t \in Tasks : Steady(t)
  BY <1>2, NobodyMoves
<1>4. /\ res' \in [Resources -> ResourceRecord]
      /\ drain' \in [Scopes -> DrainRecord]
      /\ scope' \in [Scopes -> {"unborn", "open", "closing", "closed"}]
      /\ \A r \in Resources :
           /\ res'[r].state = res[r].state /\ res'[r].creator = res[r].creator
           /\ res'[r].initial = res[r].initial /\ res'[r].auto = res[r].auto
           /\ res'[r].cleanup = res[r].cleanup
           /\ res'[r].timer <=> res[r].timer \/ r \in Armable(s)
      /\ \A q \in Scopes \ {s} : drain'[q] = drain[q] /\ scope'[q] = scope[q]
      /\ scope'[s] \in {scope[s], "closing"}
  <2>1. /\ res \in [Resources -> ResourceRecord]
        /\ scope \in [Scopes -> {"unborn", "open", "closing", "closed"}]
    BY <1>1 DEF TypeOK
  <2>2. Iterated(s, res, scope)
    BY <1>1, <1>2, <2>1, IterationChanges
  <2> QED
    BY <2>2 DEF Iterated
<1>5. TypeOK'
  BY <1>1, <1>2, <1>4 DEF TypeOK
<1>6. \A r \in Resources : ResourceInv(r)'
  BY <1>1, <1>2, <1>3, <1>4, ArmedKeeps DEF OrderKept
<1>7. ControlInv'
  <2>1. \A g \in Tasks : Awaited(g)' => Awaited(g)
    BY <1>2 DEF Awaited
  <2>2. \A q \in Scopes : /\ drain'[q].phase # "none" => drain[q].phase # "none"
                          /\ scope[q] # "unborn" => scope'[q] # "unborn"
    BY <1>1, <1>4
  <2> QED
    BY <1>1, <1>2, <2>1, <2>2, ControlKeeps
<1>8. AwaitsInv'
  BY <1>2 DEF IInv, AwaitsInv
<1>9. \A r \in Resources : Ended(r)' => Ended(r)
  BY <1>2 DEF Ended
<1> QED
  BY <1>2, <1>3, <1>4, <1>5, <1>6, <1>7, <1>8, <1>9, QuietStep

\* What Closing does to a resource.
LEMMA ClosingChanges ==
    ASSUME TypeOK, NEW r \in Resources, NEW record \in ResourceRecord,
           Closing(r, record)
    PROVE  /\ res' \in [Resources -> ResourceRecord]
           /\ closer' \in [Resources -> Closers]
           /\ \A q \in Resources \ {r} : res'[q] = res[q] /\ closer'[q] = closer[q]
           /\ res'[r].initial = record.initial /\ res'[r].creator = record.creator
           /\ res'[r].cleanup = record.cleanup /\ res'[r].timer = record.timer
           /\ res'[r].scope = record.scope /\ res'[r].options = record.options
           /\ closer'[r] # "none"
           /\ closer[r] # "none" => /\ res'[r].state = record.state
                                    /\ res'[r].auto = record.auto
                                    /\ closer'[r] = closer[r]
           /\ closer[r] = "none" => /\ res'[r].state = "closing" /\ ~ res'[r].auto
                                    /\ closer'[r] = "waiting"
<1> DEFINE y == [record EXCEPT !.state = "closing", !.auto = FALSE]
<1>1. /\ y \in ResourceRecord /\ y.state = "closing" /\ ~ y.auto
      /\ y.initial = record.initial /\ y.creator = record.creator
      /\ y.cleanup = record.cleanup /\ y.timer = record.timer
      /\ y.scope = record.scope /\ y.options = record.options
  BY DEF ResourceRecord
<1>2. CASE closer[r] # "none"
  BY <1>2 DEF Closing, TypeOK
<1>3. CASE closer[r] = "none"
  <2>1. /\ res' = [res EXCEPT ![r] = y]
        /\ closer' = [closer EXCEPT ![r] = "waiting"]
    BY <1>3 DEF Closing
  <2> HIDE DEF y
  <2>2. res'[r] = y /\ closer'[r] = "waiting"
    BY <2>1 DEF TypeOK
  <2>3. /\ res' \in [Resources -> ResourceRecord] /\ closer' \in [Resources -> Closers]
        /\ \A q \in Resources \ {r} : res'[q] = res[q] /\ closer'[q] = closer[q]
    BY <1>1, <2>1 DEF TypeOK, Closers
  <2> QED
    BY <1>1, <1>3, <2>2, <2>3
<1> QED
  BY <1>2, <1>3

\* A resource with its close begun.
LEMMA ClosingKeeps ==
    ASSUME TypeOK, NEW r \in Resources, ResourceInv(r), res[r].state # "unborn",
           NEW record \in ResourceRecord, Closing(r, record),
           record.state = res[r].state, record.auto = res[r].auto,
           record.timer = res[r].timer,
           res[r].cleanup => record.cleanup,
           record.initial => /\ record.creator \in Tasks
                             /\ actor'[record.creator].status
                                  \notin {"unborn", "done"},
           OrderKept
    PROVE  ResourceInv(r)'
<1> DEFINE now == res'[r]
<1>1. /\ now.initial = record.initial /\ now.creator = record.creator
      /\ now.cleanup = record.cleanup /\ now.timer = record.timer
      /\ closer'[r] # "none"
      /\ closer[r] # "none" => /\ now.state = record.state
                               /\ now.auto = record.auto
                               /\ closer'[r] = closer[r]
      /\ closer[r] = "none" => /\ now.state = "closing" /\ ~ now.auto
                               /\ closer'[r] = "waiting"
  BY ClosingChanges
<1>2. \E i \in DOMAIN order' : order'[i] = r
  BY DEF ResourceInv, OrderKept
<1>3. now.initial => now.creator \in Tasks
                      /\ actor'[now.creator].status \notin {"unborn", "done"}
  BY <1>1
<1>4. CASE closer[r] # "none"
  BY <1>1, <1>2, <1>3, <1>4 DEF ResourceInv, Live
<1>5. CASE closer[r] = "none"
  BY <1>1, <1>2, <1>3, <1>5 DEF ResourceInv, Live
<1> QED
  BY <1>4, <1>5

LEMMA SweepStepKeeps ==
    ASSUME IInv, NEW s \in Scopes, SweepStep(s)
    PROVE  IInv'
<1>1. /\ TypeOK /\ ControlInv /\ drain[s].phase = "sweeping"
      /\ drain[s] \in DrainRecord
  BY DEF IInv, SweepStep, TypeOK
<1>2. /\ drain' = [drain EXCEPT ![s] = [@ EXCEPT !.awaits = TRUE]]
      /\ UNCHANGED <<scope, parent, runner, order, leases, actor, uses, group,
                     reported>>
  BY DEF SweepStep
<1>3. \A t \in Tasks : Steady(t)
  BY <1>2, NobodyMoves
<1>4. /\ drain' \in [Scopes -> DrainRecord]
      /\ \A q \in Scopes : drain'[q].phase = drain[q].phase
  <2>1. /\ [drain[s] EXCEPT !.awaits = TRUE] \in DrainRecord
        /\ [drain[s] EXCEPT !.awaits = TRUE].phase = drain[s].phase
    BY <1>1 DEF DrainRecord
  <2> QED
    BY <1>1, <1>2, <2>1 DEF TypeOK
<1>5. ControlInv'
  <2>1. \A g \in Tasks : Awaited(g)' => Awaited(g)
    BY <1>2 DEF Awaited
  <2> QED
    BY <1>1, <1>2, <1>4, <2>1, ControlKeeps
<1>6. CASE UNCHANGED <<res, closer, failed>>
  <2>1. TypeOK' /\ AwaitsInv'
    BY <1>1, <1>2, <1>4, <1>6 DEF TypeOK, IInv, AwaitsInv
  <2>2. \A r \in Resources : ResourceInv(r)'
    BY <1>2, <1>3, <1>6, ResourceKeeps DEF IInv, OrderKept
  <2>3. \A r \in Resources : Ended(r)' => Ended(r)
    BY <1>6 DEF Ended
  <2> QED
    BY <1>2, <1>3, <1>5, <1>6, <2>1, <2>2, <2>3, QuietStep
<1>7. CASE ~ UNCHANGED <<res, closer, failed>>
  <2>1. PICK r \in drain[s].todo, untold \in BOOLEAN :
          /\ Leftover(r)
          /\ Closing(r, [res[r] EXCEPT !.cleanup = @ \/ untold])
          /\ failed' = (failed \/ untold)
    BY <1>7 DEF SweepStep
  <2> DEFINE x == [res[r] EXCEPT !.cleanup = @ \/ untold]
  <2>2. /\ r \in Resources /\ res[r] \in ResourceRecord
        /\ res[r].state # "unborn" /\ ResourceInv(r)
    <3>1. r \in Resources
      BY <1>1 DEF DrainRecord
    <3> QED
      BY <1>1, <2>1, <3>1 DEF IInv, TypeOK, ResourceInv, Leftover
  <2>3. /\ x \in ResourceRecord /\ x.state = res[r].state /\ x.auto = res[r].auto
        /\ x.timer = res[r].timer /\ x.initial = res[r].initial
        /\ x.creator = res[r].creator /\ (res[r].cleanup => x.cleanup)
    BY <2>2 DEF ResourceRecord
  <2>4. Closing(r, x)
    BY <2>1
  <2> HIDE DEF x
  <2>5. /\ res' \in [Resources -> ResourceRecord] /\ closer' \in [Resources -> Closers]
        /\ \A q \in Resources \ {r} : res'[q] = res[q] /\ closer'[q] = closer[q]
        /\ res'[r].initial = res[r].initial /\ res'[r].creator = res[r].creator
        /\ closer'[r] \in {closer[r], "waiting"} /\ closer'[r] # "none"
    BY <1>1, <2>2, <2>3, <2>4, ClosingChanges
  <2>6. TypeOK'
    BY <1>1, <1>2, <1>4, <2>1, <2>5 DEF TypeOK
  <2>7. OrderKept
    BY <1>2 DEF OrderKept
  <2>8. x.initial => /\ x.creator \in Tasks
                     /\ actor'[x.creator].status \notin {"unborn", "done"}
    BY <1>2, <2>2, <2>3 DEF ResourceInv, Live
  <2>9. ResourceInv(r)'
    BY <1>1, <2>2, <2>3, <2>4, <2>7, <2>8, ClosingKeeps
  <2>10. \A q \in Resources : ResourceInv(q)'
    BY <1>3, <2>2, <2>5, <2>7, <2>9, OneResource
  <2>11. AwaitsInv'
    <3>1. \A q \in Resources : closer[q] # "none" => closer'[q] # "none"
      BY <2>5
    <3> QED
      BY <1>1, <1>2, <3>1, AwaitsKeep DEF IInv
  <2>12. \A q \in Resources : Ended(q)' => Ended(q)
    BY <2>5 DEF Ended
  <2>13. \A q \in Resources : /\ res'[q].initial = res[q].initial
                              /\ res'[q].creator = res[q].creator
    BY <2>5
  <2> QED
    BY <1>2, <1>3, <1>5, <2>6, <2>10, <2>11, <2>12, <2>13, QuietStep
<1> QED
  BY <1>6, <1>7

LEMMA SweepNextKeeps ==
    ASSUME IInv, NEW s \in Scopes, SweepNext(s)
    PROVE  IInv'
<1>1. TypeOK /\ ControlInv /\ drain[s] \in DrainRecord
  BY DEF IInv, TypeOK
<1>2. UNCHANGED <<scope, parent, runner, res, order, leases, closer, actor,
                  uses, group, reported, failed>>
  BY DEF SweepNext
<1>3. /\ drain' \in [Scopes -> DrainRecord]
      /\ \A q \in Scopes : drain'[q].phase = drain[q].phase
  <2>1. PICK r \in drain[s].todo :
          drain' = [drain EXCEPT ![s] =
                      [drain[s] EXCEPT !.todo = @ \ {r}, !.awaits = FALSE,
                                       !.found = @ \/ res[r].cleanup]]
    BY DEF SweepNext
  <2> DEFINE d == [drain[s] EXCEPT !.todo = @ \ {r}, !.awaits = FALSE,
                                   !.found = @ \/ res[r].cleanup]
  <2>2. d \in DrainRecord /\ d.phase = drain[s].phase
    BY <1>1 DEF DrainRecord
  <2>3. drain' = [drain EXCEPT ![s] = d]
    BY <2>1
  <2> HIDE DEF d
  <2> QED
    BY <1>1, <2>2, <2>3 DEF TypeOK
<1>4. \A t \in Tasks : Steady(t)
  BY <1>2, NobodyMoves
<1>5. TypeOK' /\ AwaitsInv'
  BY <1>1, <1>2, <1>3 DEF TypeOK, IInv, AwaitsInv
<1>6. ControlInv'
  <2>1. \A g \in Tasks : Awaited(g)' => Awaited(g)
    BY <1>2 DEF Awaited
  <2> QED
    BY <1>1, <1>2, <1>3, <2>1, ControlKeeps
<1>7. \A r \in Resources : ResourceInv(r)'
  BY <1>2, <1>4, ResourceKeeps DEF IInv, OrderKept
<1>8. \A r \in Resources : Ended(r)' => Ended(r)
  BY <1>2 DEF Ended
<1> QED
  BY <1>2, <1>4, <1>5, <1>6, <1>7, <1>8, QuietStep

LEMMA DrainEndsKeeps ==
    ASSUME IInv, NEW s \in Scopes, DrainEnds(s)
    PROVE  IInv'
<1> DEFINE a == runner[s]
           x == IF s = Root THEN [actor[a] EXCEPT !.status = "done"]
                ELSE [actor[a] EXCEPT !.status = "running", !.scope = parent[s]]
           d == [drain[s] EXCEPT !.phase = "none"]
<1>1. /\ TypeOK /\ ControlInv /\ drain[s] \in DrainRecord /\ a \in Actors
      /\ drain[s].phase = "sweeping"
  BY DEF IInv, TypeOK, DrainEnds
<1>2. /\ actor' = [actor EXCEPT ![a] = x] /\ drain' = [drain EXCEPT ![s] = d]
      /\ scope' = [scope EXCEPT ![s] = "closed"]
      /\ UNCHANGED <<parent, runner, res, order, leases, closer, uses, group,
                     reported, failed>>
  BY DEF DrainEnds
<1>3. /\ x \in ActorRecord /\ x.awaits = actor[a].awaits
      /\ x.status \in {"running", "done"} /\ (x.status = "done" <=> s = Root)
      /\ x.key = actor[a].key /\ x.captures = actor[a].captures
      /\ x.kind = actor[a].kind /\ x.group = actor[a].group
      /\ x.outcome = actor[a].outcome
  <2>1. actor[a] \in ActorRecord /\ parent[s] \in Scopes
    BY <1>1 DEF TypeOK
  <2>2. CASE s = Root
    BY <2>1, <2>2 DEF ActorRecord, Statuses
  <2>3. CASE s # Root
    BY <2>1, <2>3 DEF ActorRecord, Statuses
  <2> QED
    BY <2>2, <2>3
<1>4. d \in DrainRecord /\ d.phase = "none"
  BY <1>1 DEF DrainRecord
<1>5. actor[a].status = "draining" /\ actor[a].scope = s /\ (s = Root => a = Main)
  BY <1>1 DEF ControlInv
<1> HIDE DEF a, x, d
<1>6. \A t \in Tasks : Steady(t)
  BY <1>1, <1>2, <1>3, <1>5, OneMoves DEF Live
<1>7. TypeOK'
  <2>1. actor' \in [Actors -> ActorRecord] /\ drain' \in [Scopes -> DrainRecord]
    BY <1>1, <1>2, <1>3, <1>4 DEF TypeOK
  <2> QED
    BY <1>1, <1>2, <2>1 DEF TypeOK
<1>8. ControlInv'
  <2>1. \A b \in Actors : actor[b].status = "selecting" =>
          actor'[b].status = "selecting"
    BY <1>1, <1>2, <1>5 DEF TypeOK
  <2>2. \A g \in Tasks : Awaited(g)' => Awaited(g) /\ group'[g] = group[g]
    BY <1>2 DEF Awaited
  <2>3. ASSUME NEW q \in Scopes, drain'[q].phase # "none"
        PROVE  /\ drain[q].phase # "none" /\ runner'[q] = runner[q]
               /\ actor'[runner[q]] = actor[runner[q]]
    <3>1. q # s /\ drain[q].phase # "none"
      BY <1>1, <1>2, <1>4, <2>3 DEF TypeOK
    <3>2. runner[q] # a
      BY <1>1, <1>5, <3>1 DEF ControlInv
    <3> QED
      BY <1>1, <1>2, <3>1, <3>2 DEF TypeOK
  <2>4. \A q \in Scopes : scope[q] # "unborn" => scope'[q] # "unborn"
    BY <1>1, <1>2 DEF TypeOK
  <2> QED
    BY <1>1, <1>2, <2>1, <2>2, <2>3, <2>4, ControlMoves
<1>9. AwaitsInv'
  <2>1. \A b \in Actors : actor'[b].awaits \subseteq actor[b].awaits
    BY <1>1, <1>2, <1>3 DEF TypeOK
  <2> QED
    BY <1>1, <1>2, <2>1, AwaitsKeep DEF IInv
<1>10. \A r \in Resources : ResourceInv(r)'
  BY <1>2, <1>6, ResourceKeeps DEF IInv, OrderKept
<1>11. \A r \in Resources : Ended(r)' => Ended(r)
  BY <1>2 DEF Ended
<1> QED
  BY <1>2, <1>6, <1>7, <1>8, <1>9, <1>10, <1>11, QuietStep

-----------------------------------------------------------------------------
(* Leases.                                                                 *)

LEMMA ExactNext == LeasesExact' <=> \A r \in Resources, k \in Keys :
                                       leases'[r][k] = Count(r, k)'
BY DEF LeasesExact, Count, Holders, Operations, Owned

\* A step that leaves tasks and groups alone.
LEMMA LeasingStep ==
    ASSUME IInv, TypeOK', \A t \in Tasks : Steady(t),
           group' = group, reported' = reported,
           \A r \in Resources : ResourceInv(r)', ControlInv', AwaitsInv',
           \A r \in Resources, k \in Keys : leases'[r][k] = Count(r, k)',
           \A r \in Resources : Ended(r)' =>
               Ended(r) /\ \A k \in Keys : leases'[r][k] <= leases[r][k]
    PROVE  IInv'
<1>1. LeasesExact'
  BY ExactNext
<1>2. NotClosedInUse'
  <2>1. ASSUME NEW r \in Resources, Ended(r)', NEW k \in Keys
        PROVE  leases'[r][k] <= 0
    <3>1. Unleased(r) /\ leases'[r][k] <= leases[r][k]
      BY <2>1 DEF IInv, NotClosedInUse, Ended
    <3> QED
      BY <3>1 DEF Unleased
  <2> QED
    BY <1>1, <2>1, NotClosedKeeps
<1>3. GroupInv' /\ LateFailuresReported'
  BY GroupsKeep DEF IInv
<1> QED
  BY <1>1, <1>2, <1>3 DEF IInv

LEMMA RegisterKeeps ==
    ASSUME IInv, NEW a \in Actors, NEW r \in Resources, NEW options \in Options,
           Register(a, r, options)
    PROVE  IInv'
<1> DEFINE x == [Unregistered EXCEPT !.state = "open", !.scope = actor[a].scope,
                                     !.options = options, !.creator = a,
                                     !.initial = IsTask(a)]
<1>1. /\ TypeOK /\ Running(a) /\ res[r].state = "unborn" /\ ResourceInv(r)
      /\ Key(a) \in Keys /\ actor[a].scope \in Scopes
      /\ \A q \in Resources, k \in Keys : leases[q][k] = Count(q, k)
  BY KeyTyped, ExactIsCount DEF IInv, Register
<1>2. /\ res' = [res EXCEPT ![r] = x] /\ order' = Append(order, r)
      /\ leases' = IF IsTask(a) THEN Lease(r, Key(a), 1) ELSE leases
      /\ UNCHANGED <<scope, parent, runner, drain, closer, actor, uses, group,
                     reported, failed>>
  BY DEF Register
<1>3. /\ x \in ResourceRecord /\ x.state = "open" /\ x.creator = a
      /\ x.initial = IsTask(a) /\ ~ x.auto /\ ~ x.timer
  <2>1. IsTask(a) \in BOOLEAN
    BY DEF IsTask
  <2>2. options \in [managed: BOOLEAN, idempotent: BOOLEAN, shutdown: BOOLEAN]
    BY OptionsAssumption
  <2> QED
    BY <1>1, <2>1, <2>2, RecordsTyped DEF ResourceRecord, Unregistered
<1> HIDE DEF x
<1>4. res'[r] = x /\ \A q \in Resources \ {r} : res'[q] = res[q]
  BY <1>1, <1>2 DEF TypeOK
<1>5. \A t \in Tasks : Steady(t)
  BY <1>2, NobodyMoves
<1>6. order' \in Seq(Resources) /\ OrderKept /\ \E i \in DOMAIN order' : order'[i] = r
  <2>1. order \in Seq(Resources) /\ order' = Append(order, r)
    BY <1>1, <1>2 DEF TypeOK
  <2>2. order' \in Seq(Resources) /\ Len(order') = Len(order) + 1
    BY <2>1
  <2>3. Len(order') \in DOMAIN order' /\ order'[Len(order')] = r
    BY <2>1, <2>2
  <2>4. \A i \in DOMAIN order : i \in DOMAIN order' /\ order'[i] = order[i]
    BY <2>1, <2>2
  <2> QED
    BY <2>2, <2>3, <2>4 DEF OrderKept
<1>7. /\ leases' \in [Resources -> [Keys -> Int]]
      /\ \A q \in Resources, k \in Keys :
           leases'[q][k] = IF q = r /\ k = Key(a) /\ IsTask(a)
                           THEN leases[q][k] + 1 ELSE leases[q][k]
  <2>1. CASE IsTask(a)
    BY <1>1, <1>2, <2>1, LeaseAt
  <2>2. CASE ~ IsTask(a)
    BY <1>1, <1>2, <2>2 DEF TypeOK
  <2> QED
    BY <2>1, <2>2
<1>8. TypeOK'
  BY <1>1, <1>2, <1>3, <1>6, <1>7 DEF TypeOK
<1>9. \A q \in Resources : ResourceInv(q)'
  <2>1. closer'[r] = "none" /\ actor' = actor
    BY <1>1, <1>2 DEF ResourceInv
  <2>2. x.initial => a \in Tasks /\ actor'[a].status = "running"
    BY <1>1, <1>3, <2>1 DEF IsTask, Running
  <2>3. ResourceInv(r)'
    BY <1>3, <1>4, <1>6, <2>1, <2>2 DEF ResourceInv, Live
  <2> QED
    BY <1>2, <1>4, <1>5, <1>6, <2>3, OneResource
<1>10. ControlInv' /\ AwaitsInv'
  BY <1>2 DEF IInv, ControlInv, Awaited, AwaitsInv
<1>11. ASSUME NEW q \in Resources, NEW k \in Keys
       PROVE  leases'[q][k] = Count(q, k)'
  <2>1. Holders(q, k)' = Holders(q, k) /\ Operations(q, k)' = Operations(q, k)
    BY <1>2, <1>5, HoldersKeep DEF Operations
  <2>2. CASE q # r
    <3>1. Owned(q, k)' = Owned(q, k)
      BY <1>2, <1>4, <2>2 DEF Owned, Key
    <3>2. leases'[q][k] = leases[q][k]
      BY <1>7, <2>2
    <3> QED
      BY <1>1, <2>1, <3>1, <3>2 DEF Count
  <2>3. CASE q = r
    <3>1. Owned(r, k) = 0
      BY <1>1 DEF Owned, ResourceInv
    <3>2. Key(a)' = Key(a)
      BY <1>2 DEF Key
    <3>3. Owned(r, k)' = IF IsTask(a) /\ Key(a) = k THEN 1 ELSE 0
      BY <1>3, <1>4, <3>2 DEF Owned
    <3>4. leases'[r][k] = leases[r][k] + (IF IsTask(a) /\ Key(a) = k THEN 1 ELSE 0)
      <4>1. leases[r][k] \in Int
        BY <1>1 DEF TypeOK
      <4> QED
        BY <1>7, <4>1
    <3>5. Cardinality(Holders(r, k)) \in Nat /\ Cardinality(Operations(r, k)) \in Nat
      BY <1>1, CountTyped
    <3>6. leases[r][k] = Cardinality(Holders(r, k)) + Cardinality(Operations(r, k))
      BY <1>1, <3>1, <3>5 DEF Count
    <3> QED
      BY <2>1, <2>3, <3>3, <3>4, <3>5, <3>6 DEF Count
  <2> QED
    BY <2>2, <2>3
<1>12. ASSUME NEW q \in Resources, Ended(q)'
       PROVE  Ended(q) /\ \A k \in Keys : leases'[q][k] <= leases[q][k]
  <2>1. Ended(q) /\ q # r
    BY <1>1, <1>2, <1>12 DEF Ended, ResourceInv
  <2>2. \A k \in Keys : leases'[q][k] = leases[q][k] /\ leases[q][k] \in Int
    BY <1>1, <1>7, <2>1 DEF TypeOK
  <2> QED
    BY <2>1, <2>2
<1> QED
  BY <1>2, <1>5, <1>8, <1>9, <1>10, <1>11, <1>12, LeasingStep

LEMMA UseKeeps ==
    ASSUME IInv, NEW a \in Actors, NEW r \in Resources, Use(a, r)
    PROVE  IInv'
<1> DEFINE u == <<a, r, Key(a)>>
<1>1. /\ TypeOK /\ ResourceInv(r) /\ NotClosedInUse /\ Key(a) \in Keys
      /\ \A q \in Resources, k \in Keys : leases[q][k] = Count(q, k)
  BY KeyTyped, ExactIsCount DEF IInv
<1>2. /\ Admits(r, actor[a].scope, Key(a)) /\ u \notin uses
      /\ uses' = uses \cup {u} /\ leases' = Lease(r, Key(a), 1)
      /\ UNCHANGED <<scope, parent, runner, drain, res, order, closer, actor,
                     group, reported, failed>>
  BY DEF Use
<1>3. /\ leases' \in [Resources -> [Keys -> Int]]
      /\ \A q \in Resources, j \in Keys :
           leases'[q][j] = IF q = r /\ j = Key(a) THEN leases[q][j] + 1
                           ELSE leases[q][j]
  BY <1>1, <1>2, LeaseAt
<1>4. TypeOK'
  <2>1. IsFiniteSet(uses')
    BY <1>1, <1>2, FS_AddElement DEF TypeOK
  <2>2. uses' \subseteq Actors \X Resources \X Keys
    BY <1>1, <1>2 DEF TypeOK
  <2> QED
    BY <1>1, <1>2, <1>3, <2>1, <2>2 DEF TypeOK
<1>5. \A t \in Tasks : Steady(t)
  BY <1>2, NobodyMoves
<1>6. \A q \in Resources : ResourceInv(q)'
  BY <1>2, <1>5, ResourceKeeps DEF IInv, OrderKept
<1>7. ControlInv' /\ AwaitsInv'
  BY <1>2 DEF IInv, ControlInv, Awaited, AwaitsInv
<1>8. ASSUME NEW q \in Resources, NEW k \in Keys
      PROVE  leases'[q][k] = Count(q, k)'
  <2>1. Holders(q, k)' = Holders(q, k) /\ Owned(q, k)' = Owned(q, k)
    BY <1>2, <1>5, HoldersKeep DEF Owned, Key
  <2>2. /\ IsFiniteSet(Operations(q, k)) /\ Cardinality(Operations(q, k)) \in Nat
        /\ Cardinality(Holders(q, k)) \in Nat /\ Owned(q, k) \in {0, 1}
    BY <1>1, CountTyped
  <2>3. CASE q = r /\ k = Key(a)
    <3>1. Operations(q, k)' = Operations(q, k) \cup {u} /\ u \notin Operations(q, k)
      BY <1>2, <2>3 DEF Operations
    <3>2. Cardinality(Operations(q, k)') = Cardinality(Operations(q, k)) + 1
      BY <2>2, <3>1, FS_AddElement
    <3>3. leases'[q][k] = Count(q, k) + 1
      BY <1>1, <1>3, <2>3
    <3> QED
      BY <2>1, <2>2, <3>2, <3>3 DEF Count
  <2>4. CASE ~ (q = r /\ k = Key(a))
    <3>1. Operations(q, k)' = Operations(q, k)
      BY <1>2, <2>4 DEF Operations
    <3>2. leases'[q][k] = Count(q, k)
      BY <1>1, <1>3, <2>4
    <3> QED
      BY <2>1, <3>1, <3>2 DEF Count
  <2> QED
    BY <2>3, <2>4
<1>9. ASSUME NEW q \in Resources, Ended(q)'
      PROVE  Ended(q) /\ \A k \in Keys : leases'[q][k] <= leases[q][k]
  <2>1. ~ Ended(r)
    BY <1>1, <1>2, AdmitsOnlyBefore
  <2>2. Ended(q) /\ q # r
    BY <1>2, <1>9, <2>1 DEF Ended
  <2>3. \A k \in Keys : leases'[q][k] = leases[q][k] /\ leases[q][k] \in Int
    BY <1>1, <1>3, <2>2 DEF TypeOK
  <2> QED
    BY <2>2, <2>3
<1> QED
  BY <1>2, <1>4, <1>5, <1>6, <1>7, <1>8, <1>9, LeasingStep

LEMMA UseEndsKeeps ==
    ASSUME IInv, NEW u \in uses, UseEnds(u)
    PROVE  IInv'
<1>1. /\ TypeOK /\ u[2] \in Resources /\ u[3] \in Keys
      /\ \A q \in Resources, k \in Keys : leases[q][k] = Count(q, k)
  BY ExactIsCount DEF IInv, TypeOK
<1>2. /\ uses' = uses \ {u} /\ leases' = Unlease(u[2], u[3])
      /\ UNCHANGED <<scope, parent, runner, drain, res, order, closer, actor,
                     group, reported, failed>>
  BY DEF UseEnds
<1>3. /\ leases' \in [Resources -> [Keys -> Int]]
      /\ \A q \in Resources, j \in Keys :
           leases'[q][j] = IF q = u[2] /\ j = u[3] THEN leases[q][j] - 1
                           ELSE leases[q][j]
  BY <1>1, <1>2, UnleaseAt
<1>4. TypeOK'
  <2>1. IsFiniteSet(uses')
    BY <1>1, <1>2, FS_RemoveElement DEF TypeOK
  <2>2. uses' \subseteq Actors \X Resources \X Keys
    BY <1>1, <1>2 DEF TypeOK
  <2> QED
    BY <1>1, <1>2, <1>3, <2>1, <2>2 DEF TypeOK
<1>5. \A t \in Tasks : Steady(t)
  BY <1>2, NobodyMoves
<1>6. \A q \in Resources : ResourceInv(q)'
  BY <1>2, <1>5, ResourceKeeps DEF IInv, OrderKept
<1>7. ControlInv' /\ AwaitsInv'
  BY <1>2 DEF IInv, ControlInv, Awaited, AwaitsInv
<1>8. ASSUME NEW q \in Resources, NEW k \in Keys
      PROVE  leases'[q][k] = Count(q, k)'
  <2>1. Holders(q, k)' = Holders(q, k) /\ Owned(q, k)' = Owned(q, k)
    BY <1>2, <1>5, HoldersKeep DEF Owned, Key
  <2>2. /\ IsFiniteSet(Operations(q, k)) /\ Cardinality(Operations(q, k)) \in Nat
        /\ Cardinality(Holders(q, k)) \in Nat /\ Owned(q, k) \in {0, 1}
    BY <1>1, CountTyped
  <2>3. CASE q = u[2] /\ k = u[3]
    <3>1. Operations(q, k)' = Operations(q, k) \ {u} /\ u \in Operations(q, k)
      BY <1>2, <2>3 DEF Operations
    <3>2. Cardinality(Operations(q, k)') = Cardinality(Operations(q, k)) - 1
      BY <2>2, <3>1, FS_RemoveElement
    <3>3. leases'[q][k] = Count(q, k) - 1
      BY <1>1, <1>3, <2>3
    <3> QED
      BY <2>1, <2>2, <3>2, <3>3 DEF Count
  <2>4. CASE ~ (q = u[2] /\ k = u[3])
    <3>1. Operations(q, k)' = Operations(q, k)
      BY <1>2, <2>4 DEF Operations
    <3>2. leases'[q][k] = Count(q, k)
      BY <1>1, <1>3, <2>4
    <3> QED
      BY <2>1, <3>1, <3>2 DEF Count
  <2> QED
    BY <2>3, <2>4
<1>9. ASSUME NEW q \in Resources, Ended(q)'
      PROVE  Ended(q) /\ \A k \in Keys : leases'[q][k] <= leases[q][k]
  <2>1. \A k \in Keys : leases[q][k] \in Int
    BY <1>1 DEF TypeOK
  <2> QED
    BY <1>2, <1>3, <1>9, <2>1 DEF Ended
<1> QED
  BY <1>2, <1>4, <1>5, <1>6, <1>7, <1>8, <1>9, LeasingStep

LEMMA CloseKeeps ==
    ASSUME IInv, NEW a \in Actors, NEW r \in Resources, Close(a, r)
    PROVE  IInv'
<1> DEFINE mine == res[r].initial /\ res[r].creator = a
           x == [res[r] EXCEPT !.initial = @ /\ ~mine]
           y == [actor[a] EXCEPT !.status = "closing", !.awaits = {r}]
<1>1. /\ TypeOK /\ Running(a) /\ ResourceInv(r) /\ res[r] \in ResourceRecord
      /\ res[r].state # "unborn" /\ Key(a) \in Keys /\ actor[a] \in ActorRecord
      /\ \A q \in Resources, k \in Keys : leases[q][k] = Count(q, k)
  <2>1. TypeOK /\ ResourceInv(r) /\ LeasesExact
    BY DEF IInv
  <2>2. Running(a) /\ res[r].state # "unborn"
    BY DEF Close, ValidScope
  <2>3. res[r] \in ResourceRecord /\ actor[a] \in ActorRecord
    BY <2>1 DEF TypeOK
  <2> QED
    BY <2>1, <2>2, <2>3, KeyTyped, ExactIsCount
<1>2. /\ Closing(r, x) /\ actor' = [actor EXCEPT ![a] = y]
      /\ leases' = (IF mine THEN Unlease(r, Key(a)) ELSE leases)
      /\ UNCHANGED <<scope, parent, runner, drain, order, uses, group, reported,
                     failed>>
  BY DEF Close
<1>3. /\ x \in ResourceRecord /\ x.state = res[r].state /\ x.auto = res[r].auto
      /\ x.timer = res[r].timer /\ x.creator = res[r].creator
      /\ x.cleanup = res[r].cleanup /\ (x.initial <=> res[r].initial /\ ~ mine)
  BY <1>1 DEF ResourceRecord
<1>4. /\ y \in ActorRecord /\ y.status = "closing" /\ y.awaits = {r}
      /\ y.key = actor[a].key /\ y.captures = actor[a].captures
      /\ y.kind = actor[a].kind /\ y.group = actor[a].group
      /\ y.outcome = actor[a].outcome
  BY <1>1 DEF ActorRecord, Statuses
<1>5. mine => a \in Tasks
  BY <1>1 DEF ResourceInv
<1>6. mine <=> res[r].initial /\ res[r].creator = a
  OBVIOUS
<1> HIDE DEF mine, x, y
<1>7. \A t \in Tasks : Steady(t)
  BY <1>1, <1>2, <1>4, OneMoves DEF Live, Running
<1>8. /\ leases' \in [Resources -> [Keys -> Int]]
      /\ \A q \in Resources, k \in Keys :
           leases'[q][k] = IF q = r /\ k = Key(a) /\ mine
                           THEN leases[q][k] - 1 ELSE leases[q][k]
  <2>1. CASE mine
    BY <1>1, <1>2, <2>1, UnleaseAt
  <2>2. CASE ~ mine
    BY <1>1, <1>2, <2>2 DEF TypeOK
  <2> QED
    BY <2>1, <2>2
<1>9. /\ res' \in [Resources -> ResourceRecord] /\ closer' \in [Resources -> Closers]
      /\ \A q \in Resources \ {r} : res'[q] = res[q] /\ closer'[q] = closer[q]
      /\ (res'[r].initial <=> res[r].initial /\ ~ mine)
      /\ res'[r].creator = res[r].creator
      /\ closer'[r] \in {closer[r], "waiting"} /\ closer'[r] # "none"
  BY <1>1, <1>2, <1>3, ClosingChanges
<1>10. TypeOK'
  <2>1. actor' \in [Actors -> ActorRecord]
    BY <1>1, <1>2, <1>4 DEF TypeOK
  <2> QED
    BY <1>1, <1>2, <1>8, <1>9, <2>1 DEF TypeOK
<1>11. \A q \in Resources : ResourceInv(q)'
  <2>1. OrderKept
    BY <1>2 DEF OrderKept
  <2>2. x.initial => /\ x.creator \in Tasks
                     /\ actor'[x.creator].status \notin {"unborn", "done"}
    <3>1. \A t \in Tasks : Live(t) => actor'[t].status \notin {"unborn", "done"}
      BY <1>7, SteadyLives DEF Live
    <3> QED
      BY <1>1, <1>3, <3>1 DEF ResourceInv
  <2>3. ResourceInv(r)'
    BY <1>1, <1>2, <1>3, <2>1, <2>2, ClosingKeeps
  <2> QED
    BY <1>7, <1>9, <2>1, <2>3, OneResource
<1>12. ControlInv'
  <2>1. \A b \in Actors : actor[b].status \in {"selecting", "draining"} =>
          actor'[b] = actor[b]
    BY <1>1, <1>2 DEF TypeOK, Running
  <2>2. \A g \in Tasks : Awaited(g)' => Awaited(g)
    BY <1>2 DEF Awaited
  <2> QED
    BY <1>1, <1>2, <2>1, <2>2, ControlKeeps DEF IInv
<1>13. AwaitsInv'
  <2>1. \A q \in Resources : closer[q] # "none" => closer'[q] # "none"
    BY <1>9
  <2>2. \A b \in Actors : actor'[b].awaits = IF b = a THEN {r} ELSE actor[b].awaits
    BY <1>1, <1>2, <1>4 DEF TypeOK
  <2>3. \A b \in Actors : actor[b].awaits \subseteq Resources
    BY <1>1 DEF TypeOK, ActorRecord
  <2> QED
    BY <1>9, <2>1, <2>2, <2>3 DEF IInv, AwaitsInv
<1>14. ASSUME NEW q \in Resources, NEW k \in Keys
       PROVE  leases'[q][k] = Count(q, k)'
  <2>1. Holders(q, k)' = Holders(q, k) /\ Operations(q, k)' = Operations(q, k)
    BY <1>2, <1>7, HoldersKeep DEF Operations
  <2>2. CASE q = r /\ mine
    <3>1. Key(res[r].creator) = Key(a)
      BY <1>6, <2>2
    <3>2. Owned(q, k) = IF Key(a) = k THEN 1 ELSE 0
      BY <1>6, <2>2, <3>1 DEF Owned
    <3>3. Owned(q, k)' = 0
      BY <1>9, <2>2 DEF Owned
    <3>4. leases'[q][k] = Count(q, k) - Owned(q, k)
      <4>1. Count(q, k) \in Nat
        BY <1>1, CountTyped
      <4> QED
        BY <1>1, <1>8, <2>2, <3>2, <4>1
    <3>5. Cardinality(Holders(q, k)) \in Nat /\ Cardinality(Operations(q, k)) \in Nat
      BY <1>1, CountTyped
    <3> QED
      BY <2>1, <3>2, <3>3, <3>4, <3>5 DEF Count
  <2>3. CASE ~ (q = r /\ mine)
    <3>1. res'[q].initial = res[q].initial /\ res'[q].creator = res[q].creator
      <4>1. CASE q = r
        <5>1. res'[r].initial <=> res[r].initial
          BY <1>9, <2>3, <4>1
        <5>2. res'[r].initial \in BOOLEAN /\ res[r].initial \in BOOLEAN
          BY <1>1, <1>9 DEF ResourceRecord
        <5> QED
          BY <1>9, <4>1, <5>1, <5>2
      <4>2. CASE q # r
        BY <1>9, <4>2
      <4> QED
        BY <4>1, <4>2
    <3>2. Owned(q, k)' = Owned(q, k)
      BY <1>7, <3>1, OwnedKeeps DEF IInv
    <3>3. leases'[q][k] = Count(q, k)
      BY <1>1, <1>8, <2>3
    <3> QED
      BY <2>1, <3>2, <3>3 DEF Count
  <2> QED
    BY <2>2, <2>3
<1>15. ASSUME NEW q \in Resources, Ended(q)'
       PROVE  Ended(q) /\ \A k \in Keys : leases'[q][k] <= leases[q][k]
  <2>1. \A k \in Keys : leases[q][k] \in Int
    BY <1>1 DEF TypeOK
  <2>2. Ended(q)
    BY <1>9, <1>15 DEF Ended
  <2> QED
    BY <1>8, <2>1, <2>2
<1> QED
  BY <1>2, <1>7, <1>10, <1>11, <1>12, <1>13, <1>14, <1>15, LeasingStep

LEMMA ExitScopeKeeps ==
    ASSUME IInv, NEW a \in Actors, ExitScope(a)
    PROVE  IInv'
<1> DEFINE c == actor[a].scope
           out == ExitReleases(c)
           now == [r \in Resources |-> [res[r] EXCEPT !.initial = @ /\ r \notin out]]
           states == [scope EXCEPT ![c] = "closing"]
           x == [actor[a] EXCEPT !.status = "draining"]
<1>1. /\ TypeOK /\ ControlInv /\ Running(a) /\ c \in Scopes /\ runner[c] = a
      /\ \A r \in Resources : ResourceInv(r) /\ res[r] \in ResourceRecord
      /\ \A r \in Resources, k \in Keys : leases[r][k] = Count(r, k)
  <2>1. TypeOK /\ ControlInv /\ LeasesExact /\ \A r \in Resources : ResourceInv(r)
    BY DEF IInv
  <2>2. Running(a) /\ c \in Scopes /\ runner[c] = a
    BY DEF ExitScope, Scopes
  <2>3. \A r \in Resources : res[r] \in ResourceRecord
    BY <2>1 DEF TypeOK
  <2> QED
    BY <2>1, <2>2, <2>3, ExactIsCount
<1>2. /\ actor' = [actor EXCEPT ![a] = x] /\ Iteration(c, now, states)
      /\ leases' = [r \in Resources |->
                      IF r \in out
                      THEN [leases[r] EXCEPT ![actor[res[r].creator].key] = @ - 1]
                      ELSE leases[r]]
      /\ UNCHANGED <<parent, runner, order, closer, uses, group, reported, failed>>
  BY DEF ExitScope
<1>3. /\ x \in ActorRecord /\ x.status = "draining" /\ x.awaits = actor[a].awaits
      /\ x.key = actor[a].key /\ x.captures = actor[a].captures
      /\ x.kind = actor[a].kind /\ x.group = actor[a].group
      /\ x.outcome = actor[a].outcome /\ x.scope = c
  <2>1. actor[a] \in ActorRecord
    BY <1>1 DEF TypeOK
  <2> QED
    BY <2>1 DEF ActorRecord, Statuses
<1>4. /\ now \in [Resources -> ResourceRecord]
      /\ \A r \in Resources :
           /\ now[r].state = res[r].state /\ now[r].creator = res[r].creator
           /\ now[r].auto = res[r].auto /\ now[r].cleanup = res[r].cleanup
           /\ now[r].timer = res[r].timer
           /\ (now[r].initial <=> res[r].initial /\ r \notin out)
  <2>1. \A r \in Resources :
          [res[r] EXCEPT !.initial = @ /\ r \notin out] \in ResourceRecord
    BY <1>1 DEF ResourceRecord
  <2> QED
    BY <1>1, <2>1 DEF ResourceRecord
<1>5. /\ states \in [Scopes -> {"unborn", "open", "closing", "closed"}]
      /\ states[c] = "closing" /\ \A q \in Scopes \ {c} : states[q] = scope[q]
  BY <1>1 DEF TypeOK
<1>6. \A r \in out : /\ r \in Resources /\ res[r].initial
                     /\ res[r].creator \in Tasks /\ Live(res[r].creator)
  BY <1>1 DEF ExitReleases, ResourceInv
<1> HIDE DEF c, x, now, states, out
<1>7. \A t \in Tasks : Steady(t)
  BY <1>1, <1>2, <1>3, OneMoves DEF Live, Running
<1>8. /\ res' \in [Resources -> ResourceRecord]
      /\ drain' \in [Scopes -> DrainRecord]
      /\ scope' \in [Scopes -> {"unborn", "open", "closing", "closed"}]
      /\ \A r \in Resources :
           /\ res'[r].state = res[r].state /\ res'[r].creator = res[r].creator
           /\ res'[r].auto = res[r].auto /\ res'[r].cleanup = res[r].cleanup
           /\ (res'[r].initial <=> res[r].initial /\ r \notin out)
           /\ (res'[r].timer <=> res[r].timer \/ r \in Armable(c))
      /\ \A q \in Scopes \ {c} : drain'[q] = drain[q] /\ scope'[q] = scope[q]
      /\ scope'[c] = "closing"
  <2>1. Iterated(c, now, states)
    BY <1>1, <1>2, <1>4, <1>5, IterationChanges
  <2> QED
    BY <1>4, <1>5, <2>1 DEF Iterated
<1>9. \A r \in Resources, k \in Keys :
        /\ leases'[r][k] = IF r \in out /\ actor[res[r].creator].key = k
                           THEN leases[r][k] - 1 ELSE leases[r][k]
        /\ leases[r][k] \in Int
  BY <1>1, <1>2 DEF TypeOK
<1>10. leases' \in [Resources -> [Keys -> Int]]
  <2>1. ASSUME NEW r \in Resources
        PROVE  (IF r \in out
                THEN [leases[r] EXCEPT ![actor[res[r].creator].key] = @ - 1]
                ELSE leases[r]) \in [Keys -> Int]
    <3>1. leases[r] \in [Keys -> Int]
      BY <1>1 DEF TypeOK
    <3>2. \A k \in Keys : [leases[r] EXCEPT ![k] = @ - 1] \in [Keys -> Int]
      BY <3>1
    <3>3. r \in out => actor[res[r].creator].key \in Keys
      BY <1>1, <1>6, KeyTyped DEF Actors
    <3> QED
      BY <3>1, <3>2, <3>3
  <2> QED
    BY <1>2, <2>1
<1>11. TypeOK'
  <2>1. actor' \in [Actors -> ActorRecord]
    BY <1>1, <1>2, <1>3 DEF TypeOK
  <2> QED
    BY <1>1, <1>2, <1>8, <1>10, <2>1 DEF TypeOK
<1>12. ASSUME NEW r \in Resources PROVE ResourceInv(r)'
  <2>1. ResourceInv(r) /\ closer'[r] = closer[r] /\ order' = order
    BY <1>1, <1>2
  <2>2. res'[r].initial => /\ res'[r].creator \in Tasks
                           /\ actor'[res'[r].creator].status
                                \notin {"unborn", "done"}
    <3>1. \A t \in Tasks : Live(t) => actor'[t].status \notin {"unborn", "done"}
      BY <1>7, SteadyLives DEF Live
    <3> QED
      BY <1>8, <2>1, <3>1 DEF ResourceInv
  <2>3. r \in Armable(c) => res[r].state \in {"open", "closing"} /\ ~ res[r].cleanup
    BY DEF Armable
  <2> QED
    BY <1>8, <2>1, <2>2, <2>3 DEF ResourceInv, Live
<1>13. ControlInv'
  <2>1. \A b \in Actors : actor[b].status \in {"selecting", "draining"} =>
          actor'[b] = actor[b]
    BY <1>1, <1>2 DEF TypeOK, Running
  <2>2. \A g \in Tasks : Awaited(g)' => Awaited(g) /\ group'[g] = group[g]
    BY <1>2 DEF Awaited
  <2>3. \A s \in Scopes : scope[s] # "unborn" => scope'[s] # "unborn"
    BY <1>8
  <2>4. ASSUME NEW s \in Scopes, drain'[s].phase # "none"
        PROVE  \/ /\ drain[s].phase # "none" /\ runner'[s] = runner[s]
                  /\ actor'[runner[s]] = actor[runner[s]]
               \/ /\ actor'[runner'[s]].status = "draining"
                  /\ actor'[runner'[s]].scope = s
                  /\ scope'[s] # "unborn"
    <3>1. CASE s = c
      <4>1. actor'[a] = x /\ runner'[c] = a
        BY <1>1, <1>2 DEF TypeOK
      <4> QED
        BY <1>3, <1>8, <3>1, <4>1
    <3>2. CASE s # c
      BY <1>1, <1>2, <1>8, <2>1, <2>4, <3>2 DEF ControlInv, TypeOK
    <3> QED
      BY <3>1, <3>2
  <2> QED
    BY <1>1, <1>2, <2>1, <2>2, <2>3, <2>4, ControlMoves
<1>14. AwaitsInv'
  <2>1. \A b \in Actors : actor'[b].awaits \subseteq actor[b].awaits
    BY <1>1, <1>2, <1>3 DEF TypeOK
  <2> QED
    BY <1>1, <1>2, <2>1, AwaitsKeep DEF IInv
<1>15. ASSUME NEW q \in Resources, NEW k \in Keys
       PROVE  leases'[q][k] = Count(q, k)'
  <2>1. Holders(q, k)' = Holders(q, k) /\ Operations(q, k)' = Operations(q, k)
    BY <1>2, <1>7, HoldersKeep DEF Operations
  <2>2. CASE q \in out
    <3>1. Key(res[q].creator) = actor[res[q].creator].key
      BY <1>6, <2>2 DEF Key, IsTask
    <3>2. Owned(q, k) = IF actor[res[q].creator].key = k THEN 1 ELSE 0
      BY <1>6, <2>2, <3>1 DEF Owned
    <3>3. Owned(q, k)' = 0
      BY <1>8, <2>2 DEF Owned
    <3>4. leases'[q][k] = Count(q, k) - Owned(q, k)
      <4>1. Count(q, k) \in Nat
        BY <1>1, CountTyped
      <4> QED
        BY <1>1, <1>9, <2>2, <3>2, <4>1
    <3>5. Cardinality(Holders(q, k)) \in Nat /\ Cardinality(Operations(q, k)) \in Nat
      BY <1>1, CountTyped
    <3> QED
      BY <2>1, <3>2, <3>3, <3>4, <3>5 DEF Count
  <2>3. CASE q \notin out
    <3>1. res'[q].initial = res[q].initial /\ res'[q].creator = res[q].creator
      <4>1. res'[q].initial <=> res[q].initial
        BY <1>8, <2>3
      <4>2. res'[q].initial \in BOOLEAN /\ res[q].initial \in BOOLEAN
        BY <1>1, <1>8 DEF ResourceRecord
      <4> QED
        BY <1>8, <4>1, <4>2
    <3>2. Owned(q, k)' = Owned(q, k)
      BY <1>1, <1>7, <3>1, OwnedKeeps
    <3>3. leases'[q][k] = Count(q, k)
      BY <1>1, <1>9, <2>3
    <3> QED
      BY <2>1, <3>2, <3>3 DEF Count
  <2> QED
    BY <2>2, <2>3
<1>16. ASSUME NEW q \in Resources, Ended(q)'
       PROVE  Ended(q) /\ \A k \in Keys : leases'[q][k] <= leases[q][k]
  BY <1>2, <1>9, <1>16 DEF Ended
<1> QED
  BY <1>2, <1>7, <1>11, <1>12, <1>13, <1>14, <1>15, <1>16, LeasingStep

-----------------------------------------------------------------------------
(* Callbacks and participants.                                             *)

\* A task that is called leases nothing yet.
LEMMA CalledKeeps ==
    ASSUME IInv, NEW t \in Tasks, NEW s \in Scopes, NEW k \in Keys,
           actor[t].status = "unborn", Called(t, s, k),
           UNCHANGED <<scope, parent, runner, drain, res, order, leases, closer,
                       uses, group, reported, failed>>
    PROVE  IInv'
<1> DEFINE x == [Inactive EXCEPT !.status = "running", !.scope = s, !.home = s,
                                 !.key = k]
<1>1. /\ TypeOK /\ t \in Actors
      /\ \A r \in Resources : ResourceInv(r)
      /\ \A r \in Resources, j \in Keys : leases[r][j] = Count(r, j)
  BY ExactIsCount DEF IInv, Actors
<1>2. actor' = [actor EXCEPT ![t] = x]
  BY DEF Called
<1>3. /\ x \in ActorRecord /\ x.status = "running" /\ x.captures = {}
      /\ x.awaits = {} /\ x.kind = "callback"
  BY RecordsTyped DEF ActorRecord, Inactive, Statuses
<1> HIDE DEF x
<1>4. actor'[t] = x /\ \A b \in Actors \ {t} : actor'[b] = actor[b]
  BY <1>1, <1>2 DEF TypeOK
<1>5. TypeOK'
  <2>1. actor' \in [Actors -> ActorRecord]
    BY <1>1, <1>2, <1>3 DEF TypeOK
  <2> QED
    BY <1>1, <2>1 DEF TypeOK
<1>6. \A b \in Tasks : Live(b) => b # t /\ b \in Actors
  BY DEF Live, Actors
<1>7. ASSUME NEW r \in Resources PROVE ResourceInv(r)'
  <2>1. res[r].initial => /\ res[r].creator \in Tasks
                          /\ actor'[res[r].creator].status \notin {"unborn", "done"}
    BY <1>1, <1>4, <1>6 DEF ResourceInv, Live
  <2> QED
    BY <1>1, <2>1 DEF ResourceInv, Live
<1>8. ControlInv' /\ AwaitsInv'
  <2>1. \A b \in Actors : actor[b].status \in {"selecting", "draining"} =>
          actor'[b] = actor[b]
    BY <1>4
  <2>2. \A g \in Tasks : Awaited(g)' => Awaited(g)
    BY DEF Awaited
  <2>3. ControlInv'
    BY <1>1, <2>1, <2>2, ControlKeeps DEF IInv
  <2>4. \A b \in Actors : actor'[b].awaits \subseteq actor[b].awaits
    BY <1>3, <1>4
  <2> QED
    BY <1>1, <2>3, <2>4, AwaitsKeep DEF IInv
<1>9. GroupInv' /\ LateFailuresReported'
  <2>1. \A g \in Tasks : group[g].members \subseteq Tasks \ {t}
    BY <1>1 DEF TypeOK, GroupRecord, IInv, GroupInv
  <2>2. reported \subseteq Tasks \ {t}
    BY <1>1 DEF TypeOK, IInv, GroupInv
  <2>3. \A b \in Tasks \ {t} : actor'[b] = actor[b]
    BY <1>4 DEF Actors
  <2>4. GroupInv'
    BY <1>3, <1>4, <2>1, <2>2, <2>3 DEF IInv, GroupInv, Live
  <2>5. LateFailuresReported'
    BY <2>1, <2>3 DEF IInv, LateFailuresReported
  <2> QED
    BY <2>4, <2>5
<1>10. ASSUME NEW r \in Resources, NEW j \in Keys
       PROVE  leases'[r][j] = Count(r, j)'
  <2>1. Holders(r, j)' = Holders(r, j)
    <3>1. \A b \in Tasks : b # t => actor'[b] = actor[b]
      BY <1>4 DEF Actors
    <3> QED
      BY <1>3, <1>4, <3>1 DEF Holders, Live
  <2>2. Owned(r, j)' = Owned(r, j)
    <3>1. res[r].initial => Key(res[r].creator)' = Key(res[r].creator)
      BY <1>1, <1>4, <1>6 DEF Key, ResourceInv
    <3> QED
      BY <3>1 DEF Owned
  <2>3. Operations(r, j)' = Operations(r, j)
    BY DEF Operations
  <2> QED
    BY <1>1, <2>1, <2>2, <2>3 DEF Count
<1>11. LeasesExact' /\ NotClosedInUse'
  BY <1>10, ExactNext DEF IInv, NotClosedInUse, Unleased
<1> QED
  BY <1>5, <1>7, <1>8, <1>9, <1>11 DEF IInv

LEMMA DispatchKeeps ==
    ASSUME IInv, NEW t \in Tasks, NEW s \in Scopes, Dispatch(t, s)
    PROVE  IInv'
BY CalledKeeps DEF Dispatch, Keys

LEMMA ReenterKeeps ==
    ASSUME IInv, NEW t \in Tasks, NEW a \in Tasks, NEW s \in Scopes,
           Reenter(t, a, s)
    PROVE  IInv'
<1>1. actor[a].scope \in Scopes /\ actor[a].key \in Keys
  BY KeyTyped DEF IInv, Actors
<1> QED
  BY <1>1, CalledKeeps DEF Reenter

\* The end of a task: what it held is released.
Leaves(t, x) ==
    /\ Running(t)
    /\ leases' = Released(t)
    /\ res' = Surrendered(t)
    /\ actor' = [actor EXCEPT ![t] = x]
    /\ UNCHANGED <<scope, parent, runner, drain, order, closer, uses, failed>>

LEMMA LeavesKeeps ==
    ASSUME IInv, NEW t \in Tasks,
           NEW x \in ActorRecord, x.status = "done", x.awaits = {}, Leaves(t, x),
           group' \in [Tasks -> GroupRecord], reported' \subseteq Tasks,
           \A g \in Tasks : Awaited(g)' =>
               Awaited(g) /\ group'[g].launcher = group[g].launcher,
           GroupInv', LateFailuresReported'
    PROVE  IInv'
<1> DEFINE key == actor[t].key
<1>1. /\ TypeOK /\ t \in Actors /\ actor[t].status = "running" /\ Live(t)
      /\ \A r \in Resources : ResourceInv(r) /\ res[r] \in ResourceRecord
      /\ \A r \in Resources, j \in Keys : leases[r][j] = Count(r, j)
  <2>1. TypeOK /\ LeasesExact /\ \A r \in Resources : ResourceInv(r)
    BY DEF IInv
  <2>2. t \in Actors /\ actor[t].status = "running" /\ Live(t)
    BY DEF Leaves, Running, Live, Actors
  <2>3. \A r \in Resources : res[r] \in ResourceRecord
    BY <2>1 DEF TypeOK
  <2> QED
    BY <2>1, <2>2, <2>3, ExactIsCount
<1>2. /\ actor' = [actor EXCEPT ![t] = x] /\ leases' = Released(t)
      /\ res' = Surrendered(t)
      /\ UNCHANGED <<scope, parent, runner, drain, order, closer, uses, failed>>
  BY DEF Leaves
<1>3. x \in ActorRecord /\ x.status = "done" /\ x.awaits = {}
  OBVIOUS
<1>4. key \in Keys
  BY <1>1, KeyTyped
<1> HIDE DEF key
<1>5. actor'[t] = x /\ \A b \in Actors \ {t} : actor'[b] = actor[b]
  BY <1>1, <1>2 DEF TypeOK
<1>6. /\ res' \in [Resources -> ResourceRecord]
      /\ \A r \in Resources :
           /\ res'[r].state = res[r].state /\ res'[r].creator = res[r].creator
           /\ res'[r].auto = res[r].auto /\ res'[r].cleanup = res[r].cleanup
           /\ res'[r].timer = res[r].timer
           /\ (res'[r].initial <=> res[r].initial /\ r \notin Initials(t))
  <2>1. \A r \in Resources : [res[r] EXCEPT !.initial = FALSE] \in ResourceRecord
    BY <1>1, ZenonT(40) DEF ResourceRecord
  <2>2. res' = [r \in Resources |-> IF r \in Initials(t)
                                    THEN [res[r] EXCEPT !.initial = FALSE]
                                    ELSE res[r]]
    BY <1>2 DEF Surrendered
  <2>3. res' \in [Resources -> ResourceRecord]
    BY <1>1, <2>1, <2>2
  <2>4. ASSUME NEW r \in Resources
        PROVE  /\ res'[r].state = res[r].state /\ res'[r].creator = res[r].creator
               /\ res'[r].auto = res[r].auto /\ res'[r].cleanup = res[r].cleanup
               /\ res'[r].timer = res[r].timer
               /\ (res'[r].initial <=> res[r].initial /\ r \notin Initials(t))
    <3>1. CASE r \in Initials(t)
      <4>1. res'[r] = [res[r] EXCEPT !.initial = FALSE]
        BY <2>2, <3>1
      <4> QED
        BY <1>1, <3>1, <4>1 DEF ResourceRecord
    <3>2. CASE r \notin Initials(t)
      BY <2>2, <3>2
    <3> QED
      BY <3>1, <3>2
  <2> QED
    BY <2>3, <2>4
<1>7. /\ leases' \in [Resources -> [Keys -> Int]]
      /\ \A r \in Resources, j \in Keys :
           leases'[r][j] =
             IF j = key THEN leases[r][j]
                               - (IF r \in actor[t].captures THEN 1 ELSE 0)
                               - (IF r \in Initials(t) THEN 1 ELSE 0)
             ELSE leases[r][j]
  BY <1>1, <1>2, <1>4 DEF TypeOK, Released, key
<1>8. TypeOK'
  <2>1. actor' \in [Actors -> ActorRecord]
    BY <1>1, <1>2, <1>3 DEF TypeOK
  <2> QED
    BY <1>1, <1>2, <1>6, <1>7, <2>1 DEF TypeOK
<1>9. ASSUME NEW r \in Resources
      PROVE  res'[r].initial => /\ res[r].creator \in Tasks \ {t}
                                /\ actor'[res[r].creator] = actor[res[r].creator]
                                /\ Live(res[r].creator)
  BY <1>1, <1>5, <1>6 DEF ResourceInv, Initials, Actors
<1>10. ASSUME NEW r \in Resources PROVE ResourceInv(r)'
  BY <1>1, <1>2, <1>6, <1>9 DEF ResourceInv, Live
<1>11. ControlInv' /\ AwaitsInv'
  <2>1. \A b \in Actors : actor[b].status \in {"selecting", "draining"} =>
          actor'[b] = actor[b]
    BY <1>1, <1>5
  <2>2. ControlInv'
    BY <1>1, <1>2, <2>1, ControlKeeps DEF IInv
  <2>3. \A b \in Actors : actor'[b].awaits \subseteq actor[b].awaits
    BY <1>3, <1>5
  <2> QED
    BY <1>1, <1>2, <2>2, <2>3, AwaitsKeep DEF IInv
<1>12. ASSUME NEW r \in Resources, NEW j \in Keys
       PROVE  leases'[r][j] = Count(r, j)'
  <2> DEFINE held == j = key /\ r \in actor[t].captures
             own == j = key /\ r \in Initials(t)
  <2>1. /\ IsFiniteSet(Holders(r, j)) /\ Cardinality(Holders(r, j)) \in Nat
        /\ Cardinality(Operations(r, j)) \in Nat /\ Owned(r, j) \in {0, 1}
    BY <1>1, CountTyped
  <2>2. Cardinality(Holders(r, j)') =
          Cardinality(Holders(r, j)) - (IF held THEN 1 ELSE 0)
    <3>1. Holders(r, j)' = Holders(r, j) \ {t}
      <4>1. \A b \in Tasks : b # t => actor'[b] = actor[b]
        BY <1>5 DEF Actors
      <4> QED
        BY <1>3, <1>5, <4>1 DEF Holders, Live
    <3>2. t \in Holders(r, j) <=> held
      BY <1>1 DEF Holders, key
    <3>3. CASE held
      <4>1. t \in Holders(r, j)
        BY <3>2, <3>3
      <4>2. Cardinality(Holders(r, j)') = Cardinality(Holders(r, j)) - 1
        BY <2>1, <3>1, <4>1, FS_RemoveElement, ZenonT(40)
      <4> QED
        BY <3>3, <4>2
    <3>4. CASE ~ held
      <4>1. Holders(r, j)' = Holders(r, j)
        BY <3>1, <3>2, <3>4
      <4> QED
        BY <2>1, <3>4, <4>1
    <3> QED
      BY <3>3, <3>4
  <2>3. Owned(r, j)' = Owned(r, j) - (IF own THEN 1 ELSE 0)
    <3>1. CASE r \in Initials(t)
      <4>1. Key(res[r].creator) = key /\ res[r].initial
        BY <3>1 DEF Initials, Key, IsTask, key
      <4>2. Owned(r, j)' = 0
        BY <1>6, <3>1 DEF Owned
      <4> QED
        BY <3>1, <4>1, <4>2 DEF Owned
    <3>2. CASE r \notin Initials(t)
      <4>1. res'[r].initial <=> res[r].initial
        BY <1>6, <3>2
      <4>2. res[r].initial => Key(res[r].creator)' = Key(res[r].creator)
        BY <1>6, <1>9, <4>1 DEF Key
      <4>3. Owned(r, j)' = Owned(r, j)
        BY <4>1, <4>2 DEF Owned
      <4> QED
        BY <2>1, <3>2, <4>3
    <3> QED
      BY <3>1, <3>2
  <2>4. Operations(r, j)' = Operations(r, j)
    BY <1>2 DEF Operations
  <2>5. leases'[r][j] = Count(r, j) - (IF held THEN 1 ELSE 0) - (IF own THEN 1 ELSE 0)
    <3>1. Count(r, j) \in Nat
      BY <1>1, CountTyped
    <3> QED
      BY <1>1, <1>7, <3>1
  <2> QED
    BY <2>1, <2>2, <2>3, <2>4, <2>5 DEF Count
<1>13. LeasesExact'
  BY <1>12, ExactNext
<1>14. NotClosedInUse'
  <2>1. ASSUME NEW r \in Resources, Ended(r)', NEW j \in Keys
        PROVE  leases'[r][j] <= 0
    <3>1. leases[r][j] = 0
      BY <1>2, <2>1 DEF IInv, NotClosedInUse, Ended, Unleased
    <3> QED
      BY <1>7, <3>1
  <2> QED
    BY <1>8, <1>13, <2>1, NotClosedKeeps
<1> QED
  BY <1>8, <1>10, <1>11, <1>13, <1>14 DEF IInv

LEMMA CallbackEndsKeeps ==
    ASSUME IInv, NEW t \in Tasks, CallbackEnds(t)
    PROVE  IInv'
<1> DEFINE x == [Inactive EXCEPT !.status = "done"]
<1>1. /\ TypeOK /\ t \in Actors /\ Running(t)
      /\ group' = group /\ reported' = reported
      /\ actor' = [actor EXCEPT ![t] = x] /\ Leaves(t, x)
  BY DEF IInv, CallbackEnds, Leaves, Actors
<1>2. /\ x \in ActorRecord /\ x.status = "done" /\ x.awaits = {}
      /\ x.outcome = "ok"
  BY RecordsTyped DEF ActorRecord, Inactive, Statuses
<1> HIDE DEF x
<1>3. actor'[t] = x /\ \A b \in Tasks \ {t} : actor'[b] = actor[b]
  BY <1>1 DEF TypeOK, Actors
<1>4. \A g \in Tasks : group[g].members \subseteq Tasks
  BY <1>1 DEF TypeOK, GroupRecord
<1>5. GroupInv'
  <2>1. reported \subseteq Tasks
    BY <1>1 DEF TypeOK
  <2> QED
    BY <1>1, <1>2, <1>3, <1>4, <2>1 DEF IInv, GroupInv, Live
<1>6. LateFailuresReported'
  <2>1. actor'[t].outcome = "ok"
    BY <1>2, <1>3
  <2>2. t \notin reported
    BY <1>1 DEF IInv, GroupInv, Running
  <2>3. ASSUME NEW g \in Tasks, group[g].sealed, NEW b \in group[g].members
        PROVE  b \in reported <=> /\ actor'[b].status = "done"
                                  /\ actor'[b].outcome = "standard"
                                  /\ b \notin group[g].selected
    <3>1. CASE b = t
      BY <2>1, <2>2, <3>1
    <3>2. CASE b # t
      BY <1>3, <1>4, <2>3, <3>2 DEF IInv, LateFailuresReported
    <3> QED
      BY <3>1, <3>2
  <2> QED
    BY <1>1, <2>3 DEF LateFailuresReported
<1>7. \A g \in Tasks : Awaited(g)' => Awaited(g)
  BY <1>1 DEF Awaited
<1>8. group' \in [Tasks -> GroupRecord] /\ reported' \subseteq Tasks
  BY <1>1 DEF TypeOK
<1> QED
  BY <1>1, <1>2, <1>5, <1>6, <1>7, <1>8, LeavesKeeps

LEMMA SettleKeeps ==
    ASSUME IInv, NEW t \in Tasks, NEW outcome \in Outcomes, Settle(t, outcome)
    PROVE  IInv'
<1> DEFINE g == actor[t].group
           live == \/ ~ group[g].sealed
                   \/ \E u \in group[g].members \ {t} : Live(u)
           settled == [group[g] EXCEPT !.settled = Append(@, t)]
           x == Kept(settled, live)
           y == [Inactive EXCEPT !.status = "done", !.outcome = outcome]
<1>1. /\ TypeOK /\ t \in Actors /\ Running(t) /\ GroupInv /\ LateFailuresReported
      /\ Leaves(t, y) /\ actor' = [actor EXCEPT ![t] = y]
  BY DEF IInv, Settle, Leaves, Actors
<1>2. g \in Tasks /\ t \in group[g].members /\ group[g] \in GroupRecord
  <2>1. Live(t) /\ actor[t].kind = "participant"
    BY DEF Settle, Running, Live
  <2> QED
    BY <1>1, <2>1 DEF GroupInv, TypeOK
<1>3. /\ y \in ActorRecord /\ y.status = "done" /\ y.awaits = {}
      /\ y.outcome = outcome
  BY RecordsTyped DEF ActorRecord, Inactive, Statuses
<1> HIDE DEF y
<1>4. /\ actor'[t].status = "done" /\ actor'[t].outcome = outcome
      /\ \A b \in Tasks \ {t} : actor'[b] = actor[b]
  BY <1>1, <1>3 DEF TypeOK, Actors
<1>5. /\ group' = [group EXCEPT ![g] = x]
      /\ reported' = (IF /\ group[g].sealed /\ outcome = "standard"
                         /\ t \notin group[g].selected
                      THEN reported \cup {t} ELSE reported)
  BY DEF Settle
<1>6. /\ x \in GroupRecord /\ x.members = group[g].members
      /\ x.sealed = group[g].sealed /\ x.selected = group[g].selected
      /\ (x.live => /\ group[g].live /\ x.mode = group[g].mode
                    /\ x.launcher = group[g].launcher)
  <2>1. /\ settled \in GroupRecord /\ settled.members = group[g].members
        /\ settled.sealed = group[g].sealed /\ settled.selected = group[g].selected
        /\ settled.live = group[g].live /\ settled.mode = group[g].mode
        /\ settled.launcher = group[g].launcher
    <3>1. Append(group[g].settled, t) \in Seq(Tasks)
      BY <1>2 DEF GroupRecord
    <3> QED
      BY <1>2, <3>1 DEF GroupRecord
  <2> HIDE DEF settled
  <2>2. CASE live
    BY <2>1, <2>2 DEF Kept
  <2>3. CASE ~ live
    <3> DEFINE z == [NoGroup EXCEPT !.members = settled.members, !.sealed = TRUE,
                                    !.selected = settled.selected]
    <3>1. /\ z \in GroupRecord /\ z.members = settled.members /\ z.sealed = TRUE
          /\ z.selected = settled.selected /\ ~ z.live
      BY <2>1, RecordsTyped DEF GroupRecord, NoGroup
    <3>2. x = z
      BY <2>3 DEF Kept
    <3>3. group[g].sealed = TRUE
      BY <1>2, <2>3 DEF GroupRecord
    <3> QED
      BY <2>1, <3>1, <3>2, <3>3
  <2> QED
    BY <2>2, <2>3
<1> HIDE DEF x, live, settled, g
<1>7. /\ group' \in [Tasks -> GroupRecord]
      /\ \A h \in Tasks :
           /\ group'[h].members = group[h].members
           /\ group'[h].sealed = group[h].sealed
           /\ group'[h].selected = group[h].selected
           /\ group'[h].live => /\ group[h].live /\ group'[h].mode = group[h].mode
                                /\ group'[h].launcher = group[h].launcher
  BY <1>1, <1>2, <1>5, <1>6 DEF TypeOK
<1>8. \A h \in Tasks : Awaited(h)' => Awaited(h)
                                      /\ group'[h].launcher = group[h].launcher
  BY <1>7 DEF Awaited
<1>9. reported' \subseteq Tasks /\ t \notin reported
  BY <1>1, <1>5 DEF TypeOK, GroupInv, Running
<1>10. \A h \in Tasks : group[h].members \subseteq Tasks
  BY <1>1 DEF TypeOK, GroupRecord
<1>11. GroupInv'
  <2>1. \A h \in Tasks : \A b \in group[h].members : actor'[b].status # "unborn"
    BY <1>1, <1>4, <1>10 DEF GroupInv
  <2>2. \A b \in Tasks : actor'[b].status \notin {"unborn", "done"}
          /\ actor'[b].kind = "participant" =>
            actor'[b].group \in Tasks /\ b \in group[actor'[b].group].members
    BY <1>1, <1>4 DEF GroupInv, Live
  <2>3. \A b \in reported' : actor'[b].status = "done"
    BY <1>1, <1>4, <1>5, <1>9 DEF GroupInv
  <2>4. \A h \in Tasks : ~ group[h].sealed => group[h].members \cap reported' = {}
    <3> SUFFICES ASSUME NEW h \in Tasks, ~ group[h].sealed
                 PROVE  group[h].members \cap reported' = {}
      OBVIOUS
    <3>1. group[h].members \cap reported = {}
      BY <1>1 DEF GroupInv
    <3>2. t \in reported' => t \notin group[h].members
      BY <1>1, <1>2, <1>5, <1>9 DEF GroupInv
    <3> QED
      BY <1>5, <3>1, <3>2
  <2> QED
    BY <1>1, <1>7, <2>1, <2>2, <2>3, <2>4 DEF GroupInv, Live
<1>12. LateFailuresReported'
  <2> SUFFICES ASSUME NEW h \in Tasks, group[h].sealed, NEW b \in group[h].members
               PROVE  b \in reported' <=> /\ actor'[b].status = "done"
                                          /\ actor'[b].outcome = "standard"
                                          /\ b \notin group[h].selected
    BY <1>7 DEF LateFailuresReported
  <2>1. CASE b = t
    <3>1. h = g
      BY <1>1, <1>2, <2>1 DEF GroupInv
    <3> QED
      BY <1>4, <1>5, <1>9, <2>1, <3>1
  <2>2. CASE b # t
    <3>1. b \in reported' <=> b \in reported
      BY <1>5, <2>2
    <3>2. actor'[b] = actor[b]
      BY <1>4, <1>10, <2>2
    <3> QED
      BY <1>1, <3>1, <3>2 DEF LateFailuresReported
  <2> QED
    BY <2>1, <2>2
<1> QED
  BY <1>1, <1>3, <1>7, <1>8, <1>9, <1>11, <1>12, LeavesKeeps

LEMMA PublishKeeps ==
    ASSUME IInv, NEW g \in Tasks, NEW chosen \in SUBSET Tasks, Publish(g, chosen)
    PROVE  IInv'
<1> DEFINE live == \E t \in group[g].members : Live(t)
           sealed == [group[g] EXCEPT !.sealed = TRUE, !.selected = chosen]
           x == Kept(sealed, live)
           a == group[g].launcher
           y == [actor[a] EXCEPT !.status = "running"]
           late == Late(group[g].members, chosen)
<1>1. /\ TypeOK /\ ControlInv /\ GroupInv /\ LateFailuresReported
      /\ group[g].live /\ ~ group[g].sealed
  BY DEF IInv, Publish
<1>2. group[g] \in GroupRecord /\ a \in Actors /\ actor[a] \in ActorRecord
  BY <1>1 DEF TypeOK, GroupRecord
<1>3. /\ group' = [group EXCEPT ![g] = x] /\ reported' = reported \cup late
      /\ actor' = IF group[g].mode = "native" THEN actor
                  ELSE [actor EXCEPT ![a] = y]
      /\ UNCHANGED <<scope, parent, runner, drain, res, order, leases, closer,
                     uses, failed>>
  BY DEF Publish
<1>4. /\ x \in GroupRecord /\ x.members = group[g].members
      /\ x.sealed = TRUE /\ x.selected = chosen
  <2>1. /\ sealed \in GroupRecord /\ sealed.members = group[g].members
        /\ sealed.sealed = TRUE /\ sealed.selected = chosen
    BY <1>2 DEF GroupRecord
  <2> HIDE DEF sealed
  <2>2. CASE live
    BY <2>1, <2>2 DEF Kept
  <2>3. CASE ~ live
    <3> DEFINE z == [NoGroup EXCEPT !.members = sealed.members, !.sealed = TRUE,
                                    !.selected = sealed.selected]
    <3>1. /\ z \in GroupRecord /\ z.members = sealed.members /\ z.sealed = TRUE
          /\ z.selected = sealed.selected
      BY <2>1, RecordsTyped DEF GroupRecord, NoGroup
    <3>2. x = z
      BY <2>3 DEF Kept
    <3> QED
      BY <2>1, <3>1, <3>2
  <2> QED
    BY <2>2, <2>3
<1>5. /\ y \in ActorRecord /\ y.status = "running" /\ y.awaits = actor[a].awaits
      /\ y.key = actor[a].key /\ y.captures = actor[a].captures
      /\ y.kind = actor[a].kind /\ y.group = actor[a].group
      /\ y.outcome = actor[a].outcome
  BY <1>2 DEF ActorRecord, Statuses
<1>6. \A t : t \in late <=> /\ t \in group[g].members /\ actor[t].status = "done"
                            /\ actor[t].outcome = "standard" /\ t \notin chosen
  BY DEF Late
<1>7. group[g].mode # "native" => Awaited(g) /\ actor[a].status = "selecting"
  BY <1>1 DEF Awaited, ControlInv
<1> HIDE DEF live, sealed, x, a, y, late
<1>8. \A t \in Tasks : Steady(t)
  <2>1. CASE group[g].mode = "native"
    BY <1>3, <2>1, NobodyMoves
  <2>2. CASE group[g].mode # "native"
    BY <1>1, <1>2, <1>3, <1>5, <1>7, <2>2, OneMoves DEF Live
  <2> QED
    BY <2>1, <2>2
<1>9. /\ \A b \in Actors : actor[b].status = "draining" => actor'[b] = actor[b]
      /\ \A b \in Actors \ {a} : actor'[b] = actor[b]
      /\ \A b \in Actors : actor'[b].awaits = actor[b].awaits
      /\ actor' \in [Actors -> ActorRecord]
  <2>1. CASE group[g].mode = "native"
    BY <1>1, <1>3, <2>1 DEF TypeOK
  <2>2. CASE group[g].mode # "native"
    <3>1. actor[a].status = "selecting" /\ actor' = [actor EXCEPT ![a] = y]
      BY <1>3, <1>7, <2>2
    <3> QED
      BY <1>1, <1>2, <1>5, <3>1 DEF TypeOK
  <2> QED
    BY <2>1, <2>2
<1>10. \A h \in Tasks : group[h].members \subseteq Tasks
  BY <1>1 DEF TypeOK, GroupRecord
<1>11. /\ group' \in [Tasks -> GroupRecord] /\ group'[g] = x
       /\ \A h \in Tasks \ {g} : group'[h] = group[h]
       /\ \A h \in Tasks : group'[h].members = group[h].members
  BY <1>1, <1>3, <1>4 DEF TypeOK
<1>12. reported' \subseteq Tasks
  BY <1>1, <1>3, <1>6, <1>10 DEF TypeOK
<1>13. TypeOK'
  BY <1>1, <1>3, <1>9, <1>11, <1>12 DEF TypeOK
<1>14. \A r \in Resources : ResourceInv(r)'
  BY <1>3, <1>8, ResourceKeeps DEF IInv, OrderKept
<1>15. ControlInv'
  <2>1. ASSUME NEW h \in Tasks, Awaited(h)'
        PROVE  /\ h # g /\ Awaited(h) /\ group'[h] = group[h]
               /\ actor'[group[h].launcher].status = "selecting"
    <3>1. h # g
      BY <1>4, <1>11, <2>1 DEF Awaited
    <3>2. Awaited(h) /\ group'[h] = group[h]
      BY <1>11, <2>1, <3>1 DEF Awaited
    <3>3. group[h].launcher \in Actors
      BY <1>1 DEF TypeOK, GroupRecord
    <3>4. CASE group[g].mode = "native"
      BY <1>1, <1>3, <3>1, <3>2, <3>4 DEF ControlInv
    <3>5. CASE group[g].mode # "native"
      <4>1. group[h].launcher # a
        BY <1>1, <1>7, <3>1, <3>2, <3>5 DEF ControlInv, a
      <4> QED
        BY <1>1, <1>9, <3>1, <3>2, <3>3, <4>1 DEF ControlInv
    <3> QED
      BY <3>4, <3>5
  <2>2. \A s \in Scopes : drain[s].phase # "none" =>
          actor'[runner[s]] = actor[runner[s]]
    BY <1>1, <1>9 DEF ControlInv, TypeOK
  <2>3. \A h, k \in Tasks :
          (Awaited(h)' /\ Awaited(k)' /\ group'[h].launcher = group'[k].launcher)
              => h = k
    BY <1>1, <2>1 DEF ControlInv
  <2>4. \A h \in Tasks : Awaited(h)' => actor'[group'[h].launcher].status = "selecting"
    BY <2>1
  <2> QED
    BY <1>1, <1>3, <2>2, <2>3, <2>4 DEF ControlInv
<1>16. AwaitsInv'
  BY <1>1, <1>3, <1>9, AwaitsKeep DEF IInv
<1>17. LeasesExact' /\ NotClosedInUse'
  <2>1. LeasesExact'
    BY <1>3, <1>8, <1>13, LeasesKeep DEF IInv
  <2>2. NotClosedInUse'
    BY <1>3 DEF IInv, NotClosedInUse, Unleased
  <2> QED
    BY <2>1, <2>2
<1>18. \A t \in Tasks :
         /\ actor'[t].status \notin {"unborn", "done"} <=> Live(t)
         /\ actor'[t].status = "unborn" <=> actor[t].status = "unborn"
         /\ actor'[t].status = "done" <=> actor[t].status = "done"
         /\ actor'[t].kind = actor[t].kind /\ actor'[t].group = actor[t].group
         /\ actor'[t].outcome = actor[t].outcome
  BY <1>8 DEF Steady, Live
<1>19. GroupInv'
  <2>1. \A h \in Tasks : \A t \in group[h].members : actor'[t].status # "unborn"
    BY <1>1, <1>10, <1>18 DEF GroupInv
  <2>2. \A t \in Tasks : actor'[t].status \notin {"unborn", "done"}
          /\ actor'[t].kind = "participant" =>
            actor'[t].group \in Tasks /\ t \in group[actor'[t].group].members
    BY <1>1, <1>18 DEF GroupInv
  <2>3. \A t \in reported' : actor'[t].status = "done"
    <3>1. reported \subseteq Tasks /\ group[g].members \subseteq Tasks
      BY <1>1, <1>10 DEF TypeOK
    <3> QED
      BY <1>1, <1>3, <1>6, <1>18, <3>1 DEF GroupInv
  <2>4. \A h \in Tasks : ~ group'[h].sealed => group[h].members \cap reported' = {}
    <3> SUFFICES ASSUME NEW h \in Tasks, ~ group'[h].sealed
                 PROVE  group[h].members \cap reported' = {}
      OBVIOUS
    <3>1. h # g /\ group'[h] = group[h]
      BY <1>4, <1>11
    <3>2. group[h].members \cap reported = {}
      BY <1>1, <3>1 DEF GroupInv
    <3>3. group[h].members \cap late = {}
      BY <1>1, <1>6, <3>1 DEF GroupInv
    <3> QED
      BY <1>3, <3>2, <3>3
  <2> QED
    BY <1>1, <1>11, <2>1, <2>2, <2>3, <2>4 DEF GroupInv, Live
<1>20. LateFailuresReported'
  <2> SUFFICES ASSUME NEW h \in Tasks, group'[h].sealed, NEW t \in group'[h].members
               PROVE  t \in reported' <=> /\ actor'[t].status = "done"
                                          /\ actor'[t].outcome = "standard"
                                          /\ t \notin group'[h].selected
    BY DEF LateFailuresReported
  <2>1. t \in group[h].members /\ t \in Tasks
    BY <1>10, <1>11
  <2>2. CASE h = g
    <3>1. t \notin reported
      BY <1>1, <2>1, <2>2 DEF GroupInv
    <3>2. group'[h].selected = chosen
      BY <1>4, <1>11, <2>2
    <3> QED
      BY <1>3, <1>6, <1>18, <2>1, <2>2, <3>1, <3>2
  <2>3. CASE h # g
    <3>1. t \notin late
      BY <1>1, <1>6, <2>1, <2>3 DEF GroupInv
    <3>2. group'[h] = group[h]
      BY <1>11, <2>3
    <3> QED
      BY <1>1, <1>3, <1>18, <2>1, <3>1, <3>2 DEF LateFailuresReported
  <2> QED
    BY <2>2, <2>3
<1> QED
  BY <1>13, <1>14, <1>15, <1>16, <1>17, <1>19, <1>20 DEF IInv

\* The tasks T start together, each with its captures, under one owner.
LEMMA LaunchKeeps ==
    ASSUME IInv, NEW a \in Actors, NEW caps \in Launches, NEW mode \in Modes,
           Launch(a, caps, mode)
    PROVE  IInv'
<1> DEFINE T == DOMAIN caps
           g == CHOOSE t \in T : TRUE
           native == mode = "native"
           key == IF native /\ IsTask(a) THEN actor[a].key ELSE g
           x(b) == [Inactive EXCEPT !.status = "running",
                      !.kind = "participant", !.scope = actor[a].scope,
                      !.home = actor[a].scope, !.key = key,
                      !.captures = caps[b], !.group = g]
           y == [actor[a] EXCEPT !.status = "selecting"]
           n == [live |-> TRUE, mode |-> mode, launcher |-> a,
                 scope |-> actor[a].scope, members |-> T, settled |-> <<>>,
                 sealed |-> FALSE, selected |-> {}]
           Cap(r) == {t \in T : r \in caps[t]}
<1>1. /\ TypeOK /\ ControlInv /\ GroupInv /\ LateFailuresReported /\ NotClosedInUse
      /\ \A r \in Resources : ResourceInv(r)
      /\ \A r \in Resources, j \in Keys : leases[r][j] = Count(r, j)
  BY ExactIsCount DEF IInv
<1>2. /\ T \subseteq Tasks /\ T # {} /\ \A t \in T : caps[t] \subseteq Resources
  BY DEF Launches
<1>3. /\ g \in T /\ Running(a) /\ \A t \in T : actor[t].status = "unborn"
      /\ \A t \in T : \A r \in caps[t] : Admits(r, actor[a].scope, key)
      /\ leases' = [r \in Resources |->
                      [leases[r] EXCEPT ![key] = @ + Cardinality(Cap(r))]]
      /\ group' = [group EXCEPT ![g] = n]
      /\ actor' = [b \in Actors |-> IF b \in T THEN x(b)
                                    ELSE IF b = a /\ ~ native THEN y
                                    ELSE actor[b]]
      /\ UNCHANGED <<scope, parent, runner, drain, res, order, closer, uses,
                     reported, failed>>
  <2>1. g \in T
    BY <1>2
  <2> QED
    BY <2>1 DEF Launch
<1>4. /\ a \notin T /\ T \subseteq Actors /\ actor[a] \in ActorRecord
      /\ actor[a].scope \in Scopes /\ key \in Keys /\ g \in Tasks
  <2>1. /\ a \notin T /\ T \subseteq Actors /\ actor[a] \in ActorRecord /\ g \in Tasks
    BY <1>1, <1>2, <1>3 DEF Running, TypeOK, Actors
  <2>2. actor[a].scope \in Scopes /\ actor[a].key \in Keys
    BY <1>1, KeyTyped
  <2> QED
    BY <2>1, <2>2 DEF Keys
<1>5. /\ y \in ActorRecord /\ y.status = "selecting" /\ y.awaits = actor[a].awaits
      /\ y.key = actor[a].key /\ y.captures = actor[a].captures
      /\ y.kind = actor[a].kind /\ y.group = actor[a].group
      /\ y.outcome = actor[a].outcome /\ y.scope = actor[a].scope
  BY <1>4 DEF ActorRecord, Statuses
<1>6. ASSUME NEW b \in T
      PROVE  /\ x(b) \in ActorRecord /\ x(b).status = "running"
             /\ x(b).kind = "participant" /\ x(b).key = key
             /\ x(b).captures = caps[b] /\ x(b).group = g /\ x(b).awaits = {}
  <2>1. caps[b] \in SUBSET Resources /\ g \in Actors
    BY <1>2, <1>4 DEF Actors
  <2> QED
    BY <1>4, <2>1, RecordsTyped, ZenonT(40) DEF ActorRecord, Inactive, Statuses
<1>7. /\ n \in GroupRecord /\ n.members = T /\ n.live /\ ~ n.sealed
      /\ n.mode = mode /\ n.launcher = a
  <2>1. mode \in {"all", "settled", "any", "race", "native"} /\ <<>> \in Seq(Tasks)
    BY ModesAssumption
  <2> QED
    BY <1>2, <1>4, <2>1 DEF GroupRecord
<1>8. \A r : \A t : t \in Cap(r) <=> t \in T /\ r \in caps[t]
  OBVIOUS
<1>9. native <=> mode = "native"
  OBVIOUS
<1> HIDE DEF T, g, native, key, x, y, n, Cap
<1>10. /\ actor' \in [Actors -> ActorRecord]
       /\ \A b \in T : actor'[b] = x(b)
       /\ actor'[a] = IF native THEN actor[a] ELSE y
       /\ \A b \in Actors : b \notin T /\ b # a => actor'[b] = actor[b]
  <2>1. \A b \in Actors : actor[b] \in ActorRecord
    BY <1>1 DEF TypeOK
  <2>2. \A b \in Actors : (IF b \in T THEN x(b) ELSE IF b = a /\ ~ native THEN y
                           ELSE actor[b]) \in ActorRecord
    BY <1>5, <1>6, <2>1
  <2>3. actor' \in [Actors -> ActorRecord]
    BY <1>3, <2>2
  <2> QED
    BY <1>3, <1>4, <2>3
<1>11. /\ actor'[a].key = actor[a].key /\ actor'[a].captures = actor[a].captures
       /\ actor'[a].kind = actor[a].kind /\ actor'[a].group = actor[a].group
       /\ actor'[a].awaits = actor[a].awaits /\ actor'[a].scope = actor[a].scope
       /\ actor'[a].status = (IF native THEN "running" ELSE "selecting")
  BY <1>3, <1>5, <1>10 DEF Running
<1>12. \A b \in Actors : b \notin T =>
         /\ actor'[b].key = actor[b].key /\ actor'[b].captures = actor[b].captures
         /\ actor'[b].kind = actor[b].kind /\ actor'[b].group = actor[b].group
         /\ (actor'[b].status \notin {"unborn", "done"} <=> Live(b))
         /\ (actor'[b].status = "done" <=> actor[b].status = "done")
         /\ actor'[b].outcome = actor[b].outcome /\ actor'[b].scope = actor[b].scope
  <2> SUFFICES ASSUME NEW b \in Actors, b \notin T
               PROVE  /\ actor'[b].key = actor[b].key
                      /\ actor'[b].captures = actor[b].captures
                      /\ actor'[b].kind = actor[b].kind
                      /\ actor'[b].group = actor[b].group
                      /\ (actor'[b].status \notin {"unborn", "done"} <=> Live(b))
                      /\ (actor'[b].status = "done" <=> actor[b].status = "done")
                      /\ actor'[b].outcome = actor[b].outcome
                      /\ actor'[b].scope = actor[b].scope
    OBVIOUS
  <2>1. CASE b = a
    BY <1>3, <1>5, <1>10, <1>11, <2>1 DEF Live, Running
  <2>2. CASE b # a
    BY <1>10, <2>2 DEF Live
  <2> QED
    BY <2>1, <2>2
<1>13. \A b \in Actors : actor[b].status # "unborn" => b \notin T
  BY <1>3
<1>14. IsFiniteSet(T) /\ \A r : IsFiniteSet(Cap(r)) /\ Cardinality(Cap(r)) \in Nat
  <2>1. IsFiniteSet(T)
    BY <1>2, TasksAssumption, FS_Subset
  <2>2. \A r : Cap(r) \in SUBSET T
    BY <1>8
  <2>3. \A r : IsFiniteSet(Cap(r))
    BY <2>1, <2>2, FS_Subset
  <2> QED
    BY <2>1, <2>3, FS_CardinalityType
<1>15. /\ leases' \in [Resources -> [Keys -> Int]]
       /\ \A r \in Resources, j \in Keys :
            leases'[r][j] = IF j = key THEN leases[r][j] + Cardinality(Cap(r))
                            ELSE leases[r][j]
  <2>1. \A r \in Resources : leases[r] \in [Keys -> Int] /\ Cardinality(Cap(r)) \in Int
    BY <1>1, <1>14 DEF TypeOK
  <2> QED
    BY <1>3, <1>4, <2>1
<1>16. /\ group' \in [Tasks -> GroupRecord] /\ group'[g] = n
       /\ \A h \in Tasks \ {g} : group'[h] = group[h]
  BY <1>1, <1>3, <1>4, <1>7 DEF TypeOK
<1>17. TypeOK'
  BY <1>1, <1>3, <1>10, <1>15, <1>16 DEF TypeOK
<1>18. ASSUME NEW r \in Resources, res[r].initial
       PROVE  /\ res[r].creator \in Tasks /\ res[r].creator \in Actors
              /\ res[r].creator \notin T
              /\ actor'[res[r].creator].status \notin {"unborn", "done"}
              /\ actor'[res[r].creator].key = actor[res[r].creator].key
  BY <1>1, <1>12, <1>13, <1>18 DEF ResourceInv, Live, Actors
<1>19. ASSUME NEW r \in Resources PROVE ResourceInv(r)'
  BY <1>1, <1>3, <1>18 DEF ResourceInv, Live
<1>20. ControlInv'
  <2>1. \A h \in Tasks : group[h].launcher \in Actors
    BY <1>1 DEF TypeOK, GroupRecord
  <2>2. \A b \in Actors : actor[b].status \in {"selecting", "draining"} =>
          b # a /\ actor'[b] = actor[b]
    BY <1>3, <1>10, <1>13 DEF Running
  <2>3. ASSUME NEW h \in Tasks, h # g, Awaited(h)'
        PROVE  /\ group'[h].launcher # a
               /\ actor'[group'[h].launcher].status = "selecting"
               /\ Awaited(h) /\ group'[h].launcher = group[h].launcher
    <3>1. Awaited(h) /\ group'[h] = group[h]
      BY <1>16, <2>3 DEF Awaited
    <3> QED
      BY <1>1, <2>1, <2>2, <3>1 DEF ControlInv
  <2>4. Awaited(g)' => /\ group'[g].launcher = a
                       /\ actor'[a].status = "selecting"
    BY <1>7, <1>9, <1>11, <1>16 DEF Awaited
  <2>5. \A s \in Scopes : drain[s].phase # "none" =>
          actor'[runner[s]] = actor[runner[s]]
    BY <1>1, <2>2 DEF ControlInv, TypeOK
  <2>6. \A h \in Tasks : Awaited(h)' => actor'[group'[h].launcher].status = "selecting"
    BY <2>3, <2>4
  <2>7. \A h, k \in Tasks :
          (Awaited(h)' /\ Awaited(k)' /\ group'[h].launcher = group'[k].launcher)
              => h = k
    BY <1>1, <2>3, <2>4 DEF ControlInv
  <2> QED
    BY <1>1, <1>3, <2>5, <2>6, <2>7 DEF ControlInv
<1>21. AwaitsInv'
  <2>1. \A b \in Actors : actor'[b].awaits \subseteq actor[b].awaits
    BY <1>6, <1>10, <1>11
  <2> QED
    BY <1>1, <1>3, <2>1, AwaitsKeep DEF IInv
<1>22. \A h \in Tasks : group[h].members \subseteq Tasks /\ group[h].members \cap T = {}
  <2>1. \A h \in Tasks : group[h].members \subseteq Tasks
    BY <1>1 DEF TypeOK, GroupRecord
  <2>2. \A h \in Tasks : \A t \in group[h].members : actor[t].status # "unborn"
    BY <1>1 DEF GroupInv
  <2> QED
    BY <1>3, <2>1, <2>2
<1>23. group[g].members = {} /\ reported \subseteq Tasks /\ reported \cap T = {}
  BY <1>1, <1>3, <1>4, <1>22 DEF GroupInv, TypeOK
<1>24. Tasks \subseteq Actors
  BY DEF Actors
<1>25. GroupInv'
  <2>1. \A h \in Tasks : group'[h].members # {} => h \in group'[h].members
    BY <1>1, <1>3, <1>7, <1>16 DEF GroupInv
  <2>2. \A h \in Tasks : \A t \in group'[h].members : actor'[t].status # "unborn"
    <3>1. \A t \in T : actor'[t].status # "unborn"
      BY <1>6, <1>10
    <3>2. \A t \in Tasks \ T : actor[t].status # "unborn" =>
            actor'[t].status # "unborn"
      BY <1>10, <1>11, <1>24
    <3> QED
      BY <1>1, <1>7, <1>16, <1>22, <3>1, <3>2 DEF GroupInv
  <2>3. \A h, k \in Tasks : \A t \in group'[h].members :
          t \in group'[k].members => h = k
    BY <1>1, <1>7, <1>16, <1>22 DEF GroupInv
  <2>4. ASSUME NEW t \in Tasks, actor'[t].status \notin {"unborn", "done"},
               actor'[t].kind = "participant"
        PROVE  actor'[t].group \in Tasks /\ t \in group'[actor'[t].group].members
    <3>1. CASE t \in T
      BY <1>4, <1>6, <1>7, <1>10, <1>16, <3>1
    <3>2. CASE t \notin T
      <4>1. /\ Live(t) /\ actor[t].kind = "participant"
            /\ actor'[t].group = actor[t].group
        BY <1>12, <1>24, <2>4, <3>2
      <4>2. actor[t].group \in Tasks /\ t \in group[actor[t].group].members
        BY <1>1, <4>1 DEF GroupInv
      <4> QED
        BY <1>16, <1>23, <4>1, <4>2
    <3> QED
      BY <3>1, <3>2
  <2>5. \A t \in reported : actor'[t].status = "done"
    BY <1>1, <1>12, <1>23, <1>24 DEF GroupInv
  <2>6. \A h \in Tasks : ~ group'[h].sealed => group'[h].members \cap reported = {}
    BY <1>1, <1>7, <1>16, <1>23 DEF GroupInv
  <2> QED
    BY <1>3, <2>1, <2>2, <2>3, <2>4, <2>5, <2>6 DEF GroupInv, Live
<1>26. LateFailuresReported'
  <2> SUFFICES ASSUME NEW h \in Tasks, group'[h].sealed, NEW t \in group'[h].members
               PROVE  t \in reported <=> /\ actor'[t].status = "done"
                                         /\ actor'[t].outcome = "standard"
                                         /\ t \notin group'[h].selected
    BY <1>3, ZenonT(40) DEF LateFailuresReported
  <2>1. h # g /\ group'[h] = group[h]
    BY <1>7, <1>16
  <2>2. t \in Actors /\ t \notin T
    BY <1>22, <1>24, <2>1
  <2> QED
    BY <1>1, <1>12, <2>1, <2>2 DEF LateFailuresReported
<1>27. ASSUME NEW r \in Resources, NEW j \in Keys
       PROVE  leases'[r][j] = Count(r, j)'
  <2>1. /\ IsFiniteSet(Holders(r, j)) /\ Cardinality(Holders(r, j)) \in Nat
        /\ Cardinality(Operations(r, j)) \in Nat /\ Owned(r, j) \in {0, 1}
        /\ Count(r, j) \in Nat
    BY <1>1, CountTyped
  <2>2. Operations(r, j)' = Operations(r, j)
    BY <1>3 DEF Operations
  <2>3. Owned(r, j)' = Owned(r, j)
    <3>1. res[r].initial => Key(res[r].creator)' = Key(res[r].creator)
      BY <1>3, <1>18 DEF Key, IsTask
    <3> QED
      BY <1>3, <3>1 DEF Owned
  <2>4. \A t \in Tasks \ T : t \in Holders(r, j)' <=> t \in Holders(r, j)
    BY <1>12, <1>24 DEF Holders, Live
  <2>5. \A t \in T : t \in Holders(r, j)' <=> j = key /\ t \in Cap(r)
    BY <1>2, <1>6, <1>8, <1>10 DEF Holders, Live
  <2>6. Holders(r, j) \cap T = {} /\ Holders(r, j) \subseteq Tasks
        /\ Holders(r, j)' \subseteq Tasks
    BY <1>3 DEF Holders, Live
  <2>7. CASE j = key
    <3>1. Holders(r, j)' = Holders(r, j) \cup Cap(r) /\ Holders(r, j) \cap Cap(r) = {}
      BY <1>2, <1>8, <2>4, <2>5, <2>6, <2>7
    <3>2. Cardinality(Holders(r, j) \cup Cap(r)) =
            Cardinality(Holders(r, j)) + Cardinality(Cap(r))
      <4>1. Cardinality(Holders(r, j) \cap Cap(r)) = 0
        BY <3>1, FS_EmptySet
      <4>2. IsFiniteSet(Cap(r)) /\ Cardinality(Cap(r)) \in Nat
        BY <1>14
      <4>3. Cardinality(Holders(r, j) \cup Cap(r)) =
              Cardinality(Holders(r, j)) + Cardinality(Cap(r))
                - Cardinality(Holders(r, j) \cap Cap(r))
        BY <2>1, <4>2, FS_Union
      <4> QED
        BY <2>1, <4>1, <4>2, <4>3
    <3>3. leases'[r][j] = Count(r, j) + Cardinality(Cap(r))
      BY <1>1, <1>15, <2>7
    <3>4. Cardinality(Cap(r)) \in Nat
      BY <1>14
    <3> QED
      BY <2>1, <2>2, <2>3, <3>1, <3>2, <3>3, <3>4 DEF Count
  <2>8. CASE j # key
    <3>1. Holders(r, j)' = Holders(r, j)
      BY <2>4, <2>5, <2>6, <2>8
    <3>2. leases'[r][j] = Count(r, j)
      BY <1>1, <1>15, <2>8
    <3> QED
      BY <2>2, <2>3, <3>1, <3>2 DEF Count
  <2> QED
    BY <2>7, <2>8
<1>28. LeasesExact'
  BY <1>27, ExactNext
<1>29. NotClosedInUse'
  <2>1. ASSUME NEW r \in Resources, Ended(r)', NEW j \in Keys
        PROVE  leases'[r][j] <= 0
    <3>1. Ended(r)
      BY <1>3, <2>1 DEF Ended
    <3>2. leases[r][j] = 0
      BY <1>1, <3>1 DEF NotClosedInUse, Ended, Unleased
    <3>3. Cap(r) = {}
      BY <1>1, <1>3, <1>4, <1>8, <3>1, AdmitsOnlyBefore
    <3>4. Cardinality(Cap(r)) = 0
      BY <3>3, FS_EmptySet
    <3> QED
      BY <1>15, <3>2, <3>4
  <2> QED
    BY <1>17, <1>28, <2>1, NotClosedKeeps
<1> QED
  BY <1>17, <1>19, <1>20, <1>21, <1>25, <1>26, <1>28, <1>29 DEF IInv

-----------------------------------------------------------------------------
(* The invariant, and what follows from it.                                *)

LEMMA InvInit == Init => IInv
<1> SUFFICES ASSUME Init PROVE IInv
  OBVIOUS
<1>1. TypeOK
  BY InitTyped
<1>2. \A r \in Resources : /\ res[r] = Unregistered /\ closer[r] = "none"
                           /\ \A k \in Keys : leases[r][k] = 0
  BY DEF Init
<1>3. \A r \in Resources : ResourceInv(r)
  BY <1>2 DEF ResourceInv, Unregistered
<1>4. /\ \A g \in Tasks : group[g] = NoGroup
      /\ \A s \in Scopes : drain[s] = NotDraining
      /\ uses = {} /\ reported = {}
      /\ \A t \in Tasks : actor[t] = Inactive
      /\ runner[Root] = Main /\ scope[Root] = "open"
  BY MainAssumption DEF Init, Actors, Scopes
<1>5. ControlInv
  BY <1>4 DEF ControlInv, Awaited, NoGroup, NotDraining
<1>6. \A a \in Actors : actor[a].awaits = {}
  <2>1. \A a \in Actors : \/ actor[a] = Inactive
                          \/ actor[a] = [Inactive EXCEPT !.status = "running",
                                                         !.kind = "main"]
    BY DEF Init
  <2>2. /\ Inactive.awaits = {}
        /\ [Inactive EXCEPT !.status = "running", !.kind = "main"].awaits = {}
    BY DEF Inactive
  <2> QED
    BY <2>1, <2>2
<1>7. AwaitsInv
  BY <1>6 DEF AwaitsInv
<1>8. GroupInv
  BY <1>4 DEF GroupInv, NoGroup, Inactive, Live
<1>9. LateFailuresReported
  BY <1>4 DEF LateFailuresReported, NoGroup
<1>10. NotClosedInUse
  BY <1>2 DEF NotClosedInUse
<1>11. LeasesExact
  <2> SUFFICES ASSUME NEW r \in Resources, NEW k \in Keys
               PROVE  leases[r][k] = Count(r, k)
    BY ExactIsCount
  <2>1. Holders(r, k) = {} /\ Operations(r, k) = {}
    BY <1>4 DEF Holders, Operations, Live, Inactive
  <2>2. Owned(r, k) = 0
    BY <1>2 DEF Owned, Unregistered
  <2> QED
    BY <1>2, <2>1, <2>2, FS_EmptySet DEF Count
<1> QED
  BY <1>1, <1>3, <1>5, <1>7, <1>8, <1>9, <1>10, <1>11 DEF IInv

LEMMA InvNext == IInv /\ [Next]_vars => IInv'
<1> SUFFICES ASSUME IInv, [Next]_vars PROVE IInv'
  OBVIOUS
<1>1. ASSUME NEW a \in Actors, NEW r \in Resources,
             \/ \E options \in Options : Register(a, r, options)
             \/ Use(a, r) \/ Close(a, r)
      PROVE  IInv'
  BY <1>1, RegisterKeeps, UseKeeps, CloseKeeps
<1>2. ASSUME NEW a \in Actors,
             \/ \E caps \in Launches, mode \in Modes : Launch(a, caps, mode)
             \/ \E c \in Children : EnterScope(a, c)
             \/ CloseReturns(a) \/ CloseDeadline(a) \/ ExitScope(a)
      PROVE  IInv'
  BY <1>2, LaunchKeeps, EnterScopeKeeps, CloseReturnsKeeps, ExitScopeKeeps
<1>3. CASE FinishMain
  BY <1>3, FinishMainKeeps
<1>4. ASSUME NEW u \in uses, UseEnds(u) PROVE IInv'
  BY <1>4, UseEndsKeeps
<1>5. ASSUME NEW r \in Resources,
             CloserStarts(r) \/ (\E ok \in BOOLEAN : CloserEnds(r, ok)) \/ Timer(r)
      PROVE  IInv'
  BY <1>5, CloserStartsKeeps, CloserEndsKeeps, TimerKeeps
<1>6. ASSUME NEW g \in Tasks, NEW chosen \in SUBSET Tasks, Publish(g, chosen)
      PROVE  IInv'
  BY <1>6, PublishKeeps
<1>7. ASSUME NEW t \in Tasks,
             \/ Ends(t)
             \/ \E s \in Scopes : \/ Dispatch(t, s)
                                  \/ \E a \in Tasks : Reenter(t, a, s)
      PROVE  IInv'
  BY <1>7, CallbackEndsKeeps, SettleKeeps, DispatchKeeps, ReenterKeeps DEF Ends
<1>8. ASSUME NEW s \in Scopes,
             DrainWakes(s) \/ SweepStep(s) \/ SweepNext(s) \/ DrainEnds(s)
      PROVE  IInv'
  BY <1>8, DrainWakesKeeps, SweepStepKeeps, SweepNextKeeps, DrainEndsKeeps
<1>9. CASE UNCHANGED vars
  <2>1. TypeOK'
    BY <1>9 DEF vars, IInv, TypeOK
  <2>2. \A t \in Tasks : Steady(t)
    BY <1>9, NobodyMoves DEF vars
  <2>3. \A r \in Resources : ResourceInv(r)'
    BY <1>9, <2>2, ResourceKeeps DEF vars, IInv, OrderKept
  <2>4. ControlInv' /\ AwaitsInv'
    BY <1>9 DEF vars, IInv, ControlInv, Awaited, AwaitsInv
  <2>5. \A r \in Resources : Ended(r)' => Ended(r)
    BY <1>9 DEF vars, Ended
  <2> QED
    BY <1>9, <2>1, <2>2, <2>3, <2>4, <2>5, QuietStep DEF vars
<1> QED
  BY <1>1, <1>2, <1>3, <1>4, <1>5, <1>6, <1>7, <1>8, <1>9 DEF Next

LEMMA Invariance == Spec => []IInv
<1>1. Init => IInv
  BY InvInit
<1>2. IInv /\ [Next]_vars => IInv'
  BY InvNext
<1> QED
  BY <1>1, <1>2, PTL DEF Spec

\* beginClose and acquire: however participants, callbacks, deadlines and
\* drains interleave, the native close of a resource only runs when nobody
\* leases it, and nobody gets a lease of it afterwards.
THEOREM NeverClosedInUse == Spec => []NotClosedInUse
<1>1. IInv => NotClosedInUse
  BY DEF IInv
<1> QED
  BY <1>1, Invariance, PTL

\* acquire and its releases (settleLaunched, settleCallbackTask,
\* settleScopeBody, closeResource): at any time the leases counted on a
\* resource are those of the live tasks that captured it, of the task that
\* created it and of the native operations on it.
THEOREM LeasesNeverDrift == Spec => []LeasesExact
<1>1. IInv => LeasesExact
  BY DEF IInv
<1> QED
  BY <1>1, Invariance, PTL

\* publish and finishLaunched: of the members of a sealed group exactly the
\* ones that failed with a standard failure nobody selected are reported,
\* whether they settled before the group was sealed or after.
THEOREM LateFailuresTold == Spec => []LateFailuresReported
<1>1. IInv => LateFailuresReported
  BY DEF IInv
<1> QED
  BY <1>1, Invariance, PTL

-----------------------------------------------------------------------------
(* Closing once.                                                           *)

\* How the close of a resource may go on.
Advances(c, d) ==
    \/ c = d
    \/ c = "none" /\ d = "waiting"
    \/ c = "waiting" /\ d = "running"
    \/ c = "running" /\ d \in {"ok", "failed"}

LEMMA ClosingAdvances ==
    ASSUME TypeOK, NEW r \in Resources, NEW x \in ResourceRecord, Closing(r, x)
    PROVE  \A q \in Resources : Advances(closer[q], closer'[q])
BY ClosingChanges DEF Advances

LEMMA CloserAdvances ==
    ASSUME IInv, [Next]_vars
    PROVE  \A r \in Resources : Advances(closer[r], closer'[r])
<1>1. TypeOK /\ \A r \in Resources : res[r] \in ResourceRecord
  BY DEF IInv, TypeOK
<1>2. ASSUME NEW a \in Actors, NEW r \in Resources, Close(a, r)
      PROVE  \A q \in Resources : Advances(closer[q], closer'[q])
  <2> DEFINE x == [res[r] EXCEPT !.initial = @ /\ ~ (res[r].initial /\ res[r].creator = a)]
  <2>1. x \in ResourceRecord
    BY <1>1, ZenonT(40) DEF ResourceRecord
  <2>2. Closing(r, x)
    BY <1>2 DEF Close
  <2> QED
    BY <1>1, <2>1, <2>2, ClosingAdvances
<1>3. ASSUME NEW s \in Scopes, SweepStep(s)
      PROVE  \A q \in Resources : Advances(closer[q], closer'[q])
  <2>1. CASE UNCHANGED closer
    BY <2>1 DEF Advances
  <2>2. CASE ~ UNCHANGED closer
    <3>1. PICK r \in drain[s].todo, untold \in BOOLEAN :
            Closing(r, [res[r] EXCEPT !.cleanup = @ \/ untold])
      BY <1>3, <2>2 DEF SweepStep
    <3> DEFINE x == [res[r] EXCEPT !.cleanup = @ \/ untold]
    <3>2. r \in Resources
      BY <1>1 DEF TypeOK, DrainRecord
    <3>3. x \in ResourceRecord
      BY <1>1, <3>2 DEF ResourceRecord
    <3> QED
      BY <1>1, <3>1, <3>2, <3>3, ClosingAdvances
  <2> QED
    BY <2>1, <2>2
<1>4. ASSUME NEW r \in Resources, CloserStarts(r) \/ \E ok \in BOOLEAN : CloserEnds(r, ok)
      PROVE  \A q \in Resources : Advances(closer[q], closer'[q])
  BY <1>1, <1>4 DEF CloserStarts, CloserEnds, Advances, TypeOK
<1>5. CASE UNCHANGED closer
  BY <1>5 DEF Advances
<1>6. UNCHANGED closer
      \/ (\E a \in Actors, r \in Resources : Close(a, r))
      \/ (\E s \in Scopes : SweepStep(s))
      \/ (\E r \in Resources : CloserStarts(r) \/ \E ok \in BOOLEAN : CloserEnds(r, ok))
  <2>1. ASSUME NEW a \in Actors,
               \/ \E r \in Resources :
                    (\E options \in Options : Register(a, r, options)) \/ Use(a, r)
               \/ \E caps \in Launches, mode \in Modes : Launch(a, caps, mode)
               \/ \E c \in Children : EnterScope(a, c)
               \/ CloseReturns(a) \/ CloseDeadline(a) \/ ExitScope(a)
        PROVE  UNCHANGED closer
    BY <2>1 DEF Register, Use, Launch, EnterScope, CloseReturns, CloseDeadline,
                ExitScope
  <2>2. ASSUME \/ FinishMain \/ (\E u \in uses : UseEnds(u))
               \/ (\E r \in Resources : Timer(r))
               \/ (\E g \in Tasks, chosen \in SUBSET Tasks : Publish(g, chosen))
        PROVE  UNCHANGED closer
    BY <2>2 DEF FinishMain, UseEnds, Timer, Publish
  <2>3. ASSUME NEW t \in Tasks,
               \/ Ends(t)
               \/ \E s \in Scopes : Dispatch(t, s) \/ \E a \in Tasks : Reenter(t, a, s)
        PROVE  UNCHANGED closer
    BY <2>3 DEF Ends, CallbackEnds, Settle, Dispatch, Reenter
  <2>4. ASSUME NEW s \in Scopes, DrainWakes(s) \/ SweepNext(s) \/ DrainEnds(s)
        PROVE  UNCHANGED closer
    BY <2>4 DEF DrainWakes, SweepNext, DrainEnds
  <2>5. UNCHANGED vars => UNCHANGED closer
    BY DEF vars
  <2> QED
    BY <2>1, <2>2, <2>3, <2>4, <2>5 DEF Next
<1> QED
  BY <1>2, <1>3, <1>4, <1>5, <1>6

\* beginClose: nobody starts a second close of a resource, a close that has
\* ended keeps its result, and no deadline, timer or drain makes a resource
\* closed whose own close has not succeeded.
THEOREM ResourcesClosedOnce == Spec => ClosedOnce
<1>1. ASSUME IInv, IInv', [Next]_vars
      PROVE  \A r \in Resources :
               /\ <<closer[r], closer'[r]>> \in
                    {<<c, c>> : c \in Closers} \cup
                    {<<"none", "waiting">>, <<"waiting", "running">>,
                     <<"running", "ok">>, <<"running", "failed">>}
               /\ (res'[r].state = "closed") <=> (closer'[r] = "ok")
  <2> TAKE r \in Resources
  <2>1. Advances(closer[r], closer'[r]) /\ closer[r] \in Closers
    BY <1>1, CloserAdvances DEF IInv, TypeOK
  <2>2. (res'[r].state = "closed") <=> (closer'[r] = "ok")
    BY <1>1 DEF IInv, ResourceInv
  <2> QED
    BY <2>1, <2>2 DEF Advances
<1> QED
  BY <1>1, Invariance, PTL DEF Spec, ClosedOnce

-----------------------------------------------------------------------------
(* The tree of scopes.                                                     *)

LEMMA WithinSelf == \A p, s : Within(p, s, s)
BY DEF Within

LEMMA WithinTransitive ==
    ASSUME NEW p, NEW s, NEW t, NEW u, Within(p, s, t), Within(p, t, u)
    PROVE  Within(p, s, u)
BY DEF Within

LEMMA WithinParent ==
    ASSUME NEW p, NEW s
    PROVE  Within(p, s, p[s])
BY DEF Within

\* Who is not s itself contains the parent of s.
LEMMA WithinAbove ==
    ASSUME NEW p \in [Scopes -> Scopes], NEW s \in Scopes, NEW t,
           Within(p, s, t), t # s
    PROVE  Within(p, p[s], t)
<1> SUFFICES ASSUME NEW A \in SUBSET Scopes, p[s] \in A, \A x \in A : p[x] \in A
             PROVE  t \in A
  BY DEF Within
<1>1. A \cup {s} \in SUBSET Scopes
  OBVIOUS
<1>2. \A x \in A \cup {s} : p[x] \in A \cup {s}
  OBVIOUS
<1>3. t \in A \cup {s}
  BY <1>1, <1>2 DEF Within
<1> QED
  BY <1>3

\* The walk from s stays in a set that holds s and parents of its members.
LEMMA WithinClosed ==
    ASSUME NEW p, NEW s, NEW t, Within(p, s, t),
           NEW A \in SUBSET Scopes, s \in A, \A x \in A : p[x] \in A
    PROVE  t \in A
BY DEF Within

\* Two trees that agree on a closed set agree on the walks from its members.
LEMMA WithinAgrees ==
    ASSUME NEW p, NEW q, NEW B \in SUBSET Scopes,
           \A x \in B : p[x] = q[x] /\ p[x] \in B,
           NEW s \in B, NEW t, Within(p, s, t)
    PROVE  Within(q, s, t)
<1> SUFFICES ASSUME NEW A \in SUBSET Scopes, s \in A, \A x \in A : q[x] \in A
             PROVE  t \in A
  BY DEF Within
<1>1. A \cap B \in SUBSET Scopes /\ s \in A \cap B
  OBVIOUS
<1>2. \A x \in A \cap B : p[x] \in A \cap B
  OBVIOUS
<1>3. t \in A \cap B
  BY <1>1, <1>2, WithinClosed
<1> QED
  BY <1>3

-----------------------------------------------------------------------------
(* What holds of scopes and of what is in them.                            *)

Born(s) == scope[s] # "unborn"

\* Scopes form a tree, and everything is in a scope of it.
TreeInv ==
    /\ Born(Root) /\ parent[Root] = Root
    /\ \A s \in Scopes : Born(s) => Born(parent[s]) /\ (parent[s] = s => s = Root)
    /\ \A s, t \in Scopes :
          Born(s) /\ Born(t) /\ Inside(s, t) /\ Inside(t, s) => s = t
    /\ \A a \in Actors : Born(actor[a].scope) /\ Born(actor[a].home)
    /\ \A r \in Resources : Born(res[r].scope)
    /\ \A g \in Tasks : Born(group[g].scope)

\* A live actor has come to its scope through scopes it runs itself, and a
\* scope that is not closed has its runner inside.
PlaceInv ==
    /\ actor[Main].home = Root /\ (Live(Main) <=> scope[Root] # "closed")
    /\ \A a \in Actors, s \in Scopes :
          Live(a) /\ Inside(actor[a].scope, s) =>
              Inside(actor[a].home, s) \/ runner[s] = a
    /\ \A s \in Children : scope[s] \in {"open", "closing"} =>
          /\ Live(runner[s]) /\ Inside(actor[runner[s]].scope, s)
          /\ ~ Inside(actor[runner[s]].home, s)
    /\ \A t \in Tasks : Live(t) => actor[t].kind \in {"participant", "callback"}
    /\ \A t \in Tasks : Live(t) /\ actor[t].kind = "participant" =>
          /\ group[actor[t].group].live
          /\ group[actor[t].group].scope = actor[t].home

\* What a drain has found, and what stays true of a scope it has closed.
Swept(s) == drain[s].phase = "sweeping" \/ scope[s] = "closed"
Unswept(s) == IF drain[s].phase = "sweeping" THEN drain[s].todo ELSE {}
DrainInv(s) ==
    /\ drain[s].phase = "sweeping" => scope[s] = "closing"
    /\ scope[s] = "closed" => drain[s].phase = "none"
    /\ scope[s] = "closed" =>
          /\ \A a \in Actors : Live(a) => ~ Inside(actor[a].scope, s)
          /\ \A t \in Scopes : Born(t) /\ Inside(t, s) => scope[t] = "closed"
    /\ Swept(s) =>
          /\ ~ Busy(s)
          /\ Unswept(s) \subseteq Registered(s)
          /\ \A r \in Registered(s) \ Unswept(s) : closer[r] \in {"ok", "failed"}
          /\ drain[s].found <=> \E r \in Registered(s) \ Unswept(s) : res[r].cleanup
    /\ drain[s].phase = "sweeping" /\ drain[s].awaits =>
          \A r \in drain[s].todo : Latest(drain[s].todo, r) => closer[r] # "none"

FailureKnown == failed <=> \E r \in Resources : res[r].cleanup

SInv == TreeInv /\ PlaceInv /\ (\A s \in Scopes : DrainInv(s)) /\ FailureKnown

LEMMA BornAbove ==
    ASSUME TypeOK, TreeInv, NEW s \in Scopes, Born(s), NEW t, Inside(s, t)
    PROVE  t \in Scopes /\ Born(t)
<1>1. Within(parent, s, t)
  BY DEF Inside
<1>2. \A x \in {y \in Scopes : Born(y)} : parent[x] \in {y \in Scopes : Born(y)}
  BY DEF TypeOK, TreeInv
<1>3. t \in {y \in Scopes : Born(y)}
  BY <1>1, <1>2, WithinClosed
<1> QED
  BY <1>3

\* Nothing is above the root.
LEMMA AboveRoot ==
    ASSUME TypeOK, TreeInv, NEW t, Inside(Root, t)
    PROVE  t = Root
<1>1. {Root} \in SUBSET Scopes /\ \A x \in {Root} : parent[x] \in {Root}
  BY DEF Scopes, TreeInv
<1>2. t \in {Root}
  BY <1>1, WithinClosed DEF Inside
<1> QED
  BY <1>2

\* While a scope is swept, and after, nobody is inside but the one who
\* waits for the end of the sweep.
LEMMA NobodyInside ==
    ASSUME IInv, SInv, NEW s \in Scopes, Swept(s),
           NEW a \in Actors, Live(a), Inside(actor[a].scope, s)
    PROVE  /\ runner[s] = a /\ actor[a].status = "draining"
           /\ actor[a].scope = s /\ drain[s].phase = "sweeping"
<1>1. TypeOK /\ ControlInv /\ TreeInv /\ PlaceInv /\ DrainInv(s)
  BY DEF IInv, SInv
<1>2. scope[s] # "closed" /\ drain[s].phase = "sweeping" /\ ~ Busy(s)
  BY <1>1 DEF DrainInv, Swept
<1>3. Inside(actor[a].home, s) \/ runner[s] = a
  BY <1>1 DEF PlaceInv
<1>4. CASE runner[s] = a
  BY <1>1, <1>2, <1>4 DEF ControlInv
<1>5. CASE Inside(actor[a].home, s)
  <2>1. a \notin Tasks
    <3> SUFFICES ASSUME a \in Tasks PROVE FALSE
      OBVIOUS
    <3>1. actor[a].kind \in {"participant", "callback"}
      BY <1>1 DEF PlaceInv
    <3>2. CASE actor[a].kind = "callback"
      BY <1>2, <1>5, <3>2 DEF Busy
    <3>3. CASE actor[a].kind = "participant"
      <4>1. /\ actor[a].group \in Tasks /\ group[actor[a].group].live
            /\ group[actor[a].group].scope = actor[a].home
        BY <1>1, <3>3 DEF PlaceInv, IInv, GroupInv
      <4> QED
        BY <1>2, <1>5, <4>1 DEF Busy
    <3> QED
      BY <3>1, <3>2, <3>3
  <2>2. a = Main /\ actor[a].home = Root
    BY <1>1, <2>1 DEF Actors, PlaceInv
  <2>3. s = Root
    BY <1>1, <1>5, <2>2, AboveRoot
  <2> QED
    BY <1>1, <1>2, <2>2, <2>3 DEF ControlInv
<1> QED
  BY <1>3, <1>4, <1>5

\* So no actor that runs is inside it.
LEMMA NoneRuns ==
    ASSUME IInv, SInv, NEW s \in Scopes, Swept(s), NEW a \in Actors, Running(a)
    PROVE  ~ Inside(actor[a].scope, s)
BY NobodyInside DEF Running, Live

\* The scopes inside have closed before.
LEMMA ClosedBelow ==
    ASSUME IInv, SInv, NEW s \in Scopes, Swept(s),
           NEW t \in Scopes, Born(t), Inside(t, s), t # s
    PROVE  scope[t] = "closed"
<1> SUFFICES ASSUME scope[t] # "closed" PROVE FALSE
  OBVIOUS
<1>1. TypeOK /\ ControlInv /\ TreeInv /\ PlaceInv
  BY DEF IInv, SInv
<1>2. t # Root
  BY <1>1, AboveRoot
<1>3. t \in Children /\ scope[t] \in {"open", "closing"}
  BY <1>1, <1>2 DEF TypeOK, Scopes, Born
<1>4. /\ Live(runner[t]) /\ Inside(actor[runner[t]].scope, t)
      /\ runner[t] \in Actors
  BY <1>1, <1>3 DEF PlaceInv, TypeOK
<1>5. Inside(actor[runner[t]].scope, s)
  BY <1>4, WithinTransitive DEF Inside
<1>6. actor[runner[t]].scope = s
  BY <1>4, <1>5, NobodyInside
<1>7. Born(s)
  BY <1>1, BornAbove
<1> QED
  BY <1>1, <1>4, <1>6, <1>7 DEF TreeInv

-----------------------------------------------------------------------------
(* What a step leaves alone of it.                                         *)

\* a is where it was, and still runs or still does not.
Placed(a) ==
    /\ actor'[a].scope = actor[a].scope /\ actor'[a].home = actor[a].home
    /\ actor'[a].kind = actor[a].kind /\ actor'[a].group = actor[a].group
    /\ actor'[a].status \notin {"unborn", "done"} <=> Live(a)

LEMMA TreeKeeps ==
    ASSUME TreeInv, parent' = parent,
           \A s \in Scopes : scope'[s] = "unborn" <=> scope[s] = "unborn",
           \A a \in Actors : /\ scope'[actor'[a].scope] # "unborn"
                             /\ scope'[actor'[a].home] # "unborn",
           \A r \in Resources : scope'[res'[r].scope] # "unborn",
           \A g \in Tasks : scope'[group'[g].scope] # "unborn",
           TypeOK
    PROVE  TreeInv'
<1>1. scope'[Root] # "unborn" /\ parent'[Root] = Root
  BY DEF TreeInv, Born, Scopes
<1>2. \A s \in Scopes : scope'[s] # "unborn" =>
         scope'[parent'[s]] # "unborn" /\ (parent'[s] = s => s = Root)
  BY DEF TreeInv, Born, TypeOK
<1>3. \A s, t \in Scopes :
          (/\ scope'[s] # "unborn" /\ scope'[t] # "unborn"
           /\ Within(parent', s, t) /\ Within(parent', t, s)) => s = t
  BY DEF TreeInv, Born, Inside
<1> QED
  BY <1>1, <1>2, <1>3 DEF TreeInv, Born, Inside

LEMMA PlaceKeeps ==
    ASSUME TypeOK, PlaceInv, GroupInv, parent' = parent, runner' = runner,
           \A a \in Actors : Placed(a),
           \A s \in Children : scope'[s] \in {"open", "closing"} =>
               scope[s] \in {"open", "closing"},
           scope'[Root] = "closed" <=> scope[Root] = "closed",
           \A g \in Tasks : group[g].live /\ (\E t \in group[g].members : Live(t)) =>
               group'[g].live /\ group'[g].scope = group[g].scope
    PROVE  PlaceInv'
<1>1. Main \in Actors /\ Tasks \subseteq Actors /\ Children \subseteq Scopes
  BY DEF Actors, Scopes
<1>2. /\ actor'[Main].home = Root
      /\ actor'[Main].status \notin {"unborn", "done"} <=> scope'[Root] # "closed"
  BY <1>1 DEF PlaceInv, Placed
<1>3. \A a \in Actors, s \in Scopes :
        (actor'[a].status \notin {"unborn", "done"} /\ Within(parent', actor'[a].scope, s))
          => Within(parent', actor'[a].home, s) \/ runner'[s] = a
  BY DEF PlaceInv, Placed, Inside
<1>4. \A s \in Children : scope'[s] \in {"open", "closing"} =>
        /\ actor'[runner'[s]].status \notin {"unborn", "done"}
        /\ Within(parent', actor'[runner'[s]].scope, s)
        /\ ~ Within(parent', actor'[runner'[s]].home, s)
  <2>1. \A s \in Children : runner[s] \in Actors
    BY <1>1 DEF TypeOK
  <2> QED
    BY <2>1 DEF PlaceInv, Placed, Inside
<1>5. \A t \in Tasks : actor'[t].status \notin {"unborn", "done"} =>
        /\ actor'[t].kind \in {"participant", "callback"}
        /\ actor'[t].kind = "participant" =>
             /\ group'[actor'[t].group].live
             /\ group'[actor'[t].group].scope = actor'[t].home
  <2> SUFFICES ASSUME NEW t \in Tasks, actor'[t].status \notin {"unborn", "done"}
               PROVE  /\ actor'[t].kind \in {"participant", "callback"}
                      /\ actor'[t].kind = "participant" =>
                           /\ group'[actor'[t].group].live
                           /\ group'[actor'[t].group].scope = actor'[t].home
    OBVIOUS
  <2>1. Live(t) /\ Placed(t)
    BY <1>1 DEF Placed
  <2>2. actor[t].kind \in {"participant", "callback"}
    BY <2>1 DEF PlaceInv
  <2>3. CASE actor[t].kind = "participant"
    <3>1. /\ actor[t].group \in Tasks /\ t \in group[actor[t].group].members
          /\ group[actor[t].group].live /\ group[actor[t].group].scope = actor[t].home
      BY <2>1, <2>3 DEF GroupInv, PlaceInv
    <3> QED
      BY <2>1, <2>2, <3>1 DEF Placed
  <2>4. CASE actor[t].kind # "participant"
    BY <2>1, <2>2, <2>4 DEF Placed
  <2> QED
    BY <2>3, <2>4
<1> QED
  BY <1>2, <1>3, <1>4, <1>5 DEF PlaceInv, Live, Inside

\* The close of a resource is over.
Over(r) == closer[r] \in {"ok", "failed"}

\* A scope that is drained, or not drained, as before.
LEMMA DrainKeeps ==
    ASSUME NEW s \in Scopes, DrainInv(s), drain'[s] = drain[s], scope'[s] = scope[s],
           Swept(s) => ~ Busy(s)',
           scope[s] = "closed" => \A a \in Actors :
               actor'[a].status \notin {"unborn", "done"} =>
                   ~ Within(parent', actor'[a].scope, s),
           scope[s] = "closed" => \A t \in Scopes :
               scope'[t] # "unborn" /\ Within(parent', t, s) => scope'[t] = "closed",
           Swept(s) => Registered(s)' = Registered(s),
           \A r \in Registered(s) : Over(r) =>
               closer'[r] = closer[r] /\ (res'[r].cleanup <=> res[r].cleanup),
           \A r \in Registered(s) : closer[r] # "none" => closer'[r] # "none",
           drain[s].phase = "sweeping" =>
               \A r \in drain[s].todo :
                   Latest(drain[s].todo, r)' => Latest(drain[s].todo, r)
    PROVE  DrainInv(s)'
<1>1. Swept(s)' <=> Swept(s)
  BY DEF Swept
<1>2. Unswept(s)' = Unswept(s)
  BY DEF Unswept
<1>3. ASSUME Swept(s)
      PROVE  /\ Unswept(s)' \subseteq Registered(s)'
             /\ \A r \in Registered(s)' \ Unswept(s)' : closer'[r] \in {"ok", "failed"}
             /\ drain'[s].found <=>
                  \E r \in Registered(s)' \ Unswept(s)' : res'[r].cleanup
  <2>1. Registered(s)' = Registered(s)
    BY <1>3
  <2>2. \A r \in Registered(s) \ Unswept(s) :
          /\ closer'[r] \in {"ok", "failed"}
          /\ res'[r].cleanup <=> res[r].cleanup
    BY <1>3 DEF DrainInv, Over
  <2>3. Unswept(s) \subseteq Registered(s)
    BY <1>3 DEF DrainInv
  <2>4. drain[s].found <=> \E r \in Registered(s) \ Unswept(s) : res[r].cleanup
    BY <1>3 DEF DrainInv
  <2> QED
    BY <1>2, <2>1, <2>2, <2>3, <2>4
<1>4. ASSUME drain'[s].phase = "sweeping", drain'[s].awaits,
             NEW r \in drain'[s].todo, Latest(drain[s].todo, r)'
      PROVE  closer'[r] # "none"
  <2>1. Swept(s) /\ drain[s].phase = "sweeping" /\ drain[s].awaits
    BY <1>4 DEF Swept
  <2>2. Latest(drain[s].todo, r) /\ r \in Registered(s)
    BY <1>4, <2>1 DEF DrainInv, Unswept
  <2> QED
    BY <1>4, <2>1, <2>2 DEF DrainInv
<1>5. /\ drain'[s].phase = "sweeping" => scope'[s] = "closing"
      /\ scope'[s] = "closed" => drain'[s].phase = "none"
  BY DEF DrainInv
<1>6. scope'[s] = "closed" =>
        /\ \A a \in Actors : actor'[a].status \notin {"unborn", "done"} =>
             ~ Within(parent', actor'[a].scope, s)
        /\ \A t \in Scopes : (scope'[t] # "unborn" /\ Within(parent', t, s)) =>
             scope'[t] = "closed"
  OBVIOUS
<1>7. Swept(s)' => ~ Busy(s)'
  BY <1>1
<1> QED
  BY <1>1, <1>3, <1>4, <1>5, <1>6, <1>7 DEF DrainInv, Live, Inside, Born

LEMMA BusyKeeps ==
    ASSUME parent' = parent, group' = group, \A a \in Actors : Placed(a), NEW s
    PROVE  Busy(s)' <=> Busy(s)
<1>1. Tasks \subseteq Actors
  BY DEF Actors
<1> QED
  BY <1>1 DEF Busy, Placed, Inside, Live

\* A step that moves nobody and touches no scope, but for what a drain does.
LEMMA ScopesKeep ==
    ASSUME IInv, SInv,
           UNCHANGED <<scope, parent, runner, order, group>>,
           \A a \in Actors : Placed(a),
           \A r \in Resources :
               /\ res'[r].scope = res[r].scope
               /\ res'[r].state = "unborn" <=> res[r].state = "unborn"
               /\ Over(r) => closer'[r] = closer[r] /\ (res'[r].cleanup <=> res[r].cleanup)
               /\ closer[r] # "none" => closer'[r] # "none"
    PROVE  /\ TreeInv' /\ PlaceInv'
           /\ \A s \in Scopes : drain'[s] = drain[s] => DrainInv(s)'
           /\ \A s \in Scopes : /\ Registered(s)' = Registered(s)
                                /\ Busy(s)' <=> Busy(s)
<1>1. TypeOK /\ GroupInv /\ TreeInv /\ PlaceInv /\ \A s \in Scopes : DrainInv(s)
  BY DEF IInv, SInv
<1>2. TreeInv'
  <2>1. \A a \in Actors : /\ scope'[actor'[a].scope] # "unborn"
                          /\ scope'[actor'[a].home] # "unborn"
    BY <1>1 DEF TreeInv, Placed, Born
  <2>2. \A r \in Resources : scope'[res'[r].scope] # "unborn"
    BY <1>1 DEF TreeInv, Born
  <2>3. \A g \in Tasks : scope'[group'[g].scope] # "unborn"
    BY <1>1 DEF TreeInv, Born
  <2> QED
    BY <1>1, <2>1, <2>2, <2>3, TreeKeeps
<1>3. PlaceInv'
  BY <1>1, PlaceKeeps
<1>4. ASSUME NEW s \in Scopes
      PROVE  Registered(s)' = Registered(s) /\ (Busy(s)' <=> Busy(s))
  <2>1. Registered(s)' = Registered(s)
    BY DEF Registered, Inside
  <2> QED
    BY <2>1, BusyKeeps
<1>5. ASSUME NEW s \in Scopes, drain'[s] = drain[s] PROVE DrainInv(s)'
  <2>1. Swept(s) => ~ Busy(s)'
    BY <1>1, <1>4 DEF DrainInv
  <2>2. scope[s] = "closed" => \A a \in Actors :
          actor'[a].status \notin {"unborn", "done"} =>
              ~ Within(parent', actor'[a].scope, s)
    BY <1>1 DEF DrainInv, Placed, Inside
  <2>3. scope[s] = "closed" => \A t \in Scopes :
          (scope'[t] # "unborn" /\ Within(parent', t, s)) => scope'[t] = "closed"
    BY <1>1 DEF DrainInv, Inside, Born
  <2>4. Registered(s) \subseteq Resources
    BY DEF Registered
  <2>5. \A r : Latest(drain[s].todo, r)' <=> Latest(drain[s].todo, r)
    BY <1>5 DEF Latest
  <2> QED
    BY <1>1, <1>4, <1>5, <2>1, <2>2, <2>3, <2>4, <2>5, DrainKeeps
<1> QED
  BY <1>2, <1>3, <1>4, <1>5

LEMMA PlainStep ==
    ASSUME IInv, SInv,
           UNCHANGED <<scope, parent, runner, drain, order, group>>,
           \A a \in Actors : Placed(a),
           \A r \in Resources :
               /\ res'[r].scope = res[r].scope
               /\ res'[r].state = "unborn" <=> res[r].state = "unborn"
               /\ Over(r) => closer'[r] = closer[r] /\ (res'[r].cleanup <=> res[r].cleanup)
               /\ closer[r] # "none" => closer'[r] # "none",
           FailureKnown'
    PROVE  SInv'
<1>1. /\ TreeInv' /\ PlaceInv'
      /\ \A s \in Scopes : drain'[s] = drain[s] => DrainInv(s)'
  BY ScopesKeep
<1> QED
  BY <1>1 DEF SInv

LEMMA OnePlaced ==
    ASSUME TypeOK, NEW a \in Actors, NEW x, actor' = [actor EXCEPT ![a] = x],
           x.scope = actor[a].scope, x.home = actor[a].home,
           x.kind = actor[a].kind, x.group = actor[a].group,
           Live(a), x.status \notin {"unborn", "done"}
    PROVE  \A b \in Actors : Placed(b)
<1> SUFFICES ASSUME NEW b \in Actors PROVE Placed(b)
  OBVIOUS
<1>1. CASE b = a
  BY <1>1 DEF Placed, TypeOK
<1>2. CASE b # a
  BY <1>2 DEF Placed, TypeOK, Live
<1> QED
  BY <1>1, <1>2

LEMMA NonePlaced ==
    ASSUME actor' = actor
    PROVE  \A b \in Actors : Placed(b)
BY DEF Placed, Live

LEMMA FailureStays ==
    ASSUME FailureKnown, failed' = failed,
           \A r \in Resources : res'[r].cleanup <=> res[r].cleanup
    PROVE  FailureKnown'
BY DEF FailureKnown

LEMMA PlainUse ==
    ASSUME IInv, SInv, (\E a \in Actors, r \in Resources : Use(a, r))
                       \/ (\E u \in uses : UseEnds(u))
    PROVE  SInv'
<1>1. UNCHANGED <<scope, parent, runner, drain, order, group, actor, res, closer,
                  failed>>
  BY DEF Use, UseEnds
<1>2. FailureKnown'
  BY <1>1, FailureStays DEF SInv
<1>3. \A a \in Actors : Placed(a)
  BY <1>1, NonePlaced
<1> QED
  BY <1>1, <1>2, <1>3, PlainStep

LEMMA PlainClose ==
    ASSUME IInv, SInv, NEW a \in Actors, NEW r \in Resources, Close(a, r)
    PROVE  SInv'
<1> DEFINE x == [res[r] EXCEPT !.initial =
                   @ /\ ~ (res[r].initial /\ res[r].creator = a)]
           y == [actor[a] EXCEPT !.status = "closing", !.awaits = {r}]
<1>1. /\ TypeOK /\ res[r] \in ResourceRecord /\ actor[a] \in ActorRecord
      /\ ResourceInv(r) /\ res[r].state # "unborn" /\ Live(a)
  BY DEF IInv, TypeOK, Close, ValidScope, Running, Live
<1>2. /\ Closing(r, x) /\ actor' = [actor EXCEPT ![a] = y]
      /\ UNCHANGED <<scope, parent, runner, drain, order, uses, group, reported,
                     failed>>
  BY DEF Close
<1>3. /\ x \in ResourceRecord /\ x.scope = res[r].scope /\ x.cleanup = res[r].cleanup
      /\ x.state = res[r].state
  BY <1>1 DEF ResourceRecord
<1>4. /\ y.scope = actor[a].scope /\ y.home = actor[a].home
      /\ y.kind = actor[a].kind /\ y.group = actor[a].group /\ y.status = "closing"
  BY <1>1 DEF ActorRecord
<1> HIDE DEF x, y
<1>5. \A b \in Actors : Placed(b)
  BY <1>1, <1>2, <1>4, OnePlaced
<1>6. \A q \in Resources :
        /\ res'[q].scope = res[q].scope
        /\ res'[q].state = "unborn" <=> res[q].state = "unborn"
        /\ res'[q].cleanup = res[q].cleanup
        /\ closer[q] # "none" => closer'[q] = closer[q]
  <2>1. /\ \A q \in Resources \ {r} : res'[q] = res[q] /\ closer'[q] = closer[q]
        /\ res'[r].cleanup = x.cleanup /\ res'[r].scope = x.scope
        /\ res'[r].state \in {x.state, "closing"}
        /\ closer[r] # "none" => closer'[r] = closer[r]
    BY <1>1, <1>2, <1>3, ClosingChanges
  <2> QED
    BY <1>1, <1>3, <2>1
<1>7. FailureKnown'
  BY <1>2, <1>6, FailureStays DEF SInv
<1> QED
  BY <1>2, <1>5, <1>6, <1>7, PlainStep DEF Over

LEMMA PlainReturn ==
    ASSUME IInv, SInv, NEW a \in Actors, CloseReturns(a) \/ CloseDeadline(a)
    PROVE  SInv'
<1> DEFINE y == [actor[a] EXCEPT !.status = "running", !.awaits = {}]
<1>1. /\ TypeOK /\ actor[a] \in ActorRecord /\ Live(a)
      /\ \A q \in Resources : res[q] \in ResourceRecord
  BY DEF IInv, TypeOK, CloseReturns, CloseDeadline, Live
<1>2. /\ actor' = [actor EXCEPT ![a] = y]
      /\ UNCHANGED <<scope, parent, runner, drain, order, closer, group>>
  BY DEF CloseReturns, CloseDeadline
<1>3. /\ y.scope = actor[a].scope /\ y.home = actor[a].home
      /\ y.kind = actor[a].kind /\ y.group = actor[a].group /\ y.status = "running"
  BY <1>1 DEF ActorRecord
<1> HIDE DEF y
<1>4. \A b \in Actors : Placed(b)
  BY <1>1, <1>2, <1>3, OnePlaced
<1>5. CASE CloseReturns(a)
  <2>1. UNCHANGED <<res, failed>>
    BY <1>5 DEF CloseReturns
  <2>2. FailureKnown'
    BY <2>1, FailureStays DEF SInv
  <2> QED
    BY <1>2, <1>4, <2>1, <2>2, PlainStep
<1>6. CASE CloseDeadline(a)
  <2>1. PICK r \in actor[a].awaits :
          /\ ~ Over(r) /\ res' = [res EXCEPT ![r] = [@ EXCEPT !.cleanup = TRUE]]
    BY <1>6 DEF CloseDeadline, Over
  <2>2. r \in Resources
    BY <1>1 DEF ActorRecord
  <2> DEFINE x == [res[r] EXCEPT !.cleanup = TRUE]
  <2>3. x.scope = res[r].scope /\ x.state = res[r].state /\ x.cleanup
    BY <1>1, <2>2 DEF ResourceRecord
  <2>4. res' = [res EXCEPT ![r] = x]
    BY <2>1
  <2> HIDE DEF x
  <2>5. res'[r] = x /\ \A q \in Resources \ {r} : res'[q] = res[q]
    BY <1>1, <2>2, <2>4 DEF TypeOK
  <2>6. FailureKnown'
    BY <1>6, <2>2, <2>3, <2>5 DEF FailureKnown, CloseDeadline
  <2>7. \A q \in Resources :
          /\ res'[q].scope = res[q].scope
          /\ res'[q].state = res[q].state
          /\ Over(q) => (res'[q].cleanup <=> res[q].cleanup)
    BY <2>1, <2>3, <2>5
  <2> QED
    BY <1>2, <1>4, <2>6, <2>7, PlainStep
<1> QED
  BY <1>5, <1>6

LEMMA PlainCloser ==
    ASSUME IInv, SInv, NEW r \in Resources,
           CloserStarts(r) \/ (\E ok \in BOOLEAN : CloserEnds(r, ok)) \/ Timer(r)
    PROVE  SInv'
<1>1. /\ TypeOK /\ ResourceInv(r) /\ res[r] \in ResourceRecord
      /\ UNCHANGED <<scope, parent, runner, drain, order, group, actor>>
  BY DEF IInv, TypeOK, CloserStarts, CloserEnds, Timer
<1>2. \A b \in Actors : Placed(b)
  BY <1>1, NonePlaced
<1>3. CASE CloserStarts(r)
  <2>1. /\ closer[r] = "waiting" /\ UNCHANGED <<res, failed>>
        /\ closer'[r] = "running"
        /\ \A q \in Resources \ {r} : closer'[q] = closer[q]
    BY <1>1, <1>3 DEF CloserStarts, TypeOK
  <2>2. FailureKnown'
    BY <2>1, FailureStays DEF SInv
  <2>3. \A q \in Resources : /\ Over(q) => closer'[q] = closer[q]
                             /\ closer[q] # "none" => closer'[q] # "none"
    BY <2>1 DEF Over
  <2> QED
    BY <1>1, <1>2, <2>1, <2>2, <2>3, PlainStep
<1>4. ASSUME NEW ok \in BOOLEAN, CloserEnds(r, ok) PROVE SInv'
  <2> DEFINE x == IF ok THEN [res[r] EXCEPT !.state = "closed", !.timer = FALSE]
                        ELSE [res[r] EXCEPT !.cleanup = TRUE, !.timer = FALSE]
  <2>1. /\ closer[r] = "running" /\ failed' = (failed \/ ~ ok)
        /\ closer' = [closer EXCEPT ![r] = IF ok THEN "ok" ELSE "failed"]
        /\ res' = [res EXCEPT ![r] = x]
    BY <1>1, <1>4 DEF CloserEnds, TypeOK
  <2>2. /\ x.scope = res[r].scope /\ x.state \in {res[r].state, "closed"}
        /\ (x.cleanup <=> res[r].cleanup \/ ~ ok)
    BY <1>1 DEF ResourceRecord
  <2> HIDE DEF x
  <2>3. /\ closer'[r] # "none" /\ res'[r] = x
        /\ \A q \in Resources \ {r} : closer'[q] = closer[q] /\ res'[q] = res[q]
    BY <1>1, <2>1 DEF TypeOK
  <2>4. res[r].state # "unborn"
    BY <1>1, <2>1 DEF ResourceInv
  <2>5. FailureKnown'
    <3>1. CASE ok
      <4>1. failed' = failed
        BY <1>1, <2>1, <3>1 DEF TypeOK
      <4>2. \A q \in Resources : res'[q].cleanup <=> res[q].cleanup
        BY <2>2, <2>3, <3>1
      <4> QED
        BY <4>1, <4>2, FailureStays DEF SInv
    <3>2. CASE ~ ok
      BY <2>1, <2>2, <2>3, <3>2 DEF FailureKnown
    <3> QED
      BY <3>1, <3>2
  <2>6. \A q \in Resources :
          /\ res'[q].scope = res[q].scope
          /\ res'[q].state = "unborn" <=> res[q].state = "unborn"
          /\ Over(q) => closer'[q] = closer[q] /\ (res'[q].cleanup <=> res[q].cleanup)
          /\ closer[q] # "none" => closer'[q] # "none"
    BY <2>1, <2>2, <2>3, <2>4 DEF Over
  <2> QED
    BY <1>1, <1>2, <2>5, <2>6, PlainStep
<1>5. CASE Timer(r)
  <2> DEFINE x == [res[r] EXCEPT !.timer = FALSE, !.cleanup = TRUE,
                                 !.state = "closing",
                                 !.auto = @ \/ res[r].state = "open"]
  <2>1. res[r].timer /\ failed' = TRUE /\ closer' = closer /\ res' = [res EXCEPT ![r] = x]
    BY <1>5 DEF Timer
  <2>2. x.scope = res[r].scope /\ x.state = "closing" /\ x.cleanup
    BY <1>1 DEF ResourceRecord
  <2> HIDE DEF x
  <2>3. res'[r] = x /\ \A q \in Resources \ {r} : res'[q] = res[q]
    BY <1>1, <2>1 DEF TypeOK
  <2>4. res[r].state \in {"open", "closing"} /\ ~ Over(r)
    BY <1>1, <2>1 DEF ResourceInv, Over
  <2>5. FailureKnown'
    BY <2>1, <2>2, <2>3 DEF FailureKnown
  <2>6. \A q \in Resources :
          /\ res'[q].scope = res[q].scope
          /\ res'[q].state = "unborn" <=> res[q].state = "unborn"
          /\ Over(q) => (res'[q].cleanup <=> res[q].cleanup)
    BY <2>2, <2>3, <2>4
  <2> QED
    BY <1>1, <1>2, <2>1, <2>5, <2>6, PlainStep
<1> QED
  BY <1>3, <1>4, <1>5

LEMMA RegisterPlaces ==
    ASSUME IInv, SInv, NEW a \in Actors, NEW r \in Resources, NEW options \in Options,
           Register(a, r, options)
    PROVE  SInv'
<1> DEFINE x == [Unregistered EXCEPT !.state = "open", !.scope = actor[a].scope,
                                     !.options = options, !.creator = a,
                                     !.initial = IsTask(a)]
<1>1. /\ TypeOK /\ GroupInv /\ TreeInv /\ PlaceInv /\ FailureKnown
      /\ \A s \in Scopes : DrainInv(s)
      /\ Running(a) /\ res[r].state = "unborn" /\ ~ res[r].cleanup
  BY DEF IInv, SInv, Register, ResourceInv
<1>2. /\ res' = [res EXCEPT ![r] = x] /\ order' = Append(order, r)
      /\ UNCHANGED <<scope, parent, runner, drain, closer, actor, group, failed>>
  BY DEF Register
<1>3. x.scope = actor[a].scope /\ x.state = "open" /\ ~ x.cleanup
  BY DEF Unregistered
<1> HIDE DEF x
<1>4. res'[r] = x /\ \A q \in Resources \ {r} : res'[q] = res[q]
  BY <1>1, <1>2 DEF TypeOK
<1>5. TreeInv'
  <2>1. \A q \in Resources : scope'[res'[q].scope] # "unborn"
    BY <1>1, <1>2, <1>3, <1>4 DEF TreeInv, Born
  <2>2. /\ \A b \in Actors : /\ scope'[actor'[b].scope] # "unborn"
                             /\ scope'[actor'[b].home] # "unborn"
        /\ \A g \in Tasks : scope'[group'[g].scope] # "unborn"
    BY <1>1, <1>2 DEF TreeInv, Born
  <2> QED
    BY <1>1, <1>2, <2>1, <2>2, TreeKeeps
<1>6. \A b \in Actors : Placed(b)
  BY <1>2, NonePlaced
<1>7. PlaceInv'
  BY <1>1, <1>2, <1>6, PlaceKeeps
<1>8. FailureKnown'
  BY <1>1, <1>2, <1>3, <1>4, FailureStays
<1>9. ASSUME NEW s \in Scopes PROVE DrainInv(s)'
  <2>1. Swept(s) => ~ Busy(s)'
    BY <1>1, <1>2, <1>6, BusyKeeps DEF DrainInv
  <2>2. scope[s] = "closed" => \A b \in Actors :
          actor'[b].status \notin {"unborn", "done"} =>
              ~ Within(parent', actor'[b].scope, s)
    BY <1>1, <1>2 DEF DrainInv, Inside, Live
  <2>3. scope[s] = "closed" => \A t \in Scopes :
          (scope'[t] # "unborn" /\ Within(parent', t, s)) => scope'[t] = "closed"
    BY <1>1, <1>2 DEF DrainInv, Inside, Born
  <2>4. Swept(s) => Registered(s)' = Registered(s)
    <3> SUFFICES ASSUME Swept(s) PROVE Registered(s)' = Registered(s)
      OBVIOUS
    <3>1. ~ Within(parent, actor[a].scope, s)
      BY <1>1, NoneRuns DEF Inside
    <3> QED
      BY <1>1, <1>2, <1>3, <1>4, <3>1 DEF Registered, Inside
  <2>5. Registered(s) \subseteq Resources \ {r}
    BY <1>1 DEF Registered
  <2>6. \A q : Latest(drain[s].todo, q)' => Latest(drain[s].todo, q)
    <3>1. \A i \in DOMAIN order : i \in DOMAIN order' /\ order'[i] = order[i]
      <4>1. order \in Seq(Resources) /\ order' = Append(order, r)
        BY <1>1, <1>2 DEF TypeOK
      <4> QED
        BY <4>1
    <3> QED
      BY <1>2, <3>1 DEF Latest
  <2> QED
    BY <1>1, <1>2, <1>4, <2>1, <2>2, <2>3, <2>4, <2>5, <2>6, DrainKeeps
<1> QED
  BY <1>5, <1>7, <1>8, <1>9 DEF SInv

\* A step of tasks and groups.
LEMMA TaskStep ==
    ASSUME IInv, SInv,
           UNCHANGED <<scope, parent, runner, drain, order, closer, failed>>,
           \A r \in Resources : /\ res'[r].scope = res[r].scope
                                /\ res'[r].state = res[r].state
                                /\ res'[r].cleanup = res[r].cleanup,
           \A a \in Actors : /\ scope[actor'[a].scope] # "unborn"
                             /\ scope[actor'[a].home] # "unborn",
           \A g \in Tasks : scope[group'[g].scope] # "unborn",
           PlaceInv',
           \A s \in Scopes : Swept(s) => ~ Busy(s)',
           \A s \in Scopes : scope[s] = "closed" => \A a \in Actors :
               actor'[a].status \notin {"unborn", "done"} =>
                   ~ Within(parent, actor'[a].scope, s)
    PROVE  SInv'
<1>1. /\ TypeOK /\ TreeInv /\ FailureKnown /\ \A s \in Scopes : DrainInv(s)
  BY DEF IInv, SInv
<1>2. TreeInv'
  <2>1. \A r \in Resources : scope'[res'[r].scope] # "unborn"
    BY <1>1 DEF TreeInv, Born
  <2> QED
    BY <1>1, <2>1, TreeKeeps
<1>3. FailureKnown'
  BY <1>1, FailureStays
<1>4. ASSUME NEW s \in Scopes PROVE DrainInv(s)'
  <2>1. scope[s] = "closed" => \A t \in Scopes :
          (scope'[t] # "unborn" /\ Within(parent', t, s)) => scope'[t] = "closed"
    BY <1>1 DEF DrainInv, Inside, Born
  <2>2. Registered(s)' = Registered(s) /\ Registered(s) \subseteq Resources
    BY DEF Registered, Inside
  <2>3. \A q : Latest(drain[s].todo, q)' => Latest(drain[s].todo, q)
    BY DEF Latest
  <2> QED
    BY <1>1, <2>1, <2>2, <2>3, DrainKeeps
<1> QED
  BY <1>2, <1>3, <1>4 DEF SInv

LEMMA CalledPlaces ==
    ASSUME IInv, SInv, NEW t \in Tasks, NEW s \in Scopes, NEW k \in Keys,
           actor[t].status = "unborn", Called(t, s, k), Born(s),
           \A q \in Scopes : Swept(q) => ~ Inside(s, q),
           UNCHANGED <<scope, parent, runner, drain, res, order, leases, closer,
                       uses, group, reported, failed>>
    PROVE  SInv'
<1> DEFINE x == [Inactive EXCEPT !.status = "running", !.scope = s, !.home = s,
                                 !.key = k]
<1>1. /\ TypeOK /\ GroupInv /\ TreeInv /\ PlaceInv /\ \A q \in Scopes : DrainInv(q)
      /\ t \in Actors /\ Tasks \subseteq Actors /\ t # Main /\ Main \in Actors
  BY MainAssumption DEF IInv, SInv, Actors
<1>2. actor' = [actor EXCEPT ![t] = x]
  BY DEF Called
<1>3. x.status = "running" /\ x.scope = s /\ x.home = s /\ x.kind = "callback"
  BY DEF Inactive
<1> HIDE DEF x
<1>4. actor'[t] = x /\ \A b \in Actors \ {t} : actor'[b] = actor[b]
  BY <1>1, <1>2 DEF TypeOK
<1>5. \A b \in Actors : /\ scope[actor'[b].scope] # "unborn"
                        /\ scope[actor'[b].home] # "unborn"
  BY <1>1, <1>3, <1>4 DEF TreeInv, Born
<1>6. PlaceInv'
  <2>1. /\ actor'[Main].home = Root
        /\ actor'[Main].status \notin {"unborn", "done"} <=> scope[Root] # "closed"
    BY <1>1, <1>4 DEF PlaceInv, Live
  <2>2. \A a \in Actors, q \in Scopes :
          (actor'[a].status \notin {"unborn", "done"} /\ Within(parent, actor'[a].scope, q))
            => Within(parent, actor'[a].home, q) \/ runner[q] = a
    BY <1>1, <1>3, <1>4 DEF PlaceInv, Inside, Live
  <2>3. \A q \in Children : scope[q] \in {"open", "closing"} =>
          /\ actor'[runner[q]].status \notin {"unborn", "done"}
          /\ Within(parent, actor'[runner[q]].scope, q)
          /\ ~ Within(parent, actor'[runner[q]].home, q)
    <3>1. \A q \in Children : runner[q] \in Actors
      BY <1>1 DEF TypeOK, Scopes
    <3> QED
      BY <1>1, <1>4, <3>1 DEF PlaceInv, Inside, Live
  <2>4. \A b \in Tasks : actor'[b].status \notin {"unborn", "done"} =>
          /\ actor'[b].kind \in {"participant", "callback"}
          /\ actor'[b].kind = "participant" =>
               /\ group[actor'[b].group].live
               /\ group[actor'[b].group].scope = actor'[b].home
    BY <1>1, <1>3, <1>4 DEF PlaceInv, Live
  <2> QED
    BY <2>1, <2>2, <2>3, <2>4 DEF PlaceInv, Live, Inside
<1>7. ASSUME NEW q \in Scopes, Swept(q) PROVE ~ Busy(q)'
  <2>1. ~ Busy(q) /\ ~ Within(parent, s, q)
    BY <1>1, <1>7 DEF DrainInv, Inside
  <2> QED
    BY <1>1, <1>3, <1>4, <2>1 DEF Busy, Inside, Live
<1>8. ASSUME NEW q \in Scopes, scope[q] = "closed", NEW b \in Actors,
             actor'[b].status \notin {"unborn", "done"}
      PROVE  ~ Within(parent, actor'[b].scope, q)
  <2>1. CASE b = t
    BY <1>3, <1>4, <1>8, <2>1 DEF Swept, Inside
  <2>2. CASE b # t
    BY <1>1, <1>4, <1>8, <2>2 DEF DrainInv, Inside, Live
  <2> QED
    BY <2>1, <2>2
<1>9. \A g \in Tasks : scope[group'[g].scope] # "unborn"
  BY <1>1 DEF TreeInv, Born
<1> QED
  BY <1>5, <1>6, <1>7, <1>8, <1>9, TaskStep

LEMMA DispatchPlaces ==
    ASSUME IInv, SInv, NEW t \in Tasks, NEW s \in Scopes, Dispatch(t, s)
    PROVE  SInv'
<1>1. actor[t].status = "unborn" /\ scope[s] = "open" /\ Born(s) /\ t \in Keys
  BY DEF Dispatch, Born, Keys
<1>2. ASSUME NEW q \in Scopes, Swept(q) PROVE ~ Inside(s, q)
  <2>1. DrainInv(q)
    BY DEF SInv
  <2>2. s # q
    BY <1>1, <1>2, <2>1 DEF DrainInv, Swept
  <2> QED
    BY <1>1, <1>2, <2>2, ClosedBelow
<1> QED
  BY <1>1, <1>2, CalledPlaces DEF Dispatch

LEMMA ReenterPlaces ==
    ASSUME IInv, SInv, NEW t \in Tasks, NEW a \in Tasks, NEW s \in Scopes,
           Reenter(t, a, s)
    PROVE  SInv'
<1>1. a \in Actors /\ Running(a) /\ TypeOK /\ TreeInv
  BY DEF Reenter, Actors, IInv, SInv
<1>2. actor[a].scope \in Scopes /\ actor[a].key \in Keys /\ Born(actor[a].scope)
  BY <1>1, KeyTyped DEF TreeInv
<1>3. \A q \in Scopes : Swept(q) => ~ Inside(actor[a].scope, q)
  BY <1>1, NoneRuns
<1> QED
  BY <1>2, <1>3, CalledPlaces DEF Reenter

\* The end of a task that is back in the scope it was started in.
LEMMA LeavesPlaces ==
    ASSUME IInv, SInv, NEW t \in Tasks, NEW x, Leaves(t, x), x.status = "done",
           x.scope = Root, x.home = Root, actor[t].scope = actor[t].home,
           \A g \in Tasks : group'[g].live =>
               group[g].live /\ group'[g].scope = group[g].scope,
           \A g \in Tasks : ~ group'[g].live => group'[g].scope = group[g].scope
                                                \/ group'[g].scope = Root,
           \A g \in Tasks :
               group[g].live /\ (\E u \in group[g].members \ {t} : Live(u)) =>
                   group'[g].live
    PROVE  SInv'
<1>1. /\ TypeOK /\ GroupInv /\ TreeInv /\ PlaceInv /\ \A q \in Scopes : DrainInv(q)
      /\ t \in Actors /\ Tasks \subseteq Actors /\ t # Main /\ Main \in Actors
      /\ Live(t) /\ \A r \in Resources : res[r] \in ResourceRecord
  BY MainAssumption DEF IInv, SInv, Actors, Leaves, Running, Live, TypeOK
<1>2. /\ actor' = [actor EXCEPT ![t] = x] /\ res' = Surrendered(t)
      /\ UNCHANGED <<scope, parent, runner, drain, order, closer, failed>>
  BY DEF Leaves
<1>3. actor'[t] = x /\ \A b \in Actors \ {t} : actor'[b] = actor[b]
  BY <1>1, <1>2 DEF TypeOK
<1>4. \A r \in Resources : /\ res'[r].scope = res[r].scope
                           /\ res'[r].state = res[r].state
                           /\ res'[r].cleanup = res[r].cleanup
  <2> TAKE r \in Resources
  <2>1. res'[r] = [res[r] EXCEPT !.initial = FALSE] \/ res'[r] = res[r]
    BY <1>2 DEF Surrendered
  <2> QED
    BY <1>1, <2>1 DEF ResourceRecord
<1>5. \A b \in Actors : /\ scope[actor'[b].scope] # "unborn"
                        /\ scope[actor'[b].home] # "unborn"
  BY <1>1, <1>3 DEF TreeInv, Born
<1>6. \A g \in Tasks : scope[group'[g].scope] # "unborn"
  BY <1>1 DEF TreeInv, Born
<1>7. PlaceInv'
  <2>1. /\ actor'[Main].home = Root
        /\ actor'[Main].status \notin {"unborn", "done"} <=> scope[Root] # "closed"
    BY <1>1, <1>3 DEF PlaceInv, Live
  <2>2. \A a \in Actors, q \in Scopes :
          (actor'[a].status \notin {"unborn", "done"} /\ Within(parent, actor'[a].scope, q))
            => Within(parent, actor'[a].home, q) \/ runner[q] = a
    BY <1>1, <1>3 DEF PlaceInv, Inside, Live
  <2>3. ASSUME NEW q \in Children, scope[q] \in {"open", "closing"}
        PROVE  /\ actor'[runner[q]].status \notin {"unborn", "done"}
               /\ Within(parent, actor'[runner[q]].scope, q)
               /\ ~ Within(parent, actor'[runner[q]].home, q)
    <3>1. runner[q] \in Actors
      BY <1>1 DEF TypeOK, Scopes
    <3>2. /\ Live(runner[q]) /\ Inside(actor[runner[q]].scope, q)
          /\ ~ Inside(actor[runner[q]].home, q)
      BY <1>1, <2>3 DEF PlaceInv
    <3>3. runner[q] # t
      BY <3>2
    <3> QED
      BY <1>3, <3>1, <3>2, <3>3 DEF Inside, Live
  <2>4. ASSUME NEW b \in Tasks, actor'[b].status \notin {"unborn", "done"}
        PROVE  /\ actor'[b].kind \in {"participant", "callback"}
               /\ actor'[b].kind = "participant" =>
                    /\ group'[actor'[b].group].live
                    /\ group'[actor'[b].group].scope = actor'[b].home
    <3>1. b # t /\ actor'[b] = actor[b] /\ Live(b)
      BY <1>1, <1>3, <2>4 DEF Live
    <3>2. actor[b].kind \in {"participant", "callback"}
      BY <1>1, <3>1 DEF PlaceInv
    <3>3. ASSUME actor[b].kind = "participant"
          PROVE  /\ group'[actor[b].group].live
                 /\ group'[actor[b].group].scope = actor[b].home
      <4>1. /\ actor[b].group \in Tasks /\ b \in group[actor[b].group].members \ {t}
            /\ group[actor[b].group].live /\ group[actor[b].group].scope = actor[b].home
        BY <1>1, <3>1, <3>3 DEF PlaceInv, GroupInv
      <4>2. group'[actor[b].group].live
        BY <3>1, <4>1
      <4> QED
        BY <4>1, <4>2
    <3> QED
      BY <3>1, <3>2, <3>3
  <2> QED
    BY <1>2, <2>1, <2>2, <2>3, <2>4 DEF PlaceInv, Live, Inside
<1>8. ASSUME NEW q \in Scopes, Swept(q) PROVE ~ Busy(q)'
  <2>1. ~ Busy(q)
    BY <1>1, <1>8 DEF DrainInv
  <2>2. \A g \in Tasks : group'[g].live => ~ Within(parent, group'[g].scope, q)
    BY <2>1 DEF Busy, Inside
  <2>3. \A b \in Tasks : actor'[b].status \notin {"unborn", "done"} =>
          b # t /\ actor'[b] = actor[b] /\ Live(b)
    BY <1>1, <1>3 DEF Live
  <2>4. \A b \in Tasks : actor'[b].status \notin {"unborn", "done"} =>
          ~ (actor'[b].kind = "callback" /\ Within(parent, actor'[b].home, q))
    BY <2>1, <2>3 DEF Busy, Inside
  <2> QED
    BY <1>2, <2>2, <2>4 DEF Busy, Inside, Live
<1>9. ASSUME NEW q \in Scopes, scope[q] = "closed", NEW b \in Actors,
             actor'[b].status \notin {"unborn", "done"}
      PROVE  ~ Within(parent, actor'[b].scope, q)
  BY <1>1, <1>3, <1>9 DEF DrainInv, Inside, Live
<1> QED
  BY <1>2, <1>4, <1>5, <1>6, <1>7, <1>8, <1>9, TaskStep

LEMMA CallbackEndsPlaces ==
    ASSUME IInv, SInv, NEW t \in Tasks, CallbackEnds(t)
    PROVE  SInv'
<1> DEFINE x == [Inactive EXCEPT !.status = "done"]
<1>1. Leaves(t, x) /\ group' = group /\ actor[t].scope = actor[t].home
  BY DEF CallbackEnds, Leaves
<1>2. x.status = "done" /\ x.scope = Root /\ x.home = Root
  BY DEF Inactive
<1> HIDE DEF x
<1> QED
  BY <1>1, <1>2, LeavesPlaces

\* A group that loses its last live participant leaves.
LEMMA KeptGroup ==
    ASSUME NEW gr \in GroupRecord, NEW live \in BOOLEAN
    PROVE  /\ live => Kept(gr, live) = gr
           /\ ~ live => ~ Kept(gr, live).live /\ Kept(gr, live).scope = Root
<1>1. [NoGroup EXCEPT !.members = gr.members, !.sealed = TRUE,
                      !.selected = gr.selected].live = FALSE
  BY DEF NoGroup
<1>2. [NoGroup EXCEPT !.members = gr.members, !.sealed = TRUE,
                      !.selected = gr.selected].scope = Root
  BY DEF NoGroup
<1> QED
  BY <1>1, <1>2 DEF Kept

LEMMA SettlePlaces ==
    ASSUME IInv, SInv, NEW t \in Tasks, NEW outcome \in Outcomes, Settle(t, outcome)
    PROVE  SInv'
<1> DEFINE x == [Inactive EXCEPT !.status = "done", !.outcome = outcome]
           g == actor[t].group
           live == \/ ~ group[g].sealed
                   \/ \E u \in group[g].members \ {t} : Live(u)
           settled == [group[g] EXCEPT !.settled = Append(@, t)]
<1>1. /\ Leaves(t, x) /\ actor[t].scope = actor[t].home
      /\ group' = [group EXCEPT ![g] = Kept(settled, live)]
  BY DEF Settle, Leaves
<1>2. x.status = "done" /\ x.scope = Root /\ x.home = Root
  BY DEF Inactive
<1>3. g \in Tasks /\ group[g] \in GroupRecord /\ TypeOK
  <2>1. Live(t) /\ actor[t].kind = "participant" /\ TypeOK /\ GroupInv
    BY DEF Settle, Running, Live, IInv
  <2> QED
    BY <2>1 DEF GroupInv, TypeOK
<1>4. /\ settled \in GroupRecord /\ settled.live = group[g].live
      /\ settled.scope = group[g].scope
  <2>1. Append(group[g].settled, t) \in Seq(Tasks)
    BY <1>3 DEF GroupRecord
  <2> QED
    BY <1>3, <2>1 DEF GroupRecord
<1>5. live \in BOOLEAN
  OBVIOUS
<1>6. (\E u \in group[g].members \ {t} : Live(u)) => live
  OBVIOUS
<1> HIDE DEF x, g, live, settled
<1>7. /\ group'[g] = Kept(settled, live)
      /\ \A h \in Tasks \ {g} : group'[h] = group[h]
  BY <1>1, <1>3 DEF TypeOK
<1>8. /\ live => group'[g].live = group[g].live /\ group'[g].scope = group[g].scope
      /\ ~ live => ~ group'[g].live /\ group'[g].scope = Root
  BY <1>4, <1>5, <1>7, KeptGroup
<1> QED
  BY <1>1, <1>2, <1>6, <1>7, <1>8, LeavesPlaces

LEMMA PublishPlaces ==
    ASSUME IInv, SInv, NEW g \in Tasks, NEW chosen \in SUBSET Tasks, Publish(g, chosen)
    PROVE  SInv'
<1> DEFINE live == \E t \in group[g].members : Live(t)
           sealed == [group[g] EXCEPT !.sealed = TRUE, !.selected = chosen]
           a == group[g].launcher
           y == [actor[a] EXCEPT !.status = "running"]
<1>1. /\ TypeOK /\ GroupInv /\ TreeInv /\ PlaceInv /\ ControlInv
      /\ \A s \in Scopes : DrainInv(s)
      /\ group[g] \in GroupRecord /\ a \in Actors /\ actor[a] \in ActorRecord
  <2>1. TypeOK /\ GroupInv /\ TreeInv /\ PlaceInv /\ ControlInv
        /\ \A s \in Scopes : DrainInv(s)
    BY DEF IInv, SInv
  <2> QED
    BY <2>1 DEF TypeOK, GroupRecord
<1>2. /\ group' = [group EXCEPT ![g] = Kept(sealed, live)]
      /\ actor' = IF group[g].mode = "native" THEN actor
                  ELSE [actor EXCEPT ![a] = y]
      /\ UNCHANGED <<scope, parent, runner, drain, res, order, closer, failed>>
      /\ group[g].live /\ ~ group[g].sealed
  BY DEF Publish
<1>3. /\ sealed \in GroupRecord /\ sealed.live = group[g].live
      /\ sealed.scope = group[g].scope
  BY <1>1 DEF GroupRecord
<1>4. /\ y.scope = actor[a].scope /\ y.home = actor[a].home
      /\ y.kind = actor[a].kind /\ y.group = actor[a].group /\ y.status = "running"
  BY <1>1 DEF ActorRecord
<1>5. live \in BOOLEAN /\ (live <=> \E t \in group[g].members : Live(t))
  OBVIOUS
<1>6. group[g].mode # "native" => actor[a].status = "selecting"
  BY <1>1, <1>2 DEF Awaited, ControlInv
<1> HIDE DEF live, sealed, a, y
<1>7. \A b \in Actors : Placed(b)
  <2>1. CASE group[g].mode = "native"
    BY <1>2, <2>1, NonePlaced
  <2>2. CASE group[g].mode # "native"
    BY <1>1, <1>2, <1>4, <1>6, <2>2, OnePlaced DEF Live
  <2> QED
    BY <2>1, <2>2
<1>8. /\ group'[g] = Kept(sealed, live)
      /\ \A h \in Tasks \ {g} : group'[h] = group[h]
  BY <1>1, <1>2 DEF TypeOK
<1>9. /\ live => group'[g].live = group[g].live /\ group'[g].scope = group[g].scope
      /\ ~ live => ~ group'[g].live /\ group'[g].scope = Root
  BY <1>3, <1>5, <1>8, KeptGroup
<1>10. PlaceInv'
  <2>1. \A h \in Tasks : group[h].live /\ (\E t \in group[h].members : Live(t)) =>
          group'[h].live /\ group'[h].scope = group[h].scope
    BY <1>5, <1>8, <1>9
  <2> QED
    BY <1>1, <1>2, <1>7, <2>1, PlaceKeeps
<1>11. \A b \in Actors : /\ scope[actor'[b].scope] # "unborn"
                         /\ scope[actor'[b].home] # "unborn"
  BY <1>1, <1>7 DEF TreeInv, Born, Placed
<1>12. \A h \in Tasks : scope[group'[h].scope] # "unborn"
  BY <1>1, <1>8, <1>9 DEF TreeInv, Born
<1>13. ASSUME NEW q \in Scopes, Swept(q) PROVE ~ Busy(q)'
  <2>1. ~ Busy(q) /\ Tasks \subseteq Actors
    BY <1>1, <1>13 DEF DrainInv, Actors
  <2>2. \A h \in Tasks : group'[h].live =>
          group[h].live /\ group'[h].scope = group[h].scope
    BY <1>2, <1>8, <1>9
  <2>3. \A h \in Tasks : group'[h].live => ~ Within(parent, group'[h].scope, q)
    BY <2>1, <2>2 DEF Busy, Inside
  <2>4. \A b \in Tasks : actor'[b].status \notin {"unborn", "done"} =>
          ~ (actor'[b].kind = "callback" /\ Within(parent, actor'[b].home, q))
    BY <1>7, <2>1 DEF Busy, Inside, Placed
  <2> QED
    BY <1>2, <2>3, <2>4 DEF Busy, Inside, Live
<1>14. ASSUME NEW q \in Scopes, scope[q] = "closed", NEW b \in Actors,
              actor'[b].status \notin {"unborn", "done"}
       PROVE  ~ Within(parent, actor'[b].scope, q)
  BY <1>1, <1>7, <1>14 DEF DrainInv, Inside, Placed
<1> QED
  BY <1>2, <1>10, <1>11, <1>12, <1>13, <1>14, TaskStep

LEMMA LaunchPlaces ==
    ASSUME IInv, SInv, NEW a \in Actors, NEW caps \in Launches, NEW mode \in Modes,
           Launch(a, caps, mode)
    PROVE  SInv'
<1> DEFINE T == DOMAIN caps
           g == CHOOSE t \in T : TRUE
           native == mode = "native"
           key == IF native /\ IsTask(a) THEN actor[a].key ELSE g
           x(b) == [Inactive EXCEPT !.status = "running",
                      !.kind = "participant", !.scope = actor[a].scope,
                      !.home = actor[a].scope, !.key = key,
                      !.captures = caps[b], !.group = g]
           y == [actor[a] EXCEPT !.status = "selecting"]
           n == [live |-> TRUE, mode |-> mode, launcher |-> a,
                 scope |-> actor[a].scope, members |-> T, settled |-> <<>>,
                 sealed |-> FALSE, selected |-> {}]
           here == actor[a].scope
<1>1. /\ TypeOK /\ GroupInv /\ TreeInv /\ PlaceInv /\ \A q \in Scopes : DrainInv(q)
      /\ Tasks \subseteq Actors /\ Main \in Actors /\ Main \notin Tasks
      /\ actor[a] \in ActorRecord
  <2>1. /\ TypeOK /\ GroupInv /\ TreeInv /\ PlaceInv /\ \A q \in Scopes : DrainInv(q)
        /\ Tasks \subseteq Actors /\ Main \in Actors /\ Main \notin Tasks
    BY MainAssumption DEF IInv, SInv, Actors
  <2> QED
    BY <2>1 DEF TypeOK
<1>2. T \subseteq Tasks /\ T # {}
  BY DEF Launches
<1>3. g \in T
  BY <1>2
<1>4. /\ Running(a) /\ \A t \in T : actor[t].status = "unborn"
      /\ group' = [group EXCEPT ![g] = n]
      /\ actor' = [b \in Actors |-> IF b \in T THEN x(b)
                                    ELSE IF b = a /\ ~ native THEN y
                                    ELSE actor[b]]
      /\ UNCHANGED <<scope, parent, runner, drain, res, order, closer, failed>>
  BY <1>3 DEF Launch
<1>5. a \notin T
  BY <1>4 DEF Running
<1>6. /\ y.scope = actor[a].scope /\ y.home = actor[a].home
      /\ y.kind = actor[a].kind /\ y.group = actor[a].group
      /\ y.status = "selecting"
  BY <1>1 DEF ActorRecord
<1>7. ASSUME NEW b \in T
      PROVE  /\ x(b).status = "running" /\ x(b).kind = "participant"
             /\ x(b).scope = here /\ x(b).home = here /\ x(b).group = g
  BY DEF Inactive
<1>8. n.live /\ n.scope = here
  OBVIOUS
<1>9. Live(a) /\ Born(here) /\ \A q \in Scopes : Swept(q) => ~ Inside(here, q)
  BY <1>1, <1>4, NoneRuns DEF Running, Live, TreeInv
<1>10. \A b \in T : actor'[b] = x(b)
  BY <1>1, <1>2, <1>4
<1> HIDE DEF x, y, n, T, g, key, here, native
<1>11. \A b \in Actors \ T : Placed(b)
  <2> TAKE b \in Actors \ T
  <2>1. actor'[b] = IF b = a /\ ~ native THEN y ELSE actor[b]
    BY <1>4
  <2> QED
    BY <1>6, <1>9, <2>1 DEF Placed, Live
<1>12. \A b \in T : /\ actor'[b].status = "running" /\ actor'[b].kind = "participant"
                    /\ actor'[b].scope = here /\ actor'[b].home = here
                    /\ actor'[b].group = g
  BY <1>7, <1>10
<1>13. /\ g \in Tasks /\ group'[g] = n
       /\ \A h \in Tasks \ {g} : group'[h] = group[h]
  BY <1>1, <1>2, <1>3, <1>4 DEF TypeOK
<1>14. group[g].members = {}
  <2>1. actor[g].status = "unborn" /\ g \in Tasks
    BY <1>3, <1>4, <1>13
  <2> QED
    BY <1>1, <2>1 DEF GroupInv
<1>15. PlaceInv'
  <2>1. /\ actor'[Main].home = Root
        /\ actor'[Main].status \notin {"unborn", "done"} <=> scope[Root] # "closed"
    <3>1. Main \in Actors \ T
      BY <1>1, <1>2
    <3> QED
      BY <1>1, <1>11, <3>1 DEF PlaceInv, Placed
  <2>2. ASSUME NEW b \in Actors, NEW q \in Scopes,
               actor'[b].status \notin {"unborn", "done"},
               Within(parent, actor'[b].scope, q)
        PROVE  Within(parent, actor'[b].home, q) \/ runner[q] = b
    <3>1. CASE b \in T
      BY <1>12, <2>2, <3>1
    <3>2. CASE b \notin T
      BY <1>1, <1>11, <2>2, <3>2 DEF PlaceInv, Placed, Inside
    <3> QED
      BY <3>1, <3>2
  <2>3. ASSUME NEW q \in Children, scope[q] \in {"open", "closing"}
        PROVE  /\ actor'[runner[q]].status \notin {"unborn", "done"}
               /\ Within(parent, actor'[runner[q]].scope, q)
               /\ ~ Within(parent, actor'[runner[q]].home, q)
    <3>1. runner[q] \in Actors
      BY <1>1 DEF TypeOK, Scopes
    <3>2. /\ Live(runner[q]) /\ Inside(actor[runner[q]].scope, q)
          /\ ~ Inside(actor[runner[q]].home, q)
      BY <1>1, <2>3 DEF PlaceInv
    <3>3. runner[q] \notin T
      BY <1>4, <3>2 DEF Live
    <3>4. Placed(runner[q])
      BY <1>11, <3>1, <3>3
    <3> QED
      BY <3>2, <3>4 DEF Inside, Placed
  <2>4. ASSUME NEW b \in Tasks, actor'[b].status \notin {"unborn", "done"}
        PROVE  /\ actor'[b].kind \in {"participant", "callback"}
               /\ actor'[b].kind = "participant" =>
                    /\ group'[actor'[b].group].live
                    /\ group'[actor'[b].group].scope = actor'[b].home
    <3>1. CASE b \in T
      BY <1>8, <1>12, <1>13, <3>1
    <3>2. CASE b \notin T
      <4>1. Placed(b) /\ Live(b)
        BY <1>1, <1>11, <2>4, <3>2 DEF Placed
      <4>2. actor[b].kind \in {"participant", "callback"}
        BY <1>1, <4>1 DEF PlaceInv
      <4>3. ASSUME actor[b].kind = "participant"
            PROVE  /\ group'[actor[b].group].live
                   /\ group'[actor[b].group].scope = actor[b].home
        <5>1. /\ actor[b].group \in Tasks /\ b \in group[actor[b].group].members
              /\ group[actor[b].group].live
              /\ group[actor[b].group].scope = actor[b].home
          BY <1>1, <4>1, <4>3 DEF PlaceInv, GroupInv
        <5> QED
          BY <1>13, <1>14, <5>1
      <4> QED
        BY <4>1, <4>2, <4>3 DEF Placed
    <3> QED
      BY <3>1, <3>2
  <2> QED
    BY <1>4, <2>1, <2>2, <2>3, <2>4 DEF PlaceInv, Live, Inside
<1>16. \A b \in Actors : /\ scope[actor'[b].scope] # "unborn"
                         /\ scope[actor'[b].home] # "unborn"
  <2> TAKE b \in Actors
  <2>1. CASE b \in T
    BY <1>9, <1>12, <2>1 DEF Born
  <2>2. CASE b \notin T
    BY <1>1, <1>11, <2>2 DEF TreeInv, Born, Placed
  <2> QED
    BY <2>1, <2>2
<1>17. \A h \in Tasks : scope[group'[h].scope] # "unborn"
  BY <1>1, <1>8, <1>9, <1>13 DEF TreeInv, Born
<1>18. ASSUME NEW q \in Scopes, Swept(q) PROVE ~ Busy(q)'
  <2>1. ~ Busy(q) /\ ~ Within(parent, here, q)
    BY <1>1, <1>9, <1>18 DEF DrainInv, Inside
  <2>2. \A h \in Tasks : group'[h].live => ~ Within(parent, group'[h].scope, q)
    BY <1>8, <1>13, <2>1 DEF Busy, Inside
  <2>3. \A b \in Tasks : actor'[b].status \notin {"unborn", "done"} =>
          ~ (actor'[b].kind = "callback" /\ Within(parent, actor'[b].home, q))
    <3> TAKE b \in Tasks
    <3>1. CASE b \in T
      BY <1>12, <3>1
    <3>2. CASE b \notin T
      BY <1>1, <1>11, <2>1, <3>2 DEF Busy, Inside, Placed
    <3> QED
      BY <3>1, <3>2
  <2> QED
    BY <1>4, <2>2, <2>3 DEF Busy, Inside, Live
<1>19. ASSUME NEW q \in Scopes, scope[q] = "closed", NEW b \in Actors,
              actor'[b].status \notin {"unborn", "done"}
       PROVE  ~ Within(parent, actor'[b].scope, q)
  <2>1. CASE b \in T
    BY <1>9, <1>12, <1>19, <2>1 DEF Swept, Inside
  <2>2. CASE b \notin T
    BY <1>1, <1>11, <1>19, <2>2 DEF DrainInv, Inside, Placed
  <2> QED
    BY <2>1, <2>2
<1> QED
  BY <1>4, <1>15, <1>16, <1>17, <1>18, <1>19, TaskStep

\* A scope opened under x: the walks from the scopes that were there are the
\* same, and the one from the new scope goes on from x.
LEMMA TreeGrows ==
    ASSUME TypeOK, TreeInv, NEW x \in Scopes, Born(x), NEW c \in Scopes, ~ Born(c),
           parent' = [parent EXCEPT ![c] = x]
    PROVE  /\ \A s \in Scopes : Born(s) =>
                \A t : Within(parent', s, t) <=> Within(parent, s, t)
           /\ \A t : Within(parent', c, t) <=> t = c \/ Within(parent, x, t)
           /\ \A s \in Scopes : Born(s) => ~ Within(parent, s, c)
           /\ parent'[c] = x
           /\ \A s \in Scopes : Born(s) => parent'[s] = parent[s]
<1> DEFINE B == {s \in Scopes : Born(s)}
<1>1. /\ parent \in [Scopes -> Scopes] /\ parent' \in [Scopes -> Scopes]
      /\ B \in SUBSET Scopes /\ x \in B /\ c \notin B
  BY DEF TypeOK
<1>2. parent'[c] = x /\ \A s \in B : parent'[s] = parent[s] /\ parent[s] \in B
  BY <1>1 DEF TypeOK, TreeInv
<1>3. \A s \in Scopes : Born(s) => s \in B
  OBVIOUS
<1>4. \A s \in Scopes : Born(s) => ~ Within(parent, s, c)
  BY BornAbove DEF Inside
<1> HIDE DEF B
<1>5. \A s \in B : \A t : Within(parent, s, t) => Within(parent', s, t)
  BY <1>1, <1>2, WithinAgrees
<1>6. \A s \in B : \A t : Within(parent', s, t) => Within(parent, s, t)
  BY <1>1, <1>2, WithinAgrees
<1>7. ASSUME NEW t, Within(parent', c, t), t # c PROVE Within(parent, x, t)
  <2>1. Within(parent', parent'[c], t)
    BY <1>1, <1>7, WithinAbove
  <2> QED
    BY <1>1, <1>2, <1>6, <2>1
<1>8. ASSUME NEW t, Within(parent, x, t) PROVE Within(parent', c, t)
  <2>1. Within(parent', x, t)
    BY <1>1, <1>5, <1>8
  <2>2. Within(parent', c, parent'[c])
    BY WithinParent
  <2> QED
    BY <1>2, <2>1, <2>2, WithinTransitive
<1>9. Within(parent', c, c)
  BY WithinSelf
<1> QED
  BY <1>2, <1>3, <1>4, <1>5, <1>6, <1>7, <1>8, <1>9

LEMMA EnterScopePlaces ==
    ASSUME IInv, SInv, NEW a \in Actors, NEW c \in Children, EnterScope(a, c)
    PROVE  SInv'
<1> DEFINE x == actor[a].scope
           y == [actor[a] EXCEPT !.scope = c]
<1>1. /\ TypeOK /\ ControlInv /\ GroupInv /\ TreeInv /\ PlaceInv /\ FailureKnown
      /\ \A q \in Scopes : DrainInv(q)
      /\ Tasks \subseteq Actors /\ Main \in Actors
      /\ c \in Scopes /\ c # Root /\ Root \in Scopes
  BY RootAssumption DEF IInv, SInv, Actors, Scopes
<1>2. /\ Running(a) /\ scope[c] = "unborn" /\ ~ Born(c)
      /\ scope' = [scope EXCEPT ![c] = "open"]
      /\ parent' = [parent EXCEPT ![c] = x] /\ runner' = [runner EXCEPT ![c] = a]
      /\ actor' = [actor EXCEPT ![a] = y]
      /\ UNCHANGED <<drain, res, order, closer, group, failed>>
  BY DEF EnterScope, Born
<1>3. actor[a] \in ActorRecord
  BY <1>1 DEF TypeOK
<1>4. /\ y.scope = c /\ y.home = actor[a].home /\ y.kind = actor[a].kind
      /\ y.group = actor[a].group /\ y.status = actor[a].status
  BY <1>3 DEF ActorRecord
<1>5. x \in Scopes /\ Born(x)
  BY <1>1, KeyTyped DEF TreeInv
<1>6. \A q \in Scopes : Swept(q) => ~ Inside(x, q)
  BY <1>2, NoneRuns
<1>7. actor[a].scope = x /\ Live(a)
  BY <1>2 DEF Running, Live
<1> HIDE DEF x, y
<1>8. /\ \A s \in Scopes : Born(s) =>
           \A t : Within(parent', s, t) <=> Within(parent, s, t)
      /\ \A t : Within(parent', c, t) <=> t = c \/ Within(parent, x, t)
      /\ \A s \in Scopes : Born(s) => ~ Within(parent, s, c)
      /\ parent'[c] = x
      /\ \A s \in Scopes : Born(s) => parent'[s] = parent[s]
  BY <1>1, <1>2, <1>5, TreeGrows
<1>9. /\ scope'[c] = "open" /\ runner'[c] = a
      /\ \A s \in Scopes \ {c} : scope'[s] = scope[s] /\ runner'[s] = runner[s]
      /\ actor'[a] = y /\ \A b \in Actors \ {a} : actor'[b] = actor[b]
  BY <1>1, <1>2 DEF TypeOK
<1>10. \A b \in Actors :
         /\ actor'[b].home = actor[b].home /\ actor'[b].kind = actor[b].kind
         /\ actor'[b].group = actor[b].group
         /\ (actor'[b].status \notin {"unborn", "done"} <=> Live(b))
  BY <1>4, <1>9 DEF Live
<1>11. /\ \A b \in Actors : /\ actor[b].scope \in Scopes /\ Born(actor[b].scope)
                            /\ actor[b].home \in Scopes /\ Born(actor[b].home)
       /\ \A r \in Resources : res[r].scope \in Scopes /\ Born(res[r].scope)
       /\ \A g \in Tasks : group[g].scope \in Scopes /\ Born(group[g].scope)
  <2>1. /\ \A b \in Actors : actor[b].scope \in Scopes /\ actor[b].home \in Scopes
        /\ \A r \in Resources : res[r].scope \in Scopes
        /\ \A g \in Tasks : group[g].scope \in Scopes
    BY <1>1 DEF TypeOK, ActorRecord, ResourceRecord, GroupRecord
  <2> QED
    BY <1>1, <2>1 DEF TreeInv
<1>12. \A s \in Scopes : scope'[s] # "unborn" <=> Born(s) \/ s = c
  BY <1>9 DEF Born
<1>13. TreeInv'
  <2>1. scope'[Root] # "unborn" /\ parent'[Root] = Root
    BY <1>1, <1>8, <1>12 DEF TreeInv
  <2>2. ASSUME NEW s \in Scopes, scope'[s] # "unborn"
        PROVE  scope'[parent'[s]] # "unborn" /\ (parent'[s] = s => s = Root)
    <3>1. CASE s = c
      BY <1>2, <1>5, <1>8, <1>12, <3>1
    <3>2. CASE s # c
      <4>1. Born(s) /\ parent[s] \in Scopes
        BY <1>1, <1>12, <2>2, <3>2 DEF TypeOK
      <4> QED
        BY <1>1, <1>8, <1>12, <4>1 DEF TreeInv
    <3> QED
      BY <3>1, <3>2
  <2>3. ASSUME NEW s \in Scopes, NEW t \in Scopes,
               scope'[s] # "unborn", scope'[t] # "unborn",
               Within(parent', s, t), Within(parent', t, s)
        PROVE  s = t
    <3>1. CASE s = c
      BY <1>8, <1>12, <2>3, <3>1
    <3>2. CASE t = c
      BY <1>8, <1>12, <2>3, <3>2
    <3>3. CASE s # c /\ t # c
      BY <1>1, <1>8, <1>12, <2>3, <3>3 DEF TreeInv, Inside
    <3> QED
      BY <3>1, <3>2, <3>3
  <2>4. \A b \in Actors : /\ scope'[actor'[b].scope] # "unborn"
                          /\ scope'[actor'[b].home] # "unborn"
    BY <1>4, <1>9, <1>10, <1>11, <1>12
  <2>5. /\ \A r \in Resources : scope'[res'[r].scope] # "unborn"
        /\ \A g \in Tasks : scope'[group'[g].scope] # "unborn"
    BY <1>2, <1>11, <1>12
  <2> QED
    BY <2>1, <2>2, <2>3, <2>4, <2>5 DEF TreeInv, Born, Inside
<1>14. PlaceInv'
  <2>1. /\ actor'[Main].home = Root
        /\ actor'[Main].status \notin {"unborn", "done"} <=> scope'[Root] # "closed"
    BY <1>1, <1>9, <1>10 DEF PlaceInv
  <2>2. ASSUME NEW b \in Actors, NEW q \in Scopes,
               actor'[b].status \notin {"unborn", "done"},
               Within(parent', actor'[b].scope, q)
        PROVE  Within(parent', actor'[b].home, q) \/ runner'[q] = b
    <3>1. CASE q = c /\ b = a
      BY <1>9, <3>1
    <3>2. CASE ~ (q = c /\ b = a)
      <4>1. Within(parent, actor[b].scope, q)
        <5>1. CASE b = a
          BY <1>4, <1>7, <1>8, <1>9, <2>2, <3>2, <5>1
        <5>2. CASE b # a
          BY <1>8, <1>9, <1>11, <2>2, <5>2
        <5> QED
          BY <5>1, <5>2
      <4>2. q # c
        BY <1>8, <1>11, <4>1
      <4>3. Inside(actor[b].home, q) \/ runner[q] = b
        BY <1>1, <1>10, <2>2, <4>1 DEF PlaceInv, Inside
      <4> QED
        BY <1>8, <1>9, <1>10, <1>11, <4>2, <4>3 DEF Inside
    <3> QED
      BY <3>1, <3>2
  <2>3. ASSUME NEW q \in Children, scope'[q] \in {"open", "closing"}
        PROVE  /\ actor'[runner'[q]].status \notin {"unborn", "done"}
               /\ Within(parent', actor'[runner'[q]].scope, q)
               /\ ~ Within(parent', actor'[runner'[q]].home, q)
    <3>1. CASE q = c
      BY <1>4, <1>7, <1>8, <1>9, <1>10, <1>11, <3>1
    <3>2. CASE q # c
      <4>1. q \in Scopes /\ runner'[q] = runner[q] /\ runner[q] \in Actors
            /\ scope[q] \in {"open", "closing"}
        BY <1>1, <1>9, <2>3, <3>2 DEF TypeOK, Scopes
      <4>2. /\ Live(runner[q]) /\ Within(parent, actor[runner[q]].scope, q)
            /\ ~ Within(parent, actor[runner[q]].home, q)
        BY <1>1, <4>1 DEF PlaceInv, Inside
      <4>3. Within(parent', actor'[runner[q]].scope, q)
        <5>1. CASE runner[q] = a
          BY <1>4, <1>7, <1>8, <1>9, <4>2, <5>1
        <5>2. CASE runner[q] # a
          BY <1>8, <1>9, <1>11, <4>1, <4>2, <5>2
        <5> QED
          BY <5>1, <5>2
      <4> QED
        BY <1>8, <1>10, <1>11, <4>1, <4>2, <4>3
    <3> QED
      BY <3>1, <3>2
  <2>4. \A b \in Tasks : actor'[b].status \notin {"unborn", "done"} =>
          /\ actor'[b].kind \in {"participant", "callback"}
          /\ actor'[b].kind = "participant" =>
               /\ group'[actor'[b].group].live
               /\ group'[actor'[b].group].scope = actor'[b].home
    BY <1>1, <1>2, <1>10 DEF PlaceInv
  <2> QED
    BY <2>1, <2>2, <2>3, <2>4 DEF PlaceInv, Live, Inside
<1>15. ASSUME NEW s \in Scopes PROVE DrainInv(s)'
  <2>1. CASE s = c
    <3>1. drain'[c].phase = "none" /\ scope'[c] = "open"
      BY <1>1, <1>2, <1>9 DEF ControlInv
    <3> QED
      BY <2>1, <3>1 DEF DrainInv, Swept
  <2>2. CASE s # c
    <3>1. drain'[s] = drain[s] /\ scope'[s] = scope[s]
      BY <1>2, <1>9, <2>2
    <3>2. ASSUME Swept(s) PROVE ~ Busy(s)'
      <4>1. ~ Busy(s)
        BY <1>1, <3>2 DEF DrainInv
      <4>2. \A g \in Tasks : group'[g].live => ~ Within(parent', group'[g].scope, s)
        BY <1>2, <1>8, <1>11, <4>1 DEF Busy, Inside
      <4>3. \A b \in Tasks : actor'[b].status \notin {"unborn", "done"} =>
              ~ (actor'[b].kind = "callback" /\ Within(parent', actor'[b].home, s))
        BY <1>1, <1>8, <1>10, <1>11, <4>1 DEF Busy, Inside
      <4> QED
        BY <4>2, <4>3 DEF Busy, Inside, Live
    <3>3. ASSUME scope[s] = "closed", NEW b \in Actors,
                 actor'[b].status \notin {"unborn", "done"}
          PROVE  ~ Within(parent', actor'[b].scope, s)
      <4>1. CASE b = a
        BY <1>4, <1>6, <1>8, <1>9, <2>2, <3>3, <4>1 DEF Swept, Inside
      <4>2. CASE b # a
        BY <1>1, <1>8, <1>9, <1>10, <1>11, <3>3, <4>2 DEF DrainInv, Inside
      <4> QED
        BY <4>1, <4>2
    <3>4. ASSUME scope[s] = "closed", NEW t \in Scopes, scope'[t] # "unborn",
                 Within(parent', t, s)
          PROVE  scope'[t] = "closed"
      <4>1. t # c
        BY <1>6, <1>8, <2>2, <3>4 DEF Swept, Inside
      <4> QED
        BY <1>1, <1>8, <1>9, <1>12, <3>4, <4>1 DEF DrainInv, Inside
    <3>5. Registered(s)' = Registered(s) /\ Registered(s) \subseteq Resources
      BY <1>2, <1>8, <1>11 DEF Registered, Inside
    <3>6. \A q : Latest(drain[s].todo, q)' => Latest(drain[s].todo, q)
      BY <1>2 DEF Latest
    <3>7. DrainInv(s) /\ \A r \in Resources : closer'[r] = closer[r] /\ res'[r] = res[r]
      BY <1>1, <1>2
    <3> QED
      BY <3>1, <3>2, <3>3, <3>4, <3>5, <3>6, <3>7, DrainKeeps
  <2> QED
    BY <2>1, <2>2
<1>16. FailureKnown'
  BY <1>1, <1>2, FailureStays
<1> QED
  BY <1>13, <1>14, <1>15, <1>16 DEF SInv

\* A scope somebody is in has been opened and has not closed.
LEMMA ScopeInUse ==
    ASSUME IInv, SInv, NEW a \in Actors, Live(a), NEW s \in Scopes,
           actor[a].scope = s
    PROVE  scope[s] \in {"open", "closing"}
<1>1. TypeOK /\ TreeInv /\ DrainInv(s)
  BY DEF IInv, SInv
<1>2. Inside(s, s)
  BY WithinSelf DEF Inside
<1>3. scope[s] # "closed"
  BY <1>1, <1>2 DEF DrainInv
<1>4. scope[s] # "unborn"
  BY <1>1 DEF TreeInv, Born
<1>5. scope[s] \in {"unborn", "open", "closing", "closed"}
  BY <1>1 DEF TypeOK
<1> QED
  BY <1>3, <1>4, <1>5

LEMMA IterationPlaces ==
    ASSUME IInv, SInv, NEW s \in Scopes, NEW now, NEW states,
           Iterated(s, now, states),
           scope[s] \in {"open", "closing"}, states[s] \in {"open", "closing"},
           \A q \in Scopes \ {s} : states[q] = scope[q],
           \A r \in Resources : /\ now[r].state = res[r].state
                                /\ now[r].scope = res[r].scope
                                /\ now[r].cleanup = res[r].cleanup,
           \A a \in Actors : Placed(a),
           UNCHANGED <<parent, runner, order, closer, group, failed>>
    PROVE  SInv'
<1>1. /\ TypeOK /\ GroupInv /\ TreeInv /\ PlaceInv /\ FailureKnown
      /\ \A q \in Scopes : DrainInv(q)
  BY DEF IInv, SInv
<1>2. /\ \A r \in Resources : /\ res'[r].state = res[r].state
                              /\ res'[r].scope = res[r].scope
                              /\ res'[r].cleanup = res[r].cleanup
      /\ \A q \in Scopes \ {s} : drain'[q] = drain[q] /\ scope'[q] = scope[q]
      /\ scope'[s] \in {"open", "closing"}
      /\ \/ drain'[s] = [NotDraining EXCEPT !.phase = "waiting"]
         \/ /\ ~ Busy(s) /\ scope'[s] = "closing"
            /\ drain'[s] = [NotDraining EXCEPT !.phase = "sweeping",
                                               !.todo = Registered(s)]
  BY DEF Iterated
<1>3. \A q \in Scopes : scope'[q] = "unborn" <=> scope[q] = "unborn"
  BY <1>2
<1>4. TreeInv'
  <2>1. /\ \A a \in Actors : /\ actor'[a].scope \in Scopes /\ actor'[a].home \in Scopes
                             /\ scope[actor'[a].scope] # "unborn"
                             /\ scope[actor'[a].home] # "unborn"
        /\ \A r \in Resources : res'[r].scope \in Scopes /\ scope[res'[r].scope] # "unborn"
        /\ \A g \in Tasks : group'[g].scope \in Scopes /\ scope[group'[g].scope] # "unborn"
    <3>1. /\ \A a \in Actors : actor[a].scope \in Scopes /\ actor[a].home \in Scopes
          /\ \A r \in Resources : res[r].scope \in Scopes
          /\ \A g \in Tasks : group[g].scope \in Scopes
      BY <1>1 DEF TypeOK, ActorRecord, ResourceRecord, GroupRecord
    <3> QED
      BY <1>1, <1>2, <3>1 DEF TreeInv, Born, Placed
  <2> QED
    BY <1>1, <1>3, <2>1, TreeKeeps
<1>5. PlaceInv'
  <2>1. \A q \in Children : scope'[q] \in {"open", "closing"} =>
          scope[q] \in {"open", "closing"}
    BY <1>2 DEF Scopes
  <2>2. scope'[Root] = "closed" <=> scope[Root] = "closed"
    BY <1>2 DEF Scopes
  <2> QED
    BY <1>1, <2>1, <2>2, PlaceKeeps
<1>6. FailureKnown'
  BY <1>1, <1>2, FailureStays
<1>7. \A q : Registered(q)' = Registered(q) /\ (Busy(q)' <=> Busy(q))
  <2> TAKE q
  <2>1. Registered(q)' = Registered(q)
    BY <1>2 DEF Registered, Inside
  <2>2. Busy(q)' <=> Busy(q)
    BY BusyKeeps
  <2> QED
    BY <2>1, <2>2
<1>8. DrainInv(s)'
  <2>1. CASE drain'[s] = [NotDraining EXCEPT !.phase = "waiting"]
    <3>1. drain'[s].phase = "waiting"
      BY <2>1 DEF NotDraining
    <3> QED
      BY <1>2, <3>1 DEF DrainInv, Swept
  <2>2. CASE /\ ~ Busy(s) /\ scope'[s] = "closing"
             /\ drain'[s] = [NotDraining EXCEPT !.phase = "sweeping",
                                                !.todo = Registered(s)]
    <3>1. /\ drain'[s].phase = "sweeping" /\ drain'[s].todo = Registered(s)
          /\ ~ drain'[s].awaits /\ ~ drain'[s].found
      BY <2>2 DEF NotDraining
    <3>2. Unswept(s)' = Registered(s)' /\ ~ Busy(s)'
      BY <1>7, <2>2, <3>1 DEF Unswept
    <3> QED
      BY <2>2, <3>1, <3>2 DEF DrainInv
  <2> QED
    BY <1>2, <2>1, <2>2
<1>9. ASSUME NEW q \in Scopes, q # s PROVE DrainInv(q)'
  <2>1. DrainInv(q) /\ drain'[q] = drain[q] /\ scope'[q] = scope[q]
    BY <1>1, <1>2, <1>9
  <2>2. Swept(q) => ~ Busy(q)'
    BY <1>7, <2>1 DEF DrainInv
  <2>3. scope[q] = "closed" => \A a \in Actors :
          actor'[a].status \notin {"unborn", "done"} =>
              ~ Within(parent', actor'[a].scope, q)
    BY <2>1 DEF DrainInv, Placed, Inside
  <2>4. ASSUME scope[q] = "closed", NEW t \in Scopes, scope'[t] # "unborn",
               Within(parent', t, q)
        PROVE  scope'[t] = "closed"
    <3>1. scope[t] = "closed"
      BY <1>3, <2>1, <2>4 DEF DrainInv, Inside, Born
    <3> QED
      BY <1>2, <3>1
  <2>5. Registered(q)' = Registered(q) /\ Registered(q) \subseteq Resources
    BY <1>7 DEF Registered
  <2>6. \A r : Latest(drain[q].todo, r)' => Latest(drain[q].todo, r)
    BY <2>1 DEF Latest
  <2> QED
    BY <1>2, <2>1, <2>2, <2>3, <2>4, <2>5, <2>6, DrainKeeps
<1> QED
  BY <1>4, <1>5, <1>6, <1>8, <1>9 DEF SInv

LEMMA FinishMainPlaces ==
    ASSUME IInv, SInv, FinishMain
    PROVE  SInv'
<1> DEFINE x == [actor[Main] EXCEPT !.status = "draining"]
<1>1. TypeOK /\ Main \in Actors /\ Root \in Scopes /\ actor[Main].scope = Root
      /\ Live(Main)
  BY DEF IInv, Actors, Scopes, FinishMain, Running, Live
<1>2. /\ actor' = [actor EXCEPT ![Main] = x]
      /\ UNCHANGED <<parent, runner, order, closer, group, failed>>
      /\ Iteration(Root, res, scope)
  BY DEF FinishMain
<1>3. /\ x.scope = actor[Main].scope /\ x.home = actor[Main].home
      /\ x.kind = actor[Main].kind /\ x.group = actor[Main].group
      /\ x.status = "draining"
  <2>1. actor[Main] \in ActorRecord
    BY <1>1 DEF TypeOK
  <2> QED
    BY <2>1 DEF ActorRecord
<1> HIDE DEF x
<1>4. \A b \in Actors : Placed(b)
  BY <1>1, <1>2, <1>3, OnePlaced
<1>5. /\ res \in [Resources -> ResourceRecord]
      /\ scope \in [Scopes -> {"unborn", "open", "closing", "closed"}]
  BY <1>1 DEF TypeOK
<1>6. Iterated(Root, res, scope)
  BY <1>1, <1>2, <1>5, IterationChanges
<1>7. scope[Root] \in {"open", "closing"}
  BY <1>1, ScopeInUse
<1> QED
  BY <1>1, <1>2, <1>4, <1>6, <1>7, IterationPlaces

LEMMA DrainWakesPlaces ==
    ASSUME IInv, SInv, NEW s \in Scopes, DrainWakes(s)
    PROVE  SInv'
<1>1. TypeOK /\ runner[s] \in Actors /\ actor[runner[s]].scope = s /\ Live(runner[s])
  <2>1. TypeOK /\ ControlInv /\ drain[s].phase # "none"
    BY DEF IInv, DrainWakes
  <2> QED
    BY <2>1 DEF TypeOK, ControlInv, Live
<1>2. /\ UNCHANGED <<parent, runner, order, closer, actor, group, failed>>
      /\ Iteration(s, res, scope)
  BY DEF DrainWakes
<1>3. \A b \in Actors : Placed(b)
  BY <1>2, NonePlaced
<1>4. /\ res \in [Resources -> ResourceRecord]
      /\ scope \in [Scopes -> {"unborn", "open", "closing", "closed"}]
  BY <1>1 DEF TypeOK
<1>5. Iterated(s, res, scope)
  BY <1>1, <1>2, <1>4, IterationChanges
<1>6. scope[s] \in {"open", "closing"}
  BY <1>1, ScopeInUse
<1> QED
  BY <1>2, <1>3, <1>5, <1>6, IterationPlaces

LEMMA ExitScopePlaces ==
    ASSUME IInv, SInv, NEW a \in Actors, ExitScope(a)
    PROVE  SInv'
<1> DEFINE c == actor[a].scope
           out == ExitReleases(c)
           now == [r \in Resources |-> [res[r] EXCEPT !.initial = @ /\ r \notin out]]
           states == [scope EXCEPT ![c] = "closing"]
           x == [actor[a] EXCEPT !.status = "draining"]
<1>1. /\ TypeOK /\ c \in Scopes /\ Live(a) /\ actor[a] \in ActorRecord
      /\ \A r \in Resources : res[r] \in ResourceRecord
  <2>1. TypeOK /\ c \in Scopes /\ Live(a)
    BY DEF IInv, ExitScope, Scopes, Running, Live
  <2> QED
    BY <2>1 DEF TypeOK
<1>2. /\ actor' = [actor EXCEPT ![a] = x] /\ Iteration(c, now, states)
      /\ UNCHANGED <<parent, runner, order, closer, group, failed>>
  BY DEF ExitScope
<1>3. /\ x.scope = actor[a].scope /\ x.home = actor[a].home
      /\ x.kind = actor[a].kind /\ x.group = actor[a].group
      /\ x.status = "draining"
  BY <1>1 DEF ActorRecord
<1>4. /\ now \in [Resources -> ResourceRecord]
      /\ \A r \in Resources :
           /\ now[r].state = res[r].state /\ now[r].scope = res[r].scope
           /\ now[r].cleanup = res[r].cleanup
  <2>1. \A r \in Resources :
          [res[r] EXCEPT !.initial = @ /\ r \notin out] \in ResourceRecord
    BY <1>1 DEF ResourceRecord
  <2> QED
    BY <1>1, <2>1 DEF ResourceRecord
<1>5. /\ states \in [Scopes -> {"unborn", "open", "closing", "closed"}]
      /\ states[c] = "closing" /\ \A q \in Scopes \ {c} : states[q] = scope[q]
  BY <1>1 DEF TypeOK
<1>6. actor[a].scope = c
  OBVIOUS
<1> HIDE DEF c, x, now, states, out
<1>7. \A b \in Actors : Placed(b)
  BY <1>1, <1>2, <1>3, OnePlaced
<1>8. Iterated(c, now, states)
  BY <1>1, <1>2, <1>4, <1>5, IterationChanges
<1>9. scope[c] \in {"open", "closing"}
  BY <1>1, <1>6, ScopeInUse
<1> QED
  BY <1>1, <1>2, <1>4, <1>5, <1>7, <1>8, <1>9, IterationPlaces

\* Only one resource was registered last, and a resource that is not left
\* over is being closed.
LEMMA LatestUnique ==
    ASSUME IInv, NEW todo \in SUBSET Resources,
           \A r \in todo : res[r].state # "unborn",
           NEW q, NEW r, Latest(todo, q), Latest(todo, r)
    PROVE  q = r
<1>1. q \in todo /\ r \in todo /\ order \in Seq(Resources)
  BY DEF Latest, IInv, TypeOK
<1>2. PICK i \in DOMAIN order : order[i] = q
  BY <1>1 DEF IInv, ResourceInv
<1>3. PICK j \in DOMAIN order : order[j] = r
  BY <1>1 DEF IInv, ResourceInv
<1>4. i <= j /\ j <= i
  BY <1>1, <1>2, <1>3 DEF Latest
<1>5. i \in Nat /\ j \in Nat
  BY <1>1
<1> QED
  BY <1>2, <1>3, <1>4, <1>5

LEMMA LeftoverOrClosing ==
    ASSUME TypeOK, NEW r \in Resources, ResourceInv(r), res[r].state # "unborn"
    PROVE  Leftover(r) <=> closer[r] = "none"
<1>1. res[r].state \in {"unborn", "open", "closing", "closed"}
  BY DEF TypeOK, ResourceRecord
<1> QED
  BY <1>1 DEF ResourceInv, Leftover

LEMMA SweepStepPlaces ==
    ASSUME IInv, SInv, NEW s \in Scopes, SweepStep(s)
    PROVE  SInv'
<1> DEFINE d == [drain[s] EXCEPT !.awaits = TRUE]
<1>1. /\ TypeOK /\ DrainInv(s) /\ FailureKnown /\ Swept(s)
      /\ drain[s].phase = "sweeping" /\ drain[s] \in DrainRecord
      /\ \A q \in Resources : ResourceInv(q)
  BY DEF IInv, SInv, SweepStep, TypeOK, Swept
<1>2. /\ drain' = [drain EXCEPT ![s] = d]
      /\ UNCHANGED <<scope, parent, runner, order, actor, group>>
  BY DEF SweepStep
<1>3. PICK r \in drain[s].todo :
        /\ Latest(drain[s].todo, r)
        /\ LET untold == ~ res[r].options.managed /\ ~ res[r].cleanup
           IN  IF Leftover(r)
               THEN /\ Closing(r, [res[r] EXCEPT !.cleanup = @ \/ untold])
                    /\ failed' = (failed \/ untold)
               ELSE UNCHANGED <<res, closer, failed>>
  BY DEF SweepStep
<1> DEFINE untold == ~ res[r].options.managed /\ ~ res[r].cleanup
           x == [res[r] EXCEPT !.cleanup = @ \/ untold]
<1>4. /\ d.phase = "sweeping" /\ d.awaits /\ d.todo = drain[s].todo
      /\ d.found = drain[s].found
  BY <1>1 DEF DrainRecord
<1>5. IF Leftover(r) THEN Closing(r, x) /\ failed' = (failed \/ untold)
      ELSE UNCHANGED <<res, closer, failed>>
  BY <1>3
<1>6. /\ drain[s].todo \subseteq Resources /\ drain[s].todo \subseteq Registered(s)
      /\ \A q \in Registered(s) : q \in Resources /\ res[q].state # "unborn"
  BY <1>1 DEF DrainInv, Unswept, DrainRecord, Registered
<1>7. r \in Resources /\ res[r] \in ResourceRecord /\ res[r].state # "unborn"
  BY <1>1, <1>6 DEF TypeOK
<1>8. /\ x \in ResourceRecord /\ x.scope = res[r].scope /\ x.state = res[r].state
      /\ (x.cleanup <=> res[r].cleanup \/ untold) /\ untold \in BOOLEAN
  BY <1>7 DEF ResourceRecord
<1> HIDE DEF d, x, untold
<1>9. Leftover(r) <=> closer[r] = "none"
  BY <1>1, <1>7, LeftoverOrClosing
<1>10. /\ \A q \in Resources \ {r} : res'[q] = res[q] /\ closer'[q] = closer[q]
       /\ res'[r].scope = res[r].scope /\ res'[r].state # "unborn"
       /\ closer'[r] # "none"
       /\ closer[r] # "none" => res'[r] = res[r] /\ closer'[r] = closer[r]
  <2>1. CASE Leftover(r)
    BY <1>1, <1>5, <1>7, <1>8, <1>9, <2>1, ClosingChanges
  <2>2. CASE ~ Leftover(r)
    BY <1>5, <1>7, <1>9, <2>2
  <2> QED
    BY <2>1, <2>2
<1>11. FailureKnown'
  <2>1. CASE Leftover(r) /\ untold
    <3>1. failed'
      BY <1>5, <2>1
    <3>2. res'[r].cleanup = x.cleanup
      BY <1>1, <1>5, <1>7, <1>8, <2>1, ClosingChanges
    <3> QED
      BY <1>7, <1>8, <2>1, <3>1, <3>2 DEF FailureKnown
  <2>2. CASE Leftover(r) /\ ~ untold
    <3>1. (failed' <=> failed) /\ (res'[r].cleanup <=> res[r].cleanup)
      BY <1>1, <1>5, <1>7, <1>8, <2>2, ClosingChanges, ZenonT(40)
    <3> QED
      BY <1>1, <1>10, <3>1 DEF FailureKnown
  <2>3. CASE ~ Leftover(r)
    BY <1>1, <1>5, <2>3 DEF FailureKnown
  <2> QED
    BY <2>1, <2>2, <2>3
<1>12. \A b \in Actors : Placed(b)
  BY <1>2, NonePlaced
<1>13. \A q \in Resources :
         /\ res'[q].scope = res[q].scope
         /\ res'[q].state = "unborn" <=> res[q].state = "unborn"
         /\ Over(q) => closer'[q] = closer[q] /\ res'[q] = res[q]
         /\ closer[q] # "none" => closer'[q] # "none"
  BY <1>7, <1>10 DEF Over
<1>14. /\ TreeInv' /\ PlaceInv'
       /\ \A q \in Scopes : drain'[q] = drain[q] => DrainInv(q)'
       /\ Registered(s)' = Registered(s) /\ (Busy(s)' <=> Busy(s))
  BY <1>2, <1>12, <1>13, ScopesKeep
<1>15. drain'[s] = d /\ \A q \in Scopes \ {s} : drain'[q] = drain[q]
  BY <1>1, <1>2 DEF TypeOK
<1>16. DrainInv(s)'
  <2>1. ~ Busy(s)' /\ scope'[s] = "closing"
    BY <1>1, <1>2, <1>14 DEF DrainInv
  <2>2. Unswept(s)' = drain[s].todo /\ Unswept(s) = drain[s].todo
    BY <1>1, <1>4, <1>15 DEF Unswept
  <2>3. \A q \in Registered(s) \ drain[s].todo :
          Over(q) /\ closer'[q] = closer[q] /\ res'[q] = res[q]
    BY <1>1, <1>6, <1>13, <2>2 DEF DrainInv, Over
  <2>4. \A q \in Registered(s)' \ Unswept(s)' : closer'[q] \in {"ok", "failed"}
    BY <1>14, <2>2, <2>3 DEF Over
  <2>5. drain'[s].found <=> \E q \in Registered(s)' \ Unswept(s)' : res'[q].cleanup
    BY <1>1, <1>4, <1>14, <1>15, <2>2, <2>3 DEF DrainInv
  <2>6. \A q \in drain[s].todo : Latest(drain[s].todo, q) => closer'[q] # "none"
    <3>1. \A q \in drain[s].todo : Latest(drain[s].todo, q) => q = r
      BY <1>3, <1>6, LatestUnique
    <3> QED
      BY <1>10, <3>1
  <2>7. \A q \in drain'[s].todo : Latest(drain[s].todo, q)' => closer'[q] # "none"
    BY <1>2, <1>4, <1>15, <2>6 DEF Latest
  <2> QED
    BY <1>4, <1>6, <1>14, <1>15, <2>1, <2>2, <2>4, <2>5, <2>7 DEF DrainInv
<1> QED
  BY <1>11, <1>14, <1>15, <1>16 DEF SInv

LEMMA SweepNextPlaces ==
    ASSUME IInv, SInv, NEW s \in Scopes, SweepNext(s)
    PROVE  SInv'
<1>1. /\ TypeOK /\ DrainInv(s) /\ FailureKnown /\ Swept(s)
      /\ drain[s].phase = "sweeping" /\ drain[s].awaits /\ drain[s] \in DrainRecord
  BY DEF IInv, SInv, SweepNext, TypeOK, Swept
<1>2. UNCHANGED <<scope, parent, runner, res, order, closer, actor, group, failed>>
  BY DEF SweepNext
<1>3. PICK r \in drain[s].todo :
        /\ Latest(drain[s].todo, r) /\ closer[r] \in {"none", "ok", "failed"}
        /\ drain' = [drain EXCEPT ![s] =
                       [drain[s] EXCEPT !.todo = @ \ {r}, !.awaits = FALSE,
                                        !.found = @ \/ res[r].cleanup]]
  BY DEF SweepNext
<1> DEFINE d == [drain[s] EXCEPT !.todo = @ \ {r}, !.awaits = FALSE,
                                 !.found = @ \/ res[r].cleanup]
<1>4. /\ d.phase = "sweeping" /\ ~ d.awaits /\ d.todo = drain[s].todo \ {r}
      /\ (d.found <=> drain[s].found \/ res[r].cleanup)
  BY <1>1 DEF DrainRecord
<1>5. drain'[s] = d /\ \A q \in Scopes \ {s} : drain'[q] = drain[q]
  BY <1>1, <1>3 DEF TypeOK
<1> HIDE DEF d
<1>6. closer[r] \in {"ok", "failed"}
  BY <1>1, <1>3 DEF DrainInv
<1>7. \A b \in Actors : Placed(b)
  BY <1>2, NonePlaced
<1>8. /\ TreeInv' /\ PlaceInv'
      /\ \A q \in Scopes : drain'[q] = drain[q] => DrainInv(q)'
      /\ Registered(s)' = Registered(s) /\ (Busy(s)' <=> Busy(s))
  BY <1>2, <1>7, ScopesKeep
<1>9. FailureKnown'
  BY <1>1, <1>2, FailureStays
<1>10. DrainInv(s)'
  <2>1. ~ Busy(s)' /\ scope'[s] = "closing"
    BY <1>1, <1>2, <1>8 DEF DrainInv
  <2>2. /\ Unswept(s)' = drain[s].todo \ {r} /\ Unswept(s) = drain[s].todo
        /\ drain[s].todo \subseteq Registered(s)
    BY <1>1, <1>4, <1>5 DEF Unswept, DrainInv
  <2>3. Registered(s)' \ Unswept(s)' = (Registered(s) \ Unswept(s)) \cup {r}
    BY <1>3, <1>8, <2>2
  <2>4. \A q \in Registered(s)' \ Unswept(s)' : closer'[q] \in {"ok", "failed"}
    BY <1>1, <1>2, <1>6, <2>3 DEF DrainInv
  <2>5. drain'[s].found <=> \E q \in Registered(s)' \ Unswept(s)' : res'[q].cleanup
    BY <1>1, <1>2, <1>4, <1>5, <2>3 DEF DrainInv
  <2> QED
    BY <1>4, <1>5, <1>8, <2>1, <2>2, <2>4, <2>5 DEF DrainInv
<1> QED
  BY <1>5, <1>8, <1>9, <1>10 DEF SInv

LEMMA DrainEndsPlaces ==
    ASSUME IInv, SInv, NEW s \in Scopes, DrainEnds(s)
    PROVE  SInv'
<1> DEFINE a == runner[s]
           y == IF s = Root THEN [actor[a] EXCEPT !.status = "done"]
                ELSE [actor[a] EXCEPT !.status = "running", !.scope = parent[s]]
           d == [drain[s] EXCEPT !.phase = "none"]
<1>1. /\ TypeOK /\ ControlInv /\ GroupInv /\ TreeInv /\ PlaceInv /\ FailureKnown
      /\ \A q \in Scopes : DrainInv(q)
      /\ drain[s].phase = "sweeping" /\ drain[s].todo = {} /\ Swept(s)
      /\ Tasks \subseteq Actors /\ Main \in Actors /\ Root \in Scopes
      /\ Children \subseteq Scopes /\ Root \notin Children
  BY RootAssumption DEF IInv, SInv, DrainEnds, Swept, Actors, Scopes
<1>2. /\ a \in Actors /\ actor[a] \in ActorRecord /\ drain[s] \in DrainRecord
      /\ parent[s] \in Scopes /\ parent \in [Scopes -> Scopes]
  BY <1>1 DEF TypeOK
<1>3. /\ actor[a].status = "draining" /\ actor[a].scope = s /\ Live(a)
      /\ scope[s] = "closing" /\ Born(s) /\ (s = Root => a = Main)
  BY <1>1 DEF ControlInv, DrainInv, Live, Born
<1>4. /\ scope' = [scope EXCEPT ![s] = "closed"]
      /\ drain' = [drain EXCEPT ![s] = d] /\ actor' = [actor EXCEPT ![a] = y]
      /\ UNCHANGED <<parent, runner, res, order, closer, group, failed>>
  BY DEF DrainEnds
<1>5. /\ y.home = actor[a].home /\ y.kind = actor[a].kind /\ y.group = actor[a].group
      /\ s = Root => y.status = "done" /\ y.scope = s
      /\ s # Root => y.status = "running" /\ y.scope = parent[s]
  BY <1>2, <1>3 DEF ActorRecord
<1>6. d.phase = "none" /\ d.found = drain[s].found
  BY <1>2 DEF DrainRecord
<1>7. runner[s] = a
  OBVIOUS
<1> HIDE DEF a, y, d
<1>8. /\ scope'[s] = "closed" /\ \A q \in Scopes \ {s} : scope'[q] = scope[q]
      /\ drain'[s] = d /\ \A q \in Scopes \ {s} : drain'[q] = drain[q]
      /\ actor'[a] = y /\ \A b \in Actors \ {a} : actor'[b] = actor[b]
  BY <1>1, <1>2, <1>4 DEF TypeOK
<1>9. \A b \in Actors :
        /\ actor'[b].home = actor[b].home /\ actor'[b].kind = actor[b].kind
        /\ actor'[b].group = actor[b].group
        /\ actor'[b].status \notin {"unborn", "done"} => Live(b)
  BY <1>3, <1>5, <1>8 DEF Live
\* Whoever a is inside of now, it was inside of before.
<1>10. \A b \in Actors, q \in Scopes :
         Within(parent, actor'[b].scope, q) => Within(parent, actor[b].scope, q)
  <2> SUFFICES ASSUME NEW q \in Scopes, s # Root, Within(parent, parent[s], q)
               PROVE  Within(parent, s, q)
    BY <1>3, <1>5, <1>8
  <2>1. Within(parent, s, parent[s])
    BY WithinParent
  <2> QED
    BY <2>1, WithinTransitive
<1>11. TreeInv'
  <2>1. \A q \in Scopes : scope'[q] = "unborn" <=> scope[q] = "unborn"
    BY <1>3, <1>8
  <2>2. /\ \A b \in Actors : /\ actor'[b].scope \in Scopes /\ actor'[b].home \in Scopes
                             /\ scope[actor'[b].scope] # "unborn"
                             /\ scope[actor'[b].home] # "unborn"
        /\ \A r \in Resources : res'[r].scope \in Scopes /\ scope[res'[r].scope] # "unborn"
        /\ \A g \in Tasks : group'[g].scope \in Scopes /\ scope[group'[g].scope] # "unborn"
    <3>1. /\ \A b \in Actors : actor[b].scope \in Scopes /\ actor[b].home \in Scopes
          /\ \A r \in Resources : res[r].scope \in Scopes
          /\ \A g \in Tasks : group[g].scope \in Scopes
      BY <1>1 DEF TypeOK, ActorRecord, ResourceRecord, GroupRecord
    <3>2. scope[parent[s]] # "unborn" /\ scope[s] # "unborn"
      BY <1>1, <1>3 DEF TreeInv, Born
    <3>3. \A b \in Actors : actor'[b].scope \in {actor[b].scope, s, parent[s]}
      BY <1>5, <1>8
    <3> QED
      BY <1>1, <1>2, <1>4, <1>9, <3>1, <3>2, <3>3 DEF TreeInv, Born
  <2> QED
    BY <1>1, <1>4, <2>1, <2>2, TreeKeeps
<1>12. PlaceInv'
  <2>1. /\ actor'[Main].home = Root
        /\ actor'[Main].status \notin {"unborn", "done"} <=> scope'[Root] # "closed"
    <3>1. actor'[Main].home = Root
      BY <1>1, <1>9 DEF PlaceInv
    <3>2. CASE s = Root
      BY <1>3, <1>5, <1>8, <3>1, <3>2
    <3>3. CASE s # Root
      <4>1. scope'[Root] = scope[Root]
        BY <1>1, <1>8, <3>3
      <4>2. actor'[Main].status \notin {"unborn", "done"} <=> Live(Main)
        BY <1>1, <1>3, <1>5, <1>8, <3>3 DEF Live
      <4> QED
        BY <1>1, <3>1, <4>1, <4>2 DEF PlaceInv
    <3> QED
      BY <3>2, <3>3
  <2>2. \A b \in Actors, q \in Scopes :
          (actor'[b].status \notin {"unborn", "done"} /\ Within(parent, actor'[b].scope, q))
            => Within(parent, actor'[b].home, q) \/ runner[q] = b
    BY <1>1, <1>9, <1>10 DEF PlaceInv, Inside
  <2>3. ASSUME NEW q \in Children, scope'[q] \in {"open", "closing"}
        PROVE  /\ actor'[runner[q]].status \notin {"unborn", "done"}
               /\ Within(parent, actor'[runner[q]].scope, q)
               /\ ~ Within(parent, actor'[runner[q]].home, q)
    <3>1. q \in Scopes /\ q # s /\ scope[q] \in {"open", "closing"}
      BY <1>1, <1>8, <2>3
    <3>2. runner[q] \in Actors
      BY <1>1, <3>1 DEF TypeOK
    <3>3. /\ Live(runner[q]) /\ Within(parent, actor[runner[q]].scope, q)
          /\ ~ Within(parent, actor[runner[q]].home, q)
      BY <1>1, <3>1 DEF PlaceInv, Inside
    <3>4. CASE runner[q] # a
      BY <1>8, <3>2, <3>3, <3>4 DEF Live
    <3>5. CASE runner[q] = a
      <4>1. Within(parent, s, q)
        BY <1>3, <3>3, <3>5
      <4>2. s # Root
        BY <1>1, <3>1, <4>1, AboveRoot DEF Inside
      <4>3. Within(parent, parent[s], q)
        BY <1>2, <3>1, <4>1, WithinAbove
      <4> QED
        BY <1>5, <1>8, <3>3, <3>5, <4>2, <4>3
    <3> QED
      BY <3>4, <3>5
  <2>4. \A b \in Tasks : actor'[b].status \notin {"unborn", "done"} =>
          /\ actor'[b].kind \in {"participant", "callback"}
          /\ actor'[b].kind = "participant" =>
               /\ group'[actor'[b].group].live
               /\ group'[actor'[b].group].scope = actor'[b].home
    BY <1>1, <1>4, <1>9 DEF PlaceInv
  <2> QED
    BY <1>4, <2>1, <2>2, <2>3, <2>4 DEF PlaceInv, Live, Inside
<1>13. \A q : Busy(q)' => Busy(q)
  BY <1>1, <1>4, <1>9 DEF Busy, Inside, Live
<1>14. \A q : Registered(q)' = Registered(q)
  BY <1>4 DEF Registered, Inside
<1>15. DrainInv(s)'
  <2>1. ASSUME NEW b \in Actors, actor'[b].status \notin {"unborn", "done"},
               Within(parent, actor'[b].scope, s)
        PROVE  FALSE
    <3>1. Live(b) /\ Inside(actor[b].scope, s)
      BY <1>9, <1>10, <2>1 DEF Inside
    <3>2. b = a
      BY <1>1, <1>7, <3>1, NobodyInside
    <3>3. s # Root /\ Inside(parent[s], s)
      BY <1>5, <1>8, <2>1, <3>2 DEF Inside
    <3>4. Inside(s, parent[s])
      BY WithinParent DEF Inside
    <3>5. Born(parent[s])
      BY <1>1, <1>3 DEF TreeInv
    <3> QED
      BY <1>1, <1>2, <1>3, <3>3, <3>4, <3>5 DEF TreeInv
  <2>2. ASSUME NEW t \in Scopes, scope'[t] # "unborn", Within(parent, t, s)
        PROVE  scope'[t] = "closed"
    <3>1. CASE t = s
      BY <1>8, <3>1
    <3>2. CASE t # s
      <4>1. Born(t) /\ Inside(t, s)
        BY <1>8, <2>2, <3>2 DEF Born, Inside
      <4>2. scope[t] = "closed"
        BY <1>1, <3>2, <4>1, ClosedBelow
      <4> QED
        BY <1>8, <3>2, <4>2
    <3> QED
      BY <3>1, <3>2
  <2>3. Unswept(s) = {} /\ Unswept(s)' = {}
    BY <1>1, <1>6, <1>8 DEF Unswept
  <2>4. /\ ~ Busy(s)' /\ \A r \in Registered(s) : closer[r] \in {"ok", "failed"}
        /\ drain[s].found <=> \E r \in Registered(s) : res[r].cleanup
    BY <1>1, <1>13, <2>3 DEF DrainInv
  <2>5. /\ \A r \in Registered(s)' \ Unswept(s)' : closer'[r] \in {"ok", "failed"}
        /\ drain'[s].found <=> \E r \in Registered(s)' \ Unswept(s)' : res'[r].cleanup
        /\ Unswept(s)' \subseteq Registered(s)'
    BY <1>4, <1>6, <1>8, <1>14, <2>3, <2>4
  <2>6. drain'[s].phase = "none" /\ scope'[s] = "closed"
    BY <1>6, <1>8
  <2>7. /\ \A b \in Actors : Live(b)' => ~ Inside(actor[b].scope, s)'
        /\ \A t \in Scopes : (Born(t)' /\ Inside(t, s)') => scope'[t] = "closed"
    BY <1>4, <2>1, <2>2 DEF Live, Inside, Born
  <2> QED
    BY <2>4, <2>5, <2>6, <2>7 DEF DrainInv
<1>16. ASSUME NEW q \in Scopes, q # s PROVE DrainInv(q)'
  <2>1. DrainInv(q) /\ drain'[q] = drain[q] /\ scope'[q] = scope[q]
    BY <1>1, <1>8, <1>16
  <2>2. Swept(q) => ~ Busy(q)'
    BY <1>13, <2>1 DEF DrainInv
  <2>3. scope[q] = "closed" => \A b \in Actors :
          actor'[b].status \notin {"unborn", "done"} =>
              ~ Within(parent', actor'[b].scope, q)
    BY <1>4, <1>9, <1>10, <2>1 DEF DrainInv, Inside
  <2>4. scope[q] = "closed" => \A t \in Scopes :
          (scope'[t] # "unborn" /\ Within(parent', t, q)) => scope'[t] = "closed"
    BY <1>4, <1>8, <2>1 DEF DrainInv, Inside, Born
  <2>5. Registered(q)' = Registered(q) /\ Registered(q) \subseteq Resources
    BY <1>14 DEF Registered
  <2>6. \A r : Latest(drain[q].todo, r)' => Latest(drain[q].todo, r)
    BY <1>4, <2>1 DEF Latest
  <2> QED
    BY <1>4, <2>1, <2>2, <2>3, <2>4, <2>5, <2>6, DrainKeeps
<1>17. FailureKnown'
  BY <1>1, <1>4, FailureStays
<1> QED
  BY <1>11, <1>12, <1>15, <1>16, <1>17 DEF SInv

-----------------------------------------------------------------------------
(* The second invariant, and what follows from it.                         *)

LEMMA StructureInit == Init => SInv
<1> SUFFICES ASSUME Init PROVE SInv
  OBVIOUS
<1>1. /\ Root \in Scopes /\ Main \in Actors /\ Root \notin Children
      /\ scope[Root] = "open" /\ parent[Root] = Root /\ failed = FALSE
      /\ \A s \in Scopes : /\ Born(s) => s = Root
                           /\ scope[s] \in {"open", "unborn"}
                           /\ drain[s] = NotDraining
      /\ \A r \in Resources : res[r] = Unregistered
      /\ \A g \in Tasks : group[g] = NoGroup
      /\ \A t \in Tasks : actor[t] = Inactive
      /\ actor[Main] = [Inactive EXCEPT !.status = "running", !.kind = "main"]
  BY MainAssumption, RootAssumption DEF Init, Actors, Scopes, Born
<1>2. \A a \in Actors : actor[a].scope = Root /\ actor[a].home = Root
  <2>1. Inactive.scope = Root /\ Inactive.home = Root
    BY DEF Inactive
  <2>2. /\ [Inactive EXCEPT !.status = "running", !.kind = "main"].scope = Root
        /\ [Inactive EXCEPT !.status = "running", !.kind = "main"].home = Root
    BY DEF Inactive
  <2> QED
    BY <1>1, <2>1, <2>2 DEF Actors
<1>3. TreeInv
  BY <1>1, <1>2 DEF TreeInv, Born, Unregistered, NoGroup
<1>4. PlaceInv
  <2>1. Live(Main)
    BY <1>1 DEF Live, Inactive
  <2>2. \A t \in Tasks : ~ Live(t)
    BY <1>1 DEF Live, Inactive
  <2>3. \A s \in Children : scope[s] = "unborn"
    BY <1>1 DEF Born, Scopes
  <2> QED
    BY <1>1, <1>2, <2>1, <2>2, <2>3 DEF PlaceInv
<1>5. \A s \in Scopes : DrainInv(s)
  <2> TAKE s \in Scopes
  <2>1. drain[s].phase = "none" /\ scope[s] # "closed"
    BY <1>1 DEF NotDraining
  <2> QED
    BY <2>1 DEF DrainInv, Swept
<1>6. FailureKnown
  BY <1>1 DEF FailureKnown, Unregistered
<1> QED
  BY <1>3, <1>4, <1>5, <1>6 DEF SInv

LEMMA StructureNext == IInv /\ SInv /\ [Next]_vars => SInv'
<1> SUFFICES ASSUME IInv, SInv, [Next]_vars PROVE SInv'
  OBVIOUS
<1>1. ASSUME NEW a \in Actors, NEW r \in Resources,
             \/ \E options \in Options : Register(a, r, options)
             \/ Use(a, r) \/ Close(a, r)
      PROVE  SInv'
  BY <1>1, RegisterPlaces, PlainUse, PlainClose
<1>2. ASSUME NEW a \in Actors,
             \/ \E caps \in Launches, mode \in Modes : Launch(a, caps, mode)
             \/ \E c \in Children : EnterScope(a, c)
             \/ CloseReturns(a) \/ CloseDeadline(a) \/ ExitScope(a)
      PROVE  SInv'
  BY <1>2, LaunchPlaces, EnterScopePlaces, PlainReturn, ExitScopePlaces
<1>3. CASE FinishMain
  BY <1>3, FinishMainPlaces
<1>4. ASSUME NEW u \in uses, UseEnds(u) PROVE SInv'
  BY <1>4, PlainUse
<1>5. ASSUME NEW r \in Resources,
             CloserStarts(r) \/ (\E ok \in BOOLEAN : CloserEnds(r, ok)) \/ Timer(r)
      PROVE  SInv'
  BY <1>5, PlainCloser
<1>6. ASSUME NEW g \in Tasks, NEW chosen \in SUBSET Tasks, Publish(g, chosen)
      PROVE  SInv'
  BY <1>6, PublishPlaces
<1>7. ASSUME NEW t \in Tasks,
             \/ Ends(t)
             \/ \E s \in Scopes : \/ Dispatch(t, s)
                                  \/ \E a \in Tasks : Reenter(t, a, s)
      PROVE  SInv'
  BY <1>7, CallbackEndsPlaces, SettlePlaces, DispatchPlaces, ReenterPlaces DEF Ends
<1>8. ASSUME NEW s \in Scopes,
             DrainWakes(s) \/ SweepStep(s) \/ SweepNext(s) \/ DrainEnds(s)
      PROVE  SInv'
  BY <1>8, DrainWakesPlaces, SweepStepPlaces, SweepNextPlaces, DrainEndsPlaces
<1>9. CASE UNCHANGED vars
  <2>1. UNCHANGED <<scope, parent, runner, drain, order, group, actor, res, closer,
                    failed>>
    BY <1>9 DEF vars
  <2>2. FailureKnown' /\ \A a \in Actors : Placed(a)
    BY <2>1, FailureStays, NonePlaced DEF SInv
  <2> QED
    BY <2>1, <2>2, PlainStep
<1> QED
  BY <1>1, <1>2, <1>3, <1>4, <1>5, <1>6, <1>7, <1>8, <1>9 DEF Next

LEMMA StructureInvariance == Spec => [](IInv /\ SInv)
<1>1. Init => IInv /\ SInv
  BY InvInit, StructureInit
<1>2. (IInv /\ SInv) /\ [Next]_vars => (IInv /\ SInv)'
  BY InvNext, StructureNext
<1> QED
  BY <1>1, <1>2, PTL DEF Spec

\* drain and settleScopeBody: a scope is closed only after every participant,
\* callback and nested scope inside it has ended, and after every resource
\* registered inside has been closed, or its close has failed, with no lease
\* of it left; nobody gets in afterwards.
THEOREM ScopesAlwaysDieEmpty == Spec => []ScopesDieEmpty
<1>1. ASSUME IInv, SInv PROVE ScopesDieEmpty
  <2> SUFFICES ASSUME NEW s \in Scopes, scope[s] = "closed"
               PROVE  /\ ~ Busy(s)
                      /\ \A a \in Actors : Live(a) => ~ Inside(actor[a].scope, s)
                      /\ \A r \in Resources :
                           res[r].state # "unborn" /\ Inside(res[r].scope, s) =>
                               closer[r] \in {"ok", "failed"} /\ Unleased(r)
    BY DEF ScopesDieEmpty
  <2>1. DrainInv(s) /\ Swept(s)
    BY <1>1 DEF SInv, Swept
  <2>2. Unswept(s) = {}
    BY <2>1 DEF DrainInv, Unswept
  <2>3. \A r \in Registered(s) : closer[r] \in {"ok", "failed"}
    BY <2>1, <2>2 DEF DrainInv
  <2>4. \A r \in Resources : closer[r] \in {"ok", "failed"} => Unleased(r)
    BY <1>1 DEF IInv, NotClosedInUse
  <2> QED
    BY <2>1, <2>3, <2>4 DEF DrainInv, Registered
<1> QED
  BY <1>1, StructureInvariance, PTL

\* drain: the result of draining a scope tells of a cleanup failure exactly
\* when a resource inside had one, and the root of every failure there was,
\* whether a close failed, a deadline or a shutdown timer expired, or the
\* sweep found an unmanaged resource open.
THEOREM CleanupAlwaysTold == Spec => []CleanupTold
<1>1. ASSUME IInv, SInv PROVE CleanupTold
  <2>1. ASSUME NEW s \in Scopes, scope[s] = "closed"
        PROVE  drain[s].found <=> \E r \in Resources : /\ Inside(res[r].scope, s)
                                                       /\ res[r].cleanup
    <3>1. DrainInv(s) /\ Swept(s)
      BY <1>1, <2>1 DEF SInv, Swept
    <3>2. Unswept(s) = {}
      BY <2>1, <3>1 DEF DrainInv, Unswept
    <3>3. drain[s].found <=> \E r \in Registered(s) : res[r].cleanup
      BY <3>1, <3>2 DEF DrainInv
    <3>4. \A r \in Resources : res[r].cleanup => res[r].state # "unborn"
      BY <1>1 DEF IInv, ResourceInv
    <3> QED
      BY <3>3, <3>4 DEF Registered
  <2>2. failed <=> \E r \in Resources : res[r].cleanup
    BY <1>1 DEF SInv, FailureKnown
  <2> QED
    BY <2>1, <2>2 DEF CleanupTold
<1> QED
  BY <1>1, StructureInvariance, PTL
=============================================================================
