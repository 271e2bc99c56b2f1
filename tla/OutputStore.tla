----------------------------- MODULE OutputStore -----------------------------
(***************************************************************************)
(* The directory dist/ of a project (compiler/internal/driver/output.go,   *)
(* output_assets.go) and the commands that work on it: build, run, assert  *)
(* and clean (commands.go, run.go, assert.go, main.go).                    *)
(*                                                                         *)
(* A command holds the project lock from BeginOutput to Close, so one      *)
(* process at a time is between two of these steps; the programs it        *)
(* started hold only a lease, a shared lock on the manifest of their       *)
(* generation. A step is one durable effect. The process may die between   *)
(* any two steps, and a step may meet an I/O error.                        *)
(*                                                                         *)
(* Files of a generation are one of four conditions, the digests of its    *)
(* pairing record a set. Hashes, symlinks, foreign files, the owner marker *)
(* and the content store (links that share bytes) are left out.            *)
(***************************************************************************)
EXTENDS Naturals, Sequences, FiniteSets

CONSTANTS
    Sources,      \* contents of the project
    Inputs,       \* what a build is of: [source, paired], paired with a
                  \* verified browser build or not
    TestOf,       \* the BuildID of the test generation of an input
    ProdOf,       \* the BuildID of its production generation
    Digests,      \* digests of paired assets
    Served,       \* the digests the pairing record of a generation publishes
    Children,     \* programs that may run at once
    MaxEdits, MaxFaults, MaxCrashes, MaxCommands,
    None

Ids == {TestOf[i] : i \in Inputs} \cup {ProdOf[i] : i \in Inputs}

ASSUME IdsAssumption ==
    /\ Inputs \subseteq [source : Sources, paired : BOOLEAN]
    /\ None \notin Ids /\ None \notin Inputs
    /\ \A i, j \in Inputs : TestOf[i] # ProdOf[j]
    /\ \A i \in Inputs : Served[TestOf[i]] = {}
                         /\ (~i.paired => Served[ProdOf[i]] = {})
    /\ \A i \in Ids : Served[i] \subseteq Digests

ASSUME NoneAssumption ==
    /\ None \notin Children
    /\ \A ds \in SUBSET Digests : None # ds
    /\ \A p \in Ids \cup {None}, i \in Ids : None # [prior |-> p, current |-> i]

VARIABLES
    source,       \* the project as its author has it now
    dist,         \* the directory, see Dist
    lease,        \* the generation each running program holds, or None
    proc,         \* the command that holds the project lock, see Proc
    used,         \* edits, faults, crashes and commands so far
    owed,         \* digests replaced at most seven days ago
    forfeited     \* digests whose retention an I/O error has undone

vars == <<source, dist, lease, proc, used, owed, forfeited>>

\* What dist/ holds: builds/<id> absent, whole, broken (files are missing) or
\* husk (the directory without its manifest); the id pending.json reserves
\* and the condition of its .stage- directory; the id of current.json; the
\* two ids of pending-assets.json; the digests of assets.json (None if there
\* is no such file) and of assets/; metadata temporaries left behind.
Temps == {".pending.tmp", ".pending-assets.tmp", ".current.tmp", ".assets.tmp"}

Dist == [gens : [Ids -> {"absent", "whole", "broken", "husk"}],
         pending : Ids \cup {None},
         stage : {"absent", "part", "whole"},
         current : Ids \cup {None},
         intent : [prior : Ids \cup {None}, current : Ids] \cup {None},
         ledger : (SUBSET Digests) \cup {None},
         durable : SUBSET Digests,
         temps : SUBSET Temps]

\* The command: the inputs it captured, the generation it stages or selects,
\* the production generation it replaces, the program it waits for, its next
\* step, the call that step belongs to and the generations it has to delete.
RecoverSteps == {"fresh", "unstage", "rmdirStage", "unpend", "temps", "assets"}
StageSteps == {"lookup", "reserve", "reserved", "fill", "fillRest", "place", "placed"}
IntendSteps == {"intend", "intended"}
SelectSteps == {"select", "switch", "switched"}
ApplySteps == {"retain", "account", "accounted", "sweep", "settled"}
DeleteSteps == {"discard", "unlink", "unlinkManifest", "rmdir"}
CleanSteps == {"preflightClean", "unpublishClean", "sweepClean", "resetClean"}
Steps == RecoverSteps \cup StageSteps \cup IntendSteps \cup SelectSteps
         \cup ApplySteps \cup DeleteSteps \cup CleanSteps
         \cup {"idle", "verify", "verdict", "preflight", "abandon",
               "unpublish", "acquire"}

Proc == [kind : {"build", "run", "assert", "clean", None},
         snap : Inputs \cup {None}, id : Ids \cup {None},
         prior : Ids \cup {None}, child : Children \cup {None}, pc : Steps,
         phase : {"test", "prod", "publish", "restore", "cleanup", "clean"},
         doomed : SUBSET Ids]

Nobody == [kind |-> None, snap |-> None, id |-> None, prior |-> None,
           child |-> None, pc |-> "idle", phase |-> "test", doomed |-> {}]

Init ==
    /\ source \in Sources
    /\ dist = [gens |-> [i \in Ids |-> "absent"], pending |-> None,
               stage |-> "absent", current |-> None, intent |-> None,
               ledger |-> None, durable |-> {}, temps |-> {}]
    /\ lease = [c \in Children |-> None]
    /\ proc = Nobody
    /\ used = [edits |-> 0, faults |-> 0, crashes |-> 0, commands |-> 0]
    /\ owed = {} /\ forfeited = {}

Retained == IF dist.ledger = None THEN {} ELSE dist.ledger
Whole(id) == dist.gens[id] = "whole"
Test == TestOf[proc.snap]

-----------------------------------------------------------------------------
(* Control: a command goes on at a step, or at the one its caller's error  *)
(* handling reaches.                                                       *)

At(step) == proc.pc = step
Goto(step) == proc' = [proc EXCEPT !.pc = step]
KeepDist == UNCHANGED <<source, dist, lease, used, owed, forfeited>>
KeepRest == UNCHANGED <<source, lease, used, owed, forfeited>>

\* store.Close: the command is over and the lock is free.
Finish == proc' = Nobody

\* DiscardGeneration of the production generation and of the deferred test
\* generation; errors of either are ignored.
Discard(ids) ==
    proc' = [proc EXCEPT !.pc = "discard", !.phase = "cleanup", !.doomed = ids]

\* What is left to discard when the next discard fails: the deferred one of
\* the test generation comes last.
Undiscarded == IF proc.doomed = {Test} THEN {} ELSE proc.doomed \cap {Test}

\* needsAssetPublication: a paired set is published, a ledger exists or a
\* paired set is replaced.
NeedsAssets(prior, id) ==
    \/ Served[id] # {} \/ dist.ledger # None
    \/ prior # None /\ Served[prior] # {}

\* How a failed step is handled. A failure of Recover or Stage fails the
\* command, and a build that has staged its test generation discards it. A
\* failed selection is abandoned, if it left an intent, and its generation
\* discarded. A failed retention restores the prior generation.
Refused ==
    CASE proc.phase = "clean" -> Finish
      [] proc.phase = "test" ->
            IF At("verify") /\ proc.kind # "assert" THEN Discard({Test}) ELSE Finish
      [] proc.phase \in {"prod", "restore"} -> Discard({Test})
      [] proc.phase = "publish" /\ proc.pc \in IntendSteps ->
            Discard({proc.id, Test})
      [] proc.phase = "publish" /\ proc.pc \in SelectSteps \cup {"preflight"} ->
            IF NeedsAssets(proc.prior, proc.id)
              THEN Goto("abandon") ELSE Discard({proc.id, Test})
      [] proc.phase = "publish" /\ proc.pc \in ApplySteps ->
            IF proc.prior = None
              THEN Goto("unpublish")
              ELSE proc' = [proc EXCEPT !.pc = "select", !.phase = "restore"]
      [] proc.phase = "publish" /\ At("acquire") -> Finish
      [] proc.phase = "cleanup" ->
            proc' = [proc EXCEPT !.pc = "discard",
                                 !.doomed = IF At("discard") THEN Undiscarded ELSE @]

-----------------------------------------------------------------------------
(* Recover.                                                                *)

\* BeginOutput captures the inputs under the project lock; only build is told
\* of a browser manifest. Every command
\* recovers first: build, run and assert through Stage, clean through prune.
Begin(kind, input) ==
    /\ At("idle") /\ used.commands < MaxCommands
    /\ input.source = source /\ (kind # "build" => ~input.paired)
    /\ proc' = [Nobody EXCEPT
                  !.kind = kind, !.snap = input, !.pc = "fresh",
                  !.id = IF kind = "clean" THEN None ELSE TestOf[input],
                  !.phase = IF kind = "clean" THEN "clean" ELSE "test"]
    /\ used' = [used EXCEPT !.commands = @ + 1]
    /\ UNCHANGED <<source, dist, lease, owed, forfeited>>

\* ensureFresh; then pending.json decides whether a stage is reclaimed.
RecoverFresh ==
    /\ At("fresh")
    /\ IF source # proc.snap.source THEN Refused
       ELSE IF dist.pending = None THEN Goto("temps")
       ELSE IF dist.stage = "absent" THEN Goto("unpend")
       ELSE Goto("unstage")
    /\ KeepDist

\* Faulty variant: the reservation goes before the stage.
RecoverForgetsStage ==
    /\ At("unstage") \/ At("unpend")
    /\ dist' = [dist EXCEPT !.pending = None] /\ Goto("temps")
    /\ KeepRest

\* deleteOutputTree of the reserved stage: its files, then the directory;
\* then the reservation.
RecoverStage ==
    /\ \/ At("unstage") /\ dist' = [dist EXCEPT !.stage = "part"]
          /\ Goto("rmdirStage")
       \/ At("rmdirStage") /\ dist' = [dist EXCEPT !.stage = "absent"]
          /\ Goto("unpend")
       \/ At("unpend") /\ dist' = [dist EXCEPT !.pending = None]
          /\ Goto("temps")
    /\ KeepRest

\* The metadata temporaries are removed, never promoted.
RecoverTemps ==
    /\ At("temps")
    /\ dist' = [dist EXCEPT !.temps = {}] /\ Goto("assets")
    /\ KeepRest

Landed == dist.intent # None /\ dist.intent.current = dist.current

AfterRecover == IF proc.phase = "clean" THEN "preflightClean" ELSE "lookup"

\* Faulty variant: an interrupted publication is always abandoned.
RecoverAbandons ==
    /\ At("assets")
    /\ Goto(AfterRecover) /\ dist' = [dist EXCEPT !.intent = None]
    /\ KeepRest

\* recoverPendingAssets: complete a publication whose selection landed,
\* abandon any other.
RecoverAssets ==
    /\ At("assets")
    /\ IF Landed
         THEN Goto("retain") /\ UNCHANGED dist
         ELSE Goto(AfterRecover) /\ dist' = [dist EXCEPT !.intent = None]
    /\ KeepRest

-----------------------------------------------------------------------------
(* Stage.                                                                  *)

AfterStage == IF proc.phase = "test" THEN "verify" ELSE "intend"

\* An existing generation is reused if it validates completely.
StageLookup ==
    /\ At("lookup")
    /\ CASE dist.gens[proc.id] = "absent" -> Goto("reserve")
         [] Whole(proc.id) -> Goto(AfterStage)
         [] OTHER -> Refused
    /\ KeepDist

\* atomicMetadata writes a temporary that must not exist yet. Its rename over
\* the name is the next step.
WriteTemp(temp, next) ==
    /\ IF temp \in dist.temps
         THEN Refused /\ UNCHANGED dist
         ELSE dist' = [dist EXCEPT !.temps = @ \cup {temp}] /\ Goto(next)
    /\ KeepRest

\* pending.json reserves the stage before anything is put there.
StageReserve ==
    \/ At("reserve") /\ WriteTemp(".pending.tmp", "reserved")
    \/ /\ At("reserved")
       /\ dist' = [dist EXCEPT !.temps = @ \ {".pending.tmp"}, !.pending = proc.id]
       /\ Goto("fill") /\ KeepRest

\* The manifest and files of the stage; the whole tree is validated and synced.
StageFill ==
    /\ \/ At("fill") /\ dist' = [dist EXCEPT !.stage = "part"] /\ Goto("fillRest")
       \/ At("fillRest") /\ dist' = [dist EXCEPT !.stage = "whole"] /\ Goto("place")
    /\ KeepRest

\* The stage is renamed to its generation, then the reservation removed.
StagePlace ==
    /\ \/ /\ At("place") /\ Goto("placed")
          /\ dist' = [dist EXCEPT !.gens[proc.id] = dist.stage, !.stage = "absent"]
       \/ /\ At("placed") /\ Goto(AfterStage)
          /\ dist' = [dist EXCEPT !.pending = None]
    /\ KeepRest

-----------------------------------------------------------------------------
(* Verification.                                                           *)

\* AcquireGeneration of the test generation. An assertion run closes the
\* store and goes on under the lease; a build keeps the lock and waits.
Verify(c) ==
    /\ At("verify") /\ lease[c] = None
    /\ IF Whole(proc.id)
         THEN /\ lease' = [lease EXCEPT ![c] = proc.id]
              /\ IF proc.kind = "assert" THEN Finish
                 ELSE proc' = [proc EXCEPT !.pc = "verdict", !.child = c]
         ELSE Refused /\ UNCHANGED lease
    /\ UNCHANGED <<source, dist, used, owed, forfeited>>

\* The verdict of RunSupervised: failed assertions discard the test
\* generation; otherwise the production generation is staged.
Verdict(passed) ==
    /\ At("verdict")
    /\ lease' = [lease EXCEPT ![proc.child] = None]
    /\ IF passed
         THEN proc' = [proc EXCEPT !.pc = "fresh", !.phase = "prod",
                                   !.id = ProdOf[proc.snap], !.child = None]
         ELSE Discard({Test})
    /\ UNCHANGED <<source, dist, used, owed, forfeited>>

-----------------------------------------------------------------------------
(* Publication: selectCurrentWithAssets.                                   *)

\* The browser pairing is reread (or found changed), the generation to be
\* replaced is read, and the intent is written if there is any duty.
Intend ==
    \/ /\ At("intend") /\ proc.phase = "prod"
       /\ \/ proc' = [proc EXCEPT !.phase = "publish", !.prior = dist.current,
                        !.pc = IF NeedsAssets(dist.current, proc.id)
                                 THEN "intend" ELSE "select"]
          \/ Discard({proc.id, Test})
       /\ KeepDist
    \/ At("intend") /\ proc.phase = "publish"
       /\ WriteTemp(".pending-assets.tmp", "intended")
    \/ /\ At("intended")
       /\ dist' = [dist EXCEPT !.temps = @ \ {".pending-assets.tmp"},
                     !.intent = [prior |-> proc.prior, current |-> proc.id]]
       /\ Goto("preflight") /\ KeepRest

\* priorPairedSet: the replaced generation must still have its bytes.
PriorReadable(prior) == prior = None \/ Whole(prior)
                        \/ (Served[prior] = {} /\ dist.gens[prior] = "broken")

Preflight ==
    /\ At("preflight")
    /\ IF PriorReadable(proc.prior) THEN Goto("select") ELSE Refused
    /\ KeepDist

\* The generation SelectCurrent is called with.
Target == IF proc.phase = "restore" THEN proc.prior ELSE proc.id

\* SelectCurrent: the inputs are fresh, the generation whole.
Select ==
    /\ At("select")
    /\ IF source = proc.snap.source /\ Whole(Target)
         THEN WriteTemp(".current.tmp", "switch")
         ELSE Refused /\ KeepDist

\* current.json is replaced. Digests the replaced generation served and the
\* new one does not are owed from now on; a restored generation takes back
\* the selection of one that was never reported.
Switch ==
    /\ At("switch")
    /\ dist' = [dist EXCEPT !.temps = @ \ {".current.tmp"}, !.current = Target]
    /\ owed' = IF proc.phase = "restore" \/ dist.current = None THEN owed
               ELSE owed \cup (Served[dist.current] \ Served[Target])
    /\ Goto("switched")
    /\ UNCHANGED <<source, lease, used, forfeited>>

AfterSelect ==
    IF proc.phase = "restore" THEN "abandon"
    ELSE IF NeedsAssets(proc.prior, proc.id) THEN "retain"
    ELSE IF proc.kind = "run" THEN "acquire" ELSE "idle"

\* pending.json is removed; retention follows if there is any duty.
Switched ==
    /\ At("switched")
    /\ dist' = [dist EXCEPT !.pending = None]
    /\ IF AfterSelect = "idle" THEN Finish ELSE Goto(AfterSelect)
    /\ KeepRest

\* abandonPendingAssets, then the generation that was not selected goes.
Abandon ==
    /\ At("abandon")
    /\ dist' = [dist EXCEPT !.intent = None]
    /\ Discard({proc.id, Test})
    /\ KeepRest

\* A failed retention without a prior: the discard is refused for the current
\* generation, then current.json is removed.
Unpublish ==
    /\ At("unpublish")
    /\ dist' = [dist EXCEPT !.current = None]
    /\ Discard({Test})
    /\ KeepRest

-----------------------------------------------------------------------------
(* Retention: applyPendingAssets, also called by Recover.                  *)

\* The digests to add to the ledger: those of the prior generation that are
\* neither served now nor retained already.
Added == IF dist.intent.prior = None THEN {}
         ELSE Served[dist.intent.prior]
              \ (Served[dist.intent.current] \cup Retained)

\* The bytes of one replaced digest are stored; when all are, the ledger is
\* written next, if there is or will be one.
Retain ==
    /\ At("retain")
    /\ IF ~PriorReadable(dist.intent.prior)
         THEN Refused /\ UNCHANGED dist
         ELSE \/ \E d \in Added \ dist.durable :
                    /\ dist' = [dist EXCEPT !.durable = @ \cup {d}]
                    /\ UNCHANGED proc
              \/ /\ Added \subseteq dist.durable /\ UNCHANGED dist
                 /\ IF dist.ledger = None /\ Added = {}
                      THEN Goto("settled") ELSE Goto("account")
    /\ KeepRest

\* The rows that stay are those not served again and not expired; a row owed
\* is younger than seven days.
Account ==
    \/ At("account") /\ WriteTemp(".assets.tmp", "accounted")
    \/ /\ At("accounted")
       /\ \E expired \in SUBSET (Retained \ owed) :
            dist' = [dist EXCEPT
                       !.temps = @ \ {".assets.tmp"},
                       !.ledger = (Retained \ (Served[dist.intent.current] \cup expired))
                                  \cup Added]
       /\ Goto("sweep") /\ KeepRest

\* sweepAssetStore deletes what the ledger does not bind.
Sweep ==
    /\ At("sweep")
    /\ dist' = [dist EXCEPT !.durable = @ \cap Retained] /\ Goto("settled")
    /\ KeepRest

\* pending-assets.json is removed; the caller was Recover or the publication.
Settled ==
    /\ At("settled")
    /\ dist' = [dist EXCEPT !.intent = None]
    /\ IF proc.phase # "publish" THEN Goto(AfterRecover)
       ELSE IF proc.kind = "run" THEN Goto("acquire") ELSE Finish
    /\ KeepRest

\* run: AcquireCurrent leases what was just selected, and the lock is left.
Acquire(c) ==
    /\ At("acquire") /\ lease[c] = None
    /\ lease' = IF dist.current # None /\ Whole(dist.current)
                  THEN [lease EXCEPT ![c] = dist.current] ELSE lease
    /\ Finish
    /\ UNCHANGED <<source, dist, used, owed, forfeited>>

-----------------------------------------------------------------------------
(* Deletion: DiscardGeneration and prune.                                  *)

\* Faulty variant: a discard does not look at current.json.
NextDoomedBlindly ==
    /\ At("discard")
    /\ \/ proc.doomed = {} /\ Finish
       \/ \E i \in proc.doomed :
            proc' = IF proc.phase = "cleanup" /\ ~Whole(i)
                      THEN [proc EXCEPT !.doomed = @ \ {i}]
                      ELSE [proc EXCEPT !.pc = "unlink", !.id = i,
                                        !.doomed = @ \ {i}]
    /\ KeepDist

\* The next generation to delete: prune has validated its candidates, in the
\* order of the directory; a discard, of the deferred test generation last,
\* needs it whole and not current, or is dropped.
NextDoomed ==
    /\ At("discard")
    /\ \/ proc.doomed = {} /\ Finish
       \/ \E i \in proc.doomed :
            /\ proc.phase = "cleanup" /\ i = Test => proc.doomed = {Test}
            /\ proc' = IF proc.phase = "cleanup" /\ (~Whole(i) \/ dist.current = i)
                         THEN [proc EXCEPT !.doomed = @ \ {i}]
                         ELSE [proc EXCEPT !.pc = "unlink", !.id = i,
                                           !.doomed = @ \ {i}]
    /\ KeepDist

\* deleteOutputTree: the files, the manifest, the directory.
Unlink ==
    /\ \/ At("unlink") /\ dist' = [dist EXCEPT !.gens[proc.id] = "broken"]
          /\ Goto("unlinkManifest")
       \/ At("unlinkManifest") /\ dist' = [dist EXCEPT !.gens[proc.id] = "husk"]
          /\ Goto("rmdir")
       \/ At("rmdir") /\ dist' = [dist EXCEPT !.gens[proc.id] = "absent"]
          /\ Goto("discard")
    /\ KeepRest

\* Faulty variant: clean takes no lock.
PreflightUnlocked ==
    /\ At("preflightClean")
    /\ proc' = [proc EXCEPT !.pc = "unpublishClean",
                            !.doomed = {i \in Ids : dist.gens[i] # "absent"}]
    /\ KeepDist

\* Clean validates current and every generation before it deletes anything,
\* and takes the exclusive lock of each: leased ones are skipped.
PreflightClean ==
    /\ At("preflightClean")
    /\ LET present == {i \in Ids : dist.gens[i] # "absent"}
       IN  IF \/ dist.current # None /\ ~Whole(dist.current)
              \/ dist.stage # "absent"
              \/ \E i \in present : dist.gens[i] = "husk"
             THEN Refused
             ELSE proc' = [proc EXCEPT
                             !.pc = "unpublishClean",
                             !.doomed = {i \in present :
                                           \A c \in Children : lease[c] # i}]
    /\ KeepDist

\* current.json, the stored assets and the ledger go, in this order; then
\* nothing is owed any more.
Clean ==
    \/ /\ At("unpublishClean") /\ Goto("sweepClean")
       /\ dist' = [dist EXCEPT !.current = None]
       /\ owed' = {}
       /\ UNCHANGED <<source, lease, used, forfeited>>
    \/ /\ At("sweepClean") /\ Goto("resetClean")
       /\ dist' = [dist EXCEPT !.durable = {}]
       /\ KeepRest
    \/ /\ At("resetClean") /\ Goto("discard")
       /\ dist' = [dist EXCEPT !.ledger = None, !.intent = None]
       /\ KeepRest

-----------------------------------------------------------------------------
(* The world.                                                              *)

\* The author edits the inputs.
Edit ==
    /\ used.edits < MaxEdits
    /\ source' \in Sources \ {source}
    /\ used' = [used EXCEPT !.edits = @ + 1]
    /\ UNCHANGED <<dist, lease, proc, owed, forfeited>>

\* A program whose command is gone ends and with it its lease.
Exit(c) ==
    /\ lease[c] # None /\ proc.child # c
    /\ lease' = [lease EXCEPT ![c] = None]
    /\ UNCHANGED <<source, dist, proc, used, owed, forfeited>>

\* The command dies; the kernel frees its lock, dist/ stays as it is, and a
\* program it started keeps its inherited lease.
Crash ==
    /\ ~At("idle") /\ used.crashes < MaxCrashes
    /\ Finish
    /\ used' = [used EXCEPT !.crashes = @ + 1]
    /\ UNCHANGED <<source, dist, lease, owed, forfeited>>

\* The digests a failed publication gives up once it has moved the selection
\* or rewritten the ledger: the error handling takes back the intent or the
\* selection, not the ledger, so what the two generations served is then
\* without a row, or has one of the wrong age.
GivesUp ==
    IF proc.phase = "publish" /\ proc.pc \in {"switched", "sweep", "settled"}
      THEN Served[proc.id] \cup (IF proc.prior = None THEN {} ELSE Served[proc.prior])
      ELSE {}

\* A step meets an I/O error and has no effect. An error of the sync that
\* follows a rename is one of the next step; that of the last one, the removal
\* of an intent, has no next step.
Fault ==
    /\ proc.pc \notin {"idle", "verdict", "abandon", "unpublish"}
    /\ used.faults < MaxFaults
    /\ Refused
    /\ \/ UNCHANGED dist
       \/ At("settled") /\ dist' = [dist EXCEPT !.intent = None]
    /\ used' = [used EXCEPT !.faults = @ + 1]
    /\ forfeited' = forfeited \cup GivesUp
    /\ UNCHANGED <<source, lease, owed>>

\* The errors the code ignores: of the removal of an intent or of
\* current.json. An intent whose sync failed is not removed at all.
FaultIgnored ==
    /\ used.faults < MaxFaults
    /\ \/ At("preflight") /\ Discard({proc.id, Test})
       \/ At("abandon") /\ Discard({proc.id, Test})
       \/ At("unpublish") /\ Discard({Test})
       \/ At("assets") /\ ~Landed /\ Goto(AfterRecover)
    /\ used' = [used EXCEPT !.faults = @ + 1]
    /\ UNCHANGED <<source, dist, lease, owed, forfeited>>

\* Seven days have passed since a digest was replaced.
Elapse ==
    /\ \E d \in owed : owed' = owed \ {d}
    /\ UNCHANGED <<source, dist, lease, proc, used, forfeited>>

Step ==
    \/ RecoverFresh \/ RecoverStage \/ RecoverTemps \/ RecoverAssets
    \/ StageLookup \/ StageReserve \/ StageFill \/ StagePlace
    \/ \E c \in Children : Verify(c) \/ Acquire(c)
    \/ \E passed \in BOOLEAN : Verdict(passed)
    \/ Intend \/ Preflight \/ Select \/ Switch \/ Switched
    \/ Abandon \/ Unpublish \/ Retain \/ Account \/ Sweep \/ Settled
    \/ NextDoomed \/ Unlink \/ PreflightClean \/ Clean

Next ==
    \/ Step
    \/ \E kind \in {"build", "run", "assert", "clean"}, i \in Inputs : Begin(kind, i)
    \/ Edit \/ \E c \in Children : Exit(c)
    \/ Crash \/ Fault \/ FaultIgnored \/ Elapse

Spec == Init /\ [][Next]_vars

-----------------------------------------------------------------------------
(* What must hold of dist/ through crashes, errors and edits.              *)

\* Whatever is interrupted, current.json names a generation all of whose
\* files are there: it is selected after it is placed, and nothing deletes
\* it before it is unselected.
CurrentWhole == dist.current # None => Whole(dist.current)

\* A digest a client can still fetch: the current generation serves it, or the
\* ledger binds bytes that are stored, or the publication that replaced it will
\* be completed by Recover from bytes that still exist.
Servable(d) ==
    \/ dist.current # None /\ d \in Served[dist.current]
    \/ d \in Retained /\ d \in dist.durable
    \/ /\ Landed /\ dist.intent.prior # None
       /\ d \in Served[dist.intent.prior] /\ Whole(dist.intent.prior)

\* Stated by output_assets.go: any failure preserves the prior set. A replaced
\* digest stays servable for seven days, whatever fails.
AssetsKept == \A d \in owed : Servable(d)

\* What the code keeps of it: through deaths at any step, and through I/O errors
\* at any step but the three at which a publication cannot take back what it
\* did, a replaced digest stays servable for seven days; and those three cost
\* only the digests of the two generations they are between.
AssetsKeptUnlessForfeited == \A d \in owed \ forfeited : Servable(d)

\* What an interrupted Stage or metadata write leaves behind is found by
\* Recover. A stage is always reserved by pending.json, without which Recover
\* would not find it and clean would refuse for ever, and never under the name
\* of a complete generation; and Recover has removed a metadata temporary before
\* the same metadata is written again, which atomicMetadata would refuse. A
\* deletion interrupted between manifest and directory is another matter: the
\* husk it leaves is refused by later commands.
LitterRecovered ==
    /\ dist.stage # "absent" => dist.pending # None /\ ~Whole(dist.pending)
    /\ At("reserve") => ".pending.tmp" \notin dist.temps
    /\ At("intend") => ".pending-assets.tmp" \notin dist.temps
    /\ At("select") => ".current.tmp" \notin dist.temps
    /\ At("account") => ".assets.tmp" \notin dist.temps

\* Clean never touches a generation that a running program leases.
CleanSparesLeases ==
    [][\A c \in Children :
         lease[c] # None /\ proc.phase = "clean" /\ Whole(lease[c])
           => dist'.gens[lease[c]] = "whole"]_vars

\* Stated by run.go: other builds and clean may proceed, but cannot prune the
\* program that is still running. A program that run started leases a
\* production generation, an assertion run its test generation.
LeasedWhole ==
    \A c \in Children :
        lease[c] \in {ProdOf[i] : i \in Inputs} => Whole(lease[c])

=============================================================================
