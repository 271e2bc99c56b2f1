-------------------------- MODULE OutputStoreProofs --------------------------
(***************************************************************************)
(* The properties of OutputStore, for any sources, generations, assets and *)
(* programs and any number of edits, faults, crashes and commands.         *)
(*                                                                         *)
(* None is inductive: what a step may delete, select or forget depends on  *)
(* how far the command has come.  IInv says it step by step: which steps a *)
(* phase has (FlowInv), what the stage and the temporaries are there       *)
(* (StageInv, TempsInv), what may be selected and deleted (SelectInv),     *)
(* whose intent is on record (IntentInv), where each replaced digest can   *)
(* still be had (KeptInv), and that clean has no leased generation on its  *)
(* list (LeaseInv).                                                        *)
(***************************************************************************)
EXTENDS OutputStore, TLAPS

TestGens == {TestOf[i] : i \in Inputs}
ProdGens == {ProdOf[i] : i \in Inputs}

\* The types of what the argument is about.
TypeOK ==
    /\ dist \in Dist
    /\ proc \in Proc
    /\ lease \in [Children -> Ids \cup {None}]

Unlinking == {"unlink", "unlinkManifest", "rmdir"}
Phase(phases) == proc.phase \in phases
AtAny(steps) == proc.pc \in steps

\* The steps of each phase, and whose generation the command is about there.
FlowInv ==
    /\ Phase({"test"}) =>
         AtAny(RecoverSteps \cup ApplySteps \cup StageSteps \cup {"idle", "verify", "verdict"})
    /\ Phase({"prod"}) => AtAny(RecoverSteps \cup ApplySteps \cup StageSteps \cup {"intend"})
    /\ Phase({"publish"}) =>
         AtAny(IntendSteps \cup SelectSteps \cup ApplySteps
               \cup {"preflight", "abandon", "unpublish", "acquire"})
    /\ Phase({"restore"}) => AtAny(SelectSteps \cup {"abandon"}) /\ proc.prior # None
    /\ Phase({"cleanup"}) => AtAny(DeleteSteps)
    /\ Phase({"clean"}) =>
         AtAny(RecoverSteps \cup ApplySteps \cup CleanSteps \cup DeleteSteps)
    /\ ~At("idle") => proc.snap \in Inputs
    /\ Phase({"test"}) /\ ~At("idle") => proc.id = TestOf[proc.snap]
    /\ Phase({"prod", "publish", "restore"}) => proc.id = ProdOf[proc.snap]
    /\ AtAny(Unlinking) => proc.id \in Ids

\* Only a stage that pending.json reserves is filled, for a generation that is
\* not there yet.
Unstaged == {"unpend", "temps", "assets", "lookup", "reserve", "reserved", "fill", "placed",
             "verify", "verdict", "preflight", "abandon", "unpublish", "acquire"}
            \cup IntendSteps \cup SelectSteps \cup ApplySteps \cup CleanSteps

StageInv ==
    /\ AtAny(Unstaged) => dist.stage = "absent"
    /\ AtAny({"reserve", "reserved", "fill", "fillRest", "place"}) =>
         dist.gens[proc.id] = "absent"
    /\ AtAny({"fill", "fillRest", "place"}) => dist.pending = proc.id
    /\ AtAny({"unstage", "rmdirStage"}) => dist.stage # "absent"
    /\ At("place") => dist.stage = "whole"
    /\ dist.stage # "absent" => dist.pending # None /\ ~Whole(dist.pending)

\* After Recover a temporary exists only between its two steps; a failed
\* retention may leave its own to the selection of the prior generation.
Swept == {"assets", "retain", "account", "sweep", "settled", "lookup", "reserve", "fill",
          "fillRest", "place", "placed", "verify", "verdict", "intend", "preflight"}

TempsInv ==
    /\ AtAny(Swept) => dist.temps = {}
    /\ At("reserved") => dist.temps \subseteq {".pending.tmp"}
    /\ At("intended") => dist.temps \subseteq {".pending-assets.tmp"}
    /\ At("accounted") => dist.temps \subseteq {".assets.tmp"}
    /\ Phase({"publish"}) /\ AtAny({"select", "switched"}) => dist.temps = {}
    /\ Phase({"publish"}) /\ At("switch") => dist.temps \subseteq {".current.tmp"}
    /\ Phase({"restore"}) /\ At("select") => dist.temps \subseteq {".assets.tmp"}

\* What is about to be selected is whole, what is being deleted is not selected.
SelectInv ==
    /\ CurrentWhole
    /\ At("switch") => Whole(Target)
    /\ AtAny(Unlinking) => dist.current # proc.id
    /\ Phase({"clean"}) /\ AtAny({"sweepClean", "resetClean"} \cup DeleteSteps) =>
         dist.current = None

\* The intent of the command's own publication, and that it has no duty to
\* retain anything when it writes none.
Own == [prior |-> proc.prior, current |-> proc.id]
NoDuty == Served[proc.id] = {} /\ dist.ledger = None
          /\ (proc.prior # None => Served[proc.prior] = {})

IntentInv ==
    /\ dist.current \in ProdGens \cup {None}
    /\ proc.prior \in ProdGens \cup {None}
    /\ dist.intent # None =>
         dist.intent.prior \in ProdGens \cup {None} /\ dist.intent.current \in ProdGens
    /\ AtAny(StageSteps \cup IntendSteps \cup CleanSteps \cup {"verify", "verdict"}) => ~Landed
    /\ Phase({"clean"}) /\ AtAny(DeleteSteps) => dist.intent = None
    /\ AtAny(ApplySteps) => Landed
    /\ Phase({"publish"}) /\ AtAny(ApplySteps \cup {"preflight", "abandon"}) =>
         dist.intent = Own
    /\ Phase({"restore"}) => dist.intent \in {Own, None}
    /\ Phase({"publish"}) /\ AtAny({"select", "switch"}) =>
         dist.intent = Own \/ (~Landed /\ NoDuty)
    /\ Phase({"publish"}) /\ At("switched") => dist.intent = Own \/ NoDuty
    /\ Phase({"publish"}) /\ AtAny(IntendSteps \cup {"preflight", "select", "switch"}) =>
         dist.current = proc.prior
    /\ Phase({"publish"}) /\ At("abandon") => dist.current \in {proc.prior, proc.id}
    /\ Phase({"restore"}) /\ AtAny({"switched", "abandon"}) => dist.current = proc.prior
    /\ Phase({"restore"}) /\ AtAny({"select", "switch"}) => dist.current = proc.id
    /\ Phase({"publish"}) /\ At("switched") => dist.current = proc.id
    /\ At("unpublish") => proc.prior = None
    /\ Phase({"cleanup"}) /\ Landed =>
         /\ proc.doomed \subseteq TestGens \cup {dist.current}
         /\ AtAny(Unlinking) => proc.id \in TestGens

\* The digests still to be had, and rows of the ledger without bytes, which a
\* clean that died leaves.
Due == owed \ forfeited
Bare == (Retained \ dist.durable) \ forfeited
Stored(d) == d \in Retained /\ d \in dist.durable

\* Every replaced digest can be had without the new selection, as long as the
\* selection may be taken back; and without the prior one, once it is accounted.
KeptInv ==
    /\ AssetsKeptUnlessForfeited
    /\ \/ Phase({"publish"}) /\ AtAny({"switched", "retain", "account", "accounted", "unpublish"})
       \/ Phase({"restore"})
       => \A d \in Due : Stored(d) \/ (proc.prior # None /\ d \in Served[proc.prior])
    /\ Phase({"restore"}) => \A d \in Bare : d \notin Served[proc.prior]
    /\ Phase({"publish"}) /\ At("abandon") =>
         /\ \A d \in Due : Stored(d) \/ (dist.current # None /\ d \in Served[dist.current])
         /\ dist.current # None => \A d \in Bare : d \notin Served[dist.current]
    /\ AtAny({"sweep", "settled"}) =>
         /\ \A d \in Due : Stored(d) \/ d \in Served[dist.current]
         /\ \A d \in Bare : d \notin Served[dist.current]
    /\ AtAny({"account", "accounted"}) => Added \subseteq dist.durable
    /\ dist.current # None /\ ~Landed => \A d \in Bare : d \notin Served[dist.current]
    /\ Landed /\ dist.intent.prior # None => \A d \in Bare : d \notin Served[dist.intent.prior]
    /\ Phase({"clean"}) /\ AtAny({"sweepClean", "resetClean"} \cup DeleteSteps) => owed = {}

\* The steps whose failure costs no replaced digest.
TakenBack ==
    /\ ~AtAny({"idle", "verdict", "abandon", "unpublish"})
    /\ Phase({"publish"}) => ~AtAny({"switched", "sweep", "settled"})

\* Clean has no leased generation on its list.
LeaseInv ==
    Phase({"clean"}) /\ AtAny({"unpublishClean", "sweepClean", "resetClean"} \cup DeleteSteps) =>
        \A c \in Children : lease[c] # None =>
            lease[c] \notin proc.doomed /\ (AtAny(Unlinking) => lease[c] # proc.id)

IInv == /\ TypeOK /\ FlowInv /\ StageInv /\ TempsInv /\ SelectInv /\ IntentInv
        /\ KeptInv /\ LeaseInv

-----------------------------------------------------------------------------
\* The ids of the two kinds of generations.
LEMMA IdFacts ==
    /\ \A i \in Inputs : TestOf[i] \in TestGens /\ ProdOf[i] \in ProdGens
    /\ TestGens \subseteq Ids /\ ProdGens \subseteq Ids
    /\ \A i \in ProdGens : i \notin TestGens
    /\ None \notin Ids /\ None \notin ProdGens /\ None \notin Inputs
  BY IdsAssumption DEF TestGens, ProdGens, Ids

\* A command's fields, after it goes on at a step.
LEMMA GotoFacts ==
    ASSUME proc \in Proc, NEW step \in Steps, Goto(step)
    PROVE  /\ proc' \in Proc /\ proc'.pc = step
           /\ proc'.phase = proc.phase /\ proc'.snap = proc.snap /\ proc'.id = proc.id
           /\ proc'.prior = proc.prior /\ proc'.doomed = proc.doomed
           /\ proc'.kind = proc.kind /\ proc'.child = proc.child
  BY DEF Proc, Goto

\* A command's fields, after it begins to delete generations.
LEMMA DiscardFacts ==
    ASSUME proc \in Proc, NEW ids \in SUBSET Ids, Discard(ids)
    PROVE  /\ proc' \in Proc /\ proc'.pc = "discard" /\ proc'.phase = "cleanup"
           /\ proc'.doomed = ids /\ proc'.snap = proc.snap
           /\ proc'.prior = proc.prior /\ proc'.id = proc.id
  BY DEF Proc, Discard, Steps, DeleteSteps

\* There is no command.
LEMMA NobodyFacts ==
    /\ Nobody \in Proc /\ Nobody.pc = "idle" /\ Nobody.phase = "test"
    /\ Nobody.prior = None /\ Nobody.doomed = {}
  BY DEF Proc, Nobody, Steps

\* The types of the fields of the directory.
LEMMA DistFacts ==
    ASSUME dist \in Dist
    PROVE  /\ dist.gens \in [Ids -> {"absent", "whole", "broken", "husk"}]
           /\ dist.pending \in Ids \cup {None} /\ dist.current \in Ids \cup {None}
           /\ dist.stage \in {"absent", "part", "whole"}
           /\ dist.intent \in [prior : Ids \cup {None}, current : Ids] \cup {None}
           /\ dist.ledger \in (SUBSET Digests) \cup {None}
           /\ dist.durable \in SUBSET Digests /\ dist.temps \in SUBSET Temps
  BY DEF Dist

\* Init: an empty directory and no command.
LEMMA InitInv == Init => IInv
<1> SUFFICES ASSUME Init PROVE IInv
  OBVIOUS
<1>1. /\ dist.gens = [i \in Ids |-> "absent"] /\ dist.pending = None
      /\ dist.stage = "absent"
      /\ dist.current = None /\ dist.intent = None /\ dist.ledger = None
      /\ dist.durable = {} /\ dist.temps = {}
  BY DEF Init
<1>2. dist \in Dist
  BY DEF Init, Dist
<1>3. proc \in Proc /\ At("idle") /\ proc.phase = "test" /\ proc.prior = None
  BY NobodyFacts DEF Init, At
<1>4. TypeOK
  BY <1>2, <1>3 DEF Init, TypeOK
<1>5. owed = {}
  BY DEF Init
<1> USE DEF At, AtAny, Phase, RecoverSteps, StageSteps, IntendSteps, SelectSteps, ApplySteps,
            DeleteSteps, CleanSteps, Unlinking
<1>6. FlowInv /\ StageInv
  BY <1>1, <1>3 DEF FlowInv, StageInv, Unstaged
<1>7. TempsInv /\ SelectInv
  BY <1>1, <1>3 DEF TempsInv, SelectInv, Swept, CurrentWhole
<1>8. IntentInv
  BY <1>1, <1>3 DEF IntentInv
<1>9. KeptInv /\ LeaseInv
  BY <1>1, <1>3, <1>5 DEF KeptInv, LeaseInv, AssetsKeptUnlessForfeited, Due, Servable,
     Landed
<1> QED
  BY <1>4, <1>6, <1>7, <1>8, <1>9 DEF IInv

-----------------------------------------------------------------------------
\* The command ends or dies: what dist/ holds is all that is left.
LEMMA FinishInv ==
    ASSUME IInv, Finish, dist' = dist, owed' = owed, forfeited' = forfeited,
           lease' \in [Children -> Ids \cup {None}]
    PROVE  IInv'
<1> USE DEF At, AtAny, Phase, RecoverSteps, StageSteps, IntendSteps, SelectSteps, ApplySteps,
            DeleteSteps, CleanSteps, Unlinking
<1>1. /\ proc' \in Proc /\ proc'.pc = "idle" /\ proc'.phase = "test"
      /\ proc'.prior = None
  BY NobodyFacts DEF Finish
<1>2. TypeOK'
  BY <1>1 DEF IInv, TypeOK
<1>3. FlowInv' /\ StageInv'
  BY <1>1 DEF IInv, FlowInv, StageInv, Unstaged, Whole
<1>4. TempsInv' /\ SelectInv'
  BY <1>1 DEF IInv, TempsInv, SelectInv, Swept, CurrentWhole, Whole
<1>5. IntentInv'
  BY <1>1 DEF IInv, IntentInv, Landed
<1>6. KeptInv' /\ LeaseInv'
  BY <1>1 DEF IInv, KeptInv, LeaseInv, AssetsKeptUnlessForfeited, Due, Servable, Landed,
     Stored, Retained, Bare, Whole
<1> QED
  BY <1>2, <1>3, <1>4, <1>5, <1>6 DEF IInv

\* The command turns to deleting: anything, if no intent is on record, and test
\* generations otherwise.
LEMMA DiscardInv ==
    ASSUME IInv, NEW ids \in SUBSET Ids, Discard(ids), proc.snap \in Inputs,
           Landed => ids \subseteq TestGens \cup {dist.current},
           dist' = dist, owed' = owed, forfeited' = forfeited, lease' \in [Children -> Ids \cup {None}]
    PROVE  IInv'
<1> USE DEF At, AtAny, Phase, RecoverSteps, StageSteps, IntendSteps, SelectSteps, ApplySteps,
            DeleteSteps, CleanSteps, Unlinking
<1>1. /\ proc' \in Proc /\ proc'.pc = "discard" /\ proc'.phase = "cleanup"
      /\ proc'.doomed = ids /\ proc'.snap = proc.snap /\ proc'.prior = proc.prior
  BY DiscardFacts DEF IInv, TypeOK
<1>2. TypeOK'
  BY <1>1 DEF IInv, TypeOK
<1>3. FlowInv' /\ StageInv'
  BY <1>1 DEF IInv, FlowInv, StageInv, Unstaged, Whole
<1>4. TempsInv' /\ SelectInv'
  BY <1>1 DEF IInv, TempsInv, SelectInv, Swept, CurrentWhole, Whole
<1>5. IntentInv'
  BY <1>1 DEF IInv, IntentInv, Landed
<1>6. KeptInv' /\ LeaseInv'
  BY <1>1 DEF IInv, KeptInv, LeaseInv, AssetsKeptUnlessForfeited, Due, Servable, Landed,
     Stored, Retained, Bare, Whole
<1> QED
  BY <1>2, <1>3, <1>4, <1>5, <1>6 DEF IInv

\* A failed step is answered: the command ends, deletes what it made, gives up its
\* selection, or takes it back.
LEMMA RefusedInv ==
    ASSUME IInv, Refused, TakenBack, UNCHANGED <<dist, owed, forfeited, lease>>
    PROVE  IInv'
<1> USE DEF At, AtAny, Phase, RecoverSteps, StageSteps, IntendSteps, SelectSteps, ApplySteps,
            DeleteSteps, CleanSteps, Unlinking
<1>1. /\ proc \in Proc /\ dist \in Dist /\ lease' \in [Children -> Ids \cup {None}]
      /\ proc.phase \in {"test", "prod", "publish", "restore", "cleanup", "clean"}
      /\ proc.pc \notin {"idle", "verdict", "abandon", "unpublish"}
      /\ proc.phase = "publish" => proc.pc \notin {"switched", "sweep", "settled"}
  BY DEF IInv, TypeOK, Proc, TakenBack
<1>2. proc.snap \in Inputs /\ Test \in TestGens /\ Test \in Ids
  BY <1>1, IdFacts DEF IInv, FlowInv, Test
<1>3. CASE Finish
  BY <1>3, <1>1, FinishInv
<1>4. CASE Discard({Test})
  BY <1>4, <1>1, <1>2, DiscardInv
<1>5. CASE proc.phase = "cleanup"
  <2>1. proc' = [proc EXCEPT !.pc = "discard",
                             !.doomed = IF At("discard") THEN Undiscarded ELSE @]
    BY <1>5 DEF Refused
  <2>2. (IF At("discard") THEN Undiscarded ELSE proc.doomed) \subseteq proc.doomed
    BY DEF Undiscarded
  <2>3. proc.doomed \in SUBSET Ids
    BY <1>1 DEF Proc
  <2>4. /\ proc' \in Proc /\ proc'.pc = "discard" /\ proc'.phase = "cleanup"
        /\ proc'.doomed \subseteq proc.doomed /\ proc'.snap = proc.snap
        /\ proc'.prior = proc.prior
    <3> DEFINE left == IF At("discard") THEN Undiscarded ELSE proc.doomed
    <3>1. proc' = [proc EXCEPT !.pc = "discard", !.doomed = left]
      BY <2>1
    <3>2. left \in SUBSET Ids /\ left \subseteq proc.doomed
      BY <2>2, <2>3
    <3> HIDE DEF left
    <3> QED
      BY <3>1, <3>2, <1>1, <1>5 DEF Proc, Steps
  <2>5. TypeOK' /\ FlowInv' /\ StageInv'
    BY <1>1, <1>2, <2>4 DEF IInv, TypeOK, FlowInv, StageInv, Unstaged, Whole
  <2>6. TempsInv' /\ SelectInv'
    BY <2>4 DEF IInv, TempsInv, SelectInv, Swept, CurrentWhole, Whole
  <2>7. IntentInv'
    BY <1>5, <2>4 DEF IInv, IntentInv, Landed
  <2>8. KeptInv' /\ LeaseInv'
    BY <2>4 DEF IInv, KeptInv, LeaseInv, AssetsKeptUnlessForfeited, Due, Servable, Landed,
       Stored, Retained, Bare, Whole
  <2> QED
    BY <2>5, <2>6, <2>7, <2>8 DEF IInv
<1>6. CASE proc.phase = "publish" /\ proc.pc \in {"intend", "intended", "preflight", "select", "switch"}
           /\ Discard({proc.id, Test})
  <2>1. proc.id \in Ids
    BY <1>2, <1>6, IdFacts DEF IInv, FlowInv
  <2>2. dist.intent # Own => ~Landed
    BY <1>6 DEF IInv, IntentInv
  <2>3. dist.intent = Own /\ Landed => dist.current = proc.id
    BY DEF Own, Landed
  <2> QED
    BY <2>1, <2>2, <2>3, <1>6, <1>1, <1>2, DiscardInv
<1>7. CASE proc.phase = "publish" /\ proc.pc \in {"select", "switch", "preflight"}
           /\ NeedsAssets(proc.prior, proc.id)
  <2>1. Goto("abandon")
    BY <1>7 DEF Refused
  <2>2. /\ proc' \in Proc /\ proc'.pc = "abandon" /\ proc'.phase = "publish"
        /\ proc'.id = proc.id /\ proc'.snap = proc.snap /\ proc'.prior = proc.prior
    BY <2>1, <1>1, <1>7, GotoFacts DEF Steps
  <2>3. dist.intent = Own /\ dist.current = proc.prior
    BY <1>7 DEF IInv, IntentInv, NoDuty, NeedsAssets
  <2>4. TypeOK' /\ FlowInv' /\ StageInv'
    BY <1>1, <1>2, <1>7, <2>2 DEF IInv, TypeOK, FlowInv, StageInv, Unstaged, Whole
  <2>5. TempsInv' /\ SelectInv'
    BY <2>2 DEF IInv, TempsInv, SelectInv, Swept, CurrentWhole, Whole
  <2>6. IntentInv'
    BY <1>7, <2>2, <2>3 DEF IInv, IntentInv, Own, NoDuty, Landed
  <2>7. Landed => dist.intent.prior = dist.current
    BY <2>3 DEF Own, Landed
  <2>8. KeptInv'
    BY <2>2, <2>3, <2>7 DEF IInv, KeptInv, AssetsKeptUnlessForfeited, Due, Servable,
       Landed, Stored, Retained, Bare, Whole
  <2>9. LeaseInv'
    BY <2>2 DEF IInv, LeaseInv
  <2> QED
    BY <2>4, <2>5, <2>6, <2>8, <2>9 DEF IInv
<1>8. CASE proc.phase = "publish" /\ proc.pc \in {"retain", "account", "accounted"}
           /\ proc.prior = None
  <2>1. Goto("unpublish")
    BY <1>8 DEF Refused
  <2>2. /\ proc' \in Proc /\ proc'.pc = "unpublish" /\ proc'.phase = "publish"
        /\ proc'.id = proc.id /\ proc'.snap = proc.snap /\ proc'.prior = proc.prior
    BY <2>1, <1>1, <1>8, GotoFacts DEF Steps
  <2>3. TypeOK' /\ FlowInv' /\ StageInv'
    BY <1>1, <1>2, <1>8, <2>2 DEF IInv, TypeOK, FlowInv, StageInv, Unstaged, Whole
  <2>4. TempsInv' /\ SelectInv'
    BY <2>2 DEF IInv, TempsInv, SelectInv, Swept, CurrentWhole, Whole
  <2>5. IntentInv'
    BY <1>8, <2>2 DEF IInv, IntentInv, Own, NoDuty, Landed
  <2>6. KeptInv' /\ LeaseInv'
    BY <1>8, <2>2 DEF IInv, KeptInv, LeaseInv, AssetsKeptUnlessForfeited, Due, Servable,
       Landed, Stored, Retained, Bare, Whole
  <2> QED
    BY <2>3, <2>4, <2>5, <2>6 DEF IInv
<1>9. CASE proc.phase = "publish" /\ proc.pc \in {"retain", "account", "accounted"}
           /\ proc.prior # None
  <2>1. proc' = [proc EXCEPT !.pc = "select", !.phase = "restore"]
    BY <1>9 DEF Refused
  <2>2. /\ proc' \in Proc /\ proc'.pc = "select" /\ proc'.phase = "restore"
        /\ proc'.id = proc.id /\ proc'.snap = proc.snap /\ proc'.prior = proc.prior
    BY <2>1, <1>1, ZenonT(40) DEF Proc, Steps
  <2>3. TypeOK' /\ FlowInv' /\ StageInv'
    BY <1>1, <1>2, <1>9, <2>2 DEF IInv, TypeOK, FlowInv, StageInv, Unstaged, Whole
  <2>4. TempsInv' /\ SelectInv'
    BY <1>9, <2>2 DEF IInv, TempsInv, SelectInv, Swept, CurrentWhole, Whole
  <2>5. IntentInv'
    BY <1>9, <2>2 DEF IInv, IntentInv, Own, NoDuty, Landed
  <2>6. KeptInv' /\ LeaseInv'
    <3>1. Landed /\ dist.intent.prior = proc.prior
      BY <1>9 DEF IInv, IntentInv, Own
    <3>2. \A d \in Bare : d \notin Served[proc.prior]
      BY <3>1, <1>9 DEF IInv, KeptInv
    <3> QED
      BY <1>9, <2>2, <3>2 DEF IInv, KeptInv, LeaseInv, AssetsKeptUnlessForfeited, Due,
         Servable, Landed, Stored, Retained, Bare, Whole
  <2> QED
    BY <2>3, <2>4, <2>5, <2>6 DEF IInv
<1>10. CASE proc.phase \in {"test", "clean", "prod", "restore"} \/ At("acquire")
  <2>1. Finish \/ Discard({Test})
    BY <1>10, <1>1 DEF Refused, IInv, FlowInv
  <2> QED
    BY <2>1, <1>3, <1>4
<1>11. CASE /\ proc.phase = "publish"
            /\ proc.pc \in {"intend", "intended", "preflight", "select", "switch"}
            /\ proc.pc \in IntendSteps \/ ~NeedsAssets(proc.prior, proc.id)
  <2>1. Discard({proc.id, Test})
    BY <1>11 DEF Refused
  <2> QED
    BY <2>1, <1>6, <1>11
<1> QED
  BY <1>1, <1>5, <1>7, <1>8, <1>9, <1>10, <1>11 DEF IInv, FlowInv
-----------------------------------------------------------------------------
\* Recover's first half: a reserved stage goes before its reservation, then the
\* temporaries.
LEMMA RecoverStageInv ==
    ASSUME IInv, RecoverFresh \/ RecoverStage \/ RecoverTemps
    PROVE  IInv'
<1> USE DEF At, AtAny, Phase, RecoverSteps, StageSteps, IntendSteps, SelectSteps, ApplySteps,
            DeleteSteps, CleanSteps, Unlinking
<1>1. dist \in Dist /\ proc \in Proc
  BY DEF IInv, TypeOK
<1>2. CASE RecoverFresh /\ source # proc.snap.source
  BY <1>2, RefusedInv DEF RecoverFresh, KeepDist, TakenBack
<1>3. CASE RecoverFresh /\ At("fresh") /\ source = proc.snap.source /\ dist.pending = None
  <2>1. Goto("temps")
    BY <1>3 DEF RecoverFresh, KeepDist
  <2>2. /\ proc' \in Proc /\ proc'.pc = "temps" /\ proc'.phase = proc.phase
        /\ proc'.snap = proc.snap
        /\ proc'.id = proc.id /\ proc'.prior = proc.prior /\ proc'.doomed = proc.doomed
    BY <2>1, <1>3, <1>1, GotoFacts DEF Steps
  <2>3. dist' = dist /\ owed' = owed /\ forfeited' = forfeited /\ lease' = lease
    BY <1>3 DEF RecoverFresh, KeepDist
  <2>4. TypeOK'
    BY <1>3, <2>2, <2>3, <1>1 DEF IInv, TypeOK
  <2>5. FlowInv'
    BY <1>3, <2>2, <2>3, <1>1 DEF IInv, FlowInv
  <2>6. StageInv'
    BY <1>3, <2>2, <2>3, <1>1 DEF IInv, StageInv, Unstaged, Whole
  <2>7. TempsInv'
    BY <1>3, <2>2, <2>3, <1>1 DEF IInv, TempsInv, Swept
  <2>8. SelectInv'
    BY <1>3, <2>2, <2>3, <1>1 DEF IInv, SelectInv, CurrentWhole, Whole, Target
  <2>9. IntentInv'
    BY <1>3, <2>2, <2>3, <1>1 DEF IInv, IntentInv, Own, NoDuty, Landed
  <2>10. KeptInv'
    BY <1>3, <2>2, <2>3, <1>1 DEF IInv, KeptInv, AssetsKeptUnlessForfeited, Due, Servable,
       Landed, Stored, Retained, Bare, Added, Whole
  <2>11. LeaseInv'
    BY <1>3, <2>2, <2>3, <1>1 DEF IInv, LeaseInv
  <2> QED
    BY <2>4, <2>5, <2>6, <2>7, <2>8, <2>9, <2>10, <2>11 DEF IInv
<1>4. CASE /\ RecoverFresh /\ At("fresh") /\ source = proc.snap.source
           /\ dist.pending # None /\ dist.stage = "absent"
  <2>1. Goto("unpend")
    BY <1>4 DEF RecoverFresh, KeepDist
  <2>2. /\ proc' \in Proc /\ proc'.pc = "unpend" /\ proc'.phase = proc.phase
        /\ proc'.snap = proc.snap
        /\ proc'.id = proc.id /\ proc'.prior = proc.prior /\ proc'.doomed = proc.doomed
    BY <2>1, <1>4, <1>1, GotoFacts DEF Steps
  <2>3. dist' = dist /\ owed' = owed /\ forfeited' = forfeited /\ lease' = lease
    BY <1>4 DEF RecoverFresh, KeepDist
  <2>4. TypeOK'
    BY <1>4, <2>2, <2>3, <1>1 DEF IInv, TypeOK
  <2>5. FlowInv'
    BY <1>4, <2>2, <2>3, <1>1 DEF IInv, FlowInv
  <2>6. StageInv'
    BY <1>4, <2>2, <2>3, <1>1 DEF IInv, StageInv, Unstaged, Whole
  <2>7. TempsInv'
    BY <1>4, <2>2, <2>3, <1>1 DEF IInv, TempsInv, Swept
  <2>8. SelectInv'
    BY <1>4, <2>2, <2>3, <1>1 DEF IInv, SelectInv, CurrentWhole, Whole, Target
  <2>9. IntentInv'
    BY <1>4, <2>2, <2>3, <1>1 DEF IInv, IntentInv, Own, NoDuty, Landed
  <2>10. KeptInv'
    BY <1>4, <2>2, <2>3, <1>1 DEF IInv, KeptInv, AssetsKeptUnlessForfeited, Due, Servable,
       Landed, Stored, Retained, Bare, Added, Whole
  <2>11. LeaseInv'
    BY <1>4, <2>2, <2>3, <1>1 DEF IInv, LeaseInv
  <2> QED
    BY <2>4, <2>5, <2>6, <2>7, <2>8, <2>9, <2>10, <2>11 DEF IInv
<1>5. CASE /\ RecoverFresh /\ At("fresh") /\ source = proc.snap.source
           /\ dist.pending # None /\ dist.stage # "absent"
  <2>1. Goto("unstage")
    BY <1>5 DEF RecoverFresh, KeepDist
  <2>2. /\ proc' \in Proc /\ proc'.pc = "unstage" /\ proc'.phase = proc.phase
        /\ proc'.snap = proc.snap
        /\ proc'.id = proc.id /\ proc'.prior = proc.prior /\ proc'.doomed = proc.doomed
    BY <2>1, <1>5, <1>1, GotoFacts DEF Steps
  <2>3. dist' = dist /\ owed' = owed /\ forfeited' = forfeited /\ lease' = lease
    BY <1>5 DEF RecoverFresh, KeepDist
  <2>4. TypeOK'
    BY <1>5, <2>2, <2>3, <1>1 DEF IInv, TypeOK
  <2>5. FlowInv'
    BY <1>5, <2>2, <2>3, <1>1 DEF IInv, FlowInv
  <2>6. StageInv'
    BY <1>5, <2>2, <2>3, <1>1 DEF IInv, StageInv, Unstaged, Whole
  <2>7. TempsInv'
    BY <1>5, <2>2, <2>3, <1>1 DEF IInv, TempsInv, Swept
  <2>8. SelectInv'
    BY <1>5, <2>2, <2>3, <1>1 DEF IInv, SelectInv, CurrentWhole, Whole, Target
  <2>9. IntentInv'
    BY <1>5, <2>2, <2>3, <1>1 DEF IInv, IntentInv, Own, NoDuty, Landed
  <2>10. KeptInv'
    BY <1>5, <2>2, <2>3, <1>1 DEF IInv, KeptInv, AssetsKeptUnlessForfeited, Due, Servable,
       Landed, Stored, Retained, Bare, Added, Whole
  <2>11. LeaseInv'
    BY <1>5, <2>2, <2>3, <1>1 DEF IInv, LeaseInv
  <2> QED
    BY <2>4, <2>5, <2>6, <2>7, <2>8, <2>9, <2>10, <2>11 DEF IInv
<1>6. CASE RecoverStage /\ At("unstage")
  <2>1. Goto("rmdirStage")
    BY <1>6 DEF RecoverStage, KeepRest
  <2>2. /\ proc' \in Proc /\ proc'.pc = "rmdirStage" /\ proc'.phase = proc.phase
        /\ proc'.snap = proc.snap
        /\ proc'.id = proc.id /\ proc'.prior = proc.prior /\ proc'.doomed = proc.doomed
    BY <2>1, <1>6, <1>1, GotoFacts DEF Steps
  <2>3. dist' = [dist EXCEPT !.stage = "part"]
    BY <1>6 DEF RecoverStage, KeepRest
  <2>4. owed' = owed /\ forfeited' = forfeited /\ lease' = lease
    BY <1>6 DEF RecoverStage, KeepRest
  <2>5. /\ dist' \in Dist
        /\ dist'.gens = dist.gens /\ dist'.pending = dist.pending /\ dist'.stage = "part"
        /\ dist'.current = dist.current
        /\ dist'.intent = dist.intent /\ dist'.ledger = dist.ledger
        /\ dist'.durable = dist.durable /\ dist'.temps = dist.temps
    BY <2>3, <1>6, <2>2, <2>4, <1>1, IdFacts DEF Dist, Temps
  <2>6. TypeOK'
    BY <1>6, <2>2, <2>4, <2>5, <1>1 DEF IInv, TypeOK
  <2>7. FlowInv'
    BY <1>6, <2>2, <2>4, <2>5, <1>1 DEF IInv, FlowInv
  <2>8. StageInv'
    BY <1>6, <2>2, <2>4, <2>5, <1>1 DEF IInv, StageInv, Unstaged, Whole
  <2>9. TempsInv'
    BY <1>6, <2>2, <2>4, <2>5, <1>1 DEF IInv, TempsInv, Swept
  <2>10. SelectInv'
    BY <1>6, <2>2, <2>4, <2>5, <1>1 DEF IInv, SelectInv, CurrentWhole, Whole, Target
  <2>11. IntentInv'
    BY <1>6, <2>2, <2>4, <2>5, <1>1 DEF IInv, IntentInv, Own, NoDuty, Landed
  <2>12. KeptInv'
    BY <1>6, <2>2, <2>4, <2>5, <1>1 DEF IInv, KeptInv, AssetsKeptUnlessForfeited, Due,
       Servable, Landed, Stored, Retained, Bare, Added, Whole
  <2>13. LeaseInv'
    BY <1>6, <2>2, <2>4, <2>5, <1>1 DEF IInv, LeaseInv
  <2> QED
    BY <2>6, <2>7, <2>8, <2>9, <2>10, <2>11, <2>12, <2>13 DEF IInv
<1>7. CASE RecoverStage /\ At("rmdirStage")
  <2>1. Goto("unpend")
    BY <1>7 DEF RecoverStage, KeepRest
  <2>2. /\ proc' \in Proc /\ proc'.pc = "unpend" /\ proc'.phase = proc.phase
        /\ proc'.snap = proc.snap
        /\ proc'.id = proc.id /\ proc'.prior = proc.prior /\ proc'.doomed = proc.doomed
    BY <2>1, <1>7, <1>1, GotoFacts DEF Steps
  <2>3. dist' = [dist EXCEPT !.stage = "absent"]
    BY <1>7 DEF RecoverStage, KeepRest
  <2>4. owed' = owed /\ forfeited' = forfeited /\ lease' = lease
    BY <1>7 DEF RecoverStage, KeepRest
  <2>5. /\ dist' \in Dist
        /\ dist'.gens = dist.gens /\ dist'.pending = dist.pending /\ dist'.stage = "absent"
        /\ dist'.current = dist.current
        /\ dist'.intent = dist.intent /\ dist'.ledger = dist.ledger
        /\ dist'.durable = dist.durable /\ dist'.temps = dist.temps
    BY <2>3, <1>7, <2>2, <2>4, <1>1, IdFacts DEF Dist, Temps
  <2>6. TypeOK'
    BY <1>7, <2>2, <2>4, <2>5, <1>1 DEF IInv, TypeOK
  <2>7. FlowInv'
    BY <1>7, <2>2, <2>4, <2>5, <1>1 DEF IInv, FlowInv
  <2>8. StageInv'
    BY <1>7, <2>2, <2>4, <2>5, <1>1 DEF IInv, StageInv, Unstaged, Whole
  <2>9. TempsInv'
    BY <1>7, <2>2, <2>4, <2>5, <1>1 DEF IInv, TempsInv, Swept
  <2>10. SelectInv'
    BY <1>7, <2>2, <2>4, <2>5, <1>1 DEF IInv, SelectInv, CurrentWhole, Whole, Target
  <2>11. IntentInv'
    BY <1>7, <2>2, <2>4, <2>5, <1>1 DEF IInv, IntentInv, Own, NoDuty, Landed
  <2>12. KeptInv'
    BY <1>7, <2>2, <2>4, <2>5, <1>1 DEF IInv, KeptInv, AssetsKeptUnlessForfeited, Due,
       Servable, Landed, Stored, Retained, Bare, Added, Whole
  <2>13. LeaseInv'
    BY <1>7, <2>2, <2>4, <2>5, <1>1 DEF IInv, LeaseInv
  <2> QED
    BY <2>6, <2>7, <2>8, <2>9, <2>10, <2>11, <2>12, <2>13 DEF IInv
<1>8. CASE RecoverStage /\ At("unpend")
  <2>1. Goto("temps")
    BY <1>8 DEF RecoverStage, KeepRest
  <2>2. /\ proc' \in Proc /\ proc'.pc = "temps" /\ proc'.phase = proc.phase
        /\ proc'.snap = proc.snap
        /\ proc'.id = proc.id /\ proc'.prior = proc.prior /\ proc'.doomed = proc.doomed
    BY <2>1, <1>8, <1>1, GotoFacts DEF Steps
  <2>3. dist' = [dist EXCEPT !.pending = None]
    BY <1>8 DEF RecoverStage, KeepRest
  <2>4. owed' = owed /\ forfeited' = forfeited /\ lease' = lease
    BY <1>8 DEF RecoverStage, KeepRest
  <2>5. /\ dist' \in Dist
        /\ dist'.gens = dist.gens /\ dist'.pending = None /\ dist'.stage = dist.stage
        /\ dist'.current = dist.current
        /\ dist'.intent = dist.intent /\ dist'.ledger = dist.ledger
        /\ dist'.durable = dist.durable /\ dist'.temps = dist.temps
    BY <2>3, <1>8, <2>2, <2>4, <1>1, IdFacts DEF Dist, Temps
  <2>6. TypeOK'
    BY <1>8, <2>2, <2>4, <2>5, <1>1 DEF IInv, TypeOK
  <2>7. FlowInv'
    BY <1>8, <2>2, <2>4, <2>5, <1>1 DEF IInv, FlowInv
  <2>8. StageInv'
    BY <1>8, <2>2, <2>4, <2>5, <1>1 DEF IInv, StageInv, Unstaged, Whole
  <2>9. TempsInv'
    BY <1>8, <2>2, <2>4, <2>5, <1>1 DEF IInv, TempsInv, Swept
  <2>10. SelectInv'
    BY <1>8, <2>2, <2>4, <2>5, <1>1 DEF IInv, SelectInv, CurrentWhole, Whole, Target
  <2>11. IntentInv'
    BY <1>8, <2>2, <2>4, <2>5, <1>1 DEF IInv, IntentInv, Own, NoDuty, Landed
  <2>12. KeptInv'
    BY <1>8, <2>2, <2>4, <2>5, <1>1 DEF IInv, KeptInv, AssetsKeptUnlessForfeited, Due,
       Servable, Landed, Stored, Retained, Bare, Added, Whole
  <2>13. LeaseInv'
    BY <1>8, <2>2, <2>4, <2>5, <1>1 DEF IInv, LeaseInv
  <2> QED
    BY <2>6, <2>7, <2>8, <2>9, <2>10, <2>11, <2>12, <2>13 DEF IInv
<1>9. CASE RecoverTemps /\ At("temps")
  <2>1. Goto("assets")
    BY <1>9 DEF RecoverTemps, KeepRest
  <2>2. /\ proc' \in Proc /\ proc'.pc = "assets" /\ proc'.phase = proc.phase
        /\ proc'.snap = proc.snap
        /\ proc'.id = proc.id /\ proc'.prior = proc.prior /\ proc'.doomed = proc.doomed
    BY <2>1, <1>9, <1>1, GotoFacts DEF Steps
  <2>3. dist' = [dist EXCEPT !.temps = {}]
    BY <1>9 DEF RecoverTemps, KeepRest
  <2>4. owed' = owed /\ forfeited' = forfeited /\ lease' = lease
    BY <1>9 DEF RecoverTemps, KeepRest
  <2>5. /\ dist' \in Dist
        /\ dist'.gens = dist.gens /\ dist'.pending = dist.pending
        /\ dist'.stage = dist.stage /\ dist'.current = dist.current
        /\ dist'.intent = dist.intent /\ dist'.ledger = dist.ledger
        /\ dist'.durable = dist.durable /\ dist'.temps = {}
    BY <2>3, <1>9, <2>2, <2>4, <1>1, IdFacts DEF Dist, Temps
  <2>6. TypeOK'
    BY <1>9, <2>2, <2>4, <2>5, <1>1 DEF IInv, TypeOK
  <2>7. FlowInv'
    BY <1>9, <2>2, <2>4, <2>5, <1>1 DEF IInv, FlowInv
  <2>8. StageInv'
    BY <1>9, <2>2, <2>4, <2>5, <1>1 DEF IInv, StageInv, Unstaged, Whole
  <2>9. TempsInv'
    BY <1>9, <2>2, <2>4, <2>5, <1>1 DEF IInv, TempsInv, Swept
  <2>10. SelectInv'
    BY <1>9, <2>2, <2>4, <2>5, <1>1 DEF IInv, SelectInv, CurrentWhole, Whole, Target
  <2>11. IntentInv'
    BY <1>9, <2>2, <2>4, <2>5, <1>1 DEF IInv, IntentInv, Own, NoDuty, Landed
  <2>12. KeptInv'
    BY <1>9, <2>2, <2>4, <2>5, <1>1 DEF IInv, KeptInv, AssetsKeptUnlessForfeited, Due,
       Servable, Landed, Stored, Retained, Bare, Added, Whole
  <2>13. LeaseInv'
    BY <1>9, <2>2, <2>4, <2>5, <1>1 DEF IInv, LeaseInv
  <2> QED
    BY <2>6, <2>7, <2>8, <2>9, <2>10, <2>11, <2>12, <2>13 DEF IInv
<1> QED
  BY <1>2, <1>3, <1>4, <1>5, <1>6, <1>7, <1>8, <1>9 DEF RecoverFresh, RecoverStage,
     RecoverTemps

\* Recover's second half: a publication whose selection landed is completed, any
\* other is forgotten.
LEMMA RecoverAssetsInv ==
    ASSUME IInv, RecoverAssets
    PROVE  IInv'
<1> USE DEF At, AtAny, Phase, RecoverSteps, StageSteps, IntendSteps, SelectSteps, ApplySteps,
            DeleteSteps, CleanSteps, Unlinking
<1>1. dist \in Dist /\ proc \in Proc
  BY DEF IInv, TypeOK
<1>2. At("assets") => proc.phase \in {"test", "prod", "clean"}
  BY <1>1 DEF IInv, FlowInv, Proc
<1>3. CASE RecoverAssets /\ At("assets") /\ Landed
  <2>1. Goto("retain")
    BY <1>3 DEF RecoverAssets, KeepRest
  <2>2. /\ proc' \in Proc /\ proc'.pc = "retain" /\ proc'.phase = proc.phase
        /\ proc'.snap = proc.snap
        /\ proc'.id = proc.id /\ proc'.prior = proc.prior /\ proc'.doomed = proc.doomed
    BY <2>1, <1>3, <1>1, <1>2, GotoFacts DEF Steps
  <2>3. dist' = dist /\ owed' = owed /\ forfeited' = forfeited /\ lease' = lease
    BY <1>3 DEF RecoverAssets, KeepRest
  <2>4. TypeOK'
    BY <1>3, <2>2, <2>3, <1>1, <1>2 DEF IInv, TypeOK
  <2>5. FlowInv'
    BY <1>3, <2>2, <2>3, <1>1, <1>2 DEF IInv, FlowInv
  <2>6. StageInv'
    BY <1>3, <2>2, <2>3, <1>1, <1>2 DEF IInv, StageInv, Unstaged, Whole
  <2>7. TempsInv'
    BY <1>3, <2>2, <2>3, <1>1, <1>2 DEF IInv, TempsInv, Swept
  <2>8. SelectInv'
    BY <1>3, <2>2, <2>3, <1>1, <1>2 DEF IInv, SelectInv, CurrentWhole, Whole, Target
  <2>9. IntentInv'
    BY <1>3, <2>2, <2>3, <1>1, <1>2 DEF IInv, IntentInv, Own, NoDuty, Landed
  <2>10. KeptInv'
    BY <1>3, <2>2, <2>3, <1>1, <1>2 DEF IInv, KeptInv, AssetsKeptUnlessForfeited, Due,
       Servable, Landed, Stored, Retained, Bare, Added, Whole
  <2>11. LeaseInv'
    BY <1>3, <2>2, <2>3, <1>1, <1>2 DEF IInv, LeaseInv
  <2> QED
    BY <2>4, <2>5, <2>6, <2>7, <2>8, <2>9, <2>10, <2>11 DEF IInv
<1>4. AfterRecover \in {"preflightClean", "lookup"} /\ AfterRecover \in Steps
      /\ (proc.phase = "clean" <=> AfterRecover = "preflightClean")
  BY DEF AfterRecover, Steps
<1>5. CASE RecoverAssets /\ At("assets") /\ ~Landed
  <2>1. Goto(AfterRecover)
    BY <1>5 DEF RecoverAssets, KeepRest
  <2>2. /\ proc' \in Proc /\ proc'.pc = AfterRecover /\ proc'.phase = proc.phase
        /\ proc'.snap = proc.snap
        /\ proc'.id = proc.id /\ proc'.prior = proc.prior /\ proc'.doomed = proc.doomed
    BY <2>1, <1>5, <1>1, <1>2, <1>4, GotoFacts DEF Steps
  <2>3. dist' = [dist EXCEPT !.intent = None]
    BY <1>5 DEF RecoverAssets, KeepRest
  <2>4. owed' = owed /\ forfeited' = forfeited /\ lease' = lease
    BY <1>5 DEF RecoverAssets, KeepRest
  <2>5. /\ dist' \in Dist
        /\ dist'.gens = dist.gens /\ dist'.pending = dist.pending
        /\ dist'.stage = dist.stage /\ dist'.current = dist.current
        /\ dist'.intent = None /\ dist'.ledger = dist.ledger /\ dist'.durable = dist.durable
        /\ dist'.temps = dist.temps
    BY <2>3, <1>5, <2>2, <2>4, <1>1, <1>2, <1>4, IdFacts DEF Dist, Temps
  <2>6. TypeOK'
    BY <1>5, <2>2, <2>4, <2>5, <1>1, <1>2, <1>4 DEF IInv, TypeOK
  <2>7. FlowInv'
    BY <1>5, <2>2, <2>4, <2>5, <1>1, <1>2, <1>4 DEF IInv, FlowInv
  <2>8. StageInv'
    BY <1>5, <2>2, <2>4, <2>5, <1>1, <1>2, <1>4 DEF IInv, StageInv, Unstaged, Whole
  <2>9. TempsInv'
    BY <1>5, <2>2, <2>4, <2>5, <1>1, <1>2, <1>4 DEF IInv, TempsInv, Swept
  <2>10. SelectInv'
    BY <1>5, <2>2, <2>4, <2>5, <1>1, <1>2, <1>4 DEF IInv, SelectInv, CurrentWhole, Whole,
       Target
  <2>11. IntentInv'
    BY <1>5, <2>2, <2>4, <2>5, <1>1, <1>2, <1>4 DEF IInv, IntentInv, Own, NoDuty, Landed
  <2>12. KeptInv'
    BY <1>5, <2>2, <2>4, <2>5, <1>1, <1>2, <1>4 DEF IInv, KeptInv,
       AssetsKeptUnlessForfeited, Due, Servable, Landed, Stored, Retained, Bare, Added,
       Whole
  <2>13. LeaseInv'
    BY <1>5, <2>2, <2>4, <2>5, <1>1, <1>2, <1>4 DEF IInv, LeaseInv
  <2> QED
    BY <2>6, <2>7, <2>8, <2>9, <2>10, <2>11, <2>12, <2>13 DEF IInv
<1> QED
  BY <1>3, <1>5 DEF RecoverAssets

-----------------------------------------------------------------------------
\* Stage finds a whole generation and reuses it, or none and reserves its stage, or
\* refuses what is left of one.
LEMMA LookupInv ==
    ASSUME IInv, StageLookup
    PROVE  IInv'
<1> USE DEF At, AtAny, Phase, RecoverSteps, StageSteps, IntendSteps, SelectSteps, ApplySteps,
            DeleteSteps, CleanSteps, Unlinking
<1>1. dist \in Dist /\ proc \in Proc
  BY DEF IInv, TypeOK
<1>2. AtAny(StageSteps) =>
        /\ proc.phase \in {"test", "prod"} /\ proc.id \in Ids /\ ~Landed
        /\ proc.snap \in Inputs
  BY <1>1, IdFacts DEF IInv, FlowInv, IntentInv, Proc
<1>3. /\ AfterStage \in {"verify", "intend"} /\ AfterStage \in Steps
      /\ (proc.phase = "test" <=> AfterStage = "verify")
  BY DEF AfterStage, Steps
<1>4. CASE StageLookup /\ At("lookup") /\ dist.gens[proc.id] = "absent"
  <2>1. Goto("reserve")
    BY <1>4 DEF StageLookup, KeepDist, Whole
  <2>2. /\ proc' \in Proc /\ proc'.pc = "reserve" /\ proc'.phase = proc.phase
        /\ proc'.snap = proc.snap
        /\ proc'.id = proc.id /\ proc'.prior = proc.prior /\ proc'.doomed = proc.doomed
    BY <2>1, <1>4, <1>1, <1>2, <1>3, GotoFacts DEF Steps
  <2>3. dist' = dist /\ owed' = owed /\ forfeited' = forfeited /\ lease' = lease
    BY <1>4 DEF StageLookup, KeepDist, Whole
  <2>4. TypeOK'
    BY <1>4, <2>2, <2>3, <1>1, <1>2, <1>3 DEF IInv, TypeOK
  <2>5. FlowInv'
    BY <1>4, <2>2, <2>3, <1>1, <1>2, <1>3 DEF IInv, FlowInv
  <2>6. StageInv'
    BY <1>4, <2>2, <2>3, <1>1, <1>2, <1>3 DEF IInv, StageInv, Unstaged, Whole
  <2>7. TempsInv'
    BY <1>4, <2>2, <2>3, <1>1, <1>2, <1>3 DEF IInv, TempsInv, Swept
  <2>8. SelectInv'
    BY <1>4, <2>2, <2>3, <1>1, <1>2, <1>3 DEF IInv, SelectInv, CurrentWhole, Whole, Target
  <2>9. IntentInv'
    BY <1>4, <2>2, <2>3, <1>1, <1>2, <1>3 DEF IInv, IntentInv, Own, NoDuty, Landed
  <2>10. KeptInv'
    BY <1>4, <2>2, <2>3, <1>1, <1>2, <1>3 DEF IInv, KeptInv, AssetsKeptUnlessForfeited,
       Due, Servable, Landed, Stored, Retained, Bare, Added, Whole
  <2>11. LeaseInv'
    BY <1>4, <2>2, <2>3, <1>1, <1>2, <1>3 DEF IInv, LeaseInv
  <2> QED
    BY <2>4, <2>5, <2>6, <2>7, <2>8, <2>9, <2>10, <2>11 DEF IInv
<1>5. CASE StageLookup /\ At("lookup") /\ dist.gens[proc.id] = "whole"
  <2>1. Goto(AfterStage)
    BY <1>5 DEF StageLookup, KeepDist, Whole
  <2>2. /\ proc' \in Proc /\ proc'.pc = AfterStage /\ proc'.phase = proc.phase
        /\ proc'.snap = proc.snap
        /\ proc'.id = proc.id /\ proc'.prior = proc.prior /\ proc'.doomed = proc.doomed
    BY <2>1, <1>5, <1>1, <1>2, <1>3, GotoFacts DEF Steps
  <2>3. dist' = dist /\ owed' = owed /\ forfeited' = forfeited /\ lease' = lease
    BY <1>5 DEF StageLookup, KeepDist, Whole
  <2>4. TypeOK'
    BY <1>5, <2>2, <2>3, <1>1, <1>2, <1>3 DEF IInv, TypeOK
  <2>5. FlowInv'
    BY <1>5, <2>2, <2>3, <1>1, <1>2, <1>3 DEF IInv, FlowInv
  <2>6. StageInv'
    BY <1>5, <2>2, <2>3, <1>1, <1>2, <1>3 DEF IInv, StageInv, Unstaged, Whole
  <2>7. TempsInv'
    BY <1>5, <2>2, <2>3, <1>1, <1>2, <1>3 DEF IInv, TempsInv, Swept
  <2>8. SelectInv'
    BY <1>5, <2>2, <2>3, <1>1, <1>2, <1>3 DEF IInv, SelectInv, CurrentWhole, Whole, Target
  <2>9. IntentInv'
    BY <1>5, <2>2, <2>3, <1>1, <1>2, <1>3 DEF IInv, IntentInv, Own, NoDuty, Landed
  <2>10. KeptInv'
    BY <1>5, <2>2, <2>3, <1>1, <1>2, <1>3 DEF IInv, KeptInv, AssetsKeptUnlessForfeited,
       Due, Servable, Landed, Stored, Retained, Bare, Added, Whole
  <2>11. LeaseInv'
    BY <1>5, <2>2, <2>3, <1>1, <1>2, <1>3 DEF IInv, LeaseInv
  <2> QED
    BY <2>4, <2>5, <2>6, <2>7, <2>8, <2>9, <2>10, <2>11 DEF IInv
<1>6. CASE StageLookup /\ At("lookup") /\ dist.gens[proc.id] \notin {"absent", "whole"}
  <2>1. Refused /\ UNCHANGED <<dist, owed, forfeited, lease>>
    BY <1>6 DEF StageLookup, KeepDist, Whole
  <2> QED
    BY <2>1, <1>6, RefusedInv DEF TakenBack
<1> QED
  BY <1>4, <1>5, <1>6 DEF StageLookup

\* The stage is reserved, filled, renamed to its generation and released.
LEMMA StageStepsInv ==
    ASSUME IInv, StageReserve \/ StageFill \/ StagePlace
    PROVE  IInv'
<1> USE DEF At, AtAny, Phase, RecoverSteps, StageSteps, IntendSteps, SelectSteps, ApplySteps,
            DeleteSteps, CleanSteps, Unlinking
<1>1. dist \in Dist /\ proc \in Proc
  BY DEF IInv, TypeOK
<1>2. AtAny(StageSteps) =>
        /\ proc.phase \in {"test", "prod"} /\ proc.id \in Ids /\ ~Landed
        /\ proc.snap \in Inputs
  BY <1>1, IdFacts DEF IInv, FlowInv, IntentInv, Proc
<1>3. /\ AfterStage \in {"verify", "intend"} /\ AfterStage \in Steps
      /\ (proc.phase = "test" <=> AfterStage = "verify")
  BY DEF AfterStage, Steps
<1>4. At("reserve") => dist.temps = {}
  BY DEF IInv, TempsInv, Swept
<1>5. CASE StageReserve /\ At("reserve")
  <2>1. Goto("reserved")
    BY <1>5, <1>1, <1>2, <1>3, <1>4 DEF StageReserve, WriteTemp, KeepRest
  <2>2. /\ proc' \in Proc /\ proc'.pc = "reserved" /\ proc'.phase = proc.phase
        /\ proc'.snap = proc.snap
        /\ proc'.id = proc.id /\ proc'.prior = proc.prior /\ proc'.doomed = proc.doomed
    BY <2>1, <1>5, <1>1, <1>2, <1>3, <1>4, GotoFacts DEF Steps
  <2>3. dist' = [dist EXCEPT !.temps = @ \cup {".pending.tmp"}]
    BY <1>5, <1>1, <1>2, <1>3, <1>4 DEF StageReserve, WriteTemp, KeepRest
  <2>4. owed' = owed /\ forfeited' = forfeited /\ lease' = lease
    BY <1>5 DEF StageReserve, WriteTemp, KeepRest
  <2>5. /\ dist' \in Dist
        /\ dist'.gens = dist.gens /\ dist'.pending = dist.pending
        /\ dist'.stage = dist.stage /\ dist'.current = dist.current
        /\ dist'.intent = dist.intent /\ dist'.ledger = dist.ledger
        /\ dist'.durable = dist.durable /\ dist'.temps = dist.temps \cup {".pending.tmp"}
    BY <2>3, <1>5, <2>2, <2>4, <1>1, <1>2, <1>3, <1>4, IdFacts DEF Dist, Temps
  <2>6. TypeOK'
    BY <1>5, <2>2, <2>4, <2>5, <1>1, <1>2, <1>3, <1>4 DEF IInv, TypeOK
  <2>7. FlowInv'
    BY <1>5, <2>2, <2>4, <2>5, <1>1, <1>2, <1>3, <1>4 DEF IInv, FlowInv
  <2>8. StageInv'
    BY <1>5, <2>2, <2>4, <2>5, <1>1, <1>2, <1>3, <1>4 DEF IInv, StageInv, Unstaged, Whole
  <2>9. TempsInv'
    BY <1>5, <2>2, <2>4, <2>5, <1>1, <1>2, <1>3, <1>4 DEF IInv, TempsInv, Swept
  <2>10. SelectInv'
    BY <1>5, <2>2, <2>4, <2>5, <1>1, <1>2, <1>3, <1>4 DEF IInv, SelectInv, CurrentWhole,
       Whole, Target
  <2>11. IntentInv'
    BY <1>5, <2>2, <2>4, <2>5, <1>1, <1>2, <1>3, <1>4 DEF IInv, IntentInv, Own, NoDuty,
       Landed
  <2>12. KeptInv'
    BY <1>5, <2>2, <2>4, <2>5, <1>1, <1>2, <1>3, <1>4 DEF IInv, KeptInv,
       AssetsKeptUnlessForfeited, Due, Servable, Landed, Stored, Retained, Bare, Added,
       Whole
  <2>13. LeaseInv'
    BY <1>5, <2>2, <2>4, <2>5, <1>1, <1>2, <1>3, <1>4 DEF IInv, LeaseInv
  <2> QED
    BY <2>6, <2>7, <2>8, <2>9, <2>10, <2>11, <2>12, <2>13 DEF IInv
<1>6. CASE StageReserve /\ At("reserved")
  <2>1. Goto("fill")
    BY <1>6 DEF StageReserve, KeepRest
  <2>2. /\ proc' \in Proc /\ proc'.pc = "fill" /\ proc'.phase = proc.phase
        /\ proc'.snap = proc.snap
        /\ proc'.id = proc.id /\ proc'.prior = proc.prior /\ proc'.doomed = proc.doomed
    BY <2>1, <1>6, <1>1, <1>2, <1>3, GotoFacts DEF Steps
  <2>3. dist' = [dist EXCEPT !.temps = @ \ {".pending.tmp"}, !.pending = proc.id]
    BY <1>6 DEF StageReserve, KeepRest
  <2>4. owed' = owed /\ forfeited' = forfeited /\ lease' = lease
    BY <1>6 DEF StageReserve, KeepRest
  <2>5. /\ dist' \in Dist
        /\ dist'.gens = dist.gens /\ dist'.pending = proc.id /\ dist'.stage = dist.stage
        /\ dist'.current = dist.current
        /\ dist'.intent = dist.intent /\ dist'.ledger = dist.ledger
        /\ dist'.durable = dist.durable /\ dist'.temps = dist.temps \ {".pending.tmp"}
    BY <2>3, <1>6, <2>2, <2>4, <1>1, <1>2, <1>3, IdFacts DEF Dist, Temps
  <2>6. TypeOK'
    BY <1>6, <2>2, <2>4, <2>5, <1>1, <1>2, <1>3 DEF IInv, TypeOK
  <2>7. FlowInv'
    BY <1>6, <2>2, <2>4, <2>5, <1>1, <1>2, <1>3 DEF IInv, FlowInv
  <2>8. StageInv'
    BY <1>6, <2>2, <2>4, <2>5, <1>1, <1>2, <1>3 DEF IInv, StageInv, Unstaged, Whole
  <2>9. TempsInv'
    BY <1>6, <2>2, <2>4, <2>5, <1>1, <1>2, <1>3 DEF IInv, TempsInv, Swept
  <2>10. SelectInv'
    BY <1>6, <2>2, <2>4, <2>5, <1>1, <1>2, <1>3 DEF IInv, SelectInv, CurrentWhole, Whole,
       Target
  <2>11. IntentInv'
    BY <1>6, <2>2, <2>4, <2>5, <1>1, <1>2, <1>3 DEF IInv, IntentInv, Own, NoDuty, Landed
  <2>12. KeptInv'
    BY <1>6, <2>2, <2>4, <2>5, <1>1, <1>2, <1>3 DEF IInv, KeptInv,
       AssetsKeptUnlessForfeited, Due, Servable, Landed, Stored, Retained, Bare, Added,
       Whole
  <2>13. LeaseInv'
    BY <1>6, <2>2, <2>4, <2>5, <1>1, <1>2, <1>3 DEF IInv, LeaseInv
  <2> QED
    BY <2>6, <2>7, <2>8, <2>9, <2>10, <2>11, <2>12, <2>13 DEF IInv
<1>7. CASE StageFill /\ At("fill")
  <2>1. Goto("fillRest")
    BY <1>7 DEF StageFill, KeepRest
  <2>2. /\ proc' \in Proc /\ proc'.pc = "fillRest" /\ proc'.phase = proc.phase
        /\ proc'.snap = proc.snap
        /\ proc'.id = proc.id /\ proc'.prior = proc.prior /\ proc'.doomed = proc.doomed
    BY <2>1, <1>7, <1>1, <1>2, <1>3, GotoFacts DEF Steps
  <2>3. dist' = [dist EXCEPT !.stage = "part"]
    BY <1>7 DEF StageFill, KeepRest
  <2>4. owed' = owed /\ forfeited' = forfeited /\ lease' = lease
    BY <1>7 DEF StageFill, KeepRest
  <2>5. /\ dist' \in Dist
        /\ dist'.gens = dist.gens /\ dist'.pending = dist.pending /\ dist'.stage = "part"
        /\ dist'.current = dist.current
        /\ dist'.intent = dist.intent /\ dist'.ledger = dist.ledger
        /\ dist'.durable = dist.durable /\ dist'.temps = dist.temps
    BY <2>3, <1>7, <2>2, <2>4, <1>1, <1>2, <1>3, IdFacts DEF Dist, Temps
  <2>6. TypeOK'
    BY <1>7, <2>2, <2>4, <2>5, <1>1, <1>2, <1>3 DEF IInv, TypeOK
  <2>7. FlowInv'
    BY <1>7, <2>2, <2>4, <2>5, <1>1, <1>2, <1>3 DEF IInv, FlowInv
  <2>8. StageInv'
    BY <1>7, <2>2, <2>4, <2>5, <1>1, <1>2, <1>3, IdFacts DEF IInv, StageInv, Unstaged, Whole
  <2>9. TempsInv'
    BY <1>7, <2>2, <2>4, <2>5, <1>1, <1>2, <1>3 DEF IInv, TempsInv, Swept
  <2>10. SelectInv'
    BY <1>7, <2>2, <2>4, <2>5, <1>1, <1>2, <1>3 DEF IInv, SelectInv, CurrentWhole, Whole,
       Target
  <2>11. IntentInv'
    BY <1>7, <2>2, <2>4, <2>5, <1>1, <1>2, <1>3 DEF IInv, IntentInv, Own, NoDuty, Landed
  <2>12. KeptInv'
    BY <1>7, <2>2, <2>4, <2>5, <1>1, <1>2, <1>3 DEF IInv, KeptInv,
       AssetsKeptUnlessForfeited, Due, Servable, Landed, Stored, Retained, Bare, Added,
       Whole
  <2>13. LeaseInv'
    BY <1>7, <2>2, <2>4, <2>5, <1>1, <1>2, <1>3 DEF IInv, LeaseInv
  <2> QED
    BY <2>6, <2>7, <2>8, <2>9, <2>10, <2>11, <2>12, <2>13 DEF IInv
<1>8. CASE StageFill /\ At("fillRest")
  <2>1. Goto("place")
    BY <1>8 DEF StageFill, KeepRest
  <2>2. /\ proc' \in Proc /\ proc'.pc = "place" /\ proc'.phase = proc.phase
        /\ proc'.snap = proc.snap
        /\ proc'.id = proc.id /\ proc'.prior = proc.prior /\ proc'.doomed = proc.doomed
    BY <2>1, <1>8, <1>1, <1>2, <1>3, GotoFacts DEF Steps
  <2>3. dist' = [dist EXCEPT !.stage = "whole"]
    BY <1>8 DEF StageFill, KeepRest
  <2>4. owed' = owed /\ forfeited' = forfeited /\ lease' = lease
    BY <1>8 DEF StageFill, KeepRest
  <2>5. /\ dist' \in Dist
        /\ dist'.gens = dist.gens /\ dist'.pending = dist.pending /\ dist'.stage = "whole"
        /\ dist'.current = dist.current
        /\ dist'.intent = dist.intent /\ dist'.ledger = dist.ledger
        /\ dist'.durable = dist.durable /\ dist'.temps = dist.temps
    BY <2>3, <1>8, <2>2, <2>4, <1>1, <1>2, <1>3, IdFacts DEF Dist, Temps
  <2>6. TypeOK'
    BY <1>8, <2>2, <2>4, <2>5, <1>1, <1>2, <1>3 DEF IInv, TypeOK
  <2>7. FlowInv'
    BY <1>8, <2>2, <2>4, <2>5, <1>1, <1>2, <1>3 DEF IInv, FlowInv
  <2>8. StageInv'
    BY <1>8, <2>2, <2>4, <2>5, <1>1, <1>2, <1>3, IdFacts DEF IInv, StageInv, Unstaged, Whole
  <2>9. TempsInv'
    BY <1>8, <2>2, <2>4, <2>5, <1>1, <1>2, <1>3 DEF IInv, TempsInv, Swept
  <2>10. SelectInv'
    BY <1>8, <2>2, <2>4, <2>5, <1>1, <1>2, <1>3 DEF IInv, SelectInv, CurrentWhole, Whole,
       Target
  <2>11. IntentInv'
    BY <1>8, <2>2, <2>4, <2>5, <1>1, <1>2, <1>3 DEF IInv, IntentInv, Own, NoDuty, Landed
  <2>12. KeptInv'
    BY <1>8, <2>2, <2>4, <2>5, <1>1, <1>2, <1>3 DEF IInv, KeptInv,
       AssetsKeptUnlessForfeited, Due, Servable, Landed, Stored, Retained, Bare, Added,
       Whole
  <2>13. LeaseInv'
    BY <1>8, <2>2, <2>4, <2>5, <1>1, <1>2, <1>3 DEF IInv, LeaseInv
  <2> QED
    BY <2>6, <2>7, <2>8, <2>9, <2>10, <2>11, <2>12, <2>13 DEF IInv
<1>9. At("place") => dist.stage = "whole" /\ dist.gens[proc.id] = "absent"
  BY DEF IInv, StageInv
<1>10. CASE StagePlace /\ At("place")
  <2>1. Goto("placed")
    BY <1>10 DEF StagePlace, KeepRest
  <2>2. /\ proc' \in Proc /\ proc'.pc = "placed" /\ proc'.phase = proc.phase
        /\ proc'.snap = proc.snap
        /\ proc'.id = proc.id /\ proc'.prior = proc.prior /\ proc'.doomed = proc.doomed
    BY <2>1, <1>10, <1>1, <1>2, <1>3, <1>9, GotoFacts DEF Steps
  <2>3. dist' = [dist EXCEPT !.gens = [@ EXCEPT ![proc.id] = dist.stage], !.stage = "absent"]
    BY <1>10 DEF StagePlace, KeepRest
  <2>4. owed' = owed /\ forfeited' = forfeited /\ lease' = lease
    BY <1>10 DEF StagePlace, KeepRest
  <2>5. /\ dist' \in Dist
        /\ dist'.gens = [dist.gens EXCEPT ![proc.id] = dist.stage]
        /\ dist'.pending = dist.pending /\ dist'.stage = "absent"
        /\ dist'.current = dist.current
        /\ dist'.intent = dist.intent /\ dist'.ledger = dist.ledger
        /\ dist'.durable = dist.durable /\ dist'.temps = dist.temps
    BY <2>3, <1>10, <2>2, <2>4, <1>1, <1>2, <1>3, <1>9, IdFacts DEF Dist, Temps
  <2>6. TypeOK'
    BY <1>10, <2>2, <2>4, <2>5, <1>1, <1>2, <1>3, <1>9 DEF IInv, TypeOK
  <2>7. FlowInv'
    BY <1>10, <2>2, <2>4, <2>5, <1>1, <1>2, <1>3, <1>9 DEF IInv, FlowInv
  <2>8. StageInv'
    BY <1>10, <2>2, <2>4, <2>5, <1>1, <1>2, <1>3, <1>9 DEF IInv, StageInv, Unstaged, Whole
  <2>9. TempsInv'
    BY <1>10, <2>2, <2>4, <2>5, <1>1, <1>2, <1>3, <1>9 DEF IInv, TempsInv, Swept
  <2>10. SelectInv'
    BY <1>10, <2>2, <2>4, <2>5, <1>1, <1>2, <1>3, <1>9 DEF IInv, SelectInv, CurrentWhole,
       Whole, Target
  <2>11. IntentInv'
    BY <1>10, <2>2, <2>4, <2>5, <1>1, <1>2, <1>3, <1>9 DEF IInv, IntentInv, Own, NoDuty,
       Landed
  <2>12. KeptInv'
    BY <1>10, <2>2, <2>4, <2>5, <1>1, <1>2, <1>3, <1>9 DEF IInv, KeptInv,
       AssetsKeptUnlessForfeited, Due, Servable, Landed, Stored, Retained, Bare, Added,
       Whole
  <2>13. LeaseInv'
    BY <1>10, <2>2, <2>4, <2>5, <1>1, <1>2, <1>3, <1>9 DEF IInv, LeaseInv
  <2> QED
    BY <2>6, <2>7, <2>8, <2>9, <2>10, <2>11, <2>12, <2>13 DEF IInv
<1>11. CASE StagePlace /\ At("placed")
  <2>1. Goto(AfterStage)
    BY <1>11 DEF StagePlace, KeepRest
  <2>2. /\ proc' \in Proc /\ proc'.pc = AfterStage /\ proc'.phase = proc.phase
        /\ proc'.snap = proc.snap
        /\ proc'.id = proc.id /\ proc'.prior = proc.prior /\ proc'.doomed = proc.doomed
    BY <2>1, <1>11, <1>1, <1>2, <1>3, GotoFacts DEF Steps
  <2>3. dist' = [dist EXCEPT !.pending = None]
    BY <1>11 DEF StagePlace, KeepRest
  <2>4. owed' = owed /\ forfeited' = forfeited /\ lease' = lease
    BY <1>11 DEF StagePlace, KeepRest
  <2>5. /\ dist' \in Dist
        /\ dist'.gens = dist.gens /\ dist'.pending = None /\ dist'.stage = dist.stage
        /\ dist'.current = dist.current
        /\ dist'.intent = dist.intent /\ dist'.ledger = dist.ledger
        /\ dist'.durable = dist.durable /\ dist'.temps = dist.temps
    BY <2>3, <1>11, <2>2, <2>4, <1>1, <1>2, <1>3, IdFacts DEF Dist, Temps
  <2>6. TypeOK'
    BY <1>11, <2>2, <2>4, <2>5, <1>1, <1>2, <1>3 DEF IInv, TypeOK
  <2>7. FlowInv'
    BY <1>11, <2>2, <2>4, <2>5, <1>1, <1>2, <1>3 DEF IInv, FlowInv
  <2>8. StageInv'
    BY <1>11, <2>2, <2>4, <2>5, <1>1, <1>2, <1>3 DEF IInv, StageInv, Unstaged, Whole
  <2>9. TempsInv'
    BY <1>11, <2>2, <2>4, <2>5, <1>1, <1>2, <1>3 DEF IInv, TempsInv, Swept
  <2>10. SelectInv'
    BY <1>11, <2>2, <2>4, <2>5, <1>1, <1>2, <1>3 DEF IInv, SelectInv, CurrentWhole, Whole,
       Target
  <2>11. IntentInv'
    BY <1>11, <2>2, <2>4, <2>5, <1>1, <1>2, <1>3 DEF IInv, IntentInv, Own, NoDuty, Landed
  <2>12. KeptInv'
    BY <1>11, <2>2, <2>4, <2>5, <1>1, <1>2, <1>3 DEF IInv, KeptInv,
       AssetsKeptUnlessForfeited, Due, Servable, Landed, Stored, Retained, Bare, Added,
       Whole
  <2>13. LeaseInv'
    BY <1>11, <2>2, <2>4, <2>5, <1>1, <1>2, <1>3 DEF IInv, LeaseInv
  <2> QED
    BY <2>6, <2>7, <2>8, <2>9, <2>10, <2>11, <2>12, <2>13 DEF IInv
<1> QED
  BY <1>5, <1>6, <1>7, <1>8, <1>10, <1>11 DEF StageReserve, StageFill, StagePlace

-----------------------------------------------------------------------------
\* A step that leaves the command and dist/ alone; leases may end and days pass.
LEMMA ApartInv ==
    ASSUME IInv, UNCHANGED <<dist, proc, forfeited>>, owed' \subseteq owed,
           lease' \in [Children -> Ids \cup {None}],
           \A c \in Children : lease'[c] \in {lease[c], None}
    PROVE  IInv'
<1> USE DEF At, AtAny, Phase
<1>1. TypeOK' /\ FlowInv' /\ StageInv' /\ TempsInv'
  BY DEF IInv, TypeOK, FlowInv, StageInv, TempsInv, Whole
<1>2. SelectInv' /\ IntentInv'
  BY DEF IInv, SelectInv, IntentInv, CurrentWhole, Whole, Target, Own, NoDuty, Landed
<1>3. KeptInv'
  BY DEF IInv, KeptInv, AssetsKeptUnlessForfeited, Due, Servable, Landed, Stored,
     Retained, Bare, Added, Whole
<1>4. LeaseInv'
  BY DEF IInv, LeaseInv
<1> QED
  BY <1>1, <1>2, <1>3, <1>4 DEF IInv

\* A publication that fails after it moved the selection or rewrote the ledger: what is
\* left to be had is stored, apart from the digests of the two generations.
LEMMA ForfeitInv ==
    ASSUME IInv, Refused, Phase({"publish"}), AtAny({"switched", "sweep", "settled"}),
           UNCHANGED <<dist, owed, lease>>, forfeited' = forfeited \cup GivesUp
    PROVE  IInv'
<1> USE DEF At, AtAny, Phase, RecoverSteps, StageSteps, IntendSteps, SelectSteps, ApplySteps,
            DeleteSteps, CleanSteps, Unlinking
<1>1. /\ proc \in Proc /\ dist \in Dist /\ lease' \in [Children -> Ids \cup {None}]
      /\ proc.snap \in Inputs /\ Test \in TestGens /\ Test \in Ids
      /\ proc.id = ProdOf[proc.snap] /\ proc.id \in Ids
  BY IdFacts DEF IInv, TypeOK, FlowInv, Test
<1>2. dist.current = proc.id /\ dist.current # None
  BY <1>1, IdFacts DEF IInv, IntentInv, Own, Landed
<1>3. Due' \subseteq Due /\ Bare' \subseteq Bare /\ Retained' = Retained
  BY DEF Due, Bare, Retained
<1>4. /\ \A d \in Due' : d \notin Served[proc.id] /\ (proc.prior # None => d \notin Served[proc.prior])
      /\ \A d \in Bare' : d \notin Served[proc.id] /\ (proc.prior # None => d \notin Served[proc.prior])
  BY DEF GivesUp, Due, Bare
<1>5. \A d \in Due' : Stored(d)
  BY <1>2, <1>3, <1>4 DEF IInv, KeptInv
<1>6. ASSUME NEW step \in {"abandon", "unpublish"}, Goto(step),
             step = "unpublish" => proc.prior = None, dist.intent = Own
      PROVE  IInv'
  <2>1. /\ proc' \in Proc /\ proc'.pc = step /\ proc'.phase = "publish"
        /\ proc'.id = proc.id /\ proc'.snap = proc.snap /\ proc'.prior = proc.prior
    BY <1>6, <1>1, GotoFacts DEF Steps
  <2>2. TypeOK' /\ FlowInv' /\ StageInv'
    BY <1>1, <2>1 DEF IInv, TypeOK, FlowInv, StageInv, Unstaged, Whole
  <2>3. TempsInv' /\ SelectInv'
    BY <2>1 DEF IInv, TempsInv, SelectInv, Swept, CurrentWhole, Whole
  <2>4. IntentInv'
    BY <1>2, <1>6, <2>1 DEF IInv, IntentInv, Own, NoDuty, Landed
  <2>5. KeptInv' /\ LeaseInv'
    BY <1>2, <1>3, <1>4, <1>5, <2>1 DEF IInv, KeptInv, LeaseInv, AssetsKeptUnlessForfeited,
       Servable, Landed, Stored, Retained, Whole
  <2> QED
    BY <2>2, <2>3, <2>4, <2>5 DEF IInv
<1>7. CASE At("switched") /\ NeedsAssets(proc.prior, proc.id)
  <2>1. Goto("abandon") /\ dist.intent = Own
    BY <1>7 DEF Refused, IInv, IntentInv, NoDuty, NeedsAssets
  <2> QED
    BY <2>1, <1>6
<1>8. CASE At("switched") /\ ~NeedsAssets(proc.prior, proc.id)
  <2>1. Discard({proc.id, Test})
    BY <1>8 DEF Refused
  <2>2. /\ Landed => {proc.id, Test} \subseteq TestGens \cup {dist.current}
        /\ {proc.id, Test} \in SUBSET Ids
    BY <1>1, <1>2
  <2>3. GivesUp = {}
    BY <1>8 DEF GivesUp, NeedsAssets
  <2> QED
    BY <2>1, <2>2, <2>3, <1>1, DiscardInv
<1>9. CASE AtAny({"sweep", "settled"}) /\ proc.prior = None
  <2>1. Goto("unpublish") /\ dist.intent = Own
    BY <1>9 DEF Refused, IInv, IntentInv
  <2> QED
    BY <2>1, <1>6, <1>9
<1>10. CASE AtAny({"sweep", "settled"}) /\ proc.prior # None
  <2>1. proc' = [proc EXCEPT !.pc = "select", !.phase = "restore"]
    BY <1>10 DEF Refused
  <2>2. /\ proc' \in Proc /\ proc'.pc = "select" /\ proc'.phase = "restore"
        /\ proc'.id = proc.id /\ proc'.snap = proc.snap /\ proc'.prior = proc.prior
    BY <2>1, <1>1, ZenonT(40) DEF Proc, Steps
  <2>3. TypeOK' /\ FlowInv' /\ StageInv'
    BY <1>1, <1>10, <2>2 DEF IInv, TypeOK, FlowInv, StageInv, Unstaged, Whole
  <2>4. TempsInv' /\ SelectInv'
    BY <1>10, <2>2 DEF IInv, TempsInv, SelectInv, Swept, CurrentWhole, Whole
  <2>5. IntentInv'
    BY <1>2, <1>10, <2>2 DEF IInv, IntentInv, Own, NoDuty, Landed
  <2>6. KeptInv' /\ LeaseInv'
    <3>1. /\ \A d \in Due' : Stored(d)'
          /\ \A d \in Bare' : d \notin Served[proc'.prior]
      BY <1>4, <1>5, <1>10, <2>2 DEF Stored, Retained
    <3>2. AssetsKeptUnlessForfeited'
      BY <3>1 DEF AssetsKeptUnlessForfeited, Servable, Stored, Due
    <3>3. Landed' <=> Landed
      BY DEF Landed
    <3> QED
      BY <1>3, <2>2, <3>1, <3>2, <3>3 DEF IInv, KeptInv, LeaseInv
  <2> QED
    BY <2>3, <2>4, <2>5, <2>6 DEF IInv
<1> QED
  BY <1>7, <1>8, <1>9, <1>10

\* The error of the sync after the intent is gone: the retention is complete.
LEMMA UnsyncedInv ==
    ASSUME IInv, Refused, At("settled"), dist' = [dist EXCEPT !.intent = None],
           UNCHANGED <<owed, lease>>, forfeited' = forfeited \cup GivesUp
    PROVE  IInv'
<1> USE DEF At, AtAny, Phase, RecoverSteps, StageSteps, IntendSteps, SelectSteps, ApplySteps,
            DeleteSteps, CleanSteps, Unlinking
<1>1. /\ proc \in Proc /\ dist \in Dist /\ lease' \in [Children -> Ids \cup {None}]
      /\ proc.phase \in {"test", "prod", "clean", "publish"} /\ proc.snap \in Inputs
      /\ Test \in TestGens /\ Test \in Ids
      /\ dist.current # None /\ dist.stage = "absent"
  BY IdFacts DEF IInv, TypeOK, FlowInv, Test, Proc, IntentInv, Landed, StageInv, Unstaged
<1>2. /\ dist' \in Dist /\ dist'.gens = dist.gens /\ dist'.pending = dist.pending
      /\ dist'.stage = dist.stage /\ dist'.current = dist.current
      /\ dist'.intent = None /\ dist'.ledger = dist.ledger
      /\ dist'.durable = dist.durable /\ dist'.temps = dist.temps
  BY <1>1 DEF Dist
<1>3. /\ ~Landed' /\ Due' \subseteq Due /\ Bare' \subseteq Bare /\ Retained' = Retained
      /\ \A d : Stored(d)' <=> Stored(d)
  BY <1>2 DEF Due, Bare, Retained, Stored, Landed
<1>4. /\ \A d \in Due' : Stored(d) \/ d \in Served[dist.current]
      /\ \A d \in Bare' : d \notin Served[dist.current]
  BY <1>3 DEF IInv, KeptInv
<1>5. proc.phase = "publish" =>
        /\ dist.current = proc.id /\ proc.id \in Ids /\ proc.id = ProdOf[proc.snap]
        /\ \A d \in Due' : Stored(d)
        /\ proc.prior # None => \A d \in Bare' : d \notin Served[proc.prior]
  <2> SUFFICES ASSUME proc.phase = "publish"
               PROVE  /\ dist.current = proc.id /\ proc.id \in Ids /\ proc.id = ProdOf[proc.snap]
                      /\ \A d \in Due' : Stored(d)
                      /\ proc.prior # None => \A d \in Bare' : d \notin Served[proc.prior]
    OBVIOUS
  <2>1. dist.current = proc.id /\ proc.id \in Ids /\ proc.id = ProdOf[proc.snap]
    BY <1>1, IdFacts DEF IInv, FlowInv, IntentInv, Own, Landed
  <2>2. \A d \in Due' : d \notin Served[proc.id]
    BY DEF GivesUp, Due
  <2>3. proc.prior # None => \A d \in Bare' : d \notin Served[proc.prior]
    BY DEF GivesUp, Bare
  <2> QED
    BY <1>4, <2>1, <2>2, <2>3
<1>6. TypeOK'
  <2>1. proc' \in Proc
    <3>1. CASE Finish
      BY <3>1, NobodyFacts DEF Finish
    <3>2. CASE Discard({Test})
      BY <3>2, <1>1, DiscardFacts
    <3>3. CASE Goto("unpublish")
      BY <3>3, <1>1, GotoFacts DEF Steps
    <3>4. CASE proc' = [proc EXCEPT !.pc = "select", !.phase = "restore"]
      BY <3>4, <1>1, ZenonT(40) DEF Proc, Steps, SelectSteps
    <3> QED
      BY <1>1, <3>1, <3>2, <3>3, <3>4 DEF Refused
  <2> QED
    BY <2>1, <1>1, <1>2 DEF TypeOK
<1>7. CASE Finish
  <2>1. proc'.pc = "idle" /\ proc'.phase = "test" /\ proc'.prior = None
    BY <1>7, NobodyFacts DEF Finish
  <2>2. FlowInv' /\ StageInv' /\ TempsInv' /\ SelectInv'
    BY <2>1, <1>2 DEF IInv, FlowInv, StageInv, TempsInv, SelectInv, Unstaged, Swept,
       CurrentWhole, Whole
  <2>3. IntentInv'
    BY <2>1, <1>2, <1>3 DEF IInv, IntentInv
  <2>4. KeptInv' /\ LeaseInv'
    BY <2>1, <1>1, <1>2, <1>3, <1>4 DEF KeptInv, LeaseInv, AssetsKeptUnlessForfeited,
       Servable, Stored, Due
  <2> QED
    BY <1>6, <2>2, <2>3, <2>4 DEF IInv
<1>8. CASE Discard({Test})
  <2>1. /\ proc'.pc = "discard" /\ proc'.phase = "cleanup" /\ proc'.snap = proc.snap
        /\ proc'.prior = proc.prior
    BY <1>1, <1>8, DiscardFacts
  <2>2. FlowInv' /\ StageInv' /\ TempsInv' /\ SelectInv'
    BY <2>1, <1>1, <1>2 DEF IInv, FlowInv, StageInv, TempsInv, SelectInv, Unstaged, Swept,
       CurrentWhole, Whole
  <2>3. IntentInv'
    BY <2>1, <1>2, <1>3 DEF IInv, IntentInv
  <2>4. KeptInv' /\ LeaseInv'
    BY <2>1, <1>1, <1>2, <1>3, <1>4 DEF KeptInv, LeaseInv, AssetsKeptUnlessForfeited,
       Servable, Stored, Due
  <2> QED
    BY <1>6, <2>2, <2>3, <2>4 DEF IInv
<1>9. CASE proc.phase = "publish" /\ proc.prior = None
  <2>1. Goto("unpublish")
    BY <1>9 DEF Refused
  <2>2. /\ proc'.pc = "unpublish" /\ proc'.phase = "publish" /\ proc'.snap = proc.snap
        /\ proc'.prior = proc.prior /\ proc'.id = proc.id
    BY <1>1, <1>9, <2>1, GotoFacts DEF Steps
  <2>3. FlowInv' /\ StageInv' /\ TempsInv' /\ SelectInv'
    BY <2>2, <1>1, <1>2, <1>5, <1>9 DEF IInv, FlowInv, StageInv, TempsInv, SelectInv,
       Unstaged, Swept, CurrentWhole, Whole
  <2>4. IntentInv'
    BY <2>2, <1>2, <1>3, <1>9 DEF IInv, IntentInv
  <2>5. KeptInv' /\ LeaseInv'
    BY <2>2, <1>1, <1>2, <1>3, <1>4, <1>5, <1>9 DEF KeptInv, LeaseInv,
       AssetsKeptUnlessForfeited, Servable, Stored, Due
  <2> QED
    BY <1>6, <2>3, <2>4, <2>5 DEF IInv
<1>10. CASE proc.phase = "publish" /\ proc.prior # None
  <2>1. proc' = [proc EXCEPT !.pc = "select", !.phase = "restore"]
    BY <1>10 DEF Refused
  <2>2. /\ proc'.pc = "select" /\ proc'.phase = "restore" /\ proc'.snap = proc.snap
        /\ proc'.prior = proc.prior /\ proc'.id = proc.id
    BY <2>1, <1>1 DEF Proc
  <2>3. FlowInv' /\ StageInv' /\ TempsInv' /\ SelectInv'
    BY <2>2, <1>1, <1>2, <1>5, <1>10 DEF IInv, FlowInv, StageInv, TempsInv, SelectInv,
       Unstaged, Swept, CurrentWhole, Whole
  <2>4. IntentInv'
    BY <2>2, <1>2, <1>3, <1>5, <1>10 DEF IInv, IntentInv
  <2>5. KeptInv' /\ LeaseInv'
    BY <2>2, <1>1, <1>2, <1>3, <1>4, <1>5, <1>10 DEF KeptInv, LeaseInv,
       AssetsKeptUnlessForfeited, Servable, Stored, Due
  <2> QED
    BY <1>6, <2>3, <2>4, <2>5 DEF IInv
<1> QED
  BY <1>1, <1>7, <1>8, <1>9, <1>10 DEF Refused

\* An error the code ignores leaves the intent or the selection as it is.
LEMMA IgnoredInv ==
    ASSUME IInv, FaultIgnored
    PROVE  IInv'
<1> USE DEF At, AtAny, Phase, RecoverSteps, StageSteps, IntendSteps, SelectSteps, ApplySteps,
            DeleteSteps, CleanSteps, Unlinking
<1>1. /\ proc \in Proc /\ dist \in Dist /\ lease' \in [Children -> Ids \cup {None}]
      /\ dist' = dist /\ owed' = owed /\ forfeited' = forfeited /\ lease' = lease
  BY DEF IInv, TypeOK, FaultIgnored
<1>2. At("preflight") \/ At("abandon") \/ At("unpublish") =>
        /\ proc.phase \in {"publish", "restore"} /\ proc.snap \in Inputs
        /\ Test \in TestGens /\ Test \in Ids /\ proc.id \in Ids
        /\ (~At("unpublish") => dist.intent \in {Own, None})
  BY <1>1, IdFacts DEF IInv, FlowInv, IntentInv, Proc, Test
<1>3. CASE (At("preflight") \/ At("abandon")) /\ Discard({proc.id, Test})
  <2>1. Landed => dist.current = proc.id
    BY <1>2, <1>3 DEF Landed, Own
  <2> QED
    BY <1>1, <1>2, <1>3, <2>1, DiscardInv
<1>4. CASE At("unpublish") /\ Discard({Test})
  BY <1>1, <1>2, <1>4, DiscardInv
<1>5. CASE At("assets") /\ ~Landed /\ Goto(AfterRecover)
  <2>1. /\ AfterRecover \in {"preflightClean", "lookup"} /\ AfterRecover \in Steps
        /\ proc.phase = "clean" <=> AfterRecover = "preflightClean"
    BY DEF AfterRecover, Steps
  <2>2. /\ proc' \in Proc /\ proc'.pc = AfterRecover /\ proc'.phase = proc.phase
        /\ proc'.snap = proc.snap
        /\ proc'.id = proc.id /\ proc'.prior = proc.prior /\ proc'.doomed = proc.doomed
    BY <2>1, <1>5, <1>1, GotoFacts
  <2>3. proc.phase \in {"test", "prod", "clean"}
    BY <1>1, <1>5 DEF IInv, FlowInv, Proc
  <2>4. TypeOK' /\ FlowInv'
    BY <1>1, <1>5, <2>1, <2>2, <2>3 DEF IInv, TypeOK, FlowInv
  <2>5. StageInv' /\ TempsInv'
    BY <1>1, <1>5, <2>1, <2>2, <2>3 DEF IInv, StageInv, TempsInv, Unstaged, Swept, Whole
  <2>6. SelectInv' /\ IntentInv'
    BY <1>1, <1>5, <2>1, <2>2, <2>3 DEF IInv, SelectInv, IntentInv, CurrentWhole, Whole,
       Landed
  <2>7. KeptInv' /\ LeaseInv'
    BY <1>1, <1>5, <2>1, <2>2, <2>3 DEF IInv, KeptInv, LeaseInv,
       AssetsKeptUnlessForfeited, Due, Servable, Landed, Stored, Retained, Bare, Whole
  <2> QED
    BY <2>4, <2>5, <2>6, <2>7 DEF IInv
<1> QED
  BY <1>3, <1>4, <1>5 DEF FaultIgnored

\* The world: the author edits, programs and commands end, steps fail, days pass.
LEMMA WorldInv ==
    ASSUME IInv,
           \/ Edit \/ \E c \in Children : Exit(c)
           \/ Crash \/ Fault \/ FaultIgnored \/ Elapse
    PROVE  IInv'
<1>1. lease \in [Children -> Ids \cup {None}]
  BY DEF IInv, TypeOK
<1>2. CASE Edit \/ Elapse
  BY <1>1, <1>2, ApartInv DEF Edit, Elapse
<1>3. ASSUME NEW c \in Children, Exit(c) PROVE IInv'
  <2>1. /\ lease' \in [Children -> Ids \cup {None}]
        /\ \A x \in Children : lease'[x] \in {lease[x], None}
    BY <1>1, <1>3 DEF Exit
  <2>2. UNCHANGED <<dist, proc, owed, forfeited>>
    BY <1>3 DEF Exit
  <2> QED
    BY <2>1, <2>2, ApartInv
<1>4. CASE Crash
  BY <1>1, <1>4, FinishInv DEF Crash
<1>5. CASE Fault
  <2>1. /\ Refused /\ UNCHANGED <<owed, lease>> /\ forfeited' = forfeited \cup GivesUp
        /\ ~AtAny({"idle", "verdict", "abandon", "unpublish"})
        /\ \/ UNCHANGED dist
           \/ At("settled") /\ dist' = [dist EXCEPT !.intent = None]
    BY <1>5 DEF Fault, AtAny
  <2>2. CASE TakenBack /\ UNCHANGED dist
    <3>1. GivesUp = {}
      BY <2>2 DEF TakenBack, GivesUp, Phase, AtAny
    <3> QED
      BY <2>1, <2>2, <3>1, RefusedInv
  <2>3. CASE ~TakenBack /\ UNCHANGED dist
    BY <2>1, <2>3, ForfeitInv DEF TakenBack
  <2>4. CASE At("settled") /\ dist' = [dist EXCEPT !.intent = None]
    BY <2>1, <2>4, UnsyncedInv
  <2> QED
    BY <2>1, <2>2, <2>3, <2>4
<1>6. CASE FaultIgnored
  BY <1>6, IgnoredInv
<1> QED
  BY <1>2, <1>3, <1>4, <1>5, <1>6

\* A command begins with Recover, whatever its predecessor left.
LEMMA BeginInv ==
    ASSUME IInv, NEW kind \in {"build", "run", "assert", "clean"}, NEW input \in Inputs,
           Begin(kind, input)
    PROVE  IInv'
<1> USE DEF At, AtAny, Phase, RecoverSteps, StageSteps, IntendSteps, SelectSteps, ApplySteps,
            DeleteSteps, CleanSteps, Unlinking
<1>1. dist \in Dist /\ proc \in Proc
  BY DEF IInv, TypeOK
<1>2. /\ proc' = [Nobody EXCEPT !.kind = kind, !.snap = input, !.pc = "fresh",
                  !.id = IF kind = "clean" THEN None ELSE TestOf[input],
                  !.phase = IF kind = "clean" THEN "clean" ELSE "test"]
      /\ dist' = dist /\ owed' = owed /\ forfeited' = forfeited /\ lease' = lease
  BY DEF Begin
<1>3. TestOf[input] \in Ids
  BY IdFacts
<1>4. /\ proc' \in Proc /\ proc'.pc = "fresh" /\ proc'.snap = input /\ proc'.prior = None
      /\ \/ proc'.phase = "clean"
         \/ proc'.phase = "test" /\ proc'.id = TestOf[input]
  BY <1>2, <1>3 DEF Proc, Nobody, Steps
<1>5. TypeOK' /\ FlowInv'
  BY <1>1, <1>2, <1>4 DEF IInv, TypeOK, FlowInv
<1>6. StageInv' /\ TempsInv'
  BY <1>2, <1>4 DEF IInv, StageInv, Unstaged, Whole, TempsInv, Swept
<1>7. SelectInv' /\ IntentInv'
  BY <1>2, <1>4 DEF IInv, SelectInv, CurrentWhole, Whole, IntentInv, Landed
<1>8. KeptInv' /\ LeaseInv'
  BY <1>2, <1>4 DEF IInv, KeptInv, AssetsKeptUnlessForfeited, Due, Servable, Landed,
     Stored, Retained, Bare, Whole, LeaseInv
<1> QED
  BY <1>5, <1>6, <1>7, <1>8 DEF IInv

\* The test generation is leased, and the command waits for its verdict or leaves.
LEMMA VerifyInv ==
    ASSUME IInv, NEW c \in Children, Verify(c)
    PROVE  IInv'
<1> USE DEF At, AtAny, Phase, RecoverSteps, StageSteps, IntendSteps, SelectSteps, ApplySteps,
            DeleteSteps, CleanSteps, Unlinking
<1>1. dist \in Dist /\ proc \in Proc
  BY DEF IInv, TypeOK
<1> USE DEF Verify
<1>2. /\ proc.phase = "test" /\ proc.id = TestOf[proc.snap] /\ proc.id \in Ids
      /\ proc.snap \in Inputs /\ ~Landed
  BY <1>1, IdFacts DEF IInv, FlowInv, IntentInv, Proc
<1>3. lease \in [Children -> Ids \cup {None}]
  BY DEF IInv, TypeOK
<1>4. CASE ~Whole(proc.id)
  <2>1. Refused /\ UNCHANGED <<dist, owed, forfeited, lease>> /\ TakenBack
    BY <1>4 DEF TakenBack
  <2> QED
    BY <2>1, RefusedInv
<1>5. CASE Whole(proc.id) /\ proc.kind = "assert"
  <2>1. lease' \in [Children -> Ids \cup {None}] /\ Finish /\ dist' = dist /\ owed' = owed /\ forfeited' = forfeited
    BY <1>2, <1>3, <1>5
  <2> QED
    BY <2>1, FinishInv
<1>6. CASE At("verify") /\ Whole(proc.id) /\ proc.kind # "assert"
  <2>1. proc' = [proc EXCEPT !.pc = "verdict", !.child = c]
    BY <1>6
  <2>2. /\ proc' \in Proc /\ proc'.pc = "verdict" /\ proc'.phase = "test"
        /\ proc'.id = proc.id /\ proc'.snap = proc.snap /\ proc'.prior = proc.prior
    BY <2>1, <1>1, <1>2 DEF Proc, Steps
  <2>3. lease' \in [Children -> Ids \cup {None}]
    BY <1>2, <1>3, <1>6
  <2>4. dist' = dist /\ owed' = owed /\ forfeited' = forfeited
    BY <1>6 DEF Whole
  <2>5. TypeOK'
    BY <1>6, <2>1, <2>2, <2>3, <2>4, <1>1, <1>2 DEF IInv, TypeOK
  <2>6. FlowInv'
    BY <1>6, <2>1, <2>2, <2>3, <2>4, <1>1, <1>2 DEF IInv, FlowInv
  <2>7. StageInv'
    BY <1>6, <2>1, <2>2, <2>3, <2>4, <1>1, <1>2 DEF IInv, StageInv, Unstaged, Whole
  <2>8. TempsInv'
    BY <1>6, <2>1, <2>2, <2>3, <2>4, <1>1, <1>2 DEF IInv, TempsInv, Swept
  <2>9. SelectInv'
    BY <1>6, <2>1, <2>2, <2>3, <2>4, <1>1, <1>2 DEF IInv, SelectInv, CurrentWhole, Whole,
       Target
  <2>10. IntentInv'
    BY <1>6, <2>1, <2>2, <2>3, <2>4, <1>1, <1>2 DEF IInv, IntentInv, Own, NoDuty, Landed
  <2>11. KeptInv'
    BY <1>6, <2>1, <2>2, <2>3, <2>4, <1>1, <1>2 DEF IInv, KeptInv,
       AssetsKeptUnlessForfeited, Due, Servable, Landed, Stored, Retained, Bare, Added,
       Whole
  <2>12. LeaseInv'
    BY <1>6, <2>1, <2>2, <2>3, <2>4, <1>1, <1>2 DEF IInv, LeaseInv
  <2> QED
    BY <2>5, <2>6, <2>7, <2>8, <2>9, <2>10, <2>11, <2>12 DEF IInv
<1> QED
  BY <1>4, <1>5, <1>6

\* Failed assertions discard the test generation; otherwise production is staged.
LEMMA VerdictInv ==
    ASSUME IInv, NEW passed \in BOOLEAN, Verdict(passed)
    PROVE  IInv'
<1> USE DEF At, AtAny, Phase, RecoverSteps, StageSteps, IntendSteps, SelectSteps, ApplySteps,
            DeleteSteps, CleanSteps, Unlinking
<1>1. dist \in Dist /\ proc \in Proc
  BY DEF IInv, TypeOK
<1> USE DEF Verdict
<1>2. /\ proc.phase = "test" /\ proc.id = TestOf[proc.snap] /\ proc.id \in Ids
      /\ proc.snap \in Inputs /\ ~Landed
  BY <1>1, IdFacts DEF IInv, FlowInv, IntentInv, Proc
<1>3. lease \in [Children -> Ids \cup {None}]
  BY DEF IInv, TypeOK
<1>4. lease' \in [Children -> Ids \cup {None}] /\ dist' = dist /\ owed' = owed /\ forfeited' = forfeited
  BY <1>3
<1>5. CASE ~passed
  <2>1. Discard({Test}) /\ Test \in Ids /\ ~Landed
    BY <1>2, <1>5 DEF Test
  <2> QED
    BY <2>1, <1>2, <1>4, DiscardInv
<1>6. CASE passed /\ At("verdict")
  <2>1. proc' = [proc EXCEPT !.pc = "fresh", !.phase = "prod", !.id = ProdOf[proc.snap], !.child = None]
    BY <1>6
  <2>2. ProdOf[proc.snap] \in Ids
    BY <1>2, IdFacts
  <2>3. /\ proc' \in Proc /\ proc'.pc = "fresh" /\ proc'.phase = "prod"
        /\ proc'.id = ProdOf[proc.snap] /\ proc'.snap = proc.snap
        /\ proc'.prior = proc.prior
    BY <2>1, <2>2, <1>1, <1>2, ZenonT(40) DEF Proc, Steps
  <2>4. dist' = dist /\ owed' = owed /\ forfeited' = forfeited
    BY <1>6 DEF Whole
  <2>5. TypeOK'
    BY <1>6, <2>1, <2>2, <2>3, <2>4, <1>1, <1>2, <1>4 DEF IInv, TypeOK
  <2>6. FlowInv'
    BY <1>6, <2>1, <2>2, <2>3, <2>4, <1>1, <1>2, <1>4 DEF IInv, FlowInv
  <2>7. StageInv'
    BY <1>6, <2>1, <2>2, <2>3, <2>4, <1>1, <1>2, <1>4 DEF IInv, StageInv, Unstaged, Whole
  <2>8. TempsInv'
    BY <1>6, <2>1, <2>2, <2>3, <2>4, <1>1, <1>2, <1>4 DEF IInv, TempsInv, Swept
  <2>9. SelectInv'
    BY <1>6, <2>1, <2>2, <2>3, <2>4, <1>1, <1>2, <1>4 DEF IInv, SelectInv, CurrentWhole,
       Whole, Target
  <2>10. IntentInv'
    BY <1>6, <2>1, <2>2, <2>3, <2>4, <1>1, <1>2, <1>4 DEF IInv, IntentInv, Own, NoDuty,
       Landed
  <2>11. KeptInv'
    BY <1>6, <2>1, <2>2, <2>3, <2>4, <1>1, <1>2, <1>4 DEF IInv, KeptInv,
       AssetsKeptUnlessForfeited, Due, Servable, Landed, Stored, Retained, Bare, Added,
       Whole
  <2>12. LeaseInv'
    BY <1>6, <2>1, <2>2, <2>3, <2>4, <1>1, <1>2, <1>4 DEF IInv, LeaseInv
  <2> QED
    BY <2>5, <2>6, <2>7, <2>8, <2>9, <2>10, <2>11, <2>12 DEF IInv
<1> QED
  BY <1>5, <1>6

\* A run leases what it selected and leaves the lock.
LEMMA AcquireInv ==
    ASSUME IInv, NEW c \in Children, Acquire(c)
    PROVE  IInv'
<1>1. dist \in Dist /\ lease \in [Children -> Ids \cup {None}]
  BY DEF IInv, TypeOK
<1>2. lease' \in [Children -> Ids \cup {None}]
  BY <1>1, DistFacts DEF Acquire
<1> QED
  BY <1>2, FinishInv DEF Acquire

-----------------------------------------------------------------------------
\* The generation to be replaced is read, and the duty to retain what it serves
\* goes on record before the selection moves.
LEMMA IntendInv ==
    ASSUME IInv, Intend \/ Preflight
    PROVE  IInv'
<1> USE DEF At, AtAny, Phase, RecoverSteps, StageSteps, IntendSteps, SelectSteps, ApplySteps,
            DeleteSteps, CleanSteps, Unlinking
<1>1. dist \in Dist /\ proc \in Proc
  BY DEF IInv, TypeOK
<1>2. AtAny(IntendSteps \cup {"preflight"}) =>
        /\ proc.phase \in {"prod", "publish"} /\ proc.id = ProdOf[proc.snap]
        /\ proc.id \in Ids /\ proc.id \in ProdGens
        /\ proc.snap \in Inputs /\ Test \in Ids /\ Test \in TestGens
        /\ (~At("preflight") => ~Landed)
        /\ (~At("intended") => dist.temps = {})
        /\ (proc.phase = "publish" => dist.current = proc.prior)
        /\ (~At("intend") => proc.phase = "publish")
  BY <1>1, IdFacts DEF IInv, FlowInv, IntentInv, TempsInv, Swept, Proc, Test
<1>3. dist.current \in Ids \cup {None} /\ dist.current \in ProdGens \cup {None}
  BY <1>1, DistFacts DEF IInv, IntentInv, Landed
<1>4. CASE /\ At("intend") /\ proc.phase = "prod" /\ NeedsAssets(dist.current, proc.id)
           /\ KeepDist /\ proc' = [proc EXCEPT !.phase = "publish", !.prior = dist.current,
                        !.pc = IF NeedsAssets(dist.current, proc.id)
                                 THEN "intend" ELSE "select"]
  <2>1. proc' = [proc EXCEPT !.phase = "publish", !.prior = dist.current, !.pc = "intend"]
    BY <1>4
  <2>2. /\ proc' \in Proc /\ proc'.pc = "intend" /\ proc'.phase = "publish"
        /\ proc'.snap = proc.snap
        /\ proc'.id = proc.id /\ proc'.prior = dist.current /\ proc'.doomed = proc.doomed
    BY <2>1, <1>1, <1>3, ZenonT(40) DEF Proc, Steps
  <2>3. dist' = dist /\ owed' = owed /\ forfeited' = forfeited /\ lease' = lease
    BY <1>4 DEF KeepDist
  <2>4. TypeOK'
    BY <1>4, <2>1, <2>2, <2>3, <1>1, <1>2, <1>3 DEF IInv, TypeOK
  <2>5. FlowInv'
    BY <1>4, <2>1, <2>2, <2>3, <1>1, <1>2, <1>3 DEF IInv, FlowInv
  <2>6. StageInv'
    BY <1>4, <2>1, <2>2, <2>3, <1>1, <1>2, <1>3 DEF IInv, StageInv, Unstaged, Whole
  <2>7. TempsInv'
    BY <1>4, <2>1, <2>2, <2>3, <1>1, <1>2, <1>3 DEF IInv, TempsInv, Swept
  <2>8. SelectInv'
    BY <1>4, <2>1, <2>2, <2>3, <1>1, <1>2, <1>3 DEF IInv, SelectInv, CurrentWhole, Whole,
       Target
  <2>9. IntentInv'
    BY <1>4, <2>1, <2>2, <2>3, <1>1, <1>2, <1>3 DEF IInv, IntentInv, Own, NoDuty, Landed
  <2>10. KeptInv'
    BY <1>4, <2>1, <2>2, <2>3, <1>1, <1>2, <1>3 DEF IInv, KeptInv,
       AssetsKeptUnlessForfeited, Due, Servable, Landed, Stored, Retained, Bare, Added,
       Whole
  <2>11. LeaseInv'
    BY <1>4, <2>1, <2>2, <2>3, <1>1, <1>2, <1>3 DEF IInv, LeaseInv
  <2> QED
    BY <2>4, <2>5, <2>6, <2>7, <2>8, <2>9, <2>10, <2>11 DEF IInv
<1>5. CASE /\ At("intend") /\ proc.phase = "prod" /\ ~NeedsAssets(dist.current, proc.id)
           /\ KeepDist /\ proc' = [proc EXCEPT !.phase = "publish", !.prior = dist.current,
                        !.pc = IF NeedsAssets(dist.current, proc.id)
                                 THEN "intend" ELSE "select"]
  <2>1. proc' = [proc EXCEPT !.phase = "publish", !.prior = dist.current, !.pc = "select"]
    BY <1>5
  <2>2. /\ proc' \in Proc /\ proc'.pc = "select" /\ proc'.phase = "publish"
        /\ proc'.snap = proc.snap
        /\ proc'.id = proc.id /\ proc'.prior = dist.current /\ proc'.doomed = proc.doomed
    BY <2>1, <1>1, <1>3, ZenonT(40) DEF Proc, Steps
  <2>3. dist' = dist /\ owed' = owed /\ forfeited' = forfeited /\ lease' = lease
    BY <1>5 DEF KeepDist
  <2>4. TypeOK'
    BY <1>5, <2>1, <2>2, <2>3, <1>1, <1>2, <1>3 DEF IInv, TypeOK
  <2>5. FlowInv'
    BY <1>5, <2>1, <2>2, <2>3, <1>1, <1>2, <1>3 DEF IInv, FlowInv
  <2>6. StageInv'
    BY <1>5, <2>1, <2>2, <2>3, <1>1, <1>2, <1>3 DEF IInv, StageInv, Unstaged, Whole
  <2>7. TempsInv'
    BY <1>5, <2>1, <2>2, <2>3, <1>1, <1>2, <1>3 DEF IInv, TempsInv, Swept
  <2>8. SelectInv'
    BY <1>5, <2>1, <2>2, <2>3, <1>1, <1>2, <1>3 DEF IInv, SelectInv, CurrentWhole, Whole,
       Target
  <2>9. IntentInv'
    BY <1>5, <2>1, <2>2, <2>3, <1>1, <1>2, <1>3 DEF IInv, IntentInv, Own, NoDuty, Landed,
       NeedsAssets
  <2>10. KeptInv'
    BY <1>5, <2>1, <2>2, <2>3, <1>1, <1>2, <1>3 DEF IInv, KeptInv,
       AssetsKeptUnlessForfeited, Due, Servable, Landed, Stored, Retained, Bare, Added,
       Whole
  <2>11. LeaseInv'
    BY <1>5, <2>1, <2>2, <2>3, <1>1, <1>2, <1>3 DEF IInv, LeaseInv
  <2> QED
    BY <2>4, <2>5, <2>6, <2>7, <2>8, <2>9, <2>10, <2>11 DEF IInv
<1>6. CASE /\ At("intend") /\ proc.phase = "prod" /\ Discard({proc.id, Test}) /\ KeepDist
  BY <1>1, <1>2, <1>6, DiscardInv DEF KeepDist, IInv, TypeOK
<1>7. CASE /\ At("intend") /\ proc.phase = "publish"
           /\ WriteTemp(".pending-assets.tmp", "intended")
  <2>1. Goto("intended")
    BY <1>7, <1>1, <1>2, <1>3 DEF WriteTemp, KeepRest
  <2>2. /\ proc' \in Proc /\ proc'.pc = "intended" /\ proc'.phase = proc.phase
        /\ proc'.snap = proc.snap
        /\ proc'.id = proc.id /\ proc'.prior = proc.prior /\ proc'.doomed = proc.doomed
    BY <2>1, <1>7, <1>1, <1>2, <1>3, GotoFacts DEF Steps
  <2>3. dist' = [dist EXCEPT !.temps = @ \cup {".pending-assets.tmp"}]
    BY <1>7, <1>1, <1>2, <1>3 DEF WriteTemp, KeepRest
  <2>4. owed' = owed /\ forfeited' = forfeited /\ lease' = lease
    BY <1>7 DEF WriteTemp, KeepRest
  <2>5. /\ dist' \in Dist
        /\ dist'.gens = dist.gens /\ dist'.pending = dist.pending
        /\ dist'.stage = dist.stage /\ dist'.current = dist.current
        /\ dist'.intent = dist.intent /\ dist'.ledger = dist.ledger
        /\ dist'.durable = dist.durable
        /\ dist'.temps = dist.temps \cup {".pending-assets.tmp"}
    BY <2>3, <1>7, <2>2, <2>4, <1>1, <1>2, <1>3, IdFacts DEF Dist, Temps
  <2>6. TypeOK'
    BY <1>7, <2>2, <2>4, <2>5, <1>1, <1>2, <1>3 DEF IInv, TypeOK
  <2>7. FlowInv'
    BY <1>7, <2>2, <2>4, <2>5, <1>1, <1>2, <1>3 DEF IInv, FlowInv
  <2>8. StageInv'
    BY <1>7, <2>2, <2>4, <2>5, <1>1, <1>2, <1>3 DEF IInv, StageInv, Unstaged, Whole
  <2>9. TempsInv'
    BY <1>7, <2>2, <2>4, <2>5, <1>1, <1>2, <1>3 DEF IInv, TempsInv, Swept
  <2>10. SelectInv'
    BY <1>7, <2>2, <2>4, <2>5, <1>1, <1>2, <1>3 DEF IInv, SelectInv, CurrentWhole, Whole,
       Target
  <2>11. IntentInv'
    BY <1>7, <2>2, <2>4, <2>5, <1>1, <1>2, <1>3 DEF IInv, IntentInv, Own, NoDuty, Landed
  <2>12. KeptInv'
    BY <1>7, <2>2, <2>4, <2>5, <1>1, <1>2, <1>3 DEF IInv, KeptInv,
       AssetsKeptUnlessForfeited, Due, Servable, Landed, Stored, Retained, Bare, Added,
       Whole
  <2>13. LeaseInv'
    BY <1>7, <2>2, <2>4, <2>5, <1>1, <1>2, <1>3 DEF IInv, LeaseInv
  <2> QED
    BY <2>6, <2>7, <2>8, <2>9, <2>10, <2>11, <2>12, <2>13 DEF IInv
<1>8. CASE Intend /\ At("intended")
  <2>1. proc.prior \in Ids \cup {None}
    BY <1>1 DEF Proc
  <2>2. Goto("preflight")
    BY <1>8, <2>1 DEF Intend, KeepRest
  <2>3. /\ proc' \in Proc /\ proc'.pc = "preflight" /\ proc'.phase = proc.phase
        /\ proc'.snap = proc.snap
        /\ proc'.id = proc.id /\ proc'.prior = proc.prior /\ proc'.doomed = proc.doomed
    BY <2>2, <1>8, <2>1, <1>1, <1>2, <1>3, GotoFacts DEF Steps
  <2>4. dist' = [dist EXCEPT !.temps = @ \ {".pending-assets.tmp"},
                             !.intent = [prior |-> proc.prior, current |-> proc.id]]
    BY <1>8 DEF Intend, KeepRest
  <2>5. owed' = owed /\ forfeited' = forfeited /\ lease' = lease
    BY <1>8 DEF Intend, KeepRest
  <2>6. /\ dist' \in Dist
        /\ dist'.gens = dist.gens /\ dist'.pending = dist.pending
        /\ dist'.stage = dist.stage /\ dist'.current = dist.current
        /\ dist'.intent = [prior |-> proc.prior, current |-> proc.id]
        /\ dist'.ledger = dist.ledger /\ dist'.durable = dist.durable
        /\ dist'.temps = dist.temps \ {".pending-assets.tmp"}
    BY <2>4, <1>8, <2>1, <2>3, <2>5, <1>1, <1>2, <1>3, IdFacts DEF Dist, Temps
  <2>7. TypeOK'
    BY <1>8, <2>1, <2>3, <2>5, <2>6, <1>1, <1>2, <1>3 DEF IInv, TypeOK
  <2>8. FlowInv'
    BY <1>8, <2>1, <2>3, <2>5, <2>6, <1>1, <1>2, <1>3 DEF IInv, FlowInv
  <2>9. StageInv'
    BY <1>8, <2>1, <2>3, <2>5, <2>6, <1>1, <1>2, <1>3 DEF IInv, StageInv, Unstaged, Whole
  <2>10. TempsInv'
    BY <1>8, <2>1, <2>3, <2>5, <2>6, <1>1, <1>2, <1>3 DEF IInv, TempsInv, Swept
  <2>11. SelectInv'
    BY <1>8, <2>1, <2>3, <2>5, <2>6, <1>1, <1>2, <1>3 DEF IInv, SelectInv, CurrentWhole,
       Whole, Target
  <2>12. IntentInv'
    BY <1>8, <2>1, <2>3, <2>5, <2>6, <1>1, <1>2, <1>3, IdFacts DEF IInv, IntentInv, Own,
       NoDuty, Landed
  <2>13. KeptInv'
    BY <1>8, <2>1, <2>3, <2>5, <2>6, <1>1, <1>2, <1>3 DEF IInv, KeptInv,
       AssetsKeptUnlessForfeited, Due, Servable, Landed, Stored, Retained, Bare, Added,
       Whole
  <2>14. LeaseInv'
    BY <1>8, <2>1, <2>3, <2>5, <2>6, <1>1, <1>2, <1>3 DEF IInv, LeaseInv
  <2> QED
    BY <2>7, <2>8, <2>9, <2>10, <2>11, <2>12, <2>13, <2>14 DEF IInv
<1>9. CASE At("preflight") /\ PriorReadable(proc.prior) /\ Preflight
  <2>1. Goto("select")
    BY <1>9 DEF Preflight, KeepDist
  <2>2. /\ proc' \in Proc /\ proc'.pc = "select" /\ proc'.phase = proc.phase
        /\ proc'.snap = proc.snap
        /\ proc'.id = proc.id /\ proc'.prior = proc.prior /\ proc'.doomed = proc.doomed
    BY <2>1, <1>9, <1>1, <1>2, <1>3, GotoFacts DEF Steps
  <2>3. dist' = dist /\ owed' = owed /\ forfeited' = forfeited /\ lease' = lease
    BY <1>9 DEF Preflight, KeepDist
  <2>4. TypeOK'
    BY <1>9, <2>2, <2>3, <1>1, <1>2, <1>3 DEF IInv, TypeOK
  <2>5. FlowInv'
    BY <1>9, <2>2, <2>3, <1>1, <1>2, <1>3 DEF IInv, FlowInv
  <2>6. StageInv'
    BY <1>9, <2>2, <2>3, <1>1, <1>2, <1>3 DEF IInv, StageInv, Unstaged, Whole
  <2>7. TempsInv'
    BY <1>9, <2>2, <2>3, <1>1, <1>2, <1>3 DEF IInv, TempsInv, Swept
  <2>8. SelectInv'
    BY <1>9, <2>2, <2>3, <1>1, <1>2, <1>3 DEF IInv, SelectInv, CurrentWhole, Whole, Target
  <2>9. IntentInv'
    BY <1>9, <2>2, <2>3, <1>1, <1>2, <1>3 DEF IInv, IntentInv, Own, NoDuty, Landed
  <2>10. KeptInv'
    BY <1>9, <2>2, <2>3, <1>1, <1>2, <1>3 DEF IInv, KeptInv, AssetsKeptUnlessForfeited,
       Due, Servable, Landed, Stored, Retained, Bare, Added, Whole
  <2>11. LeaseInv'
    BY <1>9, <2>2, <2>3, <1>1, <1>2, <1>3 DEF IInv, LeaseInv
  <2> QED
    BY <2>4, <2>5, <2>6, <2>7, <2>8, <2>9, <2>10, <2>11 DEF IInv
<1>10. CASE At("preflight") /\ ~PriorReadable(proc.prior) /\ Preflight
  <2>1. Refused /\ UNCHANGED <<dist, owed, forfeited, lease>> /\ TakenBack
    BY <1>10 DEF Preflight, KeepDist, TakenBack
  <2> QED
    BY <2>1, RefusedInv
<1> QED
  BY <1>4, <1>5, <1>6, <1>7, <1>8, <1>9, <1>10 DEF Intend, Preflight

\* A generation is selected only if it is whole and its inputs are fresh.
LEMMA SelectStepInv ==
    ASSUME IInv, Select
    PROVE  IInv'
<1> USE DEF At, AtAny, Phase, RecoverSteps, StageSteps, IntendSteps, SelectSteps, ApplySteps,
            DeleteSteps, CleanSteps, Unlinking
<1>1. dist \in Dist /\ proc \in Proc
  BY DEF IInv, TypeOK
<1>2. AtAny(SelectSteps \cup {"abandon", "unpublish"}) =>
        /\ proc.phase \in {"publish", "restore"} /\ proc.id = ProdOf[proc.snap]
        /\ proc.id \in Ids /\ proc.id \in ProdGens
        /\ proc.snap \in Inputs /\ Test \in Ids /\ Test \in TestGens
        /\ (proc.phase = "restore" => proc.prior # None)
  BY <1>1, IdFacts DEF IInv, FlowInv, Proc, Test
<1>3. /\ proc.prior \in Ids \cup {None} /\ proc.prior \in ProdGens \cup {None}
      /\ dist.stage \in {"absent", "part", "whole"}
  BY <1>1, DistFacts DEF IInv, IntentInv, Proc
<1>4. AtAny(SelectSteps \cup {"abandon", "unpublish"}) =>
        /\ Target \in Ids /\ Target \in ProdGens /\ dist.stage = "absent"
  BY <1>2, <1>3 DEF IInv, StageInv, Unstaged, Target
<1>5. At("select") => ".current.tmp" \notin dist.temps
  BY <1>2 DEF IInv, TempsInv
<1>6. CASE ~(source = proc.snap.source /\ Whole(Target))
  <2>1. Refused /\ UNCHANGED <<dist, owed, forfeited, lease>> /\ TakenBack
    BY <1>6 DEF Select, KeepDist, TakenBack
  <2> QED
    BY <2>1, RefusedInv
<1>7. CASE Select /\ At("select") /\ source = proc.snap.source /\ Whole(Target)
  <2>1. Goto("switch")
    BY <1>7, <1>1, <1>2, <1>3, <1>4, <1>5 DEF Select, WriteTemp, KeepRest
  <2>2. /\ proc' \in Proc /\ proc'.pc = "switch" /\ proc'.phase = proc.phase
        /\ proc'.snap = proc.snap
        /\ proc'.id = proc.id /\ proc'.prior = proc.prior /\ proc'.doomed = proc.doomed
    BY <2>1, <1>7, <1>1, <1>2, <1>3, <1>4, <1>5, GotoFacts DEF Steps
  <2>3. dist' = [dist EXCEPT !.temps = @ \cup {".current.tmp"}]
    BY <1>7, <1>1, <1>2, <1>3, <1>4, <1>5 DEF Select, WriteTemp, KeepRest
  <2>4. owed' = owed /\ forfeited' = forfeited /\ lease' = lease
    BY <1>7 DEF Select, WriteTemp, KeepRest
  <2>5. /\ dist' \in Dist
        /\ dist'.gens = dist.gens /\ dist'.pending = dist.pending
        /\ dist'.stage = dist.stage /\ dist'.current = dist.current
        /\ dist'.intent = dist.intent /\ dist'.ledger = dist.ledger
        /\ dist'.durable = dist.durable /\ dist'.temps = dist.temps \cup {".current.tmp"}
    BY <2>3, <1>7, <2>2, <2>4, <1>1, <1>2, <1>3, <1>4, <1>5, IdFacts DEF Dist, Temps
  <2>6. TypeOK'
    BY <1>7, <2>2, <2>4, <2>5, <1>1, <1>2, <1>3, <1>4, <1>5 DEF IInv, TypeOK
  <2>7. FlowInv'
    BY <1>7, <2>2, <2>4, <2>5, <1>1, <1>2, <1>3, <1>4, <1>5 DEF IInv, FlowInv
  <2>8. StageInv'
    BY <1>7, <2>2, <2>4, <2>5, <1>1, <1>2, <1>3, <1>4, <1>5 DEF IInv, StageInv, Unstaged,
       Whole
  <2>9. TempsInv'
    BY <1>7, <2>2, <2>4, <2>5, <1>1, <1>2, <1>3, <1>4, <1>5 DEF IInv, TempsInv, Swept
  <2>10. SelectInv'
    BY <1>7, <2>2, <2>4, <2>5, <1>1, <1>2, <1>3, <1>4, <1>5 DEF IInv, SelectInv,
       CurrentWhole, Whole, Target
  <2>11. IntentInv'
    BY <1>7, <2>2, <2>4, <2>5, <1>1, <1>2, <1>3, <1>4, <1>5 DEF IInv, IntentInv, Own,
       NoDuty, Landed
  <2>12. KeptInv'
    BY <1>7, <2>2, <2>4, <2>5, <1>1, <1>2, <1>3, <1>4, <1>5 DEF IInv, KeptInv,
       AssetsKeptUnlessForfeited, Due, Servable, Landed, Stored, Retained, Bare, Added,
       Whole
  <2>13. LeaseInv'
    BY <1>7, <2>2, <2>4, <2>5, <1>1, <1>2, <1>3, <1>4, <1>5 DEF IInv, LeaseInv
  <2> QED
    BY <2>6, <2>7, <2>8, <2>9, <2>10, <2>11, <2>12, <2>13 DEF IInv
<1> QED
  BY <1>6, <1>7 DEF Select

\* The reservation goes; a publication with an intent turns to retention.
LEMMA SwitchedInv ==
    ASSUME IInv, Switched
    PROVE  IInv'
<1> USE DEF At, AtAny, Phase, RecoverSteps, StageSteps, IntendSteps, SelectSteps, ApplySteps,
            DeleteSteps, CleanSteps, Unlinking
<1>1. dist \in Dist /\ proc \in Proc
  BY DEF IInv, TypeOK
<1>2. AtAny(SelectSteps \cup {"abandon", "unpublish"}) =>
        /\ proc.phase \in {"publish", "restore"} /\ proc.id = ProdOf[proc.snap]
        /\ proc.id \in Ids /\ proc.id \in ProdGens
        /\ proc.snap \in Inputs /\ Test \in Ids /\ Test \in TestGens
        /\ (proc.phase = "restore" => proc.prior # None)
  BY <1>1, IdFacts DEF IInv, FlowInv, Proc, Test
<1>3. /\ proc.prior \in Ids \cup {None} /\ proc.prior \in ProdGens \cup {None}
      /\ dist.stage \in {"absent", "part", "whole"}
  BY <1>1, DistFacts DEF IInv, IntentInv, Proc
<1>4. AtAny(SelectSteps \cup {"abandon", "unpublish"}) =>
        /\ Target \in Ids /\ Target \in ProdGens /\ dist.stage = "absent"
  BY <1>2, <1>3 DEF IInv, StageInv, Unstaged, Target
<1>5. CASE Switched /\ At("switched") /\ proc.phase = "restore"
  <2>1. Goto("abandon")
    BY <1>5, <1>1, <1>2, <1>3, <1>4 DEF Switched, AfterSelect, KeepRest
  <2>2. /\ proc' \in Proc /\ proc'.pc = "abandon" /\ proc'.phase = proc.phase
        /\ proc'.snap = proc.snap
        /\ proc'.id = proc.id /\ proc'.prior = proc.prior /\ proc'.doomed = proc.doomed
    BY <2>1, <1>5, <1>1, <1>2, <1>3, <1>4, GotoFacts DEF Steps
  <2>3. dist' = [dist EXCEPT !.pending = None]
    BY <1>5 DEF Switched, AfterSelect, KeepRest
  <2>4. owed' = owed /\ forfeited' = forfeited /\ lease' = lease
    BY <1>5 DEF Switched, AfterSelect, KeepRest
  <2>5. /\ dist' \in Dist
        /\ dist'.gens = dist.gens /\ dist'.pending = None /\ dist'.stage = dist.stage
        /\ dist'.current = dist.current
        /\ dist'.intent = dist.intent /\ dist'.ledger = dist.ledger
        /\ dist'.durable = dist.durable /\ dist'.temps = dist.temps
    BY <2>3, <1>5, <2>2, <2>4, <1>1, <1>2, <1>3, <1>4, IdFacts DEF Dist, Temps
  <2>6. TypeOK'
    BY <1>5, <2>2, <2>4, <2>5, <1>1, <1>2, <1>3, <1>4 DEF IInv, TypeOK
  <2>7. FlowInv'
    BY <1>5, <2>2, <2>4, <2>5, <1>1, <1>2, <1>3, <1>4 DEF IInv, FlowInv
  <2>8. StageInv'
    BY <1>5, <2>2, <2>4, <2>5, <1>1, <1>2, <1>3, <1>4 DEF IInv, StageInv, Unstaged, Whole
  <2>9. TempsInv'
    BY <1>5, <2>2, <2>4, <2>5, <1>1, <1>2, <1>3, <1>4 DEF IInv, TempsInv, Swept
  <2>10. SelectInv'
    BY <1>5, <2>2, <2>4, <2>5, <1>1, <1>2, <1>3, <1>4 DEF IInv, SelectInv, CurrentWhole,
       Whole, Target
  <2>11. IntentInv'
    BY <1>5, <2>2, <2>4, <2>5, <1>1, <1>2, <1>3, <1>4 DEF IInv, IntentInv, Own, NoDuty,
       Landed
  <2>12. KeptInv'
    BY <1>5, <2>2, <2>4, <2>5, <1>1, <1>2, <1>3, <1>4 DEF IInv, KeptInv,
       AssetsKeptUnlessForfeited, Due, Servable, Landed, Stored, Retained, Bare, Added,
       Whole
  <2>13. LeaseInv'
    BY <1>5, <2>2, <2>4, <2>5, <1>1, <1>2, <1>3, <1>4 DEF IInv, LeaseInv
  <2> QED
    BY <2>6, <2>7, <2>8, <2>9, <2>10, <2>11, <2>12, <2>13 DEF IInv
<1>6. CASE Switched /\ At("switched") /\ proc.phase = "publish"
           /\ NeedsAssets(proc.prior, proc.id)
  <2>1. Goto("retain")
    BY <1>6, <1>1, <1>2, <1>3, <1>4 DEF Switched, AfterSelect, KeepRest
  <2>2. /\ proc' \in Proc /\ proc'.pc = "retain" /\ proc'.phase = proc.phase
        /\ proc'.snap = proc.snap
        /\ proc'.id = proc.id /\ proc'.prior = proc.prior /\ proc'.doomed = proc.doomed
    BY <2>1, <1>6, <1>1, <1>2, <1>3, <1>4, GotoFacts DEF Steps
  <2>3. dist' = [dist EXCEPT !.pending = None]
    BY <1>6 DEF Switched, AfterSelect, KeepRest
  <2>4. owed' = owed /\ forfeited' = forfeited /\ lease' = lease
    BY <1>6 DEF Switched, AfterSelect, KeepRest
  <2>5. /\ dist' \in Dist
        /\ dist'.gens = dist.gens /\ dist'.pending = None /\ dist'.stage = dist.stage
        /\ dist'.current = dist.current
        /\ dist'.intent = dist.intent /\ dist'.ledger = dist.ledger
        /\ dist'.durable = dist.durable /\ dist'.temps = dist.temps
    BY <2>3, <1>6, <2>2, <2>4, <1>1, <1>2, <1>3, <1>4, IdFacts DEF Dist, Temps
  <2>6. TypeOK'
    BY <1>6, <2>2, <2>4, <2>5, <1>1, <1>2, <1>3, <1>4 DEF IInv, TypeOK
  <2>7. FlowInv'
    BY <1>6, <2>2, <2>4, <2>5, <1>1, <1>2, <1>3, <1>4 DEF IInv, FlowInv
  <2>8. StageInv'
    BY <1>6, <2>2, <2>4, <2>5, <1>1, <1>2, <1>3, <1>4 DEF IInv, StageInv, Unstaged, Whole
  <2>9. TempsInv'
    BY <1>6, <2>2, <2>4, <2>5, <1>1, <1>2, <1>3, <1>4 DEF IInv, TempsInv, Swept
  <2>10. SelectInv'
    BY <1>6, <2>2, <2>4, <2>5, <1>1, <1>2, <1>3, <1>4 DEF IInv, SelectInv, CurrentWhole,
       Whole, Target
  <2>11. IntentInv'
    <3>1. /\ dist.intent = Own /\ dist.current = proc.id
          /\ Own # None /\ Own.current = proc.id
      BY <1>2, <1>3, <1>6, NoneAssumption DEF IInv, IntentInv, NoDuty, NeedsAssets, Own
    <3>2. Own' = Own /\ Landed'
      BY <3>1, <2>2, <2>5 DEF Own, Landed
    <3> QED
      BY <1>6, <2>2, <2>5, <1>2, <3>1, <3>2 DEF IInv, IntentInv
  <2>12. KeptInv'
    BY <1>6, <2>2, <2>4, <2>5, <1>1, <1>2, <1>3, <1>4 DEF IInv, KeptInv,
       AssetsKeptUnlessForfeited, Due, Servable, Landed, Stored, Retained, Bare, Added,
       Whole
  <2>13. LeaseInv'
    BY <1>6, <2>2, <2>4, <2>5, <1>1, <1>2, <1>3, <1>4 DEF IInv, LeaseInv
  <2> QED
    BY <2>6, <2>7, <2>8, <2>9, <2>10, <2>11, <2>12, <2>13 DEF IInv
<1>7. CASE /\ Switched /\ At("switched") /\ proc.phase = "publish"
           /\ ~NeedsAssets(proc.prior, proc.id) /\ proc.kind = "run"
  <2>1. Goto("acquire")
    BY <1>7, <1>1, <1>2, <1>3, <1>4 DEF Switched, AfterSelect, KeepRest
  <2>2. /\ proc' \in Proc /\ proc'.pc = "acquire" /\ proc'.phase = proc.phase
        /\ proc'.snap = proc.snap
        /\ proc'.id = proc.id /\ proc'.prior = proc.prior /\ proc'.doomed = proc.doomed
    BY <2>1, <1>7, <1>1, <1>2, <1>3, <1>4, GotoFacts DEF Steps
  <2>3. dist' = [dist EXCEPT !.pending = None]
    BY <1>7 DEF Switched, AfterSelect, KeepRest
  <2>4. owed' = owed /\ forfeited' = forfeited /\ lease' = lease
    BY <1>7 DEF Switched, AfterSelect, KeepRest
  <2>5. /\ dist' \in Dist
        /\ dist'.gens = dist.gens /\ dist'.pending = None /\ dist'.stage = dist.stage
        /\ dist'.current = dist.current
        /\ dist'.intent = dist.intent /\ dist'.ledger = dist.ledger
        /\ dist'.durable = dist.durable /\ dist'.temps = dist.temps
    BY <2>3, <1>7, <2>2, <2>4, <1>1, <1>2, <1>3, <1>4, IdFacts DEF Dist, Temps
  <2>6. TypeOK'
    BY <1>7, <2>2, <2>4, <2>5, <1>1, <1>2, <1>3, <1>4 DEF IInv, TypeOK
  <2>7. FlowInv'
    BY <1>7, <2>2, <2>4, <2>5, <1>1, <1>2, <1>3, <1>4 DEF IInv, FlowInv
  <2>8. StageInv'
    BY <1>7, <2>2, <2>4, <2>5, <1>1, <1>2, <1>3, <1>4 DEF IInv, StageInv, Unstaged, Whole
  <2>9. TempsInv'
    BY <1>7, <2>2, <2>4, <2>5, <1>1, <1>2, <1>3, <1>4 DEF IInv, TempsInv, Swept
  <2>10. SelectInv'
    BY <1>7, <2>2, <2>4, <2>5, <1>1, <1>2, <1>3, <1>4 DEF IInv, SelectInv, CurrentWhole,
       Whole, Target
  <2>11. IntentInv'
    BY <1>7, <2>2, <2>4, <2>5, <1>1, <1>2, <1>3, <1>4 DEF IInv, IntentInv, Own, NoDuty,
       Landed
  <2>12. KeptInv'
    BY <1>7, <2>2, <2>4, <2>5, <1>1, <1>2, <1>3, <1>4 DEF IInv, KeptInv,
       AssetsKeptUnlessForfeited, Due, Servable, Landed, Stored, Retained, Bare, Added,
       Whole
  <2>13. LeaseInv'
    BY <1>7, <2>2, <2>4, <2>5, <1>1, <1>2, <1>3, <1>4 DEF IInv, LeaseInv
  <2> QED
    BY <2>6, <2>7, <2>8, <2>9, <2>10, <2>11, <2>12, <2>13 DEF IInv
<1>8. CASE /\ Switched /\ At("switched") /\ proc.phase = "publish"
           /\ ~NeedsAssets(proc.prior, proc.id) /\ proc.kind # "run"
  <2>1. proc' = Nobody
    BY <1>8 DEF Switched, AfterSelect, Finish
  <2>2. /\ proc' \in Proc /\ proc'.pc = "idle" /\ proc'.phase = "test" /\ proc'.prior = None
    BY <2>1, NobodyFacts
  <2>3. dist' = [dist EXCEPT !.pending = None]
    BY <1>8 DEF Switched, AfterSelect, KeepRest
  <2>4. owed' = owed /\ forfeited' = forfeited /\ lease' = lease
    BY <1>8 DEF Switched, AfterSelect, KeepRest
  <2>5. /\ dist' \in Dist
        /\ dist'.gens = dist.gens /\ dist'.pending = None /\ dist'.stage = dist.stage
        /\ dist'.current = dist.current
        /\ dist'.intent = dist.intent /\ dist'.ledger = dist.ledger
        /\ dist'.durable = dist.durable /\ dist'.temps = dist.temps
    BY <2>3, <1>8, <2>1, <2>2, <2>4, <1>1, <1>2, <1>3, <1>4, IdFacts DEF Dist, Temps
  <2>6. TypeOK'
    BY <1>8, <2>1, <2>2, <2>4, <2>5, <1>1, <1>2, <1>3, <1>4 DEF IInv, TypeOK
  <2>7. FlowInv'
    BY <1>8, <2>1, <2>2, <2>4, <2>5, <1>1, <1>2, <1>3, <1>4 DEF IInv, FlowInv
  <2>8. StageInv'
    BY <1>8, <2>1, <2>2, <2>4, <2>5, <1>1, <1>2, <1>3, <1>4 DEF IInv, StageInv, Unstaged,
       Whole
  <2>9. TempsInv'
    BY <1>8, <2>1, <2>2, <2>4, <2>5, <1>1, <1>2, <1>3, <1>4 DEF IInv, TempsInv, Swept
  <2>10. SelectInv'
    BY <1>8, <2>1, <2>2, <2>4, <2>5, <1>1, <1>2, <1>3, <1>4 DEF IInv, SelectInv,
       CurrentWhole, Whole, Target
  <2>11. IntentInv'
    BY <1>8, <2>1, <2>2, <2>4, <2>5, <1>1, <1>2, <1>3, <1>4 DEF IInv, IntentInv, Own,
       NoDuty, Landed
  <2>12. KeptInv'
    BY <1>8, <2>1, <2>2, <2>4, <2>5, <1>1, <1>2, <1>3, <1>4 DEF IInv, KeptInv,
       AssetsKeptUnlessForfeited, Due, Servable, Landed, Stored, Retained, Bare, Added,
       Whole
  <2>13. LeaseInv'
    BY <1>8, <2>1, <2>2, <2>4, <2>5, <1>1, <1>2, <1>3, <1>4 DEF IInv, LeaseInv
  <2> QED
    BY <2>6, <2>7, <2>8, <2>9, <2>10, <2>11, <2>12, <2>13 DEF IInv
<1> QED
  BY <1>2, <1>5, <1>6, <1>7, <1>8 DEF Switched

\* The intent is forgotten while the prior generation is selected.
LEMMA AbandonInv ==
    ASSUME IInv, Abandon
    PROVE  IInv'
<1> USE DEF At, AtAny, Phase, RecoverSteps, StageSteps, IntendSteps, SelectSteps, ApplySteps,
            DeleteSteps, CleanSteps, Unlinking
<1>1. dist \in Dist /\ proc \in Proc
  BY DEF IInv, TypeOK
<1>2. AtAny(SelectSteps \cup {"abandon", "unpublish"}) =>
        /\ proc.phase \in {"publish", "restore"} /\ proc.id = ProdOf[proc.snap]
        /\ proc.id \in Ids /\ proc.id \in ProdGens
        /\ proc.snap \in Inputs /\ Test \in Ids /\ Test \in TestGens
        /\ (proc.phase = "restore" => proc.prior # None)
  BY <1>1, IdFacts DEF IInv, FlowInv, Proc, Test
<1>3. /\ proc.prior \in Ids \cup {None} /\ proc.prior \in ProdGens \cup {None}
      /\ dist.stage \in {"absent", "part", "whole"}
  BY <1>1, DistFacts DEF IInv, IntentInv, Proc
<1>4. AtAny(SelectSteps \cup {"abandon", "unpublish"}) =>
        /\ Target \in Ids /\ Target \in ProdGens /\ dist.stage = "absent"
  BY <1>2, <1>3 DEF IInv, StageInv, Unstaged, Target
<1>5. CASE Abandon /\ At("abandon")
  <2>1. proc.phase = "restore" => dist.current = proc.prior
    BY <1>2, <1>5 DEF IInv, IntentInv
  <2>2. Discard({proc.id, Test})
    BY <1>5 DEF Abandon
  <2>3. /\ proc' \in Proc /\ proc'.pc = "discard" /\ proc'.phase = "cleanup"
        /\ proc'.doomed = {proc.id, Test} /\ proc'.snap = proc.snap
        /\ proc'.prior = proc.prior
    BY <2>2, <1>1, <1>2, <1>5, DiscardFacts
  <2>4. dist' = [dist EXCEPT !.intent = None]
    BY <1>5 DEF Abandon, KeepRest
  <2>5. owed' = owed /\ forfeited' = forfeited /\ lease' = lease
    BY <1>5 DEF Abandon, KeepRest
  <2>6. /\ dist' \in Dist
        /\ dist'.gens = dist.gens /\ dist'.pending = dist.pending
        /\ dist'.stage = dist.stage /\ dist'.current = dist.current
        /\ dist'.intent = None /\ dist'.ledger = dist.ledger /\ dist'.durable = dist.durable
        /\ dist'.temps = dist.temps
    BY <2>4, <1>5, <2>1, <2>2, <2>3, <2>5, <1>1, <1>2, <1>3, <1>4, IdFacts DEF Dist, Temps
  <2>7. TypeOK'
    BY <1>5, <2>1, <2>2, <2>3, <2>5, <2>6, <1>1, <1>2, <1>3, <1>4 DEF IInv, TypeOK
  <2>8. FlowInv'
    BY <1>5, <2>1, <2>2, <2>3, <2>5, <2>6, <1>1, <1>2, <1>3, <1>4 DEF IInv, FlowInv
  <2>9. StageInv'
    BY <1>5, <2>1, <2>2, <2>3, <2>5, <2>6, <1>1, <1>2, <1>3, <1>4 DEF IInv, StageInv,
       Unstaged, Whole
  <2>10. TempsInv'
    BY <1>5, <2>1, <2>2, <2>3, <2>5, <2>6, <1>1, <1>2, <1>3, <1>4 DEF IInv, TempsInv, Swept
  <2>11. SelectInv'
    BY <1>5, <2>1, <2>2, <2>3, <2>5, <2>6, <1>1, <1>2, <1>3, <1>4 DEF IInv, SelectInv,
       CurrentWhole, Whole, Target
  <2>12. IntentInv'
    BY <1>5, <2>1, <2>2, <2>3, <2>5, <2>6, <1>1, <1>2, <1>3, <1>4 DEF IInv, IntentInv, Own,
       NoDuty, Landed
  <2>13. KeptInv'
    BY <1>5, <2>1, <2>2, <2>3, <2>5, <2>6, <1>1, <1>2, <1>3, <1>4 DEF IInv, KeptInv,
       AssetsKeptUnlessForfeited, Due, Servable, Landed, Stored, Retained, Bare, Added,
       Whole
  <2>14. LeaseInv'
    BY <1>5, <2>1, <2>2, <2>3, <2>5, <2>6, <1>1, <1>2, <1>3, <1>4 DEF IInv, LeaseInv
  <2> QED
    BY <2>7, <2>8, <2>9, <2>10, <2>11, <2>12, <2>13, <2>14 DEF IInv
<1> QED
  BY <1>5 DEF Abandon

\* The first generation is unselected when its retention failed.
LEMMA UnpublishInv ==
    ASSUME IInv, Unpublish
    PROVE  IInv'
<1> USE DEF At, AtAny, Phase, RecoverSteps, StageSteps, IntendSteps, SelectSteps, ApplySteps,
            DeleteSteps, CleanSteps, Unlinking
<1>1. dist \in Dist /\ proc \in Proc
  BY DEF IInv, TypeOK
<1>2. AtAny(SelectSteps \cup {"abandon", "unpublish"}) =>
        /\ proc.phase \in {"publish", "restore"} /\ proc.id = ProdOf[proc.snap]
        /\ proc.id \in Ids /\ proc.id \in ProdGens
        /\ proc.snap \in Inputs /\ Test \in Ids /\ Test \in TestGens
        /\ (proc.phase = "restore" => proc.prior # None)
  BY <1>1, IdFacts DEF IInv, FlowInv, Proc, Test
<1>3. /\ proc.prior \in Ids \cup {None} /\ proc.prior \in ProdGens \cup {None}
      /\ dist.stage \in {"absent", "part", "whole"}
  BY <1>1, DistFacts DEF IInv, IntentInv, Proc
<1>4. AtAny(SelectSteps \cup {"abandon", "unpublish"}) =>
        /\ Target \in Ids /\ Target \in ProdGens /\ dist.stage = "absent"
  BY <1>2, <1>3 DEF IInv, StageInv, Unstaged, Target
<1>5. CASE Unpublish /\ At("unpublish")
  <2>1. /\ proc.phase = "publish" /\ proc.prior = None
        /\ dist.intent # None => dist.intent.current # None
    BY <1>2, <1>5, <1>1, IdFacts DEF IInv, IntentInv, FlowInv, Own
  <2>2. Discard({Test})
    BY <1>5 DEF Unpublish
  <2>3. /\ proc' \in Proc /\ proc'.pc = "discard" /\ proc'.phase = "cleanup"
        /\ proc'.doomed = {Test} /\ proc'.snap = proc.snap /\ proc'.prior = proc.prior
    BY <2>2, <1>1, <1>2, <1>5, DiscardFacts
  <2>4. dist' = [dist EXCEPT !.current = None]
    BY <1>5 DEF Unpublish, KeepRest
  <2>5. owed' = owed /\ forfeited' = forfeited /\ lease' = lease
    BY <1>5 DEF Unpublish, KeepRest
  <2>6. /\ dist' \in Dist
        /\ dist'.gens = dist.gens /\ dist'.pending = dist.pending
        /\ dist'.stage = dist.stage /\ dist'.current = None
        /\ dist'.intent = dist.intent /\ dist'.ledger = dist.ledger
        /\ dist'.durable = dist.durable /\ dist'.temps = dist.temps
    BY <2>4, <1>5, <2>1, <2>2, <2>3, <2>5, <1>1, <1>2, <1>3, <1>4, IdFacts DEF Dist, Temps
  <2>7. TypeOK'
    BY <1>5, <2>1, <2>2, <2>3, <2>5, <2>6, <1>1, <1>2, <1>3, <1>4 DEF IInv, TypeOK
  <2>8. FlowInv'
    BY <1>5, <2>1, <2>2, <2>3, <2>5, <2>6, <1>1, <1>2, <1>3, <1>4 DEF IInv, FlowInv
  <2>9. StageInv'
    BY <1>5, <2>1, <2>2, <2>3, <2>5, <2>6, <1>1, <1>2, <1>3, <1>4 DEF IInv, StageInv,
       Unstaged, Whole
  <2>10. TempsInv'
    BY <1>5, <2>1, <2>2, <2>3, <2>5, <2>6, <1>1, <1>2, <1>3, <1>4 DEF IInv, TempsInv, Swept
  <2>11. SelectInv'
    BY <1>5, <2>1, <2>2, <2>3, <2>5, <2>6, <1>1, <1>2, <1>3, <1>4 DEF IInv, SelectInv,
       CurrentWhole, Whole, Target
  <2>12. IntentInv'
    BY <1>5, <2>1, <2>2, <2>3, <2>5, <2>6, <1>1, <1>2, <1>3, <1>4 DEF IInv, IntentInv, Own,
       NoDuty, Landed
  <2>13. KeptInv'
    BY <1>5, <2>1, <2>2, <2>3, <2>5, <2>6, <1>1, <1>2, <1>3, <1>4 DEF IInv, KeptInv,
       AssetsKeptUnlessForfeited, Due, Servable, Landed, Stored, Retained, Bare, Added,
       Whole
  <2>14. LeaseInv'
    BY <1>5, <2>1, <2>2, <2>3, <2>5, <2>6, <1>1, <1>2, <1>3, <1>4 DEF IInv, LeaseInv
  <2> QED
    BY <2>7, <2>8, <2>9, <2>10, <2>11, <2>12, <2>13, <2>14 DEF IInv
<1> QED
  BY <1>5 DEF Unpublish

\* The selection moves. What the replaced generation served can still be had from it,
\* by an intent that is on record, and the prior generation could be selected again.
LEMMA SwitchInv ==
    ASSUME IInv, Switch
    PROVE  IInv'
<1> USE DEF At, AtAny, Phase, RecoverSteps, StageSteps, IntendSteps, SelectSteps, ApplySteps,
            DeleteSteps, CleanSteps, Unlinking
<1>1. dist \in Dist /\ proc \in Proc
  BY DEF IInv, TypeOK
<1>2. AtAny(SelectSteps \cup {"abandon", "unpublish"}) =>
        /\ proc.phase \in {"publish", "restore"} /\ proc.id = ProdOf[proc.snap]
        /\ proc.id \in Ids /\ proc.id \in ProdGens
        /\ proc.snap \in Inputs /\ Test \in Ids /\ Test \in TestGens
        /\ (proc.phase = "restore" => proc.prior # None)
  BY <1>1, IdFacts DEF IInv, FlowInv, Proc, Test
<1>3. /\ proc.prior \in Ids \cup {None} /\ proc.prior \in ProdGens \cup {None}
      /\ dist.stage \in {"absent", "part", "whole"}
  BY <1>1, DistFacts DEF IInv, IntentInv, Proc
<1>4. AtAny(SelectSteps \cup {"abandon", "unpublish"}) =>
        /\ Target \in Ids /\ Target \in ProdGens /\ dist.stage = "absent"
  BY <1>2, <1>3 DEF IInv, StageInv, Unstaged, Target
<1>5. /\ Temps \in SUBSET Temps /\ dist.temps \in SUBSET Temps
      /\ dist.current \in Ids \cup {None}
  BY <1>1, DistFacts
<1>6. CASE Switch /\ At("switch") /\ proc.phase = "publish"
  <2>1. /\ dist.current = proc.prior /\ Whole(proc.id)
        /\ dist.intent = Own \/ (~Landed /\ NoDuty)
    BY <1>2, <1>6 DEF IInv, IntentInv, SelectInv, Target
  <2>2. Goto("switched")
    BY <1>6, <2>1 DEF Switch, Target
  <2>3. /\ proc' \in Proc /\ proc'.pc = "switched" /\ proc'.phase = proc.phase
        /\ proc'.snap = proc.snap
        /\ proc'.id = proc.id /\ proc'.prior = proc.prior /\ proc'.doomed = proc.doomed
    BY <2>2, <1>6, <2>1, <1>1, <1>2, <1>3, <1>4, <1>5, GotoFacts DEF Steps
  <2>4. dist' = [dist EXCEPT !.temps = @ \ {".current.tmp"}, !.current = proc.id]
    BY <1>6 DEF Switch, Target
  <2>5. lease' = lease /\ forfeited' = forfeited
    BY <1>6 DEF Switch, Target
  <2>6. /\ dist' \in Dist
        /\ dist'.gens = dist.gens /\ dist'.pending = dist.pending
        /\ dist'.stage = dist.stage /\ dist'.current = proc.id
        /\ dist'.intent = dist.intent /\ dist'.ledger = dist.ledger
        /\ dist'.durable = dist.durable /\ dist'.temps = dist.temps \ {".current.tmp"}
    BY <2>4, <1>6, <2>1, <2>3, <2>5, <1>1, <1>2, <1>3, <1>4, <1>5, IdFacts DEF Dist, Temps
  <2>7. TypeOK'
    BY <1>6, <2>1, <2>3, <2>5, <2>6, <1>1, <1>2, <1>3, <1>4, <1>5 DEF IInv, TypeOK
  <2>8. FlowInv'
    BY <1>6, <2>1, <2>3, <2>5, <2>6, <1>1, <1>2, <1>3, <1>4, <1>5 DEF IInv, FlowInv
  <2>9. StageInv'
    BY <1>6, <2>1, <2>3, <2>5, <2>6, <1>1, <1>2, <1>3, <1>4, <1>5 DEF IInv, StageInv,
       Unstaged, Whole
  <2>10. TempsInv'
    BY <1>6, <2>1, <2>3, <2>5, <2>6, <1>1, <1>2, <1>3, <1>4, <1>5 DEF IInv, TempsInv, Swept
  <2>11. SelectInv'
    BY <1>6, <2>1, <2>3, <2>5, <2>6, <1>1, <1>2, <1>3, <1>4, <1>5 DEF IInv, SelectInv,
       CurrentWhole, Whole, Target
  <2>12. IntentInv'
    BY <1>6, <2>1, <2>3, <2>5, <2>6, <1>1, <1>2, <1>3, <1>4, <1>5 DEF IInv, IntentInv, Own,
       NoDuty, Landed
  <2>13. KeptInv'
    <3>0. Own # None /\ Own.prior = proc.prior /\ Own.current = proc.id
      BY <1>2, <1>3, <1>6, NoneAssumption DEF Own
    <3>1. \A d \in Due : Stored(d) \/ (proc.prior # None /\ d \in Served[proc.prior])
      BY <3>0, <2>1 DEF IInv, KeptInv, AssetsKeptUnlessForfeited, Due, Servable, Stored,
         Landed
    <3>2. owed' = IF proc.prior = None THEN owed ELSE owed \cup (Served[proc.prior] \ Served[proc.id])
      BY <1>6, <2>1 DEF Switch, Target
    <3>3. Retained' = Retained /\ Bare' = Bare /\ (\A d : Stored(d)' <=> Stored(d))
      BY <2>5, <2>6 DEF Retained, Bare, Stored
    <3>4. \A d \in Due' : Stored(d)' \/ (proc'.prior # None /\ d \in Served[proc'.prior])
      BY <3>1, <3>2, <3>3, <2>3, <2>5 DEF Due
    <3>5. CASE dist.intent # Own
      <4>1. Bare' = {}
        BY <3>0, <3>3, <3>5, <2>1 DEF NoDuty, Bare, Retained
      <4>2. \A d \in Due' : Stored(d)'
        BY <3>0, <3>4, <3>5, <2>1, <2>3 DEF NoDuty
      <4> QED
        BY <3>4, <4>1, <4>2, <2>3 DEF KeptInv, AssetsKeptUnlessForfeited, Due, Servable,
           Stored
    <3>6. CASE dist.intent = Own
      <4>1. dist'.intent = Own /\ Landed' /\ dist'.intent.prior = proc.prior
        BY <3>0, <3>6, <2>3, <2>6, <1>6 DEF Landed
      <4>2. proc.prior # None => Whole(proc.prior)'
        BY <1>6, <2>1, <2>3, <2>6 DEF IInv, SelectInv, CurrentWhole, Whole
      <4>3. proc.prior # None => \A d \in Bare' : d \notin Served[proc.prior]
        BY <3>3, <3>6, <2>1, <1>6 DEF IInv, KeptInv, Own
      <4>4. AssetsKeptUnlessForfeited'
        BY <3>4, <4>1, <4>2, <2>3 DEF AssetsKeptUnlessForfeited, Due, Servable, Stored
      <4> QED
        BY <3>4, <4>1, <4>3, <4>4, <2>3, <1>6 DEF KeptInv
    <3> QED
      BY <3>5, <3>6
  <2>14. LeaseInv'
    BY <1>6, <2>1, <2>3, <2>5, <2>6, <1>1, <1>2, <1>3, <1>4, <1>5 DEF IInv, LeaseInv
  <2> QED
    BY <2>7, <2>8, <2>9, <2>10, <2>11, <2>12, <2>13, <2>14 DEF IInv
<1>7. CASE Switch /\ At("switch") /\ proc.phase = "restore"
  <2>1. /\ dist.current = proc.id /\ Whole(proc.prior) /\ proc.prior # None
        /\ dist.intent \in {Own, None}
    BY <1>2, <1>7 DEF IInv, IntentInv, SelectInv, Target
  <2>2. Goto("switched")
    BY <1>7, <2>1 DEF Switch, Target
  <2>3. /\ proc' \in Proc /\ proc'.pc = "switched" /\ proc'.phase = proc.phase
        /\ proc'.snap = proc.snap
        /\ proc'.id = proc.id /\ proc'.prior = proc.prior /\ proc'.doomed = proc.doomed
    BY <2>2, <1>7, <2>1, <1>1, <1>2, <1>3, <1>4, <1>5, GotoFacts DEF Steps
  <2>4. dist' = [dist EXCEPT !.temps = @ \ {".current.tmp"}, !.current = proc.prior]
    BY <1>7 DEF Switch, Target
  <2>5. lease' = lease
    BY <1>7 DEF Switch, Target
  <2>6. /\ dist' \in Dist
        /\ dist'.gens = dist.gens /\ dist'.pending = dist.pending
        /\ dist'.stage = dist.stage /\ dist'.current = proc.prior
        /\ dist'.intent = dist.intent /\ dist'.ledger = dist.ledger
        /\ dist'.durable = dist.durable /\ dist'.temps = dist.temps \ {".current.tmp"}
    BY <2>4, <1>7, <2>1, <2>3, <2>5, <1>1, <1>2, <1>3, <1>4, <1>5, IdFacts DEF Dist, Temps
  <2>7. TypeOK'
    BY <1>7, <2>1, <2>3, <2>5, <2>6, <1>1, <1>2, <1>3, <1>4, <1>5 DEF IInv, TypeOK
  <2>8. FlowInv'
    BY <1>7, <2>1, <2>3, <2>5, <2>6, <1>1, <1>2, <1>3, <1>4, <1>5 DEF IInv, FlowInv
  <2>9. StageInv'
    BY <1>7, <2>1, <2>3, <2>5, <2>6, <1>1, <1>2, <1>3, <1>4, <1>5 DEF IInv, StageInv,
       Unstaged, Whole
  <2>10. TempsInv'
    BY <1>7, <2>1, <2>3, <2>5, <2>6, <1>1, <1>2, <1>3, <1>4, <1>5 DEF IInv, TempsInv, Swept
  <2>11. SelectInv'
    BY <1>7, <2>1, <2>3, <2>5, <2>6, <1>1, <1>2, <1>3, <1>4, <1>5 DEF IInv, SelectInv,
       CurrentWhole, Whole, Target
  <2>12. IntentInv'
    BY <1>7, <2>1, <2>3, <2>5, <2>6, <1>1, <1>2, <1>3, <1>4, <1>5 DEF IInv, IntentInv, Own,
       NoDuty, Landed
  <2>13. KeptInv'
    <3>1. \A d \in Due : Stored(d) \/ (proc.prior # None /\ d \in Served[proc.prior])
      BY <1>7 DEF IInv, KeptInv
    <3>2. owed' = owed /\ forfeited' = forfeited
      BY <1>7 DEF Switch
    <3>3. Bare' = Bare /\ (\A d : Stored(d)' <=> Stored(d))
      BY <3>2, <2>6 DEF Retained, Bare, Stored
    <3>4. \A d \in Bare : d \notin Served[proc.prior]
      BY <1>7 DEF IInv, KeptInv
    <3>5. AssetsKeptUnlessForfeited'
      BY <3>1, <3>2, <3>3, <2>1, <2>6 DEF AssetsKeptUnlessForfeited, Due, Servable, Stored
    <3> QED
      BY <3>1, <3>2, <3>3, <3>4, <3>5, <2>1, <2>3, <2>6, <1>7 DEF KeptInv, Own, Landed, Due
  <2>14. LeaseInv'
    BY <1>7, <2>1, <2>3, <2>5, <2>6, <1>1, <1>2, <1>3, <1>4, <1>5 DEF IInv, LeaseInv
  <2> QED
    BY <2>7, <2>8, <2>9, <2>10, <2>11, <2>12, <2>13, <2>14 DEF IInv
<1> QED
  BY <1>2, <1>6, <1>7 DEF Switch

-----------------------------------------------------------------------------
\* The bytes of the replaced digests are stored before the ledger binds them.
LEMMA RetainInv ==
    ASSUME IInv, Retain
    PROVE  IInv'
<1> USE DEF At, AtAny, Phase, RecoverSteps, StageSteps, IntendSteps, SelectSteps, ApplySteps,
            DeleteSteps, CleanSteps, Unlinking
<1>1. dist \in Dist /\ proc \in Proc
  BY DEF IInv, TypeOK
<1>2. AtAny(ApplySteps) =>
        /\ proc.phase \in {"test", "prod", "publish", "clean"} /\ proc.snap \in Inputs
        /\ Landed /\ dist.intent # None /\ dist.intent.current = dist.current
        /\ dist.current \in Ids /\ dist.current # None
        /\ dist.intent.prior \in Ids \cup {None} /\ dist.stage = "absent"
  BY <1>1, DistFacts, IdFacts DEF IInv, FlowInv, IntentInv, StageInv, Unstaged, Proc, Landed
<1>3. AtAny(ApplySteps) => Added \subseteq Digests /\ Retained \subseteq Digests
  BY <1>1, <1>2, DistFacts, IdsAssumption DEF Added, Retained
<1>4. CASE At("retain") /\ ~PriorReadable(dist.intent.prior)
  <2>1. Refused /\ UNCHANGED <<dist, owed, forfeited, lease>> /\ TakenBack
    BY <1>4 DEF Retain, KeepRest, TakenBack
  <2> QED
    BY <2>1, RefusedInv
<1>5. ASSUME NEW d \in Added \ dist.durable, At("retain"), proc' = proc, KeepRest,
             dist' = [dist EXCEPT !.durable = dist.durable \cup {d}]
      PROVE  IInv'
  <2>1. proc'.pc = "retain" /\ proc' \in Proc
    BY <1>1, <1>5
  <2>2. dist' = [dist EXCEPT !.durable = dist.durable \cup {d}]
    BY <1>5 DEF KeepRest
  <2>3. owed' = owed /\ forfeited' = forfeited /\ lease' = lease
    BY <1>5 DEF KeepRest
  <2>4. /\ dist' \in Dist
        /\ dist'.gens = dist.gens /\ dist'.pending = dist.pending
        /\ dist'.stage = dist.stage /\ dist'.current = dist.current
        /\ dist'.intent = dist.intent /\ dist'.ledger = dist.ledger
        /\ dist'.durable = dist.durable \cup {d} /\ dist'.temps = dist.temps
    BY <2>2, <1>5, <2>1, <2>3, <1>1, <1>2, <1>3, IdFacts DEF Dist, Temps
  <2>5. TypeOK'
    BY <1>5, <2>1, <2>3, <2>4, <1>1, <1>2, <1>3 DEF IInv, TypeOK
  <2>6. FlowInv'
    BY <1>5, <2>1, <2>3, <2>4, <1>1, <1>2, <1>3 DEF IInv, FlowInv
  <2>7. StageInv'
    BY <1>5, <2>1, <2>3, <2>4, <1>1, <1>2, <1>3 DEF IInv, StageInv, Unstaged, Whole
  <2>8. TempsInv'
    BY <1>5, <2>1, <2>3, <2>4, <1>1, <1>2, <1>3 DEF IInv, TempsInv, Swept
  <2>9. SelectInv'
    BY <1>5, <2>1, <2>3, <2>4, <1>1, <1>2, <1>3 DEF IInv, SelectInv, CurrentWhole, Whole,
       Target
  <2>10. IntentInv'
    BY <1>5, <2>1, <2>3, <2>4, <1>1, <1>2, <1>3 DEF IInv, IntentInv, Own, NoDuty, Landed
  <2>11. KeptInv'
    <3>1. Retained' = Retained /\ Bare' \subseteq Bare /\ (\A e : Stored(e) => Stored(e)')
      BY <2>3, <2>4 DEF Retained, Bare, Stored
    <3>2. AssetsKeptUnlessForfeited'
      BY <3>1, <2>3, <2>4 DEF IInv, KeptInv, AssetsKeptUnlessForfeited, Due, Servable,
         Stored, Landed, Whole
    <3> QED
      BY <3>1, <3>2, <2>1, <2>3, <2>4, <1>5 DEF IInv, KeptInv, Landed, Due
  <2>12. LeaseInv'
    BY <1>5, <2>1, <2>3, <2>4, <1>1, <1>2, <1>3 DEF IInv, LeaseInv
  <2> QED
    BY <2>5, <2>6, <2>7, <2>8, <2>9, <2>10, <2>11, <2>12 DEF IInv
<1>6. CASE /\ Retain /\ At("retain") /\ PriorReadable(dist.intent.prior)
           /\ Added \subseteq dist.durable
           /\ dist.ledger = None /\ Added = {} /\ Goto("settled") /\ UNCHANGED dist
  <2>1. Goto("settled")
    BY <1>6 DEF Retain, KeepRest
  <2>2. /\ proc' \in Proc /\ proc'.pc = "settled" /\ proc'.phase = proc.phase
        /\ proc'.snap = proc.snap
        /\ proc'.id = proc.id /\ proc'.prior = proc.prior /\ proc'.doomed = proc.doomed
    BY <2>1, <1>6, <1>1, <1>2, <1>3, GotoFacts DEF Steps
  <2>3. dist' = dist /\ owed' = owed /\ forfeited' = forfeited /\ lease' = lease
    BY <1>6 DEF Retain, KeepRest
  <2>4. TypeOK'
    BY <1>6, <2>2, <2>3, <1>1, <1>2, <1>3 DEF IInv, TypeOK
  <2>5. FlowInv'
    BY <1>6, <2>2, <2>3, <1>1, <1>2, <1>3 DEF IInv, FlowInv
  <2>6. StageInv'
    BY <1>6, <2>2, <2>3, <1>1, <1>2, <1>3 DEF IInv, StageInv, Unstaged, Whole
  <2>7. TempsInv'
    BY <1>6, <2>2, <2>3, <1>1, <1>2, <1>3 DEF IInv, TempsInv, Swept
  <2>8. SelectInv'
    BY <1>6, <2>2, <2>3, <1>1, <1>2, <1>3 DEF IInv, SelectInv, CurrentWhole, Whole, Target
  <2>9. IntentInv'
    BY <1>6, <2>2, <2>3, <1>1, <1>2, <1>3 DEF IInv, IntentInv, Own, NoDuty, Landed
  <2>10. KeptInv'
    <3>1. Retained = {} /\ Bare = {}
      BY <1>6 DEF Retained, Bare
    <3>2. \A d \in Due : d \in Served[dist.current]
      BY <3>1, <1>2, <1>6 DEF IInv, KeptInv, AssetsKeptUnlessForfeited, Due, Servable, Added
    <3>3. Retained' = {} /\ Bare' = {}
      BY <3>1, <2>3 DEF Retained, Bare
    <3> QED
      BY <3>2, <3>3, <2>2, <2>3, <1>2, <1>6 DEF IInv, KeptInv, AssetsKeptUnlessForfeited,
         Due, Servable, Landed
  <2>11. LeaseInv'
    BY <1>6, <2>2, <2>3, <1>1, <1>2, <1>3 DEF IInv, LeaseInv
  <2> QED
    BY <2>4, <2>5, <2>6, <2>7, <2>8, <2>9, <2>10, <2>11 DEF IInv
<1>7. CASE /\ Retain /\ At("retain") /\ PriorReadable(dist.intent.prior)
           /\ Added \subseteq dist.durable
           /\ ~(dist.ledger = None /\ Added = {}) /\ Goto("account") /\ UNCHANGED dist
  <2>1. Goto("account")
    BY <1>7 DEF Retain, KeepRest
  <2>2. /\ proc' \in Proc /\ proc'.pc = "account" /\ proc'.phase = proc.phase
        /\ proc'.snap = proc.snap
        /\ proc'.id = proc.id /\ proc'.prior = proc.prior /\ proc'.doomed = proc.doomed
    BY <2>1, <1>7, <1>1, <1>2, <1>3, GotoFacts DEF Steps
  <2>3. dist' = dist /\ owed' = owed /\ forfeited' = forfeited /\ lease' = lease
    BY <1>7 DEF Retain, KeepRest
  <2>4. TypeOK'
    BY <1>7, <2>2, <2>3, <1>1, <1>2, <1>3 DEF IInv, TypeOK
  <2>5. FlowInv'
    BY <1>7, <2>2, <2>3, <1>1, <1>2, <1>3 DEF IInv, FlowInv
  <2>6. StageInv'
    BY <1>7, <2>2, <2>3, <1>1, <1>2, <1>3 DEF IInv, StageInv, Unstaged, Whole
  <2>7. TempsInv'
    BY <1>7, <2>2, <2>3, <1>1, <1>2, <1>3 DEF IInv, TempsInv, Swept
  <2>8. SelectInv'
    BY <1>7, <2>2, <2>3, <1>1, <1>2, <1>3 DEF IInv, SelectInv, CurrentWhole, Whole, Target
  <2>9. IntentInv'
    BY <1>7, <2>2, <2>3, <1>1, <1>2, <1>3 DEF IInv, IntentInv, Own, NoDuty, Landed
  <2>10. KeptInv'
    BY <1>7, <2>2, <2>3, <1>1, <1>2, <1>3 DEF IInv, KeptInv, AssetsKeptUnlessForfeited,
       Due, Servable, Landed, Stored, Retained, Bare, Added, Whole
  <2>11. LeaseInv'
    BY <1>7, <2>2, <2>3, <1>1, <1>2, <1>3 DEF IInv, LeaseInv
  <2> QED
    BY <2>4, <2>5, <2>6, <2>7, <2>8, <2>9, <2>10, <2>11 DEF IInv
<1> QED
  <2>1. CASE ~PriorReadable(dist.intent.prior)
    BY <2>1, <1>4 DEF Retain
  <2>2. CASE PriorReadable(dist.intent.prior)
    <3>1. CASE \E d \in Added \ dist.durable :
                 dist' = [dist EXCEPT !.durable = dist.durable \cup {d}] /\ UNCHANGED proc
      BY <3>1, <1>5 DEF Retain
    <3>2. CASE /\ Added \subseteq dist.durable /\ UNCHANGED dist
               /\ IF dist.ledger = None /\ Added = {} THEN Goto("settled") ELSE Goto("account")
      BY <3>2, <2>2, <1>6, <1>7 DEF Retain
    <3> QED
      BY <2>2, <3>1, <3>2 DEF Retain
  <2> QED
    BY <2>1, <2>2

\* The ledger drops only what is served again or expired, and binds what was stored.
LEMMA AccountInv ==
    ASSUME IInv, Account
    PROVE  IInv'
<1> USE DEF At, AtAny, Phase, RecoverSteps, StageSteps, IntendSteps, SelectSteps, ApplySteps,
            DeleteSteps, CleanSteps, Unlinking
<1>1. dist \in Dist /\ proc \in Proc
  BY DEF IInv, TypeOK
<1>2. AtAny(ApplySteps) =>
        /\ proc.phase \in {"test", "prod", "publish", "clean"} /\ proc.snap \in Inputs
        /\ Landed /\ dist.intent # None /\ dist.intent.current = dist.current
        /\ dist.current \in Ids /\ dist.current # None
        /\ dist.intent.prior \in Ids \cup {None} /\ dist.stage = "absent"
  BY <1>1, DistFacts, IdFacts DEF IInv, FlowInv, IntentInv, StageInv, Unstaged, Proc, Landed
<1>3. AtAny(ApplySteps) => Added \subseteq Digests /\ Retained \subseteq Digests
  BY <1>1, <1>2, DistFacts, IdsAssumption DEF Added, Retained
<1>4. /\ At("account") => dist.temps = {}
      /\ At("accounted") => dist.temps \subseteq {".assets.tmp"}
      /\ dist.temps \in SUBSET Temps /\ dist.durable \in SUBSET Digests
  BY <1>1, DistFacts DEF IInv, TempsInv, Swept
<1>5. CASE At("account") /\ WriteTemp(".assets.tmp", "accounted")
  <2>1. Goto("accounted")
    BY <1>5, <1>1, <1>2, <1>3, <1>4 DEF WriteTemp, KeepRest
  <2>2. /\ proc' \in Proc /\ proc'.pc = "accounted" /\ proc'.phase = proc.phase
        /\ proc'.snap = proc.snap
        /\ proc'.id = proc.id /\ proc'.prior = proc.prior /\ proc'.doomed = proc.doomed
    BY <2>1, <1>5, <1>1, <1>2, <1>3, <1>4, GotoFacts DEF Steps
  <2>3. dist' = [dist EXCEPT !.temps = @ \cup {".assets.tmp"}]
    BY <1>5, <1>1, <1>2, <1>3, <1>4 DEF WriteTemp, KeepRest
  <2>4. owed' = owed /\ forfeited' = forfeited /\ lease' = lease
    BY <1>5 DEF WriteTemp, KeepRest
  <2>5. /\ dist' \in Dist
        /\ dist'.gens = dist.gens /\ dist'.pending = dist.pending
        /\ dist'.stage = dist.stage /\ dist'.current = dist.current
        /\ dist'.intent = dist.intent /\ dist'.ledger = dist.ledger
        /\ dist'.durable = dist.durable /\ dist'.temps = dist.temps \cup {".assets.tmp"}
    BY <2>3, <1>5, <2>2, <2>4, <1>1, <1>2, <1>3, <1>4, IdFacts DEF Dist, Temps
  <2>6. TypeOK'
    BY <1>5, <2>2, <2>4, <2>5, <1>1, <1>2, <1>3, <1>4 DEF IInv, TypeOK
  <2>7. FlowInv'
    BY <1>5, <2>2, <2>4, <2>5, <1>1, <1>2, <1>3, <1>4 DEF IInv, FlowInv
  <2>8. StageInv'
    BY <1>5, <2>2, <2>4, <2>5, <1>1, <1>2, <1>3, <1>4 DEF IInv, StageInv, Unstaged, Whole
  <2>9. TempsInv'
    BY <1>5, <2>2, <2>4, <2>5, <1>1, <1>2, <1>3, <1>4 DEF IInv, TempsInv, Swept
  <2>10. SelectInv'
    BY <1>5, <2>2, <2>4, <2>5, <1>1, <1>2, <1>3, <1>4 DEF IInv, SelectInv, CurrentWhole,
       Whole, Target
  <2>11. IntentInv'
    BY <1>5, <2>2, <2>4, <2>5, <1>1, <1>2, <1>3, <1>4 DEF IInv, IntentInv, Own, NoDuty,
       Landed
  <2>12. KeptInv'
    BY <1>5, <2>2, <2>4, <2>5, <1>1, <1>2, <1>3, <1>4 DEF IInv, KeptInv,
       AssetsKeptUnlessForfeited, Due, Servable, Landed, Stored, Retained, Bare, Added,
       Whole
  <2>13. LeaseInv'
    BY <1>5, <2>2, <2>4, <2>5, <1>1, <1>2, <1>3, <1>4 DEF IInv, LeaseInv
  <2> QED
    BY <2>6, <2>7, <2>8, <2>9, <2>10, <2>11, <2>12, <2>13 DEF IInv
<1>6. ASSUME NEW expired \in SUBSET (Retained \ owed), At("accounted"), Goto("sweep"), KeepRest,
             dist' = [dist EXCEPT !.temps = dist.temps \ {".assets.tmp"},
                                  !.ledger = (Retained \ (Served[dist.intent.current] \cup expired)) \cup Added]
      PROVE  IInv'
  <2>1. ((Retained \ (Served[dist.intent.current] \cup expired)) \cup Added)
          \in SUBSET Digests
    BY <1>3, <1>6
  <2>2. dist.temps \ {".assets.tmp"} \in SUBSET Temps
    BY <1>4
  <2>3. Goto("sweep")
    BY <1>6, <2>1, <2>2 DEF KeepRest
  <2>4. /\ proc' \in Proc /\ proc'.pc = "sweep" /\ proc'.phase = proc.phase
        /\ proc'.snap = proc.snap
        /\ proc'.id = proc.id /\ proc'.prior = proc.prior /\ proc'.doomed = proc.doomed
    BY <2>3, <1>6, <2>1, <2>2, <1>1, <1>2, <1>3, <1>4, GotoFacts DEF Steps
  <2>5. dist' = [dist EXCEPT !.temps = dist.temps \ {".assets.tmp"},
                             !.ledger = (Retained \ (Served[dist.intent.current] \cup expired)) \cup Added]
    BY <1>6 DEF KeepRest
  <2>6. owed' = owed /\ forfeited' = forfeited /\ lease' = lease
    BY <1>6 DEF KeepRest
  <2>7. /\ dist' \in Dist
        /\ dist'.gens = dist.gens /\ dist'.pending = dist.pending
        /\ dist'.stage = dist.stage /\ dist'.current = dist.current
        /\ dist'.intent = dist.intent
        /\ dist'.ledger = (Retained \ (Served[dist.intent.current] \cup expired)) \cup Added
        /\ dist'.durable = dist.durable /\ dist'.temps = dist.temps \ {".assets.tmp"}
    <3> DEFINE l == (Retained \ (Served[dist.intent.current] \cup expired)) \cup Added
               t == dist.temps \ {".assets.tmp"}
    <3>1. /\ l \in SUBSET Digests /\ t \in SUBSET Temps
          /\ dist' = [dist EXCEPT !.temps = t, !.ledger = l]
      BY <2>1, <2>2, <2>5
    <3> HIDE DEF l, t
    <3>2. /\ dist' \in Dist
          /\ dist'.gens = dist.gens /\ dist'.pending = dist.pending
          /\ dist'.stage = dist.stage /\ dist'.current = dist.current
          /\ dist'.intent = dist.intent /\ dist'.ledger = l
          /\ dist'.durable = dist.durable /\ dist'.temps = t
      BY <3>1, <1>1 DEF Dist
    <3> QED
      BY <3>2 DEF l, t
  <2>8. TypeOK'
    BY <1>6, <2>1, <2>2, <2>4, <2>6, <2>7, <1>1, <1>2, <1>3, <1>4 DEF IInv, TypeOK
  <2>9. FlowInv'
    BY <1>6, <2>1, <2>2, <2>4, <2>6, <2>7, <1>1, <1>2, <1>3, <1>4 DEF IInv, FlowInv
  <2>10. StageInv'
    BY <1>6, <2>1, <2>2, <2>4, <2>6, <2>7, <1>1, <1>2, <1>3, <1>4 DEF IInv, StageInv,
       Unstaged, Whole
  <2>11. TempsInv'
    BY <1>6, <2>1, <2>2, <2>4, <2>6, <2>7, <1>1, <1>2, <1>3, <1>4 DEF IInv, TempsInv, Swept
  <2>12. SelectInv'
    BY <1>6, <2>1, <2>2, <2>4, <2>6, <2>7, <1>1, <1>2, <1>3, <1>4 DEF IInv, SelectInv,
       CurrentWhole, Whole, Target
  <2>13. IntentInv'
    BY <1>6, <2>1, <2>2, <2>4, <2>6, <2>7, <1>1, <1>2, <1>3, <1>4 DEF IInv, IntentInv, Own,
       NoDuty, Landed
  <2>14. KeptInv'
    <3>1. Retained' = (Retained \ (Served[dist.intent.current] \cup expired)) \cup Added
      BY <2>7, <1>3, <1>6, NoneAssumption DEF Retained
    <3>2. Added \subseteq dist.durable
      BY <1>6 DEF IInv, KeptInv
    <3>3. Bare' \subseteq Bare /\ \A d \in Bare' : d \notin Served[dist.current]
      BY <3>1, <3>2, <2>6, <2>7, <1>2, <1>6 DEF Bare
    <3>4. ASSUME NEW d \in Due
          PROVE  Stored(d)' \/ d \in Served[dist.current]
      <4>1. CASE Stored(d)
        BY <4>1, <3>1, <2>7, <1>2, <1>6 DEF Stored, Due
      <4>2. CASE dist.intent.prior # None /\ d \in Served[dist.intent.prior]
        <5>1. d \notin Bare
          BY <4>2, <1>2, <1>6 DEF IInv, KeptInv
        <5>2. d \in Served[dist.current] \/ d \in Retained \/ d \in Added
          BY <4>2, <1>2, <1>6 DEF Added
        <5> QED
          BY <5>1, <5>2, <3>1, <3>2, <2>7, <1>2, <1>6 DEF Stored, Bare, Due
      <4> QED
        BY <4>1, <4>2 DEF IInv, KeptInv, AssetsKeptUnlessForfeited, Due, Servable, Stored
    <3>5. AssetsKeptUnlessForfeited'
      BY <3>4, <2>6, <2>7, <1>2, <1>6 DEF AssetsKeptUnlessForfeited, Due, Servable, Stored
    <3>6. dist'.current = dist.current /\ (Landed' => dist'.intent = dist.intent)
      BY <2>7
    <3>7. Landed' /\ dist'.intent.prior # None => \A d \in Bare' : d \notin Served[dist'.intent.prior]
      BY <3>3, <3>6, <1>2, <1>6 DEF IInv, KeptInv
    <3> QED
      BY <3>3, <3>4, <3>5, <3>6, <3>7, <2>4, <2>6, <1>2, <1>6 DEF KeptInv, Due
  <2>15. LeaseInv'
    BY <1>6, <2>1, <2>2, <2>4, <2>6, <2>7, <1>1, <1>2, <1>3, <1>4 DEF IInv, LeaseInv
  <2> QED
    BY <2>8, <2>9, <2>10, <2>11, <2>12, <2>13, <2>14, <2>15 DEF IInv
<1> QED
  BY <1>5, <1>6 DEF Account

\* What the ledger does not bind is deleted, and the intent is fulfilled.
LEMMA SettleInv ==
    ASSUME IInv, Sweep \/ Settled
    PROVE  IInv'
<1> USE DEF At, AtAny, Phase, RecoverSteps, StageSteps, IntendSteps, SelectSteps, ApplySteps,
            DeleteSteps, CleanSteps, Unlinking
<1>1. dist \in Dist /\ proc \in Proc
  BY DEF IInv, TypeOK
<1>2. AtAny(ApplySteps) =>
        /\ proc.phase \in {"test", "prod", "publish", "clean"} /\ proc.snap \in Inputs
        /\ Landed /\ dist.intent # None /\ dist.intent.current = dist.current
        /\ dist.current \in Ids /\ dist.current # None
        /\ dist.intent.prior \in Ids \cup {None} /\ dist.stage = "absent"
  BY <1>1, DistFacts, IdFacts DEF IInv, FlowInv, IntentInv, StageInv, Unstaged, Proc, Landed
<1>3. AtAny(ApplySteps) => Added \subseteq Digests /\ Retained \subseteq Digests
  BY <1>1, <1>2, DistFacts, IdsAssumption DEF Added, Retained
<1>4. dist.temps \in SUBSET Temps /\ dist.durable \in SUBSET Digests
  BY <1>1, DistFacts
<1>5. CASE Sweep /\ At("sweep")
  <2>1. Goto("settled")
    BY <1>5 DEF Sweep, KeepRest
  <2>2. /\ proc' \in Proc /\ proc'.pc = "settled" /\ proc'.phase = proc.phase
        /\ proc'.snap = proc.snap
        /\ proc'.id = proc.id /\ proc'.prior = proc.prior /\ proc'.doomed = proc.doomed
    BY <2>1, <1>5, <1>1, <1>2, <1>3, <1>4, GotoFacts DEF Steps
  <2>3. dist' = [dist EXCEPT !.durable = dist.durable \cap Retained]
    BY <1>5 DEF Sweep, KeepRest
  <2>4. owed' = owed /\ forfeited' = forfeited /\ lease' = lease
    BY <1>5 DEF Sweep, KeepRest
  <2>5. /\ dist' \in Dist
        /\ dist'.gens = dist.gens /\ dist'.pending = dist.pending
        /\ dist'.stage = dist.stage /\ dist'.current = dist.current
        /\ dist'.intent = dist.intent /\ dist'.ledger = dist.ledger
        /\ dist'.durable = dist.durable \cap Retained /\ dist'.temps = dist.temps
    BY <2>3, <1>5, <2>2, <2>4, <1>1, <1>2, <1>3, <1>4, IdFacts DEF Dist, Temps
  <2>6. TypeOK'
    BY <1>5, <2>2, <2>4, <2>5, <1>1, <1>2, <1>3, <1>4 DEF IInv, TypeOK
  <2>7. FlowInv'
    BY <1>5, <2>2, <2>4, <2>5, <1>1, <1>2, <1>3, <1>4 DEF IInv, FlowInv
  <2>8. StageInv'
    BY <1>5, <2>2, <2>4, <2>5, <1>1, <1>2, <1>3, <1>4 DEF IInv, StageInv, Unstaged, Whole
  <2>9. TempsInv'
    BY <1>5, <2>2, <2>4, <2>5, <1>1, <1>2, <1>3, <1>4 DEF IInv, TempsInv, Swept
  <2>10. SelectInv'
    BY <1>5, <2>2, <2>4, <2>5, <1>1, <1>2, <1>3, <1>4 DEF IInv, SelectInv, CurrentWhole,
       Whole, Target
  <2>11. IntentInv'
    BY <1>5, <2>2, <2>4, <2>5, <1>1, <1>2, <1>3, <1>4 DEF IInv, IntentInv, Own, NoDuty,
       Landed
  <2>12. KeptInv'
    <3>1. Retained' = Retained /\ Bare' = Bare /\ (\A d : Stored(d)' <=> Stored(d))
      BY <2>4, <2>5 DEF Retained, Bare, Stored
    <3>2. AssetsKeptUnlessForfeited'
      BY <3>1, <2>4, <2>5 DEF IInv, KeptInv, AssetsKeptUnlessForfeited, Due, Servable,
         Stored, Landed, Whole
    <3> QED
      BY <3>1, <3>2, <2>2, <2>4, <2>5, <1>2, <1>5 DEF IInv, KeptInv, Landed, Due
  <2>13. LeaseInv'
    BY <1>5, <2>2, <2>4, <2>5, <1>1, <1>2, <1>3, <1>4 DEF IInv, LeaseInv
  <2> QED
    BY <2>6, <2>7, <2>8, <2>9, <2>10, <2>11, <2>12, <2>13 DEF IInv
<1>6. CASE Settled /\ At("settled") /\ proc.phase = "clean"
  <2>1. Goto("preflightClean")
    BY <1>6 DEF Settled, KeepRest, AfterRecover, Finish
  <2>2. /\ proc' \in Proc /\ proc'.pc = "preflightClean" /\ proc'.phase = proc.phase
        /\ proc'.snap = proc.snap
        /\ proc'.id = proc.id /\ proc'.prior = proc.prior /\ proc'.doomed = proc.doomed
    BY <2>1, <1>6, <1>1, <1>2, <1>3, <1>4, GotoFacts DEF Steps
  <2>3. dist' = [dist EXCEPT !.intent = None]
    BY <1>6 DEF Settled, KeepRest, AfterRecover, Finish
  <2>4. owed' = owed /\ forfeited' = forfeited /\ lease' = lease
    BY <1>6 DEF Settled, KeepRest, AfterRecover, Finish
  <2>5. /\ dist' \in Dist
        /\ dist'.gens = dist.gens /\ dist'.pending = dist.pending
        /\ dist'.stage = dist.stage /\ dist'.current = dist.current
        /\ dist'.intent = None /\ dist'.ledger = dist.ledger /\ dist'.durable = dist.durable
        /\ dist'.temps = dist.temps
    BY <2>3, <1>6, <2>2, <2>4, <1>1, <1>2, <1>3, <1>4, IdFacts DEF Dist, Temps
  <2>6. TypeOK'
    BY <1>6, <2>2, <2>4, <2>5, <1>1, <1>2, <1>3, <1>4 DEF IInv, TypeOK
  <2>7. FlowInv'
    BY <1>6, <2>2, <2>4, <2>5, <1>1, <1>2, <1>3, <1>4 DEF IInv, FlowInv
  <2>8. StageInv'
    BY <1>6, <2>2, <2>4, <2>5, <1>1, <1>2, <1>3, <1>4 DEF IInv, StageInv, Unstaged, Whole
  <2>9. TempsInv'
    BY <1>6, <2>2, <2>4, <2>5, <1>1, <1>2, <1>3, <1>4 DEF IInv, TempsInv, Swept
  <2>10. SelectInv'
    BY <1>6, <2>2, <2>4, <2>5, <1>1, <1>2, <1>3, <1>4 DEF IInv, SelectInv, CurrentWhole,
       Whole, Target
  <2>11. IntentInv'
    BY <1>6, <2>2, <2>4, <2>5, <1>1, <1>2, <1>3, <1>4 DEF IInv, IntentInv, Own, NoDuty,
       Landed
  <2>12. KeptInv'
    <3>1. /\ \A d \in Due : Stored(d) \/ d \in Served[dist.current]
          /\ \A d \in Bare : d \notin Served[dist.current]
      BY <1>6 DEF IInv, KeptInv
    <3>2. Bare' = Bare /\ (\A d : Stored(d)' <=> Stored(d))
      BY <2>4, <2>5 DEF Retained, Bare, Stored
    <3>3. AssetsKeptUnlessForfeited' /\ ~Landed'
      BY <3>1, <3>2, <2>4, <2>5, <1>2, <1>6 DEF AssetsKeptUnlessForfeited, Due, Servable,
         Stored, Landed
    <3> QED
      BY <3>1, <3>2, <3>3, <2>2, <2>4, <2>5, <1>2, <1>6 DEF KeptInv
  <2>13. LeaseInv'
    BY <1>6, <2>2, <2>4, <2>5, <1>1, <1>2, <1>3, <1>4 DEF IInv, LeaseInv
  <2> QED
    BY <2>6, <2>7, <2>8, <2>9, <2>10, <2>11, <2>12, <2>13 DEF IInv
<1>7. CASE Settled /\ At("settled") /\ proc.phase \in {"test", "prod"}
  <2>1. Goto("lookup")
    BY <1>7 DEF Settled, KeepRest, AfterRecover, Finish
  <2>2. /\ proc' \in Proc /\ proc'.pc = "lookup" /\ proc'.phase = proc.phase
        /\ proc'.snap = proc.snap
        /\ proc'.id = proc.id /\ proc'.prior = proc.prior /\ proc'.doomed = proc.doomed
    BY <2>1, <1>7, <1>1, <1>2, <1>3, <1>4, GotoFacts DEF Steps
  <2>3. dist' = [dist EXCEPT !.intent = None]
    BY <1>7 DEF Settled, KeepRest, AfterRecover, Finish
  <2>4. owed' = owed /\ forfeited' = forfeited /\ lease' = lease
    BY <1>7 DEF Settled, KeepRest, AfterRecover, Finish
  <2>5. /\ dist' \in Dist
        /\ dist'.gens = dist.gens /\ dist'.pending = dist.pending
        /\ dist'.stage = dist.stage /\ dist'.current = dist.current
        /\ dist'.intent = None /\ dist'.ledger = dist.ledger /\ dist'.durable = dist.durable
        /\ dist'.temps = dist.temps
    BY <2>3, <1>7, <2>2, <2>4, <1>1, <1>2, <1>3, <1>4, IdFacts DEF Dist, Temps
  <2>6. TypeOK'
    BY <1>7, <2>2, <2>4, <2>5, <1>1, <1>2, <1>3, <1>4 DEF IInv, TypeOK
  <2>7. FlowInv'
    BY <1>7, <2>2, <2>4, <2>5, <1>1, <1>2, <1>3, <1>4 DEF IInv, FlowInv
  <2>8. StageInv'
    BY <1>7, <2>2, <2>4, <2>5, <1>1, <1>2, <1>3, <1>4 DEF IInv, StageInv, Unstaged, Whole
  <2>9. TempsInv'
    BY <1>7, <2>2, <2>4, <2>5, <1>1, <1>2, <1>3, <1>4 DEF IInv, TempsInv, Swept
  <2>10. SelectInv'
    BY <1>7, <2>2, <2>4, <2>5, <1>1, <1>2, <1>3, <1>4 DEF IInv, SelectInv, CurrentWhole,
       Whole, Target
  <2>11. IntentInv'
    BY <1>7, <2>2, <2>4, <2>5, <1>1, <1>2, <1>3, <1>4 DEF IInv, IntentInv, Own, NoDuty,
       Landed
  <2>12. KeptInv'
    <3>1. /\ \A d \in Due : Stored(d) \/ d \in Served[dist.current]
          /\ \A d \in Bare : d \notin Served[dist.current]
      BY <1>7 DEF IInv, KeptInv
    <3>2. Bare' = Bare /\ (\A d : Stored(d)' <=> Stored(d))
      BY <2>4, <2>5 DEF Retained, Bare, Stored
    <3>3. AssetsKeptUnlessForfeited' /\ ~Landed'
      BY <3>1, <3>2, <2>4, <2>5, <1>2, <1>7 DEF AssetsKeptUnlessForfeited, Due, Servable,
         Stored, Landed
    <3> QED
      BY <3>1, <3>2, <3>3, <2>2, <2>4, <2>5, <1>2, <1>7 DEF KeptInv
  <2>13. LeaseInv'
    BY <1>7, <2>2, <2>4, <2>5, <1>1, <1>2, <1>3, <1>4 DEF IInv, LeaseInv
  <2> QED
    BY <2>6, <2>7, <2>8, <2>9, <2>10, <2>11, <2>12, <2>13 DEF IInv
<1>8. CASE Settled /\ At("settled") /\ proc.phase = "publish" /\ proc.kind = "run"
  <2>1. Goto("acquire")
    BY <1>8 DEF Settled, KeepRest, AfterRecover, Finish
  <2>2. /\ proc' \in Proc /\ proc'.pc = "acquire" /\ proc'.phase = proc.phase
        /\ proc'.snap = proc.snap
        /\ proc'.id = proc.id /\ proc'.prior = proc.prior /\ proc'.doomed = proc.doomed
    BY <2>1, <1>8, <1>1, <1>2, <1>3, <1>4, GotoFacts DEF Steps
  <2>3. dist' = [dist EXCEPT !.intent = None]
    BY <1>8 DEF Settled, KeepRest, AfterRecover, Finish
  <2>4. owed' = owed /\ forfeited' = forfeited /\ lease' = lease
    BY <1>8 DEF Settled, KeepRest, AfterRecover, Finish
  <2>5. /\ dist' \in Dist
        /\ dist'.gens = dist.gens /\ dist'.pending = dist.pending
        /\ dist'.stage = dist.stage /\ dist'.current = dist.current
        /\ dist'.intent = None /\ dist'.ledger = dist.ledger /\ dist'.durable = dist.durable
        /\ dist'.temps = dist.temps
    BY <2>3, <1>8, <2>2, <2>4, <1>1, <1>2, <1>3, <1>4, IdFacts DEF Dist, Temps
  <2>6. TypeOK'
    BY <1>8, <2>2, <2>4, <2>5, <1>1, <1>2, <1>3, <1>4 DEF IInv, TypeOK
  <2>7. FlowInv'
    BY <1>8, <2>2, <2>4, <2>5, <1>1, <1>2, <1>3, <1>4 DEF IInv, FlowInv
  <2>8. StageInv'
    BY <1>8, <2>2, <2>4, <2>5, <1>1, <1>2, <1>3, <1>4 DEF IInv, StageInv, Unstaged, Whole
  <2>9. TempsInv'
    BY <1>8, <2>2, <2>4, <2>5, <1>1, <1>2, <1>3, <1>4 DEF IInv, TempsInv, Swept
  <2>10. SelectInv'
    BY <1>8, <2>2, <2>4, <2>5, <1>1, <1>2, <1>3, <1>4 DEF IInv, SelectInv, CurrentWhole,
       Whole, Target
  <2>11. IntentInv'
    BY <1>8, <2>2, <2>4, <2>5, <1>1, <1>2, <1>3, <1>4 DEF IInv, IntentInv, Own, NoDuty,
       Landed
  <2>12. KeptInv'
    <3>1. /\ \A d \in Due : Stored(d) \/ d \in Served[dist.current]
          /\ \A d \in Bare : d \notin Served[dist.current]
      BY <1>8 DEF IInv, KeptInv
    <3>2. Bare' = Bare /\ (\A d : Stored(d)' <=> Stored(d))
      BY <2>4, <2>5 DEF Retained, Bare, Stored
    <3>3. AssetsKeptUnlessForfeited' /\ ~Landed'
      BY <3>1, <3>2, <2>4, <2>5, <1>2, <1>8 DEF AssetsKeptUnlessForfeited, Due, Servable,
         Stored, Landed
    <3> QED
      BY <3>1, <3>2, <3>3, <2>2, <2>4, <2>5, <1>2, <1>8 DEF KeptInv
  <2>13. LeaseInv'
    BY <1>8, <2>2, <2>4, <2>5, <1>1, <1>2, <1>3, <1>4 DEF IInv, LeaseInv
  <2> QED
    BY <2>6, <2>7, <2>8, <2>9, <2>10, <2>11, <2>12, <2>13 DEF IInv
<1>9. CASE Settled /\ At("settled") /\ proc.phase = "publish" /\ proc.kind # "run"
  <2>1. proc' = Nobody
    BY <1>9 DEF Settled, Finish
  <2>2. /\ proc' \in Proc /\ proc'.pc = "idle" /\ proc'.phase = "test" /\ proc'.prior = None
    BY <2>1, NobodyFacts
  <2>3. dist' = [dist EXCEPT !.intent = None]
    BY <1>9 DEF Settled, KeepRest, AfterRecover, Finish
  <2>4. owed' = owed /\ forfeited' = forfeited /\ lease' = lease
    BY <1>9 DEF Settled, KeepRest, AfterRecover, Finish
  <2>5. /\ dist' \in Dist
        /\ dist'.gens = dist.gens /\ dist'.pending = dist.pending
        /\ dist'.stage = dist.stage /\ dist'.current = dist.current
        /\ dist'.intent = None /\ dist'.ledger = dist.ledger /\ dist'.durable = dist.durable
        /\ dist'.temps = dist.temps
    BY <2>3, <1>9, <2>1, <2>2, <2>4, <1>1, <1>2, <1>3, <1>4, IdFacts DEF Dist, Temps
  <2>6. TypeOK'
    BY <1>9, <2>1, <2>2, <2>4, <2>5, <1>1, <1>2, <1>3, <1>4 DEF IInv, TypeOK
  <2>7. FlowInv'
    BY <1>9, <2>1, <2>2, <2>4, <2>5, <1>1, <1>2, <1>3, <1>4 DEF IInv, FlowInv
  <2>8. StageInv'
    BY <1>9, <2>1, <2>2, <2>4, <2>5, <1>1, <1>2, <1>3, <1>4 DEF IInv, StageInv, Unstaged,
       Whole
  <2>9. TempsInv'
    BY <1>9, <2>1, <2>2, <2>4, <2>5, <1>1, <1>2, <1>3, <1>4 DEF IInv, TempsInv, Swept
  <2>10. SelectInv'
    BY <1>9, <2>1, <2>2, <2>4, <2>5, <1>1, <1>2, <1>3, <1>4 DEF IInv, SelectInv,
       CurrentWhole, Whole, Target
  <2>11. IntentInv'
    BY <1>9, <2>1, <2>2, <2>4, <2>5, <1>1, <1>2, <1>3, <1>4 DEF IInv, IntentInv, Own,
       NoDuty, Landed
  <2>12. KeptInv'
    <3>1. /\ \A d \in Due : Stored(d) \/ d \in Served[dist.current]
          /\ \A d \in Bare : d \notin Served[dist.current]
      BY <1>9 DEF IInv, KeptInv
    <3>2. Bare' = Bare /\ (\A d : Stored(d)' <=> Stored(d))
      BY <2>4, <2>5 DEF Retained, Bare, Stored
    <3>3. AssetsKeptUnlessForfeited' /\ ~Landed'
      BY <3>1, <3>2, <2>4, <2>5, <1>2, <1>9 DEF AssetsKeptUnlessForfeited, Due, Servable,
         Stored, Landed
    <3> QED
      BY <3>1, <3>2, <3>3, <2>2, <2>4, <2>5, <1>2, <1>9 DEF KeptInv
  <2>13. LeaseInv'
    BY <1>9, <2>1, <2>2, <2>4, <2>5, <1>1, <1>2, <1>3, <1>4 DEF IInv, LeaseInv
  <2> QED
    BY <2>6, <2>7, <2>8, <2>9, <2>10, <2>11, <2>12, <2>13 DEF IInv
<1> QED
  BY <1>2, <1>5, <1>6, <1>7, <1>8, <1>9 DEF Sweep, Settled

-----------------------------------------------------------------------------
\* Only a generation that is not selected is taken up for deletion.
LEMMA NextDoomedInv ==
    ASSUME IInv, NextDoomed
    PROVE  IInv'
<1> USE DEF At, AtAny, Phase, RecoverSteps, StageSteps, IntendSteps, SelectSteps, ApplySteps,
            DeleteSteps, CleanSteps, Unlinking
<1>1. dist \in Dist /\ proc \in Proc
  BY DEF IInv, TypeOK
<1>2. AtAny(DeleteSteps \cup CleanSteps) =>
        /\ proc.phase \in {"cleanup", "clean"} /\ proc.snap \in Inputs
        /\ (AtAny(CleanSteps) => proc.phase = "clean" /\ dist.stage = "absent")
        /\ (proc.phase = "clean" => ~Landed)
        /\ (proc.phase = "clean" /\ AtAny(DeleteSteps) => dist.current = None)
  BY <1>1 DEF IInv, FlowInv, IntentInv, Landed, SelectInv, StageInv, Unstaged, Proc
<1>3. /\ dist.gens \in [Ids -> {"absent", "whole", "broken", "husk"}]
      /\ dist.current \in Ids \cup {None} /\ proc.doomed \in SUBSET Ids /\ None \notin Ids
  BY <1>1, DistFacts, IdFacts DEF Proc
<1>4. CASE proc.doomed = {} /\ Finish
  BY <1>4, FinishInv DEF NextDoomed, KeepDist, IInv, TypeOK
<1>5. ASSUME NEW i \in proc.doomed, At("discard"), KeepDist,
             proc' = [proc EXCEPT !.doomed = proc.doomed \ {i}]
      PROVE  IInv'
  <2>1. /\ proc' \in Proc /\ proc'.pc = "discard" /\ proc'.phase = proc.phase
        /\ proc'.snap = proc.snap
        /\ proc'.id = proc.id /\ proc'.prior = proc.prior
        /\ proc'.doomed = proc.doomed \ {i}
    BY <1>5, <1>1 DEF Proc, Steps
  <2>2. dist' = dist /\ owed' = owed /\ forfeited' = forfeited /\ lease' = lease
    BY <1>5 DEF KeepDist
  <2>3. TypeOK'
    BY <1>5, <2>1, <2>2, <1>1, <1>2, <1>3 DEF IInv, TypeOK
  <2>4. FlowInv'
    BY <1>5, <2>1, <2>2, <1>1, <1>2, <1>3 DEF IInv, FlowInv
  <2>5. StageInv'
    BY <1>5, <2>1, <2>2, <1>1, <1>2, <1>3 DEF IInv, StageInv, Unstaged, Whole
  <2>6. TempsInv'
    BY <1>5, <2>1, <2>2, <1>1, <1>2, <1>3 DEF IInv, TempsInv, Swept
  <2>7. SelectInv'
    BY <1>5, <2>1, <2>2, <1>1, <1>2, <1>3 DEF IInv, SelectInv, CurrentWhole, Whole, Target
  <2>8. IntentInv'
    BY <1>5, <2>1, <2>2, <1>1, <1>2, <1>3 DEF IInv, IntentInv, Own, NoDuty, Landed
  <2>9. KeptInv'
    BY <1>5, <2>1, <2>2, <1>1, <1>2, <1>3 DEF IInv, KeptInv, AssetsKeptUnlessForfeited,
       Due, Servable, Landed, Stored, Retained, Bare, Added, Whole
  <2>10. LeaseInv'
    BY <1>5, <2>1, <2>2, <1>1, <1>2, <1>3 DEF IInv, LeaseInv
  <2> QED
    BY <2>3, <2>4, <2>5, <2>6, <2>7, <2>8, <2>9, <2>10 DEF IInv
<1>6. ASSUME NEW i \in proc.doomed, At("discard"), KeepDist,
             proc.phase = "cleanup" => dist.current # i,
             proc' = [proc EXCEPT !.pc = "unlink", !.id = i, !.doomed = proc.doomed \ {i}]
      PROVE  IInv'
  <2>1. /\ proc' \in Proc /\ proc'.pc = "unlink" /\ proc'.phase = proc.phase
        /\ proc'.snap = proc.snap
        /\ proc'.id = i /\ proc'.prior = proc.prior /\ proc'.doomed = proc.doomed \ {i}
    BY <1>6, <1>1, <1>3 DEF Proc, Steps
  <2>2. dist' = dist /\ owed' = owed /\ forfeited' = forfeited /\ lease' = lease
    BY <1>6 DEF KeepDist
  <2>3. TypeOK'
    BY <1>6, <2>1, <2>2, <1>1, <1>2, <1>3 DEF IInv, TypeOK
  <2>4. FlowInv'
    BY <1>6, <2>1, <2>2, <1>1, <1>2, <1>3 DEF IInv, FlowInv
  <2>5. StageInv'
    BY <1>6, <2>1, <2>2, <1>1, <1>2, <1>3 DEF IInv, StageInv, Unstaged, Whole
  <2>6. TempsInv'
    BY <1>6, <2>1, <2>2, <1>1, <1>2, <1>3 DEF IInv, TempsInv, Swept
  <2>7. SelectInv'
    BY <1>6, <2>1, <2>2, <1>1, <1>2, <1>3 DEF IInv, SelectInv, CurrentWhole, Whole, Target
  <2>8. IntentInv'
    BY <1>6, <2>1, <2>2, <1>1, <1>2, <1>3 DEF IInv, IntentInv, Own, NoDuty, Landed
  <2>9. KeptInv'
    BY <1>6, <2>1, <2>2, <1>1, <1>2, <1>3 DEF IInv, KeptInv, AssetsKeptUnlessForfeited,
       Due, Servable, Landed, Stored, Retained, Bare, Added, Whole
  <2>10. LeaseInv'
    BY <1>6, <2>1, <2>2, <1>1, <1>2, <1>3 DEF IInv, LeaseInv
  <2> QED
    BY <2>3, <2>4, <2>5, <2>6, <2>7, <2>8, <2>9, <2>10 DEF IInv
<1> QED
  <2>1. CASE proc.doomed = {} /\ Finish
    BY <2>1, <1>4
  <2>2. ASSUME NEW i \in proc.doomed,
               proc' = IF proc.phase = "cleanup" /\ (~Whole(i) \/ dist.current = i)
                         THEN [proc EXCEPT !.doomed = @ \ {i}]
                         ELSE [proc EXCEPT !.pc = "unlink", !.id = i, !.doomed = @ \ {i}]
        PROVE  IInv'
    <3>1. At("discard") /\ KeepDist
      BY DEF NextDoomed
    <3>2. CASE proc.phase = "cleanup" /\ (~Whole(i) \/ dist.current = i)
      BY <2>2, <3>1, <3>2, <1>5
    <3>3. CASE ~(proc.phase = "cleanup" /\ (~Whole(i) \/ dist.current = i))
      BY <2>2, <3>1, <3>3, <1>6
    <3> QED
      BY <3>2, <3>3
  <2> QED
    BY <2>1, <2>2 DEF NextDoomed

\* Neither the selected generation nor one an intent needs is deleted.
LEMMA UnlinkInv ==
    ASSUME IInv, Unlink
    PROVE  IInv'
<1> USE DEF At, AtAny, Phase, RecoverSteps, StageSteps, IntendSteps, SelectSteps, ApplySteps,
            DeleteSteps, CleanSteps, Unlinking
<1>1. dist \in Dist /\ proc \in Proc
  BY DEF IInv, TypeOK
<1>2. AtAny(DeleteSteps \cup CleanSteps) =>
        /\ proc.phase \in {"cleanup", "clean"} /\ proc.snap \in Inputs
        /\ (AtAny(CleanSteps) => proc.phase = "clean" /\ dist.stage = "absent")
        /\ (proc.phase = "clean" => ~Landed)
        /\ (proc.phase = "clean" /\ AtAny(DeleteSteps) => dist.current = None)
  BY <1>1 DEF IInv, FlowInv, IntentInv, Landed, SelectInv, StageInv, Unstaged, Proc
<1>3. /\ dist.gens \in [Ids -> {"absent", "whole", "broken", "husk"}]
      /\ dist.current \in Ids \cup {None} /\ proc.doomed \in SUBSET Ids /\ None \notin Ids
  BY <1>1, DistFacts, IdFacts DEF Proc
<1>4. AtAny(Unlinking) =>
        /\ proc.id \in Ids /\ dist.current # proc.id
        /\ (Landed => dist.intent.prior # proc.id)
  BY <1>2, IdFacts DEF IInv, FlowInv, SelectInv, IntentInv, Landed
<1>5. CASE Unlink /\ At("unlink")
  <2>1. Goto("unlinkManifest")
    BY <1>5 DEF Unlink, KeepRest
  <2>2. /\ proc' \in Proc /\ proc'.pc = "unlinkManifest" /\ proc'.phase = proc.phase
        /\ proc'.snap = proc.snap
        /\ proc'.id = proc.id /\ proc'.prior = proc.prior /\ proc'.doomed = proc.doomed
    BY <2>1, <1>5, <1>1, <1>2, <1>3, <1>4, GotoFacts DEF Steps
  <2>3. dist' = [dist EXCEPT !.gens = [@ EXCEPT ![proc.id] = "broken"]]
    BY <1>5 DEF Unlink, KeepRest
  <2>4. owed' = owed /\ forfeited' = forfeited /\ lease' = lease
    BY <1>5 DEF Unlink, KeepRest
  <2>5. /\ dist' \in Dist
        /\ dist'.gens = [dist.gens EXCEPT ![proc.id] = "broken"]
        /\ dist'.pending = dist.pending /\ dist'.stage = dist.stage
        /\ dist'.current = dist.current
        /\ dist'.intent = dist.intent /\ dist'.ledger = dist.ledger
        /\ dist'.durable = dist.durable /\ dist'.temps = dist.temps
    BY <2>3, <1>5, <2>2, <2>4, <1>1, <1>2, <1>3, <1>4, IdFacts DEF Dist, Temps
  <2>6. TypeOK'
    BY <1>5, <2>2, <2>4, <2>5, <1>1, <1>2, <1>3, <1>4 DEF IInv, TypeOK
  <2>7. FlowInv'
    BY <1>5, <2>2, <2>4, <2>5, <1>1, <1>2, <1>3, <1>4 DEF IInv, FlowInv
  <2>8. StageInv'
    BY <1>5, <2>2, <2>4, <2>5, <1>1, <1>2, <1>3, <1>4 DEF IInv, StageInv, Unstaged, Whole
  <2>9. TempsInv'
    BY <1>5, <2>2, <2>4, <2>5, <1>1, <1>2, <1>3, <1>4 DEF IInv, TempsInv, Swept
  <2>10. SelectInv'
    BY <1>5, <2>2, <2>4, <2>5, <1>1, <1>2, <1>3, <1>4 DEF IInv, SelectInv, CurrentWhole,
       Whole, Target
  <2>11. IntentInv'
    BY <1>5, <2>2, <2>4, <2>5, <1>1, <1>2, <1>3, <1>4 DEF IInv, IntentInv, Own, NoDuty,
       Landed
  <2>12. KeptInv'
    <3>1. Retained' = Retained /\ Bare' = Bare /\ (\A d : Stored(d)' <=> Stored(d)) /\ (Landed' <=> Landed)
      BY <2>4, <2>5 DEF Retained, Bare, Stored, Landed
    <3>2. AssetsKeptUnlessForfeited'
      <4>1. \A i \in Ids : i # proc.id /\ Whole(i) => Whole(i)'
        BY <2>5, <1>3, <1>5 DEF Whole
      <4>2. Landed /\ dist.intent.prior # None => dist.intent.prior \in Ids /\ dist.intent.prior # proc.id
        BY <1>4, <1>5, IdFacts DEF IInv, IntentInv, Landed
      <4> QED
        BY <3>1, <4>1, <4>2, <2>4, <2>5 DEF IInv, KeptInv, AssetsKeptUnlessForfeited, Due,
           Servable, Stored
    <3> QED
      BY <3>1, <3>2, <2>2, <2>4, <2>5, <1>5, <1>2 DEF IInv, KeptInv
  <2>13. LeaseInv'
    BY <1>5, <2>2, <2>4, <2>5, <1>1, <1>2, <1>3, <1>4 DEF IInv, LeaseInv
  <2> QED
    BY <2>6, <2>7, <2>8, <2>9, <2>10, <2>11, <2>12, <2>13 DEF IInv
<1>6. CASE Unlink /\ At("unlinkManifest")
  <2>1. Goto("rmdir")
    BY <1>6 DEF Unlink, KeepRest
  <2>2. /\ proc' \in Proc /\ proc'.pc = "rmdir" /\ proc'.phase = proc.phase
        /\ proc'.snap = proc.snap
        /\ proc'.id = proc.id /\ proc'.prior = proc.prior /\ proc'.doomed = proc.doomed
    BY <2>1, <1>6, <1>1, <1>2, <1>3, <1>4, GotoFacts DEF Steps
  <2>3. dist' = [dist EXCEPT !.gens = [@ EXCEPT ![proc.id] = "husk"]]
    BY <1>6 DEF Unlink, KeepRest
  <2>4. owed' = owed /\ forfeited' = forfeited /\ lease' = lease
    BY <1>6 DEF Unlink, KeepRest
  <2>5. /\ dist' \in Dist
        /\ dist'.gens = [dist.gens EXCEPT ![proc.id] = "husk"]
        /\ dist'.pending = dist.pending /\ dist'.stage = dist.stage
        /\ dist'.current = dist.current
        /\ dist'.intent = dist.intent /\ dist'.ledger = dist.ledger
        /\ dist'.durable = dist.durable /\ dist'.temps = dist.temps
    BY <2>3, <1>6, <2>2, <2>4, <1>1, <1>2, <1>3, <1>4, IdFacts DEF Dist, Temps
  <2>6. TypeOK'
    BY <1>6, <2>2, <2>4, <2>5, <1>1, <1>2, <1>3, <1>4 DEF IInv, TypeOK
  <2>7. FlowInv'
    BY <1>6, <2>2, <2>4, <2>5, <1>1, <1>2, <1>3, <1>4 DEF IInv, FlowInv
  <2>8. StageInv'
    BY <1>6, <2>2, <2>4, <2>5, <1>1, <1>2, <1>3, <1>4 DEF IInv, StageInv, Unstaged, Whole
  <2>9. TempsInv'
    BY <1>6, <2>2, <2>4, <2>5, <1>1, <1>2, <1>3, <1>4 DEF IInv, TempsInv, Swept
  <2>10. SelectInv'
    BY <1>6, <2>2, <2>4, <2>5, <1>1, <1>2, <1>3, <1>4 DEF IInv, SelectInv, CurrentWhole,
       Whole, Target
  <2>11. IntentInv'
    BY <1>6, <2>2, <2>4, <2>5, <1>1, <1>2, <1>3, <1>4 DEF IInv, IntentInv, Own, NoDuty,
       Landed
  <2>12. KeptInv'
    <3>1. Retained' = Retained /\ Bare' = Bare /\ (\A d : Stored(d)' <=> Stored(d)) /\ (Landed' <=> Landed)
      BY <2>4, <2>5 DEF Retained, Bare, Stored, Landed
    <3>2. AssetsKeptUnlessForfeited'
      <4>1. \A i \in Ids : i # proc.id /\ Whole(i) => Whole(i)'
        BY <2>5, <1>3, <1>6 DEF Whole
      <4>2. Landed /\ dist.intent.prior # None => dist.intent.prior \in Ids /\ dist.intent.prior # proc.id
        BY <1>4, <1>6, IdFacts DEF IInv, IntentInv, Landed
      <4> QED
        BY <3>1, <4>1, <4>2, <2>4, <2>5 DEF IInv, KeptInv, AssetsKeptUnlessForfeited, Due,
           Servable, Stored
    <3> QED
      BY <3>1, <3>2, <2>2, <2>4, <2>5, <1>6, <1>2 DEF IInv, KeptInv
  <2>13. LeaseInv'
    BY <1>6, <2>2, <2>4, <2>5, <1>1, <1>2, <1>3, <1>4 DEF IInv, LeaseInv
  <2> QED
    BY <2>6, <2>7, <2>8, <2>9, <2>10, <2>11, <2>12, <2>13 DEF IInv
<1>7. CASE Unlink /\ At("rmdir")
  <2>1. Goto("discard")
    BY <1>7 DEF Unlink, KeepRest
  <2>2. /\ proc' \in Proc /\ proc'.pc = "discard" /\ proc'.phase = proc.phase
        /\ proc'.snap = proc.snap
        /\ proc'.id = proc.id /\ proc'.prior = proc.prior /\ proc'.doomed = proc.doomed
    BY <2>1, <1>7, <1>1, <1>2, <1>3, <1>4, GotoFacts DEF Steps
  <2>3. dist' = [dist EXCEPT !.gens = [@ EXCEPT ![proc.id] = "absent"]]
    BY <1>7 DEF Unlink, KeepRest
  <2>4. owed' = owed /\ forfeited' = forfeited /\ lease' = lease
    BY <1>7 DEF Unlink, KeepRest
  <2>5. /\ dist' \in Dist
        /\ dist'.gens = [dist.gens EXCEPT ![proc.id] = "absent"]
        /\ dist'.pending = dist.pending /\ dist'.stage = dist.stage
        /\ dist'.current = dist.current
        /\ dist'.intent = dist.intent /\ dist'.ledger = dist.ledger
        /\ dist'.durable = dist.durable /\ dist'.temps = dist.temps
    BY <2>3, <1>7, <2>2, <2>4, <1>1, <1>2, <1>3, <1>4, IdFacts DEF Dist, Temps
  <2>6. TypeOK'
    BY <1>7, <2>2, <2>4, <2>5, <1>1, <1>2, <1>3, <1>4 DEF IInv, TypeOK
  <2>7. FlowInv'
    BY <1>7, <2>2, <2>4, <2>5, <1>1, <1>2, <1>3, <1>4 DEF IInv, FlowInv
  <2>8. StageInv'
    BY <1>7, <2>2, <2>4, <2>5, <1>1, <1>2, <1>3, <1>4 DEF IInv, StageInv, Unstaged, Whole
  <2>9. TempsInv'
    BY <1>7, <2>2, <2>4, <2>5, <1>1, <1>2, <1>3, <1>4 DEF IInv, TempsInv, Swept
  <2>10. SelectInv'
    BY <1>7, <2>2, <2>4, <2>5, <1>1, <1>2, <1>3, <1>4 DEF IInv, SelectInv, CurrentWhole,
       Whole, Target
  <2>11. IntentInv'
    BY <1>7, <2>2, <2>4, <2>5, <1>1, <1>2, <1>3, <1>4 DEF IInv, IntentInv, Own, NoDuty,
       Landed
  <2>12. KeptInv'
    <3>1. Retained' = Retained /\ Bare' = Bare /\ (\A d : Stored(d)' <=> Stored(d)) /\ (Landed' <=> Landed)
      BY <2>4, <2>5 DEF Retained, Bare, Stored, Landed
    <3>2. AssetsKeptUnlessForfeited'
      <4>1. \A i \in Ids : i # proc.id /\ Whole(i) => Whole(i)'
        BY <2>5, <1>3, <1>7 DEF Whole
      <4>2. Landed /\ dist.intent.prior # None => dist.intent.prior \in Ids /\ dist.intent.prior # proc.id
        BY <1>4, <1>7, IdFacts DEF IInv, IntentInv, Landed
      <4> QED
        BY <3>1, <4>1, <4>2, <2>4, <2>5 DEF IInv, KeptInv, AssetsKeptUnlessForfeited, Due,
           Servable, Stored
    <3> QED
      BY <3>1, <3>2, <2>2, <2>4, <2>5, <1>7, <1>2 DEF IInv, KeptInv
  <2>13. LeaseInv'
    BY <1>7, <2>2, <2>4, <2>5, <1>1, <1>2, <1>3, <1>4 DEF IInv, LeaseInv
  <2> QED
    BY <2>6, <2>7, <2>8, <2>9, <2>10, <2>11, <2>12, <2>13 DEF IInv
<1> QED
  BY <1>5, <1>6, <1>7 DEF Unlink

\* Clean unselects first, then forgets what is owed, and spares what is leased.
LEMMA CleanInv ==
    ASSUME IInv, PreflightClean \/ Clean
    PROVE  IInv'
<1> USE DEF At, AtAny, Phase, RecoverSteps, StageSteps, IntendSteps, SelectSteps, ApplySteps,
            DeleteSteps, CleanSteps, Unlinking
<1>1. dist \in Dist /\ proc \in Proc
  BY DEF IInv, TypeOK
<1>2. AtAny(DeleteSteps \cup CleanSteps) =>
        /\ proc.phase \in {"cleanup", "clean"} /\ proc.snap \in Inputs
        /\ (AtAny(CleanSteps) => proc.phase = "clean" /\ dist.stage = "absent")
        /\ (proc.phase = "clean" => ~Landed)
        /\ (proc.phase = "clean" /\ AtAny(DeleteSteps) => dist.current = None)
  BY <1>1 DEF IInv, FlowInv, IntentInv, Landed, SelectInv, StageInv, Unstaged, Proc
<1>3. /\ dist.gens \in [Ids -> {"absent", "whole", "broken", "husk"}]
      /\ dist.current \in Ids \cup {None} /\ proc.doomed \in SUBSET Ids /\ None \notin Ids
      /\ dist.intent # None => dist.intent.current # None
  BY <1>1, DistFacts, IdFacts DEF Proc, IInv, IntentInv
<1>4. CASE PreflightClean /\ Refused
  BY <1>4, RefusedInv DEF PreflightClean, KeepDist, TakenBack
<1>5. CASE PreflightClean /\ At("preflightClean")
           /\ proc' = [proc EXCEPT !.pc = "unpublishClean",
                                   !.doomed = {i \in Ids : dist.gens[i] # "absent" /\ \A c \in Children : lease[c] # i}]
  <2>1. /\ proc' \in Proc /\ proc'.pc = "unpublishClean" /\ proc'.phase = proc.phase
        /\ proc'.snap = proc.snap
        /\ proc'.id = proc.id /\ proc'.prior = proc.prior
        /\ proc'.doomed = {i \in Ids : dist.gens[i] # "absent" /\ \A c \in Children : lease[c] # i}
    BY <1>5, <1>1 DEF Proc, Steps
  <2>2. dist' = dist /\ owed' = owed /\ forfeited' = forfeited /\ lease' = lease
    BY <1>5 DEF PreflightClean, KeepDist
  <2>3. TypeOK'
    BY <1>5, <2>1, <2>2, <1>1, <1>2, <1>3 DEF IInv, TypeOK
  <2>4. FlowInv'
    BY <1>5, <2>1, <2>2, <1>1, <1>2, <1>3 DEF IInv, FlowInv
  <2>5. StageInv'
    BY <1>5, <2>1, <2>2, <1>1, <1>2, <1>3 DEF IInv, StageInv, Unstaged, Whole
  <2>6. TempsInv'
    BY <1>5, <2>1, <2>2, <1>1, <1>2, <1>3 DEF IInv, TempsInv, Swept
  <2>7. SelectInv'
    BY <1>5, <2>1, <2>2, <1>1, <1>2, <1>3 DEF IInv, SelectInv, CurrentWhole, Whole, Target
  <2>8. IntentInv'
    BY <1>5, <2>1, <2>2, <1>1, <1>2, <1>3 DEF IInv, IntentInv, Own, NoDuty, Landed
  <2>9. KeptInv'
    BY <1>5, <2>1, <2>2, <1>1, <1>2, <1>3 DEF IInv, KeptInv, AssetsKeptUnlessForfeited,
       Due, Servable, Landed, Stored, Retained, Bare, Added, Whole
  <2>10. LeaseInv'
    BY <1>5, <2>1, <2>2, <1>1, <1>2, <1>3 DEF IInv, LeaseInv
  <2> QED
    BY <2>3, <2>4, <2>5, <2>6, <2>7, <2>8, <2>9, <2>10 DEF IInv
<1>6. CASE Clean /\ At("unpublishClean")
  <2>1. Goto("sweepClean")
    BY <1>6 DEF Clean, KeepRest
  <2>2. /\ proc' \in Proc /\ proc'.pc = "sweepClean" /\ proc'.phase = proc.phase
        /\ proc'.snap = proc.snap
        /\ proc'.id = proc.id /\ proc'.prior = proc.prior /\ proc'.doomed = proc.doomed
    BY <2>1, <1>6, <1>1, <1>2, <1>3, GotoFacts DEF Steps
  <2>3. dist' = [dist EXCEPT !.current = None]
    BY <1>6 DEF Clean, KeepRest
  <2>4. owed' = {} /\ forfeited' = forfeited /\ lease' = lease
    BY <1>6 DEF Clean, KeepRest
  <2>5. /\ dist' \in Dist
        /\ dist'.gens = dist.gens /\ dist'.pending = dist.pending
        /\ dist'.stage = dist.stage /\ dist'.current = None
        /\ dist'.intent = dist.intent /\ dist'.ledger = dist.ledger
        /\ dist'.durable = dist.durable /\ dist'.temps = dist.temps
    BY <2>3, <1>6, <2>2, <2>4, <1>1, <1>2, <1>3, IdFacts DEF Dist, Temps
  <2>6. TypeOK'
    BY <1>6, <2>2, <2>4, <2>5, <1>1, <1>2, <1>3 DEF IInv, TypeOK
  <2>7. FlowInv'
    BY <1>6, <2>2, <2>4, <2>5, <1>1, <1>2, <1>3 DEF IInv, FlowInv
  <2>8. StageInv'
    BY <1>6, <2>2, <2>4, <2>5, <1>1, <1>2, <1>3 DEF IInv, StageInv, Unstaged, Whole
  <2>9. TempsInv'
    BY <1>6, <2>2, <2>4, <2>5, <1>1, <1>2, <1>3 DEF IInv, TempsInv, Swept
  <2>10. SelectInv'
    BY <1>6, <2>2, <2>4, <2>5, <1>1, <1>2, <1>3 DEF IInv, SelectInv, CurrentWhole, Whole,
       Target
  <2>11. IntentInv'
    BY <1>6, <2>2, <2>4, <2>5, <1>1, <1>2, <1>3 DEF IInv, IntentInv, Own, NoDuty, Landed
  <2>12. KeptInv'
    BY <1>6, <2>2, <2>4, <2>5, <1>1, <1>2, <1>3 DEF IInv, KeptInv,
       AssetsKeptUnlessForfeited, Due, Servable, Landed, Stored, Retained, Bare, Added,
       Whole
  <2>13. LeaseInv'
    BY <1>6, <2>2, <2>4, <2>5, <1>1, <1>2, <1>3 DEF IInv, LeaseInv
  <2> QED
    BY <2>6, <2>7, <2>8, <2>9, <2>10, <2>11, <2>12, <2>13 DEF IInv
<1>7. CASE Clean /\ At("sweepClean")
  <2>1. Goto("resetClean")
    BY <1>7 DEF Clean, KeepRest
  <2>2. /\ proc' \in Proc /\ proc'.pc = "resetClean" /\ proc'.phase = proc.phase
        /\ proc'.snap = proc.snap
        /\ proc'.id = proc.id /\ proc'.prior = proc.prior /\ proc'.doomed = proc.doomed
    BY <2>1, <1>7, <1>1, <1>2, <1>3, GotoFacts DEF Steps
  <2>3. dist' = [dist EXCEPT !.durable = {}]
    BY <1>7 DEF Clean, KeepRest
  <2>4. owed' = owed /\ forfeited' = forfeited /\ lease' = lease
    BY <1>7 DEF Clean, KeepRest
  <2>5. /\ dist' \in Dist
        /\ dist'.gens = dist.gens /\ dist'.pending = dist.pending
        /\ dist'.stage = dist.stage /\ dist'.current = dist.current
        /\ dist'.intent = dist.intent /\ dist'.ledger = dist.ledger /\ dist'.durable = {}
        /\ dist'.temps = dist.temps
    BY <2>3, <1>7, <2>2, <2>4, <1>1, <1>2, <1>3, IdFacts DEF Dist, Temps
  <2>6. TypeOK'
    BY <1>7, <2>2, <2>4, <2>5, <1>1, <1>2, <1>3 DEF IInv, TypeOK
  <2>7. FlowInv'
    BY <1>7, <2>2, <2>4, <2>5, <1>1, <1>2, <1>3 DEF IInv, FlowInv
  <2>8. StageInv'
    BY <1>7, <2>2, <2>4, <2>5, <1>1, <1>2, <1>3 DEF IInv, StageInv, Unstaged, Whole
  <2>9. TempsInv'
    BY <1>7, <2>2, <2>4, <2>5, <1>1, <1>2, <1>3 DEF IInv, TempsInv, Swept
  <2>10. SelectInv'
    BY <1>7, <2>2, <2>4, <2>5, <1>1, <1>2, <1>3 DEF IInv, SelectInv, CurrentWhole, Whole,
       Target
  <2>11. IntentInv'
    BY <1>7, <2>2, <2>4, <2>5, <1>1, <1>2, <1>3 DEF IInv, IntentInv, Own, NoDuty, Landed
  <2>12. KeptInv'
    <3>1. owed' = {} /\ dist'.current = None /\ ~Landed'
      BY <1>2, <1>3, <1>7, <2>4, <2>5 DEF IInv, KeptInv, SelectInv, Landed
    <3> QED
      BY <3>1, <2>2, <1>2, <1>7 DEF KeptInv, AssetsKeptUnlessForfeited, Due, Servable,
         Landed
  <2>13. LeaseInv'
    BY <1>7, <2>2, <2>4, <2>5, <1>1, <1>2, <1>3 DEF IInv, LeaseInv
  <2> QED
    BY <2>6, <2>7, <2>8, <2>9, <2>10, <2>11, <2>12, <2>13 DEF IInv
<1>8. CASE Clean /\ At("resetClean")
  <2>1. Goto("discard")
    BY <1>8 DEF Clean, KeepRest
  <2>2. /\ proc' \in Proc /\ proc'.pc = "discard" /\ proc'.phase = proc.phase
        /\ proc'.snap = proc.snap
        /\ proc'.id = proc.id /\ proc'.prior = proc.prior /\ proc'.doomed = proc.doomed
    BY <2>1, <1>8, <1>1, <1>2, <1>3, GotoFacts DEF Steps
  <2>3. dist' = [dist EXCEPT !.ledger = None, !.intent = None]
    BY <1>8 DEF Clean, KeepRest
  <2>4. owed' = owed /\ forfeited' = forfeited /\ lease' = lease
    BY <1>8 DEF Clean, KeepRest
  <2>5. /\ dist' \in Dist
        /\ dist'.gens = dist.gens /\ dist'.pending = dist.pending
        /\ dist'.stage = dist.stage /\ dist'.current = dist.current
        /\ dist'.intent = None /\ dist'.ledger = None /\ dist'.durable = dist.durable
        /\ dist'.temps = dist.temps
    BY <2>3, <1>8, <2>2, <2>4, <1>1, <1>2, <1>3, IdFacts DEF Dist, Temps
  <2>6. TypeOK'
    BY <1>8, <2>2, <2>4, <2>5, <1>1, <1>2, <1>3 DEF IInv, TypeOK
  <2>7. FlowInv'
    BY <1>8, <2>2, <2>4, <2>5, <1>1, <1>2, <1>3 DEF IInv, FlowInv
  <2>8. StageInv'
    BY <1>8, <2>2, <2>4, <2>5, <1>1, <1>2, <1>3 DEF IInv, StageInv, Unstaged, Whole
  <2>9. TempsInv'
    BY <1>8, <2>2, <2>4, <2>5, <1>1, <1>2, <1>3 DEF IInv, TempsInv, Swept
  <2>10. SelectInv'
    BY <1>8, <2>2, <2>4, <2>5, <1>1, <1>2, <1>3 DEF IInv, SelectInv, CurrentWhole, Whole,
       Target
  <2>11. IntentInv'
    BY <1>8, <2>2, <2>4, <2>5, <1>1, <1>2, <1>3 DEF IInv, IntentInv, Own, NoDuty, Landed
  <2>12. KeptInv'
    BY <1>8, <2>2, <2>4, <2>5, <1>1, <1>2, <1>3 DEF IInv, KeptInv,
       AssetsKeptUnlessForfeited, Due, Servable, Landed, Stored, Retained, Bare, Added,
       Whole
  <2>13. LeaseInv'
    BY <1>8, <2>2, <2>4, <2>5, <1>1, <1>2, <1>3 DEF IInv, LeaseInv
  <2> QED
    BY <2>6, <2>7, <2>8, <2>9, <2>10, <2>11, <2>12, <2>13 DEF IInv
<1>9. CASE PreflightClean /\ ~Refused
  <2>1. proc' = [proc EXCEPT !.pc = "unpublishClean",
                   !.doomed = {i \in {j \in Ids : dist.gens[j] # "absent"} :
                                 \A c \in Children : lease[c] # i}]
    BY <1>9 DEF PreflightClean
  <2>2. {i \in {j \in Ids : dist.gens[j] # "absent"} : \A c \in Children : lease[c] # i}
        = {i \in Ids : dist.gens[i] # "absent" /\ \A c \in Children : lease[c] # i}
    OBVIOUS
  <2> QED
    BY <2>1, <2>2, <1>5, <1>9 DEF PreflightClean
<1> QED
  BY <1>4, <1>6, <1>7, <1>8, <1>9 DEF Clean

-----------------------------------------------------------------------------
\* Every step keeps the invariant.
LEMMA NextInv == IInv /\ [Next]_vars => IInv'
<1> SUFFICES ASSUME IInv, [Next]_vars PROVE IInv'
  OBVIOUS
<1>1. CASE UNCHANGED vars
  <2>1. /\ UNCHANGED <<dist, proc, forfeited>> /\ owed' \subseteq owed
        /\ lease' \in [Children -> Ids \cup {None}]
        /\ \A c \in Children : lease'[c] \in {lease[c], None}
    BY <1>1 DEF vars, IInv, TypeOK
  <2> QED
    BY <2>1, ApartInv
<1>2. CASE RecoverFresh \/ RecoverStage \/ RecoverTemps \/ RecoverAssets
  BY <1>2, RecoverStageInv, RecoverAssetsInv
<1>3. CASE StageLookup \/ StageReserve \/ StageFill \/ StagePlace
  BY <1>3, LookupInv, StageStepsInv
<1>4. CASE \E c \in Children : Verify(c) \/ Acquire(c)
  BY <1>4, VerifyInv, AcquireInv
<1>5. CASE \E passed \in BOOLEAN : Verdict(passed)
  BY <1>5, VerdictInv
<1>6. CASE Intend \/ Preflight \/ Select \/ Switch \/ Switched \/ Abandon \/ Unpublish
  BY <1>6, IntendInv, SelectStepInv, SwitchInv, SwitchedInv, AbandonInv, UnpublishInv
<1>7. CASE Retain \/ Account \/ Sweep \/ Settled
  BY <1>7, RetainInv, AccountInv, SettleInv
<1>8. CASE NextDoomed \/ Unlink \/ PreflightClean \/ Clean
  BY <1>8, NextDoomedInv, UnlinkInv, CleanInv
<1>9. CASE \E kind \in {"build", "run", "assert", "clean"}, i \in Inputs : Begin(kind, i)
  BY <1>9, BeginInv
<1>10. CASE Edit \/ (\E c \in Children : Exit(c)) \/ Crash \/ Fault \/ FaultIgnored \/ Elapse
  BY <1>10, WorldInv
<1> QED
  BY <1>1, <1>2, <1>3, <1>4, <1>5, <1>6, <1>7, <1>8, <1>9, <1>10 DEF Next, Step

\* The invariant holds in every state.
LEMMA AlwaysInv == Spec => []IInv
  BY InitInv, NextInv, PTL DEF Spec

\* Only placing a stage and deleting a generation touch the files of generations.
LEMMA GensFrame ==
    ASSUME IInv, [Next]_vars, ~StagePlace, ~Unlink
    PROVE  dist'.gens = dist.gens
<1>1. dist \in Dist
  BY DEF IInv, TypeOK
<1> USE <1>1 DEF Dist
<1>2. CASE RecoverFresh \/ RecoverStage \/ RecoverTemps \/ RecoverAssets
  BY <1>2 DEF RecoverFresh, RecoverStage, RecoverTemps, RecoverAssets, KeepDist
<1>3. ASSUME NEW temp, NEW next, WriteTemp(temp, next) PROVE dist'.gens = dist.gens
  BY <1>3 DEF WriteTemp
<1>4. CASE StageLookup \/ StageReserve \/ StageFill
  BY <1>4, <1>3 DEF StageLookup, StageReserve, StageFill, KeepDist
<1>5. CASE \E c \in Children : Verify(c) \/ Acquire(c)
  BY <1>5 DEF Verify, Acquire
<1>6. CASE \E passed \in BOOLEAN : Verdict(passed)
  BY <1>6 DEF Verdict
<1>7. CASE Intend
  <2>1. CASE At("intend")
    BY <1>7, <2>1, <1>3 DEF Intend, At, KeepDist
  <2>2. CASE At("intended")
    BY <1>7, <2>2 DEF Intend, At
  <2> QED
    BY <1>7, <2>1, <2>2 DEF Intend
<1>8. CASE Select
  BY <1>8, <1>3 DEF Select, KeepDist
<1>9. CASE Preflight \/ Switch \/ Switched \/ Abandon \/ Unpublish
  BY <1>9 DEF Preflight, Switch, Switched, Abandon, Unpublish, KeepDist
<1>10. CASE Retain \/ Sweep \/ Settled
  BY <1>10 DEF Retain, Sweep, Settled
<1>11. CASE Account
  BY <1>11, <1>3 DEF Account
<1>12. CASE NextDoomed \/ PreflightClean
  BY <1>12 DEF NextDoomed, PreflightClean, KeepDist
<1>13. CASE Clean
  BY <1>13 DEF Clean
<1>14. CASE \E kind \in {"build", "run", "assert", "clean"}, i \in Inputs : Begin(kind, i)
  BY <1>14 DEF Begin
<1>15. CASE Edit \/ (\E c \in Children : Exit(c)) \/ Crash \/ Fault \/ FaultIgnored \/ Elapse
  BY <1>15 DEF Edit, Exit, Crash, Fault, FaultIgnored, Elapse
<1>16. CASE UNCHANGED vars
  BY <1>16 DEF vars
<1> QED
  BY <1>2, <1>4, <1>5, <1>6, <1>7, <1>8, <1>9, <1>10, <1>11, <1>12, <1>13, <1>14, <1>15,
     <1>16
     DEF Next, Step

-----------------------------------------------------------------------------
\* In every state, after any crash, I/O error or edit, current.json names a generation
\* all of whose files are there (SelectCurrent, deleteOutputTree).
THEOREM CurrentAlwaysWhole == Spec => []CurrentWhole
<1>1. IInv => CurrentWhole
  BY DEF IInv, SelectInv
<1> QED
  BY <1>1, AlwaysInv, PTL

\* A digest that a publication replaced stays servable for its seven days, through any
\* number of deaths and I/O errors of publications, recoveries and cleans, unless an error
\* between the switch of current.json and the removal of the intent gave it up
\* (selectCurrentWithAssets, recoverPendingAssets, applyPendingAssets).
THEOREM ReplacedAssetsKept == Spec => []AssetsKeptUnlessForfeited
<1>1. IInv => AssetsKeptUnlessForfeited
  BY DEF IInv, KeptInv
<1> QED
  BY <1>1, AlwaysInv, PTL

\* What an interrupted Stage or metadata write leaves is found by Recover: a stage has its
\* reservation, and a temporary is gone before the same metadata is written again (Recover,
\* Stage, atomicMetadata).
THEOREM LitterAlwaysRecovered == Spec => []LitterRecovered
<1>1. IInv => LitterRecovered
  <2> SUFFICES ASSUME IInv PROVE LitterRecovered
    OBVIOUS
  <2>1. dist.stage # "absent" => dist.pending # None /\ ~Whole(dist.pending)
    BY DEF IInv, StageInv
  <2>2. At("reserve") \/ At("intend") \/ At("account") => dist.temps = {}
    BY DEF IInv, TempsInv, Swept, At, AtAny
  <2>3. At("select") => ".current.tmp" \notin dist.temps
    <3>1. At("select") => proc.phase \in {"publish", "restore"}
      BY DEF IInv, TypeOK, Proc, FlowInv, Phase, AtAny, At, RecoverSteps, ApplySteps,
             StageSteps, DeleteSteps, CleanSteps
    <3> QED
      BY <3>1 DEF IInv, TempsInv, Phase, AtAny, At
  <2> QED
    BY <2>1, <2>2, <2>3 DEF LitterRecovered
<1> QED
  BY <1>1, AlwaysInv, PTL

\* Clean never deletes a file of a generation that a running program leases (prune takes
\* the exclusive lock of every generation it will delete).
THEOREM CleanNeverTouchesLeased == Spec => CleanSparesLeases
<1>1. ASSUME IInv, [Next]_vars, NEW c \in Children,
             lease[c] # None, proc.phase = "clean", Whole(lease[c])
      PROVE  dist'.gens[lease[c]] = "whole"
  <2>1. dist \in Dist /\ lease[c] \in Ids
    BY <1>1 DEF IInv, TypeOK
  <2>2. ~StagePlace
    BY <1>1 DEF IInv, FlowInv, Phase, AtAny, StagePlace, At, RecoverSteps, ApplySteps,
                CleanSteps, DeleteSteps
  <2>3. CASE Unlink
    <3>1. AtAny(Unlinking) /\ AtAny(DeleteSteps) /\ Phase({"clean"})
      BY <2>3, <1>1 DEF Unlink, At, AtAny, Unlinking, DeleteSteps, Phase
    <3>2. lease[c] # proc.id
      BY <3>1, <1>1 DEF IInv, LeaseInv, AtAny
    <3>3. \E v : dist' = [dist EXCEPT !.gens[proc.id] = v]
      BY <2>3 DEF Unlink
    <3>4. PICK v : dist' = [dist EXCEPT !.gens[proc.id] = v]
      BY <3>3
    <3>5. dist'.gens = [dist.gens EXCEPT ![proc.id] = v]
      BY <3>4, <2>1 DEF Dist
    <3> QED
      BY <3>2, <3>5, <2>1, <1>1, DistFacts DEF Whole
  <2>4. CASE ~Unlink
    BY <2>2, <2>4, <1>1, GensFrame DEF Whole
  <2> QED
    BY <2>3, <2>4
<1>2. IInv /\ [Next]_vars =>
        [\A c \in Children :
           lease[c] # None /\ proc.phase = "clean" /\ Whole(lease[c])
             => dist'.gens[lease[c]] = "whole"]_vars
  BY <1>1
<1> QED
  BY <1>2, AlwaysInv, PTL DEF Spec, CleanSparesLeases
=============================================================================
