---------------------------- MODULE MCOutputStore ----------------------------
(* Two snapshots whose production generations publish one asset each, so    *)
(* that a digest can be replaced, retained and served again.               *)
EXTENDS OutputStore, TLC

CONSTANTS s1, s2, t1, t2, tu, p1, p2, pu, d1, d2

Paired(s) == [source |-> s, paired |-> TRUE]
Plain == [source |-> s1, paired |-> FALSE]
ThreeInputs == {Paired(s1), Paired(s2), Plain}
TestIds == (Paired(s1) :> t1) @@ (Paired(s2) :> t2) @@ (Plain :> tu)
ProdIds == (Paired(s1) :> p1) @@ (Paired(s2) :> p2) @@ (Plain :> pu)
OneAssetEach == [i \in {t1, t2, tu, pu} |-> {}] @@ (p1 :> {d1}) @@ (p2 :> {d2})

Alike == Permutations(Children)
==============================================================================
