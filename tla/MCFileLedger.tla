---------------------------- MODULE MCFileLedger ----------------------------
(* Small instances of FileLedger for TLC.                                  *)
EXTENDS FileLedger, TLC

CONSTANTS w1, w2, w3, p1, p2

\* Two transactions of one process and one of another.
TwoAndOne == (w1 :> p1) @@ (w2 :> p1) @@ (w3 :> p2)
Alike == Permutations({w1, w2})
=============================================================================
