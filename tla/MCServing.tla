------------------------------ MODULE MCServing ------------------------------
(* Serving with a request that upgrades, or with one that runs operations  *)
(* beside a plain one.                                                     *)
EXTENDS Serving

CONSTANTS r1, r2

TwoMixes == {(r1 :> "upgrade") @@ (r2 :> "none"), (r1 :> "operate") @@ (r2 :> "plain")}
=============================================================================
