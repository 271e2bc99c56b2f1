----------------------------- MODULE MCSqlLedger -----------------------------
(* Small instances of SqlLedger for TLC.                                   *)
EXTENDS SqlLedger, TLC

CONSTANTS c1, c2, c3, h1, h2

\* Two callers share a store, a third has its own.
Shared == (c1 :> h1) @@ (c2 :> h1) @@ (c3 :> h2)
=============================================================================
