------------------------------- MODULE MCOwner -------------------------------
(***************************************************************************)
(* Small instances of Owner for TLC.                                       *)
(***************************************************************************)
EXTENDS Owner

\* A resource the program must close, that may be closed again.
Handle == {[managed |-> FALSE, idempotent |-> TRUE, shutdown |-> TRUE]}

\* A resource its scope closes, that may be closed once by hand.
Managed == {[managed |-> TRUE, idempotent |-> FALSE, shutdown |-> TRUE]}

=============================================================================
