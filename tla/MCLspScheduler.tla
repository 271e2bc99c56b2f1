---------------------------- MODULE MCLspScheduler ----------------------------
(* Two documents of one project, an untitled buffer, two requests.         *)
EXTENDS LspScheduler, TLC

CONSTANTS a, b, u

ProjectAndScratch == (a :> 1) @@ (b :> 1) @@ (u :> 2)
=============================================================================
