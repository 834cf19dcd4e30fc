--------------------------- MODULE MCSchedulerCore ---------------------------
(* A two-row batch and four requests, with limits of no token, two and three *)
(* tokens, and one whose grammar session does not start.                     *)
EXTENDS SchedulerCore, TLC

CONSTANTS r1, r2, r3, r4

MCMaxNew == (r1 :> 0) @@ (r2 :> 2) @@ (r3 :> 3) @@ (r4 :> 2)
=============================================================================
