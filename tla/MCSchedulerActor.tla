-------------------------- MODULE MCSchedulerActor --------------------------
(* Two rows and four requests: r1 asks for no token and ends with its first, *)
(* r2 takes two prompt chunks and three tokens and only joins an empty       *)
(* batch, r3 may be refused, and the grammar session of r4 may not start.    *)
EXTENDS SchedulerActor, TLC

CONSTANTS r1, r2, r3, r4

MCMaxNew == (r1 :> 0) @@ (r2 :> 3) @@ (r3 :> 2) @@ (r4 :> 2)
MCChunks == (r1 :> 1) @@ (r2 :> 2) @@ (r3 :> 1) @@ (r4 :> 1)
MCBatchLimit == (r1 :> 2) @@ (r2 :> 1) @@ (r3 :> 2) @@ (r4 :> 2)
=============================================================================
