-------------------------- MODULE MCPagedScheduler --------------------------
(***************************************************************************)
(* An instance of PagedScheduler: three rows, five pages of three          *)
(* positions, two requests whose prompts share their first block, a third  *)
(* with blocks of its own and no token to generate, and a clone to fork    *)
(* the first one into.  A page of three lets a fork and its source write   *)
(* different tokens into the block they shared; five pages are too few for *)
(* three requests, so an adoption may fail beside a vacated row.           *)
(***************************************************************************)
EXTENDS PagedScheduler

CONSTANTS r1, r2, r3, f1

MCPrompt == r1 :> <<1, 1, 1, 2>> @@ r2 :> <<1, 1, 1, 3, 3, 3, 1>> @@ r3 :> <<2, 2, 2, 3>>
              @@ f1 :> <<1, 1, 1, 2>>
MCMaxNew == r1 :> 4 @@ r2 :> 1 @@ r3 :> 0 @@ f1 :> 3
MCSampled == r1 :> 4 @@ r2 :> 5 @@ r3 :> 6 @@ f1 :> 7
MCPages == 1..5

=============================================================================
