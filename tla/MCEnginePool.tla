---------------------------- MODULE MCEnginePool ----------------------------
(* Model values for EnginePool: a preloaded model p, two lazy ones a and b.  *)
EXTENDS EnginePool, TLC

CONSTANTS p, a, b, r1, r2, r3, c1, c2

Calls == Permutations({r1, r2, r3})
=============================================================================
