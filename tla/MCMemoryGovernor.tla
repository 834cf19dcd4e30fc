-------------------------- MODULE MCMemoryGovernor --------------------------
(* A ceiling of 100: Soft from 90, Hard from 95, Emergency from 110, recovery
   below 85.  Two threads warm the same components; one prefills as well, the
   other also loads and admits. *)
EXTENDS MemoryGovernor, TLC

CONSTANTS t1, t2

MCKinds == (t1 :> {"cold", "plan"}) @@ (t2 :> {"cold", "vision", "load", "admission"})
MCColdBytes == ("text" :> 20) @@ ("vision" :> 10) @@ ("speculative" :> 0)
MCNeeds == {{"text"}, {"text", "vision"}}

Seen(phys, available, cache) ==
  [phys |-> phys, active |-> 30, available |-> available, metal |-> 100, cache |-> cache]

(* Low; low by itself, but Soft, Hard or Emergency with what is reserved, on a
   machine with little left; no footprint. *)
MCSamples == {Seen(40, 60, 2), Seen(75, 15, 4), Seen(Missing, 60, 2)}
=============================================================================
