-------------------------------- MODULE Fibers --------------------------------
(***************************************************************************)
(* The applications of the plugin over one context root.  A reload is the  *)
(* disposal of one fiber and the application of the next.                  *)
(***************************************************************************)
EXTENDS FiniteSets

CONSTANTS Fiber, NoFiber
ASSUME FiberAssumption == NoFiber \notin Fiber /\ IsFiniteSet(Fiber)

VARIABLE phase   \* of each fiber: "new", "up", "down"

Up == {f \in Fiber : phase[f] = "up"}
NoneApplied == phase = [f \in Fiber |-> "new"]
Applied(f)  == phase[f] = "new" /\ phase' = [phase EXCEPT ![f] = "up"]
Disposed(f) == phase[f] = "up" /\ phase' = [phase EXCEPT ![f] = "down"]
=============================================================================
