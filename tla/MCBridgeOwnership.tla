------------------------- MODULE MCBridgeOwnership -------------------------
(***************************************************************************)
(* Two sessions: of one process, of two instances, or of a process and the *)
(* one that restarts its instance.                                         *)
(***************************************************************************)
EXTENDS BridgeOwnership, TLC

CONSTANTS A, B

MCProcs == {"a1", "a2", "b1"}
MCInstanceOf == [p \in MCProcs |-> IF p = "b1" THEN "B" ELSE "A"]
MCFirstProcs == [d \in Databases |-> IF d = "sqlite" THEN {"a1"} ELSE {"a1", "b1"}]
MCSessions == {"s1", "s2"}
MCHomes == {[s \in MCSessions |-> IF s = "s1" THEN "a1" ELSE p] : p \in MCProcs}
Symmetry == Permutations({A, B})
=============================================================================
