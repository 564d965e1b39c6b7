-------------------------- MODULE MCKissInventory --------------------------
(***************************************************************************)
(* An instance of KissInventory: two boxes whose uuids are in the opposite *)
(* order of their creation.                                                *)
(***************************************************************************)
EXTENDS KissInventory

CONSTANTS b1, b2

CP(c) == [cluster |-> c, role |-> ControlPlane]
OneCluster  == {DefaultGroup, CP("ops")}

Created  == [b \in Box |-> IF b = b1 THEN 0 ELSE 1]
Reversed == [b \in Box |-> IF b = b1 THEN 1 ELSE 0]

Never == [f \in Fault |-> 0]

Symmetry == Permutations(Request)
=============================================================================
