---------------------------- MODULE MCKissRaces ----------------------------
(***************************************************************************)
(* An instance of KissRaces: a box that moves between the default cluster, *)
(* two roles of one cluster and another cluster.                           *)
(***************************************************************************)
EXTENDS KissRaces, TLC

CONSTANTS b1

CP(c) == [cluster |-> c, role |-> ControlPlane]

Groups == {DefaultGroup, CP("ops"), [cluster |-> "ops", role |-> "GenericWorker"], CP("edge")}

OneBox == [b \in Box |-> 0]

Overtaken == [f \in Fault |-> IF f \in {"rash", "boot", "abort", "retry", "elapse"} THEN 1 ELSE 0]
=============================================================================
