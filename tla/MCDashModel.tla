---------------------------- MODULE MCDashModel ----------------------------
(***************************************************************************)
(* One model, two storages, the binding of the claim and one of an         *)
(* administrator.                                                          *)
(***************************************************************************)
EXTENDS DashModel

CONSTANTS own, b1, s1, s2

Kinds == {[policy |-> "Delete", replace |-> TRUE], [policy |-> "Retain", replace |-> FALSE]}
First == [b \in Admin |-> s1]
=============================================================================
