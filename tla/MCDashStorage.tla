--------------------------- MODULE MCDashStorage ---------------------------
(***************************************************************************)
(* Two storages and two models cloned from one bucket: the one is synced   *)
(* by rules both ways under the name of the bucket, the other follows the  *)
(* bucket under its own name and is pushed back when it is deleted.        *)
(***************************************************************************)
EXTENDS DashStorage

CONSTANTS here, there, i1

Twin == [name |-> "m", from |-> "m", pull |-> "Always", push |-> "Always", policy |-> "Delete"]
Copy == [name |-> "c", from |-> "m", pull |-> "Always", push |-> "OnDelete", policy |-> "Delete"]
Once == [name |-> "o", from |-> "m", pull |-> "OnCreate", push |-> "OnDelete", policy |-> "Delete"]
Bindings == {Twin, Copy, Once}
AllKinds == {[s \in Storage |-> IF s = Source THEN "Borrowed" ELSE "Owned"],
             [s \in Storage |-> IF s = Source THEN "Owned" ELSE "Cloned"]}
=============================================================================
