----------------------------- MODULE MCKissBox -----------------------------
(***************************************************************************)
(* Instances of KissBox: one or two boxes, the default cluster and one or  *)
(* two others, and how often the environment may do what it does.          *)
(***************************************************************************)
EXTENDS KissBox, FiniteSets, TLC

CONSTANTS b1, b2

CP(c) == [cluster |-> c, role |-> ControlPlane]

TwoClusters == {DefaultGroup, CP("ops"), CP("edge")}
TwoRoles    == {DefaultGroup, CP("ops"), [cluster |-> "ops", role |-> "GenericWorker"]}

OneBox   == [b \in Box |-> 0]
TwoBoxes == [b \in Box |-> IF b = b1 THEN 0 ELSE 1]

Never == [f \in Fault |-> 0]

Daily == [Never EXCEPT !.abort = 1, !.rash = 3]

(* The run of what goes wrong and what waits: one box alone meets up to three of
   the faults, each once, in any combination and at any time; as soon as there is
   a second box, the two meet none and are moved between the clusters twice.
   Time passes as often as the timeouts of the playbooks ask for it. *)
Each == [f \in Fault |-> CASE f = "regroup" -> 2 [] f = "elapse" -> 0 [] OTHER -> 1]

Present(b) == group[b] # None \/ \E r \in Request : req[r] # None /\ req[r].box = b

Met == {f \in Fault \ {"elapse", "regroup"} : spent[f] > 0}

Bounded ==
    IF Present(b2) THEN Met = {}
    ELSE Cardinality(Met) <= 3 /\ spent["regroup"] <= 1

RecoverySpec ==
    Init /\ [][Next /\ Bounded']_vars /\ ServiceFairness /\ PlaybookFairness
=============================================================================
