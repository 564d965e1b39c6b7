--------------------------- MODULE KissInventory ---------------------------
(***************************************************************************)
(* The inventory a join playbook gets (crates/kiss/ansible/src/cluster.rs):*)
(* the control planes and the etcd nodes of the cluster, computed from the *)
(* same list of boxes as the queue, while the boxes live as KissBox says.  *)
(* kubespray takes the first control plane of the inventory for the one    *)
(* that holds the cluster, and the etcd nodes for the members of its RAFT  *)
(* group.                                                                  *)
(***************************************************************************)
EXTENDS KissBox, SequencesExt

CONSTANTS
    Uuid,       \* Uuid[b]: the place of b in the order of machine uuids
    EtcdMax     \* etcd_nodes_max; 0 is no limit

ASSUME InventoryAssumption ==
    /\ Uuid \in [Box -> Nat]
    /\ EtcdMax \in Nat

(* The boxes whose address is known: the others have no host to write down. *)
Host == {b \in Box : AccessIn(Live(b))}

(* ClusterBoxFilter::RunningWith, and the order of ClusterBoxGroup::iter *)
RunningWith(view, cluster, owner) ==
    {b \in ControlPlanes(view, cluster) : IsRunning(view[b].state) \/ b = owner}
ByDate(S) == SetToSortSeq(S, LAMBDA a, b : Rank[a] < Rank[b])
ByUuid(S) == SetToSortSeq(S, LAMBDA a, b : Uuid[a] < Uuid[b])

(* Mutant: the nodes stay in the order of their names or dates. *)
KeepsOrder(view, nodes) == nodes

(* The two sort keys start with !is_running; nodes is sorted by the rest. *)
RunningFirst(view, nodes) ==
    SelectSeq(nodes, LAMBDA b : IsRunning(view[b].state))
        \o SelectSeq(nodes, LAMBDA b : ~IsRunning(view[b].state))

(* get_nodes_as_string *)
Hosts(view, nodes) == SelectSeq(RunningFirst(view, nodes), LAMBDA b : b \in Host)

(* ClusterState::get_control_planes_as_string *)
ControlPlaneNodes(view, cluster, owner) ==
    Hosts(view, ByUuid(RunningWith(view, cluster, owner)))

(* truncate(etcd_nodes_max) *)
Truncated(nodes) ==
    IF EtcdMax > 0 /\ Len(nodes) > EtcdMax THEN SubSeq(nodes, 1, EtcdMax) ELSE nodes

(* The last node of an even number is popped; there may be none. *)
MadeOdd(nodes) ==
    IF Len(nodes) % 2 = 0 /\ nodes # <<>> THEN Front(nodes) ELSE nodes

(* ClusterState::get_etcd_nodes_as_string *)
EtcdNodes(view, cluster, owner) ==
    Hosts(view, MadeOdd(Truncated(ByDate(RunningWith(view, cluster, owner)))))

-----------------------------------------------------------------------------
(* The join of b passes the queue: its Job carries what is listed now. *)
Joins(b) ==
    /\ op[b].pc = "load"   /\ op[b].next = "Joining"
    /\ op'[b].pc = "create"

Inventory(b) == ControlPlaneNodes(View, op[b].data.group.cluster, b)
Etcd(b)      == EtcdNodes(View, op[b].data.group.cluster, b)

(* A control plane that is not told to found its cluster is told to join that very
   cluster: the first of its inventory, where kubespray looks for the cluster, is
   another machine that really is a node of it.  What the list goes by is what
   states say, in whichever order the machines are named and created, while boxes
   boot, leave and come back. *)
JoinsItsCluster ==
    [][\A b \in Box : Joins(b) /\ ~op'[b].isNew =>
          /\ Inventory(b) # <<>>
          /\ LET first == Head(Inventory(b)) IN
             /\ first # b
             /\ node[first] # None /\ node[first].cluster = op[b].data.group.cluster]_vars

(* "Ensure that there are no heterogeneous kubernetes clusters": every other
   control plane that a join is told of is a node of the cluster it joins.  It does
   not hold for boxes that are moved between clusters. *)
NoHeterogeneousClusters ==
    [][\A b \in Box : Joins(b) =>
          \A i \in DOMAIN Inventory(b) :
              LET other == Inventory(b)[i] IN
              other # b => /\ node[other] # None
                           /\ node[other].cluster = op[b].data.group.cluster]_vars

(* The etcd nodes of a cluster that exists include one of its own: "the cluster
   info should be preferred".  It does not hold: the list is cut in the order of
   the uuids, whoever is running. *)
EtcdKeepsCluster ==
    [][\A b \in Box : Joins(b) /\ ~op'[b].isNew =>
          \E i \in DOMAIN Etcd(b) : IsRunning(View[Etcd(b)[i]].state)]_vars
=============================================================================
