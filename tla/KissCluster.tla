---------------------------- MODULE KissCluster ----------------------------
(***************************************************************************)
(* What an Ansible job learns about the cluster it is about to join        *)
(* (crates/kiss/ansible/src/cluster.rs), as operators over the boxes the   *)
(* API server lists.  A view is a function from the listed boxes to        *)
(* [group, state]; a box without a status counts as "New", which is        *)
(* neither ready nor running, exactly as from_box reads it.                *)
(*                                                                         *)
(* ClusterBoxGroup is a BTreeMap whose key starts with the creation time   *)
(* and the host name, so its order is the order the boxes were created in: *)
(* the constant Rank.                                                      *)
(***************************************************************************)
EXTENDS Naturals

CONSTANTS
    Box,          \* the machines, by uuid
    Rank          \* Rank[b]: the place of b in the order of creation

ASSUME RankAssumption ==
    /\ Rank \in [Box -> Nat]
    /\ \A a, b \in Box : Rank[a] = Rank[b] => a = b

DefaultCluster == "default"
ControlPlane   == "ControlPlane"

IsReady(state)   == state \in {"Ready", "Running"}
IsRunning(state) == state = "Running"

(* ClusterBoxGroup::load_control_planes *)
ControlPlanes(view, cluster) ==
    {b \in DOMAIN view : /\ view[b].group.cluster = cluster
                         /\ view[b].group.role = ControlPlane}

RunningOf(view, boxes) == {b \in boxes : IsRunning(view[b].state)}

(* Mutant: a control plane that only waits for its turn does not count. *)
ControlPlaneAllRunning(view, cluster) ==
    \A b \in ControlPlanes(view, cluster) : IsRunning(view[b].state)

(* ClusterState::is_control_plane_ready *)
ControlPlaneReady(view, cluster) ==
    \A b \in ControlPlanes(view, cluster) : IsReady(view[b].state)

(* ClusterState::is_control_plane_running *)
ControlPlaneRunning(view, cluster) ==
    LET cps == ControlPlanes(view, cluster) IN
    /\ RunningOf(view, cps) = {} => cluster = DefaultCluster
    /\ RunningOf(view, cps) = cps

(* ClusterBoxGroup::is_next: the oldest control plane that is not running. *)
IsNext(view, cluster, owner) ==
    LET waiting == {b \in ControlPlanes(view, cluster) : ~IsRunning(view[b].state)} IN
    /\ owner \in waiting
    /\ \A b \in waiting : Rank[owner] <= Rank[b]

(* Mutant: nobody waits for the older control planes. *)
IsJoinableAnyOrder(view, cluster, owner) ==
    IF owner \in ControlPlanes(view, cluster)
    THEN ControlPlaneReady(view, cluster)
    ELSE ControlPlaneRunning(view, cluster)

(* ClusterState::is_joinable.  The cluster is the one in the owner's (maybe
   stale) object; whether the owner is a control plane is read off the list. *)
IsJoinable(view, cluster, owner) ==
    IF owner \in ControlPlanes(view, cluster)
    THEN /\ ControlPlaneReady(view, cluster)
         /\ IsNext(view, cluster, owner)
    ELSE ControlPlaneRunning(view, cluster)

(* Mutant: every control plane founds its cluster. *)
IsNewAlways(view, cluster, owner) == owner \in ControlPlanes(view, cluster)

(* ClusterState::is_new: the owner would be the first control plane. *)
IsNew(view, cluster, owner) ==
    /\ owner \in ControlPlanes(view, cluster)
    /\ RunningOf(view, ControlPlanes(view, cluster)) = {}

=============================================================================
