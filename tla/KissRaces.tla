----------------------------- MODULE KissRaces -----------------------------
(***************************************************************************)
(* What a Running status says of its machine, at any pace: API calls,      *)
(* timeouts, playbooks, boots and edits of a box overtake each other.      *)
(*                                                                         *)
(* Nobody checks a resource version, so a status can be written over one   *)
(* that its writer has not seen.  KissBox's steps are kept, and a history  *)
(* variable notes the boxes where that has happened; of the others, the    *)
(* status can be relied on.                                                *)
(***************************************************************************)
EXTENDS KissBox

VARIABLES
    late,    \* the requests whose box got another status after they had read it
    old,     \* the boxes with a verdict whose Job a spawn has deleted
    blind    \* the boxes whose status was written by who had not seen the last one

raceVars == <<vars, late, old, blind>>

StateOf(b) == StateIn(Live(b))

(* The operator acts on a copy of a status that is another one by now. *)
OperatorBlind(b) ==
    /\ op[b].data.status # status[b]
    /\ CreateJob(b) \/ PatchStatus(b) \/ PatchAlreadyJoined(b)

(* A request answers what it read of a status that is another one by now. *)
GatewayBlind(b) ==
    \E r \in late : req[r] # None /\ req[r].box = b /\ GatewayPatchStatus(r)

(* "Running" is written on a box that is not waiting for a join any more, or for
   another one. *)
MonitorBlind(b) ==
    /\ "Running" \in mon[b] \ mon'[b]
    /\ StateOf(b) # "Joining" \/ b \in old

(* The machine is in no cluster, nothing is bound and nothing is under way: what
   was written blindly is forgotten. *)
Afresh(b) ==
    /\ node[b] = None
    /\ status[b] # None /\ status[b].bind = None /\ status[b].state \in {"New", "Ready"}
    /\ op[b].pc = "idle" /\ job[b] = {} /\ mon[b] = {}
    /\ \A r \in Request : req[r] # None => req[r].box # b

RaceInit == Init /\ late = {} /\ old = {} /\ blind = {}

RaceNext ==
    /\ Next
    /\ late' = {r \in Request : /\ req[r] # None /\ req'[r] # None
                                /\ r \in late \/ status'[req[r].box] # status[req[r].box]}
    /\ old' = {b \in Box : /\ "Running" \in mon'[b]
                           /\ b \in old \/ (DeleteJobs(b) /\ "Running" \in mon[b])}
    /\ blind' = (blind \ {b \in Box : Afresh(b)'})
                \union {b \in Box : OperatorBlind(b) \/ GatewayBlind(b) \/ MonitorBlind(b)}

RaceSpec == RaceInit /\ [][RaceNext]_raceVars

-----------------------------------------------------------------------------
InPlace(b) ==
    /\ BindIn(Live(b)) # None
    /\ node[b] # None /\ node[b].cluster = BindIn(Live(b)).cluster

=============================================================================
