------------------------------ MODULE KissBox ------------------------------
(***************************************************************************)
(* The life of a bare-metal box under KISS.  Four programs write the same  *)
(* Box object without ever checking its resource version:                  *)
(*                                                                         *)
(*   operator  (crates/kiss/operator)  one reconcile at a time per box, on *)
(*             the copy its watch cache holds, with an API call between    *)
(*             reading that copy and each thing it does about it;          *)
(*   monitor   (crates/kiss/monitor)   turns the end of a Job into a state;*)
(*   gateway   (crates/kiss/gateway)   answers GET /new and POST           *)
(*             /commission with a read followed by one or two patches;     *)
(*   the admin, who edits spec.group.                                      *)
(*                                                                         *)
(* The Ansible playbooks and the node they run on are external: job, cron  *)
(* and node say what src/ relies on.  Durations are not modelled: a        *)
(* reconcile may find the box's timeout elapsed or not.                    *)
(***************************************************************************)
EXTENDS KissCluster, FiniteSets

CONSTANTS
    Group,     \* the [cluster, role] pairs an object may carry
    Request,   \* the requests the gateway serves at the same time
    None,      \* Option::None
    Limit,     \* Limit[f]: how often the environment does f
    Free,      \* the faults Limit does not count
    Prompt     \* TRUE: the calls about a box are over before the next event of that box

Role == {ControlPlane, "GenericWorker", "ExternalWorker"}

DefaultGroup == [cluster |-> DefaultCluster, role |-> "GenericWorker"]

(* What the environment may do, each at most Limit times (or any number of
   times when in Free): elapse: a timeout is found elapsed with an answer still on
   its way (with none it comes for certain, and is no fault); regroup: the admin
   edits spec.group; rash: the same in the middle of a reconcile, a commission or
   a join; boot: a node boots on its own; abort: a reconcile stops between two
   API calls, by an error of the API server or by a crash of the operator;
   jobfail: a playbook fails; missed: a Job ends and is gone before the monitor
   looks at it; reqfail: a gateway request stops half way; retry: a playbook
   posts its result again. *)
Fault == {"elapse", "regroup", "rash", "boot", "abort", "jobfail", "missed",
          "reqfail", "retry"}

ASSUME GroupAssumption ==
    /\ \A g \in Group : g.role \in Role
    /\ DefaultGroup \in Group
    /\ None \notin Group

ASSUME LimitAssumption ==
    /\ Limit \in [Fault -> Nat]
    /\ Free \subseteq Fault

ASSUME PaceAssumption == Prompt \in BOOLEAN

VARIABLES
    group,    \* group[b]: spec.group, or None before the Box object exists
    status,   \* status[b]: the status of the Box object, or None
    cache,    \* cache[b]: the operator's cached [group, status]
    op,       \* op[b]: the operator's reconcile of b
    cron,     \* cron[b]: the CronJobs labelled with b
    job,      \* job[b]: the Jobs labelled with b
    mon,      \* mon[b]: the states the monitor is about to write
    req,      \* req[r]: a gateway request being handled, or None
    node,     \* node[b]: the group the machine is a cluster member of, or None
    spent     \* spent[f]: how often fault f has happened

api  == <<group, status>>
jobs == <<cron, job>>
vars == <<group, status, cache, op, cron, job, mon, req, node, spent>>

-----------------------------------------------------------------------------
(* BoxState *)

State == {"New", "Commissioning", "Ready", "Joining", "Running",
          "GroupChanged", "Failed", "Disconnected"}
Task  == {"commission", "join", "ping", "reset"}

Resetting == {"GroupChanged", "Failed", "Disconnected"}

(* as_task; no task is ever asked of "New" or "Ready" *)
TaskOf(s) == CASE s = "Commissioning" -> "commission"
               [] s = "Joining"       -> "join"
               [] s = "Running"       -> "ping"
               [] s \in Resetting     -> "reset"

HasCron(s)    == s \in {"Running"} \union Resetting

(* Mutant: Joining has no timeout. *)
TimeoutForgotten(s) == s = "Commissioning"
HasTimeout(s) == s \in {"Commissioning", "Joining"}

NextOf(s)     == CASE s = "New"   -> "Commissioning"
                   [] s = "Ready" -> "Joining"
                   [] OTHER       -> s

Status == [state : State, access : BOOLEAN, bind : Group \union {None}]
Object == [group : Group \union {None}, status : Status \union {None}]
NoObject == [group |-> None, status |-> None]

(* None is not Some of anything. *)
ASSUME NoneAssumption == None \notin Status

(* A Job is its task and the part of the environment that task's playbook
   reads: the group (commission, join), kiss_group_force_reset (commission)
   and kiss_cluster_is_new (join). *)
JobSpec == [task : Task, group : Group \union {None}, reset : BOOLEAN, isNew : BOOLEAN]
Phase   == {"active", "succeeded", "failed"}
Job     == [spec : JobSpec, phase : Phase]

Run(spec) == [spec |-> spec, phase |-> "active"]
Active(b) == {j \in job[b] : j.phase = "active"}

PC   == {"idle", "already", "crons", "jobs", "load", "create", "patch"}
Idle == [pc |-> "idle", data |-> NoObject, next |-> "New", isNew |-> FALSE]
Reconcile == [pc : PC, data : Object, next : State, isNew : BOOLEAN]

Handling == [box : Box, pc : {"create", "spec", "status"}, group : Group \union {None},
             status : Status]

(* A join playbook that stops may have got as far as the kubelet. *)
HalfWay(b, j) ==
    /\ j.spec.task = "join"
    /\ node' = [node EXCEPT ![b] = j.spec.group]

Spend(f) == \/ f \in Free /\ UNCHANGED spent
            \/ /\ f \notin Free
               /\ spent[f] < Limit[f]
               /\ spent' = [spent EXCEPT ![f] = @ + 1]

Live(b) == [group |-> group[b], status |-> status[b]]

(* What a list of the Box objects shows, as from_box reads it. *)
View == [b \in {x \in Box : group[x] # None} |->
            [group |-> group[b],
             state |-> IF status[b] = None THEN "New" ELSE status[b].state]]

(* What the monitor makes of a Job; only join carries completed_state. *)
Verdict(j) == CASE j.phase = "failed"                              -> {"Failed"}
                [] j.phase = "succeeded" /\ j.spec.task = "join"   -> {"Running"}
                [] OTHER                                           -> {}

(* A playbook, its verdict or a request of the box is on its way. *)
Awaited(b) ==
    \/ Active(b) # {} \/ mon[b] # {} \/ \E j \in job[b] : Verdict(j) # {}
    \/ \E r \in Request : req[r] # None /\ req[r].box = b

(* With Prompt, the calls about a box, which take milliseconds, are over before
   the next timeout, playbook, boot or reconcile of the same box comes in. *)
Settled(b) ==
    /\ op[b].pc = "idle"
    /\ cache[b] = Live(b)
    /\ mon[b] = {} /\ \A j \in job[b] : Verdict(j) = {}
    /\ \A r \in Request : req[r] # None => req[r].box # b

MayStart(b) == Prompt => Settled(b)

Init ==
    /\ group  = [b \in Box |-> None]
    /\ status = [b \in Box |-> None]
    /\ cache  = [b \in Box |-> NoObject]
    /\ op     = [b \in Box |-> Idle]
    /\ cron   = [b \in Box |-> {}]
    /\ job    = [b \in Box |-> {}]
    /\ mon    = [b \in Box |-> {}]
    /\ req    = [r \in Request |-> None]
    /\ node   = [b \in Box |-> None]
    /\ spent  = [f \in Fault |-> 0]

-----------------------------------------------------------------------------
(* The operator's reconcile, on the data it was handed. *)

StateIn(d)     == IF d.status = None THEN "New" ELSE d.status.state
BindIn(d)      == IF d.status = None THEN None ELSE d.status.bind
AccessIn(d)    == d.status # None /\ d.status.access
BindUpdated(d) == BindIn(d) # d.group

(* The state the reconcile wants; the same state when it should wait. *)
Target(d, elapsed) ==
    LET old == StateIn(d) IN
    CASE old = "New" /\ ~AccessIn(d)         -> IF elapsed THEN "Disconnected" ELSE old
      [] elapsed /\ HasTimeout(old)          -> "Failed"
      [] old = "Running" /\ BindUpdated(d)   -> "Disconnected"
      [] OTHER                               -> NextOf(old)

(* Boxes that do not join: external ones, and generic workers of the default
   cluster, which group_enable_default_cluster (off by default) guards. *)
Skipped(g) == g.role = "ExternalWorker" \/ g = DefaultGroup

(* The watch delivers the current object to the operator's cache. *)
WatchBox(b) ==
    /\ cache[b] # Live(b)
    /\ cache' = [cache EXCEPT ![b] = Live(b)]
    /\ UNCHANGED <<api, op, jobs, mon, req, node, spent>>

(* A reconcile starts: up to the first call that changes anything. *)
Reconciling(b, elapsed) ==
    LET d   == cache[b]
        new == Target(d, elapsed)
        go(pc) == op' = [op EXCEPT ![b] =
                    [pc |-> pc, data |-> d, next |-> new, isNew |-> FALSE]]
    IN
    /\ op[b].pc = "idle"
    /\ MayStart(b)
    /\ d.group # None
    /\ IF elapsed
       THEN /\ \/ StateIn(d) = "New" /\ ~AccessIn(d)
               \/ HasTimeout(StateIn(d))
            /\ IF Awaited(b) THEN Spend("elapse") ELSE UNCHANGED spent
       ELSE UNCHANGED spent
    /\ \/ /\ new = "Joining" /\ StateIn(d) # "Joining"
          /\ ~Skipped(d.group)
          /\ IF BindUpdated(d) THEN go("crons") ELSE go("already")
       \/ /\ ~(new = "Joining" /\ StateIn(d) # "Joining")
          /\ new # StateIn(d) \/ HasCron(new)
          /\ go("crons")
    /\ UNCHANGED <<api, cache, jobs, mon, req, node>>

(* "Skipped joining (already joined)" *)
PatchAlreadyJoined(b) ==
    LET d == op[b].data IN
    /\ op[b].pc = "already"
    /\ status' = [status EXCEPT ![b] = [d.status EXCEPT !.state = "Running"]]
    /\ op' = [op EXCEPT ![b] = Idle]
    /\ UNCHANGED <<group, cache, jobs, mon, req, node, spent>>

(* AnsibleClient::spawn, call by call: delete the CronJobs ... *)
DeleteCronJobs(b) ==
    /\ op[b].pc = "crons"
    /\ cron' = [cron EXCEPT ![b] = {}]
    /\ op' = [op EXCEPT ![b].pc = "jobs"]
    /\ UNCHANGED <<api, cache, job, mon, req, node, spent>>

(* Mutant: only the Jobs that have ended are deleted. *)
DeleteEndedJobs(b) ==
    /\ op[b].pc = "jobs"
    /\ job' = [job EXCEPT ![b] = Active(b)]
    /\ op' = [op EXCEPT ![b].pc = "load"]
    /\ UNCHANGED <<api, cache, cron, mon, req, node, spent>>

(* ... and the Jobs of the box; their pods go with them, a join wherever it
   got to. *)
DeleteJobs(b) ==
    /\ op[b].pc = "jobs"
    /\ job' = [job EXCEPT ![b] = {}]
    /\ \/ node' = node
       \/ \E j \in Active(b) : HalfWay(b, j)
    /\ op' = [op EXCEPT ![b].pc = "load"]
    /\ UNCHANGED <<api, cache, cron, mon, req, spent>>

(* ... list the cluster; a join that has to queue ends the reconcile here. *)
LoadClusterState(b) ==
    LET o == op[b]
        c == o.data.group.cluster IN
    /\ o.pc = "load"
    /\ IF o.next = "Joining" /\ ~IsJoinable(View, c, b)
       THEN op' = [op EXCEPT ![b] = Idle]
       ELSE op' = [op EXCEPT ![b].pc = "create",
                             ![b].isNew = o.next = "Joining" /\ IsNew(View, c, b)]
    /\ UNCHANGED <<api, cache, jobs, mon, req, node, spent>>

(* Mutant: the disk is reset when the group is the bound one. *)
ResetInverted(d) == ~BindUpdated(d)

(* kiss_group_force_reset, with group_force_reset off and the default
   verify-bind-group label *)
ResetFlag(d) == BindUpdated(d)

(* ... and create the Job or the CronJob. *)
CreateJob(b) ==
    LET o == op[b]
        task == TaskOf(o.next)
        spec == [task  |-> task,
                 group |-> IF task \in {"commission", "join"} THEN o.data.group ELSE None,
                 reset |-> task = "commission" /\ ResetFlag(o.data),
                 isNew |-> task = "join" /\ o.isNew] IN
    /\ o.pc = "create"
    /\ IF HasCron(o.next)
       THEN cron' = [cron EXCEPT ![b] = @ \union {spec}] /\ UNCHANGED job
       ELSE job' = [job EXCEPT ![b] = @ \union {Run(spec)}] /\ UNCHANGED cron
    /\ op' = [op EXCEPT ![b] = IF o.next = StateIn(o.data) THEN Idle
                               ELSE [o EXCEPT !.pc = "patch"]]
    /\ UNCHANGED <<api, cache, mon, req, node, spent>>

(* Mutants of NewStatus: the task is written for the state; nothing is bound. *)
TaskForState(o) ==
    [state |-> TaskOf(o.next), access |-> AccessIn(o.data), bind |-> BindIn(o.data)]
BindsNothing(o) ==
    [state |-> o.next, access |-> AccessIn(o.data), bind |-> BindIn(o.data)]

(* The whole status is written from the data the reconcile started with. *)
NewStatus(o) ==
    [state  |-> o.next,
     access |-> AccessIn(o.data),
     bind   |-> IF o.next = "Joining" THEN o.data.group ELSE BindIn(o.data)]

PatchStatus(b) ==
    /\ op[b].pc = "patch"
    /\ status' = [status EXCEPT ![b] = NewStatus(op[b])]
    /\ op' = [op EXCEPT ![b] = Idle]
    /\ UNCHANGED <<group, cache, jobs, mon, req, node, spent>>

(* An API call fails (error_policy requeues) or the operator restarts. *)
AbortReconcile(b) ==
    /\ op[b].pc # "idle"
    /\ Spend("abort")
    /\ op' = [op EXCEPT ![b] = Idle]
    /\ UNCHANGED <<api, cache, jobs, mon, req, node>>

-----------------------------------------------------------------------------
(* The monitor: the end of a Job becomes the state of its box. *)

MonitorJob(b) ==
    /\ \E j \in job[b] :
          /\ Verdict(j) \ mon[b] # {}
          /\ mon' = [mon EXCEPT ![b] = @ \union Verdict(j)]
    /\ UNCHANGED <<api, cache, op, jobs, req, node, spent>>

MonitorPatch(b) ==
    /\ \E s \in mon[b] :
          /\ status' = [status EXCEPT ![b] =
                IF @ = None THEN [state |-> s, access |-> FALSE, bind |-> None]
                ELSE [@ EXCEPT !.state = s]]
          /\ mon' = [mon EXCEPT ![b] = @ \ {s}]
    /\ UNCHANGED <<group, cache, op, jobs, req, node, spent>>

-----------------------------------------------------------------------------
(* The gateway. *)

Submitted(s, bind) == [state |-> s, access |-> TRUE, bind |-> bind]

Accept(r, b, pc, g, st) ==
    /\ req[r] = None
    /\ req' = [req EXCEPT ![r] = [box |-> b, pc |-> pc, group |-> g, status |-> st]]

(* GET /new, up to what get_opt found. *)
GetNew(r, b) ==
    IF group[b] = None
    THEN Accept(r, b, "create", None, Submitted("New", None))
    ELSE Accept(r, b, "status", None, Submitted("New", BindIn(Live(b))))

(* api.create: conflicts when the object exists by now.  Boxes are named in
   the order they are created in. *)
CreateBox(r) ==
    /\ req[r] # None /\ req[r].pc = "create"
    /\ LET b == req[r].box IN
       IF group[b] # None
       THEN req' = [req EXCEPT ![r] = None] /\ UNCHANGED group
       ELSE /\ \A a \in Box : Rank[a] < Rank[b] => group[a] # None
            /\ group' = [group EXCEPT ![b] = DefaultGroup]
            /\ req' = [req EXCEPT ![r].pc = "status"]
    /\ UNCHANGED <<status, cache, op, jobs, mon, node, spent>>


(* POST /commission, up to what get_opt found; reset is what the playbook
   reports. *)
PostCommission(r, b, reset) ==
    /\ group[b] # None
    /\ Accept(r, b, "spec", group[b],
              Submitted("Ready", IF reset THEN None ELSE BindIn(Live(b))))

(* The patch of spec: the group is the one that was read. *)
GatewayPatchSpec(r) ==
    /\ req[r] # None /\ req[r].pc = "spec"
    /\ group' = [group EXCEPT ![req[r].box] = req[r].group]
    /\ req' = [req EXCEPT ![r].pc = "status"]
    /\ UNCHANGED <<status, cache, op, jobs, mon, node, spent>>

(* The patch of status, and the answer.  A commission playbook that gets it
   succeeds; one that does not may post again. *)
GatewayPatchStatus(r) ==
    /\ req[r] # None /\ req[r].pc = "status"
    /\ LET b == req[r].box
           answered == {j \in Active(b) : j.spec.task = "commission"
                                          /\ req[r].status.state = "Ready"} IN
       /\ status' = [status EXCEPT ![b] = req[r].status]
       /\ \/ Spend("retry") /\ UNCHANGED job
          \/ /\ job' = [job EXCEPT ![b] = (@ \ answered) \union
                           {[j EXCEPT !.phase = "succeeded"] : j \in answered}]
             /\ UNCHANGED spent
    /\ req' = [req EXCEPT ![r] = None]
    /\ UNCHANGED <<group, cache, op, cron, mon, node>>

GatewayFails(r) ==
    /\ req[r] # None
    /\ Spend("reqfail")
    /\ req' = [req EXCEPT ![r] = None]
    /\ UNCHANGED <<api, cache, op, jobs, mon, node>>

-----------------------------------------------------------------------------
(* The environment: Kubernetes, the playbooks, the machines and the admin. *)

(* A CronJob fires; concurrencyPolicy Replace removes the run before. *)
CronFires(b) ==
    /\ MayStart(b)
    /\ \E spec \in cron[b] :
          /\ Run(spec) \notin job[b]
          /\ job' = [job EXCEPT ![b] =
                {j \in @ : ~(j.phase = "active" /\ j.spec.task = spec.task)} \union {Run(spec)}]
    /\ UNCHANGED <<api, cache, op, cron, mon, req, node, spent>>

End(b, j, phase) ==
    job' = [job EXCEPT ![b] = (@ \ {j}) \union {[j EXCEPT !.phase = phase]}]

(* A playbook other than commission (GatewayPatchStatus) succeeds; join has
   made the machine a member. *)
JobSucceeds(b) ==
    /\ MayStart(b)
    /\ \E j \in Active(b) :
          /\ j.spec.task # "commission"
          /\ End(b, j, "succeeded")
          /\ node' = IF j.spec.task = "join" THEN [node EXCEPT ![b] = j.spec.group] ELSE node
    /\ UNCHANGED <<api, cache, op, cron, mon, req, spent>>

(* The backoff limit is reached. *)
JobFails(b) ==
    /\ MayStart(b)
    /\ Spend("jobfail")
    /\ \E j \in Active(b) :
          /\ End(b, j, "failed")
          /\ node' = node \/ HalfWay(b, j)
    /\ UNCHANGED <<api, cache, op, cron, mon, req>>

(* ttl_seconds_after_finished = 0: the Job may be gone before the monitor has
   looked at it. *)
JobCollected(b) ==
    /\ \E j \in job[b] :
          /\ j.phase # "active"
          /\ IF Verdict(j) \subseteq mon[b] \union {StateIn(Live(b))}
             THEN UNCHANGED spent
             ELSE Spend("missed")
          /\ job' = [job EXCEPT ![b] = @ \ {j}]
    /\ UNCHANGED <<api, cache, op, cron, mon, req, node>>

(* commission/storage.yaml: the disk is kept when the kubelet (which runs on a
   member) is the one of the job's cluster and the job does not force a reset;
   commission/submit.yaml posts the opposite.  An external machine is not wiped. *)
Kept(b, spec) ==
    /\ node[b] # None
    /\ ~spec.reset
    /\ node[b].cluster = spec.group.cluster

Wiped(b, spec) == ~Kept(b, spec) /\ spec.group.role # "ExternalWorker"

CommissionSubmits(b, r) ==
    /\ MayStart(b)
    /\ \E j \in Active(b) :
          /\ j.spec.task = "commission"
          /\ node' = IF Wiped(b, j.spec) THEN [node EXCEPT ![b] = None] ELSE node
          /\ PostCommission(r, b, ~Kept(b, j.spec))
    /\ UNCHANGED <<api, cache, op, jobs, mon, spent>>

(* A node boots and reports to GET /new: the first time, because a reset
   playbook power-cycled it, or on its own. *)
Boot(b, r) ==
    /\ MayStart(b)
    /\ \/ group[b] = None /\ UNCHANGED spent
       \/ (\E j \in Active(b) : j.spec.task = "reset") /\ UNCHANGED spent
       \/ group[b] # None /\ Spend("boot")
    /\ GetNew(r, b)
    /\ UNCHANGED <<api, cache, op, jobs, mon, node>>

Rash(b) ==
    \/ \E a \in Box : op[a].pc # "idle"
    \/ HasTimeout(StateIn(Live(b)))
    \/ \E j \in Active(b) : j.spec.group # None

Regroup(b) ==
    /\ group[b] # None
    /\ Spend(IF Rash(b) THEN "rash" ELSE "regroup")
    /\ \E g \in Group \ {group[b]} : group' = [group EXCEPT ![b] = g]
    /\ UNCHANGED <<status, cache, op, jobs, mon, req, node>>

-----------------------------------------------------------------------------
Operator(b) ==
    \/ \E elapsed \in BOOLEAN : Reconciling(b, elapsed)
    \/ PatchAlreadyJoined(b)
    \/ DeleteCronJobs(b)
    \/ DeleteJobs(b)
    \/ LoadClusterState(b)
    \/ CreateJob(b)
    \/ PatchStatus(b)
    \/ AbortReconcile(b)

Monitor(b) == MonitorJob(b) \/ MonitorPatch(b)

Gateway(r) ==
    \/ CreateBox(r)
    \/ GatewayPatchSpec(r)
    \/ GatewayPatchStatus(r)
    \/ GatewayFails(r)

Environment(b) ==
    \/ WatchBox(b)
    \/ CronFires(b)
    \/ JobSucceeds(b)
    \/ JobFails(b)
    \/ JobCollected(b)
    \/ \E r \in Request : CommissionSubmits(b, r)
    \/ \E r \in Request : Boot(b, r)
    \/ Regroup(b)

Next ==
    \/ \E b \in Box : Operator(b)
    \/ \E b \in Box : Monitor(b)
    \/ \E r \in Request : Gateway(r)
    \/ \E b \in Box : Environment(b)

Spec == Init /\ [][Next]_vars

-----------------------------------------------------------------------------
OperatorCall(b) ==
    \/ PatchAlreadyJoined(b) \/ DeleteCronJobs(b) \/ DeleteJobs(b)
    \/ LoadClusterState(b) \/ CreateJob(b) \/ PatchStatus(b)

ResetBoots(b) ==
    /\ \E j \in Active(b) : j.spec.task = "reset"
    /\ \E r \in Request : Boot(b, r)

(* Calls that have begun go on, events are delivered, objects are requeued and
   a finished Job is collected. *)
ServiceFairness ==
    /\ \A b \in Box : /\ WF_vars(OperatorCall(b))
                      /\ WF_vars(WatchBox(b))
                      /\ WF_vars(MonitorJob(b))
                      /\ WF_vars(MonitorPatch(b))
                      /\ WF_vars(JobCollected(b))
                      /\ \A elapsed \in BOOLEAN : SF_vars(Reconciling(b, elapsed))
    /\ \A r \in Request : WF_vars(CreateBox(r) \/ GatewayPatchSpec(r) \/ GatewayPatchStatus(r))

(* A playbook that keeps its chance ends; a reset, which every reconcile of the
   box starts over, gets through once it has had enough chances. *)
PlaybookFairness ==
    \A b \in Box : /\ WF_vars(JobSucceeds(b))
                   /\ WF_vars(\E r \in Request : CommissionSubmits(b, r))
                   /\ SF_vars(CronFires(b))
                   /\ SF_vars(ResetBoots(b))

-----------------------------------------------------------------------------
ServiceSpec  == Spec /\ ServiceFairness
PlaybookSpec == ServiceSpec /\ PlaybookFairness

-----------------------------------------------------------------------------
(* Properties. *)

(* Every object, call, Job and counter has the shape its Rust type gives it. *)
TypeOK ==
    /\ group  \in [Box -> Group \union {None}]
    /\ status \in [Box -> Status \union {None}]
    /\ cache  \in [Box -> Object]
    /\ op     \in [Box -> Reconcile]
    /\ cron   \in [Box -> SUBSET JobSpec]
    /\ job    \in [Box -> SUBSET Job]
    /\ mon    \in [Box -> SUBSET State]
    /\ req    \in [Request -> Handling \union {None}]
    /\ node   \in [Box -> Group \union {None}]
    /\ spent  \in [Fault -> Nat]

(* No two playbooks run on the same machine.  spawn deletes, lists and creates
   in separate calls and CronJobs fire in between: it takes the order of those
   calls (CronJobs first, then Jobs, then the new one) to keep this. *)
AtMostOneJob ==
    \A b \in Box : \A j, k \in Active(b) : j = k

(* A box is Joining only with a bind_group, whoever wrote its status last. *)
JoiningIsBound ==
    \A b \in Box : StateIn(Live(b)) = "Joining" => BindIn(Live(b)) # None

(* A machine that is in its group, and bound to it, is never wiped, unless the
   admin has been rash: reconcile decides on the reset of the disk long before
   the playbook carries it out. *)
NeverWiped ==
    [][\A b \in Box : node[b] # None /\ node'[b] = None /\ spent["rash"] = 0 =>
          node[b] # group[b] \/ BindUpdated(Live(b))]_vars

(* b is being made a control plane of cluster c *)
Enters(b, c) ==
    LET g == [cluster |-> c, role |-> ControlPlane] IN
    \/ StateIn(Live(b)) = "Joining" /\ BindIn(Live(b)) = g
    \/ \E j \in Active(b) : j.spec.task = "join" /\ j.spec.group = g

(* The control planes of a cluster join one at a time: the queue of
   ClusterState::is_joinable, which is nothing but a list of the boxes taken
   before the Job is created, is a mutual exclusion. *)
OneJoinsAtATime ==
    \A a, b \in Box : \A g \in Group : Enters(a, g.cluster) /\ Enters(b, g.cluster) => a = b

(* No box is told to found a cluster (kiss_cluster_is_new) that another machine
   is already a node of: is_new reads "no control plane is Running" as "there
   is no cluster". *)
OneFounder ==
    \A b \in Box : \A j \in Active(b) : j.spec.isNew =>
        \A a \in Box \ {b} : node[a] # None => node[a].cluster # j.spec.group.cluster

(* Neither a commission nor a join holds a box for ever: its playbook ends or
   the timeout does it. *)
Waiting(b) == StateIn(Live(b)) \in {"Commissioning", "Joining"}
WaitingEnds == \A b \in Box : Waiting(b) ~> ~Waiting(b)

(* A Running box whose group the admin has changed does not stay so. *)
Misplaced(b) == StateIn(Live(b)) = "Running" /\ BindUpdated(Live(b))
MisplacedMoves == \A b \in Box : Misplaced(b) ~> ~Misplaced(b)

(* No state is a trap: every wait ends, and so does being in the wrong group. *)
NoTrap == WaitingEnds /\ MisplacedMoves

(* b is Running in the group it should be in, and its machine is a node of that
   cluster. *)
Member(b) ==
    /\ StateIn(Live(b)) = "Running" /\ BindIn(Live(b)) = group[b]
    /\ node[b] # None /\ node[b].cluster = group[b].cluster

(* Workers join a cluster that has a control plane. *)
Served(b) ==
    \/ group[b].role = ControlPlane
    \/ \E a \in Box : /\ group[a] = [cluster |-> group[b].cluster, role |-> ControlPlane]
                      /\ StateIn(Live(a)) = "Running"

(* A box whose group the admin has settled ends up a Running member of that
   cluster for good, whichever of the faults it went through before, however it
   came by its state: verdicts missed, requests and reconciles half done,
   playbooks failed, timeouts in their middle, boots and edits at any time. *)
Settles ==
    \A b \in Box :
        <>[](group[b] # None /\ ~Skipped(group[b]) /\ Served(b)) => <>[]Member(b)
=============================================================================
