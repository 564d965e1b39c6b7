--------------------------- MODULE KissBoxProofs ---------------------------
(***************************************************************************)
(* Theorems about KissBox, for every set of boxes, groups and requests and *)
(* every bound on the faults.  With or without Prompt: the types, and what *)
(* holds whatever overtakes what.  With Prompt, no matter which boots,     *)
(* failed requests and edits of groups come how often: that a box shown    *)
(* Running is a node where it says, and that no member is wiped.           *)
(***************************************************************************)
EXTENDS KissBox, TLAPS

(* A reconcile that is under way was started on an object with a group, for a
   state that has a task, and finds the status it skips the join for. *)
OpOK ==
    \A b \in Box : op[b].pc # "idle" =>
        /\ op[b].data.group # None
        /\ op[b].next \notin {"New", "Ready"}
        /\ op[b].pc = "already" => op[b].data.status # None

TypeInv == TypeOK /\ OpOK

LEMMA DefaultIsGroup == DefaultGroup \in Group /\ None \notin Group
  BY GroupAssumption

(* What a reconcile reads off the object it was handed. *)
LEMMA ReadTypes ==
  ASSUME NEW d \in Object
  PROVE  /\ StateIn(d) \in State
         /\ BindIn(d) \in Group \union {None}
         /\ AccessIn(d) \in BOOLEAN
  BY DEF Object, Status, State, StateIn, BindIn, AccessIn

LEMMA TargetTypes ==
  ASSUME NEW d \in Object, NEW elapsed \in BOOLEAN
  PROVE  /\ Target(d, elapsed) \in State
         /\ Target(d, elapsed) # "Ready"
         /\ Target(d, elapsed) = "New" => StateIn(d) = "New"
<1>1. StateIn(d) \in State
  BY ReadTypes
<1>2. QED
  BY <1>1 DEF Target, NextOf, HasTimeout, State

LEMMA LiveType ==
  ASSUME TypeOK, NEW b \in Box
  PROVE  Live(b) \in Object
  BY DEF TypeOK, Live, Object

LEMMA TaskType ==
  ASSUME NEW s \in State, s \notin {"New", "Ready"}
  PROVE  TaskOf(s) \in Task
  BY DEF State, TaskOf, Task, Resetting

LEMMA NewStatusType ==
  ASSUME NEW o \in Reconcile
  PROVE  NewStatus(o) \in Status
<1>1. o.data \in Object /\ o.next \in State
  BY DEF Reconcile
<1>2. o.data.group \in Group \union {None}
  BY <1>1 DEF Object
<1>3. BindIn(o.data) \in Group \union {None} /\ AccessIn(o.data) \in BOOLEAN
  BY <1>1, ReadTypes
<1>4. QED
  BY <1>1, <1>2, <1>3 DEF NewStatus, Status

LEMMA SpendType ==
  ASSUME TypeOK, NEW f \in Fault, Spend(f)
  PROVE  spent' \in [Fault -> Nat]
  BY DEF TypeOK, Spend

LEMMA IdleType == Idle \in Reconcile
  BY DEF Idle, Reconcile, PC, Object, NoObject, State

-----------------------------------------------------------------------------
LEMMA TypeInit == Init => TypeInv
<1> SUFFICES ASSUME Init PROVE TypeInv
  OBVIOUS
<1>1. op \in [Box -> Reconcile]
  BY IdleType DEF Init
<1>2. cache \in [Box -> Object]
  BY DEF Init, NoObject, Object
<1>3. spent \in [Fault -> Nat]
  BY DEF Init
<1>4. TypeOK
  BY <1>1, <1>2, <1>3 DEF TypeOK, Init
<1>5. OpOK
  BY DEF OpOK, Init, Idle
<1>6. QED
  BY <1>4, <1>5 DEF TypeInv

LEMMA TypeStep == TypeInv /\ [Next]_vars => TypeInv'
<1> SUFFICES ASSUME TypeInv, [Next]_vars PROVE TypeInv'
  OBVIOUS
<1> USE DEF TypeInv
<1>1. ASSUME NEW b \in Box, NEW elapsed \in BOOLEAN, Reconciling(b, elapsed)
      PROVE  TypeInv'
  <2> DEFINE d == cache[b]
             new == Target(d, elapsed)
  <2>1. d \in Object /\ d.group # None
    BY <1>1 DEF TypeOK, Reconciling
  <2>2. new \in State /\ new # "Ready" /\ (new = "New" => StateIn(d) = "New")
    BY <2>1, TargetTypes
  <2>3. PICK pc \in {"crons", "already"} :
          /\ op' = [op EXCEPT ![b] =
                      [pc |-> pc, data |-> d, next |-> new, isNew |-> FALSE]]
          /\ new # "New"
          /\ pc = "already" => ~BindUpdated(d)
    BY <1>1, <2>2 DEF Reconciling, HasCron, Resetting
  <2>4. BindUpdated(d) \/ d.status # None
    BY <2>1 DEF BindUpdated, BindIn
  <2>5. op' \in [Box -> Reconcile]
    BY <2>1, <2>2, <2>3 DEF TypeOK, Reconcile, PC
  <2>6. spent' \in [Fault -> Nat]
    BY <1>1, SpendType DEF Reconciling, Fault, TypeOK
  <2>7. TypeOK'
    BY <1>1, <2>5, <2>6 DEF Reconciling, TypeOK, api, jobs
  <2>8. OpOK'
    BY <2>1, <2>2, <2>3, <2>4 DEF OpOK, TypeOK
  <2>9. QED
    BY <2>7, <2>8
<1>2. ASSUME NEW b \in Box, PatchAlreadyJoined(b)
      PROVE  TypeInv'
  <2>1. op[b].data.status \in Status
    BY <1>2 DEF PatchAlreadyJoined, TypeOK, OpOK, Reconcile, Object
  <2>2. [op[b].data.status EXCEPT !.state = "Running"] \in Status
    BY <2>1 DEF Status, State
  <2>3. TypeOK'
    BY <1>2, <2>2, IdleType DEF PatchAlreadyJoined, TypeOK, jobs
  <2>4. OpOK'
    BY <1>2 DEF PatchAlreadyJoined, OpOK, TypeOK, Idle
  <2>5. QED
    BY <2>3, <2>4
<1>3. ASSUME NEW b \in Box, DeleteCronJobs(b) \/ DeleteJobs(b)
      PROVE  TypeInv'
  <2>1. op[b] \in Reconcile /\ op[b].pc # "idle"
    BY <1>3 DEF TypeOK, DeleteCronJobs, DeleteJobs
  <2>2. op' \in [Box -> Reconcile] /\ OpOK'
    <3>1. PICK pc \in {"jobs", "load"} : op' = [op EXCEPT ![b] = [op[b] EXCEPT !.pc = pc]]
      BY <1>3 DEF DeleteCronJobs, DeleteJobs
    <3>2. [op[b] EXCEPT !.pc = pc] \in Reconcile
      BY <2>1 DEF Reconcile, PC
    <3>3. op' \in [Box -> Reconcile]
      BY <3>1, <3>2 DEF TypeOK
    <3>4. OpOK'
      BY <2>1, <3>1 DEF TypeOK, OpOK, Reconcile
    <3>5. QED
      BY <3>3, <3>4
  <2>3. node' \in [Box -> Group \union {None}]
    BY <1>3 DEF DeleteCronJobs, DeleteJobs, HalfWay, TypeOK, Active, Job, JobSpec
  <2>4. TypeOK'
    BY <1>3, <2>2, <2>3 DEF DeleteCronJobs, DeleteJobs, TypeOK, api
  <2>5. QED
    BY <2>2, <2>4
<1>4. ASSUME NEW b \in Box, LoadClusterState(b)
      PROVE  TypeInv'
  <2>1. op[b] \in Reconcile /\ op[b].pc # "idle"
    BY <1>4 DEF TypeOK, LoadClusterState
  <2>2. \/ op' = [op EXCEPT ![b] = Idle]
        \/ \E new \in BOOLEAN :
             op' = [op EXCEPT ![b] = [op[b] EXCEPT !.pc = "create", !.isNew = new]]
    BY <1>4 DEF LoadClusterState, TypeOK
  <2>3. op' \in [Box -> Reconcile] /\ OpOK'
    <3>1. CASE op' = [op EXCEPT ![b] = Idle]
      BY <3>1, IdleType DEF TypeOK, OpOK, Idle
    <3>2. ASSUME NEW new \in BOOLEAN,
                 op' = [op EXCEPT ![b] = [op[b] EXCEPT !.pc = "create", !.isNew = new]]
          PROVE  op' \in [Box -> Reconcile] /\ OpOK'
      <4>1. [op[b] EXCEPT !.pc = "create", !.isNew = new] \in Reconcile
        BY <2>1 DEF Reconcile, PC
      <4>2. op' \in [Box -> Reconcile]
        BY <3>2, <4>1 DEF TypeOK
      <4>3. OpOK'
        BY <2>1, <3>2 DEF TypeOK, OpOK, Reconcile
      <4>4. QED
        BY <4>2, <4>3
    <3>3. QED
      BY <2>2, <3>1, <3>2
  <2>4. TypeOK'
    BY <1>4, <2>3 DEF LoadClusterState, TypeOK, api, jobs
  <2>5. QED
    BY <2>3, <2>4
<1>5. ASSUME NEW b \in Box, CreateJob(b)
      PROVE  TypeInv'
  <2> DEFINE o == op[b]
             task == TaskOf(o.next)
             spec == [task  |-> task,
                      group |-> IF task \in {"commission", "join"} THEN o.data.group ELSE None,
                      reset |-> task = "commission" /\ ResetFlag(o.data),
                      isNew |-> task = "join" /\ o.isNew]
  <2>1. o \in Reconcile /\ o.pc # "idle"
    BY <1>5 DEF TypeOK, CreateJob
  <2>2. o.data.group \in Group /\ o.next \in State /\ o.isNew \in BOOLEAN
    BY <2>1 DEF OpOK, Reconcile, Object
  <2>3. task \in Task
    BY <2>1, <2>2, TaskType DEF OpOK
  <2>4. spec \in JobSpec
    BY <2>2, <2>3 DEF JobSpec, ResetFlag, BindUpdated
  <2>5. Run(spec) \in Job
    BY <2>4 DEF Run, Job, Phase
  <2>6. op' = [op EXCEPT ![b] = Idle] \/ op' = [op EXCEPT ![b] = [o EXCEPT !.pc = "patch"]]
    BY <1>5 DEF CreateJob
  <2>7. op' \in [Box -> Reconcile] /\ OpOK'
    <3>1. CASE op' = [op EXCEPT ![b] = Idle]
      BY <3>1, IdleType DEF TypeOK, OpOK, Idle
    <3>2. CASE op' = [op EXCEPT ![b] = [o EXCEPT !.pc = "patch"]]
      <4>1. [o EXCEPT !.pc = "patch"] \in Reconcile
        BY <2>1 DEF Reconcile, PC
      <4>2. op' \in [Box -> Reconcile]
        BY <3>2, <4>1 DEF TypeOK
      <4>3. OpOK'
        BY <2>1, <3>2 DEF TypeOK, OpOK, Reconcile
      <4>4. QED
        BY <4>2, <4>3
    <3>3. QED
      BY <2>6, <3>1, <3>2
  <2>8. \/ cron' = [cron EXCEPT ![b] = @ \union {spec}] /\ UNCHANGED job
        \/ job' = [job EXCEPT ![b] = @ \union {Run(spec)}] /\ UNCHANGED cron
    BY <1>5 DEF CreateJob
  <2>9. cron' \in [Box -> SUBSET JobSpec] /\ job' \in [Box -> SUBSET Job]
    <3> HIDE DEF spec
    <3> QED
      BY <2>4, <2>5, <2>8 DEF TypeOK
  <2>10. TypeOK'
    BY <1>5, <2>7, <2>9 DEF CreateJob, TypeOK, api
  <2>11. QED
    BY <2>7, <2>10
<1>6. ASSUME NEW b \in Box, PatchStatus(b)
      PROVE  TypeInv'
  <2>1. NewStatus(op[b]) \in Status
    BY NewStatusType DEF TypeOK
  <2>2. TypeOK'
    BY <1>6, <2>1, IdleType DEF PatchStatus, TypeOK, jobs
  <2>3. OpOK'
    BY <1>6 DEF PatchStatus, OpOK, TypeOK, Idle
  <2>4. QED
    BY <2>2, <2>3
<1>7. ASSUME NEW b \in Box, AbortReconcile(b)
      PROVE  TypeInv'
  <2>1. spent' \in [Fault -> Nat]
    BY <1>7, SpendType DEF AbortReconcile, Fault
  <2>2. TypeOK'
    BY <1>7, <2>1, IdleType DEF AbortReconcile, TypeOK, api, jobs
  <2>3. OpOK'
    BY <1>7 DEF AbortReconcile, OpOK, TypeOK, Idle
  <2>4. QED
    BY <2>2, <2>3
<1>8. ASSUME NEW b \in Box, Monitor(b)
      PROVE  TypeInv'
  <2>1. CASE MonitorJob(b)
    <3>1. \A j : Verdict(j) \in SUBSET State
      BY DEF Verdict, State
    <3>2. mon' \in [Box -> SUBSET State]
      BY <2>1, <3>1 DEF MonitorJob, TypeOK
    <3>3. QED
      BY <2>1, <3>2 DEF MonitorJob, TypeOK, OpOK, api, jobs
  <2>2. CASE MonitorPatch(b)
    <3>1. PICK s \in mon[b] :
            /\ status' = [status EXCEPT ![b] =
                 IF @ = None THEN [state |-> s, access |-> FALSE, bind |-> None]
                 ELSE [@ EXCEPT !.state = s]]
            /\ mon' = [mon EXCEPT ![b] = @ \ {s}]
      BY <2>2 DEF MonitorPatch
    <3>2. s \in State
      BY DEF TypeOK
    <3>3. status' \in [Box -> Status \union {None}] /\ mon' \in [Box -> SUBSET State]
      BY <3>1, <3>2 DEF TypeOK, Status
    <3>4. QED
      BY <2>2, <3>3 DEF MonitorPatch, TypeOK, OpOK, jobs
  <2>3. QED
    BY <1>8, <2>1, <2>2 DEF Monitor
<1>9. ASSUME NEW r \in Request, Gateway(r)
      PROVE  TypeInv'
  <2>1. req[r] # None /\ req[r] \in Handling
    BY <1>9 DEF Gateway, CreateBox, GatewayPatchSpec, GatewayPatchStatus, GatewayFails, TypeOK
  <2>2. CASE CreateBox(r)
    <3>1. req' \in [Request -> Handling \union {None}]
      BY <2>1, <2>2 DEF CreateBox, TypeOK, Handling
    <3>2. group' \in [Box -> Group \union {None}]
      BY <2>2, DefaultIsGroup DEF CreateBox, TypeOK
    <3>3. QED
      BY <2>2, <3>1, <3>2 DEF CreateBox, TypeOK, OpOK, jobs
  <2>3. CASE GatewayPatchSpec(r)
    <3>1. req' \in [Request -> Handling \union {None}]
      BY <2>1, <2>3 DEF GatewayPatchSpec, TypeOK, Handling
    <3>2. group' \in [Box -> Group \union {None}]
      BY <2>1, <2>3 DEF GatewayPatchSpec, TypeOK, Handling
    <3>3. QED
      BY <2>3, <3>1, <3>2 DEF GatewayPatchSpec, TypeOK, OpOK, jobs
  <2>4. CASE GatewayPatchStatus(r)
    <3>1. \A j \in Job : [j EXCEPT !.phase = "succeeded"] \in Job
      BY DEF Job, Phase
    <3>2. job' \in [Box -> SUBSET Job]
      BY <2>4, <3>1 DEF GatewayPatchStatus, TypeOK, Active
    <3>3. spent' \in [Fault -> Nat]
      BY <2>4, SpendType DEF GatewayPatchStatus, Fault, TypeOK
    <3>4. status' \in [Box -> Status \union {None}] /\ req' \in [Request -> Handling \union {None}]
      BY <2>1, <2>4 DEF GatewayPatchStatus, TypeOK, Handling
    <3>5. QED
      BY <2>4, <3>2, <3>3, <3>4 DEF GatewayPatchStatus, TypeOK, OpOK
  <2>5. CASE GatewayFails(r)
    <3>1. spent' \in [Fault -> Nat]
      BY <2>5, SpendType DEF GatewayFails, Fault
    <3>2. QED
      BY <2>5, <3>1 DEF GatewayFails, TypeOK, OpOK, api, jobs
  <2>6. QED
    BY <1>9, <2>2, <2>3, <2>4, <2>5 DEF Gateway
<1>10. ASSUME NEW b \in Box, WatchBox(b) \/ Regroup(b)
       PROVE  TypeInv'
  <2>1. CASE WatchBox(b)
    BY <2>1, LiveType DEF WatchBox, TypeOK, OpOK, api, jobs
  <2>2. CASE Regroup(b)
    <3>1. spent' \in [Fault -> Nat]
      BY <2>2, SpendType DEF Regroup, Fault
    <3>2. QED
      BY <2>2, <3>1 DEF Regroup, TypeOK, OpOK, jobs
  <2>3. QED
    BY <1>10, <2>1, <2>2
<1>11. ASSUME NEW b \in Box,
              CronFires(b) \/ JobSucceeds(b) \/ JobFails(b) \/ JobCollected(b)
       PROVE  TypeInv'
  <2>1. job' \in [Box -> SUBSET Job] /\ node' \in [Box -> Group \union {None}]
    <3>1. CASE CronFires(b)
      BY <3>1 DEF CronFires, Run, TypeOK, Job, Phase
    <3>2. CASE JobCollected(b)
      BY <3>2 DEF JobCollected, TypeOK
    <3>3. ASSUME NEW j \in Active(b), NEW phase \in Phase, End(b, j, phase)
          PROVE  job' \in [Box -> SUBSET Job]
      <4>1. j \in Job
        BY DEF Active, TypeOK
      <4>2. [j EXCEPT !.phase = phase] \in Job
        BY <4>1 DEF Job
      <4>3. QED
        BY <3>3, <4>2 DEF End, TypeOK
    <3>4. \A j \in Active(b) : j.spec.group \in Group \union {None}
      BY DEF Active, TypeOK, Job, JobSpec
    <3>5. CASE JobSucceeds(b)
      BY <3>3, <3>4, <3>5 DEF JobSucceeds, TypeOK, Phase
    <3>6. CASE JobFails(b)
      BY <3>3, <3>4, <3>6 DEF JobFails, HalfWay, TypeOK, Phase
    <3>7. QED
      BY <1>11, <3>1, <3>2, <3>5, <3>6
  <2>2. spent' \in [Fault -> Nat]
    BY <1>11, SpendType DEF CronFires, JobSucceeds, JobFails, JobCollected, Fault, TypeOK
  <2>3. QED
    BY <1>11, <2>1, <2>2
    DEF CronFires, JobSucceeds, JobFails, JobCollected, TypeOK, OpOK, api
<1>12. ASSUME NEW b \in Box, NEW r \in Request, CommissionSubmits(b, r) \/ Boot(b, r)
       PROVE  TypeInv'
  <2>1. BindIn(Live(b)) \in Group \union {None}
    BY LiveType, ReadTypes
  <2>2. \A s \in State, x \in Group \union {None} : Submitted(s, x) \in Status
    BY DEF Submitted, Status
  <2>3. req' \in [Request -> Handling \union {None}]
    BY <1>12, <2>1, <2>2
    DEF CommissionSubmits, Boot, PostCommission, GetNew, Accept, Handling, TypeOK, State
  <2>4. spent' \in [Fault -> Nat]
    BY <1>12, SpendType DEF CommissionSubmits, Boot, Fault, TypeOK
  <2>5. node' \in [Box -> Group \union {None}]
    BY <1>12 DEF CommissionSubmits, Boot, TypeOK
  <2>6. QED
    BY <1>12, <2>3, <2>4, <2>5 DEF CommissionSubmits, Boot, TypeOK, OpOK, api, jobs
<1>13. CASE UNCHANGED vars
  BY <1>13 DEF vars, TypeOK, OpOK
<1>14. QED
  BY <1>1, <1>2, <1>3, <1>4, <1>5, <1>6, <1>7, <1>8, <1>9, <1>10, <1>11, <1>12, <1>13
  DEF Next, Operator, Environment

(* Every object, call and Job keeps the shape of its Rust type, and no
   reconcile ever asks a state without a task for one. *)
THEOREM TypeCorrect == Spec => []TypeOK
<1>1. Init => TypeInv
  BY TypeInit
<1>2. TypeInv /\ [Next]_vars => TypeInv'
  BY TypeStep
<1>3. TypeInv => TypeOK
  BY DEF TypeInv
<1>4. QED
  BY <1>1, <1>2, <1>3, PTL DEF Spec

-----------------------------------------------------------------------------
(* AtMostOneJob is not inductive: what spawn has deleted so far must stay
   deleted until it creates, and the CronJobs of a box may only replace their own runs. *)
OneInv ==
    \A b \in Box :
        /\ op[b].pc \in {"jobs", "load", "create"} => cron[b] = {}
        /\ op[b].pc \in {"load", "create"} => Active(b) = {}
        /\ \A j, k \in Active(b) : j = k
        /\ \A spec \in cron[b] : \A j \in Active(b) : j.spec.task = spec.task
        /\ \A spec, other \in cron[b] : spec.task = other.task

(* A step that starts no playbook and no CronJob is harmless. *)
LEMMA OnlyFewer ==
  ASSUME OneInv, UNCHANGED cron, UNCHANGED op,
         \A b \in Box : Active(b)' \subseteq Active(b)
  PROVE  OneInv'
  BY DEF OneInv

LEMMA OneStep == TypeInv /\ OneInv /\ [Next]_vars => OneInv'
<1> SUFFICES ASSUME TypeInv, OneInv, [Next]_vars PROVE OneInv'
  OBVIOUS
<1>a. op \in [Box -> Reconcile] /\ cron \in [Box -> SUBSET JobSpec] /\ job \in [Box -> SUBSET Job]
  BY DEF TypeInv, TypeOK
<1>1. ASSUME NEW b \in Box, NEW elapsed \in BOOLEAN, Reconciling(b, elapsed)
      PROVE  OneInv'
  <2>1. UNCHANGED jobs /\ \A x \in Box \ {b} : op'[x] = op[x]
    BY <1>1, <1>a DEF Reconciling
  <2>2. op'[b].pc \in {"crons", "already"}
    BY <1>1, <1>a DEF Reconciling
  <2>3. QED
    BY <2>1, <2>2 DEF OneInv, Active, jobs
<1>2. ASSUME NEW b \in Box, PatchAlreadyJoined(b) \/ PatchStatus(b) \/ AbortReconcile(b)
      PROVE  OneInv'
  <2>1. UNCHANGED jobs /\ op' = [op EXCEPT ![b] = Idle]
    BY <1>2 DEF PatchAlreadyJoined, PatchStatus, AbortReconcile
  <2>2. QED
    BY <2>1, <1>a DEF OneInv, Active, jobs, Idle
<1>3. ASSUME NEW b \in Box, DeleteCronJobs(b)
      PROVE  OneInv'
  <2>1. /\ job' = job
        /\ cron' = [cron EXCEPT ![b] = {}]
        /\ op'[b].pc = "jobs"
        /\ \A x \in Box \ {b} : op'[x] = op[x]
    BY <1>3, <1>a DEF DeleteCronJobs, Reconcile
  <2>2. QED
    BY <2>1, <1>a DEF OneInv, Active
<1>4. ASSUME NEW b \in Box, DeleteJobs(b)
      PROVE  OneInv'
  <2>1. /\ cron' = cron /\ cron[b] = {}
        /\ job' = [job EXCEPT ![b] = {}]
        /\ op'[b].pc = "load"
        /\ \A x \in Box \ {b} : op'[x] = op[x]
    BY <1>4, <1>a DEF DeleteJobs, OneInv, Reconcile
  <2>2. QED
    BY <2>1, <1>a DEF OneInv, Active
<1>5. ASSUME NEW b \in Box, LoadClusterState(b)
      PROVE  OneInv'
  <2>1. UNCHANGED jobs /\ cron[b] = {} /\ Active(b) = {}
    BY <1>5 DEF LoadClusterState, OneInv
  <2>2. \A x \in Box \ {b} : op'[x] = op[x]
    BY <1>5, <1>a DEF LoadClusterState
  <2>3. QED
    BY <2>1, <2>2 DEF OneInv, Active, jobs
<1>6. ASSUME NEW b \in Box, CreateJob(b)
      PROVE  OneInv'
  <2>1. cron[b] = {} /\ Active(b) = {}
    BY <1>6 DEF CreateJob, OneInv
  <2>2. op'[b].pc \in {"idle", "patch"} /\ \A x \in Box \ {b} : op'[x] = op[x]
    BY <1>6, <1>a DEF CreateJob, Idle, Reconcile
  <2>3. PICK spec : \/ cron' = [cron EXCEPT ![b] = @ \union {spec}] /\ UNCHANGED job
                    \/ job' = [job EXCEPT ![b] = @ \union {Run(spec)}] /\ UNCHANGED cron
    BY <1>6 DEF CreateJob
  <2>4. CASE cron' = [cron EXCEPT ![b] = @ \union {spec}] /\ UNCHANGED job
    BY <2>1, <2>2, <2>4, <1>a DEF OneInv, Active
  <2>5. CASE job' = [job EXCEPT ![b] = @ \union {Run(spec)}] /\ UNCHANGED cron
    <3>1. Active(b)' \subseteq {Run(spec)} /\ \A x \in Box \ {b} : Active(x)' = Active(x)
      BY <2>1, <2>5, <1>a DEF Active
    <3>2. QED
      BY <2>1, <2>2, <2>5, <3>1 DEF OneInv
  <2>6. QED
    BY <2>3, <2>4, <2>5
<1>7. ASSUME NEW b \in Box, CronFires(b)
      PROVE  OneInv'
  <2>1. PICK spec \in cron[b] :
          job' = [job EXCEPT ![b] =
             {j \in @ : ~(j.phase = "active" /\ j.spec.task = spec.task)} \union {Run(spec)}]
    BY <1>7 DEF CronFires
  <2>2. Active(b)' \subseteq {Run(spec)} /\ \A x \in Box \ {b} : Active(x)' = Active(x)
    BY <2>1, <1>a DEF Active, OneInv
  <2>4. \A other \in cron[b] : other.task = spec.task
    BY <2>1 DEF OneInv
  <2>5. UNCHANGED cron /\ UNCHANGED op
    BY <1>7 DEF CronFires
  <2>6. QED
    BY <2>1, <2>2, <2>4, <2>5 DEF OneInv, Run
<1>8. ASSUME NEW b \in Box, Monitor(b) \/ WatchBox(b) \/ Regroup(b)
      PROVE  OneInv'
  BY <1>8, OnlyFewer DEF Monitor, MonitorJob, MonitorPatch, WatchBox, Regroup, Active, jobs
<1>9. ASSUME NEW r \in Request, Gateway(r)
      PROVE  OneInv'
  <2>1. CASE CreateBox(r) \/ GatewayPatchSpec(r) \/ GatewayFails(r)
    BY <2>1, OnlyFewer DEF CreateBox, GatewayPatchSpec, GatewayFails, Active, jobs
  <2>2. CASE GatewayPatchStatus(r)
    <3>1. UNCHANGED cron /\ UNCHANGED op
      BY <2>2 DEF GatewayPatchStatus
    <3>2. \A x \in Box : Active(x)' \subseteq Active(x)
      BY <2>2, <1>a DEF GatewayPatchStatus, Active, Job
    <3>3. QED
      BY <3>1, <3>2, OnlyFewer
  <2>3. QED
    BY <1>9, <2>1, <2>2 DEF Gateway
<1>10. ASSUME NEW b \in Box, JobSucceeds(b) \/ JobFails(b) \/ JobCollected(b)
       PROVE  OneInv'
  <2>1. UNCHANGED cron /\ UNCHANGED op
    BY <1>10 DEF JobSucceeds, JobFails, JobCollected
  <2>2. ASSUME NEW j \in Active(b), NEW phase \in {"succeeded", "failed"}, End(b, j, phase)
        PROVE  \A x \in Box : Active(x)' \subseteq Active(x)
    BY <2>2, <1>a DEF End, Active, Job
  <2>3. \A x \in Box : Active(x)' \subseteq Active(x)
    <3>1. CASE JobCollected(b)
      BY <3>1, <1>a DEF JobCollected, Active
    <3>2. CASE JobSucceeds(b) \/ JobFails(b)
      BY <3>2, <2>2 DEF JobSucceeds, JobFails
    <3>3. QED
      BY <1>10, <3>1, <3>2
  <2>4. QED
    BY <2>1, <2>3, OnlyFewer
<1>11. ASSUME NEW b \in Box, NEW r \in Request, CommissionSubmits(b, r) \/ Boot(b, r)
       PROVE  OneInv'
  BY <1>11, OnlyFewer DEF CommissionSubmits, Boot, Active, jobs
<1>12. CASE UNCHANGED vars
  BY <1>12, OnlyFewer DEF vars, Active
<1>13. QED
  BY <1>1, <1>2, <1>3, <1>4, <1>5, <1>6, <1>7, <1>8, <1>9, <1>10, <1>11, <1>12
  DEF Next, Operator, Environment

(* Never two playbooks on one machine, however the reconcile's calls, the
   CronJobs, the monitor, the gateway and the admin interleave, and wherever a
   reconcile is cut off. *)
THEOREM OneJobPerBox == Spec => []AtMostOneJob
<1>1. Init => TypeInv /\ OneInv
  BY TypeInit DEF Init, OneInv, Active
<1>2. TypeInv /\ OneInv /\ [Next]_vars => (TypeInv /\ OneInv)'
  BY TypeStep, OneStep
<1>3. TypeInv /\ OneInv => AtMostOneJob
  BY DEF OneInv, AtMostOneJob
<1>4. QED
  BY <1>1, <1>2, <1>3, PTL DEF Spec

-----------------------------------------------------------------------------
(* What is about to be written is never Joining, except by PatchStatus. *)
BindInv ==
    /\ JoiningIsBound
    /\ \A b \in Box : mon[b] \subseteq {"Failed", "Running"}
    /\ \A r \in Request : req[r] # None => req[r].status.state \in {"New", "Ready"}

LEMMA StatusWritten ==
  ASSUME TypeOK, JoiningIsBound, NEW b \in Box, NEW st,
         status' = [status EXCEPT ![b] = st],
         st = None \/ st.state # "Joining" \/ st.bind # None
  PROVE  JoiningIsBound'
  BY DEF TypeOK, JoiningIsBound, Live, StateIn, BindIn

LEMMA StatusKept ==
  ASSUME JoiningIsBound, UNCHANGED status
  PROVE  JoiningIsBound'
  BY DEF JoiningIsBound, Live, StateIn, BindIn

LEMMA BindStep == TypeInv /\ BindInv /\ [Next]_vars => BindInv'
<1> SUFFICES ASSUME TypeInv, BindInv, [Next]_vars PROVE BindInv'
  OBVIOUS
<1>a. TypeOK /\ JoiningIsBound
  BY DEF TypeInv, BindInv
<1>1. ASSUME NEW b \in Box, NEW elapsed \in BOOLEAN,
             \/ Reconciling(b, elapsed)
             \/ DeleteCronJobs(b) \/ DeleteJobs(b) \/ LoadClusterState(b)
             \/ CreateJob(b) \/ AbortReconcile(b)
      PROVE  BindInv'
  <2>1. UNCHANGED <<status, mon, req>>
    BY <1>1 DEF Reconciling, DeleteCronJobs, DeleteJobs, LoadClusterState, CreateJob,
                AbortReconcile, api
  <2>2. QED
    BY <2>1, <1>a, StatusKept DEF BindInv
<1>2. ASSUME NEW b \in Box, PatchAlreadyJoined(b)
      PROVE  BindInv'
  <2> DEFINE st == [op[b].data.status EXCEPT !.state = "Running"]
  <2>1. op[b].data.status \in Status
    BY <1>2 DEF PatchAlreadyJoined, TypeInv, TypeOK, OpOK, Reconcile, Object
  <2>2. st.state = "Running" /\ status' = [status EXCEPT ![b] = st]
    BY <1>2, <2>1 DEF PatchAlreadyJoined, Status
  <2>3. JoiningIsBound'
    <3> HIDE DEF st
    <3> QED
      BY <2>2, <1>a, StatusWritten
  <2>4. QED
    BY <1>2, <2>3 DEF PatchAlreadyJoined, BindInv
<1>3. ASSUME NEW b \in Box, PatchStatus(b)
      PROVE  BindInv'
  <2>1. op[b].data.group # None
    BY <1>3 DEF PatchStatus, TypeInv, OpOK
  <2>2. NewStatus(op[b]).state # "Joining" \/ NewStatus(op[b]).bind # None
    BY <2>1 DEF NewStatus
  <2>3. JoiningIsBound'
    BY <1>3, <2>2, <1>a, StatusWritten DEF PatchStatus
  <2>4. QED
    BY <1>3, <2>3 DEF PatchStatus, BindInv
<1>4. ASSUME NEW b \in Box, Monitor(b)
      PROVE  BindInv'
  <2>1. CASE MonitorJob(b)
    <3>1. \A j : Verdict(j) \subseteq {"Failed", "Running"}
      BY DEF Verdict
    <3>2. \A x \in Box : mon'[x] \subseteq {"Failed", "Running"}
      BY <2>1, <3>1, <1>a DEF MonitorJob, BindInv, TypeOK
    <3>3. UNCHANGED <<status, req>>
      BY <2>1 DEF MonitorJob, api
    <3>4. QED
      BY <3>2, <3>3, <1>a, StatusKept DEF BindInv
  <2>2. CASE MonitorPatch(b)
    <3>1. PICK s \in mon[b] :
            /\ status' = [status EXCEPT ![b] =
                 IF @ = None THEN [state |-> s, access |-> FALSE, bind |-> None]
                 ELSE [@ EXCEPT !.state = s]]
            /\ mon' = [mon EXCEPT ![b] = @ \ {s}]
      BY <2>2 DEF MonitorPatch
    <3> DEFINE st == IF status[b] = None THEN [state |-> s, access |-> FALSE, bind |-> None]
                     ELSE [status[b] EXCEPT !.state = s]
    <3>2. s # "Joining"
      BY DEF BindInv
    <3>3. st.state # "Joining"
      BY <3>2, <1>a DEF TypeOK, Status
    <3>4. status' = [status EXCEPT ![b] = st]
      BY <3>1, <1>a DEF TypeOK
    <3>5. JoiningIsBound'
      <4> HIDE DEF st
      <4> QED
        BY <3>3, <3>4, <1>a, StatusWritten
    <3>6. \A x \in Box : mon'[x] \subseteq {"Failed", "Running"}
      BY <3>1, <1>a DEF BindInv, TypeOK
    <3>7. QED
      BY <2>2, <3>5, <3>6 DEF MonitorPatch, BindInv
  <2>3. QED
    BY <1>4, <2>1, <2>2 DEF Monitor
<1>5. ASSUME NEW r \in Request, CreateBox(r) \/ GatewayPatchSpec(r) \/ GatewayFails(r)
      PROVE  BindInv'
  <2>1. UNCHANGED <<status, mon>>
    BY <1>5 DEF CreateBox, GatewayPatchSpec, GatewayFails, api
  <2>2. req[r] # None /\ req[r] \in Handling
    BY <1>5, <1>a DEF CreateBox, GatewayPatchSpec, GatewayFails, TypeOK
  <2>3. \/ req' = [req EXCEPT ![r] = None]
        \/ req' = [req EXCEPT ![r] = [req[r] EXCEPT !.pc = "status"]]
    BY <1>5 DEF CreateBox, GatewayPatchSpec, GatewayFails
  <2>4. [req[r] EXCEPT !.pc = "status"].status = req[r].status
    BY <2>2 DEF Handling
  <2>5. \A q \in Request : req'[q] # None => req'[q].status.state \in {"New", "Ready"}
    BY <2>2, <2>3, <2>4, <1>a DEF BindInv, TypeOK
  <2>6. QED
    BY <2>1, <2>5, <1>a, StatusKept DEF BindInv
<1>6. ASSUME NEW r \in Request, GatewayPatchStatus(r)
      PROVE  BindInv'
  <2>1. req[r] # None /\ req[r] \in Handling
    BY <1>6, <1>a DEF GatewayPatchStatus, TypeOK
  <2>2. req[r].status.state # "Joining" /\ req[r].box \in Box
    BY <2>1 DEF BindInv, Handling
  <2>3. status' = [status EXCEPT ![req[r].box] = req[r].status]
    BY <1>6 DEF GatewayPatchStatus
  <2>4. JoiningIsBound'
    BY <2>2, <2>3, <1>a, StatusWritten
  <2>5. \A q \in Request : req'[q] # None => req'[q].status.state \in {"New", "Ready"}
    BY <1>6, <1>a DEF GatewayPatchStatus, BindInv, TypeOK
  <2>6. QED
    BY <1>6, <2>4, <2>5 DEF GatewayPatchStatus, BindInv
<1>7. ASSUME NEW b \in Box,
             \/ WatchBox(b) \/ CronFires(b) \/ JobSucceeds(b) \/ JobFails(b)
             \/ JobCollected(b) \/ Regroup(b)
      PROVE  BindInv'
  <2>1. UNCHANGED <<status, mon, req>>
    BY <1>7 DEF WatchBox, CronFires, JobSucceeds, JobFails, JobCollected, Regroup, api
  <2>2. QED
    BY <2>1, <1>a, StatusKept DEF BindInv
<1>8. ASSUME NEW b \in Box, NEW r \in Request, CommissionSubmits(b, r) \/ Boot(b, r)
      PROVE  BindInv'
  <2>1. UNCHANGED <<status, mon>>
    BY <1>8 DEF CommissionSubmits, Boot, api
  <2>2. PICK s \in {"New", "Ready"} :
          \E pc, g, x : Accept(r, b, pc, g, Submitted(s, x))
    BY <1>8 DEF CommissionSubmits, PostCommission, Boot, GetNew
  <2>3. \A q \in Request : req'[q] # None => req'[q].status.state \in {"New", "Ready"}
    BY <2>2, <1>a DEF Accept, Submitted, BindInv, TypeOK
  <2>4. QED
    BY <2>1, <2>3, <1>a, StatusKept DEF BindInv
<1>9. CASE UNCHANGED vars
  BY <1>9, <1>a, StatusKept DEF vars, BindInv
<1>10. QED
  BY <1>1, <1>2, <1>3, <1>4, <1>5, <1>6, <1>7, <1>8, <1>9
  DEF Next, Operator, Gateway, Environment

(* A box is shown Joining only together with the group it joins, although the
   monitor and the gateway overwrite parts of the same status at any time. *)
THEOREM JoiningBound == Spec => []JoiningIsBound
<1>1. Init => TypeInv /\ BindInv
  BY TypeInit DEF Init, BindInv, JoiningIsBound, Live, StateIn
<1>2. TypeInv /\ BindInv /\ [Next]_vars => (TypeInv /\ BindInv)'
  BY TypeStep, BindStep
<1>3. TypeInv /\ BindInv => JoiningIsBound
  BY DEF BindInv
<1>4. QED
  BY <1>1, <1>2, <1>3, PTL DEF Spec

-----------------------------------------------------------------------------
(* What a Running status says is true, and no machine is wiped that is where it
   should be: with Prompt, for boxes whose calls are over before the next event
   of the same box, and faults that are counted.  The state and the group that
   the status of a box shows: *)
StateOf(b) == StateIn(Live(b))
BoundTo(b) == BindIn(Live(b))

Placed(b) == StateOf(b) \in {"Ready", "Running"}
InPlace(b) == node[b] # None /\ BoundTo(b) # None /\ node[b].cluster = BoundTo(b).cluster

Unbroken == spent["abort"] = 0
Unhurried == spent["rash"] = 0

(* Three programs can be at a box: the operator, the monitor, which has a verdict
   to tell, and the gateway, which has been asked. *)
Told(b) == mon[b] # {} \/ \E j \in job[b] : Verdict(j) # {}
Asked(r, b) == req[r] # None /\ req[r].box = b

OneThing(b) ==
    /\ op[b].pc # "idle" => ~Told(b) /\ \A r \in Request : ~Asked(r, b)
    /\ \A r \in Request : Asked(r, b) => ~Told(b) /\ \A q \in Request : Asked(q, b) => q = r
    /\ Told(b) => Active(b) = {}

(* A reconcile is about the status as it is, *)
Working(b) ==
    op[b].pc # "idle" =>
        /\ op[b].data.status = status[b]
        /\ op[b].pc = "already" => op[b].next = "Joining" /\ BoundTo(b) = op[b].data.group
        /\ op[b].next = "Joining" => StateOf(b) = "Ready"
        /\ op[b].next = "Commissioning" => StateOf(b) = "New"
        /\ op[b].next = "Running" => StateOf(b) = "Running"
        /\ op[b].pc \in {"load", "create"} => job[b] = {}
        /\ op[b].pc = "patch" =>
              /\ op[b].next # StateOf(b)
              /\ \A j \in job[b] : /\ j.spec.task = TaskOf(op[b].next)
                                   /\ op[b].next = "Joining" => j.spec.group = op[b].data.group

Binding(b) == op[b].pc = "patch" /\ op[b].next = "Joining"

Crons(b) == \A spec \in cron[b] : spec.task \in {"ping", "reset"} /\ spec.group = None

(* a commission resets the disk unless the box is bound to its group, and keeps it
   only then; *)
Commissions(b) ==
    \A j \in Active(b) : j.spec.task = "commission" =>
        /\ j.spec.group # None
        /\ j.spec.reset => BoundTo(b) # j.spec.group
        /\ Kept(b, j.spec) => BoundTo(b) = j.spec.group
        /\ Unbroken /\ Placed(b) /\ BoundTo(b) # None => Kept(b, j.spec)

(* a join is that of the group the box is bound to, or is about to be. *)
Joins(b) ==
    \A j \in job[b] : j.spec.task = "join" =>
        /\ j.spec.group # None
        /\ Unbroken => Binding(b) \/ BoundTo(b) = j.spec.group
        /\ Unbroken /\ Placed(b) /\ j.phase = "active" => Binding(b)
        /\ j.phase = "succeeded" => node[b] = j.spec.group

Telling(b) == Unbroken /\ "Running" \in mon[b] => InPlace(b)

(* The gateway writes what is there, or what a commission reports. *)
Answers(r, b) ==
    /\ req[r].status.state = "New" => req[r].status.bind = BoundTo(b)
    /\ req[r].status.state = "Ready" =>
          \E j \in Active(b) :
              /\ j.spec.task = "commission"
              /\ req[r].status.bind = IF Kept(b, j.spec) THEN BoundTo(b) ELSE None
    /\ req[r].pc = "spec" =>
          /\ req[r].status.state = "Ready" /\ req[r].group # None
          /\ Unhurried => req[r].group = group[b]
    /\ req[r].pc = "create" => req[r].status.state = "New"
    /\ req[r].pc # "create" => group[b] # None
Asking(b) == \A r \in Request : Asked(r, b) => Answers(r, b)

Truly(b) ==
    Unbroken /\ Placed(b) =>
        /\ StateOf(b) = "Running" => BoundTo(b) # None
        /\ BoundTo(b) # None => InPlace(b)

(* Unless the admin has been rash, what is done to a box is about the group it is in. *)
Fresh(b) ==
    Unhurried =>
        /\ op[b].pc # "idle" => op[b].data.group = group[b]
        /\ \A j \in Active(b) : j.spec.group # None => j.spec.group = group[b]

Absent(b) ==
    group[b] = None =>
        status[b] = None /\ op[b].pc = "idle" /\ cron[b] = {} /\ job[b] = {} /\ mon[b] = {}

BoxOK(b) ==
    /\ OneThing(b) /\ Working(b) /\ Crons(b) /\ Commissions(b) /\ Joins(b)
    /\ Telling(b) /\ Asking(b) /\ Truly(b) /\ Fresh(b) /\ Absent(b)

TrueInv == TypeInv /\ OneInv /\ BindInv /\ \A b \in Box : BoxOK(b)

Counted == Prompt /\ "abort" \notin Free /\ "rash" \notin Free

(* Faults are not forgotten. *)
Later ==
    /\ spent'["abort"] = 0 => spent["abort"] = 0
    /\ spent'["rash"] = 0 => spent["rash"] = 0

LEMMA SpendLater ==
  ASSUME TypeInv, NEW f \in Fault, Spend(f) \/ UNCHANGED spent
  PROVE  Later
<1>1. spent \in [Fault -> Nat] /\ "abort" \in Fault /\ "rash" \in Fault
  BY DEF TypeInv, TypeOK, Fault
<1>2. CASE UNCHANGED spent
  BY <1>2 DEF Later
<1>3. CASE f \notin Free /\ spent' = [spent EXCEPT ![f] = @ + 1]
  BY <1>1, <1>3 DEF Later
<1>4. QED
  BY <1>2, <1>3 DEF Spend

LEMMA SpendCounts ==
  ASSUME TypeInv, NEW f \in Fault, f \notin Free, Spend(f)
  PROVE  spent'[f] # 0
BY DEF Spend, TypeInv, TypeOK

(* The facts about one box that its invariant is about. *)
LEMMA BoxTypes ==
  ASSUME TypeInv, NEW b \in Box
  PROVE  /\ group[b] \in Group \union {None} /\ node[b] \in Group \union {None}
         /\ status[b] \in Status \union {None}
         /\ op[b] \in Reconcile /\ op[b].data \in Object
         /\ job[b] \subseteq Job /\ cron[b] \subseteq JobSpec
         /\ StateOf(b) \in State /\ BoundTo(b) \in Group \union {None}
         /\ op[b].pc # "idle" => op[b].data.group # None
<1>1. Live(b) \in Object
  BY LiveType DEF TypeInv
<1>2. StateOf(b) \in State /\ BoundTo(b) \in Group \union {None}
  BY <1>1, ReadTypes DEF StateOf, BoundTo
<1>3. QED
  BY <1>2 DEF TypeInv, TypeOK, OpOK, Reconcile

LEMMA JobTypes ==
  ASSUME TypeInv, NEW b \in Box, NEW j \in job[b]
  PROVE  /\ j \in Job /\ j.spec \in JobSpec /\ j.phase \in Phase
         /\ j.spec.group \in Group \union {None} /\ j.spec.task \in Task
         /\ j.phase = "active" <=> j \in Active(b)
BY BoxTypes DEF Job, JobSpec, Active

(* A join that has ended has a verdict. *)
LEMMA EndedJoin ==
  ASSUME TypeInv, NEW b \in Box, NEW j \in job[b], j.spec.task = "join" \/ j.phase = "failed",
         j.phase # "active"
  PROVE  Told(b)
<1>1. j.phase \in {"succeeded", "failed"}
  BY JobTypes DEF Phase
<1>2. Verdict(j) # {}
  BY <1>1 DEF Verdict
<1>3. QED
  BY <1>2 DEF Told

LEMMA NoVerdict ==
  ASSUME NEW j, j.phase = "active"
  PROVE  Verdict(j) = {}
BY DEF Verdict

(* The state and the group are read off the status alone. *)
LEMMA ReadStatus ==
  ASSUME NEW b \in Box
  PROVE  /\ StateOf(b) = IF status[b] = None THEN "New" ELSE status[b].state
         /\ BoundTo(b) = IF status[b] = None THEN None ELSE status[b].bind
BY DEF StateOf, BoundTo, StateIn, BindIn, Live

-----------------------------------------------------------------------------
(* Frames *)

(* Nothing happens to x. *)
SameBox(x) ==
    /\ group'[x] = group[x] /\ status'[x] = status[x] /\ op'[x] = op[x]
    /\ cron'[x] = cron[x] /\ job'[x] = job[x] /\ mon'[x] = mon[x] /\ node'[x] = node[x]
    /\ \A r \in Request : Asked(r, x) \/ Asked(r, x)' => req'[r] = req[r]

LEMMA SameRead ==
  ASSUME NEW x \in Box, status'[x] = status[x]
  PROVE  StateOf(x)' = StateOf(x) /\ BoundTo(x)' = BoundTo(x) /\ Placed(x)' = Placed(x)
BY DEF StateOf, BoundTo, StateIn, BindIn, Live, Placed

LEMMA Apart ==
  ASSUME NEW x \in Box, BoxOK(x), SameBox(x), Later
  PROVE  BoxOK(x)'
<1>1. StateOf(x)' = StateOf(x) /\ BoundTo(x)' = BoundTo(x) /\ Placed(x)' = Placed(x)
  BY SameRead DEF SameBox
<1>2. Active(x)' = Active(x) /\ Told(x)' = Told(x) /\ Binding(x)' = Binding(x)
  BY DEF SameBox, Active, Told, Binding
<1>3. \A r \in Request : Asked(r, x)' = Asked(r, x)
  BY DEF SameBox, Asked
<1>4. InPlace(x)' = InPlace(x) /\ \A spec : Kept(x, spec)' = Kept(x, spec)
  BY <1>1 DEF SameBox, InPlace, Kept
<1>5. (Unbroken' => Unbroken) /\ (Unhurried' => Unhurried)
  BY DEF Later, Unbroken, Unhurried
<1>6. OneThing(x)'
  BY <1>2, <1>3 DEF BoxOK, OneThing, SameBox
<1>7. Working(x)' /\ Crons(x)'
  BY <1>1 DEF BoxOK, Working, Crons, SameBox
<1>8. Commissions(x)'
  BY <1>1, <1>2, <1>4, <1>5 DEF BoxOK, Commissions
<1>9. Joins(x)'
  BY <1>1, <1>2, <1>5 DEF BoxOK, Joins, SameBox
<1>10. Telling(x)' /\ Truly(x)'
  BY <1>1, <1>4, <1>5 DEF BoxOK, Telling, Truly, SameBox
<1>11. Asking(x)'
  <2>1. SUFFICES ASSUME NEW r \in Request, Asked(r, x), Answers(r, x) PROVE Answers(r, x)'
    BY <1>3 DEF BoxOK, Asking
  <2>2. req'[r] = req[r] /\ group'[x] = group[x]
    BY <2>1 DEF SameBox
  <2>3. QED
    BY <1>1, <1>2, <1>4, <1>5, <2>1, <2>2 DEF Answers
<1>12. Fresh(x)' /\ Absent(x)'
  BY <1>2, <1>5 DEF BoxOK, Fresh, Absent, SameBox
<1>13. QED
  BY <1>6, <1>7, <1>8, <1>9, <1>10, <1>11, <1>12 DEF BoxOK

-----------------------------------------------------------------------------
(* The operator's steps that write nothing but its own reconcile. *)

LEMMA OpMoves ==
  ASSUME TypeInv, NEW b \in Box, BoxOK(b), Later,
         group'[b] = group[b], status'[b] = status[b], job'[b] = job[b], mon'[b] = mon[b],
         node'[b] = node[b], UNCHANGED req, cron'[b] \subseteq cron[b],
         Unbroken' => (Binding(b) => Binding(b)'),
         Working(b)',
         op'[b].pc # "idle" =>
             /\ ~Told(b) /\ \A r \in Request : ~Asked(r, b)
             /\ group[b] # None
             /\ Unhurried => op'[b].data.group = group[b]
  PROVE  BoxOK(b)'
<1>1. StateOf(b)' = StateOf(b) /\ BoundTo(b)' = BoundTo(b) /\ Placed(b)' = Placed(b)
  BY SameRead
<1>2. Active(b)' = Active(b) /\ Told(b)' = Told(b)
  BY DEF Active, Told
<1>3. \A r \in Request : Asked(r, b)' = Asked(r, b)
  BY DEF Asked
<1>4. InPlace(b)' = InPlace(b) /\ \A spec : Kept(b, spec)' = Kept(b, spec)
  BY <1>1 DEF InPlace, Kept
<1>5. (Unbroken' => Unbroken) /\ (Unhurried' => Unhurried)
  BY DEF Later, Unbroken, Unhurried
<1>6. OneThing(b)'
  BY <1>2, <1>3 DEF BoxOK, OneThing
<1>7. Crons(b)'
  BY DEF BoxOK, Crons
<1>8. Commissions(b)'
  BY <1>1, <1>2, <1>4, <1>5 DEF BoxOK, Commissions
<1>9. Joins(b)'
  BY <1>1, <1>2, <1>5 DEF BoxOK, Joins
<1>10. Telling(b)' /\ Truly(b)'
  BY <1>1, <1>4, <1>5 DEF BoxOK, Telling, Truly
<1>11. Asking(b)'
  <2>1. SUFFICES ASSUME NEW r \in Request, Asked(r, b), Answers(r, b) PROVE Answers(r, b)'
    BY <1>3 DEF BoxOK, Asking
  <2>2. QED
    BY <1>1, <1>2, <1>4, <1>5, <2>1 DEF Answers
<1>12. Fresh(b)'
  BY <1>2, <1>5 DEF BoxOK, Fresh
<1>13. Absent(b)'
  BY DEF BoxOK, Absent
<1>14. QED
  BY <1>6, <1>7, <1>8, <1>9, <1>10, <1>11, <1>12, <1>13 DEF BoxOK

(* A reconcile asks for a join of a box that is ready, a commission of a new one,
   and pings one that runs. *)
LEMMA TargetReads ==
  ASSUME NEW d \in Object, NEW elapsed \in BOOLEAN
  PROVE  /\ Target(d, elapsed) = "Joining" => StateIn(d) \in {"Ready", "Joining"}
         /\ Target(d, elapsed) = "Commissioning" => StateIn(d) \in {"New", "Commissioning"}
         /\ Target(d, elapsed) = "Running" => StateIn(d) = "Running"
<1>1. StateIn(d) \in State
  BY ReadTypes
<1>2. QED
  BY <1>1 DEF Target, NextOf, HasTimeout, State

(* A step of a reconcile of b is no other box's. *)
LEMMA OpApart ==
  ASSUME TrueInv, NEW b \in Box, Later, UNCHANGED req,
         \A x \in Box \ {b} :
             /\ group'[x] = group[x] /\ status'[x] = status[x] /\ op'[x] = op[x]
             /\ cron'[x] = cron[x] /\ job'[x] = job[x] /\ mon'[x] = mon[x]
             /\ node'[x] = node[x]
  PROVE  \A x \in Box \ {b} : BoxOK(x)'
<1> SUFFICES ASSUME NEW x \in Box \ {b} PROVE BoxOK(x)'
  OBVIOUS
<1>1. SameBox(x)
  BY DEF SameBox, Asked
<1>2. BoxOK(x)
  BY DEF TrueInv
<1>3. QED
  BY <1>1, <1>2, Apart

LEMMA ReconcilingTrue ==
  ASSUME TrueInv, Counted, NEW b \in Box, NEW elapsed \in BOOLEAN, Reconciling(b, elapsed)
  PROVE  \A x \in Box : BoxOK(x)'
<1> DEFINE d == cache[b]
           new == Target(d, elapsed)
<1>1. TypeInv /\ BoxOK(b) /\ op \in [Box -> Reconcile] /\ cache \in [Box -> Object]
  BY DEF TrueInv, TypeInv, TypeOK
<1>2. Settled(b) /\ d = Live(b) /\ d \in Object /\ op[b].pc = "idle"
  BY <1>1 DEF Reconciling, MayStart, Counted, Settled
<1>3. d.group = group[b] /\ d.status = status[b] /\ StateIn(d) = StateOf(b) /\ BindIn(d) = BoundTo(b)
  BY <1>2 DEF Live, StateOf, BoundTo
<1>4. UNCHANGED <<group, status, cron, job, mon, req, node>>
  BY DEF Reconciling, api, jobs
<1>5. Later
  <2>1. "elapse" \in Fault /\ (Spend("elapse") \/ UNCHANGED spent)
    BY DEF Reconciling, Fault
  <2>2. QED
    BY <1>1, <2>1, SpendLater
<1>6. PICK pc \in {"crons", "already"} :
        /\ op' = [op EXCEPT ![b] = [pc |-> pc, data |-> d, next |-> new, isNew |-> FALSE]]
        /\ \/ new = "Joining" /\ StateIn(d) # "Joining" /\ (pc = "already" => ~BindUpdated(d))
           \/ /\ ~(new = "Joining" /\ StateIn(d) # "Joining")
              /\ new # StateIn(d) \/ HasCron(new)
              /\ pc = "crons"
  <2>1. CASE new = "Joining" /\ StateIn(d) # "Joining"
    <3>1. CASE BindUpdated(d)
      BY <2>1, <3>1 DEF Reconciling
    <3>2. CASE ~BindUpdated(d)
      BY <2>1, <3>2 DEF Reconciling
    <3>3. QED
      BY <3>1, <3>2
  <2>2. CASE ~(new = "Joining" /\ StateIn(d) # "Joining")
    BY <2>2 DEF Reconciling
  <2>3. QED
    BY <2>1, <2>2
<1>7. /\ op'[b].pc = pc /\ op'[b].data = d /\ op'[b].next = new
      /\ \A x \in Box \ {b} : op'[x] = op[x]
  <2> HIDE DEF d, new
  <2> QED
    BY <1>1, <1>6
<1>8. /\ new = "Joining" => StateIn(d) = "Ready"
      /\ new = "Commissioning" => StateIn(d) = "New"
      /\ new = "Running" => StateIn(d) = "Running"
  <2>1. /\ new = "Joining" => StateIn(d) \in {"Ready", "Joining"}
        /\ new = "Commissioning" => StateIn(d) \in {"New", "Commissioning"}
        /\ new = "Running" => StateIn(d) = "Running"
    BY <1>2, TargetReads
  <2>2. ~HasCron("Joining") /\ ~HasCron("Commissioning")
    BY DEF HasCron, Resetting
  <2> HIDE DEF d, new
  <2>3. QED
    BY <1>6, <2>1, <2>2
<1>9. pc = "already" => new = "Joining" /\ BindIn(d) = d.group
  <2> HIDE DEF d, new
  <2> QED
    BY <1>6 DEF BindUpdated
<1>10. Working(b)'
  <2>1. StateOf(b)' = StateOf(b) /\ BoundTo(b)' = BoundTo(b)
    BY <1>4, SameRead
  <2> HIDE DEF d, new
  <2>2. QED
    BY <1>3, <1>4, <1>6, <1>7, <1>8, <1>9, <2>1 DEF Working
<1>11. ~Told(b) /\ \A r \in Request : ~Asked(r, b)
  BY <1>2 DEF Settled, Told, Asked
<1>12. group[b] # None
  BY <1>3 DEF Reconciling
<1>13. ~Binding(b)
  BY <1>2 DEF Binding
<1>14. BoxOK(b)'
  <2> HIDE DEF d, new
  <2> QED
    BY <1>1, <1>3, <1>4, <1>5, <1>7, <1>10, <1>11, <1>12, <1>13, OpMoves
<1>15. \A x \in Box \ {b} : BoxOK(x)'
  BY <1>4, <1>5, <1>7, OpApart
<1>16. QED
  BY <1>14, <1>15

(* A reconcile that is under way has the box to itself. *)
LEMMA Alone ==
  ASSUME TrueInv, NEW b \in Box, op[b].pc # "idle"
  PROVE  /\ ~Told(b) /\ mon[b] = {} /\ \A r \in Request : ~Asked(r, b)
         /\ group[b] # None
         /\ Unhurried => op[b].data.group = group[b]
         /\ op[b].data.group # None
         /\ op[b].data.status = status[b]
         /\ StateIn(op[b].data) = StateOf(b) /\ BindIn(op[b].data) = BoundTo(b)
<1>1. BoxOK(b) /\ TypeInv
  BY DEF TrueInv
<1>2. ~Told(b) /\ mon[b] = {} /\ \A r \in Request : ~Asked(r, b)
  BY <1>1 DEF BoxOK, OneThing, Told
<1>3. group[b] # None /\ (Unhurried => op[b].data.group = group[b])
  BY <1>1 DEF BoxOK, Fresh, Absent
<1>4. op[b].data.group # None
  BY <1>1, BoxTypes
<1>5. op[b].data.status = status[b]
  BY <1>1 DEF BoxOK, Working
<1>6. StateIn(op[b].data) = StateOf(b) /\ BindIn(op[b].data) = BoundTo(b)
  BY <1>5, ReadStatus DEF StateIn, BindIn
<1>7. QED
  BY <1>2, <1>3, <1>4, <1>5, <1>6

LEMMA OpStepsTrue ==
  ASSUME TrueInv, Counted, NEW b \in Box,
         DeleteCronJobs(b) \/ LoadClusterState(b) \/ AbortReconcile(b)
  PROVE  \A x \in Box : BoxOK(x)'
<1>1. TypeInv /\ BoxOK(b) /\ op \in [Box -> Reconcile] /\ cron \in [Box -> SUBSET JobSpec]
  BY DEF TrueInv, TypeInv, TypeOK
<1>2. op[b].pc # "idle"
  BY DEF DeleteCronJobs, LoadClusterState, AbortReconcile
<1>3. /\ UNCHANGED <<group, status, job, mon, req, node>>
      /\ cron'[b] \subseteq cron[b] /\ \A x \in Box \ {b} : cron'[x] = cron[x]
  BY <1>1 DEF DeleteCronJobs, LoadClusterState, AbortReconcile, api, jobs
<1>4. "abort" \in Fault /\ (Spend("abort") \/ UNCHANGED spent)
  BY DEF DeleteCronJobs, LoadClusterState, AbortReconcile, Fault
<1>5. Later
  BY <1>1, <1>4, SpendLater
<1>6. StateOf(b)' = StateOf(b) /\ BoundTo(b)' = BoundTo(b)
  BY <1>3, SameRead
<1>7. /\ \A x \in Box \ {b} : op'[x] = op[x]
      /\ \/ op'[b].pc = "idle"
         \/ /\ op[b].pc # "patch" /\ op[b].pc # "already"
            /\ op'[b].pc \in {"jobs", "create"}
            /\ op'[b].pc = "create" => op[b].pc = "load"
            /\ op'[b].data = op[b].data /\ op'[b].next = op[b].next
  <2>1. op[b] \in Reconcile
    BY <1>1
  <2>2. \/ op' = [op EXCEPT ![b] = Idle]
        \/ op[b].pc = "crons" /\ op' = [op EXCEPT ![b] = [op[b] EXCEPT !.pc = "jobs"]]
        \/ /\ op[b].pc = "load"
           /\ \E n : op' = [op EXCEPT ![b] = [op[b] EXCEPT !.pc = "create", !.isNew = n]]
    BY <1>1 DEF DeleteCronJobs, LoadClusterState, AbortReconcile
  <2>3. CASE op' = [op EXCEPT ![b] = Idle]
    BY <1>1, <2>3 DEF Idle
  <2>4. CASE op[b].pc = "crons" /\ op' = [op EXCEPT ![b] = [op[b] EXCEPT !.pc = "jobs"]]
    BY <1>1, <2>1, <2>4 DEF Reconcile
  <2>5. ASSUME NEW n, op[b].pc = "load",
               op' = [op EXCEPT ![b] = [op[b] EXCEPT !.pc = "create", !.isNew = n]]
        PROVE  <1>7!1 /\ <1>7!2
    BY <1>1, <2>1, <2>5 DEF Reconcile
  <2>6. QED
    BY <2>2, <2>3, <2>4, <2>5
<1>8. Unbroken' => (Binding(b) => Binding(b)')
  <2>1. CASE AbortReconcile(b)
    <3>1. spent'["abort"] # 0
      BY <1>1, <1>4, <2>1, SpendCounts DEF AbortReconcile, Counted
    <3>2. QED
      BY <3>1 DEF Unbroken
  <2>2. CASE ~AbortReconcile(b)
    BY <2>2 DEF DeleteCronJobs, LoadClusterState, Binding
  <2>3. QED
    BY <2>1, <2>2
<1>9. Working(b)'
  <2>1. CASE op'[b].pc = "idle"
    BY <2>1 DEF Working
  <2>2. CASE op'[b].pc # "idle"
    BY <1>1, <1>2, <1>3, <1>6, <1>7, <2>2 DEF BoxOK, Working
  <2>3. QED
    BY <2>1, <2>2
<1>10. op'[b].pc # "idle" =>
           /\ ~Told(b) /\ \A r \in Request : ~Asked(r, b)
           /\ group[b] # None
           /\ Unhurried => op'[b].data.group = group[b]
  BY <1>2, <1>7, Alone
<1>11. BoxOK(b)'
  BY <1>1, <1>3, <1>5, <1>8, <1>9, <1>10, OpMoves
<1>12. \A x \in Box \ {b} : BoxOK(x)'
  BY <1>3, <1>5, <1>7, OpApart
<1>13. QED
  BY <1>11, <1>12

-----------------------------------------------------------------------------
(* The Jobs of b are deleted: nothing is said of them any longer, and a join that
   got as far as the kubelet was that of a box that is not shown in its place. *)
LEMMA DeleteJobsTrue ==
  ASSUME TrueInv, Counted, NEW b \in Box, DeleteJobs(b)
  PROVE  \A x \in Box : BoxOK(x)'
<1>1. /\ TypeInv /\ BoxOK(b) /\ op \in [Box -> Reconcile]
      /\ job \in [Box -> SUBSET Job] /\ node \in [Box -> Group \union {None}]
  BY DEF TrueInv, TypeInv, TypeOK
<1>2. op[b].pc = "jobs"
  BY DEF DeleteJobs
<1>3. UNCHANGED <<group, status, cron, mon, req, spent>>
  BY DEF DeleteJobs, api
<1>4. Later
  BY <1>3 DEF Later
<1>5. /\ op'[b].pc = "load" /\ op'[b].data = op[b].data /\ op'[b].next = op[b].next
      /\ \A x \in Box \ {b} : op'[x] = op[x]
  <2>1. op[b] \in Reconcile /\ op' = [op EXCEPT ![b] = [op[b] EXCEPT !.pc = "load"]]
    BY <1>1 DEF DeleteJobs
  <2>2. QED
    BY <1>1, <2>1 DEF Reconcile
<1>6. job'[b] = {} /\ \A x \in Box \ {b} : job'[x] = job[x]
  BY <1>1 DEF DeleteJobs
<1>7. /\ \A x \in Box \ {b} : node'[x] = node[x]
      /\ Unbroken /\ Placed(b) => node'[b] = node[b]
  <2>1. CASE node' = node
    BY <2>1
  <2>2. ASSUME NEW j \in Active(b), HalfWay(b, j)
        PROVE  (\A x \in Box \ {b} : node'[x] = node[x]) /\ ~(Unbroken /\ Placed(b))
    <3>1. j \in job[b] /\ j.phase = "active" /\ j.spec.task = "join"
      BY <2>2 DEF Active, HalfWay
    <3>2. ~Binding(b)
      BY <1>2 DEF Binding
    <3>3. ~(Unbroken /\ Placed(b))
      BY <1>1, <3>1, <3>2 DEF BoxOK, Joins
    <3>4. QED
      BY <1>1, <2>2, <3>3 DEF HalfWay
  <2>3. QED
    BY <2>1, <2>2 DEF DeleteJobs
<1>8. /\ StateOf(b)' = StateOf(b) /\ BoundTo(b)' = BoundTo(b) /\ Placed(b)' = Placed(b)
      /\ (Unbroken' <=> Unbroken) /\ (Unhurried' <=> Unhurried)
  BY <1>3, SameRead DEF Unbroken, Unhurried
<1>9. ~Told(b) /\ mon[b] = {} /\ (\A r \in Request : ~Asked(r, b)) /\ group[b] # None
  BY <1>2, Alone
<1>10. Active(b)' = {} /\ ~Told(b)' /\ \A r \in Request : ~Asked(r, b)'
  BY <1>3, <1>6, <1>9 DEF Active, Told, Asked
<1>11. OneThing(b)' /\ Crons(b)' /\ Commissions(b)' /\ Joins(b)' /\ Asking(b)'
  BY <1>1, <1>3, <1>6, <1>10 DEF BoxOK, OneThing, Crons, Commissions, Joins, Asking
<1>12. Working(b)'
  BY <1>1, <1>2, <1>3, <1>5, <1>6, <1>8 DEF BoxOK, Working
<1>13. Telling(b)' /\ Absent(b)'
  BY <1>3, <1>9 DEF Telling, Absent
<1>14. Truly(b)'
  BY <1>1, <1>7, <1>8 DEF BoxOK, Truly, InPlace
<1>15. Fresh(b)'
  BY <1>1, <1>2, <1>3, <1>5, <1>8, <1>10 DEF BoxOK, Fresh
<1>16. BoxOK(b)'
  BY <1>11, <1>12, <1>13, <1>14, <1>15 DEF BoxOK
<1>17. \A x \in Box \ {b} : BoxOK(x)'
  BY <1>3, <1>4, <1>5, <1>6, <1>7, OpApart
<1>18. QED
  BY <1>16, <1>17

-----------------------------------------------------------------------------
(* The only Job or CronJob of b is created: a commission of a new box, a join of
   a ready one, which is about to be bound to the group it joins. *)
LEMMA CreateJobTrue ==
  ASSUME TrueInv, Counted, NEW b \in Box, CreateJob(b)
  PROVE  \A x \in Box : BoxOK(x)'
<1> DEFINE o == op[b]
           task == TaskOf(o.next)
           spec == [task  |-> task,
                    group |-> IF task \in {"commission", "join"} THEN o.data.group ELSE None,
                    reset |-> task = "commission" /\ ResetFlag(o.data),
                    isNew |-> task = "join" /\ o.isNew]
<1>1. /\ TypeInv /\ OneInv /\ BoxOK(b) /\ op \in [Box -> Reconcile]
      /\ job \in [Box -> SUBSET Job] /\ cron \in [Box -> SUBSET JobSpec]
  BY DEF TrueInv, TypeInv, TypeOK
<1>2. o.pc = "create" /\ op[b].pc # "idle"
  BY DEF CreateJob
<1>3. UNCHANGED <<group, status, mon, req, node, spent>>
  BY DEF CreateJob, api
<1>4. Later
  BY <1>3 DEF Later
<1>5. job[b] = {} /\ cron[b] = {}
  BY <1>1, <1>2 DEF BoxOK, Working, OneInv
<1>6. /\ ~Told(b) /\ mon[b] = {} /\ (\A r \in Request : ~Asked(r, b)) /\ group[b] # None
      /\ o.data.group # None /\ (Unhurried => o.data.group = group[b])
      /\ o.data.status = status[b]
      /\ StateIn(o.data) = StateOf(b) /\ BindIn(o.data) = BoundTo(b)
  BY <1>2, Alone
<1>7. o.next \in State \ {"New", "Ready"}
  BY <1>1, <1>2 DEF TypeInv, OpOK, Reconcile
<1>8. /\ o.next = "Joining" => StateOf(b) = "Ready"
      /\ o.next = "Commissioning" => StateOf(b) = "New"
      /\ o.next = "Running" => StateOf(b) = "Running"
  BY <1>1, <1>2 DEF BoxOK, Working
<1>9. /\ \A x \in Box \ {b} : op'[x] = op[x] /\ job'[x] = job[x] /\ cron'[x] = cron[x]
      /\ \/ o.next = StateOf(b) /\ op'[b].pc = "idle"
         \/ /\ o.next # StateOf(b)
            /\ op'[b].pc = "patch" /\ op'[b].data = o.data /\ op'[b].next = o.next
      /\ \/ HasCron(o.next) /\ cron'[b] = {spec} /\ job'[b] = {}
         \/ ~HasCron(o.next) /\ cron'[b] = {} /\ job'[b] = {Run(spec)}
  <2>1. /\ IF HasCron(o.next)
           THEN cron' = [cron EXCEPT ![b] = cron[b] \union {spec}] /\ UNCHANGED job
           ELSE job' = [job EXCEPT ![b] = job[b] \union {Run(spec)}] /\ UNCHANGED cron
        /\ op' = [op EXCEPT ![b] = IF o.next = StateIn(o.data) THEN Idle
                                   ELSE [o EXCEPT !.pc = "patch"]]
    BY DEF CreateJob
  <2> HIDE DEF spec
  <2>2. IF HasCron(o.next) THEN cron'[b] = {spec} /\ job'[b] = {}
                           ELSE cron'[b] = {} /\ job'[b] = {Run(spec)}
    BY <1>1, <1>5, <2>1
  <2>3. \A x \in Box \ {b} : op'[x] = op[x] /\ job'[x] = job[x] /\ cron'[x] = cron[x]
    BY <1>1, <2>1
  <2>4. op'[b] = IF o.next = StateOf(b) THEN Idle ELSE [o EXCEPT !.pc = "patch"]
    BY <1>1, <1>6, <2>1
  <2>5. o \in Reconcile
    BY <1>1
  <2>6. [o EXCEPT !.pc = "patch"].pc = "patch" /\ [o EXCEPT !.pc = "patch"].data = o.data
        /\ [o EXCEPT !.pc = "patch"].next = o.next
    BY <2>5 DEF Reconcile
  <2> HIDE DEF o
  <2>7. QED
    BY <2>2, <2>3, <2>4, <2>6 DEF Idle
<1>10. /\ spec.task = task /\ spec.reset = (task = "commission" /\ ResetFlag(o.data))
       /\ spec.group = IF task \in {"commission", "join"} THEN o.data.group ELSE None
       /\ Run(spec).spec = spec /\ Run(spec).phase = "active"
  BY DEF Run
<1>11. /\ HasCron(o.next) => task \in {"ping", "reset"} /\ spec.group = None
       /\ ~HasCron(o.next) =>
             /\ (o.next = "Commissioning" /\ task = "commission") \/ (o.next = "Joining" /\ task = "join")
             /\ spec.group = o.data.group
             /\ op'[b].pc = "patch"
  <2>1. HasCron(o.next) => task \in {"ping", "reset"}
    BY <1>7 DEF HasCron, TaskOf, Resetting
  <2>2. ~HasCron(o.next) =>
             (o.next = "Commissioning" /\ task = "commission") \/ (o.next = "Joining" /\ task = "join")
    BY <1>7 DEF HasCron, TaskOf, Resetting, State
  <2> HIDE DEF o, task, spec
  <2>3. ~HasCron(o.next) => o.next # StateOf(b)
    BY <1>8, <2>2
  <2>4. QED
    BY <1>9, <1>10, <2>1, <2>2, <2>3
<1>12. /\ StateOf(b)' = StateOf(b) /\ BoundTo(b)' = BoundTo(b) /\ Placed(b)' = Placed(b)
       /\ (Unbroken' <=> Unbroken) /\ (Unhurried' <=> Unhurried)
  BY <1>3, SameRead DEF Unbroken, Unhurried
<1>13. ~Told(b)' /\ \A r \in Request : ~Asked(r, b)'
  <2>1. \A r \in Request : ~Asked(r, b)'
    BY <1>3, <1>6 DEF Asked
  <2>2. Verdict(Run(spec)) = {}
    BY <1>10, NoVerdict
  <2> HIDE DEF o, task, spec
  <2>3. \A j \in job'[b] : Verdict(j) = {}
    BY <1>9, <2>2
  <2>4. ~Told(b)'
    BY <1>3, <1>6, <2>3 DEF Told, Verdict
  <2>5. QED
    BY <2>1, <2>4
<1>14. BindUpdated(o.data) <=> BoundTo(b) # o.data.group
  BY <1>6 DEF BindUpdated
<1> HIDE DEF o, task, spec
<1>15. OneThing(b)' /\ Asking(b)' /\ Telling(b)' /\ Absent(b)'
  BY <1>3, <1>6, <1>13 DEF OneThing, Asking, Telling, Absent
<1>16. Working(b)'
  <2>1. SUFFICES ASSUME op'[b].pc = "patch" PROVE Working(b)'
    BY <1>9 DEF Working
  <2>2. /\ op'[b].data = o.data /\ op'[b].next = o.next /\ o.next # StateOf(b)
    BY <1>9, <2>1
  <2>3. \A j \in job'[b] : /\ j.spec.task = TaskOf(o.next)
                           /\ o.next = "Joining" => j.spec.group = o.data.group
    BY <1>9, <1>10, <1>11 DEF task
  <2>4. QED
    BY <1>3, <1>6, <1>8, <1>12, <2>1, <2>2, <2>3 DEF Working
<1>17. Crons(b)'
  BY <1>9, <1>10, <1>11 DEF Crons
<1>18. Commissions(b)'
  <2>1. SUFFICES ASSUME NEW j \in Active(b)', j.spec.task = "commission"
                 PROVE  /\ j.spec.group # None
                        /\ j.spec.reset => BoundTo(b)' # j.spec.group
                        /\ Kept(b, j.spec)' => BoundTo(b)' = j.spec.group
                        /\ ~Placed(b)'
    BY DEF Commissions
  <2>2. j = Run(spec) /\ ~HasCron(o.next)
    BY <1>9, <2>1 DEF Active
  <2>3. o.next = "Commissioning" /\ j.spec = spec /\ spec.group = o.data.group
    BY <1>10, <1>11, <2>1, <2>2
  <2>4. spec.reset <=> BoundTo(b) # o.data.group
    BY <1>10, <1>14, <2>1, <2>3 DEF ResetFlag
  <2>5. Kept(b, j.spec)' => ~j.spec.reset
    BY DEF Kept
  <2>6. ~Placed(b)
    BY <1>8, <2>3 DEF Placed
  <2>7. QED
    BY <1>6, <1>12, <2>3, <2>4, <2>5, <2>6
<1>19. Joins(b)'
  <2>1. SUFFICES ASSUME NEW j \in job'[b], j.spec.task = "join"
                 PROVE  j.spec.group # None /\ Binding(b)' /\ j.phase = "active"
    BY DEF Joins
  <2>2. j = Run(spec) /\ ~HasCron(o.next)
    BY <1>9, <2>1
  <2>3. o.next = "Joining" /\ j.spec = spec /\ spec.group = o.data.group /\ j.phase = "active"
    BY <1>10, <1>11, <2>1, <2>2
  <2>4. Binding(b)'
    BY <1>9, <1>11, <2>2, <2>3 DEF Binding
  <2>5. QED
    BY <1>6, <2>3, <2>4
<1>20. Truly(b)'
  BY <1>1, <1>3, <1>12 DEF BoxOK, Truly, InPlace
<1>21. Fresh(b)'
  <2>1. \A j \in Active(b)' : j = Run(spec) /\ ~HasCron(o.next)
    BY <1>9 DEF Active
  <2>2. \A j \in Active(b)' : j.spec.group = o.data.group
    BY <1>10, <1>11, <2>1
  <2>3. op'[b].pc # "idle" => op'[b].data = o.data
    BY <1>9
  <2>4. QED
    BY <1>3, <1>6, <1>12, <2>2, <2>3 DEF Fresh
<1>22. BoxOK(b)'
  BY <1>15, <1>16, <1>17, <1>18, <1>19, <1>20, <1>21 DEF BoxOK
<1>23. \A x \in Box \ {b} : BoxOK(x)'
  BY <1>3, <1>4, <1>9, OpApart
<1>24. QED
  BY <1>22, <1>23

-----------------------------------------------------------------------------
(* The steps that write the status of b. *)

LEMMA Written ==
  ASSUME TypeInv, NEW b \in Box, NEW st \in Status, status' = [status EXCEPT ![b] = st]
  PROVE  /\ StateOf(b)' = st.state /\ BoundTo(b)' = st.bind
         /\ \A x \in Box \ {b} : status'[x] = status[x]
<1>1. status \in [Box -> Status \union {None}]
  BY DEF TypeInv, TypeOK
<1>2. status'[b] = st /\ st # None /\ \A x \in Box \ {b} : status'[x] = status[x]
  BY <1>1, NoneAssumption
<1>3. Live(b)'.status = st
  BY <1>2 DEF Live
<1>4. QED
  BY <1>2, <1>3 DEF StateOf, BoundTo, StateIn, BindIn

(* The reconcile ends: the box is now Joining, and bound to the group it joins,
   Commissioning, or being reset. *)
LEMMA PatchStatusTrue ==
  ASSUME TrueInv, Counted, NEW b \in Box, PatchStatus(b)
  PROVE  \A x \in Box : BoxOK(x)'
<1> DEFINE o == op[b]
<1>1. TypeInv /\ BoxOK(b) /\ op \in [Box -> Reconcile]
  BY DEF TrueInv, TypeInv, TypeOK
<1>2. op[b].pc = "patch" /\ op[b].pc # "idle"
  BY DEF PatchStatus
<1>3. UNCHANGED <<group, cron, job, mon, req, node, spent>>
  BY DEF PatchStatus, jobs
<1>4. Later
  BY <1>3 DEF Later
<1>5. op'[b].pc = "idle" /\ \A x \in Box \ {b} : op'[x] = op[x]
  BY <1>1 DEF PatchStatus, Idle
<1>6. /\ ~Told(b) /\ mon[b] = {} /\ (\A r \in Request : ~Asked(r, b)) /\ group[b] # None
      /\ o.data.group # None /\ (Unhurried => o.data.group = group[b])
      /\ BindIn(o.data) = BoundTo(b)
  BY <1>2, Alone
<1>7. o.next \in State \ {"New", "Ready"}
  BY <1>1, <1>2 DEF TypeInv, OpOK, Reconcile
<1>8. /\ StateOf(b)' = o.next
      /\ BoundTo(b)' = IF o.next = "Joining" THEN o.data.group ELSE BoundTo(b)
      /\ \A x \in Box \ {b} : status'[x] = status[x]
  <2>1. NewStatus(o) \in Status /\ status' = [status EXCEPT ![b] = NewStatus(o)]
    BY <1>1, NewStatusType DEF PatchStatus
  <2>2. NewStatus(o).state = o.next
        /\ NewStatus(o).bind = IF o.next = "Joining" THEN o.data.group ELSE BoundTo(b)
    BY <1>6 DEF NewStatus
  <2> HIDE DEF o
  <2>3. QED
    BY <1>1, <2>1, <2>2, Written
<1>9. ~Placed(b)'
  <2>1. o.next # StateOf(b) /\ (o.next = "Running" => StateOf(b) = "Running")
    BY <1>1, <1>2 DEF BoxOK, Working
  <2>2. QED
    BY <1>7, <1>8, <2>1 DEF Placed
<1>10. \A j \in job[b] : /\ j.spec.task = TaskOf(o.next)
                         /\ o.next = "Joining" => j.spec.group = o.data.group
  BY <1>1, <1>2 DEF BoxOK, Working
<1>11. (TaskOf(o.next) = "join" <=> o.next = "Joining")
  BY <1>7 DEF TaskOf, State, Resetting
<1>12. Active(b)' = Active(b) /\ ~Told(b)' /\ \A r \in Request : ~Asked(r, b)'
  BY <1>3, <1>6 DEF Active, Told, Asked
<1> HIDE DEF o
<1>13. OneThing(b)' /\ Working(b)' /\ Crons(b)' /\ Telling(b)' /\ Asking(b)' /\ Truly(b)' /\ Absent(b)'
  BY <1>1, <1>3, <1>5, <1>6, <1>9, <1>12
  DEF BoxOK, OneThing, Working, Crons, Telling, Asking, Truly, Absent
<1>14. Commissions(b)'
  <2>1. SUFFICES ASSUME NEW j \in Active(b), j.spec.task = "commission"
                 PROVE  /\ j.spec.group # None
                        /\ j.spec.reset => BoundTo(b)' # j.spec.group
                        /\ Kept(b, j.spec)' => BoundTo(b)' = j.spec.group
    BY <1>9, <1>12 DEF Commissions
  <2>2. o.next # "Joining"
    BY <1>10, <1>11, <2>1 DEF Active
  <2>3. Kept(b, j.spec)' <=> Kept(b, j.spec)
    BY <1>3 DEF Kept
  <2>4. QED
    BY <1>1, <1>8, <2>1, <2>2, <2>3 DEF BoxOK, Commissions
<1>15. Joins(b)'
  <2>1. SUFFICES ASSUME NEW j \in job[b], j.spec.task = "join"
                 PROVE  /\ j.spec.group # None
                        /\ BoundTo(b)' = j.spec.group
                        /\ j.phase = "succeeded" => node[b] = j.spec.group
    BY <1>3, <1>9 DEF Joins
  <2>2. o.next = "Joining" /\ j.spec.group = o.data.group
    BY <1>10, <1>11, <2>1
  <2>3. QED
    BY <1>1, <1>8, <2>1, <2>2 DEF BoxOK, Joins
<1>16. Fresh(b)'
  BY <1>1, <1>3, <1>5, <1>12 DEF BoxOK, Fresh, Unhurried
<1>17. BoxOK(b)'
  BY <1>13, <1>14, <1>15, <1>16 DEF BoxOK
<1>18. \A x \in Box \ {b} : BoxOK(x)'
  BY <1>3, <1>4, <1>5, <1>8, OpApart
<1>19. QED
  BY <1>17, <1>18

(* A join is skipped: the box is ready, bound to its group, and so in its place. *)
LEMMA PatchAlreadyJoinedTrue ==
  ASSUME TrueInv, Counted, NEW b \in Box, PatchAlreadyJoined(b)
  PROVE  \A x \in Box : BoxOK(x)'
<1> DEFINE st == [op[b].data.status EXCEPT !.state = "Running"]
<1>1. TypeInv /\ BoxOK(b) /\ op \in [Box -> Reconcile]
  BY DEF TrueInv, TypeInv, TypeOK
<1>2. op[b].pc = "already" /\ op[b].pc # "idle"
  BY DEF PatchAlreadyJoined
<1>3. UNCHANGED <<group, cron, job, mon, req, node, spent>>
  BY DEF PatchAlreadyJoined, jobs
<1>4. Later
  BY <1>3 DEF Later
<1>5. op'[b].pc = "idle" /\ \A x \in Box \ {b} : op'[x] = op[x]
  BY <1>1 DEF PatchAlreadyJoined, Idle
<1>6. /\ ~Told(b) /\ mon[b] = {} /\ (\A r \in Request : ~Asked(r, b)) /\ group[b] # None
      /\ op[b].data.group # None /\ op[b].data.status = status[b]
  BY <1>2, Alone
<1>7. StateOf(b) = "Ready" /\ BoundTo(b) = op[b].data.group
  BY <1>1, <1>2 DEF BoxOK, Working
<1>8. /\ StateOf(b)' = "Running" /\ BoundTo(b)' = BoundTo(b) /\ Placed(b) /\ Placed(b)'
      /\ \A x \in Box \ {b} : status'[x] = status[x]
  <2>1. status[b] \in Status /\ status[b] # None
    BY <1>1, <1>2, <1>6, BoxTypes DEF TypeInv, OpOK
  <2>2. st \in Status /\ st.state = "Running" /\ st.bind = status[b].bind
    BY <1>6, <2>1 DEF Status, State
  <2>3. status' = [status EXCEPT ![b] = st]
    BY DEF PatchAlreadyJoined
  <2>4. BoundTo(b) = status[b].bind
    BY <2>1, ReadStatus
  <2> HIDE DEF st
  <2>5. StateOf(b)' = st.state /\ BoundTo(b)' = st.bind /\ \A x \in Box \ {b} : status'[x] = status[x]
    BY <1>1, <2>2, <2>3, Written
  <2>6. QED
    BY <1>7, <2>2, <2>4, <2>5 DEF Placed
<1>9. /\ Active(b)' = Active(b) /\ ~Told(b)' /\ \A r \in Request : ~Asked(r, b)'
      /\ (Unbroken' <=> Unbroken) /\ (Unhurried' <=> Unhurried)
      /\ ~Binding(b) /\ ~Binding(b)'
      /\ \A spec : Kept(b, spec)' <=> Kept(b, spec)
  BY <1>2, <1>3, <1>5, <1>6 DEF Active, Told, Asked, Unbroken, Unhurried, Binding, Kept
<1>10. OneThing(b)' /\ Working(b)' /\ Crons(b)' /\ Telling(b)' /\ Asking(b)' /\ Absent(b)'
  BY <1>1, <1>3, <1>5, <1>6, <1>9
  DEF BoxOK, OneThing, Working, Crons, Telling, Asking, Absent
<1>11. Commissions(b)'
  BY <1>1, <1>8, <1>9 DEF BoxOK, Commissions
<1>12. Joins(b)'
  BY <1>1, <1>3, <1>8, <1>9 DEF BoxOK, Joins
<1>13. Truly(b)'
  BY <1>1, <1>3, <1>6, <1>7, <1>8, <1>9 DEF BoxOK, Truly, InPlace
<1>14. Fresh(b)'
  BY <1>1, <1>3, <1>5, <1>9 DEF BoxOK, Fresh
<1>15. BoxOK(b)'
  BY <1>10, <1>11, <1>12, <1>13, <1>14 DEF BoxOK
<1>16. \A x \in Box \ {b} : BoxOK(x)'
  BY <1>3, <1>4, <1>5, <1>8, OpApart
<1>17. QED
  BY <1>15, <1>16

-----------------------------------------------------------------------------
(* The monitor: it says Running of a box that the join has made a node of the
   group it is bound to, and nothing else happens to the box meanwhile. *)

LEMMA ToldAlone ==
  ASSUME TrueInv, NEW b \in Box, Told(b)
  PROVE  op[b].pc = "idle" /\ (\A r \in Request : ~Asked(r, b)) /\ Active(b) = {} /\ ~Binding(b)
<1>1. BoxOK(b)
  BY DEF TrueInv
<1>2. op[b].pc = "idle" /\ (\A r \in Request : ~Asked(r, b)) /\ Active(b) = {}
  BY <1>1 DEF BoxOK, OneThing
<1>3. QED
  BY <1>2 DEF Binding

LEMMA MonitorJobTrue ==
  ASSUME TrueInv, NEW b \in Box, MonitorJob(b)
  PROVE  \A x \in Box : BoxOK(x)'
<1>1. TypeInv /\ BoxOK(b) /\ mon \in [Box -> SUBSET State]
  BY DEF TrueInv, TypeInv, TypeOK
<1>2. UNCHANGED <<group, status, op, cron, job, req, node, spent>>
  BY DEF MonitorJob, api, jobs
<1>3. Later
  BY <1>2 DEF Later
<1>4. PICK j \in job[b] : Verdict(j) # {} /\ mon' = [mon EXCEPT ![b] = mon[b] \union Verdict(j)]
  BY DEF MonitorJob
<1>5. mon'[b] = mon[b] \union Verdict(j) /\ \A x \in Box \ {b} : mon'[x] = mon[x]
  BY <1>1, <1>4
<1>6. Told(b) /\ group[b] # None
  BY <1>1, <1>4 DEF Told, BoxOK, Absent
<1>7. op[b].pc = "idle" /\ (\A r \in Request : ~Asked(r, b)) /\ Active(b) = {} /\ ~Binding(b)
  BY <1>6, ToldAlone
<1>8. /\ StateOf(b)' = StateOf(b) /\ BoundTo(b)' = BoundTo(b) /\ Placed(b)' = Placed(b)
      /\ (Unbroken' <=> Unbroken) /\ (Unhurried' <=> Unhurried)
  BY <1>2, SameRead DEF Unbroken, Unhurried
<1>9. Active(b)' = {} /\ (\A r \in Request : ~Asked(r, b)') /\ ~Binding(b)'
  BY <1>2, <1>7 DEF Active, Asked, Binding
<1>10. OneThing(b)' /\ Working(b)' /\ Crons(b)' /\ Commissions(b)' /\ Asking(b)' /\ Absent(b)'
  BY <1>1, <1>2, <1>6, <1>7, <1>9
  DEF BoxOK, OneThing, Working, Crons, Commissions, Asking, Absent
<1>11. Joins(b)'
  BY <1>1, <1>2, <1>7, <1>8, <1>9 DEF BoxOK, Joins
<1>12. Telling(b)'
  <2>1. SUFFICES ASSUME Unbroken, "Running" \in mon'[b] PROVE InPlace(b)
    BY <1>2, <1>8 DEF Telling, InPlace
  <2>2. CASE "Running" \in mon[b]
    BY <1>1, <2>1, <2>2 DEF BoxOK, Telling
  <2>3. CASE "Running" \in Verdict(j)
    <3>1. j.phase = "succeeded" /\ j.spec.task = "join"
      BY <2>3 DEF Verdict
    <3>2. node[b] = j.spec.group /\ j.spec.group # None /\ BoundTo(b) = j.spec.group
      BY <1>1, <1>7, <2>1, <3>1 DEF BoxOK, Joins
    <3>3. QED
      BY <3>2 DEF InPlace
  <2>4. QED
    BY <1>5, <2>1, <2>2, <2>3
<1>13. Truly(b)'
  BY <1>1, <1>2, <1>8 DEF BoxOK, Truly, InPlace
<1>14. Fresh(b)'
  BY <1>1, <1>2, <1>7, <1>8, <1>9 DEF BoxOK, Fresh
<1>15. BoxOK(b)'
  BY <1>10, <1>11, <1>12, <1>13, <1>14 DEF BoxOK
<1>16. \A x \in Box \ {b} : BoxOK(x)'
  BY <1>2, <1>3, <1>5, OpApart
<1>17. QED
  BY <1>15, <1>16

LEMMA MonitorPatchTrue ==
  ASSUME TrueInv, NEW b \in Box, MonitorPatch(b)
  PROVE  \A x \in Box : BoxOK(x)'
<1>1. /\ TypeInv /\ BindInv /\ BoxOK(b)
      /\ mon \in [Box -> SUBSET State] /\ status \in [Box -> Status \union {None}]
  BY DEF TrueInv, TypeInv, TypeOK
<1>2. UNCHANGED <<group, op, cron, job, req, node, spent>>
  BY DEF MonitorPatch, jobs
<1>3. Later
  BY <1>2 DEF Later
<1>4. PICK s \in mon[b] :
        /\ status' = [status EXCEPT ![b] =
             IF @ = None THEN [state |-> s, access |-> FALSE, bind |-> None]
             ELSE [@ EXCEPT !.state = s]]
        /\ mon' = [mon EXCEPT ![b] = @ \ {s}]
  BY DEF MonitorPatch
<1>5. /\ s \in {"Failed", "Running"}
      /\ mon'[b] = mon[b] \ {s} /\ \A x \in Box \ {b} : mon'[x] = mon[x]
  BY <1>1, <1>4 DEF BindInv
<1>6. Told(b) /\ group[b] # None
  BY <1>1, <1>4 DEF Told, BoxOK, Absent
<1>7. op[b].pc = "idle" /\ (\A r \in Request : ~Asked(r, b)) /\ Active(b) = {} /\ ~Binding(b)
  BY <1>6, ToldAlone
<1>8. /\ StateOf(b)' = s /\ BoundTo(b)' = BoundTo(b)
      /\ \A x \in Box \ {b} : status'[x] = status[x]
  <2> DEFINE st == IF status[b] = None THEN [state |-> s, access |-> FALSE, bind |-> None]
                   ELSE [status[b] EXCEPT !.state = s]
  <2>1. st \in Status /\ st.state = s /\ st.bind = BoundTo(b)
    <3>1. CASE status[b] = None
      BY <1>5, <3>1, ReadStatus DEF Status, State
    <3>2. CASE status[b] # None
      <4>1. status[b] \in Status
        BY <1>1, <3>2
      <4>2. BoundTo(b) = status[b].bind
        BY <3>2, ReadStatus
      <4>3. QED
        BY <1>5, <3>2, <4>1, <4>2 DEF Status, State
    <3>3. QED
      BY <3>1, <3>2
  <2>2. status' = [status EXCEPT ![b] = st]
    BY <1>1, <1>4
  <2> HIDE DEF st
  <2>3. QED
    BY <1>1, <2>1, <2>2, Written
<1>9. /\ Active(b)' = {} /\ (\A r \in Request : ~Asked(r, b)') /\ ~Binding(b)'
      /\ (Unbroken' <=> Unbroken) /\ (Unhurried' <=> Unhurried)
      /\ (InPlace(b)' <=> InPlace(b))
  BY <1>2, <1>7, <1>8 DEF Active, Asked, Binding, Unbroken, Unhurried, InPlace
<1>10. OneThing(b)' /\ Working(b)' /\ Crons(b)' /\ Commissions(b)' /\ Asking(b)' /\ Absent(b)'
  BY <1>1, <1>2, <1>6, <1>7, <1>9
  DEF BoxOK, OneThing, Working, Crons, Commissions, Asking, Absent
<1>11. Joins(b)'
  <2>1. SUFFICES ASSUME NEW j \in job[b], j.spec.task = "join"
                 PROVE  /\ j.spec.group # None
                        /\ Unbroken => BoundTo(b) = j.spec.group
                        /\ j.phase # "active"
                        /\ j.phase = "succeeded" => node[b] = j.spec.group
    BY <1>2, <1>8, <1>9 DEF Joins
  <2>2. j.phase # "active"
    BY <1>7, <2>1 DEF Active
  <2>3. QED
    BY <1>1, <1>7, <2>1, <2>2 DEF BoxOK, Joins
<1>12. Telling(b)'
  BY <1>1, <1>5, <1>9 DEF BoxOK, Telling
<1>13. Truly(b)'
  <2>1. SUFFICES ASSUME Unbroken, Placed(b)' PROVE InPlace(b) /\ BoundTo(b) # None
    BY <1>8, <1>9 DEF Truly
  <2>2. s = "Running"
    BY <1>5, <1>8, <2>1 DEF Placed
  <2>3. QED
    BY <1>1, <1>4, <2>1, <2>2 DEF BoxOK, Telling, InPlace
<1>14. Fresh(b)'
  BY <1>1, <1>2, <1>7, <1>9 DEF BoxOK, Fresh
<1>15. BoxOK(b)'
  BY <1>10, <1>11, <1>12, <1>13, <1>14 DEF BoxOK
<1>16. \A x \in Box \ {b} : BoxOK(x)'
  BY <1>2, <1>3, <1>5, <1>8, OpApart
<1>17. QED
  BY <1>15, <1>16

-----------------------------------------------------------------------------
(* The gateway: nothing else happens to a box while it is asked about it. *)

LEMMA AskedAlone ==
  ASSUME TrueInv, NEW r \in Request, req[r] # None
  PROVE  /\ req[r].box \in Box /\ req[r].status \in Status
         /\ Asked(r, req[r].box) /\ Answers(r, req[r].box)
         /\ \A q \in Request : Asked(q, req[r].box) => q = r
         /\ ~Told(req[r].box) /\ op[req[r].box].pc = "idle" /\ ~Binding(req[r].box)
<1>1. req[r] \in Handling
  BY DEF TrueInv, TypeInv, TypeOK
<1>2. req[r].box \in Box /\ req[r].status \in Status
  BY <1>1 DEF Handling
<1>3. Asked(r, req[r].box) /\ BoxOK(req[r].box)
  BY <1>2 DEF Asked, TrueInv
<1>4. ~Told(req[r].box) /\ op[req[r].box].pc = "idle" /\ \A q \in Request : Asked(q, req[r].box) => q = r
  BY <1>3 DEF BoxOK, OneThing
<1>5. Answers(r, req[r].box)
  BY <1>3 DEF BoxOK, Asking
<1>6. QED
  BY <1>2, <1>3, <1>4, <1>5 DEF Binding

LEMMA GatewayApart ==
  ASSUME TrueInv, NEW r \in Request, req[r] # None, Later,
         \A q \in Request \ {r} : req'[q] = req[q],
         req'[r] = None \/ req'[r].box = req[r].box,
         \A x \in Box \ {req[r].box} :
             /\ group'[x] = group[x] /\ status'[x] = status[x] /\ op'[x] = op[x]
             /\ cron'[x] = cron[x] /\ job'[x] = job[x] /\ mon'[x] = mon[x]
             /\ node'[x] = node[x]
  PROVE  \A x \in Box \ {req[r].box} : BoxOK(x)'
<1> SUFFICES ASSUME NEW x \in Box \ {req[r].box} PROVE BoxOK(x)'
  OBVIOUS
<1>1. ~Asked(r, x) /\ ~Asked(r, x)'
  BY DEF Asked
<1>2. SameBox(x)
  BY <1>1 DEF SameBox
<1>3. BoxOK(x)
  BY DEF TrueInv
<1>4. QED
  BY <1>2, <1>3, Apart

(* A request that stops, or goes on to the status: at most the group is new. *)
LEMMA GatewayKeeps ==
  ASSUME TrueInv, NEW r \in Request, req[r] # None, NEW b, b = req[r].box, Later,
         UNCHANGED <<status, op, cron, job, mon, node>>,
         \A q \in Request \ {r} : req'[q] = req[q],
         \/ req'[r] = None
         \/ /\ req'[r].pc = "status" /\ req'[r].box = b /\ req'[r].status = req[r].status
            /\ group'[b] # None,
         group'[b] = group[b] \/ group'[b] # None,
         Unhurried => group'[b] = group[b] \/ job[b] = {},
         \A x \in Box \ {b} : group'[x] = group[x]
  PROVE  \A x \in Box : BoxOK(x)'
<1>1. b \in Box /\ BoxOK(b) /\ Asked(r, b) /\ Answers(r, b) /\ ~Told(b) /\ op[b].pc = "idle"
      /\ \A q \in Request : Asked(q, b) => q = r
  BY AskedAlone DEF TrueInv
<1>2. /\ StateOf(b)' = StateOf(b) /\ BoundTo(b)' = BoundTo(b) /\ Placed(b)' = Placed(b)
      /\ (Unbroken' => Unbroken) /\ (Unhurried' => Unhurried)
  BY <1>1, SameRead DEF Unbroken, Unhurried, Later
<1>3. /\ Active(b)' = Active(b) /\ (Told(b)' <=> Told(b)) /\ (Binding(b)' <=> Binding(b))
      /\ (InPlace(b)' <=> InPlace(b)) /\ \A spec : Kept(b, spec)' <=> Kept(b, spec)
  BY <1>2 DEF Active, Told, Binding, InPlace, Kept
<1>4. \A q \in Request : Asked(q, b)' => q = r /\ req'[r] # None
  BY <1>1 DEF Asked
<1>5. OneThing(b)' /\ Working(b)' /\ Crons(b)'
  BY <1>1, <1>3, <1>4 DEF BoxOK, OneThing, Working, Crons
<1>6. Commissions(b)'
  BY <1>1, <1>2, <1>3 DEF BoxOK, Commissions
<1>7. Joins(b)'
  BY <1>1, <1>2, <1>3 DEF BoxOK, Joins
<1>8. Telling(b)' /\ Truly(b)'
  BY <1>1, <1>2, <1>3 DEF BoxOK, Telling, Truly
<1>9. Asking(b)'
  <2>1. SUFFICES ASSUME req'[r] # None PROVE Answers(r, b)'
    BY <1>4 DEF Asking
  <2>2. req'[r].pc = "status" /\ req'[r].status = req[r].status /\ group'[b] # None
    BY <2>1
  <2>3. QED
    BY <1>1, <1>2, <1>3, <2>2 DEF Answers
<1>10. Fresh(b)'
  BY <1>1, <1>2, <1>3 DEF BoxOK, Fresh, Active
<1>11. Absent(b)'
  BY <1>1 DEF BoxOK, Absent
<1>12. BoxOK(b)'
  BY <1>5, <1>6, <1>7, <1>8, <1>9, <1>10, <1>11 DEF BoxOK
<1>13. \A x \in Box \ {b} : BoxOK(x)'
  BY GatewayApart
<1>14. QED
  BY <1>12, <1>13

LEMMA GatewayTrue ==
  ASSUME TrueInv, NEW r \in Request, CreateBox(r) \/ GatewayPatchSpec(r) \/ GatewayFails(r)
  PROVE  \A x \in Box : BoxOK(x)'
<1> DEFINE b == req[r].box
<1>1. /\ TypeInv /\ req[r] # None /\ req[r] \in Handling
      /\ group \in [Box -> Group \union {None}] /\ req \in [Request -> Handling \union {None}]
  BY DEF CreateBox, GatewayPatchSpec, GatewayFails, TrueInv, TypeInv, TypeOK
<1>2. b \in Box /\ BoxOK(b) /\ Answers(r, b)
  BY <1>1, AskedAlone DEF TrueInv
<1>3. UNCHANGED <<status, op, cron, job, mon, node>>
  BY DEF CreateBox, GatewayPatchSpec, GatewayFails, api, jobs
<1>4. Later
  <2>1. "reqfail" \in Fault /\ (Spend("reqfail") \/ UNCHANGED spent)
    BY DEF CreateBox, GatewayPatchSpec, GatewayFails, Fault
  <2>2. QED
    BY <1>1, <2>1, SpendLater
<1>5. /\ [req[r] EXCEPT !.pc = "status"].pc = "status"
      /\ [req[r] EXCEPT !.pc = "status"].box = b
      /\ [req[r] EXCEPT !.pc = "status"].status = req[r].status
  BY <1>1 DEF Handling
<1> HIDE DEF b
<1>6. CASE CreateBox(r)
  <2>1. \A q \in Request \ {r} : req'[q] = req[q]
    BY <1>1, <1>6 DEF CreateBox
  <2>2. \/ req'[r] = None /\ group' = group
        \/ /\ group[b] = None /\ group' = [group EXCEPT ![b] = DefaultGroup]
           /\ req'[r] = [req[r] EXCEPT !.pc = "status"]
    BY <1>1, <1>6 DEF CreateBox, b
  <2>3. CASE req'[r] = None /\ group' = group
    BY <1>1, <1>3, <1>4, <2>1, <2>3, GatewayKeeps DEF b
  <2>4. CASE /\ group[b] = None /\ group' = [group EXCEPT ![b] = DefaultGroup]
             /\ req'[r] = [req[r] EXCEPT !.pc = "status"]
    <3>1. group'[b] # None /\ \A x \in Box \ {b} : group'[x] = group[x]
      BY <1>1, <1>2, <2>4, DefaultIsGroup
    <3>2. job[b] = {}
      BY <1>2, <2>4 DEF BoxOK, Absent
    <3>3. /\ req'[r].pc = "status" /\ req'[r].box = b /\ req'[r].status = req[r].status
          /\ group'[b] # None
      BY <1>5, <2>4, <3>1
    <3>4. QED
      BY <1>1, <1>3, <1>4, <2>1, <3>1, <3>2, <3>3, GatewayKeeps DEF b
  <2>5. QED
    BY <2>2, <2>3, <2>4
<1>7. CASE GatewayPatchSpec(r)
  <2>1. \A q \in Request \ {r} : req'[q] = req[q]
    BY <1>1, <1>7 DEF GatewayPatchSpec
  <2>2. /\ group' = [group EXCEPT ![b] = req[r].group]
        /\ req'[r] = [req[r] EXCEPT !.pc = "status"]
    BY <1>1, <1>7 DEF GatewayPatchSpec, b
  <2>3. req[r].group # None /\ (Unhurried => req[r].group = group[b])
    BY <1>2, <1>7 DEF GatewayPatchSpec, Answers
  <2>4. /\ group'[b] # None /\ (Unhurried => group'[b] = group[b])
        /\ \A x \in Box \ {b} : group'[x] = group[x]
    BY <1>1, <1>2, <2>2, <2>3
  <2>5. /\ req'[r].pc = "status" /\ req'[r].box = b /\ req'[r].status = req[r].status
        /\ group'[b] # None
    BY <1>5, <2>2, <2>4
  <2>6. QED
    BY <1>1, <1>3, <1>4, <2>1, <2>4, <2>5, GatewayKeeps DEF b
<1>8. CASE GatewayFails(r)
  <2>1. (\A q \in Request \ {r} : req'[q] = req[q]) /\ req'[r] = None /\ group' = group
    BY <1>1, <1>8 DEF GatewayFails, api
  <2>2. QED
    BY <1>1, <1>3, <1>4, <2>1, GatewayKeeps DEF b
<1>9. QED
  BY <1>6, <1>7, <1>8

(* The status is written: that of a box that boots again, as it was but New, or
   what a commission reports of one it has kept, or wiped. *)
LEMMA GatewayPatchStatusTrue ==
  ASSUME TrueInv, NEW r \in Request, GatewayPatchStatus(r)
  PROVE  \A x \in Box : BoxOK(x)'
<1>0. PICK b \in Box : b = req[r].box
  <2>1. req[r].box \in Box
    BY AskedAlone DEF GatewayPatchStatus
  <2>2. QED
    BY <2>1
<1> DEFINE answered == {j \in Active(b) : j.spec.task = "commission"
                                          /\ req[r].status.state = "Ready"}
<1>1. /\ TypeInv /\ OneInv /\ BindInv /\ req[r] # None
      /\ req \in [Request -> Handling \union {None}] /\ job \in [Box -> SUBSET Job]
  BY DEF GatewayPatchStatus, TrueInv, TypeInv, TypeOK
<1>2. b \in Box /\ BoxOK(b) /\ Answers(r, b) /\ req[r].status \in Status /\ ~Told(b)
      /\ op[b].pc = "idle" /\ ~Binding(b) /\ \A q \in Request : Asked(q, b) => q = r
  BY <1>0, <1>1, AskedAlone DEF TrueInv
<1>3. UNCHANGED <<group, op, cron, mon, node>>
  BY DEF GatewayPatchStatus
<1>4. Later
  <2>1. "retry" \in Fault /\ (Spend("retry") \/ UNCHANGED spent)
    BY DEF GatewayPatchStatus, Fault
  <2>2. QED
    BY <1>1, <2>1, SpendLater
<1>5. req'[r] = None /\ \A q \in Request \ {r} : req'[q] = req[q]
  BY <1>1 DEF GatewayPatchStatus
<1>6. /\ StateOf(b)' = req[r].status.state /\ BoundTo(b)' = req[r].status.bind
      /\ \A x \in Box \ {b} : status'[x] = status[x]
  <2>1. status' = [status EXCEPT ![b] = req[r].status]
    BY <1>0 DEF GatewayPatchStatus
  <2>2. QED
    BY <1>1, <1>2, <2>1, Written
<1>7. /\ \A x \in Box \ {b} : job'[x] = job[x]
      /\ \/ job'[b] = job[b]
         \/ job'[b] = (job[b] \ answered) \union {[j EXCEPT !.phase = "succeeded"] : j \in answered}
  <2>1. \/ UNCHANGED job
        \/ job' = [job EXCEPT ![b] = (@ \ answered) \union
                         {[j EXCEPT !.phase = "succeeded"] : j \in answered}]
    BY <1>0 DEF GatewayPatchStatus
  <2> HIDE DEF answered
  <2>2. QED
    BY <1>1, <1>2, <2>1
<1>8. \A j \in answered : /\ [j EXCEPT !.phase = "succeeded"].phase = "succeeded"
                          /\ [j EXCEPT !.phase = "succeeded"].spec = j.spec
                          /\ j.spec.task = "commission" /\ req[r].status.state = "Ready"
  BY <1>1, <1>2 DEF Active, Job
<1>9. \A k \in job'[b] :
        \/ k \in job[b]
        \/ k.phase = "succeeded" /\ k.spec.task = "commission" /\ req[r].status.state = "Ready"
  <2> HIDE DEF answered
  <2>1. SUFFICES ASSUME NEW k \in job'[b], k \notin job[b]
                 PROVE  /\ k.phase = "succeeded" /\ k.spec.task = "commission"
                        /\ req[r].status.state = "Ready"
    OBVIOUS
  <2>2. PICK j \in answered : k = [j EXCEPT !.phase = "succeeded"]
    BY <1>7, <2>1
  <2>3. QED
    BY <1>8, <2>2
<1> HIDE DEF answered
<1>10. Active(b)' \subseteq Active(b)
  BY <1>9 DEF Active
<1>11. ~Told(b)' /\ (\A q \in Request : ~Asked(q, b)') /\ ~Binding(b)'
  <2>1. \A k \in job'[b] : Verdict(k) = {}
    BY <1>2, <1>9 DEF Told, Verdict
  <2>2. ~Told(b)'
    BY <1>2, <1>3, <2>1 DEF Told, Verdict
  <2>3. QED
    BY <1>2, <1>3, <1>5, <2>2 DEF Asked, Binding
<1>12. /\ (Unbroken' => Unbroken) /\ (Unhurried' => Unhurried)
       /\ \A spec : Kept(b, spec)' <=> Kept(b, spec)
  BY <1>3, <1>4 DEF Unbroken, Unhurried, Later, Kept
<1>13. group[b] # None
  BY <1>2 DEF GatewayPatchStatus, Answers
<1>14. OneThing(b)' /\ Working(b)' /\ Crons(b)' /\ Telling(b)' /\ Asking(b)' /\ Absent(b)'
  BY <1>2, <1>3, <1>11, <1>13
  DEF BoxOK, OneThing, Working, Crons, Telling, Told, Asking, Absent
<1>15. Fresh(b)'
  BY <1>2, <1>3, <1>10, <1>12 DEF BoxOK, Fresh
<1>16. ASSUME req[r].status.state = "New" PROVE BoxOK(b)'
  <2>1. BoundTo(b)' = BoundTo(b) /\ ~Placed(b)'
    BY <1>2, <1>6, <1>16 DEF Answers, Placed
  <2>2. \A k \in job'[b] : k \in job[b]
    BY <1>9, <1>16
  <2>3. Commissions(b)'
    BY <1>2, <1>10, <1>12, <2>1 DEF BoxOK, Commissions
  <2>4. Joins(b)'
    BY <1>2, <1>3, <1>12, <2>1, <2>2 DEF BoxOK, Joins
  <2>5. Truly(b)'
    BY <2>1 DEF Truly
  <2>6. QED
    BY <1>14, <1>15, <2>3, <2>4, <2>5 DEF BoxOK
<1>17. ASSUME req[r].status.state = "Ready" PROVE BoxOK(b)'
  <2>1. PICK j \in Active(b) : /\ j.spec.task = "commission"
                               /\ req[r].status.bind = IF Kept(b, j.spec) THEN BoundTo(b) ELSE None
    BY <1>2, <1>17 DEF Answers
  <2>2. \A k \in Active(b) : k = j
    BY <1>1, <1>2, <2>1 DEF OneInv
  <2>3. /\ j.spec.group # None
        /\ j.spec.reset => ~Kept(b, j.spec)
        /\ Kept(b, j.spec) => BoundTo(b) = j.spec.group /\ node[b] # None
                              /\ node[b].cluster = j.spec.group.cluster
    BY <1>2, <2>1 DEF BoxOK, Commissions, Kept
  <2>4. BoundTo(b)' = IF Kept(b, j.spec) THEN j.spec.group ELSE None
    BY <1>6, <2>1, <2>3
  <2>5. Commissions(b)'
    BY <1>10, <1>12, <2>2, <2>3, <2>4 DEF Commissions
  <2>6. \A k \in job'[b] : k.spec.task # "join"
    <3>1. SUFFICES ASSUME NEW k \in job[b], k.spec.task = "join" PROVE FALSE
      BY <1>9
    <3>2. k \notin Active(b)
      BY <2>1, <2>2, <3>1
    <3>3. k.phase # "active"
      BY <3>2 DEF Active
    <3>4. QED
      BY <1>1, <1>2, <3>1, <3>3, EndedJoin
  <2>7. Joins(b)'
    BY <2>6 DEF Joins
  <2>8. Truly(b)'
    BY <1>3, <1>6, <1>17, <2>3, <2>4 DEF Truly, InPlace
  <2>9. QED
    BY <1>14, <1>15, <2>5, <2>7, <2>8 DEF BoxOK
<1>18. BoxOK(b)'
  BY <1>1, <1>16, <1>17 DEF BindInv
<1>19. \A x \in Box \ {b} : BoxOK(x)'
  BY <1>0, <1>1, <1>3, <1>4, <1>5, <1>6, <1>7, GatewayApart
<1>20. QED
  BY <1>18, <1>19

-----------------------------------------------------------------------------
(* The environment.  With Prompt, a playbook ends, submits, boots its machine or is
   started over by a CronJob only when no call about the box is under way. *)

LEMMA SettledAlone ==
  ASSUME NEW b \in Box, Settled(b)
  PROVE  /\ op[b].pc = "idle" /\ ~Binding(b) /\ ~Told(b) /\ mon[b] = {}
         /\ \A r \in Request : ~Asked(r, b)
BY DEF Settled, Binding, Told, Asked

LEMMA AskApart ==
  ASSUME TrueInv, NEW r \in Request, NEW b \in Box, Later,
         \A q \in Request \ {r} : req'[q] = req[q],
         req[r] = None, req'[r].box = b,
         \A x \in Box \ {b} :
             /\ group'[x] = group[x] /\ status'[x] = status[x] /\ op'[x] = op[x]
             /\ cron'[x] = cron[x] /\ job'[x] = job[x] /\ mon'[x] = mon[x]
             /\ node'[x] = node[x]
  PROVE  \A x \in Box \ {b} : BoxOK(x)'
<1> SUFFICES ASSUME NEW x \in Box \ {b} PROVE BoxOK(x)'
  OBVIOUS
<1>1. ~Asked(r, x) /\ ~Asked(r, x)'
  BY DEF Asked
<1>2. SameBox(x)
  BY <1>1 DEF SameBox
<1>3. BoxOK(x)
  BY DEF TrueInv
<1>4. QED
  BY <1>2, <1>3, Apart

(* A CronJob's playbook takes no group and moves no machine. *)
LEMMA CronFiresTrue ==
  ASSUME TrueInv, Counted, NEW b \in Box, CronFires(b)
  PROVE  \A x \in Box : BoxOK(x)'
<1>1. TypeInv /\ BoxOK(b) /\ job \in [Box -> SUBSET Job] /\ Settled(b)
  BY DEF TrueInv, TypeInv, TypeOK, CronFires, MayStart, Counted
<1>2. UNCHANGED <<group, status, op, cron, mon, req, node, spent>>
  BY DEF CronFires, api
<1>3. Later
  BY <1>2 DEF Later
<1>4. PICK spec \in cron[b] :
        job' = [job EXCEPT ![b] =
           {j \in @ : ~(j.phase = "active" /\ j.spec.task = spec.task)} \union {Run(spec)}]
  BY DEF CronFires
<1>5. \A x \in Box \ {b} : job'[x] = job[x]
  BY <1>1, <1>4
<1>6. job'[b] = {j \in job[b] : ~(j.phase = "active" /\ j.spec.task = spec.task)}
                  \union {Run(spec)}
  BY <1>1, <1>4
<1>7. \A k \in job'[b] : k \in job[b] \/ k = Run(spec)
  BY <1>6
<1>8. /\ Run(spec).spec = spec /\ Run(spec).phase = "active"
      /\ spec.task \notin {"commission", "join"} /\ spec.group = None
  BY <1>1, <1>4 DEF Run, BoxOK, Crons
<1>9. /\ op[b].pc = "idle" /\ ~Binding(b) /\ ~Told(b) /\ mon[b] = {}
      /\ \A r \in Request : ~Asked(r, b)
  BY <1>1, SettledAlone
<1>10. group[b] # None
  BY <1>1, <1>4 DEF BoxOK, Absent
<1>11. /\ StateOf(b)' = StateOf(b) /\ BoundTo(b)' = BoundTo(b) /\ Placed(b)' = Placed(b)
       /\ (Unbroken' <=> Unbroken) /\ (Unhurried' <=> Unhurried)
       /\ \A s : Kept(b, s)' <=> Kept(b, s)
  BY <1>2, SameRead DEF Unbroken, Unhurried, Kept
<1>12. ~Told(b)' /\ (\A r \in Request : ~Asked(r, b)') /\ ~Binding(b)'
  <2>1. Verdict(Run(spec)) = {}
    BY <1>8, NoVerdict
  <2>2. \A k \in job'[b] : Verdict(k) = {}
    BY <1>7, <1>9, <2>1 DEF Told
  <2>3. ~Told(b)'
    BY <1>2, <1>9, <2>2 DEF Told, Verdict
  <2>4. QED
    BY <1>2, <1>9, <2>3 DEF Asked, Binding
<1>13. \A k \in Active(b)' : k \in Active(b) \/ k = Run(spec)
  BY <1>7 DEF Active
<1>14. OneThing(b)' /\ Working(b)' /\ Crons(b)' /\ Telling(b)' /\ Asking(b)' /\ Absent(b)'
  BY <1>1, <1>2, <1>9, <1>10, <1>12
  DEF BoxOK, OneThing, Working, Crons, Telling, Asking, Absent
<1>15. Commissions(b)'
  BY <1>1, <1>8, <1>11, <1>13 DEF BoxOK, Commissions
<1>16. Joins(b)'
  BY <1>1, <1>2, <1>7, <1>8, <1>9, <1>11, <1>12 DEF BoxOK, Joins
<1>17. Truly(b)'
  BY <1>1, <1>2, <1>11 DEF BoxOK, Truly, InPlace
<1>18. Fresh(b)'
  BY <1>1, <1>2, <1>8, <1>9, <1>11, <1>13 DEF BoxOK, Fresh
<1>19. BoxOK(b)'
  BY <1>14, <1>15, <1>16, <1>17, <1>18 DEF BoxOK
<1>20. \A x \in Box \ {b} : BoxOK(x)'
  BY <1>2, <1>3, <1>5, OpApart
<1>21. QED
  BY <1>19, <1>20

(* A playbook ends, well or not: a join may have made the machine a node, of the
   group that the box is bound to, and the box is shown Joining. *)
LEMMA JobEndsTrue ==
  ASSUME TrueInv, Counted, NEW b \in Box, JobSucceeds(b) \/ JobFails(b)
  PROVE  \A x \in Box : BoxOK(x)'
<1>1. /\ TypeInv /\ OneInv /\ BoxOK(b) /\ Settled(b)
      /\ job \in [Box -> SUBSET Job] /\ node \in [Box -> Group \union {None}]
  BY DEF TrueInv, TypeInv, TypeOK, JobSucceeds, JobFails, MayStart, Counted
<1>2. UNCHANGED <<group, status, op, cron, mon, req>>
  BY DEF JobSucceeds, JobFails, api
<1>3. Later
  <2>1. "jobfail" \in Fault /\ (Spend("jobfail") \/ UNCHANGED spent)
    BY DEF JobSucceeds, JobFails, Fault
  <2>2. QED
    BY <1>1, <2>1, SpendLater
<1>4. PICK j \in Active(b), phase \in {"succeeded", "failed"} :
        /\ End(b, j, phase)
        /\ node' = node \/ (j.spec.task = "join" /\ node' = [node EXCEPT ![b] = j.spec.group])
        /\ phase = "succeeded" /\ j.spec.task = "join" => node' = [node EXCEPT ![b] = j.spec.group]
  BY DEF JobSucceeds, JobFails, HalfWay
<1>5. /\ \A x \in Box \ {b} : job'[x] = job[x] /\ node'[x] = node[x]
      /\ job'[b] = (job[b] \ {j}) \union {[j EXCEPT !.phase = phase]}
      /\ node'[b] = node[b] \/ (j.spec.task = "join" /\ node'[b] = j.spec.group)
      /\ phase = "succeeded" /\ j.spec.task = "join" => node'[b] = j.spec.group
  BY <1>1, <1>4 DEF End
<1>6. /\ j \in job[b] /\ j \in Job /\ j.phase = "active"
      /\ [j EXCEPT !.phase = phase].phase = phase
      /\ [j EXCEPT !.phase = phase].spec = j.spec
      /\ \A k \in Active(b) : k = j
  BY <1>1, <1>4 DEF Active, Job, OneInv
<1>7. /\ op[b].pc = "idle" /\ ~Binding(b) /\ ~Told(b) /\ mon[b] = {}
      /\ \A r \in Request : ~Asked(r, b)
  BY <1>1, SettledAlone
<1>8. \A k \in job'[b] :
         /\ k.phase # "active"
         /\ k.spec.task = "join" => k.spec = j.spec /\ k.phase = phase
  <2>1. SUFFICES ASSUME NEW k \in job[b] \ {j}
                 PROVE  k.phase # "active" /\ k.spec.task # "join"
    BY <1>4, <1>5, <1>6
  <2>2. k.phase # "active"
    BY <1>6, <2>1 DEF Active
  <2>3. k.spec.task # "join"
    BY <1>1, <1>7, <2>1, <2>2, EndedJoin
  <2>4. QED
    BY <2>2, <2>3
<1>9. Active(b)' = {}
  BY <1>8 DEF Active
<1>10. group[b] # None
  BY <1>1, <1>6 DEF BoxOK, Absent
<1>11. /\ StateOf(b)' = StateOf(b) /\ BoundTo(b)' = BoundTo(b) /\ Placed(b)' = Placed(b)
       /\ (Unbroken' => Unbroken) /\ (Unhurried' => Unhurried)
  BY <1>2, <1>3, SameRead DEF Unbroken, Unhurried, Later
<1>12. \A r \in Request : ~Asked(r, b)'
  BY <1>2, <1>7 DEF Asked
<1>13. j.spec.task = "join" =>
         /\ j.spec.group # None
         /\ Unbroken => BoundTo(b) = j.spec.group
         /\ ~(Unbroken /\ Placed(b))
  BY <1>1, <1>6, <1>7 DEF BoxOK, Joins
<1>14. OneThing(b)' /\ Working(b)' /\ Crons(b)' /\ Commissions(b)' /\ Telling(b)' /\ Asking(b)' /\ Absent(b)'
  BY <1>1, <1>2, <1>7, <1>9, <1>10, <1>12
  DEF BoxOK, OneThing, Working, Crons, Commissions, Telling, Asking, Absent
<1>15. Joins(b)'
  <2>1. SUFFICES ASSUME NEW k \in job'[b], k.spec.task = "join"
                 PROVE  /\ k.spec.group # None
                        /\ Unbroken => BoundTo(b) = k.spec.group
                        /\ k.phase # "active"
                        /\ k.phase = "succeeded" => node'[b] = k.spec.group
    BY <1>11 DEF Joins
  <2>2. k.phase # "active" /\ k.spec = j.spec /\ k.phase = phase
    BY <1>8, <2>1
  <2>3. QED
    BY <1>5, <1>13, <2>1, <2>2
<1>16. Truly(b)'
  <2>1. SUFFICES ASSUME Unbroken, Placed(b) PROVE node'[b] = node[b]
    BY <1>1, <1>11 DEF BoxOK, Truly, InPlace
  <2>2. QED
    BY <1>5, <1>13, <2>1
<1>17. Fresh(b)'
  BY <1>2, <1>7, <1>9 DEF Fresh
<1>18. BoxOK(b)'
  BY <1>14, <1>15, <1>16, <1>17 DEF BoxOK
<1>19. \A x \in Box \ {b} : BoxOK(x)'
  BY <1>2, <1>3, <1>5, OpApart
<1>20. QED
  BY <1>18, <1>19

(* A Job that has ended is gone, looked at or not. *)
LEMMA JobCollectedTrue ==
  ASSUME TrueInv, NEW b \in Box, JobCollected(b)
  PROVE  \A x \in Box : BoxOK(x)'
<1>1. TypeInv /\ BoxOK(b) /\ job \in [Box -> SUBSET Job]
  BY DEF TrueInv, TypeInv, TypeOK
<1>2. UNCHANGED <<group, status, op, cron, mon, req, node>>
  BY DEF JobCollected, api
<1>3. Later
  <2>1. "missed" \in Fault /\ (Spend("missed") \/ UNCHANGED spent)
    BY DEF JobCollected, Fault
  <2>2. QED
    BY <1>1, <2>1, SpendLater
<1>4. PICK j \in job[b] : j.phase # "active" /\ job' = [job EXCEPT ![b] = @ \ {j}]
  BY DEF JobCollected
<1>5. job'[b] = job[b] \ {j} /\ \A x \in Box \ {b} : job'[x] = job[x]
  BY <1>1, <1>4
<1>6. Active(b)' = Active(b)
  BY <1>4, <1>5 DEF Active
<1>7. /\ StateOf(b)' = StateOf(b) /\ BoundTo(b)' = BoundTo(b) /\ Placed(b)' = Placed(b)
      /\ (Unbroken' => Unbroken) /\ (Unhurried' => Unhurried)
      /\ \A s : Kept(b, s)' <=> Kept(b, s)
  BY <1>2, <1>3, SameRead DEF Unbroken, Unhurried, Later, Kept
<1>8. (Told(b)' => Told(b)) /\ (\A r \in Request : Asked(r, b)' <=> Asked(r, b))
      /\ (Binding(b)' <=> Binding(b))
  BY <1>2, <1>5 DEF Told, Asked, Binding, Verdict
<1>9. OneThing(b)' /\ Crons(b)' /\ Absent(b)'
  BY <1>1, <1>2, <1>5, <1>6, <1>8 DEF BoxOK, OneThing, Crons, Absent
<1>10. Working(b)'
  BY <1>1, <1>2, <1>5, <1>7 DEF BoxOK, Working
<1>11. Commissions(b)'
  BY <1>1, <1>6, <1>7 DEF BoxOK, Commissions
<1>12. Joins(b)'
  BY <1>1, <1>2, <1>5, <1>7, <1>8 DEF BoxOK, Joins
<1>13. Telling(b)' /\ Truly(b)'
  BY <1>1, <1>2, <1>7 DEF BoxOK, Telling, Truly, InPlace
<1>14. Asking(b)'
  <2>1. SUFFICES ASSUME NEW r \in Request, Asked(r, b), Answers(r, b) PROVE Answers(r, b)'
    BY <1>1, <1>8 DEF BoxOK, Asking
  <2>2. QED
    BY <1>2, <1>6, <1>7, <2>1 DEF Answers
<1>15. Fresh(b)'
  BY <1>1, <1>2, <1>6, <1>7 DEF BoxOK, Fresh
<1>16. BoxOK(b)'
  BY <1>9, <1>10, <1>11, <1>12, <1>13, <1>14, <1>15 DEF BoxOK
<1>17. \A x \in Box \ {b} : BoxOK(x)'
  BY <1>2, <1>3, <1>5, OpApart
<1>18. QED
  BY <1>16, <1>17

(* The only playbook at the box submits: the disk is kept only of a machine that
   is in its place, and the answer says whether it was. *)
LEMMA CommissionSubmitsTrue ==
  ASSUME TrueInv, Counted, NEW b \in Box, NEW r \in Request, CommissionSubmits(b, r)
  PROVE  \A x \in Box : BoxOK(x)'
<1>1. /\ TypeInv /\ OneInv /\ BoxOK(b) /\ Settled(b)
      /\ req \in [Request -> Handling \union {None}] /\ node \in [Box -> Group \union {None}]
  BY DEF TrueInv, TypeInv, TypeOK, CommissionSubmits, MayStart, Counted
<1>2. UNCHANGED <<group, status, op, cron, job, mon, spent>>
  BY DEF CommissionSubmits, api, jobs
<1>3. Later
  BY <1>2 DEF Later
<1>4. PICK j \in Active(b) :
        /\ j.spec.task = "commission"
        /\ node' = IF Wiped(b, j.spec) THEN [node EXCEPT ![b] = None] ELSE node
        /\ PostCommission(r, b, ~Kept(b, j.spec))
  BY DEF CommissionSubmits
<1>5. \A k \in Active(b) : k = j
  BY <1>1, <1>4 DEF OneInv
<1>6. /\ \A x \in Box \ {b} : node'[x] = node[x]
      /\ node'[b] = IF Wiped(b, j.spec) THEN None ELSE node[b]
  BY <1>1, <1>4
<1>7. /\ Kept(b, j.spec)' <=> Kept(b, j.spec)
      /\ Kept(b, j.spec) => node'[b] = node[b]
  BY <1>6 DEF Kept, Wiped
<1> DEFINE bind == IF Kept(b, j.spec) THEN BoundTo(b) ELSE None
<1>8. /\ req[r] = None /\ group[b] # None
      /\ req' = [req EXCEPT ![r] = [box |-> b, pc |-> "spec", group |-> group[b],
                                    status |-> Submitted("Ready", bind)]]
  BY <1>4 DEF PostCommission, Accept, BoundTo
<1>9. /\ \A q \in Request \ {r} : req'[q] = req[q]
      /\ req'[r].box = b /\ req'[r].pc = "spec" /\ req'[r].group = group[b]
      /\ req'[r].status.state = "Ready" /\ req'[r].status.bind = bind
  <2> HIDE DEF bind
  <2> QED
    BY <1>1, <1>8 DEF Submitted
<1> HIDE DEF bind
<1>10. /\ op[b].pc = "idle" /\ ~Binding(b) /\ ~Told(b) /\ mon[b] = {}
       /\ \A q \in Request : ~Asked(q, b)
  BY <1>1, SettledAlone
<1>11. /\ StateOf(b)' = StateOf(b) /\ BoundTo(b)' = BoundTo(b) /\ Placed(b)' = Placed(b)
       /\ (Unbroken' <=> Unbroken) /\ (Unhurried' <=> Unhurried)
       /\ Active(b)' = Active(b) /\ ~Told(b)' /\ ~Binding(b)'
  BY <1>2, <1>10, SameRead DEF Unbroken, Unhurried, Active, Told, Binding, Verdict
<1>12. \A q \in Request : Asked(q, b)' => q = r
  BY <1>9, <1>10 DEF Asked
<1>13. OneThing(b)' /\ Working(b)' /\ Crons(b)' /\ Telling(b)' /\ Absent(b)'
  BY <1>1, <1>2, <1>8, <1>10, <1>11, <1>12
  DEF BoxOK, OneThing, Working, Crons, Telling, Absent
<1>14. Commissions(b)'
  BY <1>1, <1>5, <1>7, <1>11 DEF BoxOK, Commissions
<1>15. Joins(b)'
  <2>1. SUFFICES ASSUME NEW k \in job[b], k.spec.task = "join" PROVE FALSE
    BY <1>2 DEF Joins
  <2>2. k.phase # "active"
    BY <1>4, <1>5, <2>1 DEF Active
  <2>3. QED
    BY <1>1, <1>10, <2>1, <2>2, EndedJoin
<1>16. Asking(b)'
  <2>1. SUFFICES Answers(r, b)'
    BY <1>12 DEF Asking
  <2>2. \E k \in Active(b)' : /\ k.spec.task = "commission"
                              /\ bind = IF Kept(b, k.spec)' THEN BoundTo(b)' ELSE None
    BY <1>4, <1>7, <1>11 DEF bind
  <2>3. QED
    BY <1>2, <1>8, <1>9, <2>2 DEF Answers
<1>17. Truly(b)'
  <2>1. SUFFICES ASSUME Unbroken, Placed(b), BoundTo(b) # None PROVE node'[b] = node[b]
    BY <1>1, <1>11 DEF BoxOK, Truly, InPlace
  <2>2. Kept(b, j.spec)
    BY <1>1, <1>4, <2>1 DEF BoxOK, Commissions
  <2>3. QED
    BY <1>7, <2>2
<1>18. Fresh(b)'
  BY <1>1, <1>2, <1>11 DEF BoxOK, Fresh
<1>19. BoxOK(b)'
  BY <1>13, <1>14, <1>15, <1>16, <1>17, <1>18 DEF BoxOK
<1>20. \A x \in Box \ {b} : BoxOK(x)'
  BY <1>2, <1>3, <1>6, <1>8, <1>9, AskApart
<1>21. QED
  BY <1>19, <1>20

(* A machine boots: its box is asked for, or its status is to be written as it is,
   but New. *)
LEMMA BootTrue ==
  ASSUME TrueInv, Counted, NEW b \in Box, NEW r \in Request, Boot(b, r)
  PROVE  \A x \in Box : BoxOK(x)'
<1>1. /\ TypeInv /\ BoxOK(b) /\ Settled(b) /\ req \in [Request -> Handling \union {None}]
  BY DEF TrueInv, TypeInv, TypeOK, Boot, MayStart, Counted
<1>2. UNCHANGED <<group, status, op, cron, job, mon, node>>
  BY DEF Boot, api, jobs
<1>3. Later
  <2>1. "boot" \in Fault /\ (Spend("boot") \/ UNCHANGED spent)
    BY DEF Boot, Fault
  <2>2. QED
    BY <1>1, <2>1, SpendLater
<1>4. /\ op[b].pc = "idle" /\ ~Binding(b) /\ ~Told(b) /\ mon[b] = {}
      /\ \A q \in Request : ~Asked(q, b)
  BY <1>1, SettledAlone
<1>5. req[r] = None /\ \A q \in Request \ {r} : req'[q] = req[q]
  BY <1>1 DEF Boot, GetNew, Accept
<1>6. /\ req'[r].box = b /\ req'[r].pc \in {"create", "status"}
      /\ req'[r].pc = "status" => group[b] # None
      /\ req'[r].status.state = "New" /\ req'[r].status.bind = BoundTo(b)
  <2>1. CASE group[b] = None
    <3>1. status[b] = None
      BY <1>1, <2>1 DEF BoxOK, Absent
    <3>2. BoundTo(b) = None
      BY <3>1, ReadStatus
    <3>3. QED
      BY <1>1, <2>1, <3>2 DEF Boot, GetNew, Accept, Submitted
  <2>2. CASE group[b] # None
    BY <1>1, <2>2 DEF Boot, GetNew, Accept, Submitted, BoundTo
  <2>3. QED
    BY <2>1, <2>2
<1>7. /\ StateOf(b)' = StateOf(b) /\ BoundTo(b)' = BoundTo(b) /\ Placed(b)' = Placed(b)
      /\ (Unbroken' => Unbroken) /\ (Unhurried' => Unhurried)
  BY <1>2, <1>3, SameRead DEF Unbroken, Unhurried, Later
<1>8. /\ Active(b)' = Active(b) /\ ~Told(b)' /\ ~Binding(b)'
      /\ \A s : Kept(b, s)' <=> Kept(b, s)
  BY <1>2, <1>4 DEF Active, Told, Binding, Verdict, Kept
<1>9. \A q \in Request : Asked(q, b)' => q = r
  BY <1>4, <1>5 DEF Asked
<1>10. OneThing(b)' /\ Working(b)' /\ Crons(b)' /\ Telling(b)' /\ Absent(b)'
  BY <1>1, <1>2, <1>4, <1>8, <1>9 DEF BoxOK, OneThing, Working, Crons, Telling, Absent
<1>11. Commissions(b)'
  BY <1>1, <1>7, <1>8 DEF BoxOK, Commissions
<1>12. Joins(b)'
  BY <1>1, <1>2, <1>4, <1>7, <1>8 DEF BoxOK, Joins
<1>13. Asking(b)'
  <2>1. SUFFICES Answers(r, b)'
    BY <1>9 DEF Asking
  <2>2. QED
    BY <1>2, <1>6, <1>7 DEF Answers
<1>14. Truly(b)'
  BY <1>1, <1>2, <1>7 DEF BoxOK, Truly, InPlace
<1>15. Fresh(b)'
  BY <1>1, <1>2, <1>7, <1>8 DEF BoxOK, Fresh
<1>16. BoxOK(b)'
  BY <1>10, <1>11, <1>12, <1>13, <1>14, <1>15 DEF BoxOK
<1>17. \A x \in Box \ {b} : BoxOK(x)'
  BY <1>2, <1>3, <1>5, <1>6, AskApart
<1>18. QED
  BY <1>16, <1>17

(* The admin moves a box: nothing that is done to it is about a group, or he has
   been rash. *)
LEMMA RegroupTrue ==
  ASSUME TrueInv, Counted, NEW b \in Box, Regroup(b)
  PROVE  \A x \in Box : BoxOK(x)'
<1>1. TypeInv /\ BoxOK(b) /\ group \in [Box -> Group \union {None}]
  BY DEF TrueInv, TypeInv, TypeOK
<1>2. UNCHANGED <<status, op, cron, job, mon, req, node>>
  BY DEF Regroup, jobs
<1>3. /\ {"rash", "regroup"} \subseteq Fault
      /\ (Rash(b) /\ Spend("rash")) \/ (~Rash(b) /\ Spend("regroup"))
  BY DEF Regroup, Fault
<1>4. Later
  BY <1>1, <1>3, SpendLater
<1>5. group[b] # None /\ group'[b] # None /\ \A x \in Box \ {b} : group'[x] = group[x]
  BY <1>1, DefaultIsGroup DEF Regroup
<1>6. Unhurried' => ~Rash(b)
  BY <1>1, <1>3, SpendCounts DEF Unhurried, Counted
<1>7. ~Rash(b) => op[b].pc = "idle" /\ \A j \in Active(b) : j.spec.group = None
  BY DEF Rash
<1>8. /\ StateOf(b)' = StateOf(b) /\ BoundTo(b)' = BoundTo(b) /\ Placed(b)' = Placed(b)
      /\ (Unbroken' => Unbroken) /\ (Unhurried' => Unhurried)
  BY <1>2, <1>4, SameRead DEF Unbroken, Unhurried, Later
<1>9. /\ Active(b)' = Active(b) /\ (Told(b)' <=> Told(b)) /\ (Binding(b)' <=> Binding(b))
      /\ (\A s : Kept(b, s)' <=> Kept(b, s)) /\ (InPlace(b)' <=> InPlace(b))
      /\ \A r \in Request : Asked(r, b)' <=> Asked(r, b)
  BY <1>2, <1>8 DEF Active, Told, Binding, Verdict, Kept, InPlace, Asked
<1>10. OneThing(b)' /\ Working(b)' /\ Crons(b)' /\ Telling(b)' /\ Absent(b)'
  BY <1>1, <1>2, <1>5, <1>8, <1>9 DEF BoxOK, OneThing, Working, Crons, Telling, Absent
<1>11. Commissions(b)'
  BY <1>1, <1>8, <1>9 DEF BoxOK, Commissions
<1>12. Joins(b)'
  BY <1>1, <1>2, <1>8, <1>9 DEF BoxOK, Joins
<1>13. Asking(b)'
  <2>1. SUFFICES ASSUME NEW r \in Request, Answers(r, b) PROVE Answers(r, b)'
    BY <1>1, <1>9 DEF BoxOK, Asking
  <2>2. req[r].pc = "spec" => ~Unhurried'
    <3>1. SUFFICES ASSUME req[r].pc = "spec" PROVE Rash(b)
      BY <1>6
    <3>2. PICK j \in Active(b) : j.spec.task = "commission"
      BY <2>1, <3>1 DEF Answers
    <3>3. j.spec.group # None
      BY <1>1, <3>2 DEF BoxOK, Commissions
    <3>4. QED
      BY <1>7, <3>3
  <2>3. QED
    BY <1>2, <1>5, <1>8, <1>9, <2>1, <2>2 DEF Answers
<1>14. Truly(b)'
  BY <1>1, <1>8, <1>9 DEF BoxOK, Truly
<1>15. Fresh(b)'
  BY <1>2, <1>6, <1>7, <1>9 DEF Fresh
<1>16. BoxOK(b)'
  BY <1>10, <1>11, <1>12, <1>13, <1>14, <1>15 DEF BoxOK
<1>17. \A x \in Box \ {b} : BoxOK(x)'
  BY <1>2, <1>4, <1>5, OpApart
<1>18. QED
  BY <1>16, <1>17

-----------------------------------------------------------------------------
LEMMA TrueInit == Init => TrueInv
<1> SUFFICES ASSUME Init PROVE TrueInv
  OBVIOUS
<1>1. TypeInv
  BY TypeInit
<1>2. OneInv
  BY DEF Init, OneInv, Active
<1>3. BindInv
  BY DEF Init, BindInv, JoiningIsBound, Live, StateIn
<1>4. ASSUME NEW b \in Box PROVE BoxOK(b)
  <2>1. /\ status[b] = None /\ op[b].pc = "idle" /\ cron[b] = {} /\ job[b] = {}
        /\ mon[b] = {} /\ \A r \in Request : ~Asked(r, b)
    BY DEF Init, Idle, Asked
  <2>2. StateOf(b) = "New" /\ BoundTo(b) = None /\ ~Told(b) /\ ~Placed(b) /\ Active(b) = {}
    BY <2>1, ReadStatus DEF Told, Placed, Active
  <2>3. QED
    BY <2>1, <2>2
    DEF BoxOK, OneThing, Working, Crons, Commissions, Joins, Telling, Asking, Truly, Fresh, Absent
<1>5. QED
  BY <1>1, <1>2, <1>3, <1>4 DEF TrueInv

(* The cache only matters when a reconcile starts. *)
LEMMA NothingTrue ==
  ASSUME TrueInv, UNCHANGED <<group, status, op, cron, job, mon, req, node, spent>>
  PROVE  \A x \in Box : BoxOK(x)'
<1> SUFFICES ASSUME NEW x \in Box PROVE BoxOK(x)'
  OBVIOUS
<1>1. SameBox(x) /\ Later /\ BoxOK(x)
  BY DEF SameBox, Later, TrueInv
<1>2. QED
  BY <1>1, Apart

LEMMA TrueStep ==
  ASSUME Counted, TrueInv, [Next]_vars
  PROVE  TrueInv'
<1>1. TypeInv' /\ OneInv' /\ BindInv'
  BY TypeStep, OneStep, BindStep DEF TrueInv
<1>2. ASSUME NEW b \in Box, Operator(b)
      PROVE  \A x \in Box : BoxOK(x)'
  BY <1>2, ReconcilingTrue, PatchAlreadyJoinedTrue, OpStepsTrue, DeleteJobsTrue,
     CreateJobTrue, PatchStatusTrue
  DEF Operator
<1>3. ASSUME NEW b \in Box, Monitor(b)
      PROVE  \A x \in Box : BoxOK(x)'
  BY <1>3, MonitorJobTrue, MonitorPatchTrue DEF Monitor
<1>4. ASSUME NEW r \in Request, Gateway(r)
      PROVE  \A x \in Box : BoxOK(x)'
  BY <1>4, GatewayTrue, GatewayPatchStatusTrue DEF Gateway
<1>5. ASSUME NEW b \in Box, Environment(b)
      PROVE  \A x \in Box : BoxOK(x)'
  <2>1. CASE WatchBox(b)
    BY <2>1, NothingTrue DEF WatchBox, api, jobs
  <2>2. QED
    BY <1>5, <2>1, CronFiresTrue, JobEndsTrue, JobCollectedTrue, CommissionSubmitsTrue,
       BootTrue, RegroupTrue
    DEF Environment
<1>6. ASSUME UNCHANGED vars PROVE \A x \in Box : BoxOK(x)'
  BY <1>6, NothingTrue DEF vars
<1>7. \A x \in Box : BoxOK(x)'
  BY <1>2, <1>3, <1>4, <1>5, <1>6 DEF Next
<1>8. QED
  BY <1>1, <1>7 DEF TrueInv

(* At the pace of Prompt, whatever the four programs do to a box, as long as no
   reconcile has been broken off: a box that is shown Running is bound to a group,
   and its machine is a node of that group's cluster. *)
RunningIsInPlace ==
    Unbroken => \A b \in Box : StateOf(b) = "Running" => InPlace(b)

THEOREM RunningInPlace ==
  ASSUME Counted
  PROVE  Spec => []RunningIsInPlace
<1>1. Init => TrueInv
  BY TrueInit
<1>2. TrueInv /\ [Next]_vars => TrueInv'
  BY TrueStep
<1>3. TrueInv => RunningIsInPlace
  BY DEF TrueInv, BoxOK, Truly, Placed, RunningIsInPlace
<1>4. QED
  BY <1>1, <1>2, <1>3, PTL DEF Spec

(* A machine that is in its group, and bound to it, is never wiped, unless the
   admin has been rash: what its commission was told when it was created still
   holds when it comes to the disk. *)
THEOREM NotWiped ==
  ASSUME Counted
  PROVE  Spec => NeverWiped
<1>1. Init => TrueInv
  BY TrueInit
<1>2. TrueInv /\ [Next]_vars => TrueInv'
  BY TrueStep
<1>3. TrueInv /\ [Next]_vars =>
        [\A b \in Box : node[b] # None /\ node'[b] = None /\ spent["rash"] = 0 =>
            node[b] # group[b] \/ BindUpdated(Live(b))]_vars
  <2>1. SUFFICES ASSUME TrueInv, Next, NEW b \in Box,
                        node[b] # None, node'[b] = None, Unhurried
                 PROVE  node[b] # group[b] \/ BoundTo(b) # group[b]
    BY DEF BindUpdated, Live, BoundTo, Unhurried
  <2>2. /\ TypeInv /\ BoxOK(b) /\ node \in [Box -> Group \union {None}]
        /\ \A a \in Box : Joins(a)
    BY <2>1 DEF TrueInv, BoxOK, TypeInv, TypeOK
  <2>3. ~(\E a \in Box : \E j \in Active(a) :
             j.spec.task = "join" /\ node' = [node EXCEPT ![a] = j.spec.group])
    BY <2>1, <2>2 DEF Joins, Active
  <2>4. PICK a \in Box, r \in Request : CommissionSubmits(a, r)
    <3>1. ASSUME NEW a \in Box, Operator(a) PROVE FALSE
      BY <2>1, <2>3, <3>1
      DEF Operator, Reconciling, PatchAlreadyJoined, DeleteCronJobs, DeleteJobs, HalfWay,
          LoadClusterState, CreateJob, PatchStatus, AbortReconcile
    <3>2. ASSUME NEW a \in Box, Monitor(a) PROVE FALSE
      BY <2>1, <3>2 DEF Monitor, MonitorJob, MonitorPatch
    <3>3. ASSUME NEW r \in Request, Gateway(r) PROVE FALSE
      BY <2>1, <3>3
      DEF Gateway, CreateBox, GatewayPatchSpec, GatewayPatchStatus, GatewayFails
    <3>4. ASSUME NEW a \in Box, Environment(a)
          PROVE  \E r \in Request : CommissionSubmits(a, r)
      BY <2>1, <2>3, <3>4
      DEF Environment, WatchBox, CronFires, JobSucceeds, JobFails, HalfWay, JobCollected,
          Boot, Regroup
    <3>5. QED
      BY <2>1, <3>1, <3>2, <3>3, <3>4 DEF Next
  <2>5. PICK j \in Active(b) : j.spec.task = "commission" /\ ~Kept(b, j.spec)
    BY <2>1, <2>2, <2>4 DEF CommissionSubmits, Wiped
  <2>6. /\ j.spec.group = group[b]
        /\ j.spec.reset => BoundTo(b) # j.spec.group
    BY <2>1, <2>2, <2>5 DEF BoxOK, Commissions, Fresh
  <2>7. QED
    BY <2>1, <2>5, <2>6 DEF Kept
<1>4. QED
  BY <1>1, <1>2, <1>3, PTL DEF Spec, NeverWiped
=============================================================================
