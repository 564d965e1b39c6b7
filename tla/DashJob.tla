------------------------------ MODULE DashJob ------------------------------
(***************************************************************************)
(* Jobs of dash (crates/dash/operator/src/ctx/job.rs and what it calls in   *)
(* crates/dash/provider/src/client; crates/dash/provider/client).  A task  *)
(* has the fields of its input and a template; a job names the task and    *)
(* has inputs; while the job runs, the objects that the template makes of  *)
(* its inputs are in the cluster.  Whatever the operator does to the       *)
(* objects, it reads the task, fills in the inputs and renders the          *)
(* template again.                                                         *)
(***************************************************************************)
EXTENDS Naturals, SequencesExt

CONSTANTS
    Job,        \* names of jobs
    Values,     \* inputs of jobs
    Accepted,   \* of them, those that the fields of the task's input accept (DashInput)
    Version,    \* versions of the template, the first of them is 1
    Docs,       \* Docs[v]: the documents of version v, in their order
    Immutable,  \* documents that are never applied twice: PersistentVolume, StorageClass
    Claim,      \* documents that are never deleted: PersistentVolumeClaim
    None,
    Limit       \* how many disturbances there are: users' requests, failed calls, crashes

VARIABLES
    task,   \* the task: [state, version], or None
    jobs,   \* jobs[j]: the job j, or None
    objs,   \* the objects in the cluster: [job, doc]
    op,     \* op[j]: what the reconcile of j is about to do
    again,  \* the inputs of a job being restarted, or None
    used,   \* the names that jobs have had
    edited, \* the jobs that were there when the template was changed
    spent

jobVars == <<task, jobs, objs, op, again, used, edited>>

State == {"Pending", "Running", "Error", "Completed", "Deleting"}
Jobs == [state : State, del : BOOLEAN, fin : BOOLEAN, value : Values, fits : BOOLEAN]
Tasks == [state : {"Pending", "Ready"}, version : Version]
Steps == {"idle", "create", "revert", "collect", "erase", "fail", "asleep"}
Doc == UNION {ToSet(Docs[v]) : v \in Version}
Objects == [job : Job, doc : Doc]

ASSUME DashJobAssumption ==
    /\ Docs \in [Version -> Seq(Doc)]
    /\ 1 \in Version /\ Limit \in Nat
    /\ None \notin Jobs \union Tasks

(* fits: the task's fields accept the inputs, whenever they are asked. *)
NewJob(value, fin) ==
    [state |-> "Pending", del |-> FALSE, fin |-> fin, value |-> value,
     fits |-> value \in Accepted]

Idle == [pc |-> "idle", todo |-> <<>>]
At(j, step) == op[j].pc = step
Go(j, step, todo) == op' = [op EXCEPT ![j] = [pc |-> step, todo |-> todo]]
Stop(j) == op' = [op EXCEPT ![j] = Idle]
Done(j, step) == At(j, step) /\ op[j].todo = <<>>

JobInit ==
    /\ task = [state |-> "Pending", version |-> 1]
    /\ jobs = [j \in Job |-> None]
    /\ objs = {}
    /\ op = [j \in Job |-> Idle]
    /\ again = None /\ used = {} /\ edited = {}

Disturb == spent < Limit /\ spent' = spent + 1

-----------------------------------------------------------------------------
(* load_task, update_fields, finalize and load_template, which makes no request
   of the objects yet.                                                       *)
TaskReady == task # None /\ task.state = "Ready"
Renders(j) == TaskReady /\ jobs[j].fits
Rendered == Docs[task.version]

-----------------------------------------------------------------------------
(* The task.  Nothing keeps it while it has jobs. *)

(* validate_task: the fields are taken over into the status, once. *)
ValidateTask ==
    /\ task # None /\ task.state = "Pending"
    /\ task' = [task EXCEPT !.state = "Ready"]
    /\ UNCHANGED <<jobs, objs, op, again, used, edited, spent>>

EditTemplate ==
    /\ Disturb /\ task # None
    /\ \E v \in Version \ {task.version} : task' = [task EXCEPT !.version = v]
    /\ edited' = edited \union {j \in Job : jobs[j] # None}
    /\ UNCHANGED <<jobs, objs, op, again, used>>

RemoveTask ==
    /\ Disturb /\ task # None /\ task' = None
    /\ UNCHANGED <<jobs, objs, op, again, used, edited>>

-----------------------------------------------------------------------------
(* Users: kubectl, and the gateway by DashProviderClient. *)
Fresh(j) == j \notin used
Add(j, job) == jobs' = [jobs EXCEPT ![j] = job] /\ used' = used \union {j}

(* A delete waits for the finalizer. *)
Deleted(job) == IF job.fin THEN [job EXCEPT !.del = TRUE] ELSE None

Apply(j) ==
    /\ Disturb /\ Fresh(j)
    /\ \E value \in Values : Add(j, NewJob(value, FALSE))
    /\ UNCHANGED <<task, objs, op, again, edited>>

(* create *)
Post(j) ==
    /\ Disturb /\ Fresh(j) /\ TaskReady
    /\ \E value \in Values : Add(j, NewJob(value, TRUE))
    /\ UNCHANGED <<task, objs, op, again, edited>>

(* delete *)
DeleteJob(j) ==
    /\ Disturb /\ jobs[j] # None /\ ~jobs[j].del
    /\ jobs' = [jobs EXCEPT ![j] = Deleted(@)]
    /\ UNCHANGED <<task, objs, op, again, used, edited>>

(* restart: first the delete, *)
RestartOld(j) ==
    /\ Disturb /\ jobs[j] # None /\ again = None
    /\ jobs' = [jobs EXCEPT ![j] = Deleted(@)]
    /\ again' = jobs[j].value
    /\ UNCHANGED <<task, objs, op, used, edited>>

(* then the create, which fails if the task is not there. *)
RestartNew(j) ==
    /\ again # None /\ again' = None
    /\ IF TaskReady THEN Fresh(j) /\ Add(j, NewJob(again, TRUE))
                    ELSE UNCHANGED <<jobs, used>>
    /\ UNCHANGED <<task, objs, op, edited, spent>>

(* What a template makes ends by itself and is cleaned up by the cluster. *)
Vanish(o) ==
    /\ o \in objs /\ o.doc \notin Claim \union Immutable
    /\ jobs[o.job] # None /\ jobs[o.job].state = "Running" /\ At(o.job, "idle")
    /\ objs' = objs \ {o}
    /\ UNCHANGED <<task, jobs, op, again, used, edited, spent>>

-----------------------------------------------------------------------------
(* The controller: one reconcile of a job at a time. *)
Starts(j) == At(j, "idle") /\ jobs[j] # None
Doomed(job) == job.del /\ job.state # "Deleting"
Settled(job, state) == ~Doomed(job) /\ job.fin /\ job.state = state

Enters(j, state) ==
    jobs' = [jobs EXCEPT ![j].state = state]

Mark(j) ==
    /\ Starts(j)
    /\ \/ Doomed(jobs[j]) /\ Enters(j, "Deleting")
       \/ /\ ~Doomed(jobs[j]) /\ ~jobs[j].fin
          /\ jobs' = [jobs EXCEPT ![j].fin = TRUE]
    /\ UNCHANGED <<task, objs, op, again, used, edited, spent>>

(* Pending: the objects are made one after the other. *)
BeginCreate(j) ==
    /\ Starts(j) /\ Settled(jobs[j], "Pending")
    /\ IF Renders(j) THEN Go(j, "create", Rendered) ELSE Go(j, "fail", <<>>)
    /\ UNCHANGED <<task, jobs, objs, again, used, edited, spent>>

(* try_create *)
TryCreate(j) ==
    /\ At(j, "create") /\ op[j].todo # <<>>
    /\ objs' = objs \union {[job |-> j, doc |-> Head(op[j].todo)]}
    /\ Go(j, "create", Tail(op[j].todo))
    /\ UNCHANGED <<task, jobs, again, used, edited, spent>>

(* create: what has been made is taken back, with the template read again. *)
Revert(j) ==
    /\ Disturb
    /\ At(j, "create") /\ op[j].todo # <<>>
    /\ IF Renders(j) THEN Go(j, "revert", Rendered) ELSE Go(j, "fail", <<>>)
    /\ UNCHANGED <<task, jobs, objs, again, used, edited>>

Started(j) ==
    /\ Done(j, "create") /\ Enters(j, "Running") /\ Stop(j)
    /\ UNCHANGED <<task, objs, again, used, edited, spent>>

(* Running: the job runs as long as every object is there. *)
IsRunning(j) == \A d \in ToSet(Rendered) : [job |-> j, doc |-> d] \in objs

BeginCollect(j) ==
    /\ Starts(j) /\ Settled(jobs[j], "Running")
    /\ Renders(j) /\ ~IsRunning(j)
    /\ Go(j, "collect", Rendered)
    /\ UNCHANGED <<task, jobs, objs, again, used, edited, spent>>

BeginErase(j) ==
    /\ Starts(j) /\ Settled(jobs[j], "Deleting")
    /\ Renders(j)
    /\ Go(j, "erase", Rendered)
    /\ UNCHANGED <<task, jobs, objs, again, used, edited, spent>>

Deletes == {"revert", "collect", "erase"}

(* try_delete: volume claims are kept, and what is not there is fine. *)
TryDelete(j) ==
    /\ op[j].pc \in Deletes /\ op[j].todo # <<>>
    /\ objs' = IF Head(op[j].todo) \in Claim THEN objs
               ELSE objs \ {[job |-> j, doc |-> Head(op[j].todo)]}
    /\ Go(j, op[j].pc, Tail(op[j].todo))
    /\ UNCHANGED <<task, jobs, again, used, edited, spent>>

(* A request fails: the rest stays.  What is in the way of the start of a job is
   reported, anything else is tried again. *)
DeleteFails(j) ==
    /\ Disturb
    /\ op[j].pc \in Deletes /\ op[j].todo # <<>>
    /\ IF At(j, "revert") THEN Go(j, "fail", <<>>) ELSE Stop(j)
    /\ UNCHANGED <<task, jobs, objs, again, used, edited>>

(* update_spec_or_requeue *)
Reported(j) ==
    /\ \/ (Done(j, "revert") \/ At(j, "fail")) /\ Enters(j, "Error")
       \/ Done(j, "collect") /\ Enters(j, "Completed")
    /\ Stop(j)
    /\ UNCHANGED <<task, objs, again, used, edited, spent>>

(* A status that cannot be written is not tried again when the operator waits
   for a change of the job. *)
ReportFails(j) ==
    /\ Disturb
    /\ \/ Done(j, "create") /\ Stop(j)
       \/ (Done(j, "revert") \/ At(j, "fail") \/ Done(j, "collect")) /\ Go(j, "asleep", <<>>)
    /\ UNCHANGED <<task, jobs, objs, again, used, edited>>

Wake(j) ==
    /\ At(j, "asleep") /\ jobs[j].del
    /\ Stop(j)
    /\ UNCHANGED <<task, jobs, objs, again, used, edited, spent>>

(* Error and Completed: the job is deleted when it has been so for 20 minutes. *)
HasEnded(job) == job # None /\ job.state \in {"Error", "Completed"}

Expire(j) ==
    /\ Starts(j) /\ HasEnded(jobs[j]) /\ ~Doomed(jobs[j]) /\ jobs[j].fin
    /\ jobs' = [jobs EXCEPT ![j] = Deleted(@)]
    /\ UNCHANGED <<task, objs, op, again, used, edited, spent>>

(* Deleting: remove_finalizer *)
Release(j) ==
    /\ Done(j, "erase")
    /\ jobs' = [jobs EXCEPT ![j] = None]
    /\ Stop(j)
    /\ UNCHANGED <<task, objs, again, used, edited, spent>>

(* The operator stops and comes back. *)
Crash ==
    /\ Disturb
    /\ op' = [j \in Job |-> Idle]
    /\ UNCHANGED <<task, jobs, objs, again, used, edited>>

Operator(j) ==
    \/ Mark(j) \/ BeginCreate(j) \/ TryCreate(j) \/ Started(j) \/ BeginCollect(j)
    \/ BeginErase(j) \/ TryDelete(j) \/ Reported(j) \/ Wake(j) \/ Expire(j) \/ Release(j)

Users(j) == Apply(j) \/ Post(j) \/ DeleteJob(j) \/ RestartOld(j) \/ RestartNew(j)

JobSteps ==
    \/ ValidateTask \/ EditTemplate \/ RemoveTask
    \/ \E j \in Job : Operator(j) \/ Users(j)
                      \/ Revert(j) \/ DeleteFails(j) \/ ReportFails(j)
    \/ \E o \in objs : Vanish(o)

JobFairness ==
    /\ WF_<<jobVars, spent>>(ValidateTask)
    /\ \A j \in Job :
        /\ WF_<<jobVars, spent>>(Operator(j))
        /\ \A d \in Doc : WF_<<jobVars, spent>>(Vanish([job |-> j, doc |-> d]))
-----------------------------------------------------------------------------
JobTypeOK ==
    /\ task \in Tasks \union {None}
    /\ jobs \in [Job -> Jobs \union {None}]
    /\ objs \subseteq Objects
    /\ \A j \in Job : op[j].pc \in Steps /\ ToSet(op[j].todo) \subseteq Doc
    /\ again \in Values \union {None} /\ used \subseteq Job /\ edited \subseteq Job

(* What a job has made goes with it: once the job is gone, whatever failed or
   crashed on the way, only its volume claims are left, unless the template was
   changed under it.                                                           *)
NoOrphans ==
    \A o \in objs : jobs[o.job] = None => o.doc \in Claim \/ o.job \in edited

(* A job is Completed only when the rest of its objects has been collected. *)
CompletedIsClean ==
    \A o \in objs :
        jobs[o.job] # None /\ jobs[o.job].state = "Completed" =>
            o.doc \in Claim \/ o.job \in edited

(* The inputs the operator has started a job with are inputs its task accepts. *)
RunsAccepted ==
    \A j \in Job : jobs[j] # None /\ jobs[j].state \in {"Running", "Completed"} =>
        jobs[j].fits

(* A job whose inputs its task refuses: it can not start, and what would delete it
   asks the task for the same inputs (TaskSession::try_delete), so its finalizer
   stays for ever. *)
Trapped(j) == ~jobs[j].fits /\ jobs[j].state = "Deleting"

(* A job of which nothing ever ends. *)
Endless(j) == jobs[j].state = "Running" /\ ToSet(Rendered) \subseteq Claim \union Immutable

(* Every job leaves in the end: it starts or fails, completes, grows old, and is
   deleted.  Four stay: one whose task has been removed, one that is trapped, one
   that never ends, and one whose last status could not be written, which the
   operator sleeps over (Action::await_change) until somebody deletes it. *)
EveryJobLeaves ==
    \A j \in Job :
        /\ jobs[j] # None ~>
              jobs[j] = None \/ task = None \/ Trapped(j) \/ Endless(j) \/ At(j, "asleep")
        /\ jobs[j] # None /\ jobs[j].del ~> jobs[j] = None \/ task = None \/ Trapped(j)
=============================================================================
