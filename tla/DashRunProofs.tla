--------------------------- MODULE DashRunProofs ---------------------------
(***************************************************************************)
(* Theorems about what dash runs.  DashFunction, with the jobs of DashJob: *)
(* for any jobs, inputs, versions of the template and documents, any       *)
(* functions and nodes, however they share them, and any number of         *)
(* disturbances.  PipeSession: for any set of messages, any of them heavy, *)
(* any batch sizes and any limit on the tasks in flight.                   *)
(***************************************************************************)
EXTENDS PipeSession, DashFunction, FiniteSetTheorems, SequenceTheorems, TLAPS

(* Jobs. *)
Ops == [pc : Steps, todo : Seq(Doc)]

JobTyped == JobTypeOK /\ op \in [Job -> Ops] /\ objs \subseteq Objects

(* What is left of a job that is gone, or completed. *)
Clean(j) == \A o \in objs : o.job = j => o.doc \in Claim \/ j \in edited

(* An object is of the template as it is now. *)
Present(j, d) == j \in edited \/ task = None \/ d \in ToSet(Rendered)

(* What the operator knows of a job and does for it: a job without the finalizer
   has no objects; while it is reconciled it stays, in the state it was found in;
   and what is not about to be deleted when its objects are collected or erased is
   a volume claim, or of a job whose template was changed. *)
Steady(j) ==
    /\ j \notin used => jobs[j] = None
    /\ jobs[j] = None => op[j].pc = "idle" /\ Clean(j)
    /\ jobs[j] = None \/ jobs[j].fin \/ (op[j].pc = "idle" /\ jobs[j].state # "Completed")
    /\ j \notin used \/ (jobs[j] # None /\ ~jobs[j].fin) => \A o \in objs : o.job # j

Working(j) ==
    /\ op[j].pc \in {"create", "revert", "fail"} => jobs[j].state = "Pending"
    /\ op[j].pc = "collect" => jobs[j].state = "Running"
    /\ op[j].pc = "erase" => jobs[j].state = "Deleting"
    /\ op[j].pc = "create" =>
          jobs[j].fits /\ \A d \in ToSet(op[j].todo) : Present(j, d)
    /\ op[j].pc \in {"collect", "erase"} =>
          \A o \in objs : o.job = j =>
              o.doc \in Claim \/ j \in edited \/ o.doc \in ToSet(op[j].todo)

Settling(j) ==
    /\ jobs[j] # None /\ jobs[j].state = "Completed" => Clean(j)
    /\ jobs[j] # None /\ jobs[j].state \in {"Running", "Completed"} => jobs[j].fits
    /\ \A o \in objs : o.job = j => o.doc \in Claim \/ Present(j, o.doc)

JobOK(j) == Steady(j) /\ Working(j) /\ Settling(j)

JobInv == JobTyped /\ \A j \in Job : JobOK(j)

LEMMA JobInvIs == JobInv => JobTypeOK /\ NoOrphans /\ CompletedIsClean /\ RunsAccepted
<1>1. SUFFICES ASSUME JobInv PROVE JobTypeOK /\ NoOrphans /\ CompletedIsClean /\ RunsAccepted
  OBVIOUS
<1>2. \A o \in objs : o.job \in Job
  BY <1>1 DEF JobInv, JobTyped, Objects
<1>3. \A j \in Job : JobOK(j)
  BY <1>1 DEF JobInv
<1>4. JobTypeOK
  BY <1>1 DEF JobInv, JobTyped
<1>5. NoOrphans
  BY <1>2, <1>3 DEF JobOK, Steady, Clean, NoOrphans
<1>6. CompletedIsClean
  BY <1>2, <1>3 DEF JobOK, Settling, Clean, CompletedIsClean
<1>7. RunsAccepted
  BY <1>3 DEF JobOK, Settling, RunsAccepted
<1>8. QED
  BY <1>4, <1>5, <1>6, <1>7

LEMMA JobInitInv == JobInit => JobInv
<1>1. SUFFICES ASSUME JobInit PROVE JobInv
  OBVIOUS
<1>2. Idle \in Ops
  BY EmptySeq DEF Idle, Ops, Steps
<1>3. op \in [Job -> Ops] /\ \A j \in Job : op[j].pc = "idle" /\ ToSet(op[j].todo) = {}
  BY <1>1, <1>2 DEF JobInit, Idle, ToSet
<1>4. /\ task \in Tasks /\ jobs = [j \in Job |-> None]
      /\ objs = {} /\ again = None /\ used = {} /\ edited = {}
  BY <1>1, DashJobAssumption DEF JobInit, Tasks
<1>5. JobTyped
  BY <1>3, <1>4 DEF JobTyped, JobTypeOK, Objects, Steps
<1>6. ASSUME NEW j \in Job PROVE JobOK(j)
  BY <1>3, <1>4 DEF JobOK, Steady, Working, Settling, Clean
<1>7. QED
  BY <1>5, <1>6 DEF JobInv

-----------------------------------------------------------------------------
(* Sequences of documents. *)
LEMMA DocsType ==
  ASSUME NEW v \in Version
  PROVE  Docs[v] \in Seq(Doc) /\ ToSet(Docs[v]) \subseteq Doc
BY DashJobAssumption DEF Doc

LEMMA Todo ==
  ASSUME NEW s \in Seq(Doc)
  PROVE  /\ ToSet(s) \subseteq Doc
         /\ s = <<>> => ToSet(s) = {}
         /\ s # <<>> => /\ Head(s) \in Doc /\ Tail(s) \in Seq(Doc)
                        /\ Head(s) \in ToSet(s)
                        /\ ToSet(s) \subseteq {Head(s)} \union ToSet(Tail(s))
                        /\ ToSet(Tail(s)) \subseteq ToSet(s)
<1>1. DOMAIN s = 1 .. Len(s) /\ Len(s) \in Nat /\ \A i \in 1 .. Len(s) : s[i] \in Doc
  BY LenProperties, ElementOfSeq
<1>2. ToSet(s) = {s[i] : i \in 1 .. Len(s)}
  BY <1>1 DEF ToSet
<1>3. CASE s = <<>>
  BY <1>1, <1>2, <1>3
<1>4. CASE s # <<>>
  <2>1. Len(s) > 0 /\ Head(s) = s[1]
    BY <1>4
  <2>2. Tail(s) \in Seq(Doc) /\ Len(Tail(s)) = Len(s) - 1
    BY <1>4, HeadTailProperties
  <2>3. \A i \in 1 .. Len(Tail(s)) : Tail(s)[i] = s[i + 1]
    BY <1>4, HeadTailProperties
  <2>4. ToSet(Tail(s)) = {Tail(s)[i] : i \in 1 .. Len(Tail(s))}
    BY <2>2, LenProperties DEF ToSet
  <2>5. ASSUME NEW i \in 1 .. Len(s) PROVE s[i] \in {Head(s)} \union ToSet(Tail(s))
    <3>1. CASE i = 1
      BY <2>1, <3>1
    <3>2. CASE i # 1
      <4>1. i - 1 \in 1 .. Len(Tail(s)) /\ i - 1 + 1 = i
        BY <1>1, <2>2, <3>2
      <4>2. s[i] = Tail(s)[i - 1]
        BY <2>3, <4>1
      <4>3. QED
        BY <2>4, <4>1, <4>2
    <3>3. QED
      BY <3>1, <3>2
  <2>6. ASSUME NEW i \in 1 .. Len(Tail(s)) PROVE Tail(s)[i] \in ToSet(s)
    <3>1. i + 1 \in 1 .. Len(s)
      BY <1>1, <2>2
    <3>2. QED
      BY <1>2, <2>3, <3>1
  <2>7. QED
    BY <1>1, <1>2, <1>4, <2>1, <2>2, <2>4, <2>5, <2>6
<1>5. QED
  BY <1>3, <1>4

(* A job that a step does not touch stays as it is, when objects of it are at most
   removed, jobs are at most edited, and the task stays or goes. *)
LEMMA Untouched ==
  ASSUME NEW k \in Job, JobOK(k),
         jobs'[k] = jobs[k], op'[k] = op[k],
         \A o \in objs' : o.job = k => o \in objs,
         k \in used' <=> k \in used, edited \subseteq edited',
         task' = None \/ (task # None /\ task'.version = task.version)
  PROVE  JobOK(k)'
<1>1. ASSUME Clean(k) PROVE Clean(k)'
  BY <1>1 DEF Clean
<1>2. ASSUME NEW d, Present(k, d) PROVE Present(k, d)'
  BY <1>2 DEF Present, Rendered
<1>3. Steady(k)'
  BY <1>1 DEF JobOK, Steady
<1>4. Working(k)'
  BY <1>2 DEF JobOK, Working
<1>5. Settling(k)'
  BY <1>1, <1>2 DEF JobOK, Settling
<1>6. QED
  BY <1>3, <1>4, <1>5 DEF JobOK

(* A step that touches job j only. *)
LEMMA OneJob ==
  ASSUME JobInv, NEW j \in Job, JobTyped', JobOK(j)',
         \A k \in Job \ {j} :
            jobs'[k] = jobs[k] /\ op'[k] = op[k] /\ (k \in used' <=> k \in used),
         \A o \in objs' : o.job # j => o \in objs,
         edited' = edited, task' = task
  PROVE  JobInv'
<1>1. ASSUME NEW k \in Job \ {j} PROVE JobOK(k)'
  <2>1. task' = None \/ (task # None /\ task'.version = task.version)
    OBVIOUS
  <2>2. JobOK(k) /\ \A o \in objs' : o.job = k => o \in objs
    BY DEF JobInv
  <2>3. QED
    BY <2>1, <2>2, Untouched
<1>2. QED
  BY <1>1 DEF JobInv

(* A user adds a job of a name that was never used. *)
LEMMA AddStep ==
  ASSUME JobInv, NEW j \in Job, Fresh(j), NEW value \in Values, NEW fin \in BOOLEAN,
         Add(j, NewJob(value, fin)), again' \in Values \union {None},
         UNCHANGED <<task, objs, op, edited>>
  PROVE  JobInv'
<1>1. PICK new : new = NewJob(value, fin)
  OBVIOUS
<1>2. new \in Jobs /\ new.state = "Pending" /\ new # None
  <2>1. PICK fits \in BOOLEAN : fits <=> value \in Accepted
    OBVIOUS
  <2>2. new = [state |-> "Pending", del |-> FALSE, fin |-> fin, value |-> value, fits |-> fits]
    <3>1. CASE value \in Accepted
      <4>1. fits = TRUE /\ (value \in Accepted) = TRUE
        BY <2>1, <3>1
      <4>2. QED
        BY <1>1, <4>1, Zenon DEF NewJob
    <3>2. CASE value \notin Accepted
      <4>1. fits = FALSE /\ (value \in Accepted) = FALSE
        BY <2>1, <3>2
      <4>2. QED
        BY <1>1, <4>1, Zenon DEF NewJob
    <3>3. QED
      BY <3>1, <3>2
  <2>3. new \in Jobs /\ new.state = "Pending"
    BY <2>2 DEF Jobs, State
  <2>4. QED
    BY <2>3, DashJobAssumption
<1>3. jobs' = [jobs EXCEPT ![j] = new] /\ used' = used \union {j}
  BY <1>1 DEF Add
<1>4. JobTyped /\ JobOK(j) /\ j \notin used
  BY DEF JobInv, Fresh
<1>5. /\ jobs' \in [Job -> Jobs \union {None}] /\ jobs'[j] = new
      /\ \A k \in Job \ {j} : jobs'[k] = jobs[k]
  BY <1>2, <1>3, <1>4 DEF JobTyped, JobTypeOK
<1>6. JobTyped'
  BY <1>3, <1>4, <1>5 DEF JobTyped, JobTypeOK
<1>7. op[j].pc = "idle" /\ \A o \in objs : o.job # j
  BY <1>4 DEF JobOK, Steady
<1>8. JobOK(j)'
  <2>1. Steady(j)'
    BY <1>2, <1>3, <1>5, <1>7 DEF Steady, Clean
  <2>2. Working(j)'
    BY <1>7 DEF Working
  <2>3. Settling(j)'
    BY <1>2, <1>5, <1>7 DEF Settling, Clean
  <2>4. QED
    BY <2>1, <2>2, <2>3 DEF JobOK
<1>9. \A k \in Job \ {j} : k \in used' <=> k \in used
  BY <1>3
<1>10. QED
  BY <1>5, <1>6, <1>8, <1>9, OneJob

(* A job is deleted, by a user or by the operator. *)
LEMMA DeletedStep ==
  ASSUME JobInv, NEW j \in Job, jobs[j] # None,
         jobs' = [jobs EXCEPT ![j] = Deleted(@)], again' \in Values \union {None},
         UNCHANGED <<task, objs, op, used, edited>>
  PROVE  JobInv'
<1>1. JobTyped /\ JobOK(j)
  BY DEF JobInv
<1>2. PICK old \in Jobs : old = jobs[j]
  BY <1>1 DEF JobTyped, JobTypeOK
<1>3. PICK new : new = Deleted(old)
  OBVIOUS
<1>4. /\ jobs' \in [Job -> Jobs \union {None}] /\ jobs'[j] = new
      /\ \A k \in Job \ {j} : jobs'[k] = jobs[k]
      /\ old.fin => /\ new \in Jobs /\ new # None /\ new.fin
                    /\ new.state = old.state /\ new.fits = old.fits
      /\ ~old.fin => new = None
  <2>1. new \in Jobs \union {None} /\ jobs' = [jobs EXCEPT ![j] = new]
    BY <1>2, <1>3 DEF Deleted, Jobs
  <2>2. old.fin => new = [old EXCEPT !.del = TRUE]
    BY <1>3 DEF Deleted
  <2>3. old.fin => /\ new \in Jobs /\ new.fin
                   /\ new.state = old.state /\ new.fits = old.fits
    BY <2>2 DEF Jobs
  <2>4. ~old.fin => new = None
    BY <1>3 DEF Deleted
  <2>5. QED
    BY <1>1, <2>1, <2>3, <2>4, DashJobAssumption DEF JobTyped, JobTypeOK
<1>5. JobTyped'
  BY <1>1, <1>4 DEF JobTyped, JobTypeOK
<1>6. JobOK(j)'
  <2>1. Steady(j)'
    <3>1. j \in used /\ Clean(j)' = Clean(j)
      BY <1>1 DEF JobOK, Steady, Clean
    <3>2. CASE old.fin
      BY <1>4, <3>1, <3>2 DEF Steady
    <3>3. CASE ~old.fin
      <4>1. op[j].pc = "idle" /\ \A o \in objs : o.job # j
        BY <1>1, <1>2, <3>3 DEF JobOK, Steady
      <4>2. QED
        BY <1>4, <3>1, <3>3, <4>1 DEF Steady, Clean
    <3>4. QED
      BY <3>2, <3>3
  <2>2. old.fin \/ op[j].pc = "idle"
    BY <1>1, <1>2 DEF JobOK, Steady
  <2>3. Working(j)'
    BY <1>1, <1>2, <1>4, <2>2 DEF JobOK, Working, Present, Rendered
  <2>4. Settling(j)'
    BY <1>1, <1>2, <1>4 DEF JobOK, Settling, Clean, Present, Rendered
  <2>5. QED
    BY <2>1, <2>3, <2>4 DEF JobOK
<1>7. QED
  BY <1>4, <1>5, <1>6, OneJob

(* The finalizer is set, or the job gets a new state that fits. *)
LEMMA MarkStep ==
  ASSUME JobInv, NEW j \in Job, Mark(j)
  PROVE  JobInv'
<1>1. JobTyped /\ JobOK(j) /\ op[j].pc = "idle" /\ jobs[j] # None
  BY DEF JobInv, Mark, Starts, At
<1>2. PICK old \in Jobs : old = jobs[j]
  BY <1>1 DEF JobTyped, JobTypeOK
<1>3. UNCHANGED <<task, objs, op, again, used, edited>>
  BY DEF Mark
<1>4. PICK new \in Jobs : /\ jobs' = [jobs EXCEPT ![j] = new] /\ new # None
                          /\ new.fits = old.fits
                          /\ \/ new.state = "Deleting" /\ new.fin = old.fin
                             \/ new.state = old.state /\ new.fin
  <2>1. CASE Doomed(jobs[j]) /\ Enters(j, "Deleting")
    <3>1. [old EXCEPT !.state = "Deleting"] \in Jobs
      BY DEF Jobs, State
    <3>2. jobs' = [jobs EXCEPT ![j] = [old EXCEPT !.state = "Deleting"]]
      BY <1>2, <2>1 DEF Enters
    <3>3. QED
      BY <3>1, <3>2, DashJobAssumption DEF Jobs
  <2>2. CASE jobs' = [jobs EXCEPT ![j].fin = TRUE]
    <3>1. [old EXCEPT !.fin = TRUE] \in Jobs
      BY DEF Jobs
    <3>2. jobs' = [jobs EXCEPT ![j] = [old EXCEPT !.fin = TRUE]]
      BY <1>2, <2>2
    <3>3. QED
      BY <3>1, <3>2, DashJobAssumption DEF Jobs
  <2>3. QED
    BY <2>1, <2>2 DEF Mark
<1>5. /\ jobs' \in [Job -> Jobs \union {None}] /\ jobs'[j] = new
      /\ \A k \in Job \ {j} : jobs'[k] = jobs[k]
  BY <1>1, <1>4 DEF JobTyped, JobTypeOK
<1>6. JobTyped'
  BY <1>1, <1>3, <1>5 DEF JobTyped, JobTypeOK
<1>7. JobOK(j)'
  <2>1. j \in used
    BY <1>1 DEF JobOK, Steady
  <2>2. Steady(j)'
    BY <1>1, <1>2, <1>3, <1>4, <1>5, <2>1 DEF JobOK, Steady
  <2>3. Working(j)'
    BY <1>1, <1>3 DEF Working
  <2>4. Settling(j)'
    BY <1>1, <1>2, <1>3, <1>4, <1>5 DEF JobOK, Settling, Clean, Present, Rendered
  <2>5. QED
    BY <2>2, <2>3, <2>4 DEF JobOK
<1>8. QED
  BY <1>3, <1>5, <1>6, <1>7, OneJob

-----------------------------------------------------------------------------
(* What the reconcile of a job is about to do. *)
LEMMA GoIs ==
  ASSUME op \in [Job -> Ops], NEW j \in Job,
         NEW step \in Steps, NEW todo \in Seq(Doc), Go(j, step, todo)
  PROVE  /\ op' \in [Job -> Ops] /\ op'[j].pc = step /\ op'[j].todo = todo
         /\ \A k \in Job \ {j} : op'[k] = op[k]
<1>1. PICK new : new = [pc |-> step, todo |-> todo]
  OBVIOUS
<1>2. new \in Ops /\ new.pc = step /\ new.todo = todo
  BY <1>1 DEF Ops
<1>3. op' = [op EXCEPT ![j] = new]
  BY <1>1 DEF Go
<1>4. QED
  BY <1>2, <1>3

LEMMA StopIs == ASSUME NEW j \in Job, Stop(j) PROVE Go(j, "idle", <<>>)
BY DEF Stop, Go, Idle

LEMMA OpType ==
  ASSUME NEW o \in Ops
  PROVE  o.pc \in Steps /\ o.todo \in Seq(Doc) /\ ToSet(o.todo) \subseteq Doc
<1>1. o.pc \in Steps /\ o.todo \in Seq(Doc)
  BY DEF Ops
<1>2. QED
  BY <1>1, Todo

LEMMA RenderedIs ==
  ASSUME JobTyped, TaskReady
  PROVE  Rendered \in Seq(Doc) /\ ToSet(Rendered) \subseteq Doc
<1>1. task.version \in Version
  BY DEF JobTyped, JobTypeOK, Tasks, TaskReady
<1>2. QED
  BY <1>1, DocsType DEF Rendered

(* The reconcile goes on, and nothing of the cluster has changed yet. *)
LEMMA OpStep ==
  ASSUME JobInv, NEW j \in Job,
         NEW step \in Steps, NEW todo \in Seq(Doc), Go(j, step, todo),
         UNCHANGED <<task, jobs, objs, again, used, edited>>,
         step = "idle" \/ (jobs[j] # None /\ jobs[j].fin),
         Working(j)'
  PROVE  JobInv'
<1>1. JobTyped /\ JobOK(j)
  BY DEF JobInv
<1>2. /\ op' \in [Job -> Ops] /\ op'[j].pc = step
      /\ \A k \in Job \ {j} : op'[k] = op[k]
  BY <1>1, GoIs DEF JobTyped
<1>3. \A k \in Job : op'[k].pc \in Steps /\ ToSet(op'[k].todo) \subseteq Doc
  BY <1>2, OpType
<1>4. JobTyped'
  BY <1>1, <1>2, <1>3 DEF JobTyped, JobTypeOK
<1>5. Steady(j)'
  BY <1>1, <1>2 DEF JobOK, Steady, Clean
<1>6. Settling(j)'
  BY <1>1 DEF JobOK, Settling, Clean, Present, Rendered
<1>7. JobOK(j)'
  BY <1>5, <1>6 DEF JobOK
<1>8. QED
  BY <1>2, <1>4, <1>7, OneJob

(* A reconcile that is about to do something has found a job with the finalizer. *)
LEMMA Found ==
  ASSUME JobInv, NEW j \in Job, op[j].pc # "idle"
  PROVE  jobs[j] \in Jobs /\ jobs[j] # None /\ jobs[j].fin /\ j \in used
BY DEF JobInv, JobTyped, JobTypeOK, JobOK, Steady

LEMMA BeginCreateStep == ASSUME JobInv, NEW j \in Job, BeginCreate(j) PROVE JobInv'
<1>1. UNCHANGED <<task, jobs, objs, again, used, edited>>
  BY DEF BeginCreate
<1>2. jobs[j] # None /\ jobs[j].fin /\ jobs[j].state = "Pending" /\ JobTyped
  BY DEF BeginCreate, Starts, Settled, JobInv
<1>3. CASE Renders(j) /\ Go(j, "create", Rendered)
  <2>1. PICK todo \in Seq(Doc) : todo = Rendered
    BY <1>2, <1>3, RenderedIs DEF Renders
  <2>2. Go(j, "create", todo) /\ "create" \in Steps
    BY <1>3, <2>1 DEF Steps
  <2>3. op'[j].pc = "create" /\ op'[j].todo = todo
    BY <1>2, <2>2, GoIs DEF JobTyped
  <2>4. \A d \in ToSet(todo) : Present(j, d)'
    BY <1>1, <2>1 DEF Present, Rendered
  <2>5. Working(j)'
    BY <1>1, <1>2, <1>3, <2>3, <2>4 DEF Working, Renders
  <2>6. QED
    BY <1>1, <1>2, <2>2, <2>5, OpStep
<1>4. CASE Go(j, "fail", <<>>)
  <2>1. "fail" \in Steps /\ <<>> \in Seq(Doc)
    BY EmptySeq DEF Steps
  <2>2. op'[j].pc = "fail"
    BY <1>2, <1>4, <2>1, GoIs DEF JobTyped
  <2>3. Working(j)'
    BY <1>1, <1>2, <2>2 DEF Working
  <2>4. QED
    BY <1>1, <1>2, <1>4, <2>1, <2>3, OpStep
<1>5. QED
  BY <1>3, <1>4 DEF BeginCreate

(* The template is made again, and all of its objects are to be deleted. *)
LEMMA BeginStep ==
  ASSUME JobInv, NEW j \in Job, BeginCollect(j) \/ BeginErase(j)
  PROVE  JobInv'
<1>1. /\ UNCHANGED <<task, jobs, objs, again, used, edited>>
      /\ Renders(j) /\ jobs[j] # None /\ jobs[j].fin /\ JobTyped /\ JobOK(j)
  BY DEF BeginCollect, BeginErase, Starts, Settled, JobInv
<1>2. PICK step \in Steps :
         /\ Go(j, step, Rendered)
         /\ \/ step = "collect" /\ jobs[j].state = "Running"
            \/ step = "erase" /\ jobs[j].state = "Deleting"
  BY DEF BeginCollect, BeginErase, Settled, Steps
<1>3. PICK todo \in Seq(Doc) : todo = Rendered
  BY <1>1, RenderedIs DEF Renders
<1>4. Go(j, step, todo)
  BY <1>2, <1>3
<1>5. op'[j].pc = step /\ op'[j].todo = todo
  BY <1>1, <1>4, GoIs DEF JobTyped
<1>6. \A o \in objs : o.job = j => o.doc \in Claim \/ j \in edited \/ o.doc \in ToSet(todo)
  BY <1>1, <1>3 DEF JobOK, Settling, Present, Renders, TaskReady
<1>7. Working(j)'
  BY <1>1, <1>2, <1>5, <1>6 DEF Working
<1>8. QED
  BY <1>1, <1>2, <1>4, <1>7, OpStep

(* The reconcile ends, or goes to sleep, with everything as it is. *)
LEMMA RestStep ==
  ASSUME JobInv, NEW j \in Job, NEW step \in {"idle", "asleep"},
         Go(j, step, <<>>), op[j].pc # "idle",
         UNCHANGED <<task, jobs, objs, again, used, edited>>
  PROVE  JobInv'
<1>1. step \in Steps /\ <<>> \in Seq(Doc)
  BY EmptySeq DEF Steps
<1>2. op'[j].pc = step
  BY <1>1, GoIs DEF JobInv, JobTyped
<1>3. Working(j)'
  BY <1>2 DEF Working
<1>4. QED
  BY <1>1, <1>3, Found, OpStep

LEMMA FailStep ==
  ASSUME JobInv, NEW j \in Job, Go(j, "fail", <<>>),
         op[j].pc \in {"create", "revert"},
         UNCHANGED <<task, jobs, objs, again, used, edited>>
  PROVE  JobInv'
<1>1. "fail" \in Steps /\ <<>> \in Seq(Doc)
  BY EmptySeq DEF Steps
<1>2. op'[j].pc = "fail"
  BY <1>1, GoIs DEF JobInv, JobTyped
<1>3. jobs[j].state = "Pending"
  BY DEF JobInv, JobOK, Working
<1>4. Working(j)'
  BY <1>2, <1>3 DEF Working
<1>5. QED
  BY <1>1, <1>4, Found, OpStep

LEMMA RevertStep == ASSUME JobInv, NEW j \in Job, Revert(j) PROVE JobInv'
<1>1. op[j].pc = "create" /\ UNCHANGED <<task, jobs, objs, again, used, edited>>
  BY DEF Revert, At
<1>2. CASE Renders(j) /\ Go(j, "revert", Rendered)
  <2>1. PICK todo \in Seq(Doc) : todo = Rendered
    BY <1>2, RenderedIs DEF Renders, JobInv
  <2>2. Go(j, "revert", todo) /\ "revert" \in Steps
    BY <1>2, <2>1 DEF Steps
  <2>3. op'[j].pc = "revert"
    BY <2>2, GoIs DEF JobInv, JobTyped
  <2>4. jobs[j].state = "Pending"
    BY <1>1 DEF JobInv, JobOK, Working
  <2>5. Working(j)'
    BY <1>1, <2>3, <2>4 DEF Working
  <2>6. QED
    BY <1>1, <2>2, <2>5, Found, OpStep
<1>3. CASE Go(j, "fail", <<>>)
  BY <1>1, <1>3, FailStep
<1>4. QED
  BY <1>2, <1>3 DEF Revert

LEMMA DeleteFailsStep == ASSUME JobInv, NEW j \in Job, DeleteFails(j) PROVE JobInv'
<1>1. op[j].pc # "idle" /\ UNCHANGED <<task, jobs, objs, again, used, edited>>
  BY DEF DeleteFails, Deletes
<1>2. CASE At(j, "revert") /\ Go(j, "fail", <<>>)
  BY <1>1, <1>2, FailStep DEF At
<1>3. CASE Stop(j)
  BY <1>1, <1>3, StopIs, RestStep
<1>4. QED
  BY <1>2, <1>3 DEF DeleteFails

LEMMA ReportFailsStep == ASSUME JobInv, NEW j \in Job, ReportFails(j) PROVE JobInv'
<1>1. op[j].pc # "idle" /\ UNCHANGED <<task, jobs, objs, again, used, edited>>
  BY DEF ReportFails, Done, At
<1>2. Go(j, "idle", <<>>) \/ Go(j, "asleep", <<>>)
  BY StopIs DEF ReportFails
<1>3. QED
  BY <1>1, <1>2, RestStep

LEMMA WakeStep == ASSUME JobInv, NEW j \in Job, Wake(j) PROVE JobInv'
<1>1. op[j].pc # "idle" /\ UNCHANGED <<task, jobs, objs, again, used, edited>>
  BY DEF Wake, At
<1>2. QED
  BY <1>1, StopIs, RestStep DEF Wake

-----------------------------------------------------------------------------
(* Objects are made and deleted. *)
LEMMA TryCreateStep == ASSUME JobInv, NEW j \in Job, TryCreate(j) PROVE JobInv'
<1>1. /\ op[j].pc = "create" /\ op[j].todo # <<>>
      /\ UNCHANGED <<task, jobs, again, used, edited>>
  BY DEF TryCreate, At
<1>2. /\ JobTyped /\ JobOK(j) /\ op[j].todo \in Seq(Doc)
      /\ jobs[j] # None /\ jobs[j].fin /\ j \in used
  BY <1>1, Found, OpType DEF JobInv, JobTyped
<1>3. PICK head, tail : head = Head(op[j].todo) /\ tail = Tail(op[j].todo)
  OBVIOUS
<1>4. /\ head \in Doc /\ tail \in Seq(Doc)
      /\ head \in ToSet(op[j].todo) /\ ToSet(tail) \subseteq ToSet(op[j].todo)
  BY <1>1, <1>2, <1>3, Todo
<1>5. PICK made : made = [job |-> j, doc |-> head]
  OBVIOUS
<1>6. made \in Objects /\ made.job = j /\ made.doc = head
  BY <1>4, <1>5 DEF Objects
<1>7. objs' = objs \union {made} /\ Go(j, "create", tail) /\ "create" \in Steps
  BY <1>3, <1>5 DEF TryCreate, Steps
<1>8. /\ op' \in [Job -> Ops] /\ op'[j].pc = "create" /\ op'[j].todo = tail
      /\ \A k \in Job \ {j} : op'[k] = op[k]
  BY <1>2, <1>4, <1>7, GoIs DEF JobTyped
<1>9. JobTyped'
  <2>1. \A k \in Job : op'[k].pc \in Steps /\ ToSet(op'[k].todo) \subseteq Doc
    BY <1>8, OpType
  <2>2. QED
    BY <1>1, <1>2, <1>6, <1>7, <1>8, <2>1 DEF JobTyped, JobTypeOK
<1>10. jobs[j].state = "Pending" /\ jobs[j].fits /\ \A d \in ToSet(op[j].todo) : Present(j, d)
  BY <1>1, <1>2 DEF JobOK, Working
<1>11. \A d \in ToSet(op[j].todo) : Present(j, d)'
  BY <1>1, <1>10 DEF Present, Rendered
<1>12. JobOK(j)'
  <2>1. Steady(j)'
    BY <1>1, <1>2, <1>10 DEF Steady
  <2>2. Working(j)'
    BY <1>1, <1>4, <1>8, <1>10, <1>11 DEF Working
  <2>3. \A o \in objs : o.job = j => o.doc \in Claim \/ Present(j, o.doc)'
    BY <1>1, <1>2 DEF JobOK, Settling, Present, Rendered
  <2>4. Settling(j)'
    BY <1>1, <1>4, <1>6, <1>7, <1>10, <1>11, <2>3 DEF Settling
  <2>5. QED
    BY <2>1, <2>2, <2>4 DEF JobOK
<1>13. QED
  BY <1>1, <1>6, <1>7, <1>8, <1>9, <1>12, OneJob

LEMMA TryDeleteStep == ASSUME JobInv, NEW j \in Job, TryDelete(j) PROVE JobInv'
<1>1. /\ op[j].pc \in Deletes /\ op[j].pc # "idle" /\ op[j].todo # <<>>
      /\ UNCHANGED <<task, jobs, again, used, edited>>
  BY DEF TryDelete, Deletes
<1>2. /\ JobTyped /\ JobOK(j) /\ op[j].todo \in Seq(Doc) /\ op[j].pc \in Steps
      /\ jobs[j] # None /\ jobs[j].fin /\ j \in used
  BY <1>1, Found, OpType DEF JobInv, JobTyped
<1>3. PICK head, tail : head = Head(op[j].todo) /\ tail = Tail(op[j].todo)
  OBVIOUS
<1>4. tail \in Seq(Doc) /\ ToSet(op[j].todo) \subseteq {head} \union ToSet(tail)
  BY <1>1, <1>2, <1>3, Todo
<1>5. /\ objs' = IF head \in Claim THEN objs ELSE objs \ {[job |-> j, doc |-> head]}
      /\ Go(j, op[j].pc, tail)
  BY <1>3 DEF TryDelete
<1>6. objs' \subseteq objs
  BY <1>5
<1>7. /\ op' \in [Job -> Ops] /\ op'[j].pc = op[j].pc /\ op'[j].todo = tail
      /\ \A k \in Job \ {j} : op'[k] = op[k]
  BY <1>2, <1>4, <1>5, GoIs DEF JobTyped
<1>8. JobTyped'
  <2>1. \A k \in Job : op'[k].pc \in Steps /\ ToSet(op'[k].todo) \subseteq Doc
    BY <1>7, OpType
  <2>2. QED
    BY <1>1, <1>2, <1>6, <1>7, <2>1 DEF JobTyped, JobTypeOK
<1>9. ASSUME NEW o \in objs', o.job = j, op[j].pc \in {"collect", "erase"}
      PROVE  o.doc \in Claim \/ j \in edited \/ o.doc \in ToSet(tail)
  <2>1. o \in objs /\ o \in Objects
    BY <1>2, <1>6 DEF JobTyped
  <2>2. o = [job |-> j, doc |-> o.doc]
    BY <1>9, <2>1 DEF Objects
  <2>3. o.doc # head \/ head \in Claim
    BY <1>5, <1>9, <2>2
  <2>4. o.doc \in Claim \/ j \in edited \/ o.doc \in ToSet(op[j].todo)
    BY <1>2, <1>9, <2>1 DEF JobOK, Working
  <2>5. QED
    BY <1>4, <2>3, <2>4
<1>10. JobOK(j)'
  <2>1. Steady(j)'
    BY <1>1, <1>2, <1>6, <1>7 DEF JobOK, Steady, Clean
  <2>2. Working(j)'
    BY <1>1, <1>2, <1>7, <1>9 DEF JobOK, Working, Deletes
  <2>3. Settling(j)'
    BY <1>1, <1>2, <1>6 DEF JobOK, Settling, Clean, Present, Rendered
  <2>4. QED
    BY <2>1, <2>2, <2>3 DEF JobOK
<1>11. QED
  BY <1>1, <1>6, <1>7, <1>8, <1>10, OneJob

-----------------------------------------------------------------------------
(* The reconcile ends: the job gets the state that it reports, or goes. *)
LEMMA EntersIs ==
  ASSUME JobInv, NEW j \in Job, jobs[j] # None, NEW state \in State, Enters(j, state)
  PROVE  /\ jobs' \in [Job -> Jobs \union {None}]
         /\ \A k \in Job \ {j} : jobs'[k] = jobs[k]
         /\ jobs'[j] \in Jobs /\ jobs'[j] # None /\ jobs'[j].state = state
         /\ jobs'[j].fin = jobs[j].fin /\ jobs'[j].fits = jobs[j].fits
<1>1. PICK old \in Jobs : old = jobs[j]
  BY DEF JobInv, JobTyped, JobTypeOK
<1>2. PICK new : new = [old EXCEPT !.state = state]
  OBVIOUS
<1>3. new \in Jobs /\ new.state = state /\ new.fin = old.fin /\ new.fits = old.fits
  BY <1>2 DEF Jobs
<1>4. jobs' = [jobs EXCEPT ![j] = new]
  BY <1>1, <1>2 DEF Enters
<1>5. new # None
  BY <1>3, DashJobAssumption
<1>6. QED
  BY <1>1, <1>3, <1>4, <1>5 DEF JobInv, JobTyped, JobTypeOK

(* A job ends its reconcile in a state that the objects justify. *)
LEMMA EndStep ==
  ASSUME JobInv, NEW j \in Job, NEW state \in {"Running", "Error", "Completed"},
         Enters(j, state), Stop(j), op[j].pc # "idle",
         state # "Error" => jobs[j].fits,
         state = "Completed" => Clean(j),
         UNCHANGED <<task, objs, again, used, edited>>
  PROVE  JobInv'
<1>1. JobTyped /\ JobOK(j) /\ jobs[j] # None /\ jobs[j].fin /\ j \in used
  BY Found DEF JobInv
<1>2. /\ jobs' \in [Job -> Jobs \union {None}]
      /\ \A k \in Job \ {j} : jobs'[k] = jobs[k]
      /\ jobs'[j] \in Jobs /\ jobs'[j] # None /\ jobs'[j].state = state
      /\ jobs'[j].fin = jobs[j].fin /\ jobs'[j].fits = jobs[j].fits
  BY <1>1, EntersIs DEF State
<1>3. /\ op' \in [Job -> Ops] /\ op'[j].pc = "idle"
      /\ \A k \in Job \ {j} : op'[k] = op[k]
  BY <1>1, StopIs, GoIs, EmptySeq DEF JobTyped, Steps
<1>4. JobTyped'
  <2>1. \A k \in Job : op'[k].pc \in Steps /\ ToSet(op'[k].todo) \subseteq Doc
    BY <1>3, OpType
  <2>2. QED
    BY <1>1, <1>2, <1>3, <2>1 DEF JobTyped, JobTypeOK
<1>5. JobOK(j)'
  <2>1. Steady(j)'
    BY <1>1, <1>2, <1>3 DEF Steady
  <2>2. Working(j)'
    BY <1>3 DEF Working
  <2>3. Settling(j)'
    BY <1>1, <1>2 DEF JobOK, Settling, Clean, Present, Rendered
  <2>4. QED
    BY <2>1, <2>2, <2>3 DEF JobOK
<1>6. QED
  BY <1>2, <1>3, <1>4, <1>5, OneJob

LEMMA StartedStep == ASSUME JobInv, NEW j \in Job, Started(j) PROVE JobInv'
<1>1. /\ op[j].pc = "create" /\ Enters(j, "Running") /\ Stop(j)
      /\ UNCHANGED <<task, objs, again, used, edited>>
  BY DEF Started, Done, At
<1>2. jobs[j].fits
  BY <1>1 DEF JobInv, JobOK, Working
<1>3. QED
  BY <1>1, <1>2, EndStep

(* Everything has been collected: what is left is allowed to stay. *)
LEMMA CleanedUp ==
  ASSUME JobInv, NEW j \in Job, op[j].pc \in {"collect", "erase"}, op[j].todo = <<>>
  PROVE  Clean(j)
<1>1. JobOK(j)
  BY DEF JobInv
<1>2. ToSet(op[j].todo) = {}
  BY EmptySeq, Todo
<1>3. QED
  BY <1>1, <1>2 DEF JobOK, Working, Clean

LEMMA ReportedStep == ASSUME JobInv, NEW j \in Job, Reported(j) PROVE JobInv'
<1>1. Stop(j) /\ UNCHANGED <<task, objs, again, used, edited>>
  BY DEF Reported
<1>2. CASE (Done(j, "revert") \/ At(j, "fail")) /\ Enters(j, "Error")
  <2>1. op[j].pc # "idle"
    BY <1>2 DEF Done, At
  <2>2. QED
    BY <1>1, <1>2, <2>1, EndStep
<1>3. CASE Done(j, "collect") /\ Enters(j, "Completed")
  <2>1. op[j].pc = "collect" /\ op[j].todo = <<>>
    BY <1>3 DEF Done, At
  <2>2. Clean(j)
    BY <2>1, CleanedUp
  <2>3. jobs[j].state = "Running" /\ jobs[j] # None
    BY <2>1, Found DEF JobInv, JobOK, Working
  <2>4. jobs[j].fits
    BY <2>3 DEF JobInv, JobOK, Settling
  <2>5. QED
    BY <1>1, <1>3, <2>1, <2>2, <2>4, EndStep
<1>4. QED
  BY <1>2, <1>3 DEF Reported

LEMMA ReleaseStep == ASSUME JobInv, NEW j \in Job, Release(j) PROVE JobInv'
<1>1. /\ op[j].pc = "erase" /\ op[j].todo = <<>> /\ Stop(j)
      /\ jobs' = [jobs EXCEPT ![j] = None]
      /\ UNCHANGED <<task, objs, again, used, edited>>
  BY DEF Release, Done, At
<1>2. JobTyped /\ JobOK(j) /\ j \in used /\ Clean(j)
  BY <1>1, Found, CleanedUp DEF JobInv
<1>3. /\ jobs' \in [Job -> Jobs \union {None}] /\ jobs'[j] = None
      /\ \A k \in Job \ {j} : jobs'[k] = jobs[k]
  BY <1>1, <1>2 DEF JobTyped, JobTypeOK
<1>4. /\ op' \in [Job -> Ops] /\ op'[j].pc = "idle"
      /\ \A k \in Job \ {j} : op'[k] = op[k]
  BY <1>1, <1>2, StopIs, GoIs, EmptySeq DEF JobTyped, Steps
<1>5. JobTyped'
  <2>1. \A k \in Job : op'[k].pc \in Steps /\ ToSet(op'[k].todo) \subseteq Doc
    BY <1>4, OpType
  <2>2. QED
    BY <1>1, <1>2, <1>3, <1>4, <2>1 DEF JobTyped, JobTypeOK
<1>6. JobOK(j)'
  <2>1. Steady(j)'
    BY <1>1, <1>2, <1>3, <1>4 DEF Steady, Clean
  <2>2. Working(j)'
    BY <1>4 DEF Working
  <2>3. Settling(j)'
    BY <1>1, <1>2, <1>3 DEF JobOK, Settling, Present, Rendered
  <2>4. QED
    BY <2>1, <2>2, <2>3 DEF JobOK
<1>7. QED
  BY <1>1, <1>3, <1>4, <1>5, <1>6, OneJob

-----------------------------------------------------------------------------
(* The task, and what happens to the objects by itself. *)
LEMMA TaskStep ==
  ASSUME JobInv, task' \in Tasks \union {None}, objs' \subseteq objs,
         task' = None \/ (task # None /\ task'.version = task.version),
         UNCHANGED <<jobs, op, again, used, edited>>
  PROVE  JobInv'
<1>1. JobTyped'
  BY DEF JobInv, JobTyped, JobTypeOK
<1>2. ASSUME NEW k \in Job PROVE JobOK(k)'
  <2>1. JobOK(k)
    BY DEF JobInv
  <2>2. QED
    BY <2>1, Untouched
<1>3. QED
  BY <1>1, <1>2 DEF JobInv

LEMMA ValidateTaskStep == ASSUME JobInv, ValidateTask PROVE JobInv'
<1>1. /\ task # None /\ task' = [task EXCEPT !.state = "Ready"]
      /\ UNCHANGED <<jobs, objs, op, again, used, edited>>
  BY DEF ValidateTask
<1>2. task \in Tasks
  BY <1>1 DEF JobInv, JobTyped, JobTypeOK
<1>3. task' \in Tasks /\ task'.version = task.version
  BY <1>1, <1>2 DEF Tasks
<1>4. QED
  BY <1>1, <1>3, TaskStep

(* The template is changed: the jobs that are there are marked. *)
LEMMA EditTemplateStep == ASSUME JobInv, EditTemplate PROVE JobInv'
<1>1. PICK v \in Version : task' = [task EXCEPT !.version = v]
  BY DEF EditTemplate
<1>2. /\ task # None /\ edited' = edited \union {j \in Job : jobs[j] # None}
      /\ UNCHANGED <<jobs, objs, op, again, used>> /\ JobTyped
  BY DEF EditTemplate, JobInv
<1>3. task' \in Tasks
  BY <1>1, <1>2 DEF JobTyped, JobTypeOK, Tasks
<1>4. JobTyped'
  BY <1>2, <1>3 DEF JobTyped, JobTypeOK
<1>5. ASSUME NEW k \in Job PROVE JobOK(k)'
  <2>1. JobOK(k)
    BY DEF JobInv
  <2>2. jobs[k] # None => k \in edited'
    BY <1>2
  <2>3. Clean(k) => Clean(k)'
    BY <1>2 DEF Clean
  <2>4. Steady(k)'
    BY <1>2, <2>1, <2>3 DEF JobOK, Steady
  <2>5. Working(k)'
    BY <1>2, <2>1, <2>2 DEF JobOK, Steady, Working, Present
  <2>6. Settling(k)'
    <3>1. ASSUME NEW o \in objs, o.job = k PROVE o.doc \in Claim \/ Present(k, o.doc)'
      BY <1>2, <2>1, <2>2, <3>1 DEF JobOK, Steady, Clean, Present
    <3>2. QED
      BY <1>2, <2>1, <2>3, <3>1 DEF JobOK, Settling
  <2>7. QED
    BY <2>4, <2>5, <2>6 DEF JobOK
<1>6. QED
  BY <1>4, <1>5 DEF JobInv

LEMMA CrashStep == ASSUME JobInv, Crash PROVE JobInv'
<1>1. /\ op' = [j \in Job |-> Idle] /\ UNCHANGED <<task, jobs, objs, again, used, edited>>
      /\ JobTyped
  BY DEF Crash, JobInv
<1>2. Idle \in Ops /\ Idle.pc = "idle"
  BY EmptySeq DEF Idle, Ops, Steps
<1>3. op' \in [Job -> Ops] /\ \A k \in Job : op'[k].pc = "idle"
  BY <1>1, <1>2
<1>4. \A k \in Job : op'[k].pc \in Steps /\ ToSet(op'[k].todo) \subseteq Doc
  BY <1>3, OpType
<1>5. JobTyped'
  BY <1>1, <1>3, <1>4 DEF JobTyped, JobTypeOK
<1>6. ASSUME NEW k \in Job PROVE JobOK(k)'
  <2>1. JobOK(k) /\ op'[k].pc = "idle"
    BY <1>3 DEF JobInv
  <2>2. Steady(k)'
    BY <1>1, <2>1 DEF JobOK, Steady, Clean
  <2>3. Working(k)'
    BY <2>1 DEF Working
  <2>4. Settling(k)'
    BY <1>1, <2>1 DEF JobOK, Settling, Clean, Present, Rendered
  <2>5. QED
    BY <2>2, <2>3, <2>4 DEF JobOK
<1>7. QED
  BY <1>5, <1>6 DEF JobInv

(* The steps of users. *)
LEMMA UsersStep == ASSUME JobInv, NEW j \in Job, Users(j) PROVE JobInv'
<1>1. again \in Values \union {None}
  BY DEF JobInv, JobTyped, JobTypeOK
<1>2. CASE Apply(j) \/ Post(j)
  <2>1. PICK value \in Values, fin \in BOOLEAN : Add(j, NewJob(value, fin))
    BY <1>2 DEF Apply, Post
  <2>2. Fresh(j) /\ UNCHANGED <<task, objs, op, again, edited>>
    BY <1>2 DEF Apply, Post
  <2>3. QED
    BY <1>1, <2>1, <2>2, AddStep
<1>3. CASE DeleteJob(j)
  BY <1>1, <1>3, DeletedStep DEF DeleteJob
<1>4. CASE RestartOld(j)
  <2>1. jobs[j] \in Jobs
    BY <1>4 DEF RestartOld, JobInv, JobTyped, JobTypeOK
  <2>2. jobs[j].value \in Values
    BY <2>1 DEF Jobs
  <2>3. QED
    BY <1>4, <2>2, DeletedStep DEF RestartOld
<1>5. CASE RestartNew(j)
  <2>1. again \in Values /\ again' = None /\ UNCHANGED <<task, objs, op, edited>>
    BY <1>1, <1>5 DEF RestartNew
  <2>2. CASE Fresh(j) /\ Add(j, NewJob(again, TRUE))
    BY <2>1, <2>2, AddStep
  <2>3. CASE UNCHANGED <<jobs, used>>
    <3>1. JobTyped'
      BY <2>1, <2>3 DEF JobInv, JobTyped, JobTypeOK
    <3>2. ASSUME NEW k \in Job PROVE JobOK(k)'
      BY <2>1, <2>3 DEF JobInv, JobOK, Steady, Working, Settling, Clean, Present, Rendered
    <3>3. QED
      BY <3>1, <3>2 DEF JobInv
  <2>4. QED
    BY <1>5, <2>2, <2>3 DEF RestartNew
<1>6. QED
  BY <1>2, <1>3, <1>4, <1>5 DEF Users

LEMMA OperatorStep == ASSUME JobInv, NEW j \in Job, Operator(j) PROVE JobInv'
<1>1. CASE Expire(j)
  <2>1. jobs[j] # None /\ again \in Values \union {None}
    BY <1>1 DEF Expire, Starts, JobInv, JobTyped, JobTypeOK
  <2>2. QED
    BY <1>1, <2>1, DeletedStep DEF Expire
<1>2. QED
  BY <1>1, MarkStep, BeginCreateStep, TryCreateStep, StartedStep, BeginStep, TryDeleteStep,
     ReportedStep, WakeStep, ReleaseStep DEF Operator

LEMMA JobStepsKeep == ASSUME JobInv, JobSteps PROVE JobInv'
<1>1. CASE RemoveTask
  BY <1>1, TaskStep DEF RemoveTask
<1>2. ASSUME NEW o \in objs, Vanish(o) PROVE JobInv'
  <2>1. task \in Tasks \union {None}
    BY DEF JobInv, JobTyped, JobTypeOK
  <2>2. QED
    BY <1>2, <2>1, TaskStep DEF Vanish
<1>3. QED
  BY <1>1, <1>2, ValidateTaskStep, EditTemplateStep, OperatorStep, UsersStep, RevertStep,
     DeleteFailsStep, ReportFailsStep DEF JobSteps

LEMMA JobStutter == ASSUME JobInv, UNCHANGED jobVars PROVE JobInv'
<1>1. UNCHANGED <<task, jobs, objs, op, again, used, edited>>
  BY DEF jobVars
<1>2. JobTyped'
  BY <1>1 DEF JobInv, JobTyped, JobTypeOK
<1>3. ASSUME NEW k \in Job PROVE JobOK(k)'
  BY <1>1 DEF JobInv, JobOK, Steady, Working, Settling, Clean, Present, Rendered
<1>4. QED
  BY <1>2, <1>3 DEF JobInv

-----------------------------------------------------------------------------
(* Functions.  A function without the finalizer has no deployment and nothing is
   done for it; the nodes that a create has behind it are there, unless another
   function has them too; the deployments that a delete has behind it are gone; and
   what a function has written is one of its nodes.                            *)
FnSteps == {"idle", "create", "delete"}
Nops == [pc : FnSteps, left : SUBSET Node, seen : [Node -> Seen]]

FnTyped == FnTypeOK /\ nop \in [Function -> Nops]

Deployed(f, n) == Shared(n) \/ deploys[n] = f

FnOK(f) ==
  /\ fns[f] = None \/ ~fns[f].fin => nop[f].pc = "idle" /\ \A n \in Node : deploys[n] # f
  /\ nop[f].pc = "idle" => nop[f].left = {}
  /\ nop[f].pc = "create" =>
        fns[f].state = "Pending" /\ \A n \in Nodes[f] \ nop[f].left : Deployed(f, n)
  /\ nop[f].pc = "delete" =>
        fns[f].state = "Deleting" /\ \A n \in Node : deploys[n] = f => n \in nop[f].left
  /\ fns[f] # None /\ fns[f].state = "Ready" => \A n \in Nodes[f] : Deployed(f, n)
  /\ \A n \in Node : deploys[n] = f => n \in Nodes[f]

FnInv == FnTyped /\ \A f \in Function : FnOK(f)

LEMMA FnInvIs == FnInv => FnTypeOK /\ ReadyIsDeployed /\ GoneIsErased
<1>1. SUFFICES ASSUME FnInv PROVE FnTypeOK /\ ReadyIsDeployed /\ GoneIsErased
  OBVIOUS
<1>2. FnTyped /\ \A f \in Function : FnOK(f)
  BY <1>1 DEF FnInv
<1>3. ReadyIsDeployed
  BY <1>2 DEF FnOK, Deployed, ReadyIsDeployed
<1>4. ASSUME NEW n \in Node, deploys[n] # None PROVE fns[deploys[n]] # None
  <2>1. PICK f \in Function : f = deploys[n]
    BY <1>2, <1>4 DEF FnTyped, FnTypeOK
  <2>2. QED
    BY <1>2, <2>1 DEF FnOK
<1>5. QED
  BY <1>2, <1>3, <1>4 DEF FnTyped, GoneIsErased

LEMMA NodesAreNode == ASSUME NEW f \in Function PROVE Nodes[f] \subseteq Node
BY DEF Node

LEMMA RestIs == Rest \in Nops /\ Rest.pc = "idle" /\ Rest.left = {}
<1>1. [n \in Node |-> "nothing"] \in [Node -> Seen]
  BY DEF Seen
<1>2. QED
  BY <1>1 DEF Rest, Nops, FnSteps

LEMMA FnInitInv == FnInit => FnInv
<1>1. SUFFICES ASSUME FnInit PROVE FnInv
  OBVIOUS
<1>2. /\ fns = [f \in Function |-> None] /\ deploys = [n \in Node |-> None]
      /\ ready = FALSE /\ bound = FALSE /\ nop \in [Function -> Nops]
      /\ \A f \in Function : nop[f].pc = "idle" /\ nop[f].left = {}
  BY <1>1, RestIs DEF FnInit
<1>3. FnTyped
  BY <1>2 DEF FnTyped, FnTypeOK, Nops
<1>4. ASSUME NEW f \in Function PROVE FnOK(f)
  BY <1>2, DashFunctionAssumption DEF FnOK
<1>5. QED
  BY <1>3, <1>4 DEF FnInv

(* What the other functions need of a step: their reconciles keep what they have
   left, and a deployment is lost only to a function that has the node too. *)
LEMMA FnUntouched ==
  ASSUME FnInv, NEW g \in Function,
         fns'[g] = fns[g], nop'[g].pc = nop[g].pc, nop'[g].left = nop[g].left,
         \A n \in Node : deploys'[n] = g => deploys[n] = g,
         \A n \in Nodes[g] : deploys[n] = g => Shared(n) \/ deploys'[n] = g
  PROVE  FnOK(g)'
<1>1. FnOK(g) /\ Nodes[g] \subseteq Node
  BY NodesAreNode DEF FnInv
<1>2. ASSUME NEW n \in Nodes[g], Deployed(g, n) PROVE Deployed(g, n)'
  BY <1>2 DEF Deployed, Shared
<1>3. QED
  BY <1>1, <1>2 DEF FnOK

(* A step of one function. *)
LEMMA OneFn ==
  ASSUME FnInv, NEW f \in Function, FnTyped', FnOK(f)',
         \A g \in Function \ {f} :
            fns'[g] = fns[g] /\ nop'[g].pc = nop[g].pc /\ nop'[g].left = nop[g].left,
         \A n \in Node : deploys'[n] \in {deploys[n], f, None},
         \A n \in Node : deploys'[n] # deploys[n] => n \in Nodes[f]
  PROVE  FnInv'
<1>1. ASSUME NEW g \in Function \ {f} PROVE FnOK(g)'
  <2>1. Nodes[g] \subseteq Node /\ g # None
    BY NodesAreNode, DashFunctionAssumption
  <2>2. \A n \in Node : deploys'[n] = g => deploys[n] = g
    BY <2>1
  <2>3. \A n \in Nodes[g] : deploys[n] = g => Shared(n) \/ deploys'[n] = g
    BY <2>1 DEF Shared
  <2>4. QED
    BY <2>2, <2>3, FnUntouched
<1>2. QED
  BY <1>1 DEF FnInv

(* A function changes and nothing is done for it. *)
LEMMA FnChanges ==
  ASSUME FnInv, NEW f \in Function, NEW new \in Fns \union {None},
         fns' = [fns EXCEPT ![f] = new],
         nop' = nop \/ Leave(f),
         UNCHANGED <<deploys, ready, bound>>, FnOK(f)'
  PROVE  FnInv'
<1>1. FnTyped
  BY DEF FnInv
<1>2. fns' \in [Function -> Fns \union {None}] /\ \A g \in Function \ {f} : fns'[g] = fns[g]
  BY <1>1 DEF FnTyped, FnTypeOK
<1>3. nop' \in [Function -> Nops] /\ \A g \in Function \ {f} : nop'[g] = nop[g]
  BY <1>1, RestIs DEF FnTyped, Leave
<1>4. \A g \in Function : nop'[g].left \subseteq Nodes[g] /\ nop'[g].seen \in [Node -> Seen]
  <2>1. nop'[f] \in {nop[f], Rest}
    BY <1>1 DEF FnTyped, Leave
  <2>2. Rest.left = {} /\ Rest.seen \in [Node -> Seen]
    BY RestIs DEF Nops
  <2>3. \A g \in Function : nop[g].left \subseteq Nodes[g] /\ nop[g].seen \in [Node -> Seen]
    BY <1>1 DEF FnTyped, FnTypeOK
  <2>4. QED
    BY <1>3, <2>1, <2>2, <2>3
<1>5. FnTyped'
  BY <1>1, <1>2, <1>3, <1>4 DEF FnTyped, FnTypeOK
<1>6. QED
  BY <1>2, <1>3, <1>5, OneFn

(* A user changes the function, or the operator marks it. *)
LEMMA ApplyFnStep == ASSUME FnInv, NEW f \in Function, ApplyFn(f) PROVE FnInv'
<1>1. PICK new : new = [state |-> "Pending", del |-> FALSE, fin |-> FALSE]
  OBVIOUS
<1>2. new \in Fns /\ new.state = "Pending" /\ ~new.fin /\ new # None
  <2>1. new \in Fns /\ new.state = "Pending" /\ ~new.fin
    BY <1>1 DEF Fns, FnState
  <2>2. QED
    BY <2>1, DashFunctionAssumption
<1>3. /\ fns[f] = None /\ fns' = [fns EXCEPT ![f] = new]
      /\ UNCHANGED <<deploys, ready, bound, nop>>
  BY <1>1 DEF ApplyFn
<1>4. FnOK(f) /\ fns'[f] = new
  BY <1>3 DEF FnInv, FnTyped, FnTypeOK
<1>5. FnOK(f)'
  BY <1>2, <1>3, <1>4 DEF FnOK
<1>6. QED
  BY <1>2, <1>3, <1>5, FnChanges

LEMMA DeleteFnStep == ASSUME FnInv, NEW f \in Function, DeleteFn(f) PROVE FnInv'
<1>1. /\ fns[f] # None /\ UNCHANGED <<deploys, ready, bound, nop>>
      /\ fns' = [fns EXCEPT ![f] = IF @.fin THEN [@ EXCEPT !.del = TRUE] ELSE None]
  BY DEF DeleteFn
<1>2. PICK old \in Fns : old = fns[f]
  BY <1>1 DEF FnInv, FnTyped, FnTypeOK
<1>3. PICK new : new = IF old.fin THEN [old EXCEPT !.del = TRUE] ELSE None
  OBVIOUS
<1>4. /\ new \in Fns \union {None} /\ fns' = [fns EXCEPT ![f] = new]
      /\ old.fin => new \in Fns /\ new.fin /\ new.state = old.state
      /\ ~old.fin => new = None
  BY <1>1, <1>2, <1>3 DEF Fns
<1>5. FnOK(f) /\ fns'[f] = new
  BY <1>4 DEF FnInv, FnTyped, FnTypeOK
<1>6. FnOK(f)'
  <2>1. CASE old.fin
    <3>1. new # None
      BY <1>4, <2>1, DashFunctionAssumption
    <3>2. QED
      BY <1>1, <1>2, <1>4, <1>5, <2>1, <3>1 DEF FnOK, Deployed, Shared
  <2>2. CASE ~old.fin
    BY <1>1, <1>2, <1>4, <1>5, <2>2 DEF FnOK
  <2>3. QED
    BY <2>1, <2>2
<1>7. QED
  BY <1>1, <1>4, <1>6, FnChanges

LEMMA MarkFnStep == ASSUME FnInv, NEW f \in Function, MarkFn(f) PROVE FnInv'
<1>1. nop[f].pc = "idle" /\ fns[f] # None /\ UNCHANGED <<deploys, ready, bound, nop>>
  BY DEF MarkFn, FnStarts
<1>2. PICK old \in Fns : old = fns[f]
  BY <1>1 DEF FnInv, FnTyped, FnTypeOK
<1>3. PICK new \in Fns : /\ fns' = [fns EXCEPT ![f] = new]
                         /\ \/ new.state = "Deleting" /\ new.fin = old.fin
                            \/ new.state = old.state /\ new.fin
  <2>1. CASE fns' = [fns EXCEPT ![f].state = "Deleting"]
    <3>1. [old EXCEPT !.state = "Deleting"] \in Fns
      BY DEF Fns, FnState
    <3>2. fns' = [fns EXCEPT ![f] = [old EXCEPT !.state = "Deleting"]]
      BY <1>2, <2>1
    <3>3. QED
      BY <3>1, <3>2 DEF Fns
  <2>2. CASE fns' = [fns EXCEPT ![f].fin = TRUE]
    <3>1. [old EXCEPT !.fin = TRUE] \in Fns
      BY DEF Fns
    <3>2. fns' = [fns EXCEPT ![f] = [old EXCEPT !.fin = TRUE]]
      BY <1>2, <2>2
    <3>3. QED
      BY <3>1, <3>2 DEF Fns
  <2>3. QED
    BY <2>1, <2>2 DEF MarkFn
<1>4. FnOK(f) /\ fns'[f] = new
  BY <1>3 DEF FnInv, FnTyped, FnTypeOK
<1>5. new # None /\ old # None
  BY DashFunctionAssumption
<1>6. FnOK(f)'
  BY <1>1, <1>2, <1>3, <1>4, <1>5 DEF FnOK, Deployed, Shared
<1>7. QED
  BY <1>1, <1>3, <1>6, FnChanges

(* The reconcile begins: all nodes are to be made, or to be deleted. *)
LEMMA TakeStep ==
  ASSUME FnInv, NEW f \in Function, CreateNodes(f) \/ DeleteNodes(f)
  PROVE  FnInv'
<1>1. PICK step \in FnSteps :
         /\ Take(f, step)
         /\ \/ step = "create" /\ fns[f].state = "Pending"
            \/ step = "delete" /\ fns[f].state = "Deleting"
  <2>1. "create" \in FnSteps /\ "delete" \in FnSteps
    BY DEF FnSteps
  <2>2. CASE CreateNodes(f)
    BY <2>1, <2>2, Zenon DEF CreateNodes, FnSettled
  <2>3. CASE DeleteNodes(f)
    BY <2>1, <2>3, Zenon DEF DeleteNodes, FnSettled
  <2>4. QED
    BY <2>2, <2>3
<1>2. fns[f] # None /\ fns[f].fin /\ UNCHANGED <<fns, deploys, ready, bound>>
  BY DEF CreateNodes, DeleteNodes, FnStarts, FnSettled
<1>3. PICK new : new = [Rest EXCEPT !.pc = step, !.left = Nodes[f]]
  OBVIOUS
<1>4. new \in Nops /\ new.pc = step /\ new.left = Nodes[f]
  BY <1>3, RestIs, NodesAreNode DEF Nops
<1>5. nop' = [nop EXCEPT ![f] = new]
  <2>1. Take(f, step)
    BY <1>1
  <2>2. nop' = [nop EXCEPT ![f] = [Rest EXCEPT !.pc = step, !.left = Nodes[f]]]
    BY <2>1, Zenon DEF Take
  <2>3. QED
    BY <1>3, <2>2, Zenon
<1>6. FnTyped /\ FnOK(f)
  BY DEF FnInv
<1>7. nop' \in [Function -> Nops] /\ nop'[f] = new /\ \A g \in Function \ {f} : nop'[g] = nop[g]
  BY <1>4, <1>5, <1>6 DEF FnTyped
<1>8. FnTyped'
  <2>1. new.seen \in [Node -> Seen]
    BY <1>4 DEF Nops
  <2>2. QED
    BY <1>2, <1>4, <1>6, <1>7, <2>1 DEF FnTyped, FnTypeOK
<1>9. FnOK(f)'
  BY <1>1, <1>2, <1>4, <1>6, <1>7 DEF FnOK, Deployed, Shared
<1>10. QED
  BY <1>2, <1>7, <1>8, <1>9, OneFn

(* The reconcile stops where it is. *)
LEMMA LeaveStep ==
  ASSUME FnInv, NEW f \in Function, Leave(f), UNCHANGED <<fns, deploys, ready, bound>>
  PROVE  FnInv'
<1>1. FnTyped /\ FnOK(f)
  BY DEF FnInv
<1>2. PICK old \in Fns \union {None} : old = fns[f]
  BY <1>1 DEF FnTyped, FnTypeOK
<1>3. fns' = [fns EXCEPT ![f] = old]
  BY <1>1, <1>2 DEF FnTyped, FnTypeOK
<1>4. nop'[f].pc = "idle" /\ nop'[f].left = {}
  BY <1>1, RestIs DEF Leave, FnTyped
<1>5. FnOK(f)'
  BY <1>1, <1>4 DEF FnOK, Deployed, Shared
<1>6. QED
  BY <1>3, <1>5, FnChanges

LEMMA ReadyFnStep == ASSUME FnInv, NEW f \in Function, ReadyFn(f) PROVE FnInv'
<1>1. /\ nop[f].pc = "create" /\ nop[f].left = {} /\ Leave(f)
      /\ fns' = [fns EXCEPT ![f].state = "Ready"] /\ UNCHANGED <<deploys, ready, bound>>
  BY DEF ReadyFn
<1>2. FnTyped /\ FnOK(f)
  BY DEF FnInv
<1>3. fns[f] # None /\ fns[f].fin /\ \A n \in Nodes[f] : Deployed(f, n)
  BY <1>1, <1>2 DEF FnOK
<1>4. PICK old \in Fns : old = fns[f]
  BY <1>2, <1>3 DEF FnTyped, FnTypeOK
<1>5. PICK new : new = [old EXCEPT !.state = "Ready"]
  OBVIOUS
<1>6. new \in Fns /\ new.state = "Ready" /\ new.fin = old.fin
  BY <1>5 DEF Fns, FnState
<1>7. fns' = [fns EXCEPT ![f] = new]
  BY <1>1, <1>4, <1>5
<1>8. fns'[f] = new /\ nop'[f].pc = "idle" /\ nop'[f].left = {} /\ new # None
  BY <1>1, <1>2, <1>6, <1>7, RestIs, DashFunctionAssumption DEF Leave, FnTyped, FnTypeOK
<1>9. FnOK(f)'
  BY <1>1, <1>2, <1>3, <1>4, <1>6, <1>8 DEF FnOK, Deployed, Shared
<1>10. QED
  BY <1>1, <1>6, <1>7, <1>9, FnChanges

LEMMA ReleaseFnStep == ASSUME FnInv, NEW f \in Function, ReleaseFn(f) PROVE FnInv'
<1>1. /\ nop[f].pc = "delete" /\ nop[f].left = {} /\ Leave(f)
      /\ fns' = [fns EXCEPT ![f] = None] /\ UNCHANGED <<deploys, ready, bound>>
  BY DEF ReleaseFn
<1>2. FnTyped /\ FnOK(f)
  BY DEF FnInv
<1>3. fns'[f] = None /\ nop'[f].pc = "idle" /\ nop'[f].left = {}
  BY <1>1, <1>2, RestIs DEF Leave, FnTyped, FnTypeOK
<1>4. FnOK(f)'
  BY <1>1, <1>2, <1>3 DEF FnOK
<1>5. QED
  BY <1>1, <1>4, FnChanges

(* The reconcile goes on, and what it leaves behind is in order. *)
LEMMA NopStep ==
  ASSUME FnInv, NEW f \in Function, NEW new \in Nops,
         nop' = [nop EXCEPT ![f] = new], nop[f].pc # "idle",
         new.pc = nop[f].pc, new.left \subseteq nop[f].left,
         new.left = nop[f].left
         \/ (nop[f].pc = "delete" /\ \A n \in nop[f].left \ new.left : deploys[n] # f),
         UNCHANGED <<fns, deploys, ready, bound>>
  PROVE  FnInv'
<1>1. FnTyped /\ FnOK(f)
  BY DEF FnInv
<1>2. /\ nop' \in [Function -> Nops] /\ nop'[f] = new
      /\ \A g \in Function \ {f} : nop'[g] = nop[g]
  BY <1>1 DEF FnTyped
<1>3. FnTyped'
  <2>1. new.seen \in [Node -> Seen]
    BY DEF Nops
  <2>2. QED
    BY <1>1, <1>2, <2>1 DEF FnTyped, FnTypeOK
<1>4. FnOK(f)'
  BY <1>1, <1>2 DEF FnOK, Deployed, Shared
<1>5. QED
  BY <1>2, <1>3, <1>4, OneFn

LEMMA LookStep ==
  ASSUME FnInv, NEW f \in Function, NEW n \in Node, Look(f, n)
  PROVE  FnInv'
<1>1. FnTyped /\ FnOK(f)
  BY DEF FnInv
<1>2. PICK old \in Nops : old = nop[f]
  BY <1>1 DEF FnTyped
<1>3. /\ n \in old.left /\ old.pc # "idle" /\ UNCHANGED <<fns, deploys, ready, bound>>
  BY <1>1, <1>2 DEF Look, FnOK
<1>4. ASSUME NEW x \in Seen, nop' = [nop EXCEPT ![f].seen[n] = x] PROVE FnInv'
  <2>1. PICK seen : seen = [old.seen EXCEPT ![n] = x]
    OBVIOUS
  <2>2. PICK new : new = [old EXCEPT !.seen = seen]
    OBVIOUS
  <2>3. new \in Nops /\ new.pc = old.pc /\ new.left = old.left
    BY <2>1, <2>2 DEF Nops
  <2>4. nop' = [nop EXCEPT ![f] = new]
    BY <1>2, <1>4, <2>1, <2>2
  <2>5. QED
    BY <1>2, <1>3, <2>3, <2>4, NopStep
<1>5. ASSUME nop[f].pc # "create", deploys[n] = None, nop' = [nop EXCEPT ![f].left = @ \ {n}]
      PROVE  FnInv'
  <2>1. PICK new : new = [old EXCEPT !.left = old.left \ {n}]
    OBVIOUS
  <2>2. new \in Nops /\ new.pc = old.pc /\ new.left = old.left \ {n}
    BY <2>1 DEF Nops
  <2>3. nop' = [nop EXCEPT ![f] = new]
    BY <1>2, <1>5, <2>1
  <2>4. old.pc = "delete"
    BY <1>2, <1>3, <1>5 DEF Nops, FnSteps
  <2>5. deploys[n] # f
    BY <1>5, DashFunctionAssumption
  <2>6. QED
    BY <1>2, <1>3, <2>2, <2>3, <2>4, <2>5, NopStep
<1>6. "present" \in Seen /\ "absent" \in Seen
  BY DEF Seen
<1>7. QED
  BY <1>4, <1>5, <1>6 DEF Look

(* A deployment is written or deleted: the others only learn that it is not what
   they have seen any more. *)
LEMMA WrittenIs ==
  ASSUME FnTyped, NEW f \in Function, NEW n \in Node, Written(f, n)
  PROVE  /\ nop' \in [Function -> Nops]
         /\ \A g \in Function :
               /\ nop'[g].pc = nop[g].pc /\ nop'[g].left \subseteq Nodes[g]
               /\ g # f => nop'[g].left = nop[g].left
         /\ nop'[f].left = nop[f].left \ {n}
<1>1. ASSUME NEW g \in Function
      PROVE  /\ nop'[g] \in Nops /\ nop'[g].pc = nop[g].pc /\ nop'[g].left \subseteq Nodes[g]
             /\ g # f => nop'[g].left = nop[g].left
             /\ g = f => nop'[g].left = nop[g].left \ {n}
  <2>1. PICK old \in Nops : old = nop[g]
    BY DEF FnTyped
  <2>2. old.left \subseteq Nodes[g]
    BY <2>1 DEF FnTyped, FnTypeOK
  <2>3. CASE g = f
    <3>1. nop'[g] = [old EXCEPT !.left = old.left \ {n}]
      BY <2>1, <2>3 DEF Written
    <3>2. QED
      BY <2>1, <2>2, <2>3, <3>1 DEF Nops
  <2>4. CASE g # f
    <3>1. nop'[g] = Outdated(g, n)
      BY <2>4 DEF Written
    <3>2. CASE nop'[g] = old
      BY <2>1, <2>2, <2>4, <3>2
    <3>3. CASE nop'[g] = [nop[g] EXCEPT !.seen[n] = "stale"]
      <4>1. PICK seen : seen = [old.seen EXCEPT ![n] = "stale"]
        OBVIOUS
      <4>2. seen \in [Node -> Seen]
        BY <4>1 DEF Nops, Seen
      <4>3. nop'[g] = [old EXCEPT !.seen = seen]
        BY <2>1, <3>3, <4>1
      <4>4. QED
        BY <2>1, <2>2, <2>4, <4>2, <4>3 DEF Nops
    <3>4. QED
      BY <2>1, <3>1, <3>2, <3>3 DEF Outdated
  <2>5. QED
    BY <2>3, <2>4
<1>2. nop' = [g \in Function |-> nop'[g]]
  BY DEF Written
<1>3. QED
  BY <1>1, <1>2

LEMMA DeployStep ==
  ASSUME FnInv, NEW f \in Function, NEW n \in Node, NEW by \in {f, None},
         deploys' = [deploys EXCEPT ![n] = by], Written(f, n), n \in nop[f].left,
         UNCHANGED <<fns, ready, bound>>,
         nop[f].pc = (IF by = f THEN "create" ELSE "delete")
  PROVE  FnInv'
<1>1. FnTyped /\ FnOK(f) /\ f # None
  BY DashFunctionAssumption DEF FnInv
<1>2. /\ nop' \in [Function -> Nops]
      /\ \A g \in Function :
            /\ nop'[g].pc = nop[g].pc /\ nop'[g].left \subseteq Nodes[g]
            /\ g # f => nop'[g].left = nop[g].left
      /\ nop'[f].left = nop[f].left \ {n}
  BY <1>1, WrittenIs
<1>3. /\ deploys' \in [Node -> Function \union {None}] /\ deploys'[n] = by
      /\ \A m \in Node \ {n} : deploys'[m] = deploys[m]
  BY <1>1 DEF FnTyped, FnTypeOK
<1>4. FnTyped'
  BY <1>1, <1>2, <1>3 DEF FnTyped, FnTypeOK, Nops
<1>5. n \in Nodes[f] /\ Nodes[f] \subseteq Node
  BY <1>1, NodesAreNode DEF FnTyped, FnTypeOK
<1>6. FnOK(f)'
  <2>1. CASE by = f
    <3>1. nop'[f].pc = "create" /\ fns[f] # None /\ fns[f].fin /\ fns[f].state = "Pending"
      BY <1>1, <1>2, <2>1 DEF FnOK
    <3>2. \A m \in Nodes[f] \ nop'[f].left : Deployed(f, m)'
      BY <1>1, <1>2, <1>3, <1>5, <2>1, <3>1 DEF FnOK, Deployed, Shared
    <3>3. QED
      BY <1>1, <1>3, <1>5, <2>1, <3>1, <3>2 DEF FnOK
  <2>2. CASE by = None
    <3>1. nop'[f].pc = "delete" /\ fns[f] # None /\ fns[f].fin /\ fns[f].state = "Deleting"
      BY <1>1, <1>2, <2>2 DEF FnOK
    <3>2. \A m \in Node : deploys'[m] = f => deploys[m] = f /\ m # n
      BY <1>1, <1>3, <2>2
    <3>3. QED
      BY <1>1, <1>2, <3>1, <3>2 DEF FnOK
  <2>3. QED
    BY <2>1, <2>2
<1>7. QED
  BY <1>2, <1>3, <1>4, <1>5, <1>6, OneFn

LEMMA NodeStep ==
  ASSUME FnInv, NEW f \in Function, NEW n \in Node,
         Look(f, n) \/ WriteNode(f, n) \/ EraseNode(f, n) \/ Conflict(f, n)
  PROVE  FnInv'
<1>1. f # None
  BY DashFunctionAssumption
<1>2. CASE WriteNode(f, n)
  BY <1>2, DeployStep DEF WriteNode
<1>3. CASE EraseNode(f, n)
  BY <1>1, <1>3, DeployStep DEF EraseNode
<1>4. CASE Conflict(f, n)
  BY <1>4, LeaveStep DEF Conflict
<1>5. QED
  BY <1>2, <1>3, <1>4, LookStep

LEMMA FnOperatorStep == ASSUME FnInv, NEW f \in Function, FnOperator(f) PROVE FnInv'
BY MarkFnStep, TakeStep, ReadyFnStep, ReleaseFnStep, NodeStep DEF FnOperator

(* The models of the functions, and a stop of the operator. *)
LEMMA ModelsStep ==
  ASSUME FnInv, UNCHANGED <<fns, deploys>>, ready' \in BOOLEAN, bound' \in BOOLEAN,
         nop' = nop \/ nop' = [f \in Function |-> Rest]
  PROVE  FnInv'
<1>1. FnTyped
  BY DEF FnInv
<1>2. nop' \in [Function -> Nops]
  BY <1>1, RestIs DEF FnTyped
<1>3. ASSUME NEW f \in Function
      PROVE  /\ nop'[f].left \subseteq Nodes[f] /\ nop'[f].seen \in [Node -> Seen]
             /\ nop'[f] = nop[f] \/ (nop'[f].pc = "idle" /\ nop'[f].left = {})
  BY <1>1, <1>2, RestIs DEF FnTyped, FnTypeOK, Nops
<1>4. FnTyped'
  BY <1>1, <1>2, <1>3 DEF FnTyped, FnTypeOK
<1>5. ASSUME NEW f \in Function PROVE FnOK(f)'
  <2>1. FnOK(f)
    BY DEF FnInv
  <2>2. QED
    BY <1>3, <2>1 DEF FnOK, Deployed, Shared
<1>6. QED
  BY <1>4, <1>5 DEF FnInv

LEMMA FnNextStep == ASSUME FnInv, FnNext PROVE FnInv'
<1>1. ready \in BOOLEAN /\ bound \in BOOLEAN
  BY DEF FnInv, FnTyped, FnTypeOK
<1>2. CASE Provide \/ Rebind
  BY <1>1, <1>2, ModelsStep DEF Provide, Rebind
<1>3. ASSUME NEW f \in Function, Failure(f) PROVE FnInv'
  BY <1>3, LeaveStep DEF Failure
<1>4. QED
  BY <1>2, <1>3, ApplyFnStep, DeleteFnStep, FnOperatorStep DEF FnNext

LEMMA FnStutter == ASSUME FnInv, UNCHANGED fnVars PROVE FnInv'
<1>1. UNCHANGED <<fns, deploys, ready, bound, nop>> /\ ready \in BOOLEAN /\ bound \in BOOLEAN
  BY DEF fnVars, FnInv, FnTyped, FnTypeOK
<1>2. QED
  BY <1>1, ModelsStep

-----------------------------------------------------------------------------
LEMMA TasksKeep == ASSUME JobInv, FnInv, [TasksNext]_taskVars PROVE JobInv' /\ FnInv'
<1>1. CASE JobSteps /\ UNCHANGED fnVars
  BY <1>1, JobStepsKeep, FnStutter
<1>2. CASE FnNext /\ UNCHANGED jobVars
  BY <1>2, FnNextStep, JobStutter
<1>3. CASE CrashAll
  <2>1. ready \in BOOLEAN /\ bound \in BOOLEAN
    BY DEF FnInv, FnTyped, FnTypeOK
  <2>2. QED
    BY <1>3, <2>1, CrashStep, ModelsStep DEF CrashAll
<1>4. CASE UNCHANGED taskVars
  BY <1>4, JobStutter, FnStutter DEF taskVars
<1>5. QED
  BY <1>1, <1>2, <1>3, <1>4 DEF TasksNext

(* Whatever fails and whoever deletes what, and however often the operator stops:
   a job and a function that are gone have left nothing behind, a job that is
   Completed has been cleaned up, the jobs that run have inputs that their task
   accepts, and a function that is Ready has its nodes (crates/dash/operator/src/ctx). *)
THEOREM TasksAreSafe == TasksSpec => []TasksSafe
<1>1. TasksInit => JobInv /\ FnInv
  BY JobInitInv, FnInitInv DEF TasksInit
<1>2. JobInv /\ FnInv /\ [TasksNext]_taskVars => JobInv' /\ FnInv'
  BY TasksKeep
<1>3. JobInv /\ FnInv => TasksSafe
  BY JobInvIs, FnInvIs DEF TasksSafe
<1>4. QED
  BY <1>1, <1>2, <1>3, PTL DEF TasksSpec

-----------------------------------------------------------------------------
(* Whatever else a node has for variables, those that are inferred are there. *)
Given(env, n) == n \in DOMAIN env /\ ~Blank(env[n])

LEMMA InferGives ==
  ASSUME NEW env, NEW n, NEW value, value \notin {None, ""}
  PROVE  Given(Infer(env, n, value), n)
<1>1. CASE Given(env, n)
  BY <1>1 DEF Given, Infer
<1>2. CASE ~Given(env, n)
  <2>1. PICK all : all = [k \in DOMAIN env \union {n} |-> IF k = n THEN Fixed(value) ELSE env[k]]
    OBVIOUS
  <2>2. n \in DOMAIN all /\ all[n] = Fixed(value)
    BY <2>1
  <2>3. Infer(env, n, value) = all
    BY <1>2, <2>1 DEF Given, Infer
  <2>4. ~Blank(all[n])
    <3>1. Fixed(value).value = value
      BY DEF Fixed
    <3>2. QED
      BY <2>2, <3>1 DEF Blank
  <2>5. QED
    BY <2>2, <2>3, <2>4 DEF Given
<1>3. QED
  BY <1>1, <1>2

LEMMA InferKeeps ==
  ASSUME NEW env, NEW n, NEW value, NEW m, m # n, Given(env, m)
  PROVE  Given(Infer(env, n, value), m)
<1>1. CASE Given(env, n)
  BY <1>1 DEF Given, Infer
<1>2. CASE ~Given(env, n)
  <2>1. PICK all : all = [k \in DOMAIN env \union {n} |-> IF k = n THEN Fixed(value) ELSE env[k]]
    OBVIOUS
  <2>2. m \in DOMAIN all /\ all[m] = env[m]
    BY <2>1 DEF Given
  <2>3. Infer(env, n, value) = all
    BY <1>2, <2>1 DEF Given, Infer
  <2>4. QED
    BY <2>2, <2>3 DEF Given
<1>3. QED
  BY <1>1, <1>2

(* The three variables without which a node can not find its pipe are there and
   not empty, whatever the plugin, the context and the user of the node set, and in
   whichever order (crates/straw/api/src/plugin.rs, build_job). *)
THEOREM RequiredAreGiven ==
  ASSUME NEW plugin, NEW context, NEW user
  PROVE  \A n \in Required : n \in DOMAIN Env(plugin, context, user)
                            /\ ~Blank(Env(plugin, context, user)[n])
<1>1. PICK own : own = FoldLeft(LAMBDA env, u : (u.name :> u.var) @@ env,
                                ContextEnv(context) @@ plugin, user)
  OBVIOUS
<1>2. PICK one : one = Infer(own, "NATS_ACCOUNT", "account")
  OBVIOUS
<1>3. PICK two : two = Infer(one, "PIPE_MODEL_IN", "in")
  OBVIOUS
<1>4. PICK all : all = Infer(two, "PIPE_MODEL_OUT", "out")
  OBVIOUS
<1>5. PICK env : env = [n \in {m \in DOMAIN all : all[m].from \/ ~Blank(all[m])} |-> all[n]]
  OBVIOUS
<1>6. Env(plugin, context, user) = env
  BY <1>1, <1>2, <1>3, <1>4, <1>5 DEF Env
<1>7. "account" \notin {None, ""} /\ "in" \notin {None, ""} /\ "out" \notin {None, ""}
  BY DashFunctionAssumption
<1>8. Given(one, "NATS_ACCOUNT")
  BY <1>2, <1>7, InferGives
<1>9. Given(two, "NATS_ACCOUNT") /\ Given(two, "PIPE_MODEL_IN")
  BY <1>3, <1>7, <1>8, InferGives, InferKeeps
<1>10. \A n \in Required : Given(all, n)
  <2>1. Given(all, "NATS_ACCOUNT") /\ Given(all, "PIPE_MODEL_IN")
    BY <1>4, <1>9, InferKeeps
  <2>2. Given(all, "PIPE_MODEL_OUT")
    BY <1>4, <1>7, InferGives
  <2>3. QED
    BY <2>1, <2>2 DEF Required
<1>11. \A n \in Required : n \in DOMAIN env /\ ~Blank(env[n])
  BY <1>5, <1>10 DEF Given
<1>12. QED
  BY <1>6, <1>11

(* Pipes. *)

(* The message is with a write task. *)
InTask(m) == \E t \in tasks : m \in t.left

(* A message is somewhere, and at no other place, nor with two tasks. *)
Alone(m) ==
    /\ \/ m \in wire \/ m = held \/ m \in loading \/ m \in loaded \/ m \in rx
       \/ m \in batch \/ m \in sent \/ m \in dropped \/ InTask(m)
    /\ m \in wire => m # held /\ m \notin loading /\ m \notin loaded /\ m \notin rx
    /\ m \in wire => m \notin batch /\ m \notin sent /\ m \notin dropped /\ ~InTask(m)
    /\ m = held => m \notin loading /\ m \notin loaded /\ m \notin rx
    /\ m = held => m \notin batch /\ m \notin sent /\ m \notin dropped /\ ~InTask(m)
    /\ m \in loading => m \notin loaded /\ m \notin rx
    /\ m \in loading => m \notin batch /\ m \notin sent /\ m \notin dropped /\ ~InTask(m)
    /\ m \in loaded => m \notin rx
    /\ m \in loaded => m \notin batch /\ m \notin sent /\ m \notin dropped /\ ~InTask(m)
    /\ m \in rx => m \notin batch /\ m \notin sent /\ m \notin dropped /\ ~InTask(m)
    /\ m \in batch => m \notin sent /\ m \notin dropped /\ ~InTask(m)
    /\ m \in sent => m \notin dropped /\ ~InTask(m)
    /\ m \in dropped => ~InTask(m)
    /\ \A t, u \in tasks : m \in t.left /\ m \in u.left => t = u

(* What is collected or written is never empty, so that two tasks differ. *)
Filled ==
    /\ pc \in {"fill", "more", "call"} => batch # {}
    /\ \A t \in tasks : t.left # {}

(* The limit is reached only while the main loop waits for a task to end, and
   nothing is in flight once it has drained them. *)
Limited ==
    /\ IsFiniteSet(tasks)
    /\ pc # "wait" => num < MaxTasks
    /\ pc \in {"flush", "done", "failed"} => tasks = {}

(* A task that has got beyond its payloads has stored them all. *)
Dumped == \A t \in tasks : t.step \in {"put", "send"} => t.left \subseteq stored

(* The metadata of what is published, or is about to be, is on its way; when
   the writer is clean only a failure can have left some of it behind. *)
Noted ==
    /\ sent \subseteq buffer \union table \union broken
    /\ \A t \in tasks :
          t.step = "send" => t.cur \in t.left /\ t.cur \in buffer \union table \union broken
    /\ ~dirty => buffer \subseteq table \union broken

Inv ==
    /\ TypeOK /\ Counted /\ PayloadFirst /\ EndsClean
    /\ \A m \in Message : Alone(m)
    /\ Filled /\ Limited /\ Dumped /\ Noted

----------------------------------------------------------------------------
(* The type invariant without the record of the places. *)
Types ==
    /\ size \in BatchSize
    /\ held \in Message \union {NoMessage}
    /\ wire \subseteq Message /\ loading \subseteq Message /\ loaded \subseteq Message
    /\ rx \subseteq Message /\ batch \subseteq Message
    /\ sent \subseteq Message /\ dropped \subseteq Message
    /\ pc \in {"top", "recv", "fill", "more", "call", "wait", "drain", "flush", "done", "failed"}
    /\ tasks \subseteq Task
    /\ num \in Nat
    /\ signal \in BOOLEAN /\ dirty \in BOOLEAN
    /\ stored \subseteq Message
    /\ buffer \subseteq Message /\ table \subseteq Message /\ broken \subseteq Message

LEMMA Placed == TypeOK <=> Types
<1>1. ASSUME held \in Message \union {NoMessage}
      PROVE  {held} \ {NoMessage} \subseteq Message
  BY <1>1
<1>2. (\A p \in DOMAIN Place : Place[p] \subseteq Message) <=>
         /\ wire \subseteq Message /\ {held} \ {NoMessage} \subseteq Message
         /\ loading \subseteq Message /\ loaded \subseteq Message
         /\ rx \subseteq Message /\ batch \subseteq Message
         /\ sent \subseteq Message /\ dropped \subseteq Message
  BY DEF Place
<1>3. (buffer \union table \union broken \subseteq Message) <=>
         buffer \subseteq Message /\ table \subseteq Message /\ broken \subseteq Message
  OBVIOUS
<1>4. QED
  BY <1>1, <1>2, <1>3 DEF TypeOK, Types

LEMMA PlacedNext == TypeOK' <=> Types'
<1>1. ASSUME held' \in Message \union {NoMessage}
      PROVE  {held'} \ {NoMessage} \subseteq Message
  BY <1>1
<1>2. (\A p \in DOMAIN Place : Place[p] \subseteq Message)' <=>
         /\ wire' \subseteq Message /\ {held'} \ {NoMessage} \subseteq Message
         /\ loading' \subseteq Message /\ loaded' \subseteq Message
         /\ rx' \subseteq Message /\ batch' \subseteq Message
         /\ sent' \subseteq Message /\ dropped' \subseteq Message
  BY DEF Place
<1>3. (buffer' \union table' \union broken' \subseteq Message) <=>
         buffer' \subseteq Message /\ table' \subseteq Message /\ broken' \subseteq Message
  OBVIOUS
<1>4. QED
  BY <1>1, <1>2, <1>3 DEF TypeOK, Types

(* There is always room for a task. *)
LEMMA MaxPositive == ASSUME TypeOK PROVE MaxTasks \in Nat /\ MaxTasks > 0
<1>1. size \in Nat /\ DefaultMax \in Nat /\ DefaultMax > 0
  BY PipeAssumption DEF TypeOK
<1>2. CASE size = 0
  BY <1>1, <1>2 DEF MaxTasks
<1>3. CASE size # 0
  <2>1. size * DefaultMax \in Nat /\ size * DefaultMax > 0
    BY <1>1, <1>3
  <2>2. QED
    BY <1>3, <2>1 DEF MaxTasks
<1>4. QED
  BY <1>2, <1>3

(* A message at exactly one place counts once. *)
LEMMA AloneCounts ==
  ASSUME TypeOK, \A m \in Message : Alone(m)
  PROVE  OnePlace
<1>1. SUFFICES ASSUME NEW m \in Message
      PROVE  Cardinality({p \in DOMAIN Place : m \in Place[p]})
                + Cardinality({t \in tasks : m \in t.left}) = 1
  BY DEF OnePlace
<1> DEFINE In == {p \in DOMAIN Place : m \in Place[p]}
           By == {t \in tasks : m \in t.left}
<1>2. m # NoMessage
  BY PipeAssumption
<1>3. DOMAIN Place =
         {"wire", "held", "loading", "loaded", "rx", "batch", "sent", "dropped"}
  BY DEF Place
<1>4. /\ m \in Place["wire"] <=> m \in wire
      /\ m \in Place["held"] <=> m = held
      /\ m \in Place["loading"] <=> m \in loading
      /\ m \in Place["loaded"] <=> m \in loaded
      /\ m \in Place["rx"] <=> m \in rx
      /\ m \in Place["batch"] <=> m \in batch
      /\ m \in Place["sent"] <=> m \in sent
      /\ m \in Place["dropped"] <=> m \in dropped
  BY <1>2 DEF Place
<1>5. Alone(m)
  OBVIOUS
<1>6. CASE InTask(m)
  <2>1. In = {}
    BY <1>3, <1>4, <1>5, <1>6 DEF Alone
  <2>2. PICK t \in tasks : m \in t.left
    BY <1>6 DEF InTask
  <2>3. By = {t}
    BY <1>5, <2>2 DEF Alone
  <2>4. Cardinality(In) = 0
    BY <2>1, FS_EmptySet
  <2>5. Cardinality(By) = 1
    BY <2>3, FS_Singleton
  <2> HIDE DEF In, By
  <2>6. Cardinality(In) + Cardinality(By) = 1
    BY <2>4, <2>5
  <2>7. QED
    BY <2>6 DEF In, By
<1>7. CASE ~InTask(m)
  <2>1. By = {}
    BY <1>7 DEF InTask
  <2>2. \E p \in DOMAIN Place : In = {p}
    <3>1. CASE m \in wire
      <4>1. In = {"wire"}
        BY <1>3, <1>4, <1>5, <3>1 DEF Alone
      <4>2. QED BY <4>1, <1>3
    <3>2. CASE m = held
      <4>1. In = {"held"}
        BY <1>3, <1>4, <1>5, <3>2 DEF Alone
      <4>2. QED BY <4>1, <1>3
    <3>3. CASE m \in loading
      <4>1. In = {"loading"}
        BY <1>3, <1>4, <1>5, <3>3 DEF Alone
      <4>2. QED BY <4>1, <1>3
    <3>4. CASE m \in loaded
      <4>1. In = {"loaded"}
        BY <1>3, <1>4, <1>5, <3>4 DEF Alone
      <4>2. QED BY <4>1, <1>3
    <3>5. CASE m \in rx
      <4>1. In = {"rx"}
        BY <1>3, <1>4, <1>5, <3>5 DEF Alone
      <4>2. QED BY <4>1, <1>3
    <3>6. CASE m \in batch
      <4>1. In = {"batch"}
        BY <1>3, <1>4, <1>5, <3>6 DEF Alone
      <4>2. QED BY <4>1, <1>3
    <3>7. CASE m \in sent
      <4>1. In = {"sent"}
        BY <1>3, <1>4, <1>5, <3>7 DEF Alone
      <4>2. QED BY <4>1, <1>3
    <3>8. CASE m \in dropped
      <4>1. In = {"dropped"}
        BY <1>3, <1>4, <1>5, <3>8 DEF Alone
      <4>2. QED BY <4>1, <1>3
    <3>9. QED
      BY <1>5, <1>7, <3>1, <3>2, <3>3, <3>4, <3>5, <3>6, <3>7, <3>8 DEF Alone
  <2>3. Cardinality(By) = 0
    BY <2>1, FS_EmptySet
  <2>4. Cardinality(In) = 1
    BY <2>2, FS_Singleton
  <2> HIDE DEF In, By
  <2>5. Cardinality(In) + Cardinality(By) = 1
    BY <2>3, <2>4
  <2>6. QED
    BY <2>5 DEF In, By
<1>8. QED
  BY <1>6, <1>7

----------------------------------------------------------------------------
LEMMA InitInv == Init => Inv
<1>1. SUFFICES ASSUME Init PROVE Inv
  OBVIOUS
<1>2. TypeOK
  <2>1. Types
    BY <1>1 DEF Init, Types
  <2>2. QED
    BY <2>1, Placed
<1>3. MaxTasks \in Nat /\ MaxTasks > 0
  BY <1>2, MaxPositive
<1>4. IsFiniteSet(tasks) /\ num = Cardinality(tasks)
  BY <1>1, FS_EmptySet DEF Init
<1>5. \A m \in Message : Alone(m)
  BY <1>1, PipeAssumption DEF Init, Alone, InTask
<1>6. Counted /\ Limited
  BY <1>1, <1>3, <1>4 DEF Init, Counted, Limited
<1>7. PayloadFirst /\ EndsClean /\ Filled /\ Dumped /\ Noted
  BY <1>1 DEF Init, PayloadFirst, EndsClean, Filled, Dumped, Noted
<1>8. QED
  BY <1>2, <1>5, <1>6, <1>7 DEF Inv

(* What no message, no task and no metadata takes part in. *)
LEMMA Quiet ==
  ASSUME Inv, UNCHANGED <<main, tasks, num, sent, stored, meta>>
  PROVE  (Counted /\ PayloadFirst /\ EndsClean /\ Filled /\ Limited /\ Dumped /\ Noted)'
  BY DEF Inv, main, meta, Counted, PayloadFirst, EndsClean, Filled, Limited, Dumped, Noted, MaxTasks

LEMMA ReadStep ==
  ASSUME Inv, NEW m \in Message, Read(m)
  PROVE  Inv'
<1>1. Types
  BY Placed DEF Inv
<1>2. Types'
  BY <1>1 DEF Read, Types, main, meta
<1>3. ASSUME NEW x \in Message PROVE Alone(x)'
  <2>1. Alone(x)
    BY DEF Inv
  <2>2. InTask(x)' <=> InTask(x)
    BY DEF Read, InTask
  <2>3. CASE x # m
    BY <2>1, <2>2, <2>3, PipeAssumption DEF Alone, Read, main
  <2>4. CASE x = m
    BY <2>1, <2>2, <2>4, PipeAssumption DEF Alone, Read, main
  <2>5. QED
    BY <2>3, <2>4
<1>4. UNCHANGED <<main, tasks, num, sent, stored, meta>>
  BY DEF Read
<1>5. QED
  BY <1>2, <1>3, <1>4, Quiet, PlacedNext DEF Inv

LEMMA LoadStep ==
  ASSUME Inv, NEW m \in Message, Load(m)
  PROVE  Inv'
<1>1. Types
  BY Placed DEF Inv
<1>2. Types'
  BY <1>1 DEF Load, Types, main, meta
<1>3. ASSUME NEW x \in Message PROVE Alone(x)'
  <2>1. Alone(x)
    BY DEF Inv
  <2>2. InTask(x)' <=> InTask(x)
    BY DEF Load, InTask
  <2>3. QED
    BY <2>1, <2>2 DEF Alone, Load, main
<1>4. UNCHANGED <<main, tasks, num, sent, stored, meta>>
  BY DEF Load
<1>5. QED
  BY <1>2, <1>3, <1>4, Quiet, PlacedNext DEF Inv

LEMMA HandOverStep ==
  ASSUME Inv, HandOver
  PROVE  Inv'
<1>1. Types
  BY Placed DEF Inv
<1>2. Types'
  BY <1>1 DEF HandOver, Types, main, meta
<1>3. ASSUME NEW x \in Message PROVE Alone(x)'
  <2>1. Alone(x)
    BY DEF Inv
  <2>2. InTask(x)' <=> InTask(x)
    BY DEF HandOver, InTask
  <2>3. x # NoMessage
    BY PipeAssumption
  <2>4. CASE held # NoMessage /\ rx' = rx \union {held} /\ held' = NoMessage /\ UNCHANGED loaded
    BY <2>1, <2>2, <2>3, <2>4 DEF Alone, HandOver, main
  <2>5. ASSUME NEW m \in loaded, rx' = rx \union {m}, loaded' = loaded \ {m}, UNCHANGED held
        PROVE  Alone(x)'
    BY <2>1, <2>2, <2>5 DEF Alone, HandOver, main
  <2>6. QED
    BY <2>4, <2>5 DEF HandOver
<1>4. UNCHANGED <<main, tasks, num, sent, stored, meta>>
  BY DEF HandOver
<1>5. QED
  BY <1>2, <1>3, <1>4, Quiet, PlacedNext DEF Inv

----------------------------------------------------------------------------
(* Steps of the main loop that leave every message where it is. *)
LEMMA TurnStep ==
  ASSUME Inv, Top \/ Fill \/ Wait \/ Drain
  PROVE  Inv'
<1>1. Types
  BY Placed DEF Inv
<1>2. /\ UNCHANGED <<reader, rx, size, batch, tasks, num, sent, dropped, stored, meta>>
      /\ UNCHANGED signal
      /\ pc' \in {"top", "recv", "more", "call", "drain", "flush"}
  BY DEF Top, Fill, Wait, Drain
<1>3. Types'
  BY <1>1, <1>2 DEF Types, reader, meta
<1>4. ASSUME NEW x \in Message PROVE Alone(x)'
  BY <1>2 DEF Inv, Alone, InTask, reader
<1>5. (pc # "wait" => num < MaxTasks)'
  <2>1. pc # "wait" => num < MaxTasks
    BY DEF Inv, Limited
  <2>2. pc = "wait" => num < MaxTasks
    BY DEF Top, Fill, Wait, Drain
  <2>3. QED
    BY <1>2, <2>1, <2>2 DEF MaxTasks
<1>6. pc' = "flush" => tasks = {}
  BY FS_EmptySet DEF Top, Fill, Wait, Drain, Inv, Counted, Limited
<1>7. Counted' /\ Limited'
  BY <1>2, <1>5, <1>6 DEF Inv, Counted, Limited, MaxTasks
<1>8. Filled'
  BY <1>2 DEF Inv, Filled, Top, Fill, Wait, Drain
<1>9. (PayloadFirst /\ EndsClean /\ Dumped /\ Noted)'
  BY <1>2 DEF Inv, PayloadFirst, EndsClean, Dumped, Noted, meta
<1>10. QED
  BY <1>3, <1>4, <1>7, <1>8, <1>9, PlacedNext DEF Inv

(* An input comes in, or the inputs of an unfinished batch are given up. *)
LEMMA ReceiveStep ==
  ASSUME Inv, Receive \/ Interrupt
  PROVE  Inv'
<1>1. Types
  BY Placed DEF Inv
<1>2. /\ UNCHANGED <<reader, size, tasks, num, signal, sent, stored, meta>>
      /\ pc' \in {"top", "call", "fill"}
      /\ pc \in {"recv", "more"}
      /\ rx' \subseteq Message /\ batch' \subseteq Message /\ dropped' \subseteq Message
  BY <1>1 DEF Receive, Interrupt, Types
<1>3. Types'
  BY <1>1, <1>2 DEF Types, reader, meta
<1>4. ASSUME NEW x \in Message PROVE Alone(x)'
  <2>1. Alone(x)
    BY DEF Inv
  <2>2. InTask(x)' <=> InTask(x)
    BY <1>2 DEF InTask
  <2>3. CASE Receive
    <3>1. PICK m \in rx : rx' = rx \ {m} /\ batch' = batch \union {m}
      BY <2>3 DEF Receive
    <3>2. UNCHANGED dropped
      BY <2>3 DEF Receive
    <3>3. QED
      BY <1>2, <2>1, <2>2, <3>1, <3>2 DEF Alone, reader
  <2>4. CASE Interrupt
    BY <1>2, <2>1, <2>2, <2>4 DEF Alone, Interrupt, reader
  <2>5. QED
    BY <2>3, <2>4
<1>5. Counted' /\ Limited'
  BY <1>2 DEF Inv, Counted, Limited, MaxTasks
<1>6. Filled'
  <2>1. pc' \in {"fill", "call"} => batch' # {}
    BY DEF Receive, Interrupt
  <2>2. QED
    BY <1>2, <2>1 DEF Inv, Filled
<1>7. (PayloadFirst /\ EndsClean /\ Dumped /\ Noted)'
  BY <1>2 DEF Inv, PayloadFirst, EndsClean, Dumped, Noted, meta
<1>8. QED
  BY <1>3, <1>4, <1>5, <1>6, <1>7, PlacedNext DEF Inv

(* The inputs go to a new task, or are given up. *)
LEMMA CallStep ==
  ASSUME Inv, Call
  PROVE  Inv'
<1> DEFINE new == [left |-> batch, step |-> "dump", cur |-> NoMessage]
<1>1. Types
  BY Placed DEF Inv
<1>2. /\ UNCHANGED <<reader, rx, size, signal, sent, stored, meta>>
      /\ pc = "call" /\ pc' \in {"top", "wait"} /\ batch' = {}
  BY DEF Call
<1>3. CASE pc' = "top" /\ dropped' = dropped \union batch /\ UNCHANGED <<tasks, num>>
  <2>1. Types'
    BY <1>1, <1>2, <1>3 DEF Types, reader, meta
  <2>2. ASSUME NEW x \in Message PROVE Alone(x)'
    <3>1. Alone(x)
      BY DEF Inv
    <3>2. InTask(x)' <=> InTask(x)
      BY <1>3 DEF InTask
    <3>3. QED
      BY <1>2, <1>3, <3>1, <3>2 DEF Alone, reader
  <2>3. (Counted /\ Limited /\ Filled)'
    BY <1>2, <1>3 DEF Inv, Counted, Limited, Filled, MaxTasks
  <2>4. (PayloadFirst /\ EndsClean /\ Dumped /\ Noted)'
    BY <1>2, <1>3 DEF Inv, PayloadFirst, EndsClean, Dumped, Noted, meta
  <2>5. QED
    BY <2>1, <2>2, <2>3, <2>4, PlacedNext DEF Inv
<1>4. CASE pc' = "wait" /\ Spawn /\ UNCHANGED dropped
  <2>1. tasks' = tasks \union {new} /\ num' = num + 1
    BY <1>4 DEF Spawn
  <2>2. batch # {} /\ batch \subseteq Message
    BY <1>1, <1>2 DEF Inv, Filled, Types
  <2>3. new \in Task /\ new.left = batch /\ new.step = "dump"
    BY <2>2 DEF Task
  <2>4. new \notin tasks
    <3>1. PICK m \in Message : m \in batch
      BY <2>2
    <3>2. ~InTask(m)
      BY <3>1 DEF Inv, Alone
    <3>3. QED
      BY <2>3, <3>1, <3>2 DEF InTask
  <2> HIDE DEF new
  <2>5. Types'
    BY <1>1, <1>2, <1>4, <2>1, <2>3 DEF Types, reader, meta
  <2>6. ASSUME NEW x \in Message PROVE Alone(x)'
    <3>1. Alone(x)
      BY DEF Inv
    <3>2. InTask(x)' <=> InTask(x) \/ x \in batch
      BY <2>1, <2>3 DEF InTask
    <3>3. \A t, u \in tasks' : x \in t.left /\ x \in u.left => t = u
      BY <2>1, <2>3, <3>1 DEF Alone, InTask
    <3>4. QED
      BY <1>2, <1>4, <3>1, <3>2, <3>3 DEF Alone, reader
  <2>7. IsFiniteSet(tasks') /\ num' = Cardinality(tasks')
    BY <2>1, <2>4, FS_AddElement DEF Inv, Limited, Counted
  <2>8. num < MaxTasks /\ num \in Nat /\ MaxTasks \in Nat
    BY <1>1, <1>2, MaxPositive DEF Inv, Limited, Types
  <2>9. MaxTasks' = MaxTasks
    BY <1>2 DEF MaxTasks
  <2>10. Counted'
    BY <2>1, <2>7, <2>8, <2>9 DEF Counted
  <2>11. Limited'
    BY <1>2, <1>4, <2>7 DEF Limited
  <2>12. Filled' /\ Dumped'
    BY <1>2, <1>4, <2>1, <2>2, <2>3 DEF Inv, Filled, Dumped
  <2>13. (PayloadFirst /\ EndsClean /\ Noted)'
    BY <1>2, <1>4, <2>1, <2>3 DEF Inv, PayloadFirst, EndsClean, Noted, meta
  <2>14. QED
    BY <2>5, <2>6, <2>10, <2>11, <2>12, <2>13, PlacedNext DEF Inv
<1>5. QED
  BY <1>3, <1>4 DEF Call

(* The metadata a clean end leaves outside the table is that of a failure. *)
LEMMA FlushStep ==
  ASSUME Inv, Flush
  PROVE  Inv'
<1>1. Types
  BY Placed DEF Inv
<1>2. /\ UNCHANGED <<reader, rx, size, batch, tasks, num, signal, sent, dropped, stored>>
      /\ pc = "flush" /\ pc' \in {"done", "failed"}
  BY DEF Flush
<1>3. tasks = {}
  BY <1>2 DEF Inv, Limited
<1>4. buffer' \subseteq Message /\ table' \subseteq Message /\ broken' \subseteq Message
      /\ dirty' \in BOOLEAN
  BY <1>1 DEF Flush, Commit, Types, meta
<1>5. Types'
  BY <1>1, <1>2, <1>4 DEF Types, reader
<1>6. ASSUME NEW x \in Message PROVE Alone(x)'
  BY <1>2 DEF Inv, Alone, InTask, reader
<1>7. /\ buffer \union table \union broken \subseteq buffer' \union table' \union broken'
      /\ ~dirty' => buffer' \subseteq table' \union broken'
  BY DEF Flush, Commit, meta, Inv, Noted
<1>8. pc' = "done" => sent \subseteq table' \union broken'
  BY DEF Flush, Commit, meta, Inv, Noted
<1>9. (Noted /\ EndsClean)'
  BY <1>2, <1>3, <1>7, <1>8 DEF Inv, Noted, EndsClean
<1>10. (Counted /\ Limited /\ Filled /\ PayloadFirst /\ Dumped)'
  BY <1>2, <1>3 DEF Inv, Counted, Limited, Filled, PayloadFirst, Dumped, MaxTasks
<1>11. QED
  BY <1>5, <1>6, <1>9, <1>10, PlacedNext DEF Inv

----------------------------------------------------------------------------
(* A write task that goes on, perhaps with fewer messages, is not confused with
   another one, and the counter still tells them. *)
LEMMA GoOn ==
  ASSUME Inv, NEW t \in tasks, NEW u, u.left # {}, u.left \subseteq t.left,
         tasks' = (tasks \ {t}) \union {u}, num' = num, UNCHANGED main
  PROVE  (Counted /\ Limited)'
<1>1. u \notin tasks \ {t}
  <2>1. SUFFICES ASSUME u \in tasks, u # t PROVE FALSE
    OBVIOUS
  <2>2. t.left \subseteq Message
    BY Placed DEF Inv, Types, Task
  <2>3. PICK m \in Message : m \in u.left /\ m \in t.left
    BY <2>2
  <2>4. Alone(m)
    BY DEF Inv
  <2>5. QED
    BY <2>1, <2>3, <2>4 DEF Alone
<1>2. IsFiniteSet(tasks) /\ Cardinality(tasks) \in Nat
  BY Placed DEF Inv, Limited, Counted, Types
<1>3. IsFiniteSet(tasks \ {t}) /\ Cardinality(tasks \ {t}) = Cardinality(tasks) - 1
  BY <1>2, FS_RemoveElement
<1>4. IsFiniteSet(tasks') /\ Cardinality(tasks') = Cardinality(tasks)
  BY <1>1, <1>2, <1>3, FS_AddElement
<1>5. num <= MaxTasks /\ num = Cardinality(tasks) /\ (pc # "wait" => num < MaxTasks)
  BY DEF Inv, Counted, Limited
<1>6. tasks # {} /\ (pc \in {"flush", "done", "failed"} => tasks = {})
  BY DEF Inv, Limited
<1>7. QED
  BY <1>4, <1>5, <1>6 DEF Counted, Limited, main, MaxTasks

(* A write task that ends is counted down. *)
LEMMA GoAway ==
  ASSUME Inv, NEW t \in tasks, NEW rest, End(t, rest), UNCHANGED main
  PROVE  num' \in Nat /\ (Counted /\ Limited)'
<1>1. IsFiniteSet(tasks) /\ Cardinality(tasks) \in Nat /\ num = Cardinality(tasks)
  BY Placed DEF Inv, Limited, Counted, Types
<1>2. IsFiniteSet(tasks') /\ Cardinality(tasks') = Cardinality(tasks) - 1
  BY <1>1, FS_RemoveElement DEF End
<1>3. Cardinality(tasks') \in Nat
  BY <1>2, FS_CardinalityType
<1>4. num' = Cardinality(tasks')
  BY <1>1, <1>2 DEF End
<1>5. MaxTasks \in Nat /\ num <= MaxTasks /\ (pc # "wait" => num < MaxTasks)
  BY MaxPositive DEF Inv, Counted, Limited
<1>6. num' <= MaxTasks /\ (pc # "wait" => num' < MaxTasks)
  BY <1>1, <1>2, <1>4, <1>5
<1>7. tasks # {} /\ (pc \in {"flush", "done", "failed"} => tasks = {})
  BY DEF Inv, Limited
<1>8. QED
  BY <1>2, <1>3, <1>4, <1>6, <1>7 DEF Counted, Limited, main, MaxTasks

(* A step of the metadata writer forgets no row. *)
LEMMA PutNotes ==
  ASSUME Inv, NEW m \in Message, PutMetadata(m)
  PROVE  /\ buffer' \subseteq Message /\ table' \subseteq Message /\ broken' \subseteq Message
         /\ dirty' \in BOOLEAN
         /\ buffer \union table \union broken \union {m}
               \subseteq buffer' \union table' \union broken'
         /\ ~dirty' => buffer' \subseteq table' \union broken'
<1>1. Types
  BY Placed DEF Inv
<1>2. QED
  BY <1>1 DEF PutMetadata, Commit, Types

LEMMA DumpStep ==
  ASSUME Inv, ~Ended, NEW t \in tasks, Dump(t), UNCHANGED <<reader, rx, main, signal>>
  PROVE  Inv'
<1> DEFINE u == [t EXCEPT !.step = "put"]
<1>1. Types
  BY Placed DEF Inv
<1>2. t \in Task /\ t.left # {} /\ t.left \subseteq Message
  BY <1>1 DEF Types, Task, Inv, Filled
<1>3. UNCHANGED <<sent, meta>> /\ pc # "done" /\ pc # "failed"
  BY DEF Dump, Ended
<1>4. CASE /\ stored' = stored \union t.left
           /\ tasks' = (tasks \ {t}) \union {u}
           /\ UNCHANGED <<num, dropped>>
  <2>1. u \in Task /\ u.left = t.left /\ u.step = "put"
    BY <1>2 DEF Task
  <2> HIDE DEF u
  <2>2. Types'
    BY <1>1, <1>2, <1>3, <1>4, <2>1 DEF Types, reader, main, meta
  <2>3. ASSUME NEW x \in Message PROVE Alone(x)'
    <3>1. Alone(x)
      BY DEF Inv
    <3>2. InTask(x)' <=> InTask(x)
      BY <1>4, <2>1 DEF InTask
    <3>3. \A v, w \in tasks' : x \in v.left /\ x \in w.left => v = w
      BY <1>4, <2>1, <3>1 DEF Alone
    <3>4. QED
      BY <1>3, <1>4, <3>1, <3>2, <3>3 DEF Alone, reader, main
  <2>4. (Counted /\ Limited)'
    BY <1>2, <1>4, <2>1, GoOn
  <2>5. (Filled /\ Dumped /\ PayloadFirst /\ EndsClean)'
    BY <1>2, <1>3, <1>4, <2>1 DEF Inv, Filled, Dumped, PayloadFirst, EndsClean, main
  <2>6. Noted'
    BY <1>3, <1>4, <2>1 DEF Inv, Noted, meta
  <2>7. QED
    BY <2>2, <2>3, <2>4, <2>5, <2>6, PlacedNext DEF Inv
<1>5. CASE End(t, t.left) /\ dropped' = dropped \union t.left /\ UNCHANGED stored
  <2>1. tasks' = tasks \ {t}
    BY <1>5 DEF End
  <2>2. num' \in Nat /\ (Counted /\ Limited)'
    BY <1>5, GoAway
  <2>3. Types'
    BY <1>1, <1>2, <1>3, <1>5, <2>1, <2>2 DEF Types, reader, main, meta
  <2>4. ASSUME NEW x \in Message PROVE Alone(x)'
    <3>1. Alone(x)
      BY DEF Inv
    <3>2. InTask(x) <=> InTask(x)' \/ x \in t.left
      BY <2>1 DEF InTask
    <3>3. x \in t.left => ~InTask(x)'
      BY <2>1, <3>1 DEF Alone, InTask
    <3>4. QED
      BY <1>3, <1>5, <2>1, <3>1, <3>2, <3>3 DEF Alone, reader, main
  <2>5. (Filled /\ Dumped /\ PayloadFirst /\ EndsClean /\ Noted)'
    BY <1>3, <1>5, <2>1 DEF Inv, Filled, Dumped, PayloadFirst, EndsClean, Noted, main, meta
  <2>6. QED
    BY <2>2, <2>3, <2>4, <2>5, PlacedNext DEF Inv
<1>6. QED
  BY <1>4, <1>5 DEF Dump

LEMMA PutStep ==
  ASSUME Inv, ~Ended, NEW t \in tasks, Put(t), UNCHANGED <<reader, rx, main, signal>>
  PROVE  Inv'
<1>1. Types
  BY Placed DEF Inv
<1>2. t \in Task /\ t.left # {} /\ t.left \subseteq Message /\ t.left \subseteq stored
  BY <1>1 DEF Types, Task, Inv, Filled, Dumped, Put
<1>3. PICK m \in t.left :
         /\ PutMetadata(m)
         /\ tasks' = (tasks \ {t}) \union {[t EXCEPT !.step = "send", !.cur = m]}
  BY DEF Put
<1> DEFINE u == [t EXCEPT !.step = "send", !.cur = m]
<1>4. u \in Task /\ u.left = t.left /\ u.step = "send" /\ u.cur = m
  BY <1>2 DEF Task
<1>5. tasks' = (tasks \ {t}) \union {u}
  BY <1>3
<1> HIDE DEF u
<1>6. UNCHANGED <<num, sent, dropped, stored>> /\ pc # "done" /\ pc # "failed"
  BY DEF Put, Ended
<1>7. /\ buffer' \subseteq Message /\ table' \subseteq Message /\ broken' \subseteq Message
      /\ dirty' \in BOOLEAN
      /\ buffer \union table \union broken \union {m} \subseteq buffer' \union table' \union broken'
      /\ ~dirty' => buffer' \subseteq table' \union broken'
  BY <1>2, <1>3, PutNotes
<1>8. Types'
  BY <1>1, <1>4, <1>5, <1>6, <1>7 DEF Types, reader, main
<1>9. ASSUME NEW x \in Message PROVE Alone(x)'
  <2>1. Alone(x)
    BY DEF Inv
  <2>2. InTask(x)' <=> InTask(x)
    BY <1>4, <1>5 DEF InTask
  <2>3. \A v, w \in tasks' : x \in v.left /\ x \in w.left => v = w
    BY <1>4, <1>5, <2>1 DEF Alone
  <2>4. QED
    BY <1>6, <2>1, <2>2, <2>3 DEF Alone, reader, main
<1>10. (Counted /\ Limited)'
  BY <1>2, <1>4, <1>5, <1>6, GoOn
<1>11. (Filled /\ Dumped /\ PayloadFirst /\ EndsClean)'
  BY <1>2, <1>4, <1>5, <1>6 DEF Inv, Filled, Dumped, PayloadFirst, EndsClean, main
<1>12. Noted'
  BY <1>4, <1>5, <1>6, <1>7 DEF Inv, Noted
<1>13. QED
  BY <1>8, <1>9, <1>10, <1>11, <1>12, PlacedNext DEF Inv

LEMMA SendStep ==
  ASSUME Inv, ~Ended, NEW t \in tasks, Send(t), UNCHANGED <<reader, rx, main, signal>>
  PROVE  Inv'
<1> DEFINE rest == t.left \ {t.cur}
           u == [left |-> rest, step |-> "put", cur |-> NoMessage]
<1>1. Types
  BY Placed DEF Inv
<1>2. /\ t \in Task /\ t.left # {} /\ t.left \subseteq Message /\ t.left \subseteq stored
      /\ t.cur \in t.left /\ t.cur \in buffer \union table \union broken
  BY <1>1 DEF Types, Task, Inv, Filled, Dumped, Noted, Send
<1>3. UNCHANGED <<stored, meta>> /\ pc # "done" /\ pc # "failed"
  BY DEF Send, Ended
<1>4. ASSUME NEW x \in Message PROVE Alone(x)
  BY DEF Inv
<1>5. CASE /\ sent' = sent \union {t.cur} /\ UNCHANGED <<dropped, num>>
           /\ rest # {} /\ tasks' = (tasks \ {t}) \union {u}
  <2>1. u \in Task /\ u.left = rest /\ u.step = "put"
    BY <1>2 DEF Task
  <2>2. (Counted /\ Limited)'
    BY <1>2, <1>5, <2>1, GoOn
  <2> HIDE DEF u
  <2>3. Types'
    BY <1>1, <1>2, <1>3, <1>5, <2>1 DEF Types, reader, main, meta
  <2>4. ASSUME NEW x \in Message PROVE Alone(x)'
    <3>1. InTask(x) <=> InTask(x)' \/ x = t.cur
      BY <1>2, <1>5, <2>1 DEF InTask
    <3>2. x = t.cur => ~InTask(x)'
      BY <1>2, <1>4, <1>5, <2>1 DEF Alone, InTask
    <3>3. \A v, w \in tasks' : x \in v.left /\ x \in w.left => v = w
      BY <1>4, <1>5, <2>1 DEF Alone
    <3>4. QED
      BY <1>3, <1>4, <1>5, <3>1, <3>2, <3>3 DEF Alone, reader, main
  <2>5. (Filled /\ Dumped /\ PayloadFirst /\ EndsClean /\ Noted)'
    BY <1>2, <1>3, <1>5, <2>1
       DEF Inv, Filled, Dumped, PayloadFirst, EndsClean, Noted, main, meta
  <2>6. QED
    BY <2>2, <2>3, <2>4, <2>5, PlacedNext DEF Inv
<1>6. CASE sent' = sent \union {t.cur} /\ UNCHANGED dropped /\ rest = {} /\ End(t, rest)
  <2>1. tasks' = tasks \ {t} /\ t.left = {t.cur}
    BY <1>2, <1>6 DEF End
  <2>2. num' \in Nat /\ (Counted /\ Limited)'
    BY <1>6, GoAway
  <2>3. Types'
    BY <1>1, <1>2, <1>3, <1>6, <2>1, <2>2 DEF Types, reader, main, meta
  <2>4. ASSUME NEW x \in Message PROVE Alone(x)'
    <3>1. InTask(x) <=> InTask(x)' \/ x = t.cur
      BY <2>1 DEF InTask
    <3>2. x = t.cur => ~InTask(x)'
      BY <1>4, <2>1 DEF Alone, InTask
    <3>3. QED
      BY <1>3, <1>4, <1>6, <2>1, <3>1, <3>2 DEF Alone, reader, main
  <2>5. (Filled /\ Dumped /\ PayloadFirst /\ EndsClean /\ Noted)'
    BY <1>2, <1>3, <1>6, <2>1
       DEF Inv, Filled, Dumped, PayloadFirst, EndsClean, Noted, main, meta
  <2>6. QED
    BY <2>2, <2>3, <2>4, <2>5, PlacedNext DEF Inv
<1>7. CASE dropped' = dropped \union t.left /\ End(t, t.left) /\ UNCHANGED sent
  <2>1. tasks' = tasks \ {t}
    BY <1>7 DEF End
  <2>2. num' \in Nat /\ (Counted /\ Limited)'
    BY <1>7, GoAway
  <2>3. Types'
    BY <1>1, <1>2, <1>3, <1>7, <2>1, <2>2 DEF Types, reader, main, meta
  <2>4. ASSUME NEW x \in Message PROVE Alone(x)'
    <3>1. InTask(x) <=> InTask(x)' \/ x \in t.left
      BY <2>1 DEF InTask
    <3>2. x \in t.left => ~InTask(x)'
      BY <1>4, <2>1 DEF Alone, InTask
    <3>3. QED
      BY <1>3, <1>4, <1>7, <2>1, <3>1, <3>2 DEF Alone, reader, main
  <2>5. (Filled /\ Dumped /\ PayloadFirst /\ EndsClean /\ Noted)'
    BY <1>3, <1>7, <2>1 DEF Inv, Filled, Dumped, PayloadFirst, EndsClean, Noted, main, meta
  <2>6. QED
    BY <2>2, <2>3, <2>4, <2>5, PlacedNext DEF Inv
<1>8. QED
  BY <1>5, <1>6, <1>7 DEF Send

----------------------------------------------------------------------------
LEMMA StepInv == Inv /\ [Next]_vars => Inv'
<1>1. SUFFICES ASSUME Inv, [Next]_vars PROVE Inv'
  OBVIOUS
<1>2. ASSUME NEW m \in Message, Read(m) PROVE Inv'
  BY <1>1, <1>2, ReadStep
<1>3. ASSUME NEW m \in Message, Load(m) PROVE Inv'
  BY <1>1, <1>3, LoadStep
<1>4. CASE HandOver
  BY <1>1, <1>4, HandOverStep
<1>5. CASE Main
  BY <1>1, <1>5, TurnStep, ReceiveStep, CallStep, FlushStep DEF Main
<1>6. CASE Write
  BY <1>1, <1>6, DumpStep, PutStep, SendStep DEF Write
<1>7. CASE Terminate \/ UNCHANGED vars
  <2>1. /\ UNCHANGED <<reader, rx, main, tasks, num, sent, dropped, stored, meta>>
        /\ signal' \in BOOLEAN
    BY <1>1, <1>7, Placed DEF Terminate, vars, Inv, Types
  <2>2. Types'
    BY <1>1, <2>1, Placed DEF Inv, Types, reader, main, meta
  <2>3. ASSUME NEW x \in Message PROVE Alone(x)'
    BY <1>1, <2>1 DEF Inv, Alone, InTask, reader, main
  <2>4. QED
    BY <1>1, <2>1, <2>2, <2>3, Quiet, PlacedNext DEF Inv
<1>8. QED
  BY <1>1, <1>2, <1>3, <1>4, <1>5, <1>6, <1>7 DEF Next

LEMMA Invariance == Spec => []Inv
  BY InitInv, StepInv, PTL DEF Spec

(* Whatever loads, writes and stores fail, and in whichever order the tasks run:
   every message is at one place, the counter of AtomicSession tells the tasks in
   flight, which never exceed its limit, payloads are stored before their message
   is published, and a pipe that ends well has committed the metadata. *)
THEOREM PipeSafe == Spec => []Safe
<1>1. Inv => Safe
  BY AloneCounts DEF Inv, Safe
<1>2. QED
  BY <1>1, Invariance, PTL
=============================================================================
