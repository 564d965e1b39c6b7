--------------------------- MODULE DashModelProofs ---------------------------
(***************************************************************************)
(* Theorems about DashModel, for any storages, bindings and claims and any *)
(* number of disturbances.                                                 *)
(***************************************************************************)
EXTENDS DashModel, TLAPS

(* What each controller can be at. *)
ClaimOp == [pc : {"idle", "model", "pick", "unbind", "release", "wait", "finalize"}]
           \union [pc : {"create"}, bound : Storage]
           \union [pc : {"status", "spec"}, bound : Storage \union {None}]
BindingOp == [pc : {"idle", "finalize"}]
             \union [pc : {"unbind", "bind", "ready"}, target : Storage,
                     to : Storage \union {None}]

Ops ==
    /\ op \in [Object -> Op]
    /\ op["model"] \in [pc : {"idle", "claim", "finalize"}]
    /\ op["claim"] \in ClaimOp
    /\ \A s \in Storage : op[s] \in [pc : {"idle", "finalize"}]
    /\ \A b \in Binding : op[b] \in BindingOp

(* A claim that is worked on, or is being deleted, has the finalizer: it is not
   gone before the controller says so. *)
ClaimOK ==
    /\ claim = None => op["claim"].pc = "idle"
    /\ claim # None /\ (claim.del \/ op["claim"].pc # "idle") => claim.fin

(* A binding with the finalizer is not gone before its controller says so; *)
Finalized(b) ==
    /\ bind[b] = None => op[b].pc = "idle"
    /\ bind[b] # None =>
          (bind[b].state # "Pending" \/ bind[b].del \/ op[b].pc # "idle" => bind[b].fin)

(* its status names a storage from the first time it is bound, *)
Stated(b) ==
    bind[b] # None =>
        /\ bind[b].state = "Pending" => bind[b].bound = None
        /\ bind[b].state = "Ready" => bind[b].bound # None

(* and what is done to it is what its state calls for, wherever it has been edited
   to in the meantime. *)
Doing(b) ==
    /\ op[b].pc \in {"bind", "ready"} =>
          op[b].to = op[b].target /\ bind[b].state \in {"Pending", "Ready"}
    /\ op[b].pc = "unbind" /\ op[b].to # None =>
          op[b].target = bind[b].bound /\ bind[b].state = "Ready"
    /\ op[b].pc = "unbind" /\ op[b].to = None => bind[b].state = "Deleting"
    /\ op[b].pc = "finalize" => bind[b].state = "Deleting"

(* A binding that has been bound to a bucket, in its status or about to say so. *)
Holds(b, s) ==
    /\ bind[b] # None
    /\ \/ op[b].pc = "ready" /\ op[b].target = s
       \/ bind[b].state = "Ready" /\ bind[b].bound = s

Has ==
    \A b \in Binding, s \in Storage :
        Holds(b, s) /\ tie[s] \intersect {"shared", "left"} = {} => s \in bucket \ jobs

Accounted ==
    \A s \in bucket \ jobs :
        tie[s] \intersect {"kept", "lost"} # {} \/ \E b \in Binding : WillRemove(b, s)

BindingOK(b) == Finalized(b) /\ Stated(b) /\ Doing(b)

Inv == TypeOK /\ Ops /\ ClaimOK /\ Has /\ Accounted /\ \A b \in Binding : BindingOK(b)

-----------------------------------------------------------------------------
(* The objects and what their controllers are at *)

LEMMA OpKinds ==
  ASSUME NEW r
  PROVE  /\ r \in [pc : {"idle", "claim", "finalize"}] => r \in Op
         /\ r \in ClaimOp => r \in Op
         /\ r \in [pc : {"idle", "finalize"}] => r \in Op
         /\ r \in BindingOp => r \in Op
<1>1. r \in [pc : {"idle", "claim", "finalize"}] => r \in Op
  BY DEF Op
<1>2. r \in [pc : {"idle", "finalize"}] => r \in Op
  BY DEF Op
<1>3. r \in ClaimOp => r \in Op
  <2>1. r \in [pc : {"idle", "model", "pick", "unbind", "release", "wait", "finalize"}] => r \in Op
    BY DEF Op
  <2>2. r \in [pc : {"create"}, bound : Storage] => r \in Op
    BY DEF Op
  <2>3. r \in [pc : {"status", "spec"}, bound : Storage \union {None}] => r \in Op
    BY DEF Op
  <2>4. QED
    BY <2>1, <2>2, <2>3 DEF ClaimOp
<1>4. r \in BindingOp => r \in Op
  BY <1>2 DEF BindingOp, Op
<1>5. QED
  BY <1>1, <1>2, <1>3, <1>4

LEMMA Names ==
  /\ "model" \in Object /\ "claim" \in Object
  /\ \A s \in Storage : s \in Object /\ s \notin {"model", "claim"}
  /\ \A b \in Binding : b \in Object /\ b \notin Storage \union {"model", "claim"}
BY DashModelAssumption DEF Object, Binding

(* A step of one controller. *)
LEMMA OpStep ==
  ASSUME Ops, NEW o \in Object, NEW r, op' = [op EXCEPT ![o] = r],
         o = "model" => r \in [pc : {"idle", "claim", "finalize"}],
         o = "claim" => r \in ClaimOp,
         o \in Storage => r \in [pc : {"idle", "finalize"}],
         o \in Binding => r \in BindingOp
  PROVE  /\ Ops' /\ op'[o] = r
         /\ \A p \in Object \ {o} : op'[p] = op[p]
<1>1. op'[o] = r /\ \A p \in Object \ {o} : op'[p] = op[p]
  BY DEF Ops
<1>2. r \in Op
  BY OpKinds DEF Object
<1>3. op' \in [Object -> Op]
  BY <1>2 DEF Ops
<1>4. op'["model"] \in [pc : {"idle", "claim", "finalize"}] /\ op'["claim"] \in ClaimOp
  BY <1>1, Names DEF Ops
<1>5. ASSUME NEW s \in Storage PROVE op'[s] \in [pc : {"idle", "finalize"}]
  BY <1>1, Names DEF Ops
<1>6. ASSUME NEW b \in Binding PROVE op'[b] \in BindingOp
  BY <1>1, Names DEF Ops
<1>7. QED
  BY <1>1, <1>3, <1>4, <1>5, <1>6 DEF Ops, ClaimOp, BindingOp, Object, Binding, Op

LEMMA IdleKinds ==
  /\ Idle \in [pc : {"idle", "claim", "finalize"}] /\ Idle \in ClaimOp
  /\ Idle \in [pc : {"idle", "finalize"}] /\ Idle \in BindingOp
  /\ Idle.pc = "idle"
BY DEF Idle, ClaimOp, BindingOp

(* What a binding is at, by where it is. *)
LEMMA AtBinding ==
  ASSUME Ops, NEW b \in Binding
  PROVE  op[b].pc \in {"unbind", "bind", "ready"} =>
            op[b].target \in Storage /\ op[b].to \in Storage \union {None}
BY DEF Ops, BindingOp

-----------------------------------------------------------------------------
(* Frames *)

(* What a binding can say and do does not depend on the other objects. *)
LEMMA BindingFrame ==
  ASSUME Inv, NEW b \in Binding, bind'[b] = bind[b], op'[b] = op[b]
  PROVE  /\ BindingOK(b)'
         /\ \A s : (Holds(b, s)' <=> Holds(b, s)) /\ (WillRemove(b, s)' <=> WillRemove(b, s))
<1>1. /\ Finalized(b) /\ Stated(b) /\ Doing(b)
  BY DEF Inv, BindingOK
<1>2. BindingOK(b)'
  BY <1>1 DEF BindingOK, Finalized, Stated, Doing
<1>3. \A s : (Holds(b, s)' <=> Holds(b, s)) /\ (WillRemove(b, s)' <=> WillRemove(b, s))
  BY DEF Holds, WillRemove, Working, At
<1>4. QED
  BY <1>2, <1>3

(* A step that leaves the buckets alone, and binds nothing. *)
LEMMA Quiet ==
  ASSUME Inv, UNCHANGED <<bucket, jobs>>,
         \A s \in Storage : tie[s] \subseteq tie'[s],
         \A b \in Binding : /\ BindingOK(b)'
                            /\ \A s \in Storage : Holds(b, s)' => Holds(b, s)
                            /\ \A s \in bucket \ jobs : WillRemove(b, s) =>
                                 \/ tie'[s] \intersect {"kept", "lost"} # {}
                                 \/ \E c \in Binding : WillRemove(c, s)'
  PROVE  Has' /\ Accounted' /\ \A b \in Binding : BindingOK(b)'
<1>1. Has'
  BY DEF Inv, Has
<1>2. Accounted'
  <2>1. SUFFICES ASSUME NEW s \in bucket \ jobs
                 PROVE  tie'[s] \intersect {"kept", "lost"} # {}
                        \/ \E b \in Binding : WillRemove(b, s)'
    BY DEF Accounted
  <2>2. s \in Storage
    BY DEF Inv, TypeOK
  <2>3. CASE tie[s] \intersect {"kept", "lost"} # {}
    BY <2>2, <2>3
  <2>4. CASE \E b \in Binding : WillRemove(b, s)
    BY <2>1, <2>4
  <2>5. QED
    BY <2>3, <2>4 DEF Inv, Accounted
<1>3. QED
  BY <1>1, <1>2

(* Such a step of one binding, or of its user. *)
LEMMA QuietBinding ==
  ASSUME Inv, UNCHANGED <<bucket, jobs>>, NEW b \in Binding,
         \A s \in Storage : tie[s] \subseteq tie'[s],
         \A c \in Binding \ {b} : bind'[c] = bind[c] /\ op'[c] = op[c],
         BindingOK(b)',
         \A s \in Storage : Holds(b, s)' => Holds(b, s),
         \A s \in bucket \ jobs : WillRemove(b, s) =>
              \/ tie'[s] \intersect {"kept", "lost"} # {}
              \/ \E c \in Binding : WillRemove(c, s)'
  PROVE  Has' /\ Accounted' /\ \A c \in Binding : BindingOK(c)'
<1>1. ASSUME NEW c \in Binding \ {b}
      PROVE  BindingOK(c)' /\ \A s \in Storage : /\ Holds(c, s)' => Holds(c, s)
                                                 /\ WillRemove(c, s) => WillRemove(c, s)'
  BY BindingFrame
<1>2. bucket \ jobs \subseteq Storage
  BY DEF Inv, TypeOK
<1>3. ASSUME NEW c \in Binding
      PROVE  /\ BindingOK(c)'
             /\ \A s \in Storage : Holds(c, s)' => Holds(c, s)
             /\ \A s \in bucket \ jobs : WillRemove(c, s) =>
                    \/ tie'[s] \intersect {"kept", "lost"} # {}
                    \/ \E d \in Binding : WillRemove(d, s)'
  <2>1. CASE c = b
    BY <2>1
  <2>2. CASE c # b
    BY <1>1, <1>2, <2>2
  <2>3. QED
    BY <2>1, <2>2
<1>4. QED
  BY <1>3, Quiet

(* A step of the model, the claim or a storage. *)
LEMMA Elsewhere ==
  ASSUME Inv, UNCHANGED <<bind, bucket, jobs, tie>>,
         \A b \in Binding : op'[b] = op[b]
  PROVE  Has' /\ Accounted' /\ \A b \in Binding : BindingOK(b)'
<1>1. ASSUME NEW b \in Binding
      PROVE  BindingOK(b)' /\ \A s \in Storage : /\ Holds(b, s)' => Holds(b, s)
                                                 /\ WillRemove(b, s) => WillRemove(b, s)'
  BY BindingFrame
<1>2. bucket \ jobs \subseteq Storage
  BY DEF Inv, TypeOK
<1>3. QED
  BY <1>1, <1>2, Quiet

LEMMA ClaimFrame ==
  ASSUME Inv, UNCHANGED claim, op'["claim"] = op["claim"]
  PROVE  ClaimOK'
BY DEF Inv, ClaimOK

-----------------------------------------------------------------------------
(* The model and the storages *)

LEMMA ModelStep ==
  ASSUME Inv, ModelNext
  PROVE  Inv'
<1>1. Ops /\ op["model"] \in [pc : {"idle", "claim", "finalize"}]
  BY Names DEF Inv, Ops
<1>2. UNCHANGED <<claim, bind, store, bucket, jobs, tie, spent>>
  BY DEF ModelNext, MarkModel, ModelUnbound, ModelUnclaimed, FinalizeModel
<1>3. model' \in Objects \union {None}
  <2>1. CASE MarkModel
    <3>1. model \in Objects
      BY <2>1 DEF MarkModel, Starts, Inv, TypeOK
    <3>2. QED
      BY <2>1, <3>1 DEF MarkModel, Objects, Marked, Owned, State
  <2>2. CASE FinalizeModel
    BY <2>2 DEF FinalizeModel
  <2>3. CASE ModelUnbound \/ ModelUnclaimed
    BY <2>3 DEF ModelUnbound, ModelUnclaimed, Inv, TypeOK
  <2>4. QED
    BY <2>1, <2>2, <2>3 DEF ModelNext
<1>4. Ops' /\ \A p \in Object \ {"model"} : op'[p] = op[p]
  <2>1. CASE MarkModel
    BY <2>1, <1>1 DEF MarkModel, Ops
  <2>2. \A pc \in {"idle", "claim", "finalize"} :
          op' = [op EXCEPT !["model"] = [pc |-> pc]] =>
             Ops' /\ \A p \in Object \ {"model"} : op'[p] = op[p]
    BY <1>1, OpStep, Names
  <2>3. CASE ModelUnbound
    BY <2>2, <2>3 DEF ModelUnbound, Go
  <2>4. CASE ModelUnclaimed
    BY <2>2, <2>4 DEF ModelUnclaimed, Go, Stop, Idle
  <2>5. CASE FinalizeModel
    BY <2>2, <2>5 DEF FinalizeModel, Stop, Idle
  <2>6. QED
    BY <2>1, <2>3, <2>4, <2>5 DEF ModelNext
<1>5. op'["claim"] = op["claim"] /\ \A b \in Binding : op'[b] = op[b]
  BY <1>4, Names
<1>6. TypeOK'
  BY <1>2, <1>3, <1>4 DEF Inv, TypeOK, Ops
<1>7. QED
  BY <1>2, <1>4, <1>5, <1>6, Elsewhere, ClaimFrame DEF Inv

LEMMA StorageStep ==
  ASSUME Inv, NEW s \in Storage, StorageNext(s)
  PROVE  Inv'
<1>1. UNCHANGED <<model, claim, bind, bucket, jobs, tie, spent>>
  BY DEF StorageNext, StorageUnbound, FinalizeStorage
<1>2. store' \in [Storage -> {"Ready", "Deleting", "gone"}]
  BY DEF StorageNext, StorageUnbound, FinalizeStorage, Inv, TypeOK
<1>3. Ops' /\ \A p \in Object \ {s} : op'[p] = op[p]
  <2>1. \A pc \in {"idle", "finalize"} :
          op' = [op EXCEPT ![s] = [pc |-> pc]] =>
             Ops' /\ \A p \in Object \ {s} : op'[p] = op[p]
    <3>1. ASSUME NEW pc \in {"idle", "finalize"}, op' = [op EXCEPT ![s] = [pc |-> pc]]
          PROVE  Ops' /\ \A p \in Object \ {s} : op'[p] = op[p]
      BY <3>1, OpStep, Names DEF Inv
    <3>2. QED
      BY <3>1
  <2>2. QED
    BY <2>1 DEF StorageNext, StorageUnbound, FinalizeStorage, Go, Stop, Idle
<1>4. op'["claim"] = op["claim"] /\ \A b \in Binding : op'[b] = op[b]
  BY <1>3, Names
<1>5. TypeOK'
  BY <1>1, <1>2, <1>3 DEF Inv, TypeOK, Ops
<1>6. QED
  BY <1>1, <1>3, <1>4, <1>5, Elsewhere, ClaimFrame DEF Inv

(* Whoever is bound to a bucket refers to its storage. *)
LEMMA HoldsRefers ==
  ASSUME NEW b \in Binding, NEW s, Holds(b, s)
  PROVE  Refers(b, s)
BY DEF Holds, Refers, Working

LEMMA JobRunsStep ==
  ASSUME Inv, NEW s \in Storage, JobRuns(s)
  PROVE  Inv'
<1>1. /\ UNCHANGED <<model, claim, bind, store, op, spent>>
      /\ s \in jobs /\ jobs' = jobs \ {s} /\ bucket' = bucket \ {s}
      /\ tie' = IF \E b \in Binding : Refers(b, s) THEN tie ELSE [tie EXCEPT ![s] = {}]
  BY DEF JobRuns
<1>2. tie \in [Storage -> SUBSET {"shared", "left", "kept", "lost"}]
  BY DEF Inv, TypeOK
<1>3. \A t \in Storage : t # s => tie'[t] = tie[t]
  BY <1>1, <1>2
<1>4. (\E b \in Binding : Refers(b, s)) => tie' = tie
  BY <1>1
<1>5. TypeOK' /\ Ops'
  <2>1. tie' \in [Storage -> SUBSET {"shared", "left", "kept", "lost"}]
    BY <1>1, <1>2
  <2>2. QED
    BY <1>1, <2>1 DEF Inv, TypeOK, Ops
<1>6. ClaimOK'
  BY <1>1, ClaimFrame
<1>7. ASSUME NEW b \in Binding
      PROVE  /\ BindingOK(b)'
             /\ \A t : (Holds(b, t)' <=> Holds(b, t)) /\ (WillRemove(b, t)' <=> WillRemove(b, t))
  BY <1>1, BindingFrame
<1>8. Has'
  <2>1. SUFFICES ASSUME NEW b \in Binding, NEW t \in Storage, Holds(b, t),
                        tie'[t] \intersect {"shared", "left"} = {}
                 PROVE  t \in bucket' \ jobs'
    BY <1>7 DEF Has
  <2>2. tie'[t] = tie[t]
    BY <1>3, <1>4, <2>1, HoldsRefers
  <2>3. t \in bucket \ jobs
    BY <2>1, <2>2 DEF Inv, Has
  <2>4. QED
    BY <1>1, <2>3
<1>9. Accounted'
  <2>1. SUFFICES ASSUME NEW t \in bucket' \ jobs'
                 PROVE  tie'[t] \intersect {"kept", "lost"} # {}
                        \/ \E b \in Binding : WillRemove(b, t)'
    BY DEF Accounted
  <2>2. t \in bucket \ jobs /\ t # s /\ t \in Storage
    BY <1>1, <2>1 DEF Inv, TypeOK
  <2>3. tie[t] \intersect {"kept", "lost"} # {} \/ \E b \in Binding : WillRemove(b, t)
    BY <2>2 DEF Inv, Accounted
  <2>4. QED
    BY <1>3, <1>7, <2>2, <2>3
<1>10. QED
  BY <1>5, <1>6, <1>7, <1>8, <1>9 DEF Inv

-----------------------------------------------------------------------------
(* The claim *)

(* The claim stays as long as something is done for it. *)
LEMMA AtClaim ==
  ASSUME Inv
  PROVE  /\ op["claim"] \in ClaimOp
         /\ claim # None => claim \in Claims
         /\ op["claim"].pc # "idle" => claim # None /\ claim.fin
         /\ op["claim"].pc = "create" => op["claim"].bound \in Storage
         /\ op["claim"].pc \in {"status", "spec"} => op["claim"].bound \in Storage \union {None}
BY DEF Inv, TypeOK, Ops, ClaimOK, ClaimOp

LEMMA ClaimOpStep ==
  ASSUME Inv, NEW r \in ClaimOp, op' = [op EXCEPT !["claim"] = r]
  PROVE  /\ Ops' /\ op'["claim"] = r
         /\ \A b \in Binding : op'[b] = op[b]
<1>1. Ops /\ "claim" \in Object /\ "claim" \notin Storage /\ "claim" \notin Binding
  BY Names DEF Inv
<1>2. Ops' /\ op'["claim"] = r /\ \A p \in Object \ {"claim"} : op'[p] = op[p]
  BY <1>1, OpStep
<1>3. QED
  BY <1>2, Names

LEMMA ClaimPcs ==
  /\ \A pc \in {"idle", "model", "pick", "unbind", "release", "wait", "finalize"} :
        [pc |-> pc] \in ClaimOp
  /\ \A s \in Storage : [pc |-> "create", bound |-> s] \in ClaimOp
  /\ \A pc \in {"status", "spec"}, s \in Storage \union {None} : [pc |-> pc, bound |-> s] \in ClaimOp
BY DEF ClaimOp

(* A step of the claim's controller that makes or deletes no binding. *)
LEMMA ClaimAlone ==
  ASSUME Inv, NEW r \in ClaimOp, op' = [op EXCEPT !["claim"] = r],
         UNCHANGED <<bind, store, bucket, jobs, tie, spent>>,
         model' \in Objects \union {None}, claim' \in Claims \union {None},
         claim' = None => r.pc = "idle",
         claim' # None /\ (claim'.del \/ r.pc # "idle") => claim'.fin
  PROVE  Inv'
<1>1. Ops' /\ op'["claim"] = r /\ \A b \in Binding : op'[b] = op[b]
  BY ClaimOpStep
<1>2. TypeOK'
  BY <1>1 DEF Inv, TypeOK, Ops
<1>3. ClaimOK'
  BY <1>1 DEF ClaimOK
<1>4. QED
  BY <1>1, <1>2, <1>3, Elsewhere DEF Inv

(* and one that only goes on to something else. *)
LEMMA ClaimGoes ==
  ASSUME Inv, NEW r \in ClaimOp, op' = [op EXCEPT !["claim"] = r],
         UNCHANGED <<claim, bind, store, bucket, jobs, tie, spent>>,
         model' \in Objects \union {None},
         claim # None /\ claim.fin
  PROVE  Inv'
<1>1. claim' \in Claims \union {None}
  BY DEF Inv, TypeOK
<1>2. QED
  BY <1>1, ClaimAlone

LEMMA MarkClaimStep ==
  ASSUME Inv, MarkClaim
  PROVE  Inv'
<1>1. /\ UNCHANGED <<model, bind, store, bucket, jobs, tie, spent>>
      /\ claim # None /\ claim \in Claims /\ op["claim"] = Idle
      /\ model' \in Objects \union {None}
  BY AtClaim DEF MarkClaim, Starts, Inv, TypeOK
<1>2. CASE Doomed(claim) /\ claim' = Marked(claim) /\ ClaimGo("spec", claim.bound)
  <2> DEFINE r == [pc |-> "spec", bound |-> claim.bound]
  <2>1. r \in ClaimOp
    BY <1>1, ClaimPcs DEF Claims
  <2>2. op' = [op EXCEPT !["claim"] = r]
    BY <1>2 DEF ClaimGo
  <2>3. claim' \in Claims /\ claim'.fin
    BY <1>1, <1>2 DEF Claims, Marked, Doomed, State, Inv, ClaimOK
  <2>4. claim' # None
    BY <2>3, NoneAssumption
  <2> HIDE DEF r
  <2>5. QED
    BY <1>1, <2>1, <2>2, <2>3, <2>4, ClaimAlone
<1>3. CASE Unowned(claim) /\ claim' = Owned(claim) /\ UNCHANGED op
  <2>1. op' = [op EXCEPT !["claim"] = Idle]
    BY <1>1, <1>3 DEF Inv, Ops
  <2>2. claim' \in Claims /\ claim'.fin
    BY <1>1, <1>3 DEF Claims, Owned
  <2>3. QED
    BY <1>1, <2>1, <2>2, IdleKinds, ClaimAlone, NoneAssumption
<1>4. QED
  BY <1>2, <1>3 DEF MarkClaim

LEMMA ReconcileClaimStep ==
  ASSUME Inv, ReconcileClaim
  PROVE  Inv'
<1>1. /\ UNCHANGED <<model, claim, bind, store, bucket, jobs, tie, spent>>
      /\ claim # None /\ claim.fin /\ model' \in Objects \union {None}
  BY DEF ReconcileClaim, Starts, Settled, Inv, TypeOK
<1>2. \E pc \in {"model", "unbind", "finalize", "release"} :
         op' = [op EXCEPT !["claim"] = [pc |-> pc]]
  BY DEF ReconcileClaim, Go
<1>3. QED
  BY <1>1, <1>2, ClaimPcs, ClaimGoes

LEMMA LoadOrCreateModelStep ==
  ASSUME Inv, LoadOrCreateModel
  PROVE  Inv'
<1>1. /\ UNCHANGED <<claim, bind, store, bucket, jobs, tie, spent>>
      /\ claim # None /\ claim.fin
  BY AtClaim DEF LoadOrCreateModel, At
<1>2. model' \in Objects \union {None}
  <2>1. model' \in {New, model}
    BY DEF LoadOrCreateModel
  <2>2. New \in Objects
    BY DEF New, Objects, State
  <2>3. QED
    BY <2>1, <2>2 DEF Inv, TypeOK
<1>3. PICK r \in ClaimOp : op' = [op EXCEPT !["claim"] = r]
  <2>1. CASE Stop("claim")
    BY <2>1, IdleKinds DEF Stop
  <2>2. CASE Listed
    BY <2>2, ClaimPcs DEF Listed, ClaimGo, Go
  <2>3. QED
    BY <2>1, <2>2 DEF LoadOrCreateModel
<1>4. QED
  BY <1>1, <1>2, <1>3, ClaimGoes

LEMMA OptimizeStep ==
  ASSUME Inv, Optimize
  PROVE  Inv'
<1>1. /\ UNCHANGED <<model, claim, bind, store, bucket, jobs, tie, spent>>
      /\ claim # None /\ claim.fin /\ model' \in Objects \union {None}
  BY AtClaim DEF Optimize, At, Inv, TypeOK
<1>2. PICK r \in ClaimOp : op' = [op EXCEPT !["claim"] = r]
  BY IdleKinds, ClaimPcs DEF Optimize, Candidates, ClaimGo, Stop
<1>3. QED
  BY <1>1, <1>2, ClaimGoes

LEMMA UpdateStatusStep ==
  ASSUME Inv, UpdateStatus
  PROVE  Inv'
<1> DEFINE s == op["claim"].bound
           r == [pc |-> "spec", bound |-> s]
<1>1. /\ UNCHANGED <<model, bind, store, bucket, jobs, tie, spent>>
      /\ claim \in Claims /\ claim.fin /\ s \in Storage \union {None}
      /\ model' \in Objects \union {None}
      /\ claim' = [claim EXCEPT !.state = "Ready", !.edited = FALSE, !.bound = s]
      /\ op' = [op EXCEPT !["claim"] = r]
  BY AtClaim DEF UpdateStatus, At, ClaimGo, Inv, TypeOK
<1>2. r \in ClaimOp
  BY <1>1, ClaimPcs
<1> HIDE DEF s, r
<1>3. claim' \in Claims /\ claim'.fin
  BY <1>1 DEF Claims, State
<1>4. QED
  BY <1>1, <1>2, <1>3, ClaimAlone, NoneAssumption

LEMMA UpdateSpecStep ==
  ASSUME Inv, UpdateSpec
  PROVE  Inv'
<1>1. /\ UNCHANGED <<model, bind, store, bucket, jobs, tie, spent>>
      /\ claim \in Claims /\ claim.fin /\ op["claim"].bound \in Storage \union {None}
      /\ model' \in Objects \union {None}
      /\ claim' = [claim EXCEPT !.spec = op["claim"].bound]
      /\ op' = [op EXCEPT !["claim"] = Idle]
  BY AtClaim DEF UpdateSpec, At, Stop, Inv, TypeOK
<1>2. claim' \in Claims /\ claim'.fin
  BY <1>1 DEF Claims
<1>3. QED
  BY <1>1, <1>2, IdleKinds, ClaimAlone, NoneAssumption

LEMMA DeletedModel ==
  ASSUME model \in Objects \union {None}
  PROVE  Deleted(model) \in Objects \union {None}
<1>1. CASE model = None
  BY <1>1 DEF Deleted
<1>2. CASE model \in Objects
  BY <1>2 DEF Deleted, Objects
<1>3. QED
  BY <1>1, <1>2

LEMMA DeleteModelStep ==
  ASSUME Inv, DeleteModel
  PROVE  Inv'
<1>1. /\ UNCHANGED <<claim, bind, store, bucket, jobs, tie, spent>>
      /\ claim # None /\ claim.fin
  BY AtClaim DEF DeleteModel, At
<1>2. model' \in Objects \union {None}
  BY DeletedModel DEF DeleteModel, Inv, TypeOK
<1>3. PICK r \in ClaimOp : op' = [op EXCEPT !["claim"] = r]
  BY IdleKinds, ClaimPcs DEF DeleteModel, Stop, Go
<1>4. QED
  BY <1>1, <1>2, <1>3, ClaimGoes

LEMMA FinalizeClaimStep ==
  ASSUME Inv, FinalizeClaim
  PROVE  Inv'
<1>1. /\ UNCHANGED <<model, bind, store, bucket, jobs, tie, spent>>
      /\ claim' = None /\ op' = [op EXCEPT !["claim"] = Idle]
      /\ model' \in Objects \union {None}
  BY DEF FinalizeClaim, Stop, Inv, TypeOK
<1>2. QED
  BY <1>1, IdleKinds, ClaimAlone

-----------------------------------------------------------------------------
(* Bindings that are made, edited and deleted *)

LEMMA ABinding ==
  ASSUME Inv, NEW b \in Binding, bind[b] # None
  PROVE  /\ bind[b] \in Bindings /\ bind[b].target \in Storage
         /\ bind[b].bound \in Storage \union {None} /\ bind[b].policy \in Policy
         /\ Finalized(b) /\ Stated(b) /\ Doing(b)
BY DEF Inv, TypeOK, BindingOK, Bindings

LEMMA DeletedBinding ==
  ASSUME Inv, NEW b \in Binding, bind[b] # None, bind'[b] = Deleted(bind[b]),
         op'[b] = op[b], UNCHANGED tie
  PROVE  /\ bind'[b] \in Bindings \union {None}
         /\ BindingOK(b)'
         /\ \A s : Holds(b, s)' => Holds(b, s)
         /\ \A s : WillRemove(b, s) => WillRemove(b, s)'
<1>1. /\ bind[b] \in Bindings /\ Finalized(b) /\ Stated(b) /\ Doing(b)
  BY ABinding
<1>2. CASE bind[b].fin
  <2>1. bind'[b] = [bind[b] EXCEPT !.del = TRUE]
    BY <1>2 DEF Deleted
  <2>2. /\ bind'[b] \in Bindings /\ bind'[b].state = bind[b].state /\ bind'[b].fin
        /\ bind'[b].policy = bind[b].policy /\ bind'[b].target = bind[b].target
        /\ bind'[b].bound = bind[b].bound
    BY <1>1, <1>2, <2>1 DEF Bindings
  <2>3. bind'[b] # None
    BY <2>2, NoneAssumption
  <2>4. Finalized(b)' /\ Stated(b)' /\ Doing(b)'
    BY <1>1, <2>2, <2>3 DEF Finalized, Stated, Doing
  <2>5. \A s : (Holds(b, s)' <=> Holds(b, s)) /\ (WillRemove(b, s)' <=> WillRemove(b, s))
    BY <1>2, <2>2, <2>3 DEF Holds, WillRemove, Working, At
  <2>6. QED
    BY <2>2, <2>4, <2>5 DEF BindingOK
<1>3. CASE ~bind[b].fin
  <2>1. bind'[b] = None /\ op'[b].pc = "idle"
    BY <1>1, <1>3 DEF Deleted, Finalized
  <2>2. Finalized(b)' /\ Stated(b)' /\ Doing(b)'
    BY <2>1 DEF Finalized, Stated, Doing
  <2>3. QED
    BY <1>3, <2>1, <2>2 DEF BindingOK, Holds, WillRemove, Working, At
<1>4. QED
  BY <1>2, <1>3

LEMMA DeleteBindingsStep ==
  ASSUME Inv, DeleteBindings, NEW r \in ClaimOp, op' = [op EXCEPT !["claim"] = r],
         UNCHANGED <<model, claim, store, bucket, jobs, tie, spent>>,
         claim # None /\ claim.fin
  PROVE  Inv'
<1>1. Ops' /\ op'["claim"] = r /\ \A b \in Binding : op'[b] = op[b]
  BY ClaimOpStep
<1>2. ClaimOK'
  BY <1>1 DEF ClaimOK
<1>3. ASSUME NEW b \in Binding
      PROVE  /\ bind'[b] \in Bindings \union {None}
             /\ BindingOK(b)'
             /\ \A s : Holds(b, s)' => Holds(b, s)
             /\ \A s : WillRemove(b, s) => WillRemove(b, s)'
  <2>1. CASE b \in Live
    <3>1. bind[b] # None /\ bind'[b] = Deleted(bind[b])
      BY <2>1 DEF Live, DeleteBindings
    <3>2. QED
      BY <1>1, <3>1, DeletedBinding
  <2>2. CASE b \notin Live
    <3>1. bind'[b] = bind[b]
      BY <2>2 DEF DeleteBindings
    <3>2. bind'[b] \in Bindings \union {None}
      BY <3>1 DEF Inv, TypeOK
    <3>3. QED
      BY <1>1, <3>1, <3>2, BindingFrame
  <2>3. QED
    BY <2>1, <2>2
<1>4. bind' \in [Binding -> Bindings \union {None}]
  BY <1>3 DEF DeleteBindings
<1>5. TypeOK'
  BY <1>1, <1>4 DEF Inv, TypeOK, Ops
<1>6. Has' /\ Accounted' /\ \A b \in Binding : BindingOK(b)'
  BY <1>3, Quiet
<1>7. QED
  BY <1>1, <1>2, <1>5, <1>6 DEF Inv

LEMMA ReleaseStep ==
  ASSUME Inv, Rebind \/ Release
  PROVE  Inv'
<1>1. /\ UNCHANGED <<model, claim, store, bucket, jobs, tie, spent>> /\ DeleteBindings
      /\ claim # None /\ claim.fin
  BY AtClaim DEF Rebind, Release, At
<1>2. PICK r \in ClaimOp : op' = [op EXCEPT !["claim"] = r]
  BY ClaimPcs DEF Rebind, Release, Go
<1>3. QED
  BY <1>1, <1>2, DeleteBindingsStep

(* A binding is made: it has nothing yet. *)
LEMMA MadeBinding ==
  ASSUME Inv, NEW b \in Binding, NEW s \in Storage, NEW policy \in Policy,
         bind[b] = None, bind' = [bind EXCEPT ![b] = NewBinding(s, policy)],
         UNCHANGED <<bucket, jobs, tie>>, \A c \in Binding : op'[c] = op[c]
  PROVE  /\ bind' \in [Binding -> Bindings \union {None}]
         /\ Has' /\ Accounted' /\ \A c \in Binding : BindingOK(c)'
<1>1. NewBinding(s, policy) \in Bindings
  BY DEF NewBinding, Bindings, State
<1>2. /\ bind' \in [Binding -> Bindings \union {None}]
      /\ bind'[b] = NewBinding(s, policy)
      /\ \A c \in Binding \ {b} : bind'[c] = bind[c]
  BY <1>1 DEF Inv, TypeOK
<1>3. bind'[b] # None
  BY <1>1, <1>2, NoneAssumption
<1>4. op'[b].pc = "idle"
  BY DEF Inv, BindingOK, Finalized
<1>5. /\ bind'[b].state = "Pending" /\ bind'[b].del = FALSE /\ bind'[b].fin = FALSE
      /\ bind'[b].bound = None
  BY <1>2 DEF NewBinding
<1>6. BindingOK(b)'
  BY <1>3, <1>4, <1>5 DEF BindingOK, Finalized, Stated, Doing
<1>7. \A t \in Storage : Holds(b, t)' => Holds(b, t)
  BY <1>4, <1>5 DEF Holds
<1>8. \A t \in bucket \ jobs : ~WillRemove(b, t)
  BY DEF WillRemove, Working, At
<1>9. QED
  BY <1>2, <1>6, <1>7, <1>8, QuietBinding

LEMMA CreateBindingStep ==
  ASSUME Inv, CreateBinding
  PROVE  Inv'
<1> DEFINE s == op["claim"].bound
<1>1. /\ UNCHANGED <<model, claim, store, bucket, jobs, tie, spent>>
      /\ claim \in Claims /\ claim # None /\ claim.fin /\ s \in Storage
  BY AtClaim DEF CreateBinding, At
<1>2. CASE bind[Own] = None
  <2> DEFINE r == [pc |-> "status", bound |-> s]
  <2>1. r \in ClaimOp /\ claim.policy \in Policy /\ Own \in Binding
    BY <1>1, ClaimPcs DEF Claims, Binding
  <2>2. /\ op' = [op EXCEPT !["claim"] = r]
        /\ bind' = [bind EXCEPT ![Own] = NewBinding(s, claim.policy)]
    BY <1>2 DEF CreateBinding, ClaimGo
  <2> HIDE DEF s, r
  <2>3. Ops' /\ op'["claim"] = r /\ \A b \in Binding : op'[b] = op[b]
    BY <2>1, <2>2, ClaimOpStep
  <2>4. /\ bind' \in [Binding -> Bindings \union {None}]
        /\ Has' /\ Accounted' /\ \A c \in Binding : BindingOK(c)'
    BY <1>1, <1>2, <2>1, <2>2, <2>3, MadeBinding
  <2>5. TypeOK' /\ ClaimOK'
    BY <1>1, <2>3, <2>4 DEF Inv, TypeOK, Ops, ClaimOK
  <2>6. QED
    BY <2>3, <2>4, <2>5 DEF Inv
<1>3. CASE bind[Own] # None
  <2>1. op' = [op EXCEPT !["claim"] = Idle] /\ UNCHANGED bind
    BY <1>3 DEF CreateBinding, Stop
  <2>2. model' \in Objects \union {None}
    BY <1>1 DEF Inv, TypeOK
  <2>3. QED
    BY <1>1, <2>1, <2>2, IdleKinds, ClaimGoes
<1>4. QED
  BY <1>2, <1>3

-----------------------------------------------------------------------------
(* A binding's controller *)

(* What is left to show of a step of b. *)
LEMMA BindingTypes ==
  ASSUME Inv, NEW b \in Binding, NEW n \in Bindings \union {None}, NEW r \in BindingOp,
         bind' = [bind EXCEPT ![b] = n], op' = [op EXCEPT ![b] = r]
  PROVE  /\ bind' \in [Binding -> Bindings \union {None}] /\ Ops'
         /\ bind'[b] = n /\ op'[b] = r /\ op'["claim"] = op["claim"]
         /\ \A c \in Binding \ {b} : bind'[c] = bind[c] /\ op'[c] = op[c]
<1>1. b \in Object /\ b \notin Storage \union {"model", "claim"} /\ Ops
  BY Names DEF Inv
<1>2. Ops' /\ op'[b] = r /\ \A p \in Object \ {b} : op'[p] = op[p]
  BY <1>1, OpStep
<1>3. /\ bind' \in [Binding -> Bindings \union {None}] /\ bind'[b] = n
      /\ \A c \in Binding \ {b} : bind'[c] = bind[c]
  BY DEF Inv, TypeOK
<1>4. QED
  BY <1>1, <1>2, <1>3, Names

LEMMA SameBinding ==
  ASSUME Inv, NEW b \in Binding
  PROVE  bind = [bind EXCEPT ![b] = bind[b]] /\ bind[b] \in Bindings \union {None}
BY DEF Inv, TypeOK

LEMMA SameOp ==
  ASSUME Inv, NEW b \in Binding
  PROVE  op = [op EXCEPT ![b] = op[b]] /\ op[b] \in BindingOp
BY Names DEF Inv, Ops

(* A step of b that leaves the buckets alone. *)
LEMMA QuietStep ==
  ASSUME Inv, UNCHANGED <<model, claim, store, bucket, jobs>>,
         NEW b \in Binding, NEW n \in Bindings \union {None}, NEW r \in BindingOp,
         bind' = [bind EXCEPT ![b] = n], op' = [op EXCEPT ![b] = r],
         tie' \in [Storage -> SUBSET {"shared", "left", "kept", "lost"}], spent' \in 0 .. Limit,
         \A s \in Storage : tie[s] \subseteq tie'[s],
         bind'[b] = n /\ op'[b] = r => BindingOK(b)',
         bind'[b] = n /\ op'[b] = r => \A s \in Storage : Holds(b, s)' => Holds(b, s),
         bind'[b] = n /\ op'[b] = r => \A s \in bucket \ jobs : WillRemove(b, s) =>
              \/ tie'[s] \intersect {"kept", "lost"} # {}
              \/ \E c \in Binding : WillRemove(c, s)'
  PROVE  Inv'
<1>1. /\ bind' \in [Binding -> Bindings \union {None}] /\ Ops'
      /\ bind'[b] = n /\ op'[b] = r /\ op'["claim"] = op["claim"]
      /\ \A c \in Binding \ {b} : bind'[c] = bind[c] /\ op'[c] = op[c]
  BY BindingTypes
<1>2. Has' /\ Accounted' /\ \A c \in Binding : BindingOK(c)'
  BY <1>1, QuietBinding
<1>3. TypeOK' /\ ClaimOK'
  BY <1>1, ClaimFrame DEF Inv, TypeOK, Ops
<1>4. QED
  BY <1>1, <1>2, <1>3 DEF Inv

LEMMA MarkBindingStep ==
  ASSUME Inv, NEW b \in Binding, MarkBinding(b)
  PROVE  Inv'
<1>1. /\ UNCHANGED <<model, claim, store, bucket, jobs, op, tie, spent>>
      /\ bind[b] # None /\ op[b] = Idle
  BY DEF MarkBinding, Starts
<1>2. /\ bind[b] \in Bindings /\ Finalized(b) /\ Stated(b) /\ Doing(b)
  BY <1>1, ABinding
<1>3. op' = [op EXCEPT ![b] = op[b]] /\ op[b] \in BindingOp /\ op[b].pc = "idle"
  BY <1>1, SameOp, IdleKinds
<1>4. /\ tie' \in [Storage -> SUBSET {"shared", "left", "kept", "lost"}] /\ spent' \in 0 .. Limit
      /\ \A s \in Storage : tie[s] \subseteq tie'[s]
  BY <1>1 DEF Inv, TypeOK
<1>5. CASE Doomed(bind[b]) /\ bind' = [bind EXCEPT ![b] = Marked(@)]
  <2> DEFINE n == Marked(bind[b])
  <2>1. bind' = [bind EXCEPT ![b] = n]
    BY <1>5
  <2>2. /\ n \in Bindings /\ n.state = "Deleting" /\ n.fin /\ n.policy = bind[b].policy
        /\ n.target = bind[b].target /\ n.bound = bind[b].bound
    <3>1. bind[b].fin
      BY <1>1, <1>2, <1>5 DEF Doomed, Finalized
    <3>2. n = [bind[b] EXCEPT !.state = "Deleting"]
      BY DEF Marked
    <3>3. QED
      BY <1>2, <3>1, <3>2 DEF Bindings, State
  <2> HIDE DEF n
  <2>3. n # None
    BY <2>2, NoneAssumption
  <2>4. SUFFICES ASSUME bind'[b] = n, op'[b] = op[b]
                 PROVE  /\ BindingOK(b)'
                        /\ \A s : Holds(b, s)' => Holds(b, s)
                        /\ \A s : WillRemove(b, s) => WillRemove(b, s)'
    BY <1>1, <1>3, <1>4, <2>1, <2>2, QuietStep
  <2>5. BindingOK(b)'
    BY <1>2, <1>3, <2>2, <2>3, <2>4 DEF BindingOK, Finalized, Stated, Doing
  <2>6. QED
    BY <1>2, <1>3, <2>2, <2>3, <2>4, <2>5 DEF Holds, WillRemove, Working, At
<1>6. CASE Unowned(bind[b]) /\ bind' = [bind EXCEPT ![b] = Owned(@)]
  <2> DEFINE n == Owned(bind[b])
  <2>1. bind' = [bind EXCEPT ![b] = n]
    BY <1>6
  <2>2. /\ n \in Bindings /\ n.state = bind[b].state /\ n.fin /\ n.policy = bind[b].policy
        /\ n.target = bind[b].target /\ n.bound = bind[b].bound
    BY <1>2, <1>6 DEF Bindings, Owned
  <2> HIDE DEF n
  <2>3. n # None
    BY <2>2, NoneAssumption
  <2>4. SUFFICES ASSUME bind'[b] = n, op'[b] = op[b]
                 PROVE  /\ BindingOK(b)'
                        /\ \A s : Holds(b, s)' => Holds(b, s)
                        /\ \A s : WillRemove(b, s) => WillRemove(b, s)'
    BY <1>1, <1>3, <1>4, <2>1, <2>2, QuietStep
  <2>5. BindingOK(b)'
    BY <1>1, <1>2, <1>3, <2>2, <2>3, <2>4 DEF BindingOK, Finalized, Stated, Doing
  <2>6. QED
    BY <1>1, <1>2, <1>3, <2>2, <2>3, <2>4, <2>5 DEF Holds, WillRemove, Working, At
<1>7. QED
  BY <1>5, <1>6 DEF MarkBinding

(* What a step takes from the last that would remove it is not waited for. *)
LEMMA Losing ==
  ASSUME Inv, NEW b \in Binding, Lose(b)
  PROVE  /\ tie' \in [Storage -> SUBSET {"shared", "left", "kept", "lost"}]
         /\ \A s \in Storage : tie[s] \subseteq tie'[s]
         /\ \A s \in bucket \ jobs : WillRemove(b, s) =>
               \/ tie'[s] \intersect {"kept", "lost"} # {}
               \/ \E c \in Binding : WillRemove(c, s)'
<1>1. /\ tie \in [Storage -> SUBSET {"shared", "left", "kept", "lost"}]
      /\ bucket \subseteq Storage
  BY DEF Inv, TypeOK
<1>2. /\ tie' \in [Storage -> SUBSET {"shared", "left", "kept", "lost"}]
      /\ \A s \in Storage : tie[s] \subseteq tie'[s]
  BY <1>1 DEF Lose
<1>3. ASSUME NEW s \in bucket \ jobs, WillRemove(b, s), \A c \in Binding : ~WillRemove(c, s)'
      PROVE  "lost" \in tie'[s]
  BY <1>1, <1>3 DEF Lose
<1>4. QED
  BY <1>2, <1>3

LEMMA LoadBindingStep ==
  ASSUME Inv, NEW b \in Binding, LoadBinding(b)
  PROVE  Inv'
<1>1. /\ UNCHANGED <<model, claim, bind, store, bucket, jobs, spent>>
      /\ bind[b] # None /\ op[b] = Idle /\ op[b].pc = "idle" /\ bind[b].fin
  BY IdleKinds DEF LoadBinding, Starts
<1>2. /\ bind[b] \in Bindings /\ Finalized(b) /\ Stated(b) /\ Doing(b)
      /\ bind[b].target \in Storage /\ bind[b].bound \in Storage \union {None}
      /\ bind[b].target # None
      /\ bind' = [bind EXCEPT ![b] = bind[b]] /\ spent' \in 0 .. Limit
  BY <1>1, ABinding, SameBinding, DashModelAssumption DEF Inv, TypeOK
<1>3. /\ tie \in [Storage -> SUBSET {"shared", "left", "kept", "lost"}]
      /\ bucket \ jobs \subseteq Storage /\ \A s \in bucket \ jobs : s # None
  BY DashModelAssumption DEF Inv, TypeOK
<1> DEFINE W(pc, target, to) == [pc |-> pc, target |-> target, to |-> to]
           Step(r) == /\ op' = [op EXCEPT ![b] = r]
                      /\ r \in BindingOp
                      /\ op'[b] = r => BindingOK(b)'
                      /\ r.pc # "ready"
                      /\ op'[b] = r => \A s \in bucket \ jobs : WillRemove(b, s) =>
                           \/ tie'[s] \intersect {"kept", "lost"} # {}
                           \/ \E c \in Binding : WillRemove(c, s)'
                      /\ tie' \in [Storage -> SUBSET {"shared", "left", "kept", "lost"}]
                      /\ \A s \in Storage : tie[s] \subseteq tie'[s]
<1>4. ASSUME bind[b].state = "Pending", Work(b, "bind", bind[b].target, bind[b].target), UNCHANGED tie
      PROVE  \E r : Step(r)
  <2> DEFINE r == W("bind", bind[b].target, bind[b].target)
  <2>1. op' = [op EXCEPT ![b] = r] /\ r \in BindingOp
    BY <1>2, <1>4 DEF Work, BindingOp
  <2>2. r.pc = "bind" /\ r.target = bind[b].target /\ r.to = bind[b].target
    OBVIOUS
  <2> HIDE DEF r
  <2>3. ASSUME op'[b] = r PROVE BindingOK(b)'
    BY <1>1, <1>2, <1>4, <2>2, <2>3 DEF BindingOK, Finalized, Stated, Doing
  <2>4. ASSUME op'[b] = r, NEW s \in bucket \ jobs, WillRemove(b, s) PROVE WillRemove(b, s)'
    <3>1. s = bind[b].target
      BY <1>1, <1>2, <1>3, <1>4, <2>4 DEF WillRemove, Working, At, Stated
    <3>2. QED
      BY <1>1, <2>2, <2>4, <3>1 DEF WillRemove, Working, At
  <2>5. QED
    BY <1>3, <1>4, <2>1, <2>2, <2>3, <2>4
<1>5. ASSUME bind[b].state = "Ready", bind[b].target # bind[b].bound,
             Work(b, "unbind", bind[b].bound, bind[b].target), UNCHANGED tie
      PROVE  \E r : Step(r)
  <2> DEFINE r == W("unbind", bind[b].bound, bind[b].target)
  <2>1. op' = [op EXCEPT ![b] = r] /\ r \in BindingOp
    BY <1>1, <1>2, <1>5 DEF Work, BindingOp, Stated
  <2>2. r.pc = "unbind" /\ r.target = bind[b].bound /\ r.to = bind[b].target
    OBVIOUS
  <2> HIDE DEF r
  <2>3. ASSUME op'[b] = r PROVE BindingOK(b)'
    BY <1>1, <1>2, <1>5, <2>2, <2>3 DEF BindingOK, Finalized, Stated, Doing
  <2>4. ASSUME op'[b] = r, NEW s \in bucket \ jobs, WillRemove(b, s) PROVE WillRemove(b, s)'
    BY <1>1, <2>2, <2>4 DEF WillRemove, Working, At
  <2>5. QED
    BY <1>3, <1>5, <2>1, <2>2, <2>3, <2>4
<1>6. ASSUME bind[b].state = "Deleting", Work(b, "unbind", bind[b].target, None),
             IF Overtaken(b) THEN Lose(b) ELSE UNCHANGED tie
      PROVE  \E r : Step(r)
  <2> DEFINE r == W("unbind", bind[b].target, None)
  <2>1. op' = [op EXCEPT ![b] = r] /\ r \in BindingOp
    BY <1>2, <1>6 DEF Work, BindingOp
  <2>2. r.pc = "unbind" /\ r.target = bind[b].target /\ r.to = None
    OBVIOUS
  <2> HIDE DEF r
  <2>3. ASSUME op'[b] = r PROVE BindingOK(b)'
    BY <1>1, <1>2, <1>6, <2>2, <2>3 DEF BindingOK, Finalized, Stated, Doing
  <2>4. ASSUME ~Overtaken(b), op'[b] = r, NEW s \in bucket \ jobs, WillRemove(b, s)
        PROVE  WillRemove(b, s)'
    <3>1. s = bind[b].target
      BY <1>1, <1>3, <2>4 DEF WillRemove, Working, At, Overtaken
    <3>2. QED
      BY <1>1, <2>2, <2>4, <3>1 DEF WillRemove, Working
  <2>5. CASE Overtaken(b)
    <3>1. Lose(b)
      BY <1>6, <2>5
    <3>2. QED
      BY <2>1, <2>2, <2>3, <3>1, Losing
  <2>6. CASE ~Overtaken(b)
    <3>1. UNCHANGED tie
      BY <1>6, <2>6
    <3>2. QED
      BY <1>3, <2>1, <2>2, <2>3, <2>4, <2>6, <3>1
  <2>7. QED
    BY <2>5, <2>6
<1>7. ASSUME bind[b].state = "Deleting", Go(b, "finalize"), Lose(b)
      PROVE  \E r : Step(r)
  <2> DEFINE r == [pc |-> "finalize"]
  <2>1. op' = [op EXCEPT ![b] = r] /\ r \in BindingOp
    BY <1>7 DEF Go, BindingOp
  <2>2. r.pc = "finalize"
    OBVIOUS
  <2> HIDE DEF r
  <2>3. ASSUME op'[b] = r PROVE BindingOK(b)'
    BY <1>1, <1>2, <1>7, <2>2, <2>3 DEF BindingOK, Finalized, Stated, Doing
  <2>4. QED
    BY <1>7, <2>1, <2>2, <2>3, Losing
<1>8. PICK r : Step(r)
  BY <1>4, <1>5, <1>6, <1>7 DEF LoadBinding
<1>9. ASSUME op'[b] = r, NEW s \in Storage, Holds(b, s)' PROVE Holds(b, s)
  BY <1>1, <1>8, <1>9 DEF Holds
<1>10. QED
  BY <1>1, <1>2, <1>8, <1>9, QuietStep

LEMMA BoundStep ==
  ASSUME Inv, NEW b \in Binding, Bound(b)
  PROVE  Inv'
<1> DEFINE s == op[b].target
           n == [bind[b] EXCEPT !.state = "Ready", !.bound = s]
<1>1. /\ UNCHANGED <<model, claim, store, bucket, jobs, tie, spent>>
      /\ op[b].pc = "ready" /\ op' = [op EXCEPT ![b] = Idle] /\ Idle \in BindingOp
      /\ bind' = [bind EXCEPT ![b].state = "Ready", ![b].bound = s]
      /\ bind[b] # None
  BY IdleKinds, ABinding DEF Bound, At, Stop, Inv, BindingOK, Finalized
<1>2. /\ bind[b] \in Bindings /\ Finalized(b) /\ Stated(b) /\ Doing(b)
      /\ s \in Storage /\ s = op[b].to
      /\ tie' \in [Storage -> SUBSET {"shared", "left", "kept", "lost"}] /\ spent' \in 0 .. Limit
  BY <1>1, ABinding, AtBinding DEF Inv, TypeOK, Doing
<1>3. bind' = [bind EXCEPT ![b] = n]
  BY <1>1
<1>4. /\ n \in Bindings /\ n.state = "Ready" /\ n.bound = s /\ n.target = bind[b].target
      /\ n.fin = bind[b].fin /\ n.del = bind[b].del /\ n.policy = bind[b].policy
  BY <1>2 DEF Bindings, State
<1> HIDE DEF n
<1>5. n # None /\ s # None
  BY <1>2, <1>4, NoneAssumption, DashModelAssumption
<1>6. SUFFICES ASSUME bind'[b] = n, op'[b] = Idle
               PROVE  /\ BindingOK(b)'
                      /\ \A t : Holds(b, t)' => Holds(b, t)
                      /\ \A t : WillRemove(b, t) => WillRemove(b, t)'
  BY <1>1, <1>2, <1>3, <1>4, QuietStep
<1>7. op'[b].pc = "idle"
  BY <1>6, IdleKinds
<1>8. BindingOK(b)'
  BY <1>1, <1>2, <1>4, <1>5, <1>6, <1>7 DEF BindingOK, Finalized, Stated, Doing
<1>9. \A t : Holds(b, t)' => Holds(b, t)
  BY <1>1, <1>4, <1>6, <1>7 DEF Holds
<1>10. \A t : WillRemove(b, t) => WillRemove(b, t)'
  BY <1>1, <1>2, <1>4, <1>5, <1>6, <1>7 DEF WillRemove, Working, At
<1>11. QED
  BY <1>8, <1>9, <1>10

LEMMA FinalizeBindingStep ==
  ASSUME Inv, NEW b \in Binding, FinalizeBinding(b)
  PROVE  Inv'
<1>1. /\ UNCHANGED <<model, claim, store, bucket, jobs, tie, spent>>
      /\ op[b].pc = "finalize" /\ op' = [op EXCEPT ![b] = Idle] /\ Idle \in BindingOp
      /\ bind' = [bind EXCEPT ![b] = None]
  BY IdleKinds DEF FinalizeBinding, At, Stop
<1>2. tie' \in [Storage -> SUBSET {"shared", "left", "kept", "lost"}] /\ spent' \in 0 .. Limit
  BY <1>1 DEF Inv, TypeOK
<1>3. SUFFICES ASSUME bind'[b] = None, op'[b] = Idle
               PROVE  /\ BindingOK(b)'
                      /\ \A t : Holds(b, t)' => Holds(b, t)
                      /\ \A t : WillRemove(b, t) => WillRemove(b, t)'
  BY <1>1, <1>2, QuietStep
<1>4. op'[b].pc = "idle"
  BY <1>3, IdleKinds
<1>5. BindingOK(b)'
  BY <1>3, <1>4 DEF BindingOK, Finalized, Stated, Doing
<1>6. QED
  BY <1>1, <1>3, <1>5 DEF Holds, WillRemove, Working, At

(* A step of b at a bucket: the other bindings of the bucket are told. *)
LEMMA BucketStep ==
  ASSUME Inv, UNCHANGED <<model, claim, bind, store, spent>>,
         NEW b \in Binding, NEW r \in BindingOp, op' = [op EXCEPT ![b] = r],
         bucket' \subseteq Storage, jobs' \subseteq Storage,
         tie' \in [Storage -> SUBSET {"shared", "left", "kept", "lost"}],
         \A s \in Storage : tie[s] \intersect {"kept", "lost"} \subseteq tie'[s],
         op'[b] = r => BindingOK(b)',
         \A c \in Binding \ {b}, s \in Storage :
              Refers(c, s) /\ tie'[s] \intersect {"shared", "left"} = {} =>
                 /\ tie[s] \intersect {"shared", "left"} = {}
                 /\ s \in bucket \ jobs => s \in bucket' \ jobs',
         op'[b] = r => \A s \in Storage :
              Holds(b, s)' /\ tie'[s] \intersect {"shared", "left"} = {} => s \in bucket' \ jobs',
         op'[b] = r => \A s \in bucket' \ jobs' :
              \/ tie'[s] \intersect {"kept", "lost"} # {} \/ WillRemove(b, s)'
              \/ s \in bucket \ jobs /\ ~WillRemove(b, s)
  PROVE  Inv'
<1>1. /\ Ops' /\ op'[b] = r /\ op'["claim"] = op["claim"]
      /\ \A c \in Binding \ {b} : op'[c] = op[c]
  <2>1. b \in Object /\ b \notin Storage \union {"model", "claim"} /\ Ops
    BY Names DEF Inv
  <2>2. Ops' /\ op'[b] = r /\ \A p \in Object \ {b} : op'[p] = op[p]
    BY <2>1, OpStep
  <2>3. QED
    BY <2>1, <2>2, Names
<1>2. TypeOK' /\ ClaimOK'
  BY <1>1, ClaimFrame DEF Inv, TypeOK, Ops
<1>3. ASSUME NEW c \in Binding \ {b}
      PROVE  BindingOK(c)' /\ \A s \in Storage : /\ Holds(c, s)' => Holds(c, s)
                                                 /\ WillRemove(c, s) => WillRemove(c, s)'
  BY <1>1, BindingFrame
<1>4. \A c \in Binding : BindingOK(c)'
  BY <1>1, <1>3
<1>5. Has'
  <2>1. SUFFICES ASSUME NEW c \in Binding, NEW s \in Storage, Holds(c, s)',
                        tie'[s] \intersect {"shared", "left"} = {}
                 PROVE  s \in bucket' \ jobs'
    BY DEF Has
  <2>2. CASE c = b
    BY <1>1, <2>1, <2>2
  <2>3. CASE c # b
    <3>1. Holds(c, s)
      BY <1>3, <2>1, <2>3
    <3>2. Refers(c, s)
      BY <3>1, HoldsRefers
    <3>3. s \in bucket \ jobs
      BY <2>1, <2>3, <3>1, <3>2 DEF Inv, Has
    <3>4. QED
      BY <2>1, <2>3, <3>2, <3>3
  <2>4. QED
    BY <2>2, <2>3
<1>6. Accounted'
  <2>1. SUFFICES ASSUME NEW s \in bucket' \ jobs'
                 PROVE  tie'[s] \intersect {"kept", "lost"} # {}
                        \/ \E c \in Binding : WillRemove(c, s)'
    BY DEF Accounted
  <2>2. s \in Storage
    OBVIOUS
  <2>3. CASE s \in bucket \ jobs /\ ~WillRemove(b, s)
    <3>1. tie[s] \intersect {"kept", "lost"} # {} \/ \E c \in Binding : WillRemove(c, s)
      BY <2>3 DEF Inv, Accounted
    <3>2. CASE tie[s] \intersect {"kept", "lost"} # {}
      BY <2>2, <3>2
    <3>3. ASSUME NEW c \in Binding, WillRemove(c, s) PROVE WillRemove(c, s)'
      BY <1>3, <2>2, <2>3, <3>3
    <3>4. QED
      BY <3>1, <3>2, <3>3
  <2>4. QED
    BY <1>1, <2>1, <2>3
<1>7. QED
  BY <1>1, <1>2, <1>4, <1>5, <1>6 DEF Inv

LEMMA UnbindStep ==
  ASSUME Inv, NEW b \in Binding, Unbind(b)
  PROVE  Inv'
<1> DEFINE t == op[b].target
<1>1. /\ UNCHANGED <<model, claim, bind, store, bucket, spent>> /\ op[b].pc = "unbind"
      /\ jobs' = jobs \union Removed(b, t)
      /\ tie' = [tie EXCEPT ![t] = @ \union (IF Shared(b, t) THEN {"shared"} ELSE {})
                                     \union (IF op[b].to # None THEN {"left"} ELSE {})]
      /\ bind[b] # None /\ t \in Storage /\ op[b].to \in Storage \union {None}
  BY AtBinding DEF Unbind, At, Inv, BindingOK, Finalized
<1>2. /\ bind[b] \in Bindings /\ Finalized(b) /\ Stated(b) /\ Doing(b)
      /\ bind[b].target \in Storage
      /\ bucket \subseteq Storage /\ jobs \subseteq Storage
      /\ tie \in [Storage -> SUBSET {"shared", "left", "kept", "lost"}]
  BY <1>1, ABinding DEF Inv, TypeOK
<1>3. /\ bucket' \subseteq Storage /\ jobs' \subseteq Storage
      /\ \A s \in bucket \ jobs : s \notin jobs' \/ s = t
      /\ bind[b].policy = "Delete" => \A s \in bucket' \ jobs' : s # t
  BY <1>1, <1>2 DEF Removed
<1>4. /\ tie' \in [Storage -> SUBSET {"shared", "left", "kept", "lost"}]
      /\ \A s \in Storage : tie[s] \subseteq tie'[s]
      /\ Shared(b, t) => "shared" \in tie'[t]
      /\ op[b].to # None => "left" \in tie'[t]
  BY <1>1, <1>2
<1>5. ASSUME NEW c \in Binding \ {b}, NEW s \in Storage,
             Refers(c, s), tie'[s] \intersect {"shared", "left"} = {}
      PROVE  /\ tie[s] \intersect {"shared", "left"} = {}
             /\ s \in bucket \ jobs => s \in bucket' \ jobs'
  <2>1. s # t
    BY <1>4, <1>5 DEF Shared
  <2>2. QED
    BY <1>1, <1>3, <1>4, <1>5, <2>1
<1>6. CASE op[b].to # None
  <2> DEFINE r == [pc |-> "bind", target |-> op[b].to, to |-> op[b].to]
  <2>1. op' = [op EXCEPT ![b] = r] /\ r \in BindingOp
    BY <1>1, <1>2, <1>6 DEF Unbind, Work, BindingOp
  <2>2. r.pc = "bind" /\ r.target = op[b].to /\ r.to = op[b].to
    OBVIOUS
  <2> HIDE DEF r
  <2>3. bind[b].state = "Ready" /\ t = bind[b].bound
    BY <1>1, <1>2, <1>6 DEF Doing
  <2>4. ASSUME op'[b] = r PROVE BindingOK(b)'
    BY <1>1, <1>2, <2>2, <2>3, <2>4 DEF BindingOK, Finalized, Stated, Doing
  <2>5. ASSUME op'[b] = r, NEW s \in Storage, Holds(b, s)' PROVE "left" \in tie'[s]
    <3>1. s = t
      BY <1>1, <2>2, <2>3, <2>5 DEF Holds
    <3>2. QED
      BY <1>4, <1>6, <3>1
  <2>6. ASSUME op'[b] = r, NEW s \in bucket' \ jobs', WillRemove(b, s) PROVE WillRemove(b, s)'
    <3>1. s \in {op[b].to, bind[b].target}
      BY <1>1, <1>3, <2>6 DEF WillRemove, Working, At
    <3>2. QED
      BY <1>1, <1>6, <2>2, <2>6, <3>1 DEF WillRemove, Working
  <2>7. \A s \in bucket' \ jobs' : s \in bucket \ jobs
    BY <1>1
  <2>8. \A s \in Storage : tie[s] \intersect {"kept", "lost"} \subseteq tie'[s]
    BY <1>4
  <2>9. op'[b] = r => \A s \in Storage :
              Holds(b, s)' /\ tie'[s] \intersect {"shared", "left"} = {} => s \in bucket' \ jobs'
    BY <2>5
  <2> HIDE DEF t
  <2>10. QED
    BY <1>1, <1>3, <1>4, <1>5, <2>1, <2>4, <2>6, <2>7, <2>8, <2>9, BucketStep
<1>7. CASE op[b].to = None
  <2> DEFINE r == [pc |-> "finalize"]
  <2>1. op' = [op EXCEPT ![b] = r] /\ r \in BindingOp
    BY <1>7 DEF Unbind, Go, BindingOp
  <2>2. r.pc = "finalize"
    OBVIOUS
  <2> HIDE DEF r
  <2>3. bind[b].state = "Deleting"
    BY <1>1, <1>2, <1>7 DEF Doing
  <2>4. ASSUME op'[b] = r PROVE BindingOK(b)'
    BY <1>1, <1>2, <2>2, <2>3, <2>4 DEF BindingOK, Finalized, Stated, Doing
  <2>5. ASSUME op'[b] = r, NEW s \in Storage PROVE ~Holds(b, s)'
    BY <1>1, <2>2, <2>3, <2>5 DEF Holds
  <2>6. ASSUME NEW s \in bucket' \ jobs' PROVE ~WillRemove(b, s)
    <3>1. s # None
      BY <1>3, DashModelAssumption
    <3>2. QED
      BY <1>1, <1>3, <1>7, <3>1 DEF WillRemove, Working, At
  <2>7. \A s \in bucket' \ jobs' : s \in bucket \ jobs
    BY <1>1
  <2>8. \A s \in Storage : tie[s] \intersect {"kept", "lost"} \subseteq tie'[s]
    BY <1>4
  <2> HIDE DEF t
  <2>9. QED
    BY <1>1, <1>3, <1>4, <1>5, <2>1, <2>4, <2>5, <2>6, <2>7, <2>8, BucketStep
<1>8. QED
  BY <1>6, <1>7

LEMMA BindStep ==
  ASSUME Inv, NEW b \in Binding, Bind(b)
  PROVE  Inv'
<1> DEFINE t == op[b].target
           r == [pc |-> "ready", target |-> t, to |-> t]
<1>1. /\ UNCHANGED <<model, claim, bind, store, jobs, spent>> /\ op[b].pc = "bind"
      /\ bucket' = bucket \union {t}
      /\ tie' = [tie EXCEPT ![t] = (IF Shared(b, t) THEN @ \union {"shared"} ELSE @ \ {"left"})
                                   \union (IF bind[b].policy = "Retain" THEN {"kept"} ELSE {})]
      /\ op' = [op EXCEPT ![b] = r]
      /\ bind[b] # None /\ t \in Storage
  BY AtBinding DEF Bind, At, Work, Inv, BindingOK, Finalized
<1>2. /\ bind[b] \in Bindings /\ Finalized(b) /\ Stated(b) /\ Doing(b)
      /\ bind[b].policy \in Policy
      /\ bucket \subseteq Storage /\ jobs \subseteq Storage
      /\ tie \in [Storage -> SUBSET {"shared", "left", "kept", "lost"}]
  BY <1>1, ABinding DEF Inv, TypeOK
<1>3. r \in BindingOp /\ r.pc = "ready" /\ r.target = t /\ r.to = t
  BY <1>1 DEF BindingOp
<1> HIDE DEF r
<1>4. /\ tie' \in [Storage -> SUBSET {"shared", "left", "kept", "lost"}]
      /\ \A s \in Storage : tie[s] \intersect {"kept", "lost"} \subseteq tie'[s]
      /\ \A s \in Storage : s # t => tie'[s] = tie[s]
      /\ Shared(b, t) => "shared" \in tie'[t]
      /\ bind[b].policy = "Retain" => "kept" \in tie'[t]
  BY <1>1, <1>2
<1>5. /\ t = op[b].to /\ bind[b].state \in {"Pending", "Ready"} /\ bind[b].fin /\ t # None
  BY <1>1, <1>2, DashModelAssumption DEF Doing, Finalized
<1>6. ASSUME op'[b] = r PROVE BindingOK(b)'
  BY <1>1, <1>2, <1>3, <1>5, <1>6 DEF BindingOK, Finalized, Stated, Doing
<1>7. ASSUME op'[b] = r, NEW s \in Storage, Holds(b, s)', tie'[s] \intersect {"shared", "left"} = {}
      PROVE  s \in bucket' \ jobs'
  <2>1. CASE s = t
    <3>1. s \notin jobs
      BY <1>4, <1>7, <2>1 DEF Shared
    <3>2. QED
      BY <1>1, <2>1, <3>1
  <2>2. CASE s # t
    <3>1. Holds(b, s)
      BY <1>1, <1>3, <1>7, <2>2 DEF Holds
    <3>2. s \in bucket \ jobs
      BY <1>4, <1>7, <2>2, <3>1 DEF Inv, Has
    <3>3. QED
      BY <1>1, <3>2
  <2>3. QED
    BY <2>1, <2>2
<1>8. ASSUME op'[b] = r, NEW s \in bucket' \ jobs'
      PROVE  \/ tie'[s] \intersect {"kept", "lost"} # {} \/ WillRemove(b, s)'
             \/ s \in bucket \ jobs /\ ~WillRemove(b, s)
  <2>1. CASE s = t /\ bind[b].policy = "Retain"
    BY <1>4, <2>1
  <2>2. CASE s = t /\ bind[b].policy = "Delete"
    BY <1>1, <1>3, <1>5, <1>8, <2>2 DEF WillRemove, Working
  <2>3. CASE s # t
    <3>1. WillRemove(b, s) => WillRemove(b, s)'
      BY <1>1, <1>3, <1>5, <1>8, <2>3 DEF WillRemove, Working, At
    <3>2. QED
      BY <1>1, <1>8, <2>3, <3>1
  <2>4. QED
    BY <1>2, <2>1, <2>2, <2>3 DEF Policy
<1>9. ASSUME NEW c \in Binding \ {b}, NEW s \in Storage,
             Refers(c, s), tie'[s] \intersect {"shared", "left"} = {}
      PROVE  /\ tie[s] \intersect {"shared", "left"} = {}
             /\ s \in bucket \ jobs => s \in bucket' \ jobs'
  <2>1. s # t
    BY <1>4, <1>9 DEF Shared
  <2>2. QED
    BY <1>1, <1>4, <1>9, <2>1
<1>10. bucket' \subseteq Storage /\ jobs' \subseteq Storage
  BY <1>1, <1>2
<1>11. op'[b] = r => \A s \in Storage :
          Holds(b, s)' /\ tie'[s] \intersect {"shared", "left"} = {} => s \in bucket' \ jobs'
  BY <1>7
<1>12. op'[b] = r => \A s \in bucket' \ jobs' :
          \/ tie'[s] \intersect {"kept", "lost"} # {} \/ WillRemove(b, s)'
          \/ s \in bucket \ jobs /\ ~WillRemove(b, s)
  BY <1>8
<1> HIDE DEF t
<1>13. UNCHANGED <<model, claim, bind, store, spent>> /\ op' = [op EXCEPT ![b] = r]
  BY <1>1
<1>14. QED
  BY <1>3, <1>4, <1>6, <1>9, <1>10, <1>11, <1>12, <1>13, BucketStep

LEMMA BindingStep ==
  ASSUME Inv, NEW b \in Binding, BindingNext(b)
  PROVE  Inv'
BY MarkBindingStep, LoadBindingStep, UnbindStep, BindStep, BoundStep, FinalizeBindingStep
   DEF BindingNext

LEMMA ClaimStep ==
  ASSUME Inv, ClaimNext
  PROVE  Inv'
BY MarkClaimStep, ReconcileClaimStep, LoadOrCreateModelStep, OptimizeStep, CreateBindingStep,
   UpdateStatusStep, UpdateSpecStep, ReleaseStep, DeleteModelStep, FinalizeClaimStep
   DEF ClaimNext

-----------------------------------------------------------------------------
(* Users, and calls that fail *)

LEMMA NewClaimTypes ==
  ASSUME NEW r \in NewClaims
  PROVE  r \in Claims /\ r.del = FALSE /\ r.fin = FALSE
<1>1. PICK kind \in Claimable :
          r = [state |-> "Pending", del |-> FALSE, fin |-> FALSE, policy |-> kind.policy,
               replace |-> kind.replace, edited |-> FALSE, bound |-> None, spec |-> None]
  BY DEF NewClaims
<1>2. kind.policy \in Policy /\ kind.replace \in BOOLEAN
  BY DashModelAssumption DEF Policy
<1>3. QED
  BY <1>1, <1>2 DEF Claims, State

(* A user changes the model or the claim. *)
LEMMA UserStep ==
  ASSUME Inv, Disturb, UNCHANGED <<bind, bucket, jobs, op, tie>>,
         model' \in Objects \union {None}, claim' \in Claims \union {None},
         store' \in [Storage -> {"Ready", "Deleting", "gone"}], ClaimOK'
  PROVE  Inv'
<1>1. spent' \in 0 .. Limit
  BY DashModelAssumption DEF Disturb, Inv, TypeOK
<1>2. TypeOK' /\ Ops'
  BY <1>1 DEF Inv, TypeOK, Ops
<1>3. QED
  BY <1>2, Elsewhere DEF Inv

LEMMA UsersStep ==
  ASSUME Inv, UserClaims \/ UserEdits \/ UserReleases \/ AdminMakes \/ AdminDrops
  PROVE  Inv'
<1>1. /\ Disturb /\ UNCHANGED <<bind, bucket, jobs, op, tie>>
      /\ model \in Objects \union {None} /\ claim \in Claims \union {None} /\ ClaimOK
      /\ store \in [Storage -> {"Ready", "Deleting", "gone"}]
  BY DEF UserClaims, UserEdits, UserReleases, AdminMakes, AdminDrops, Inv, TypeOK
<1>2. CASE UserClaims
  <2>1. claim' \in Claims /\ claim'.del = FALSE /\ claim'.fin = FALSE
    BY <1>2, NewClaimTypes DEF UserClaims
  <2>2. op'["claim"].pc = "idle"
    BY <1>1, <1>2 DEF UserClaims, ClaimOK
  <2>3. ClaimOK' /\ UNCHANGED <<model, store>>
    BY <1>2, <2>1, <2>2 DEF UserClaims, ClaimOK
  <2>4. QED
    BY <1>1, <2>1, <2>3, UserStep
<1>3. CASE UserEdits
  <2>1. /\ claim \in Claims /\ UNCHANGED <<model, store>>
        /\ claim' = [claim EXCEPT !.edited = TRUE] /\ claim # None
    BY <1>1, <1>3 DEF UserEdits
  <2>2. claim' \in Claims /\ claim'.del = claim.del /\ claim'.fin = claim.fin
    BY <2>1 DEF Claims
  <2>3. ClaimOK'
    BY <1>1, <2>1, <2>2, NoneAssumption DEF ClaimOK
  <2>4. QED
    BY <1>1, <2>1, <2>2, <2>3, UserStep
<1>4. CASE UserReleases
  <2>1. claim \in Claims /\ UNCHANGED <<model, store>> /\ claim' = Deleted(claim) /\ claim # None
    BY <1>1, <1>4 DEF UserReleases
  <2>2. CASE claim.fin
    <3>1. claim' = [claim EXCEPT !.del = TRUE]
      BY <2>1, <2>2 DEF Deleted
    <3>2. claim' \in Claims /\ claim'.fin
      BY <2>1, <2>2, <3>1 DEF Claims
    <3>3. ClaimOK'
      BY <3>2, NoneAssumption DEF ClaimOK
    <3>4. QED
      BY <1>1, <2>1, <3>2, <3>3, UserStep
  <2>3. CASE ~claim.fin
    <3>1. claim' = None /\ op'["claim"].pc = "idle"
      BY <1>1, <2>1, <2>3 DEF Deleted, ClaimOK
    <3>2. ClaimOK'
      BY <3>1 DEF ClaimOK
    <3>3. QED
      BY <1>1, <2>1, <3>1, <3>2, UserStep
  <2>4. QED
    BY <2>2, <2>3
<1>5. CASE AdminMakes
  <2>1. model' \in Objects /\ UNCHANGED <<claim, store>>
    BY <1>5 DEF AdminMakes, New, Objects, State
  <2>2. ClaimOK'
    BY <1>1, <2>1 DEF ClaimOK
  <2>3. QED
    BY <1>1, <2>1, <2>2, UserStep
<1>6. CASE AdminDrops
  <2>1. /\ UNCHANGED claim /\ model' \in Objects \union {None}
        /\ store' \in [Storage -> {"Ready", "Deleting", "gone"}]
    BY <1>1, <1>6, DeletedModel DEF AdminDrops
  <2>2. ClaimOK'
    BY <1>1, <2>1 DEF ClaimOK
  <2>3. QED
    BY <1>1, <2>1, <2>2, UserStep
<1>7. QED
  BY <1>2, <1>3, <1>4, <1>5, <1>6

LEMMA AdminBindsStep ==
  ASSUME Inv, NEW b \in Admin, AdminBinds(b)
  PROVE  Inv'
<1>1. /\ Disturb /\ UNCHANGED <<model, claim, store, bucket, jobs, op, tie>>
      /\ b \in Binding /\ bind[b] = None /\ Target[b] \in Storage /\ "Delete" \in Policy
      /\ bind' = [bind EXCEPT ![b] = NewBinding(Target[b], "Delete")]
  BY DashModelAssumption DEF AdminBinds, Binding, Policy
<1>2. /\ bind' \in [Binding -> Bindings \union {None}]
      /\ Has' /\ Accounted' /\ \A c \in Binding : BindingOK(c)'
  BY <1>1, MadeBinding
<1>3. spent' \in 0 .. Limit
  BY <1>1, DashModelAssumption DEF Disturb, Inv, TypeOK
<1>4. TypeOK' /\ Ops' /\ ClaimOK'
  BY <1>1, <1>2, <1>3, ClaimFrame DEF Inv, TypeOK, Ops
<1>5. QED
  BY <1>2, <1>4 DEF Inv

LEMMA AdminEditsStep ==
  ASSUME Inv, NEW b \in Binding, NEW s \in Storage, AdminEdits(b, s)
  PROVE  Inv'
<1> DEFINE n == [bind[b] EXCEPT !.target = s]
<1>1. /\ Disturb /\ UNCHANGED <<model, claim, store, bucket, jobs, op>>
      /\ bind[b] # None /\ Lose(b)
      /\ bind' = [bind EXCEPT ![b].target = s]
  BY DEF AdminEdits
<1>2. /\ bind[b] \in Bindings /\ Finalized(b) /\ Stated(b) /\ Doing(b)
      /\ spent' \in 0 .. Limit
  BY <1>1, ABinding, DashModelAssumption DEF Disturb, Inv, TypeOK
<1>3. op' = [op EXCEPT ![b] = op[b]] /\ op[b] \in BindingOp /\ bind' = [bind EXCEPT ![b] = n]
  BY <1>1, SameOp
<1>4. /\ n \in Bindings /\ n.state = bind[b].state /\ n.bound = bind[b].bound
      /\ n.fin = bind[b].fin /\ n.del = bind[b].del
  BY <1>1, <1>2 DEF Bindings
<1> HIDE DEF n
<1>5. n # None
  BY <1>4, NoneAssumption
<1>6. ASSUME bind'[b] = n, op'[b] = op[b]
      PROVE  BindingOK(b)' /\ \A t : Holds(b, t)' => Holds(b, t)
  <2>1. BindingOK(b)'
    BY <1>1, <1>2, <1>4, <1>5, <1>6 DEF BindingOK, Finalized, Stated, Doing
  <2>2. QED
    BY <1>1, <1>4, <1>6, <2>1 DEF Holds
<1>7. /\ tie' \in [Storage -> SUBSET {"shared", "left", "kept", "lost"}]
      /\ \A t \in Storage : tie[t] \subseteq tie'[t]
      /\ \A t \in bucket \ jobs : WillRemove(b, t) =>
            \/ tie'[t] \intersect {"kept", "lost"} # {}
            \/ \E c \in Binding : WillRemove(c, t)'
  BY <1>1, Losing
<1>8. n \in Bindings \union {None} /\ UNCHANGED <<model, claim, store, bucket, jobs>>
  BY <1>1, <1>4
<1>9. QED
  BY <1>2, <1>3, <1>6, <1>7, <1>8, QuietStep

LEMMA AdminUnbindsStep ==
  ASSUME Inv, NEW b \in Binding, AdminUnbinds(b)
  PROVE  Inv'
<1> DEFINE n == Deleted(bind[b])
<1>1. /\ Disturb /\ UNCHANGED <<model, claim, store, bucket, jobs, op, tie>>
      /\ bind[b] # None /\ bind' = [bind EXCEPT ![b] = n]
  BY DEF AdminUnbinds
<1>2. /\ tie' \in [Storage -> SUBSET {"shared", "left", "kept", "lost"}] /\ spent' \in 0 .. Limit
  BY <1>1, DashModelAssumption DEF Disturb, Inv, TypeOK
<1>3. op' = [op EXCEPT ![b] = op[b]] /\ op[b] \in BindingOp /\ op'[b] = op[b]
  BY <1>1, SameOp
<1>4. bind'[b] = n
  BY <1>1 DEF Inv, TypeOK
<1>5. /\ n \in Bindings \union {None} /\ BindingOK(b)'
      /\ \A s : Holds(b, s)' => Holds(b, s)
      /\ \A s : WillRemove(b, s) => WillRemove(b, s)'
  BY <1>1, <1>3, <1>4, DeletedBinding
<1> HIDE DEF n
<1>6. QED
  BY <1>1, <1>2, <1>3, <1>5, QuietStep

LEMMA FaultStep ==
  ASSUME Inv, NEW o \in Object, Fault(o)
  PROVE  Inv'
<1>1. /\ Disturb /\ UNCHANGED <<model, claim, bind, store, bucket, jobs>>
      /\ op' = [op EXCEPT ![o] = Idle] /\ spent' \in 0 .. Limit
      /\ IF o \in Binding THEN Lose(o) ELSE UNCHANGED tie
  BY DashModelAssumption DEF Fault, Stop, Disturb, Inv, TypeOK
<1>2. Ops' /\ op'[o] = Idle /\ \A p \in Object \ {o} : op'[p] = op[p]
  BY <1>1, OpStep, IdleKinds DEF Inv
<1>3. CASE o \in Binding
  <2>1. bind' = [bind EXCEPT ![o] = bind[o]] /\ bind[o] \in Bindings \union {None}
    BY <1>1, <1>3, SameBinding
  <2>2. Finalized(o) /\ Stated(o) /\ Doing(o) /\ bind'[o] = bind[o] /\ op'[o].pc = "idle"
    BY <1>1, <1>2, <1>3, IdleKinds DEF Inv, BindingOK
  <2>3. BindingOK(o)'
    BY <2>2 DEF BindingOK, Finalized, Stated, Doing
  <2>4. \A s : Holds(o, s)' => Holds(o, s)
    BY <2>2 DEF Holds
  <2>5. Idle \in BindingOp
    BY IdleKinds
  <2>6. Lose(o)
    BY <1>1, <1>3
  <2>7. /\ tie' \in [Storage -> SUBSET {"shared", "left", "kept", "lost"}]
        /\ \A t \in Storage : tie[t] \subseteq tie'[t]
        /\ \A t \in bucket \ jobs : WillRemove(o, t) =>
              \/ tie'[t] \intersect {"kept", "lost"} # {}
              \/ \E c \in Binding : WillRemove(c, t)'
    BY <1>3, <2>6, Losing
  <2>8. QED
    BY <1>1, <1>3, <2>1, <2>3, <2>4, <2>5, <2>7, QuietStep
<1>4. CASE o \notin Binding
  <2>1. \A b \in Binding : op'[b] = op[b]
    BY <1>2, <1>4, Names
  <2>2. ClaimOK'
    BY <1>1, <1>2, Names, IdleKinds DEF Inv, ClaimOK
  <2>3. TypeOK'
    BY <1>1, <1>2, <1>4 DEF Inv, TypeOK, Ops
  <2>4. QED
    BY <1>1, <1>2, <1>4, <2>1, <2>2, <2>3, Elsewhere DEF Inv
<1>5. QED
  BY <1>3, <1>4

-----------------------------------------------------------------------------
(* The invariant *)

LEMMA InitInv ==
  Init => Inv
<1> SUFFICES ASSUME Init PROVE Inv
  OBVIOUS
<1>1. \A o \in Object : op[o] = Idle
  BY DEF Init
<1>2. claim \in Claims \union {None}
  BY NewClaimTypes DEF Init
<1>3. claim # None => claim.del = FALSE
  BY NewClaimTypes DEF Init
<1>4. Ops
  <2>1. op \in [Object -> Op]
    BY IdleKinds, OpKinds DEF Init
  <2>2. QED
    BY <1>1, <2>1, Names, IdleKinds DEF Ops
<1>5. TypeOK
  BY <1>2, <1>4, DashModelAssumption DEF Init, TypeOK, Ops
<1>6. ClaimOK
  BY <1>1, <1>3, Names, IdleKinds DEF ClaimOK
<1>7. \A b \in Binding : bind[b] = None /\ op[b].pc = "idle"
  BY <1>1, Names, IdleKinds DEF Init
<1>8. \A b \in Binding : BindingOK(b)
  BY <1>7 DEF BindingOK, Finalized, Stated, Doing
<1>9. Has /\ Accounted
  BY <1>7 DEF Init, Has, Holds, Accounted
<1>10. QED
  BY <1>4, <1>5, <1>6, <1>8, <1>9 DEF Inv

LEMMA StutterInv ==
  ASSUME Inv, UNCHANGED vars
  PROVE  Inv'
<1>1. /\ UNCHANGED <<model, claim, bind, store, bucket, jobs, op, tie, spent>>
  BY DEF vars
<1>2. Has' /\ Accounted' /\ \A b \in Binding : BindingOK(b)'
  BY <1>1, Elsewhere
<1>3. TypeOK' /\ Ops' /\ ClaimOK'
  BY <1>1 DEF Inv, TypeOK, Ops, ClaimOK
<1>4. QED
  BY <1>2, <1>3 DEF Inv

LEMMA StepInv ==
  Inv /\ [Next]_vars => Inv'
<1>1. ASSUME Inv, Users PROVE Inv'
  BY <1>1, UsersStep, AdminBindsStep, AdminEditsStep, AdminUnbindsStep, FaultStep DEF Users
<1>2. ASSUME Inv, Next PROVE Inv'
  BY <1>1, <1>2, ModelStep, ClaimStep, StorageStep, JobRunsStep, BindingStep DEF Next
<1>3. QED
  BY <1>2, StutterInv

(* The inductive invariant: what each controller can be at, that a binding is
   finished by its own controller, and who will remove each bucket. *)
THEOREM Invariance == Spec => []Inv
BY InitInv, StepInv, PTL DEF Spec

(* A binding that is Ready has its bucket unless the bucket was shared, and no
   bucket that only policy Delete has used is left without somebody to remove it:
   unbind_model goes by the target, and delete_model_storage_binding_by_model and
   the finalizers leave each binding to its controller. *)
THEOREM ModelSafe == Spec => []Safe
<1>1. Inv => Safe
  <2>1. SUFFICES ASSUME Inv PROVE ReadyHasBucket /\ NoLeak
    BY DEF Inv, Safe
  <2>2. ASSUME NEW b \in Live, bind[b].bound = bind[b].target,
               tie[bind[b].bound] \intersect {"shared", "left"} = {}
        PROVE  bind[b].bound \in bucket \ jobs
    <3>1. b \in Binding /\ bind[b] # None /\ bind[b].state = "Ready"
      BY DEF Live
    <3>2. Holds(b, bind[b].bound) /\ bind[b].bound \in Storage
      BY <2>1, <2>2, <3>1, ABinding DEF Holds
    <3>3. QED
      BY <2>1, <2>2, <3>1, <3>2 DEF Inv, Has
  <2>3. ReadyHasBucket
    BY <2>2 DEF ReadyHasBucket
  <2>4. ASSUME NEW s \in bucket \ jobs
        PROVE  tie[s] \intersect {"kept", "lost"} # {} \/ \E b \in Binding : Refers(b, s)
    BY <2>1 DEF Inv, Accounted, WillRemove, Refers, Working
  <2>5. QED
    BY <2>3, <2>4 DEF NoLeak
<1>2. QED
  BY <1>1, Invariance, PTL
=============================================================================
