----------------------------- MODULE DashModel -----------------------------
(***************************************************************************)
(* Where dash keeps the data of one model (crates/dash/operator): the      *)
(* model, the claim of the same name, the bindings of the model to         *)
(* storages, and the storages.  Each has a controller; a reconcile reads   *)
(* the object, calls the API server and the storage one request after the  *)
(* other, and decides on what it read.  The bucket of the model in a       *)
(* storage is named after the model, whoever binds it.                     *)
(***************************************************************************)
EXTENDS Naturals

CONSTANTS
    Storage,
    Own,      \* the binding a claim makes: it has the name of the model
    Admin,    \* the bindings an administrator makes
    Target,   \* Target[b]: the storage a binding of Admin is made for
    Leaving,  \* the storages that may be deleted
    Claimable, \* what claims ask for: [policy, replace], replace for allow_replacement
    None,
    Limit     \* how many disturbances there are: users' requests, failed calls

ASSUME DashModelAssumption ==
    /\ Own \notin Admin /\ Target \in [Admin -> Storage]
    /\ Claimable \subseteq [policy : {"Delete", "Retain"}, replace : BOOLEAN]
    /\ Leaving \subseteq Storage /\ None \notin Storage /\ Limit \in Nat
    /\ \A s \in Storage : s \notin {"model", "claim"}
    /\ \A b \in Admin \union {Own} : b \notin Storage \union {"model", "claim"}

VARIABLES
    model,   \* the model, or None
    claim,   \* the claim, or None
    bind,    \* bind[b]: the binding b, or None
    store,   \* store[s]: Ready, Deleting or gone
    bucket,  \* the storages that hold a bucket of the model
    jobs,    \* the storages where a Job is about to remove the bucket
    op,      \* op[o]: what the reconcile of o is about to call
    tie,     \* tie[s]: what has happened to the bucket in s
    spent

vars == <<model, claim, bind, store, bucket, jobs, op, tie, spent>>

Binding == Admin \union {Own}
Object == {"model", "claim"} \union Binding \union Storage

State == {"Pending", "Ready", "Deleting"}
New == [state |-> "Pending", del |-> FALSE, fin |-> FALSE]

Policy == {"Delete", "Retain"}
Claims == [state : State, del : BOOLEAN, fin : BOOLEAN, policy : Policy,
           replace : BOOLEAN, edited : BOOLEAN,
           bound : Storage \union {None}, spec : Storage \union {None}]
Bindings == [state : State, del : BOOLEAN, fin : BOOLEAN, policy : Policy,
             target : Storage, bound : Storage \union {None}]
NewClaims == {[state |-> "Pending", del |-> FALSE, fin |-> FALSE, policy |-> kind.policy,
               replace |-> kind.replace, edited |-> FALSE, bound |-> None, spec |-> None] :
              kind \in Claimable}
Objects == [state : State, del : BOOLEAN, fin : BOOLEAN]

ASSUME NoneAssumption == None \notin Objects \union Claims \union Bindings

Idle == [pc |-> "idle"]
At(o, pc) == op[o].pc = pc
Go(o, pc) == op' = [op EXCEPT ![o] = [pc |-> pc]]
Stop(o) == op' = [op EXCEPT ![o] = Idle]

Init ==
    /\ model = None
    /\ claim \in {None} \union NewClaims
    /\ bind = [b \in Binding |-> None]
    /\ store = [s \in Storage |-> "Ready"]
    /\ bucket = {} /\ jobs = {}
    /\ op = [o \in Object |-> Idle]
    /\ tie = [s \in Storage |-> {}]
    /\ spent = 0

Disturb == spent < Limit /\ spent' = spent + 1

-----------------------------------------------------------------------------
(* What every controller does first: an object being deleted is marked, one
   without the finalizer gets it.  A change of an object makes its controller look
   again, and an error does after FALLBACK. *)
Doomed(r) == r.del /\ r.state # "Deleting"
Unowned(r) == ~Doomed(r) /\ ~r.fin
Settled(r, state) == ~Doomed(r) /\ r.fin /\ r.state = state
Marked(r) == [r EXCEPT !.state = "Deleting"]
Owned(r) == [r EXCEPT !.fin = TRUE]

Starts(o, r) == op[o] = Idle /\ r # None

(* The API server: a delete waits for the finalizer. *)
Deleted(r) == IF r # None /\ r.fin THEN [r EXCEPT !.del = TRUE] ELSE None

(* load_model_storage_bindings sees the bindings that are Ready only. *)
Live == {b \in Binding : bind[b] # None /\ bind[b].state = "Ready"}

ModelReady == model # None /\ model.state = "Ready"
StorageReady(s) == store[s] = "Ready"

-----------------------------------------------------------------------------
(* The model. *)
MarkModel ==
    /\ Starts("model", model)
    /\ \/ Doomed(model) /\ model' = Marked(model)
       \/ Unowned(model) /\ model' = Owned(model)
       \/ Settled(model, "Pending") /\ model' = [model EXCEPT !.state = "Ready"]
    /\ UNCHANGED <<claim, bind, store, bucket, jobs, op, tie, spent>>

(* assert_empty_bindings *)
ModelUnbound ==
    /\ Starts("model", model) /\ Settled(model, "Deleting")
    /\ Live = {}
    /\ Go("model", "claim")
    /\ UNCHANGED <<model, claim, bind, store, bucket, jobs, tie, spent>>

(* Mutant: a claim being deleted holds its model too. *)
UnclaimedGone == claim = None

(* load_model_claim refuses a claim that is Pending. *)
Unclaimed == claim = None \/ claim.state = "Deleting"

(* assert_empty_claims *)
ModelUnclaimed ==
    /\ At("model", "claim")
    /\ IF Unclaimed THEN Go("model", "finalize") ELSE Stop("model")
    /\ UNCHANGED <<model, claim, bind, store, bucket, jobs, tie, spent>>

FinalizeModel ==
    /\ At("model", "finalize")
    /\ model' = None
    /\ Stop("model")
    /\ UNCHANGED <<claim, bind, store, bucket, jobs, tie, spent>>

-----------------------------------------------------------------------------
(* A storage, once it is Ready (DashStorage has how it becomes so):
   load_model_storage_bindings_by_storage. *)
StorageUnbound(s) ==
    /\ op[s] = Idle /\ store[s] = "Deleting"
    /\ \A b \in Live : bind[b].target # s
    /\ Go(s, "finalize")
    /\ UNCHANGED <<model, claim, bind, store, bucket, jobs, tie, spent>>

FinalizeStorage(s) ==
    /\ At(s, "finalize")
    /\ store' = [store EXCEPT ![s] = "gone"]
    /\ Stop(s)
    /\ UNCHANGED <<model, claim, bind, bucket, jobs, tie, spent>>

-----------------------------------------------------------------------------
(* A binding. *)
MarkBinding(b) ==
    /\ Starts(b, bind[b])
    /\ \/ Doomed(bind[b]) /\ bind' = [bind EXCEPT ![b] = Marked(@)]
       \/ Unowned(bind[b]) /\ bind' = [bind EXCEPT ![b] = Owned(@)]
    /\ UNCHANGED <<model, claim, store, bucket, jobs, op, tie, spent>>

(* load_context *)
Loaded(b) == ModelReady /\ StorageReady(bind[b].target)

(* What b goes on to: unbind at target, and then bind at to, or finish for None. *)
Work(b, pc, target, to) ==
    op' = [op EXCEPT ![b] = [pc |-> pc, target |-> target, to |-> to]]

Working(b) == op[b].pc \in {"unbind", "bind", "ready"}

(* b is at s, or says so, or is asked to be. *)
Refers(b, s) ==
    /\ bind[b] # None
    /\ \/ s \in {bind[b].target, bind[b].bound}
       \/ Working(b) /\ s \in {op[b].target, op[b].to}

(* Another binding, or a Job that has yet to run, is at the bucket too. *)
Shared(b, s) == s \in jobs \/ \E c \in Binding \ {b} : Refers(c, s)

(* Ghost: the controller of b comes to remove a bucket in s before b is gone, if
   nothing is edited any more. *)
WillRemove(b, s) ==
    /\ bind[b] # None /\ bind[b].fin /\ bind[b].policy = "Delete"
    /\ \/ At(b, "idle") /\ s \in {bind[b].target, bind[b].bound}
       \/ Working(b) /\ s \in {op[b].target, op[b].to}
       \/ Working(b) /\ op[b].to # None /\ s = bind[b].target

(* Ghost: the step takes from a bucket the last binding that would remove it. *)
Lose(b) ==
    tie' = [s \in Storage |->
              IF /\ s \in bucket \ jobs /\ WillRemove(b, s)
                 /\ \A c \in Binding : ~WillRemove(c, s)'
              THEN tie[s] \union {"lost"} ELSE tie[s]]

(* The deletion of b goes by the target in the spec: after an edit, b is still
   bound to the last one. *)
Overtaken(b) == bind[b].bound \notin {None, bind[b].target}

LoadBinding(b) ==
    /\ Starts(b, bind[b]) /\ ~Doomed(bind[b]) /\ bind[b].fin
    /\ UNCHANGED <<model, claim, bind, store, bucket, jobs, spent>>
    /\ LET r == bind[b] IN
       \/ /\ r.state = "Pending" /\ Loaded(b)
          /\ Work(b, "bind", r.target, r.target)
          /\ UNCHANGED tie
       \/ /\ r.state = "Ready" /\ Loaded(b) /\ r.target # r.bound
          /\ Work(b, "unbind", r.bound, r.target)
          /\ UNCHANGED tie
       \/ /\ r.state = "Deleting" /\ Loaded(b)
          /\ Work(b, "unbind", r.target, None)
          /\ IF Overtaken(b) THEN Lose(b) ELSE UNCHANGED tie
       \/ (* "failed to delete model storage binding gracefully" *)
          /\ r.state = "Deleting" /\ ~Loaded(b)
          /\ Go(b, "finalize")
          /\ Lose(b)

(* Mutant: only what the status says is bound is removed. *)
RemovedIfBound(b, s) ==
    IF bind[b].policy = "Delete" /\ bind[b].bound = s THEN bucket \intersect {s} ELSE {}

(* unbind_model: a Job will remove the bucket, if the policy says so. *)
Removed(b, s) == IF bind[b].policy = "Delete" THEN bucket \intersect {s} ELSE {}

Unbind(b) ==
    /\ At(b, "unbind")
    /\ jobs' = jobs \union Removed(b, op[b].target)
    /\ tie' = [tie EXCEPT ![op[b].target] = @
                 \union (IF Shared(b, op[b].target) THEN {"shared"} ELSE {})
                 \union (IF op[b].to # None THEN {"left"} ELSE {})]
    /\ IF op[b].to # None THEN Work(b, "bind", op[b].to, op[b].to) ELSE Go(b, "finalize")
    /\ UNCHANGED <<model, claim, bind, store, bucket, spent>>

(* bind_model: the bucket is made unless it is there. *)
Bind(b) ==
    /\ At(b, "bind")
    /\ LET s == op[b].target IN
       /\ bucket' = bucket \union {s}
       /\ tie' = [tie EXCEPT ![s] =
                    (IF Shared(b, s) THEN @ \union {"shared"} ELSE @ \ {"left"})
                    \union (IF bind[b].policy = "Retain" THEN {"kept"} ELSE {})]
       /\ Work(b, "ready", s, s)
    /\ UNCHANGED <<model, claim, bind, store, jobs, spent>>

(* update_state *)
Bound(b) ==
    /\ At(b, "ready")
    /\ bind' = [bind EXCEPT ![b].state = "Ready", ![b].bound = op[b].target]
    /\ Stop(b)
    /\ UNCHANGED <<model, claim, store, bucket, jobs, tie, spent>>

FinalizeBinding(b) ==
    /\ At(b, "finalize")
    /\ bind' = [bind EXCEPT ![b] = None]
    /\ Stop(b)
    /\ UNCHANGED <<model, claim, store, bucket, jobs, tie, spent>>

(* The Job made by get_or_create_bucket_job: mc rb --force. *)
JobRuns(s) ==
    /\ s \in jobs
    /\ jobs' = jobs \ {s}
    /\ bucket' = bucket \ {s}
    /\ tie' = IF \E b \in Binding : Refers(b, s) THEN tie ELSE [tie EXCEPT ![s] = {}]
    /\ UNCHANGED <<model, claim, bind, store, op, spent>>

-----------------------------------------------------------------------------
(* The claim. *)
ClaimGo(pc, bound) == op' = [op EXCEPT !["claim"] = [pc |-> pc, bound |-> bound]]

MarkClaim ==
    /\ Starts("claim", claim)
    /\ \/ (* update_fields writes the status and then the spec *)
          /\ Doomed(claim)
          /\ claim' = Marked(claim)
          /\ ClaimGo("spec", claim.bound)
       \/ Unowned(claim) /\ claim' = Owned(claim) /\ UNCHANGED op
    /\ UNCHANGED <<model, bind, store, bucket, jobs, tie, spent>>

(* is_changed.  An edited claim has other resources than its status. *)
IsChanged ==
    \/ claim.bound # None /\ claim.spec = None
    \/ claim.bound = None /\ claim.spec # None
    \/ /\ claim.bound # None /\ claim.spec # None
       /\ ~claim.edited /\ claim.bound = claim.spec

ReconcileClaim ==
    /\ Starts("claim", claim)
    /\ \/ Settled(claim, "Pending") /\ Go("claim", "model")
       \/ (* update; a replacement fails ("Unimplemented yet!") and is tried
             again later *)
          /\ Settled(claim, "Ready") /\ IsChanged /\ ~claim.replace
          /\ Go("claim", "unbind")
       \/ /\ Settled(claim, "Deleting")
          /\ \/ claim.policy = "Retain" /\ Go("claim", "finalize")
             \/ claim.policy = "Delete" /\ model = None /\ Go("claim", "finalize")
             \/ claim.policy = "Delete" /\ ModelReady /\ Go("claim", "release")
    /\ UNCHANGED <<model, claim, bind, store, bucket, jobs, tie, spent>>

(* Mutant: bindings that are there already are not looked at. *)
ListedNever == Go("claim", "pick")

(* A model that is bound already is left so. *)
Listed == IF Live # {} THEN ClaimGo("status", None) ELSE Go("claim", "pick")

(* load_model_or_create_as_dynamic *)
LoadOrCreateModel ==
    /\ At("claim", "model")
    /\ IF model = None
       THEN model' = New /\ Listed
       ELSE /\ IF ModelReady THEN Listed ELSE Stop("claim")
            /\ UNCHANGED model
    /\ UNCHANGED <<claim, bind, store, bucket, jobs, tie, spent>>

(* optimize_model_storage_binding: any storage that has been Ready, by what is
   free in it. *)
Candidates == {s \in Storage : store[s] # "gone"}

Optimize ==
    /\ At("claim", "pick")
    /\ \/ \E s \in Candidates : ClaimGo("create", s)
       \/ Candidates = {} /\ Stop("claim")
    /\ UNCHANGED <<model, claim, bind, store, bucket, jobs, tie, spent>>

NewBinding(s, policy) ==
    [state |-> "Pending", del |-> FALSE, fin |-> FALSE, policy |-> policy,
     target |-> s, bound |-> None]

(* create_model_storage_binding: AlreadyExists ends the reconcile. *)
CreateBinding ==
    /\ At("claim", "create")
    /\ IF bind[Own] = None
       THEN /\ bind' = [bind EXCEPT ![Own] = NewBinding(op["claim"].bound, claim.policy)]
            /\ ClaimGo("status", op["claim"].bound)
       ELSE Stop("claim") /\ UNCHANGED bind
    /\ UNCHANGED <<model, claim, store, bucket, jobs, tie, spent>>

(* update_fields *)
UpdateStatus ==
    /\ At("claim", "status")
    /\ claim' = [claim EXCEPT !.state = "Ready", !.edited = FALSE,
                              !.bound = op["claim"].bound]
    /\ ClaimGo("spec", op["claim"].bound)
    /\ UNCHANGED <<model, bind, store, bucket, jobs, tie, spent>>

UpdateSpec ==
    /\ At("claim", "spec")
    /\ claim' = [claim EXCEPT !.spec = op["claim"].bound]
    /\ Stop("claim")
    /\ UNCHANGED <<model, bind, store, bucket, jobs, tie, spent>>

(* delete_model_storage_binding_by_model *)
DeleteBindings ==
    bind' = [b \in Binding |-> IF b \in Live THEN Deleted(bind[b]) ELSE bind[b]]

Rebind ==
    /\ At("claim", "unbind")
    /\ DeleteBindings
    /\ Go("claim", "model")
    /\ UNCHANGED <<model, claim, store, bucket, jobs, tie, spent>>

(* delete_model: the bindings, and three seconds later the model, whether the
   bindings are gone or not. *)
Release ==
    /\ At("claim", "release")
    /\ DeleteBindings
    /\ Go("claim", "wait")
    /\ UNCHANGED <<model, claim, store, bucket, jobs, tie, spent>>

DeleteModel ==
    /\ At("claim", "wait")
    /\ IF model = None
       THEN Stop("claim") /\ UNCHANGED model
       ELSE /\ model' = Deleted(model)
            /\ Go("claim", "finalize")
    /\ UNCHANGED <<claim, bind, store, bucket, jobs, tie, spent>>

FinalizeClaim ==
    /\ At("claim", "finalize")
    /\ claim' = None
    /\ Stop("claim")
    /\ UNCHANGED <<model, bind, store, bucket, jobs, tie, spent>>

-----------------------------------------------------------------------------
(* What users do, and calls that fail: the error is logged and the object
   comes again after FALLBACK. *)
UserClaims ==
    /\ Disturb /\ claim = None
    /\ claim' \in NewClaims
    /\ UNCHANGED <<model, bind, store, bucket, jobs, op, tie>>

UserEdits ==
    /\ Disturb /\ claim # None
    /\ claim' = [claim EXCEPT !.edited = TRUE]
    /\ UNCHANGED <<model, bind, store, bucket, jobs, op, tie>>

UserReleases ==
    /\ Disturb /\ claim # None
    /\ claim' = Deleted(claim)
    /\ UNCHANGED <<model, bind, store, bucket, jobs, op, tie>>

AdminMakes ==
    /\ Disturb /\ model = None
    /\ model' = New
    /\ UNCHANGED <<claim, bind, store, bucket, jobs, op, tie>>

AdminBinds(b) ==
    /\ Disturb /\ bind[b] = None
    /\ bind' = [bind EXCEPT ![b] = NewBinding(Target[b], "Delete")]
    /\ UNCHANGED <<model, claim, store, bucket, jobs, op, tie>>

(* The spec of a binding is edited whenever the administrator likes. *)
AdminEdits(b, s) ==
    /\ Disturb /\ bind[b] # None /\ bind[b].target # s
    /\ bind' = [bind EXCEPT ![b].target = s]
    /\ UNCHANGED <<model, claim, store, bucket, jobs, op>>
    /\ Lose(b)

AdminUnbinds(b) ==
    /\ Disturb /\ bind[b] # None
    /\ bind' = [bind EXCEPT ![b] = Deleted(@)]
    /\ UNCHANGED <<model, claim, store, bucket, jobs, op, tie>>

AdminDrops ==
    /\ Disturb
    /\ \/ model # None /\ model' = Deleted(model) /\ UNCHANGED store
       \/ \E s \in Leaving : /\ store[s] = "Ready" /\ UNCHANGED model
                             /\ store' = [store EXCEPT ![s] = "Deleting"]
    /\ UNCHANGED <<claim, bind, bucket, jobs, op, tie>>

Fault(o) ==
    /\ Disturb /\ op[o] # Idle
    /\ Stop(o)
    /\ UNCHANGED <<model, claim, bind, store, bucket, jobs>>
    /\ IF o \in Binding THEN Lose(o) ELSE UNCHANGED tie

ModelNext == MarkModel \/ ModelUnbound \/ ModelUnclaimed \/ FinalizeModel
StorageNext(s) == StorageUnbound(s) \/ FinalizeStorage(s)
BindingNext(b) == MarkBinding(b) \/ LoadBinding(b) \/ Unbind(b) \/ Bind(b) \/ Bound(b)
                    \/ FinalizeBinding(b)
ClaimNext == MarkClaim \/ ReconcileClaim \/ LoadOrCreateModel \/ Optimize
               \/ CreateBinding \/ UpdateStatus \/ UpdateSpec \/ Rebind \/ Release
               \/ DeleteModel \/ FinalizeClaim

Users == \/ UserClaims \/ UserEdits \/ UserReleases
         \/ \E b \in Admin : AdminBinds(b)
         \/ \E b \in Binding, s \in Storage : AdminEdits(b, s)
         \/ \E b \in Binding : AdminUnbinds(b)
         \/ AdminMakes \/ AdminDrops
         \/ \E o \in Object : Fault(o)

Next == \/ ModelNext \/ ClaimNext \/ Users
        \/ \E s \in Storage : StorageNext(s) \/ JobRuns(s)
        \/ \E b \in Binding : BindingNext(b)

Spec == Init /\ [][Next]_vars

(* The operator runs, and so does the Job controller. *)
LiveSpec ==
    /\ Spec
    /\ WF_vars(ModelNext) /\ WF_vars(ClaimNext)
    /\ WF_vars(\E s \in Storage : JobRuns(s))
    /\ \A b \in Binding : WF_vars(BindingNext(b))
    /\ \A s \in Storage : WF_vars(StorageNext(s))

-----------------------------------------------------------------------------
Op == [pc : {"idle", "claim", "finalize", "model", "pick", "unbind", "release",
             "wait"}]
      \union [pc : {"create", "status", "spec"}, bound : Storage \union {None}]
      \union [pc : {"unbind", "bind", "ready"}, target : Storage, to : Storage \union {None}]

(* Every variable has the values the controllers write. *)
TypeOK ==
    /\ model \in Objects \union {None}
    /\ claim \in Claims \union {None}
    /\ bind \in [Binding -> Bindings \union {None}]
    /\ store \in [Storage -> {"Ready", "Deleting", "gone"}]
    /\ bucket \subseteq Storage /\ jobs \subseteq Storage
    /\ op \in [Object -> Op]
    /\ tie \in [Storage -> SUBSET {"shared", "left", "kept", "lost"}]
    /\ spent \in 0 .. Limit

(* A binding that says it is Ready at a storage, and is asked to be there, has
   the bucket.  Excepted are a bucket with another user, since bindings of one
   model share one bucket name and the Job that removes a bucket may run after it
   is bound again ("shared"), and a binding that was being moved away and is
   edited back: the update finds nothing changed ("left"). *)
ReadyHasBucket ==
    \A b \in Live : LET s == bind[b].bound IN
        s = bind[b].target /\ tie[s] \intersect {"shared", "left"} = {} => s \in bucket \ jobs

(* A bucket that only bindings with the policy Delete have used goes with the
   last of them, whatever else is deleted, edited or fails.  The code leaves one
   behind in four ways ("lost"): a deletion that is logged as not graceful; one
   that an edit has overtaken; an edit of a binding that has made the bucket and
   has not said so in its status; and a reconcile cut off after such an edit. *)
NoLeak ==
    \A s \in bucket \ jobs :
        \/ tie[s] \intersect {"kept", "lost"} # {}
        \/ \E b \in Binding : Refers(b, s)

Safe == TypeOK /\ ReadyHasBucket /\ NoLeak

Going(o) ==
    \/ o = "model" /\ model # None /\ model.del
    \/ o = "claim" /\ claim # None /\ claim.del
    \/ o \in Binding /\ bind[o] # None /\ bind[o].del
    \/ o \in Storage /\ store[o] = "Deleting"

(* What keeps an object that is being deleted: bindings keep their model, the
   claim that is deleted with it, and their storage; a claim keeps its model. *)
Held(o) ==
    \/ o = "model" /\ (Live # {} \/ (claim # None /\ claim.state = "Ready" /\ ~claim.del))
    \/ o = "claim" /\ model # None /\ model.del /\ Live # {}
    \/ o \in Storage /\ \E b \in Live : bind[b].target = o

(* A claim that has yet to be answered wants its model Ready, and the model being
   deleted wants the claim Ready or gone: nothing but a deletion of the claim
   ends that. *)
WaitForEachOther ==
    Going("model") /\ claim # None /\ claim.state = "Pending" /\ ~claim.del

(* What is deleted goes, unless somebody has it: the controllers of a model, its
   claim, its bindings and the storages wait for each other only where the claim
   and the model do in WaitForEachOther. *)
DeletionsEnd ==
    \A o \in Object :
        Going(o) ~> (~Going(o) \/ Held(o) \/ (o = "model" /\ WaitForEachOther))

(* The binding a claim has made waits for a storage that is going: the claim finds
   no binding that is Ready, and cannot make another of the same name. *)
OwnWaits ==
    bind[Own] # None /\ bind[Own].state = "Pending" /\ ~StorageReady(bind[Own].target)

(* A claim is answered while there is a storage to choose, but for a model that
   is being deleted and a binding of its own that waits for good. *)
ClaimsBind ==
    (claim # None /\ claim.state = "Pending")
        ~> \/ claim = None \/ claim.state # "Pending"
           \/ Going("model") \/ OwnWaits \/ Candidates = {}

(* What "Test changed" and "Update the storage" (validator/model_claim.rs) say:
   bindings are taken away for a claim that has changed.  It does not hold: the
   comparison is the wrong way round, and a claim nobody has edited loses its
   binding. *)
ChangedIsUpdated ==
    [][Rebind /\ bind' # bind => claim.edited \/ claim.spec # claim.bound]_vars
=============================================================================
