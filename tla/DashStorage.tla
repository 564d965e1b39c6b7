---------------------------- MODULE DashStorage ----------------------------
(***************************************************************************)
(* Object storages of dash: how a storage is validated and what is made in *)
(* the cluster for it, and how a binding that clones a bucket ties the     *)
(* bucket of its model to the one it is cloned from                        *)
(* (crates/dash/provider/src/storage/object.rs).  All the storages of a    *)
(* namespace share one gateway and one tenant.  The replication rules of a *)
(* bucket are one document, read and written as a whole.                   *)
(***************************************************************************)
EXTENDS Naturals, Sequences

CONSTANTS
    Source, Target,  \* the two storages
    Kinds,           \* the pairs of kinds they may have
    Binding,         \* records: the bucket and the source bucket, the sync
                     \* policies, the deletion policy
    Item,            \* what is put in buckets
    None,
    Limit            \* how many disturbances there are: requests, failed calls

Storage == {Source, Target}
Kind == {"Owned", "Cloned", "Borrowed"}
Policies == [name : {b.name : b \in Binding}, from : {b.from : b \in Binding},
             pull : {"Always", "OnCreate", "Never"},
             push : {"Always", "OnDelete", "Never"},
             policy : {"Delete", "Retain"}]

ASSUME DashStorageAssumption ==
    /\ Source # Target /\ None \notin Storage
    /\ Kinds \subseteq [Storage -> Kind]
    /\ Binding \subseteq Policies
    /\ \A b, c \in Binding : b.name = c.name => b = c
    /\ Storage \intersect Binding = {}
    /\ \A items \in SUBSET Item : None # items
    /\ Limit \in Nat

VARIABLES
    kind,    \* kind[s]: what the storage s is
    store,   \* store[s]: Pending or Ready
    made,    \* the objects of the namespace that are there
    secret,  \* who has made the secret of the tenant
    held,    \* held[s]: whose secret the session of s signs in with
    data,    \* data[u]: what is in the bucket u, or None
    rules,   \* rules[u]: the buckets u is replicated to
    bind,    \* bind[b]: Absent, Pending, Ready, Deleting
    op,      \* op[w]: the calls the reconcile of w has left
    jobs,    \* the Jobs that sync and remove buckets
    late,    \* late[b]: what is put in the bucket of b after the copy of a Job
             \* that is still to remove it
    raced,   \* whether two unique storages were validated at once
    lost,    \* the bindings that lost a rule or a Job to another one
    spent

namespace == <<kind, store, made, secret, held, raced>>
vars == <<namespace, data, rules, bind, op, jobs, late, lost, spent>>

Bucket == Storage \X ({b.name : b \in Binding} \union {b.from : b \in Binding})
There(b) == <<Target, b.name>>
Here(b) == <<Source, b.from>>
Sources == {Here(b) : b \in Binding}

Worker == Storage \union Binding
Idle == [rest |-> <<>>, view |-> None]
Left(w) == op[w].rest
At(w, call) == Left(w) # <<>> /\ Head(Left(w)) = call
Starts(w, calls) == op' = [op EXCEPT ![w] = [rest |-> calls, view |-> None]]
Continue(w, view) == op' = [op EXCEPT ![w] = [rest |-> Tail(@.rest), view |-> view]]
Stop(w) == op' = [op EXCEPT ![w] = Idle]

Init ==
    /\ kind \in Kinds
    /\ store = [s \in Storage |-> "Pending"]
    /\ made = {}
    /\ secret = None
    /\ held = [s \in Storage |-> None]
    /\ data = [u \in Bucket |-> IF u \in Sources THEN {} ELSE None]
    /\ rules = [u \in Bucket |-> {}]
    /\ bind = [b \in Binding |-> "Absent"]
    /\ op = [w \in Worker |-> Idle]
    /\ jobs = {} /\ late = [b \in Binding |-> {}] /\ raced = FALSE /\ lost = {}
    /\ spent = 0

Disturb == spent < Limit /\ spent' = spent + 1

-----------------------------------------------------------------------------
(* A storage is validated: create_or_get_storage makes the gateway, and
   get_or_create_minio_tenant the tenant of a storage that is not borrowed. *)
Gateway == <<"account", "rights", "controller", "ingress">>
Tenant == <<"configuration", "secret", "tenant">>

Unique(s) == kind[s] # "Borrowed"
Objects(s) == IF Unique(s) THEN Gateway \o Tenant ELSE Gateway

(* validate_model_storage_conflict: the unique storages that have been Ready.
   Two of them pass when neither is. *)
Conflicts(s) == {t \in Storage \ {s} : Unique(t) /\ store[t] = "Ready"}

Validate(s) ==
    /\ op[s] = Idle /\ store[s] = "Pending"
    /\ Unique(s) => Conflicts(s) = {}
    /\ Starts(s, Objects(s) \o <<"site">>)
    /\ raced' = (raced \/ (Unique(s) /\ \E t \in Storage \ {s} : Unique(t) /\ op[t] # Idle))
    /\ UNCHANGED <<kind, store, made, secret, held, data, rules, bind, jobs, late, lost, spent>>

(* get_or_create reads the object, *)
Get(s, k) ==
    /\ At(s, k) /\ op[s].view # "missing"
    /\ IF k \in made THEN Continue(s, None) ELSE op' = [op EXCEPT ![s].view = "missing"]
    /\ held' = IF k = "secret" THEN [held EXCEPT ![s] = secret] ELSE held
    /\ UNCHANGED <<kind, store, made, secret, raced, data, rules, bind, jobs, late, lost, spent>>

(* Mutant: an object somebody has made meanwhile is taken for the caller's. *)
CreateOver(s, k) ==
    /\ made' = made \union {k}
    /\ secret' = IF k = "secret" /\ k \notin made THEN s ELSE secret
    /\ held' = IF k = "secret" THEN [held EXCEPT ![s] = s] ELSE held
    /\ Continue(s, None)

(* ... and creates it; AlreadyExists is an error and the reconcile comes again. *)
Create(s, k) ==
    IF k \in made
    THEN Stop(s) /\ UNCHANGED <<made, secret, held>>
    ELSE /\ made' = made \union {k}
         /\ secret' = IF k = "secret" THEN s ELSE secret
         /\ held' = IF k = "secret" THEN [held EXCEPT ![s] = s] ELSE held
         /\ Continue(s, None)

CreateObject(s, k) ==
    /\ At(s, k) /\ op[s].view = "missing"
    /\ Create(s, k)
    /\ UNCHANGED <<kind, store, raced, data, rules, bind, jobs, late, lost, spent>>

(* add_site_replication, for a cloned storage; update_state. *)
StorageReady(s) ==
    /\ At(s, "site")
    /\ store' = [store EXCEPT ![s] = "Ready"]
    /\ Stop(s)
    /\ UNCHANGED <<kind, made, secret, held, raced, data, rules, bind, jobs, late, lost, spent>>

-----------------------------------------------------------------------------
(* A binding is bound: create_bucket, sync_bucket. *)
Replication(way) == <<<<"read", way>>, <<"write", way>>>>

(* A rule of b leads from the one bucket to the other. *)
From(b, way) == IF way = "pull" THEN Here(b) ELSE There(b)
To(b, way) == IF way = "pull" THEN There(b) ELSE Here(b)
Ways(b) == (IF b.pull = "Always" THEN {"pull"} ELSE {})
             \union (IF b.push = "Always" THEN {"push"} ELSE {})

SyncBucket(b) ==
    (CASE b.pull = "Always" -> Replication("pull")
       [] b.pull = "OnCreate" -> <<<<"job", "pull">>>>
       [] OTHER -> <<>>)
    \o (IF b.push = "Always" THEN Replication("push") ELSE <<>>)

Bindable == \A s \in Storage : store[s] = "Ready"

BindStarts(b) ==
    /\ op[b] = Idle /\ bind[b] = "Pending" /\ Bindable
    /\ Starts(b, <<<<"make">>>> \o SyncBucket(b) \o <<<<"bound">>>>)
    /\ UNCHANGED <<namespace, data, rules, bind, jobs, late, lost, spent>>

MakeBucket(b) ==
    /\ At(b, <<"make">>)
    /\ data' = IF data[There(b)] = None THEN [data EXCEPT ![There(b)] = {}] ELSE data
    /\ Continue(b, None)
    /\ UNCHANGED <<namespace, rules, bind, jobs, late, lost, spent>>

(* set_remote_target, get_bucket_replication: a failed read counts as no rules. *)
ReadRules(b, way) ==
    /\ At(b, <<"read", way>>)
    /\ data[From(b, way)] # None
    /\ \/ Continue(b, rules[From(b, way)]) /\ UNCHANGED spent
       \/ Continue(b, {}) /\ Disturb
    /\ UNCHANGED <<namespace, data, rules, bind, jobs, late, lost>>

(* Whose rules are cut when the document of u becomes d, but for b's own. *)
Cut(b, u, d) ==
    {c \in Binding \ {b} : \E way \in Ways(c) :
        From(c, way) = u /\ To(c, way) \in rules[u] \ d}

(* The document that was read, with the rule added. *)
WithRule(b, way) == op[b].view \union {To(b, way)}

(* set_bucket_replication, unless the rule is among those that were read. *)
WriteRules(b, way) ==
    /\ At(b, <<"write", way>>)
    /\ LET u == From(b, way) IN
       IF To(b, way) \in op[b].view
       THEN UNCHANGED <<rules, lost>>
       ELSE /\ rules' = [rules EXCEPT ![u] = WithRule(b, way)]
            /\ lost' = lost \union Cut(b, u, op[b].view)
    /\ Continue(b, None)
    /\ UNCHANGED <<namespace, data, bind, jobs, late, spent>>

BindEnds(b) ==
    /\ At(b, <<"bound">>)
    /\ bind' = [bind EXCEPT ![b] = "Ready"]
    /\ Stop(b)
    /\ UNCHANGED <<namespace, data, rules, jobs, late, lost, spent>>

-----------------------------------------------------------------------------
(* A binding is unbound: delete_bucket, unsync_bucket. *)

(* Mutant: the bucket is removed while it is pushed back. *)
DeleteToo(b) == <<<<"job", "delete">>>>

(* unsync_bucket_push_on_delete says FALSE: its own Job removes the bucket. *)
DeleteCalls(b) ==
    IF b.push = "OnDelete" \/ b.policy = "Retain" THEN <<>> ELSE <<<<"job", "delete">>>>

UnsyncBucket(b) ==
    (IF b.pull = "Always" THEN <<<<"drop", "pull">>>> ELSE <<>>)
    \o (CASE b.push = "Always" -> <<<<"drop", "push">>>>
          [] b.push = "OnDelete" -> <<<<"job", "push">>>>
          [] OTHER -> <<>>)

UnbindStarts(b) ==
    /\ op[b] = Idle /\ bind[b] = "Deleting"
    /\ IF b.policy = "Delete" /\ data[There(b)] = None
       THEN Starts(b, <<<<"unbound">>>>)
       ELSE Starts(b, UnsyncBucket(b) \o DeleteCalls(b) \o <<<<"unbound">>>>)
    /\ UNCHANGED <<namespace, data, rules, bind, jobs, late, lost, spent>>

(* get_remote_target compares the names of the two buckets crosswise, and finds
   the target when they are the same; delete_bucket_replication drops every
   rule of the bucket. *)
Found(b, way) == b.name = b.from /\ To(b, way) \in rules[From(b, way)]

DropRules(b, way) ==
    /\ At(b, <<"drop", way>>)
    /\ IF Found(b, way)
       THEN /\ rules' = [rules EXCEPT ![From(b, way)] = {}]
            /\ lost' = lost \union Cut(b, From(b, way), {})
       ELSE UNCHANGED <<rules, lost>>
    /\ Continue(b, None)
    /\ UNCHANGED <<namespace, data, bind, jobs, late, spent>>

UnbindEnds(b) ==
    /\ At(b, <<"unbound">>)
    /\ bind' = [bind EXCEPT ![b] = "Absent"]
    /\ Stop(b)
    /\ UNCHANGED <<namespace, data, rules, jobs, late, lost, spent>>

-----------------------------------------------------------------------------
(* get_or_create_bucket_job.  The name of a Job is its bucket, its command and
   the second: the Jobs that push two clones of one bucket back may collide. *)
Job(b, way) == [b |-> b, way |-> way, at |-> IF way = "delete" THEN "remove" ELSE "sync"]

Namesake(b, way) ==
    way = "push" /\ \E j \in jobs : j.way = "push" /\ j.b # b /\ j.b.from = b.from

MakeJob(b, way) ==
    /\ At(b, <<"job", way>>)
    /\ \/ jobs' = jobs \union {Job(b, way)} /\ UNCHANGED <<lost, spent>>
       \/ Namesake(b, way) /\ Disturb /\ lost' = lost \union {b} /\ UNCHANGED jobs
    /\ Continue(b, None)
    /\ UNCHANGED <<namespace, data, rules, bind, late>>

(* The script stops at the first command that fails, and its Pod is restarted. *)
JobSyncs(j) ==
    /\ j \in jobs /\ j.at = "sync"
    /\ IF data[From(j.b, j.way)] = None \/ data[To(j.b, j.way)] = None
       THEN jobs' = jobs \ {j} /\ UNCHANGED data
       ELSE /\ data' = [data EXCEPT ![To(j.b, j.way)] = @ \union data[From(j.b, j.way)]]
            /\ jobs' = (jobs \ {j}) \union
                          IF j.way = "push" /\ j.b.policy = "Delete"
                          THEN {[j EXCEPT !.at = "remove"]} ELSE {}
    /\ UNCHANGED <<namespace, rules, bind, op, late, lost, spent>>

(* mc rb --force: the rules of a bucket go with it. *)
JobRemoves(j) ==
    /\ j \in jobs /\ j.at = "remove"
    /\ data' = [data EXCEPT ![There(j.b)] = None]
    /\ rules' = [rules EXCEPT ![There(j.b)] = {}]
    /\ jobs' = jobs \ {j}
    /\ late' = [late EXCEPT ![j.b] = {}]
    /\ UNCHANGED <<namespace, bind, op, lost, spent>>

(* The storage replicates, in its own time. *)
Replicate(u, v) ==
    /\ v \in rules[u] /\ data[u] # None /\ data[v] # None
    /\ ~(data[u] \subseteq data[v])
    /\ data' = [data EXCEPT ![v] = @ \union data[u]]
    /\ UNCHANGED <<namespace, rules, bind, op, jobs, late, lost, spent>>

-----------------------------------------------------------------------------
(* Users. *)
UserBinds(b) ==
    /\ Disturb /\ Bindable /\ bind[b] = "Absent"
    /\ \E s \in Storage : ~Unique(s)  \* two buckets of one tenant are not cloned
    /\ bind' = [bind EXCEPT ![b] = "Pending"]
    /\ lost' = lost \ {b}
    /\ UNCHANGED <<namespace, data, rules, op, jobs, late>>

UserUnbinds(b) ==
    /\ Disturb /\ bind[b] \in {"Pending", "Ready"} /\ op[b] = Idle
    /\ bind' = [bind EXCEPT ![b] = "Deleting"]
    /\ UNCHANGED <<namespace, data, rules, op, jobs, late, lost>>

(* Nothing stops the users of a bucket from writing to it until it is removed. *)
Doomed(b) == \E j \in jobs : j.b = b /\ j.at = "remove"

UserPuts(b, i) ==
    /\ Disturb /\ data[There(b)] # None /\ i \notin data[There(b)]
    /\ data' = [data EXCEPT ![There(b)] = @ \union {i}]
    /\ late' = [late EXCEPT ![b] = IF Doomed(b) THEN @ \union {i} ELSE @]
    /\ UNCHANGED <<namespace, rules, bind, op, jobs, lost>>

Fault(w) ==
    /\ Disturb /\ op[w] # Idle
    /\ Stop(w)
    /\ UNCHANGED <<namespace, data, rules, bind, jobs, late, lost>>

StorageNext(s) ==
    \/ Validate(s) \/ StorageReady(s)
    \/ \E k \in {"account", "rights", "controller", "ingress", "configuration", "secret", "tenant"} :
           Get(s, k) \/ CreateObject(s, k)

BindingNext(b) ==
    \/ BindStarts(b) \/ MakeBucket(b) \/ BindEnds(b) \/ UnbindStarts(b) \/ UnbindEnds(b)
    \/ \E way \in {"pull", "push"} : ReadRules(b, way) \/ WriteRules(b, way) \/ DropRules(b, way)
    \/ \E way \in {"pull", "push", "delete"} : MakeJob(b, way)

Users == \/ \E b \in Binding : UserBinds(b) \/ UserUnbinds(b) \/ \E i \in Item : UserPuts(b, i)
         \/ \E w \in Worker : Fault(w)

Next == \/ \E s \in Storage : StorageNext(s)
        \/ \E b \in Binding : BindingNext(b)
        \/ \E j \in jobs : JobSyncs(j) \/ JobRemoves(j)
        \/ \E u, v \in Bucket : Replicate(u, v)
        \/ Users

Spec == Init /\ [][Next]_vars

-----------------------------------------------------------------------------
(* Every variable has the values the operator and the storages write. *)
TypeOK ==
    /\ kind \in Kinds /\ store \in [Storage -> {"Pending", "Ready"}]
    /\ secret \in Storage \union {None} /\ held \in [Storage -> Storage \union {None}]
    /\ data \in [Bucket -> {None} \union SUBSET Item] /\ rules \in [Bucket -> SUBSET Bucket]
    /\ bind \in [Binding -> {"Absent", "Pending", "Ready", "Deleting"}]
    /\ late \in [Binding -> SUBSET Item] /\ lost \subseteq Binding /\ spent \in 0 .. Limit

(* The session of a Ready storage signs in with the secret the tenant has,
   however many reconciles made the objects at once. *)
SameTenant == \A s \in Storage : Unique(s) /\ store[s] = "Ready" => held[s] = secret

(* One unique storage is Ready, unless two were validated at once: the check
   for a conflict does not see one that is still Pending. *)
OneUnique == raced \/ \A s, t \in Storage :
    Unique(s) /\ Unique(t) /\ store[s] = "Ready" /\ store[t] = "Ready" => s = t

(* The rules of a Ready binding are in force, unless another binding has
   dropped all the rules of the bucket or a read of them failed. *)
Synced ==
    \A b \in Binding \ lost : bind[b] = "Ready" =>
        \A way \in Ways(b) : To(b, way) \in rules[From(b, way)] \/ data[From(b, way)] = None

(* The bucket of a deleted binding goes with the last Job, for the policy Delete. *)
BucketsGo ==
    \A b \in Binding \ lost :
        /\ b.policy = "Delete" /\ bind[b] = "Absent" /\ \A j \in jobs : j.b # b
        => data[There(b)] = None

Safe == TypeOK /\ SameTenant /\ OneUnique /\ Synced /\ BucketsGo

(* A bucket that is pushed back on deletion is not removed before everything in it
   has come to its source, whichever reconcile, Job or replication was in between.
   The exception is what is put in between the copy and the removal of one Job
   (unsync_bucket_push_on_delete: mc mirror, mc rb --force), which is lost also when
   the binding has been made again meanwhile. *)
PushedBack == [][\A b \in Binding :
    b.push = "OnDelete" /\ data[There(b)] # None /\ data'[There(b)] = None
        => data[There(b)] \ late[b] \subseteq data[Here(b)]]_vars
=============================================================================
