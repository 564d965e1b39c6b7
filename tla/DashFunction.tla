---------------------------- MODULE DashFunction ----------------------------
(***************************************************************************)
(* Functions of dash (crates/dash/operator/src/ctx/function.rs and           *)
(* validator/function.rs) and what they run: straws, whose nodes are         *)
(* deployments (crates/straw/provider and crates/straw/api/src/plugin.rs).   *)
(* All nodes of a function are made, or deleted, at the same time; each of   *)
(* them is looked up by its name before it is written.  The functions are    *)
(* reconciled by the process that reconciles the jobs.                       *)
(***************************************************************************)
EXTENDS DashJob

CONSTANTS
    Function,
    Nodes,       \* Nodes[f]: the names of the nodes of f, none for a placeholder
    Pipe,        \* the functions that are pipes
    Unsupported, \* nodes whose source no plugin knows
    EnvNames,    \* names of environment variables
    Optional,    \* of them, those the context may have
    Secret,      \* and those it takes from a secret
    Plugins,     \* the variables of a plugin: a set of functions
    Contexts,    \* the values of the context
    NodeEnvs     \* the variables of a node, in their order

VARIABLES
    fns,      \* fns[f]: [state, del, fin], or None
    deploys,  \* deploys[n]: the function that has written the deployment n last, or None
    ready,    \* whether the models that the functions are between are ready
    bound,    \* and whether they are bound to a storage
    nop       \* nop[f]: the nodes that the reconcile of f has left, and what it saw

fnVars == <<fns, deploys, ready, bound, nop>>

Node == UNION {Nodes[f] : f \in Function}
FnState == {"Pending", "Ready", "Deleting"}
Seen == {"nothing", "absent", "present", "stale"}
Fns == [state : FnState, del : BOOLEAN, fin : BOOLEAN]
Rest == [pc |-> "idle", left |-> {}, seen |-> [n \in Node |-> "nothing"]]

ASSUME DashFunctionAssumption ==
    /\ None \notin Fns \union Function
    /\ None \notin {"account", "in", "out"}

FnInit ==
    /\ fns = [f \in Function |-> None]
    /\ deploys = [n \in Node |-> None]
    /\ ready = FALSE /\ bound = FALSE
    /\ nop = [f \in Function |-> Rest]

Take(f, step) == nop' = [nop EXCEPT ![f] = [Rest EXCEPT !.pc = step, !.left = Nodes[f]]]
Leave(f) == nop' = [nop EXCEPT ![f] = Rest]

-----------------------------------------------------------------------------
(* Users and models. *)
ApplyFn(f) ==
    /\ Disturb /\ fns[f] = None
    /\ fns' = [fns EXCEPT ![f] = [state |-> "Pending", del |-> FALSE, fin |-> FALSE]]
    /\ UNCHANGED <<deploys, ready, bound, nop>>

DeleteFn(f) ==
    /\ Disturb /\ fns[f] # None /\ ~fns[f].del
    /\ fns' = [fns EXCEPT ![f] = IF @.fin THEN [@ EXCEPT !.del = TRUE] ELSE None]
    /\ UNCHANGED <<deploys, ready, bound, nop>>

Provide ==
    /\ ~ready /\ ready' = TRUE
    /\ UNCHANGED <<fns, deploys, bound, nop, spent>>

Rebind ==
    /\ Disturb /\ bound' = ~bound
    /\ UNCHANGED <<fns, deploys, ready, nop>>

-----------------------------------------------------------------------------
(* The reconcile of a function. *)
FnStarts(f) == nop[f].pc = "idle" /\ fns[f] # None
FnSettled(f, state) == ~Doomed(fns[f]) /\ fns[f].fin /\ fns[f].state = state

MarkFn(f) ==
    /\ FnStarts(f)
    /\ \/ Doomed(fns[f]) /\ fns' = [fns EXCEPT ![f].state = "Deleting"]
       \/ ~Doomed(fns[f]) /\ ~fns[f].fin /\ fns' = [fns EXCEPT ![f].fin = TRUE]
    /\ UNCHANGED <<deploys, ready, bound, nop, spent>>

(* validate_function *)
Valid(f) == ready /\ (f \in Pipe => bound)

(* StrawSession::create *)
CreateNodes(f) ==
    /\ FnStarts(f) /\ FnSettled(f, "Pending") /\ Valid(f)
    /\ Take(f, "create")
    /\ UNCHANGED <<fns, deploys, ready, bound, spent>>

(* StrawSession::delete *)
DeleteNodes(f) ==
    /\ FnStarts(f) /\ FnSettled(f, "Deleting")
    /\ Take(f, "delete")
    /\ UNCHANGED <<fns, deploys, ready, bound, spent>>

(* Mutant: a node that is not there can not be deleted. *)
LookMissing(f, n) ==
    /\ n \in nop[f].left \ Unsupported /\ nop[f].seen[n] = "nothing"
    /\ nop' = [nop EXCEPT ![f].seen[n] = IF deploys[n] # None THEN "present" ELSE "absent"]
    /\ UNCHANGED <<fns, deploys, ready, bound, spent>>

(* exists: a node that is not there has been deleted already. *)
Look(f, n) ==
    /\ n \in nop[f].left \ Unsupported /\ nop[f].seen[n] = "nothing"
    /\ nop' = IF deploys[n] # None
              THEN [nop EXCEPT ![f].seen[n] = "present"]
              ELSE IF nop[f].pc = "create" THEN [nop EXCEPT ![f].seen[n] = "absent"]
              ELSE [nop EXCEPT ![f].left = @ \ {n}]
    /\ UNCHANGED <<fns, deploys, ready, bound, spent>>

(* The version that another look has seen is not the last one any more. *)
Outdated(g, n) ==
    IF nop[g].seen[n] = "present" THEN [nop[g] EXCEPT !.seen[n] = "stale"] ELSE nop[g]

Written(f, n) ==
    nop' = [g \in Function |->
               IF g = f THEN [nop[f] EXCEPT !.left = @ \ {n}] ELSE Outdated(g, n)]

(* create or replace: the new deployment has the version of the one that was seen. *)
CanWrite(f, n) ==
    \/ nop[f].seen[n] = "absent" /\ deploys[n] = None
    \/ nop[f].seen[n] = "present" /\ deploys[n] # None

WriteNode(f, n) ==
    /\ nop[f].pc = "create" /\ n \in nop[f].left /\ CanWrite(f, n)
    /\ deploys' = [deploys EXCEPT ![n] = f] /\ Written(f, n)
    /\ UNCHANGED <<fns, ready, bound, spent>>

(* delete: by the name, whoever has written it. *)
CanErase(f, n) == nop[f].seen[n] \in {"present", "stale"} /\ deploys[n] # None

EraseNode(f, n) ==
    /\ nop[f].pc = "delete" /\ n \in nop[f].left /\ CanErase(f, n)
    /\ deploys' = [deploys EXCEPT ![n] = None] /\ Written(f, n)
    /\ UNCHANGED <<fns, ready, bound, spent>>

(* try_collect: the first node that fails makes the others be dropped, and all of
   them are tried again later.                                               *)
Conflict(f, n) ==
    /\ n \in nop[f].left
    /\ \/ n \in Unsupported
       \/ /\ nop[f].seen[n] # "nothing"
          /\ IF nop[f].pc = "create" THEN ~CanWrite(f, n) ELSE ~CanErase(f, n)
    /\ Leave(f)
    /\ UNCHANGED <<fns, deploys, ready, bound, spent>>

(* A request fails, that of the status too. *)
Failure(f) ==
    /\ Disturb /\ nop[f].pc # "idle"
    /\ Leave(f)
    /\ UNCHANGED <<fns, deploys, ready, bound>>

(* A Ready function is never looked at again. *)
ReadyFn(f) ==
    /\ nop[f].pc = "create" /\ nop[f].left = {}
    /\ fns' = [fns EXCEPT ![f].state = "Ready"] /\ Leave(f)
    /\ UNCHANGED <<deploys, ready, bound, spent>>

(* Mutant: the finalizer goes when the nodes have been looked up. *)
ReleaseSoon(f) ==
    /\ nop[f].pc = "delete" /\ \A n \in nop[f].left : nop[f].seen[n] # "nothing"
    /\ fns' = [fns EXCEPT ![f] = None] /\ Leave(f)
    /\ UNCHANGED <<deploys, ready, bound, spent>>

ReleaseFn(f) ==
    /\ nop[f].pc = "delete" /\ nop[f].left = {}
    /\ fns' = [fns EXCEPT ![f] = None] /\ Leave(f)
    /\ UNCHANGED <<deploys, ready, bound, spent>>

FnOperator(f) ==
    \/ MarkFn(f) \/ CreateNodes(f) \/ DeleteNodes(f) \/ ReadyFn(f) \/ ReleaseFn(f)
    \/ \E n \in Node : Look(f, n) \/ WriteNode(f, n) \/ EraseNode(f, n) \/ Conflict(f, n)

FnNext ==
    \/ Provide \/ Rebind
    \/ \E f \in Function : ApplyFn(f) \/ DeleteFn(f) \/ FnOperator(f) \/ Failure(f)

FnFairness ==
    /\ WF_<<fnVars, spent>>(Provide)
    /\ \A f \in Function : WF_<<fnVars, spent>>(FnOperator(f))

-----------------------------------------------------------------------------
(* The operator is one process: when it stops, everything it is doing stops. *)
CrashAll == Crash /\ nop' = [f \in Function |-> Rest] /\ UNCHANGED <<fns, deploys, ready, bound>>

TasksInit == JobInit /\ FnInit /\ spent = 0
TasksNext ==
    \/ JobSteps /\ UNCHANGED fnVars
    \/ FnNext /\ UNCHANGED jobVars
    \/ CrashAll

taskVars == <<jobVars, fnVars, spent>>
TasksSpec == TasksInit /\ [][TasksNext]_taskVars
TasksLiveSpec == TasksSpec /\ JobFairness /\ FnFairness

-----------------------------------------------------------------------------
(* The environment of a node (build_job, PluginContext::apply_to_env): a variable
   has a value, or takes it from somewhere else.                             *)
Fixed(value) == [value |-> value, from |-> FALSE]
From == [value |-> None, from |-> TRUE]

ContextEnv(context) ==
    [n \in Optional \union Secret \union DOMAIN context |->
        IF n \in DOMAIN context THEN Fixed(context[n])
        ELSE IF n \in Secret THEN From ELSE Fixed(None)]

Blank(var) == var.value \in {None, ""}

(* try_apply_to_env *)
Infer(env, n, value) ==
    IF n \in DOMAIN env /\ ~Blank(env[n]) THEN env
    ELSE [m \in DOMAIN env \union {n} |-> IF m = n THEN Fixed(value) ELSE env[m]]

(* Mutant: what the context does not set is not there. *)
EnvKept(plugin, context, user) ==
    LET own == FoldLeft(LAMBDA env, u : (u.name :> u.var) @@ env,
                        ContextEnv(context) @@ plugin, user)
    IN  [n \in {m \in DOMAIN own : own[m].from \/ ~Blank(own[m])} |-> own[n]]

Env(plugin, context, user) ==
    LET own == FoldLeft(LAMBDA env, u : (u.name :> u.var) @@ env,
                        ContextEnv(context) @@ plugin, user)
        all == Infer(Infer(Infer(own, "NATS_ACCOUNT", "account"),
                           "PIPE_MODEL_IN", "in"), "PIPE_MODEL_OUT", "out")
    IN  [n \in {m \in DOMAIN all : all[m].from \/ ~Blank(all[m])} |-> all[n]]

Required == {"NATS_ACCOUNT", "PIPE_MODEL_IN", "PIPE_MODEL_OUT"}

LastOf(user, n) ==
    LET I == {i \in DOMAIN user : user[i].name = n}
    IN  user[CHOOSE i \in I : \A k \in I : k <= i].var

(* What a node gets for a variable is what its user wrote last, or else what the
   context has, or else what its plugin has; an empty value takes a variable away,
   and the three required ones are never missing or empty, not even when their user
   wanted to take them from a secret.                                        *)
EnvsAreSound ==
    \A plugin \in Plugins, context \in Contexts, user \in NodeEnvs :
        LET env == Env(plugin, context, user)
        IN  /\ \A n \in Required : n \in DOMAIN env /\ ~Blank(env[n])
            /\ \A n \in EnvNames \ Required :
                LET var == IF \E i \in DOMAIN user : user[i].name = n THEN LastOf(user, n)
                           ELSE IF n \in DOMAIN context THEN Fixed(context[n])
                           ELSE IF n \in Secret THEN From
                           ELSE IF n \in DOMAIN plugin \ Optional THEN plugin[n]
                           ELSE Fixed(None)
                IN  IF Blank(var) /\ ~var.from THEN n \notin DOMAIN env
                    ELSE n \in DOMAIN env /\ env[n] = var

-----------------------------------------------------------------------------
FnTypeOK ==
    /\ fns \in [Function -> Fns \union {None}]
    /\ deploys \in [Node -> Function \union {None}]
    /\ ready \in BOOLEAN /\ bound \in BOOLEAN
    /\ \A f \in Function : nop[f].left \subseteq Nodes[f] /\ nop[f].seen \in [Node -> Seen]

Shared(n) == \E f, g \in Function : f # g /\ n \in Nodes[f] /\ n \in Nodes[g]

(* A function that is Ready has all of its nodes, however its reconciles failed on
   the way, as long as no other function has a node of the same name.        *)
ReadyIsDeployed ==
    \A f \in Function : fns[f] # None /\ fns[f].state = "Ready" =>
        \A n \in Nodes[f] : Shared(n) \/ deploys[n] = f

(* A function that is gone has left no node behind, shared or not. *)
GoneIsErased == \A n \in Node : deploys[n] # None => fns[deploys[n]] # None

(* Every function gets ready or is deleted to the end, unless it, or one that it
   shares a node with, has a node of a kind nobody knows, or its models are not
   bound: functions that fight for a node let each other go on in the end.   *)
Hopeless(f) == \E g \in Function : Nodes[f] \intersect Nodes[g] # {} /\ Nodes[g] \intersect Unsupported # {}

FunctionsSettle ==
    \A f \in Function :
        fns[f] # None ~>
            \/ fns[f] = None \/ Hopeless(f)
            \/ fns[f].state = "Ready" /\ ~fns[f].del
            \/ fns[f].state = "Pending" /\ ~Valid(f)

(* Neither operator leaves an object where it is for ever, but for the jobs and the
   functions that the two formulas except by name. *)
TasksSettle == EveryJobLeaves /\ FunctionsSettle

-----------------------------------------------------------------------------
(* What the operator promises of its jobs and of its functions. *)
TasksSafe ==
    /\ JobTypeOK /\ NoOrphans /\ CompletedIsClean /\ RunsAccepted
    /\ FnTypeOK /\ ReadyIsDeployed /\ GoneIsErased
=============================================================================
