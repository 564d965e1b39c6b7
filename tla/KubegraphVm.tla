---------------------------- MODULE KubegraphVm ----------------------------
(***************************************************************************)
(* The kubegraph VM (crates/kubegraph/api/src/vm.rs): step after step it   *)
(* takes every problem at once: it reads the graphs, plans the functions   *)
(* (KubegraphDependency), solves the flows and runs the functions, which   *)
(* write the graphs back, while the loops of KubegraphGraphs write them    *)
(* too.  All problems are in one namespace.                                *)
(***************************************************************************)
EXTENDS KubegraphGraphs

CONSTANTS
    Problem,        \* NetworkProblem objects
    Columns         \* the columns of a graph's nodes (all_node_inputs_raw)

ASSUME VmAssumption == None \notin Problem

VARIABLES
    vm,             \* the state of the machine; "Panicked": the program stops
    result,         \* that of the problem that was finished last, or the default
    job             \* the future of each problem in this step

vars == <<graphVars, vm, result, job>>

Stopped == {"Ended", "Panicked"}
States == {"Pending", "Ready", "Empty", "Trading", "Completed"}

Start == [pc |-> "start", snap |-> <<>>, used |-> {}, todo |-> {}, alone |-> FALSE]
Finished == [Start EXCEPT !.pc = "done"]

\* The problems that a step finds: they come and go too.  Where there are none,
\* the step is Ready.
Pull(problems) == [p \in Problem |-> IF p \in problems THEN Start ELSE Finished]
Default(problems) == IF problems = {} THEN "Ready" ELSE "Completed"

Init ==
    /\ GraphsInit
    /\ policy \in {"Always", "Never"}
    /\ vm = "Pending"
    /\ \E problems \in SUBSET Problem : result = Default(problems) /\ job = Pull(problems)

----------------------------------------------------------------------------
\* A step begins.
Begin ==
    \E problems \in SUBSET Problem : result' = Default(problems) /\ job' = Pull(problems)

\* A problem is done: what the step returns is replaced (Extend takes the
\* minimum of the results it is given, but try_collect gives it one at a time).
Done(p, r) ==
    /\ job' = [job EXCEPT ![p] = Finished]
    /\ result' = r

\* The connectors whose graph is read.
Live(snap) == {c \in DOMAIN snap : snap[c] # None}

\* The final functions in the pipeline of a graph: the flows are solved on
\* the edges they make.
Plans == {<<fs, Elements(BuildPipeline(fs, Columns)) \intersect Final>> : fs \in SUBSET Function}
Planned == (CHOOSE plan \in Plans : plan[1] = functions)[2]

\* The problem is not locked: nobody gets as far as to lock one (Register).
\* No graphs: Empty.  The first step only shows the graphs.
Look(p) ==
    /\ vm \notin Stopped /\ job[p].pc = "start"
    /\ \/ Live(graphs) = {} /\ Done(p, "Empty")
       \/ Live(graphs) # {} /\ vm = "Pending" /\ Done(p, "Ready")
    /\ UNCHANGED <<graphVars, vm>>

\* No function makes edges: the problem is put on the market, but the
\* estimate of its cost is a todo!(), and the panic hook stops the program.
Register(p) ==
    /\ vm \notin Stopped \union {"Pending"} /\ job[p].pc = "start"
    /\ Live(graphs) # {} /\ Planned = {}
    /\ vm' = "Panicked"
    /\ UNCHANGED <<graphVars, result, job>>

\* The flows are solved; each function that is not an annotation is spawned
\* for each connector that was read, whether it has flows or not.
Solve(p) ==
    /\ vm \notin Stopped \union {"Pending"} /\ job[p].pc = "start"
    /\ Live(graphs) # {} /\ Planned # {}
    /\ \E used \in {{}, Planned} :
        job' = [job EXCEPT ![p] =
            [pc |-> "run", snap |-> graphs, used |-> used,
             todo |-> Live(graphs) \X (functions \intersect Final),
             alone |-> Cardinality(functions \intersect Final) = 1]]
    /\ UNCHANGED <<graphVars, vm, result>>

(* Mutant: the flows of the other functions are forgotten.                 *)
SpawnedAnew(p, c, f) == [job[p].snap[c] EXCEPT !.flows = job[p].used \intersect {f}]

\* A function writes the graph it was given, with its own flows applied, over
\* whatever is there by now.
Spawned(p, c, f) ==
    [job[p].snap[c] EXCEPT !.flows = @ \union (job[p].used \intersect {f})]

\* A write by anyone else between the reading and the end of a step.
Overlap(jobs, p) ==
    [q \in Problem |-> CASE q = p -> jobs[q]
                         [] q # p /\ jobs[q].pc = "done" -> Finished
                         [] OTHER -> [jobs[q] EXCEPT !.alone = FALSE]]

\* The last function that is done ends the problem's future.
Left(j, x) ==
    IF j.todo = {x} /\ ~j.alone THEN Finished
    ELSE [j EXCEPT !.todo = @ \ {x}, !.pc = IF j.todo = {x} THEN "done" ELSE @]

Insert(p, c, f) ==
    /\ vm \notin Stopped /\ job[p].pc = "run"
    /\ <<c, f>> \in job[p].todo
    /\ graphs' = [graphs EXCEPT ![c] = Spawned(p, c, f)]
    /\ lag' = IF graphs[c] # None /\ graphs[c].version = job[p].snap[c].version
              THEN lag ELSE lag \union {c}
    /\ stray' = IF graphs[c] = None THEN stray \union {c} ELSE stray
    /\ job' = [Overlap(job, p) EXCEPT ![p] = Left(@, <<c, f>>)]
    /\ result' = IF job[p].todo = {<<c, f>>} THEN "Completed" ELSE result
    /\ UNCHANGED <<watch, spent, db, functions, loops, policy, vm>>

\* The solver, a function or the visualizer fails: the futures of the other
\* problems are dropped where they are, and the machine starts anew.
StepFails ==
    /\ vm \notin Stopped /\ Spend
    /\ vm' = "Pending" /\ Begin
    /\ UNCHANGED <<watch, db, functions, loops, graphs, lag, stray, policy>>

\* Every problem is done, and the next step begins.
Step ==
    /\ vm \notin Stopped
    /\ \A p \in Problem : job[p].pc = "done"
    /\ vm' = IF result = "Completed" /\ policy = "Never" THEN "Ended" ELSE result
    /\ Begin
    /\ UNCHANGED graphVars

\* A task that keeps the graphs takes a step beside the machine.
Beside(A) ==
    /\ vm \notin Stopped
    /\ A
    /\ job' = IF graphs' = graphs THEN job ELSE Overlap(job, None)
    /\ UNCHANGED <<vm, result>>

Next ==
    \/ Beside(GraphsStep)
    \/ \E p \in Problem : Look(p) \/ Register(p) \/ Solve(p)
    \/ \E p \in Problem, c \in Connector, f \in Function : Insert(p, c, f)
    \/ StepFails
    \/ Step

Spec == Init /\ [][Next]_vars

\* The tasks of the program are scheduled: the watch is opened again and
\* delivers, the loop of each type turns and stores.
LiveSpec ==
    /\ Spec
    /\ WF_vars(Beside(Watch))
    /\ WF_vars(Beside(HandleEvent))
    /\ \A t \in Type : WF_vars(Beside(List(t) \/ \E c \in Connector : Store(t, c)))

----------------------------------------------------------------------------
(* Properties.                                                             *)

\* A plan keeps the rules of the functions: each is called once, when what it
\* requires is there, and what the problem needs is there at the end.  Final
\* functions end a plan, or begin it.
IsPlan(src, plan) ==
    /\ Reaches(src, plan)
    /\ \A i \in DOMAIN plan :
        /\ Requirements[plan[i]] \subseteq Features(src, SubSeq(plan, 1, i - 1))
        /\ plan[i] \in Final => i \in {1, Len(plan)}
        /\ \A j \in DOMAIN plan : plan[i] = plan[j] => i = j

\* The columns that the annotations among fs can add to src, whatever their
\* order, and whether one final function of fs can finish the plan.
Closure(fs, src) ==
    LET grown[n \in 0 .. Cardinality(fs)] ==
            IF n = 0 THEN src
            ELSE grown[n - 1] \union UNION {Outputs(f) :
                    f \in {f \in fs \ Final : Requirements[f] \subseteq grown[n - 1]}}
    IN grown[Cardinality(fs)]

Feasible(fs, src) ==
    \E f \in fs \intersect Final :
        /\ Requirements[f] \subseteq Closure(fs, src)
        /\ Sink \subseteq Closure(fs, src) \union Outputs(f)

\* The search finds a plan whenever some set of the functions has one, and
\* none longer than the smallest such set.
SearchFinds(fs, src) ==
    LET plan == BuildPipeline(fs, src)
    IN /\ plan # <<>> => IsPlan(src, plan)
       /\ \A sub \in SUBSET fs : Feasible(sub, src) /\ ~(Sink \subseteq src) =>
            plan # <<>> /\ Len(plan) <= Cardinality(sub)

Sources == SUBSET (Sink \ {"function"})

\* Merged, the pipelines of up to three graphs still take the nodes of each
\* graph through its own functions, in their order, once.
MergeKeeps(fs) ==
    LET plans == {BuildPipeline(fs, src) : src \in Sources} \ {<<>>}
    IN \A n \in 1 .. 3 : \A ps \in [1 .. n -> plans] :
        Finalized(ps) = {[g |-> g, calls |-> ps[g]] : g \in 1 .. n}

PlansHold ==
    \A fs \in SUBSET Function : MergeKeeps(fs) /\ \A src \in Sources : SearchFinds(fs, src)

\* Where no write overlaps and one function is spawned for a graph, its flows
\* are in the graph when the problem is done.
Applied ==
    \A p \in Problem : job[p].pc = "done" /\ job[p].alone =>
        \A c \in Live(job[p].snap) :
            graphs[c] # None /\ graphs[c].flows = job[p].snap[c].flows \union job[p].used

TypeOK ==
    /\ GraphsTypeOK
    /\ vm \in States \union Stopped
    /\ result \in States
    /\ \A p \in Problem : job[p].pc \in {"start", "run", "done"}

\* Types are right; the database holds no graph that nobody will remove, but for
\* those that a failed store or a function's write has lost (Owned); and solved
\* flows reach the graphs (resource.rs, connector/mod.rs, vm.rs).
Safe == TypeOK /\ Owned /\ Applied

\* Under a policy that restarts, the graphs end up as their objects are,
\* except where the watch or the loops have lost track
\* (missed, retyped, lag).
GraphsFollow ==
    <>[](vm \in Stopped \/ policy = "Never" \/ \A c \in Connector : c \in missed \union retyped \union lag \/ InSync(c))
=============================================================================
