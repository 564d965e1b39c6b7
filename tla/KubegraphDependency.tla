------------------------ MODULE KubegraphDependency ------------------------
(***************************************************************************)
(* The dependency solver of kubegraph (crates/kubegraph/dependency): for   *)
(* the nodes of each graph, a breadth-first search for a pipeline of       *)
(* functions that provides the columns a problem needs; pipelines with a   *)
(* common end are merged into a tree that calls the shared functions once. *)
(* Operators only: KubegraphVm calls them.                                 *)
(***************************************************************************)
EXTENDS Naturals, FiniteSets, Sequences

CONSTANTS
    Function,       \* functions, numbered in the order of their names
    Final,          \* those that are not annotations: they make edges
    Provided,       \* the columns that the script of a function defines
    Requirements,   \* and those it declares without defining them
    Sink            \* the columns a problem needs, "function" among them

ASSUME DependencyAssumption ==
    /\ Function \subseteq Nat /\ IsFiniteSet(Function)
    /\ Final \subseteq Function
    /\ DOMAIN Provided = Function /\ DOMAIN Requirements = Function

Elements(seq) == {seq[i] : i \in DOMAIN seq}

----------------------------------------------------------------------------
(* Search.                                                                 *)

\* A final function provides the name of the function as well.
Outputs(f) == Provided[f] \union IF f \in Final THEN {"function"} ELSE {}

\* The columns there are once the functions of path have been called.
Features(src, path) == src \union UNION {Outputs(f) : f \in Elements(path)}

Reaches(src, path) == Sink \subseteq Features(src, path)

(* Mutant: what a function requires is looked for in the graph's own columns *)
(* only, as it is for the first function.                                  *)
ExtensionsOfSource(fs, src, paths) ==
    {Append(pf[1], pf[2]) : pf \in {pf \in paths \X fs :
        /\ pf[2] \notin Elements(pf[1])
        /\ Requirements[pf[2]] \subseteq src}}

\* One more function on a path: each one once, as soon as it can be called.
Extensions(fs, src, paths) ==
    {Append(pf[1], pf[2]) : pf \in {pf \in paths \X fs :
        /\ pf[2] \notin Elements(pf[1])
        /\ Requirements[pf[2]] \subseteq Features(src, pf[1])}}

\* The states of the queue with n functions: paths that do not reach the
\* sink yet and do not end in a final function.  The loop that prepares the
\* first functions does not ask whether one is final.
Travelled(fs, src) ==
    LET level[n \in 0 .. Cardinality(fs)] ==
            IF n = 0 THEN {<<>>}
            ELSE {p \in Extensions(fs, src, level[n - 1]) :
                    ~Reaches(src, p) /\ (p[n] \in Final => n = 1)}
    IN level

\* Paths are visited in the order of their length, then of their functions.
Precedes(p, q) ==
    p = q \/ \E i \in DOMAIN p : p[i] < q[i] /\ \A j \in 1 .. i - 1 : p[j] = q[j]

\* The first path that reaches the sink; <<>> where none does and where none
\* is needed: the nodes are kept as they are ("dropped").
BuildPipeline(fs, src) ==
    LET found(n) == {p \in Extensions(fs, src, Travelled(fs, src)[n - 1]) : Reaches(src, p)}
        lengths == {n \in 1 .. Cardinality(fs) : found(n) # {}}
        first == CHOOSE n \in lengths : \A m \in lengths : n <= m
    IN IF Sink \subseteq src \/ lengths = {} THEN <<>>
       ELSE CHOOSE p \in found(first) : \A q \in found(first) : Precedes(p, q)

----------------------------------------------------------------------------
(* Merge.  ps is the sequence of the pipelines; one graph's nodes go into  *)
(* each.  A node of the tree is the end of a pipeline from some function   *)
(* on; its children are the same ends with one more function in front.     *)

Suffixes(ps) == UNION {{SubSeq(ps[g], k, Len(ps[g])) : k \in DOMAIN ps[g]} : g \in DOMAIN ps}

Prevs(ps, s) == {f \in Function : <<f>> \o s \in Suffixes(ps)}

\* The pipelines whose own nodes go into a function of the tree.
Neighbors(ps, s) == {g \in DOMAIN ps : ps[g] = s}

\* The keys of a map, in order.
InOrder(S) == CHOOSE seq \in [1 .. Cardinality(S) -> S] :
                \A i, j \in DOMAIN seq : i < j => seq[i] < seq[j]

Item(s) == [item |-> s, next |-> 0]
Ref(i) == [item |-> <<>>, next |-> i]

\* What the stack says when a pipeline is cut: items from the top down to
\* the first reference to a pipeline that has already been cut, which then
\* ends it.
Cut(stack) ==
    LET refs == {i \in DOMAIN stack : stack[i].next # 0}
        last == IF refs = {} THEN 1 ELSE CHOOSE i \in refs : \A j \in refs : j <= i
    IN [k \in 1 .. Len(stack) - last + 1 |-> stack[Len(stack) + 1 - k]]

\* The tree is walked in depth; a pipeline is cut where the tree forks and
\* where it ends, and what was cut is replaced by references.
IntoDisaggregated(ps) ==
    LET push(work, s) == work \o [i \in 1 .. Cardinality(Prevs(ps, s)) |->
                                    <<InOrder(Prevs(ps, s))[i]>> \o s]
        walk[n \in 0 .. Cardinality(Suffixes(ps))] ==
            IF n = 0
            THEN [work |-> push(<<>>, <<>>), stack |-> <<>>, out |-> <<>>]
            ELSE LET st == walk[n - 1]
                     s == st.work[Len(st.work)]
                     work == push(SubSeq(st.work, 1, Len(st.work) - 1), s)
                     stack == Append(SubSeq(st.stack, 1, Len(s) - 1), Item(s))
                     refs == {i \in DOMAIN stack : stack[i].next # 0}
                 IN IF Cardinality(Prevs(ps, s)) = 1
                    THEN [work |-> work, stack |-> stack, out |-> st.out]
                    ELSE [work |-> work,
                          stack |-> [i \in DOMAIN stack |->
                            IF \E j \in refs : i <= j THEN stack[i]
                            ELSE Ref(Len(st.out) + 1)],
                          out |-> Append(st.out, Cut(stack))]
    IN walk[Cardinality(Suffixes(ps))].out

\* The merged pipelines are called from the last to the first.  What comes
\* out of the calls is the set of inputs [graph, calls]: whose nodes, and the
\* functions they went through.  A function without input is an error.
Call(inputs, f) == {[g |-> x.g, calls |-> Append(x.calls, f)] : x \in inputs}

Pipeline(ps, merged, index, waiting) ==
    LET pipe == merged[index]
        nodes[k \in 0 .. Len(pipe)] ==
            IF k = 0 THEN waiting
            ELSE IF pipe[k].next # 0 THEN nodes[k - 1]
            ELSE Call(nodes[k - 1] \union {[g |-> g, calls |-> <<>>] :
                                            g \in Neighbors(ps, pipe[k].item)},
                      pipe[k].item[1])
    IN nodes[Len(pipe)]

\* The edges that are left when every merged pipeline has been called.
Finalized(ps) ==
    LET merged == IntoDisaggregated(ps)
        last(i) == merged[i][Len(merged[i])].next
        done[i \in 0 .. Len(merged)] ==   \* the i last pipelines are done
            IF i = 0 THEN [stack |-> [j \in DOMAIN merged |-> {}], edges |-> {}]
            ELSE LET index == Len(merged) + 1 - i
                     st == done[i - 1]
                     out == Pipeline(ps, merged, index, st.stack[index])
                 IN IF last(index) = 0
                    THEN [st EXCEPT !.edges = @ \union out]
                    ELSE [st EXCEPT !.stack[last(index)] = @ \union out]
    IN done[Len(merged)].edges
=============================================================================
