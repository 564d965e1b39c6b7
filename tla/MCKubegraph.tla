---------------------------- MODULE MCKubegraph ----------------------------
(***************************************************************************)
(* A connector of two types, two problems and three functions; beside them *)
(* the bounded scripts, metadata and frames of the two pure modules.       *)
(***************************************************************************)
EXTENDS KubegraphVm, KubegraphLazy, KubegraphMetadata
CONSTANTS x, p1, p2

\* An annotation between two functions that make edges: the first of them
\* does not need it.
AllFunctions == 1 .. 3
FinalFunctions == {1, 3}
ProvidedBy == <<{"capacity"}, {"supply"}, {"capacity"}>>
RequiredBy == <<{"name"}, {"name"}, {"supply"}>>
AllColumns == {"name", "supply", "capacity", "function"}
NodeColumns == {"name"}
Connectors == {x}
Types == {"http", "local"}
Problems == {p1, p2}

\* Whatever functions there are, the solver plans as it should; and what a frame
\* holds is neither changed by a script beyond what it says nor lost when the
\* frame is named anew, cast or joined (the crates dependency, vm/lazy, api).  It
\* is asked once, where a run begins.
PlansAndFramesHold == Init => PlansHold /\ LazyHolds /\ MetadataHolds
=============================================================================
