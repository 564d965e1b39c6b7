-------------------------- MODULE KubegraphMetadata --------------------------
(***************************************************************************)
(* The metadata of a kubegraph graph (crates/kubegraph/api/src/graph) says *)
(* which columns of its frames play which part.  It comes raw, from the    *)
(* frames of a connector, pinned, from the specification of a problem, or  *)
(* standard; it tells the dependency solver what a graph has, and frames   *)
(* are cast, joined and drawn by it.                                       *)
(*                                                                         *)
(* A table has columns and a sequence of rows; Null is a missing value.    *)
(***************************************************************************)
EXTENDS Naturals, Sequences, FiniteSets, TLC
LOCAL INSTANCE SequencesExt
LOCAL INSTANCE FiniteSetsExt
LOCAL INSTANCE Functions

Null == "null"

Core == {"capacity", "connector", "flow", "function", "interval_ms",
         "name", "sink", "src", "supply", "unit_cost"}

(* The columns that GraphMetadataRaw has fields for; the others are extras. *)
Own == {"interval_ms", "name", "sink", "src"}

StandardName == [k \in Core |-> IF k = "interval_ms" THEN "le" ELSE k]

Standard     == [type |-> "standard"]
Pinned(cols) == [type |-> "pinned", cols |-> cols]
Raw(own, extras) == [type |-> "raw", own |-> own, extras |-> extras]

DefaultRaw == Raw([k \in Own |-> StandardName[k]], <<>>)

(* The key of an extra column: JSON's for the unit cost. *)
ExtraKey(k) == IF k = "unit_cost" THEN "unitCost" ELSE StandardName[k]

(* capacity(), ..., unit_cost() *)
Column(m, k) ==
    CASE m.type = "standard" -> StandardName[k]
      [] m.type = "pinned"   -> m.cols[k]
      [] m.type = "raw"      ->
            IF k \in Own THEN m.own[k]
            ELSE IF ExtraKey(k) \in DOMAIN m.extras THEN m.extras[ExtraKey(k)] ELSE StandardName[k]

(* all_node_inputs: what a problem asks for. *)
NodeInputs(m) == {Column(m, k) : k \in Core \ {"flow"}}

(* all_node_inputs_raw: what a graph says it has. *)
NodeInputsRaw(m) ==
    IF m.type = "raw"
    THEN {Column(m, k) : k \in Own \union {"connector"}} \union Range(m.extras)
    ELSE {Column(m, k) : k \in Core \ {"flow", "function"}}

ToPinned(m) == Pinned([k \in Core |-> Column(m, k)])

(* Mutant: the names of the extras are taken for their columns. *)
ToRawNames(m) ==
    IF m.type = "raw" THEN m
    ELSE Raw([k \in Own |-> Column(m, k)],
             [x \in {StandardName[k] : k \in Core \ Own} |-> x])

(* to_raw: the extras are stored under their standard names. *)
ToRaw(m) ==
    IF m.type = "raw" THEN m
    ELSE Raw([k \in Own |-> Column(m, k)],
             [x \in {StandardName[k] : k \in Core \ Own} |->
                 Column(m, CHOOSE k \in Core : StandardName[k] = x)])

(* GraphMetadataRaw::insert *)
InsertColumn(m, column) ==
    IF \E k \in Own : StandardName[k] = column
    THEN [m EXCEPT !.own = [k \in Own |-> IF StandardName[k] = column THEN column ELSE @[k]]]
    ELSE [m EXCEPT !.extras = (column :> column) @@ @]

(* A column without rows, or with nothing in it, is left out. *)
Holds(table, c) == \E i \in DOMAIN table.rows : table.rows[i][c] # Null

(* GraphMetadataRaw::from_polars *)
FromPolars(table) ==
    FoldSet(LAMBDA c, m : InsertColumn(m, c), DefaultRaw, {c \in table.cols : Holds(table, c)})

-----------------------------------------------------------------------------
(* Frames *)

Empty == [cols |-> {}, rows |-> <<>>]

Cast == [node |-> {"name", "capacity", "supply", "unit_cost"},
         edge |-> {"src", "sink", "capacity", "unit_cost"}]

(* LazyFrame::cast: a select, which needs every column it renames. *)
Castable(table, ty, from) == {Column(from, k) : k \in Cast[ty]} \subseteq table.cols
CastTo(table, ty, from, to) ==
    IF table = Empty THEN Empty
    ELSE LET part(c) == CHOOSE k \in Cast[ty] : Column(to, k) = c
             cols == {Column(to, k) : k \in Cast[ty]}
         IN  [cols |-> cols,
              rows |-> [i \in DOMAIN table.rows |->
                           [c \in cols |-> table.rows[i][Column(from, part(c))]]]]

(* GraphEdges::from_iter: the frames that are not empty, one under the other, and
   Null where one lacks a column of another. *)
Collect(tables) ==
    LET cols == UNION {tables[i].cols : i \in DOMAIN tables}
        wide(row) == row @@ [c \in cols |-> Null]
    IN  [cols |-> cols,
         rows |-> FoldLeft(LAMBDA rows, t : rows \o [i \in DOMAIN t.rows |-> wide(t.rows[i])],
                           <<>>, tables)]

(* LazyFrame::alias, mark_as_static: the function of a static edge. *)
MarkAsStatic(table, m) ==
    IF table = Empty THEN table
    ELSE [cols |-> table.cols \union {Column(m, "function")},
          rows |-> [i \in DOMAIN table.rows |->
                       (Column(m, "function") :> "static") @@ table.rows[i]]]

(* transform_petgraph_nodes: a name stands for its place among the names there
   are, the last one if it is there twice. *)
NameMap(nodes, m) ==
    LET names == SelectSeq([i \in DOMAIN nodes.rows |-> nodes.rows[i][Column(m, "name")]],
                           LAMBDA x : x # Null)
    IN  [x \in Range(names) |-> Max({i \in DOMAIN names : names[i] = x})]

(* transform_petgraph_edges: an edge whose ends are not all known is an error. *)
Drawable(edges, nodes, m) ==
    \A i \in DOMAIN edges.rows : \A end \in {"src", "sink"} :
        edges.rows[i][Column(m, end)] \in DOMAIN NameMap(nodes, m)
Drawn(edges, nodes, m) ==
    [i \in DOMAIN edges.rows |->
        [end \in {"src", "sink"} |-> NameMap(nodes, m)[edges.rows[i][Column(m, end)]]]]

-----------------------------------------------------------------------------
(* Small tables and metadata: each part under its standard or another name. *)
Other == [k \in Core |-> k \o "_"]
Renamed(S) == Pinned([k \in Core |-> IF k \in S THEN Other[k] ELSE StandardName[k]])
Metadata == {Standard} \union {Renamed(S) : S \in SUBSET (Core \ {"connector", "flow", "sink"})}
Few == {Standard} \union {Renamed(S) : S \in SUBSET {"name", "src", "unit_cost"}}
                 \union {Renamed(Core), Renamed({"function"})}
Tables(m) ==
    LET table(cols, rows) == [cols |-> {Column(m, k) : k \in cols},
                              rows |-> [i \in DOMAIN rows |->
                                  [c \in {Column(m, k) : k \in cols} |->
                                      rows[i][CHOOSE k \in cols : Column(m, k) = c]]]]
        Node(x) == [k \in Cast["node"] |-> IF k = "name" THEN x ELSE k \o x]
        Edge(x, y) == [k \in Cast["edge"] |-> CASE k = "src" -> x [] k = "sink" -> y [] OTHER -> k \o x]
    IN  [nodes |-> {table(Cast["node"], <<Node(x), Node(y)>>) : x, y \in {"a", "b", Null}},
         edges |-> {table(Cast["edge"], <<Edge(x, y)>>) : x, y \in {"a", "b"}}]

(* A graph keeps the names of its columns, whatever form its metadata takes, the
   unit cost apart: it is stored as "unit_cost" and looked for as "unitCost".  And
   a frame is described by the names its columns have. *)
NamesSurvive ==
    /\ \A m \in Metadata :
          /\ \A k \in Core \ {"unit_cost"} : Column(ToRaw(m), k) = Column(m, k)
          /\ \A k \in Core : Column(ToPinned(m), k) = Column(m, k)
    /\ \A cols \in SUBSET {"name", "le", "capacity", "unit_cost", "color"} :
          LET m == FromPolars([cols |-> cols, rows |-> <<[c \in cols |-> c]>>])
          IN  cols \subseteq NodeInputsRaw(m) /\ \A k \in Core : Column(m, k) = StandardName[k]

(* Casting a graph to other names and back changes nothing, an edge is drawn
   between the nodes whose names it has, as long as the unnamed ones come last and
   no name is there twice, and static edges are joined without being lost. *)
FramesSurvive ==
    \A from, to \in Few :
        \A nodes \in Tables(from).nodes, edges \in Tables(from).edges :
            LET there(t, ty) == CastTo(t, ty, from, to)
                name(i)  == nodes.rows[i][Column(from, "name")]
                drawn    == Drawn(edges, nodes, from)
                moved    == there(edges, "edge")
                joined   == Collect(<<MarkAsStatic(moved, to), Empty, moved>>)
            IN  /\ Castable(nodes, "node", from) /\ Castable(edges, "edge", from)
                /\ CastTo(there(nodes, "node"), "node", to, from) = nodes
                /\ CastTo(there(edges, "edge"), "edge", to, from) = edges
                /\ name(1) # Null /\ name(1) # name(2) /\ Drawable(edges, nodes, from) =>
                      \A end \in {"src", "sink"} :
                          name(drawn[1][end]) = edges.rows[1][Column(from, end)]
                /\ Len(joined.rows) = 2 /\ [i \in 1 .. 2 |-> joined.rows[i][Column(to, "function")]] = <<"static", Null>>

MetadataHolds == NamesSurvive /\ FramesSurvive
=============================================================================
