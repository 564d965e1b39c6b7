---------------------------- MODULE MCDashTasks ----------------------------
(***************************************************************************)
(* A job of a task with two templates; a function of two nodes, one that    *)
(* shares a node with it, and one of a node that nobody can run; and beside *)
(* them every form and environment that the constants below make.           *)
(***************************************************************************)
EXTENDS DashFunction, DashInput

CONSTANTS j1, j2, pod, pv, pvc, cm, f1, f2, f3, n1, n2, n3

(* Names, in the order in which the map of the fields has them. *)
Words == <<"0", "1", "B", "a", "annotations", "b", "labels", "metadata", "name">>
Snaked == [s \in ToSet(Words) |-> IF s = "B" THEN "b" ELSE s]
Given(name, kind, optional) == [name |-> name, kind |-> kind, optional |-> optional]

Native ==
    "m" :> Finalize(ParseField(ParseField(Empty,
        <<"a">>, Field(Kind("Boolean"), FALSE)),
        <<"b">>, Field(Kind("Ip"), TRUE))).map
Stock == "m" :> ("x" :> Obj("a" :> Bool(TRUE) @@ "b" :> Str("10.0.0.1"))
              @@ "y" :> Obj("B" :> Str("10.0.0.1")))

(* Fields as users write them: one, or three under each other. *)
Paths == {<<>>, <<"a">>, <<"a","b">>, <<"a","b","b">>, <<"b">>}
Parents ==
    {Kind("Boolean"), ObjectArray({<<"a","b">>}), ObjectArray({})}
    \union {Object("Static", c) : c \in {d \in SUBSET Paths : Cardinality(d) <= 2}}
Middles ==
    {Kind("Boolean"), ObjectArray({<<"a","b">>})}
    \union {Object("Static", c) : c \in {{}, {<<"a","b">>}, {<<"a","b","b">>}, {<<"a","b">>, <<"b">>}}}
Lasts == {Kind("Boolean"), Object("Static", {}), Object("Static", {<<"a","b","b">>})}
Threes == {<< <<"a">>, <<"a","b">>, <<"a","b","b">> >>, << <<>>, <<"a">>, <<"a","b">> >>,
           << <<"b">>, <<"a","b">>, <<"a","b","b">> >>, << <<>>, <<"a","b">>, <<"a","b","b">> >>}
Limits == {<<>>, <<1>>, <<2>>}
SpecsOf ==
    {<<Given(n, k, FALSE)>> : n \in Paths, k \in Parents}
    \union {<<Given(n[1], k, FALSE), Given(n[2], l, FALSE), Given(n[3], m, FALSE)>> :
              n \in Threes, k \in Parents, l \in Middles, m \in Lasts}
    \union {<<Given(<<"a">>, Number(d, l, h), FALSE)>> :
              d \in {<<>>, <<Num(1)>>, <<Num(2)>>}, l \in Limits, h \in Limits}
    \union {<<Given(<<"a">>, Text(d, l, h), FALSE)>> :
              d \in {<<>>, <<Str("x")>>, <<Str("xyz")>>}, l \in Limits, h \in Limits}
    \union {<<Given(<<"a">>, Extended("m"), FALSE), Given(n, Kind("Uuid"), FALSE)>> : n \in Paths}
    \union {<<Given(<<>>, Extended("n"), FALSE)>>}

(* Schemas of custom resources. *)
Leaf(t) == [type |-> t, format |-> <<>>, enum |-> {}, default |-> <<>>, lo |-> <<>>,
            hi |-> <<>>, nullable |-> FALSE, oneOf |-> FALSE, props |-> <<>>]
Inner(t, props) == [Leaf(t) EXCEPT !.props = props]
Props == {Leaf("boolean"), [Leaf("string") EXCEPT !.format = <<"Ip">>],
          [Leaf("string") EXCEPT !.format = <<"x">>],
          [Leaf("number") EXCEPT !.default = <<Num(3)>>, !.hi = <<2>>],
          Inner("object", "b" :> Leaf("boolean")), Inner("array", "b" :> Leaf("boolean")),
          Inner("object", <<>>)}
SchemasOf ==
    {Inner("object", p) : p \in UNION {[S -> Props] : S \in SUBSET {"a", "B", "metadata"} \union SUBSET {"b", "B"}}}

(* Forms of one field, of a field in a field and of a model, and inputs of them. *)
Leaves ==
    {Kind("Boolean"), [Kind("Boolean") EXCEPT !.default = <<Bool(TRUE)>>],
     Number(<<Num(1)>>, <<>>, <<1>>), Number(<<>>, <<2>>, <<>>), Number(<<Num(1)>>, <<2>>, <<9>>),
     Text(<<Str("x")>>, <<1>>, <<1>>), Text(<<>>, <<>>, <<2>>),
     OneOf(<<Str("1")>>, {"1", "x"}), OneOf(<<>>, {"x"}), Kind("Ip"),
     [Kind("DateTime") EXCEPT !.default = <<Str("now")>>], Kind("None"),
     Object("Dynamic", {}), ObjectArray({})}
Under == {Number(<<>>, <<>>, <<1>>), Kind("Ip"), Text(<<Str("x")>>, <<>>, <<>>)}
Fields ==
    {<<Given(<<"a">>, k, o)>> : k \in Leaves, o \in BOOLEAN}
    \union {<<Given(<<"a">>, Object(t, {<<"a","b">>}), o), Given(<<"a","b">>, k, FALSE)>> :
              t \in {"Static", "Enumerate"}, k \in Under, o \in BOOLEAN}
    \union {<<Given(<<"a">>, Extended("m"), FALSE), Given(<<"b">>, k, FALSE)>> :
              k \in {Kind("Ip"), ObjectArray({<<"b","b">>}), ObjectArray({})}}
    \union {<<Given(<<"a">>, ObjectArray({<<"a","b">>}), o), Given(<<"a","b">>, Kind("Ip"), FALSE)>> :
              o \in BOOLEAN}
RefsOf(spec) ==
    [n \in {spec[i].name : i \in {j \in DOMAIN spec : spec[j].kind.type = "Model"}} |-> "m"]
FormOf(spec) == [fields |-> ValidateFields(spec).map, refs |-> RefsOf(spec)]
FormsOf == {FormOf(spec) : spec \in {s \in Fields : ValidateFields(s).ok}}

Given2(name, value) == [name |-> name, value |-> value]
Plains == {Null, Bool(TRUE), Num(1), Num(9), Str("1"), Str("9"), Str("x"), Str("xyz"), Str("y"),
           Str("true"), Str("10.0.0.1"), Arr(<<>>), Arr(<<Str("x"), Num(1)>>), Obj(<<>>),
           Obj("b" :> Str("1")), Obj("B" :> Str("10.0.0.1")), Obj("b" :> Null),
           Obj("a" :> Bool(TRUE))}
InputsOf ==
    {Given2(<<"a">>, v) : v \in Plains}
    \union {Given2(n, v) : n \in {<<"a","b">>, <<"b">>},
              v \in {Null, Num(1), Num(9), Str("9"), Str("x"), Str("10.0.0.1"), Arr(<<>>),
                     Obj("b" :> Str("1"))}}
    \union {Given2(<<>>, v) : v \in {Null, Obj("a" :> Str("x")), Obj("a" :> Obj("b" :> Num(1)))}}
    \union {Given2(n, Str("x")) : n \in {<<"a","0">>, <<"a","0","b">>}}

(* The task of the jobs asks for a number. *)
OneNumber == FormOf(<<Given(<<"a">>, Number(<<>>, <<>>, <<1>>), FALSE)>>)
Right == <<Given2(<<"a">>, Num(1))>>
Wrong == <<Given2(<<"a">>, Num(9))>>
Numbers == <<"0", "1">>
Both == {Right, Wrong}
Fitting == {value \in Both : ~Failed(Answer(OneNumber, value))}
TwoDocs == <<<<pvc, pod>>, <<pod, cm>>>>

NodesOf == f1 :> {n1, n2} @@ f2 :> {n2} @@ f3 :> {n3}

Names == {"NATS_ACCOUNT", "PIPE_MODEL_IN", "PIPE_MODEL_OUT", "PIPE_ENCODER", "RUST_LOG",
          "AWS_ACCESS_KEY_ID", "PIPE_AI_MODEL"}
Mine == {"NATS_ACCOUNT", "PIPE_ENCODER", "AWS_ACCESS_KEY_ID", "PIPE_AI_MODEL"}
PluginsOf == {<<>>, "PIPE_AI_MODEL" :> Fixed("ai") @@ "PIPE_ENCODER" :> Fixed("ai")}
ContextsOf == {"RUST_LOG" :> "INFO", "RUST_LOG" :> "" @@ "PIPE_ENCODER" :> "json",
               "RUST_LOG" :> "INFO" @@ "AWS_ACCESS_KEY_ID" :> "key" @@ "PIPE_MODEL_IN" :> "model"}
Vars == {[name |-> n, var |-> v] : n \in Mine, v \in {Fixed("mine"), Fixed(""), Fixed(None), From}}
EnvsOf == {<<>>} \union {<<u>> : u \in Vars} \union {<<u, v>> : u \in Vars, v \in Vars}

(* The validator, the inputs and the environments read no state of a run, and are
   asked once, where it begins: what is accepted hangs together, a value reads back
   as it is whatever the order of its inputs, and a node gets what its user wrote
   last.                                                                      *)
FieldsHold == TasksInit => FieldsAreSound
InputsHold == TasksInit => InputsAreSound
EnvsHold   == TasksInit => EnvsAreSound
=============================================================================
