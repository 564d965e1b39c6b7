----------------------------- MODULE DashFields -----------------------------
(***************************************************************************)
(* The fields of a model or of the input of a task                         *)
(* (crates/dash/api/src/model.rs, crates/dash/operator/src/validator/      *)
(* model.rs).  A field has a name, such as /a/b/, here the sequence of its  *)
(* segments, / being <<>>.  A list of fields is written by a user, or read *)
(* from the OpenAPI schema of a custom resource; the validator checks it   *)
(* and completes it with the objects the names pass through, and everything *)
(* else in dash walks the completed list from / along the children.        *)
(*                                                                         *)
(* Integer and Number are one type here: they are checked alike.           *)
(***************************************************************************)
EXTENDS Naturals, FiniteSets, SequencesExt

CONSTANTS
    Segments,   \* segments of names as they are typed, in the order of their text
    Snake,      \* Snake[s]: s in snake case
    Models,     \* the models that are Ready: name -> completed fields
    Specs,      \* lists of fields that users write
    Schemas     \* OpenAPI schemas of custom resources

ASSUME DashFieldsAssumption ==
    /\ IsInjective(Segments)
    /\ Snake \in [ToSet(Segments) -> ToSet(Segments)]
    /\ \A s \in ToSet(Segments) : Snake[Snake[s]] = Snake[s]

-----------------------------------------------------------------------------
(* JSON values. *)
Null == [null |-> TRUE]
Bool(b) == [bool |-> b]
Num(n) == [num |-> n]
Str(s) == [str |-> s]
Arr(seq) == [arr |-> seq]
Obj(members) == [obj |-> members]

Is(v, t) == t \in DOMAIN v

(* Kinds.  An option is a sequence of at most one element. *)
Aggregates == {"Object", "ObjectArray"}
Formats == {"DateTime", "Ip", "Uuid"}

Kind(type) == [type |-> type, default |-> <<>>, lo |-> <<>>, hi |-> <<>>,
               choices |-> {}, children |-> {}, form |-> "Static"]

(* What a user may write: the enumeration read from YAML has no StringArray. *)
SpecTypes == {"None", "Boolean", "Number", "String", "OneOfStrings", "Model"}
                 \union Formats \union Aggregates

Number(default, lo, hi) == [Kind("Number") EXCEPT !.default = default, !.lo = lo, !.hi = hi]
(* Static has lo and hi at its length. *)
Text(default, lo, hi) == [Kind("String") EXCEPT !.default = default, !.lo = lo, !.hi = hi]
OneOf(default, choices) ==
    [Kind("OneOfStrings") EXCEPT !.default = default, !.choices = choices]
Object(form, children) == [Kind("Object") EXCEPT !.form = form, !.children = children]
ObjectArray(children) == [Kind("ObjectArray") EXCEPT !.children = children]
Extended(model) == [type |-> "Model", model |-> model]

Field(kind, optional) == [kind |-> kind, optional |-> optional]

HasChildren(field) == field.kind.type \in Aggregates
Children(field) == field.kind.children

-----------------------------------------------------------------------------
(* The parser: a map from names to fields, unless it has refused one. *)
Parsed(map) == [ok |-> TRUE, map |-> map]
Refused == [ok |-> FALSE, map |-> <<>>]
Empty == Parsed(<<>>)

(* insert_field *)
Insert(p, name, field) ==
    IF p.ok /\ name \notin DOMAIN p.map THEN Parsed((name :> field) @@ p.map) ELSE Refused

(* assert_cmp *)
AtMost(a, b) == a = <<>> \/ b = <<>> \/ a[1] <= b[1]

Measure(v) == IF Is(v, "str") THEN Len(v.str) ELSE v.num

(* The checks parse_field makes of a kind. *)
Sound(kind) ==
    LET default == [i \in DOMAIN kind.default |-> Measure(kind.default[i])]
    IN IF kind.type \in {"Number", "String"}
       THEN AtMost(default, kind.hi) /\ AtMost(kind.lo, default) /\ AtMost(kind.lo, kind.hi)
       ELSE kind.type = "OneOfStrings" =>
                \A v \in ToSet(kind.default) : v.str \in kind.choices

ParseField(p, name, field) == IF Sound(field.kind) THEN Insert(p, name, field) ELSE Refused

(* merge_field *)
Merged(parent, field) == [field EXCEPT !.kind.children = {parent \o c : c \in @}]

MergeFields(p, parent, map) ==
    FoldSet(LAMBDA n, q : ParseField(q, parent \o n, Merged(parent, map[n])), p, DOMAIN map)

-----------------------------------------------------------------------------
(* finalize: a pass over the fields in the order of their names. *)
Rank(s) == CHOOSE i \in DOMAIN Segments : Segments[i] = s

RECURSIVE Before(_, _)
Before(a, b) ==
    \/ a = <<>> /\ b # <<>>
    \/ /\ a # <<>> /\ b # <<>>
       /\ \/ Rank(Head(a)) < Rank(Head(b))
          \/ Head(a) = Head(b) /\ Before(Tail(a), Tail(b))

InOrder(names) ==
    [i \in 1 .. Cardinality(names) |->
        CHOOSE n \in names : Cardinality({m \in names : Before(m, n)}) = i - 1]

ChildNames(map, name) == {n \in DOMAIN map : n # <<>> /\ Front(n) = name}

(* assert_aggregation_type *)
Aggregation(keys, name, field) ==
    HasChildren(field) => \A c \in Children(field) : IsPrefix(name, c) /\ c \in keys

(* Mutant: an object that is made is not told to its own parent. *)
CreateParentAlone(s, name) ==
    IF name \in DOMAIN s.map /\ name \notin s.made
    THEN s
    ELSE LET object == Object("Static", ChildNames(s.map, name))
         IN [s EXCEPT !.map = (name :> Field(object, FALSE)) @@ @, !.made = @ \union {name}]

(* create_parent_object: the object at name, if the user has not written one. *)
RECURSIVE CreateParent(_, _)
CreateParent(s, name) ==
    LET children == ChildNames(s.map, name)
    IN IF name \in DOMAIN s.map /\ name \notin s.made
       THEN [s EXCEPT !.ok = @ /\ (HasChildren(s.map[name]) => Children(s.map[name]) = children)]
       ELSE LET object == Object("Static", children)
                made == [s EXCEPT !.map = (name :> Field(object, FALSE)) @@ @,
                                  !.made = @ \union {name}]
            IN IF name = <<>> THEN made ELSE CreateParent(made, Front(name))

(* create_parent_objects: every name on the way up, the nearest first. *)
CreateParents(s, name) ==
    FoldLeft(LAMBDA t, i : CreateParent(t, SubSeq(name, 1, Len(name) - i)), s,
             [i \in 1 .. Len(name) |-> i])

Finalize(p) ==
    LET keys == DOMAIN p.map
        Pass(s, name) ==
            IF s.ok /\ Aggregation(keys, name, p.map[name])
            THEN CreateParents(s, name) ELSE [s EXCEPT !.ok = FALSE]
        end == FoldLeft(Pass, [ok |-> p.ok, map |-> p.map, made |-> {}],
                        InOrder(keys))
    IN IF end.ok THEN Parsed(end.map) ELSE Refused

(* validate_native_fields *)
ValidateNative(map) ==
    Finalize(FoldSet(LAMBDA n, p : ParseField(p, n, map[n]), Empty, DOMAIN map))

(* validate_fields *)
ValidateFields(spec) ==
    LET Step(p, f) ==
            IF f.kind.type \notin SpecTypes THEN Refused
            ELSE IF f.kind.type # "Model" THEN ParseField(p, f.name, Field(f.kind, f.optional))
            ELSE IF f.kind.model \in DOMAIN Models
                 THEN MergeFields(p, f.name, Models[f.kind.model]) ELSE Refused
    IN Finalize(FoldLeft(Step, Empty, spec))

(* validate_model of a Dynamic model *)
DynamicFields == <<>> :> Field(Object("Dynamic", {}), TRUE)

-----------------------------------------------------------------------------
(* The schema of a custom resource, a tree of
   [type, format, enum, default, lo, hi, nullable, oneOf, props].           *)
KindOf(prop, children) ==
    CASE prop.type = "boolean" -> [Kind("Boolean") EXCEPT !.default = prop.default]
      [] prop.type = "number" -> Number(prop.default, prop.lo, prop.hi)
      [] prop.type = "string" /\ prop.format # <<>> -> Kind(prop.format[1])
      [] prop.type = "string" /\ prop.format = <<>> ->
             IF prop.enum = {} THEN Text(prop.default, <<>>, <<>>) ELSE OneOf(prop.default, prop.enum)
      [] prop.type = "object" -> Object(IF prop.oneOf THEN "Enumerate" ELSE "Static", children)
      [] prop.type = "array" -> ObjectArray(children)

Known(prop) ==
    /\ prop.type \in {"boolean", "number", "string", "object", "array"}
    /\ prop.type = "string" => ToSet(prop.format) \subseteq Formats

ChildName(name, s) == Append(name, Snake[s])

RECURSIVE ParseProperty(_, _, _)
ParseProperty(p, name, prop) ==
    IF ~Known(prop) THEN Refused
    ELSE LET inner == IF prop.type \in {"object", "array"} THEN DOMAIN prop.props ELSE {}
             below == FoldSet(LAMBDA s, q : ParseProperty(q, ChildName(name, s), prop.props[s]),
                              p, inner)
             children == {ChildName(name, s) : s \in inner}
         IN Insert(below, name, Field(KindOf(prop, children), prop.nullable))

Metadata == <<"metadata">>

(* insert_custom_resource_metadata_fields *)
InsertMetadata(p) ==
    LET kept == Parsed([n \in DOMAIN p.map \ {<<>>, Metadata} |-> p.map[n]])
        Add(q, s, kind) == Insert(q, Append(Metadata, s), Field(kind, FALSE))
        parts == {Append(Metadata, s) : s \in {"annotations", "labels", "name"}}
        all == Insert(kept, Metadata, Field(Object("Static", parts), FALSE))
    IN IF ~p.ok THEN Refused
       ELSE Add(Add(Add(all, "annotations", Object("Dynamic", {})), "name", Text(<<>>, <<>>, <<>>)),
                "labels", Object("Dynamic", {}))

(* validate_custom_resource_definition_ref: finalized twice. *)
ValidateSchema(schema) ==
    LET once == Finalize(InsertMetadata(ParseProperty(Empty, <<>>, schema)))
    IN IF once.ok THEN ValidateNative(once.map) ELSE Refused

-----------------------------------------------------------------------------
(* The fields that the walk from / along the children meets. *)
Above(n) == {SubSeq(n, 1, i - 1) : i \in 1 .. Len(n)}

Walked(map) ==
    {n \in DOMAIN map : \A a \in Above(n) :
        a \in DOMAIN map /\ HasChildren(map[a]) /\ SubSeq(n, 1, Len(a) + 1) \in Children(map[a])}

(* A field below one that has no fields is accepted (create_parent_object returns
   Ok when get_children is None), and nothing will ever meet it. *)
Cut(map) ==
    {n \in DOMAIN map : \E a \in Above(n) : a \in DOMAIN map /\ ~HasChildren(map[a])}

(* The walk meets every field that is not cut off, and only fields.  One that
   lists itself passes the validator: assert_child takes it for a child. *)
Closed(map) ==
    /\ DOMAIN map \ Walked(map) = Cut(map)
    /\ \A n \in DOMAIN map : HasChildren(map[n]) =>
           \A c \in Children(map[n]) \ {n} : c \in DOMAIN map /\ Front(c) = n

Bounded(map) ==
    \A n \in DOMAIN map : \A v \in ToSet(map[n].kind.default) :
        map[n].kind.type \in {"Number", "String"} =>
            AtMost(map[n].kind.lo, <<Measure(v)>>) /\ AtMost(<<Measure(v)>>, map[n].kind.hi)

Good(p) == p.ok => Closed(p.map) /\ Bounded(p.map) /\ ValidateNative(p.map) = p

(* However a user spells a list of fields, and whatever schema a custom resource
   has: if the validator accepts it, every field hangs on the one above it, but for
   those that a user, and never a schema, puts below a field of a kind that has none;
   nothing the user wrote is lost, defaults obey their own bounds, validating the
   result again changes nothing, and a custom resource has its metadata and no field
   twice. *)
FieldsAreSound ==
    /\ \A spec \in Specs :
        LET p == ValidateFields(spec)
        IN /\ Good(p)
           /\ p.ok => \A i \in DOMAIN spec :
                spec[i].kind.type # "Model" =>
                    p.map[spec[i].name] = Field(spec[i].kind, spec[i].optional)
    /\ \A schema \in Schemas :
        LET p == ValidateSchema(schema)
        IN Good(p) /\ (p.ok => /\ Append(Metadata, "name") \in Children(p.map[Metadata])
                               /\ Cut(p.map) = {})
=============================================================================
