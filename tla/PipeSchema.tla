------------------------------ MODULE PipeSchema ------------------------------
(***************************************************************************)
(* The columns of the DeltaLake tables in which a Dash pipe notes messages *)
(* (crates/dash/pipe/provider/src/schema).  They come from the JSON schema *)
(* of a message's type, from the fields of a model, or from the Arrow      *)
(* schema inferred from the first message; and they become an Arrow schema *)
(* for the query planner.  What a table must be good for is that every row *)
(* it is given fits its columns, and nothing of the row is lost.           *)
(*                                                                         *)
(* Nothing is a schema without a column (None), Err one that is refused.   *)
(***************************************************************************)
EXTENDS Naturals, Sequences, FiniteSets, TLC
LOCAL INSTANCE SequencesExt
LOCAL INSTANCE Functions

Scalar(p)           == [t |-> p]
ListOf(type, nulls) == [t |-> "list", of |-> type, nulls |-> nulls]
Struct(cols)        == [t |-> "struct", cols |-> cols]
Nothing             == [t |-> "nothing"]
Err                 == [t |-> "error"]

Col(type, null) == [type |-> type, null |-> null]

(* The columns there are, unless one is refused. *)
Columns(cols) ==
    IF \E c \in DOMAIN cols : cols[c].type = Err THEN Err
    ELSE Struct(Restrict(cols, {c \in DOMAIN cols : cols[c].type # Nothing}))

-----------------------------------------------------------------------------
(* JSON schemas.  A schema is TRUE or FALSE, a reference, a union of types, anyOf
   others, or something else, of which nothing is made. *)
Dynamic      == [s |-> "any"]
Never        == [s |-> "never"]
Reference(n) == [s |-> "ref", to |-> n]
AnyOf(of)    == [s |-> "anyOf", of |-> of]
OneOf(of)    == [s |-> "oneOf", of |-> of]
Types(types, items, props, required) ==
    [s |-> "type", types |-> types, items |-> items, props |-> props, required |-> required]
Simple(types) == Types(types, Never, <<>>, {})

IsNull(schema) == schema.s = "type" /\ schema.types = <<"null">>

Native == [boolean |-> "Boolean", integer |-> "Long", number |-> "Double", string |-> "String"]

(* A type that may be null makes a nullable column. *)
Nullable(null, types) == null \/ Len(types) = 2

(* to_data_column and, for the items of an array, to_array_data_type. *)
RECURSIVE JsonColumn(_, _, _, _)
JsonColumn(defs, schema, null, item) ==
    LET instance(type) ==
            CASE type = "null"  -> Nothing
              [] type \in DOMAIN Native -> Scalar(Native[type])
              [] type = "array" ->
                    LET of == JsonColumn(defs, schema.items, FALSE, TRUE)
                    IN  IF of.type \in {Err, Nothing} THEN of.type ELSE ListOf(of.type, of.null)
              [] type = "object" ->
                    Columns([c \in DOMAIN schema.props |->
                                JsonColumn(defs, schema.props[c], c \notin schema.required, FALSE)])
        union(seq, is(_), column(_)) ==    \* of two, one must be null
            CASE seq = <<>>   -> Col(Nothing, null)
              [] Len(seq) = 1 -> column(seq[1])
              [] Len(seq) = 2 /\ is(seq[1]) -> column(seq[2])
              [] Len(seq) = 2 /\ ~is(seq[1]) /\ is(seq[2]) -> column(seq[1])
              [] OTHER        -> Col(Err, null)
    IN  CASE schema.s = "any"   -> Col(Err, null)
          [] schema.s \in {"never", "oneOf"} -> Col(Nothing, null)
          [] schema.s = "ref"   ->
                IF schema.to \in DOMAIN defs THEN JsonColumn(defs, defs[schema.to], null, item)
                ELSE Col(Err, null)
          [] schema.s = "type"  ->
                union(schema.types, LAMBDA t : t = "null",
                      LAMBDA t : Col(instance(t), Nullable(null, schema.types)))
          [] schema.s = "anyOf" ->
                IF item THEN Col(Nothing, null)
                ELSE union(schema.of, IsNull, LAMBDA s : JsonColumn(defs, s, null, FALSE))

(* FieldColumns for RootSchema: no columns at all if the value is dynamic. *)
TableOfSchema(defs, root) ==
    IF "value" \in DOMAIN root.props /\ root.props["value"] = Dynamic THEN Struct(<<>>)
    ELSE JsonColumn(defs, root, FALSE, FALSE).type

-----------------------------------------------------------------------------
(* The fields of a model, in order: the root, then each with the names on its
   path, a kind, and whether it is optional. *)
Field(path, kind, optional) == [path |-> path, kind |-> kind, optional |-> optional]

Kinds == [Boolean |-> "Boolean", Integer |-> "Long", Number |-> "Double", String |-> "String",
          OneOfStrings |-> "String", DateTime |-> "Timestamp", Ip |-> "String", Uuid |-> "String"]

Built(kind) ==
    CASE kind \in DOMAIN Kinds     -> Scalar(Kinds[kind])
      [] kind = "StringArray"      -> [t |-> "strings"]
      [] kind = "Object"           -> [t |-> "object", at |-> <<>>]
      [] OTHER                     -> [t |-> "other"]     \* ObjectArray, a dynamic object

(* FieldBuilder::push *)
RECURSIVE Push(_, _, _)
Push(node, path, field) ==
    LET name == Head(path)
        with(kid) == [node EXCEPT !.type.at = (name :> kid) @@ @]
        kid == IF name \in DOMAIN node.type.at THEN node.type.at[name]
               ELSE [type |-> Built("Object"), optional |-> field.optional]
        new == Push(kid, Tail(path), field)
    IN  CASE node.type.t # "object" -> [type |-> Err]
          [] node.type.t = "object" /\ Len(path) > 1 -> IF new.type = Err THEN new ELSE with(new)
          [] node.type.t = "object" /\ Len(path) = 1 ->
                IF field.kind = "None" THEN node
                ELSE with([type |-> Built(field.kind), optional |-> field.optional])

(* TryFrom<FieldBuilder> for StructField *)
RECURSIVE Build(_)
Build(node) ==
    Col(CASE node.type.t = "strings" -> ListOf(Scalar("String"), node.optional)
          [] node.type.t = "object"  -> Columns([c \in DOMAIN node.type.at |-> Build(node.type.at[c])])
          [] node.type.t = "other"   -> Err
          [] OTHER                   -> node.type,
        node.optional)

TableOfFields(fields) ==
    IF fields = <<>> THEN Struct(<<>>)
    ELSE LET root == [type |-> Built("Object"), optional |-> fields[1].optional]
             tree == FoldLeft(LAMBDA node, f : IF node.type = Err THEN node ELSE Push(node, f.path, f),
                              root, Tail(fields))
         IN  IF tree.type = Err THEN Err ELSE Build(tree).type

-----------------------------------------------------------------------------
(* Arrow schemas. *)

Narrow == [Boolean |-> "Boolean", Int8 |-> "Byte", UInt8 |-> "Byte", Int16 |-> "Short",
           UInt16 |-> "Short", Int32 |-> "Integer", UInt32 |-> "Integer", Int64 |-> "Long",
           UInt64 |-> "Long", Float32 |-> "Float", Float64 |-> "Double", Decimal |-> "Decimal",
           Binary |-> "Binary", Utf8 |-> "String", Date32 |-> "Date", Date64 |-> "Date",
           Timestamp |-> "Timestamp"]

(* FieldSchema for DataType *)
RECURSIVE TableOfArrow(_)
TableOfArrow(type) ==
    CASE type.t = "Null"          -> Nothing
      [] type.t \in DOMAIN Narrow -> Scalar(Narrow[type.t])
      [] type.t = "list" ->
            LET of == TableOfArrow(type.of)
            IN  IF of \in {Err, Nothing} THEN of ELSE ListOf(of, type.nulls)
      [] type.t = "struct" ->
            Columns([c \in DOMAIN type.cols |->
                        Col(TableOfArrow(type.cols[c].type), type.cols[c].null)])
      [] OTHER -> Err                                  \* unions, maps, durations

Wide == [Boolean |-> "Boolean", Byte |-> "Int8", Short |-> "Int16", Integer |-> "Int32",
         Long |-> "Int64", Float |-> "Float32", Double |-> "Float64", Binary |-> "Binary",
         String |-> "Utf8", Date |-> "Date32", Timestamp |-> "Timestamp",
         TimestampNtz |-> "Timestamp"]

(* ToField, ToDataType *)
RECURSIVE ToArrow(_)
ToArrow(type) ==
    CASE type.t \in DOMAIN Wide -> Scalar(Wide[type.t])
      [] type.t = "list" ->
            LET of == ToArrow(type.of) IN IF of = Err THEN Err ELSE ListOf(of, type.nulls)
      [] type.t = "struct" ->
            Columns([c \in DOMAIN type.cols |-> Col(ToArrow(type.cols[c].type), type.cols[c].null)])
      [] OTHER -> Err                                  \* decimals and maps

(* infer_json_schema, of the first row alone: everything may be null. *)
RECURSIVE Infer(_)
Infer(value) ==
    CASE value.v = "null"    -> Scalar("Null")
      [] value.v = "boolean" -> Scalar("Boolean")
      [] value.v = "integer" -> Scalar("Int64")
      [] value.v = "number"  -> Scalar("Float64")
      [] value.v = "string"  -> Scalar("Utf8")
      [] value.v = "array"   -> ListOf(IF value.of = <<>> THEN Scalar("Null") ELSE Infer(value.of[1]), TRUE)
      [] value.v = "object"  -> Struct([c \in DOMAIN value.at |-> Col(Infer(value.at[c]), TRUE)])

TableOfRow(row) == TableOfArrow(Infer(row))

-----------------------------------------------------------------------------
(* What the tables are for: rows, read from JSON. *)

Null       == [v |-> "null"]
Value(v)   == [v |-> v]
Array(seq) == [v |-> "array", of |-> seq]
Object(at) == [v |-> "object", at |-> at]

Natives == [Boolean |-> {"boolean"}, Long |-> {"integer"}, Double |-> {"integer", "number"},
            String |-> {"string"}, Timestamp |-> {"string"}]

(* A row fits when nothing that must be there is missing, everything is of its
   column's type, and everything that is there has a column. *)
RECURSIVE Fits(_, _, _)
Fits(type, null, value) ==
    IF value.v = "null" THEN null
    ELSE CASE type.t = "list"   -> /\ value.v = "array"
                                   /\ \A i \in DOMAIN value.of : Fits(type.of, type.nulls, value.of[i])
           [] type.t = "struct" ->
                /\ value.v = "object"
                /\ \A n \in DOMAIN value.at : n \in DOMAIN type.cols \/ value.at[n] = Null
                /\ \A c \in DOMAIN type.cols :
                        Fits(type.cols[c].type, type.cols[c].null,
                             IF c \in DOMAIN value.at THEN value.at[c] ELSE Null)
           [] OTHER -> type.t \in DOMAIN Natives /\ value.v \in Natives[type.t]

(* The objects whose value at n is one of of[n], some names left out. *)
Objects(of, leave) ==
    UNION {{Object(at) : at \in {f \in [DOMAIN of \ out -> UNION {of[n] : n \in DOMAIN of}] :
                                    \A n \in DOMAIN f : f[n] \in of[n]}} : out \in SUBSET leave}

(* Some of the values a JSON schema admits. *)
RECURSIVE Admitted(_, _)
Admitted(defs, schema) ==
    CASE schema.s = "ref"   -> Admitted(defs, defs[schema.to])
      [] schema.s = "anyOf" -> UNION {Admitted(defs, schema.of[i]) : i \in DOMAIN schema.of}
      [] schema.s = "type"  ->
            UNION {CASE schema.types[i] = "array"  -> {Array(<<>>)} \cup
                                {Array(<<of>>) : of \in Admitted(defs, schema.items)}
                     [] schema.types[i] = "object" ->
                            Objects([n \in DOMAIN schema.props |-> Admitted(defs, schema.props[n])],
                                    DOMAIN schema.props \ schema.required)
                     [] OTHER -> {Value(schema.types[i])} : i \in DOMAIN schema.types}

(* The schemas schemars derives for the fields of a type: what must be there, and
   what need not: an option, or a field with a default. *)
Part    == [Part |-> Types(<<"object">>, Never, "x" :> Simple(<<"string">>) @@
                                                "y" :> Simple(<<"integer", "null">>), {"x"})]
Ints    == Types(<<"array">>, Simple(<<"integer">>), <<>>, {})
Musts   == {Simple(<<"boolean">>), Simple(<<"number">>), Reference("Part"), Ints,
            Types(<<"array">>, Ints, <<>>, {}), Types(<<"array">>, Reference("Part"), <<>>, {}),
            Types(<<"array">>, Simple(<<"integer", "null">>), <<>>, {})}
Options == {Simple(<<"integer">>), Simple(<<"string", "null">>), Simple(<<"null", "string">>),
            AnyOf(<<Reference("Part"), Simple(<<"null">>)>>),
            Types(<<"array", "null">>, Simple(<<"string">>), <<>>, {})}

(* A table made from the schema of a type takes every message of the type.  Left
   out, because the code drops or refuses them: unions, enums with data, maps. *)
JsonFits ==
    \A must \in Musts, option \in Options :
        LET root  == Types(<<"object">>, Never, "a" :> must @@ "b" :> option, {"a"})
            table == TableOfSchema(Part, root)
        IN  /\ table # Err
            /\ \A row \in Admitted(Part, root) : Fits(table, FALSE, row)

(* Some of the documents with given fields under a path. *)
RECURSIVE Documents(_, _)
Documents(fields, at) ==
    LET here == {i \in DOMAIN fields : Len(fields[i].path) = Len(at) + 1 /\
                                       SubSeq(fields[i].path, 1, Len(at)) = at}
        of(f) == CASE f.kind = "Integer"     -> {Value("integer")}
                   [] f.kind = "None"        -> {Null}
                   [] f.kind = "StringArray" -> {Array(<<Value("string")>>)}
                   [] f.kind = "Object"      -> Documents(fields, f.path)
                   [] OTHER                  -> {Value("string")}
        name(i) == Last(fields[i].path)
        byName(n) == fields[CHOOSE i \in here : name(i) = n]
    IN  Objects([n \in {name(i) : i \in here} |-> of(byName(n))],
                {name(i) : i \in {j \in here : fields[j].optional}})

FieldKinds == {"Integer", "DateTime", "StringArray", "ObjectArray", "None"}
FieldLists ==
    {<<Field(<<>>, "Object", FALSE), Field(<<"a">>, "Object", p),
       Field(<<"a", "b">>, kind, q), Field(<<"c">>, other, r)>> :
        kind \in FieldKinds, other \in FieldKinds, p \in BOOLEAN, q \in BOOLEAN, r \in BOOLEAN}

(* A table made from the fields of a model takes every document with these fields:
   only an array of objects has no columns. *)
FieldsFit ==
    \A fields \in FieldLists :
        LET table == TableOfFields(fields)
        IN  /\ table = Err <=> \E i \in DOMAIN fields : fields[i].kind = "ObjectArray"
            /\ table # Err =>
                  \A row \in Documents(fields, <<>>) : Fits(table, FALSE, row)

(* The columns a table was made with are the ones its Arrow schema has, apart
   from a timestamp's zone. *)
Zoned(scalar) == IF scalar.t = "TimestampNtz" THEN Scalar("Timestamp") ELSE scalar

ArrowSurvives ==
    \A p \in DOMAIN Wide, q \in DOMAIN Wide, n \in BOOLEAN :
        LET type(f(_)) == Struct("x" :> Col(f(Scalar(p)), n) @@
                                 "y" :> Col(ListOf(Struct("z" :> Col(f(Scalar(q)), ~n)), n), FALSE))
        IN  TableOfArrow(ToArrow(type(LAMBDA s : s))) = type(Zoned)

Firsts == {Value("boolean"), Value("number"), Array(<<Value("string")>>),
           Object("x" :> Value("integer"))}
Laters == Firsts \cup {Null, Array(<<>>)}

(* A table made from its first row takes that row, and the later ones whose fields
   it had: it has no column for what was null, empty or missing. *)
InferredFits ==
    \A x \in Laters, y \in Laters, u \in Laters \cup {Value("integer")}, v \in Laters :
        LET table == TableOfRow(Object("x" :> x @@ "y" :> y))
            like(new, old) == \/ new = Null
                              \/ old \in Firsts /\ (new = old \/ (new.v = "array" /\ old.v = "array")
                                                    \/ (new.v = "integer" /\ old.v = "number"))
        IN  Fits(table, FALSE, Object("x" :> u @@ "y" :> v)) <=> (like(u, x) /\ like(v, y))

=============================================================================
