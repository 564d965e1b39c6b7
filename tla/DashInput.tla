----------------------------- MODULE DashInput -----------------------------
(***************************************************************************)
(* Values for the fields of DashFields (crates/dash/provider/src/input.rs). *)
(* An InputTemplate takes the inputs of a job one by one, each for the     *)
(* field of a name, reads them leniently and completes them with defaults;  *)
(* an ItemTemplate reads an object of the cluster strictly.  A name of an  *)
(* input may hold indices of arrays, which the names of fields skip.       *)
(***************************************************************************)
EXTENDS DashFields

CONSTANTS
    Ordinal,    \* the segments that are numbers: Ordinal[i] is i - 1
    Items,      \* what the storages hold: model -> reference -> value
    Forms,      \* lists of fields of tasks: [fields, refs]
    Inputs      \* inputs of jobs: [name, value]

-----------------------------------------------------------------------------
(* What parse() makes of a string. *)
Truth == "true" :> TRUE @@ "false" :> FALSE
Numeral == "1" :> 1 @@ "9" :> 9
Formatted == "DateTime" :> {"2024-05-01T00:00:00Z"} @@ "Ip" :> {"10.0.0.1"} @@ "Uuid" :> {"4d9f"}
Now == Str("2024-05-01T00:00:00Z")

(* Names of inputs. *)
IsIndex(s) == s \in ToSet(Ordinal)
Index(s) == CHOOSE i \in DOMAIN Ordinal : Ordinal[i] = s
Base(name) == SelectSeq(name, LAMBDA s : ~IsIndex(s))

-----------------------------------------------------------------------------
(* A template: the fields, the models that some of them refer to, the value so
   far, and how it failed. *)
Template(form) ==
    [fields |-> form.fields, refs |-> form.refs, map |-> Null, err |-> "none"]

Failed(T) == T.err # "none"
Refuse(T) == [T EXCEPT !.err = "refused"]

Child(v, s) == IF Is(v, "obj") /\ s \in DOMAIN v.obj THEN v.obj[s] ELSE Null
Members(v) == IF Is(v, "obj") THEN v.obj ELSE <<>>

(* The cursor of get_field, from the value v of the field base down a path: it
   makes what is missing.  An array that is missing is made one too short for the
   index it is made for. *)
RECURSIVE Enter(_, _, _, _)
Enter(fields, v, base, path) ==
    IF path = <<>> THEN [v |-> v, err |-> "none"]
    ELSE IF IsIndex(Head(path))
    THEN IF base \notin DOMAIN fields THEN [v |-> v, err |-> "refused"]
         ELSE IF v = Null THEN [v |-> v, err |-> "crash"]
         ELSE IF ~Is(v, "arr") THEN [v |-> v, err |-> "refused"]
         ELSE LET i == Index(Head(path))
                  grown == [k \in 1 .. IF Len(v.arr) < i THEN i ELSE Len(v.arr) |->
                               IF k <= Len(v.arr) THEN v.arr[k] ELSE Null]
                  inner == Enter(fields, grown[i], base, Tail(path))
              IN [inner EXCEPT !.v = Arr([grown EXCEPT ![i] = inner.v])]
    ELSE LET s == Head(path)
             next == Append(base, s)
             inner == Enter(fields, Child(v, s), next, Tail(path))
         IN IF next \notin DOMAIN fields THEN [v |-> v, err |-> "unknown"]
            ELSE IF v # Null /\ ~Is(v, "obj") THEN [v |-> v, err |-> "refused"]
            ELSE [inner EXCEPT !.v = Obj((s :> inner.v) @@ Members(v))]

(* get_field *)
GetField(T, name) ==
    LET e == IF <<>> \in DOMAIN T.fields THEN Enter(T.fields, T.map, <<>>, name)
             ELSE [v |-> T.map, err |-> "refused"]
    IN [T EXCEPT !.map = e.v, !.err = IF e.err = "unknown" THEN "refused" ELSE e.err]

RECURSIVE ValueAt(_, _)
ValueAt(v, path) ==
    IF path = <<>> THEN v
    ELSE IF IsIndex(Head(path)) THEN ValueAt(v.arr[Index(Head(path))], Tail(path))
    ELSE ValueAt(v.obj[Head(path)], Tail(path))

RECURSIVE Put(_, _, _)
Put(v, path, new) ==
    IF path = <<>> THEN new
    ELSE IF IsIndex(Head(path))
    THEN Arr([v.arr EXCEPT ![Index(Head(path))] = Put(@, Tail(path), new)])
    ELSE Obj([v.obj EXCEPT ![Head(path)] = Put(@, Tail(path), new)])

Set(T, name, v) == [T EXCEPT !.map = Put(T.map, name, v)]

-----------------------------------------------------------------------------
(* Reading a value: what is stored, or a refusal, or a mismatch of types, which
   an optional field forgives to null. *)
Stored(v) == [out |-> "stored", v |-> v]
Mismatch == [out |-> "mismatch"]
Refusal == [out |-> "refused"]

(* assert_cmp and assert_string *)
Within(kind, v) == AtMost(kind.lo, <<Measure(v)>>) /\ AtMost(<<Measure(v)>>, kind.hi)

Checked(ok, v) == IF ok THEN Stored(v) ELSE Refusal

(* Mutant: a number spelled as a string is not compared with its bounds. *)
ReadsUnchecked(kind, v) ==
    CASE kind.type = "Number" /\ Is(v, "str") ->
             IF v.str \in DOMAIN Numeral THEN Stored(Num(Numeral[v.str])) ELSE Mismatch
      [] kind.type = "Number" /\ Is(v, "num") -> Checked(Within(kind, v), v)
      [] kind.type = "Boolean" /\ Is(v, "bool") -> Stored(v)
      [] kind.type = "String" /\ Is(v, "str") -> Checked(Within(kind, v), v)
      [] kind.type = "OneOfStrings" /\ Is(v, "str") -> Checked(v.str \in kind.choices, v)
      [] kind.type \in Formats /\ Is(v, "str") -> Checked(v.str \in Formatted[kind.type], v)
      [] OTHER -> Mismatch

(* The primitive kinds of update_field_value_impl. *)
Reads(kind, v) ==
    CASE kind.type = "Boolean" /\ Is(v, "bool") -> Stored(v)
      [] kind.type = "Boolean" /\ Is(v, "str") ->
             IF v.str \in DOMAIN Truth THEN Stored(Bool(Truth[v.str])) ELSE Refusal
      [] kind.type = "Number" /\ Is(v, "num") -> Checked(Within(kind, v), v)
      [] kind.type = "Number" /\ Is(v, "str") ->
             IF v.str \in DOMAIN Numeral
             THEN Checked(Within(kind, Num(Numeral[v.str])), Num(Numeral[v.str])) ELSE Mismatch
      [] kind.type = "String" /\ Is(v, "str") -> Checked(Within(kind, v), v)
      [] kind.type = "OneOfStrings" /\ Is(v, "str") -> Checked(v.str \in kind.choices, v)
      [] kind.type \in Formats /\ Is(v, "str") -> Checked(v.str \in Formatted[kind.type], v)
      [] OTHER -> Mismatch

(* Those of an ItemTemplate: a number or a truth value is never spelled out. *)
ItemReads(kind, v) ==
    IF kind.type \in {"Boolean", "Number"} /\ Is(v, "str") THEN Mismatch ELSE Reads(kind, v)

Forgives(T, v, optional) == IF optional /\ v = Null THEN T ELSE Refuse(T)

Settle(T, name, v, optional, r) ==
    CASE r.out = "stored" -> Set(T, name, r.v)
      [] r.out = "mismatch" -> Forgives(T, v, optional)
      [] r.out = "refused" -> Refuse(T)

Strings(seq) == SelectSeq(seq, LAMBDA v : Is(v, "str"))

Keys(v) == SelectSeq(Segments, LAMBDA s : s \in DOMAIN v.obj)

(* get_by_field: a string for an object is a reference to an item of the model. *)
GetByField(T, name, ref) ==
    IF /\ Base(name) \in DOMAIN T.refs /\ T.refs[Base(name)] \in DOMAIN Items
       /\ ref \in DOMAIN Items[T.refs[Base(name)]]
    THEN <<Items[T.refs[Base(name)]][ref]>> ELSE <<>>

(* update_field_value_impl *)
RECURSIVE Update(_, _, _, _)
Update(T, name, v, inherited) ==
    LET U == GetField(T, name)
        field == U.fields[Base(name)]
        type == field.kind.type
        optional == inherited \/ field.optional
    IN CASE Failed(T) -> T
         [] ~Failed(T) /\ Failed(U) -> U
         [] OTHER ->
            CASE type = "None" -> Set(U, name, Null)
              [] type = "StringArray" /\ Is(v, "str") -> Set(U, name, Arr(<<v>>))
              [] type = "StringArray" /\ Is(v, "arr") -> Set(U, name, Arr(Strings(v.arr)))
              [] type = "Object" /\ Is(v, "str") ->
                     LET item == GetByField(U, name, v.str)
                     IN IF item = <<>> THEN Refuse(U) ELSE Update(U, name, item[1], optional)
              [] type = "Object" /\ Is(v, "obj") /\ field.kind.form = "Dynamic" -> Set(U, name, v)
              [] type = "Object" /\ Is(v, "obj") /\ field.kind.form # "Dynamic" ->
                     FoldLeft(LAMBDA W, s : Update(W, Append(name, Snake[s]), v.obj[s], optional),
                              U, Keys(v))
              [] type = "ObjectArray" /\ Is(v, "arr") ->
                     FoldLeft(LAMBDA W, i : Update(W, Append(name, Ordinal[i]), v.arr[i], optional),
                              U, [i \in 1 .. Len(v.arr) |-> i])
              [] OTHER -> Settle(U, name, v, optional, Reads(field.kind, v))

(* update_field_string_impl *)
UpdateString(T, name, s) ==
    LET U == GetField(T, name)
        field == U.fields[Base(name)]
        type == field.kind.type
        item == GetByField(U, name, s)
    IN CASE Failed(T) -> T
         [] ~Failed(T) /\ Failed(U) -> U
         [] OTHER ->
            CASE type = "None" -> Set(U, name, Null)
              [] type = "Object" ->
                     IF item = <<>> THEN Refuse(U) ELSE Update(U, name, item[1], field.optional)
              [] type = "StringArray" -> Update(U, name, Str(s), field.optional)
              [] type = "ObjectArray" -> IF field.optional /\ s = "" THEN U ELSE Refuse(U)
              [] OTHER -> LET r == Reads(field.kind, Str(s))
                          IN IF r.out = "stored" THEN Set(U, name, r.v) ELSE Refuse(U)

-----------------------------------------------------------------------------
(* assert_fill_optional *)
FillOptional(T, optional) == IF optional THEN T ELSE Refuse(T)

DefaultOf(kind) == IF kind.type = "DateTime" THEN Now ELSE kind.default[1]

Made(T, name, v) == IF ValueAt(T.map, name) = Null THEN Set(T, name, v) ELSE T

(* Mutant: a field is optional only by itself. *)
RECURSIVE FillAlone(_, _, _, _)
FillAlone(T, name, inherited, whole) ==
    LET U == GetField(T, name)
        field == U.fields[Base(name)]
        Below(W) == FoldSet(LAMBDA c, X : FillAlone(X, Append(name, Last(c)), FALSE, TRUE),
                            W, Children(field))
    IN CASE Failed(T) -> T
         [] ~Failed(T) /\ Failed(U) -> U
         [] OTHER ->
            CASE field.kind.type = "None" -> Set(U, name, Null)
              [] field.kind.type \in {"StringArray", "ObjectArray"} -> Made(U, name, Arr(<<>>))
              [] field.kind.type = "Object" -> Below(Made(U, name, Obj(<<>>)))
              [] OTHER -> IF ValueAt(U.map, name) # Null THEN U
                          ELSE IF field.kind.default = <<>> THEN FillOptional(U, field.optional)
                          ELSE Set(U, name, DefaultOf(field.kind))

(* fill_default_value: whole says that an array is meant and not one of its
   elements.  What is optional makes everything below it optional. *)
RECURSIVE Fill(_, _, _, _)
Fill(T, name, inherited, whole) ==
    LET U == GetField(T, name)
        field == U.fields[Base(name)]
        type == field.kind.type
        optional == inherited \/ field.optional
        Below(W) == FoldSet(LAMBDA c, X : Fill(X, Append(name, Last(c)), optional, TRUE),
                            W, Children(field))
        Elements(W) ==
            LET v == ValueAt(W.map, name)
                n == IF Is(v, "arr") THEN Len(v.arr) ELSE 0
            IN FoldLeft(LAMBDA X, i : Fill(X, Append(name, Ordinal[i]), optional, FALSE),
                        W, [i \in 1 .. n |-> i])
    IN CASE Failed(T) -> T
         [] ~Failed(T) /\ Failed(U) -> U
         [] OTHER ->
            CASE type = "None" -> Set(U, name, Null)
              [] type = "StringArray" -> Made(U, name, Arr(<<>>))
              [] type = "Object" \/ (type = "ObjectArray" /\ ~whole) ->
                     Below(Made(U, name, Obj(<<>>)))
              [] type = "ObjectArray" /\ whole -> Elements(Made(U, name, Arr(<<>>)))
              [] OTHER -> IF ValueAt(U.map, name) # Null THEN U
                          ELSE IF field.kind.default = <<>> THEN FillOptional(U, optional)
                          ELSE Set(U, name, DefaultOf(field.kind))

(* finalize *)
Finish(T) == Fill(T, <<>>, FALSE, TRUE)

(* update_fields, then finalize *)
Answer(form, inputs) ==
    Finish(FoldLeft(LAMBDA T, i : Update(T, i.name, i.value, FALSE), Template(form), inputs))

-----------------------------------------------------------------------------
(* An ItemTemplate: what the fields do not know of is passed over. *)
TryGetField(T, name) ==
    LET e == IF <<>> \in DOMAIN T.fields THEN Enter(T.fields, T.map, <<>>, name)
             ELSE [v |-> T.map, err |-> "refused"]
    IN [T EXCEPT !.map = e.v, !.err = e.err]

RECURSIVE ItemUpdate(_, _, _, _)
ItemUpdate(T, name, v, inherited) ==
    LET U == TryGetField(T, name)
        field == U.fields[Base(name)]
        type == field.kind.type
        optional == inherited \/ field.optional
    IN CASE Failed(T) -> T
         [] ~Failed(T) /\ U.err = "unknown" -> [U EXCEPT !.err = "none"]
         [] ~Failed(T) /\ Failed(U) /\ U.err # "unknown" -> U
         [] OTHER ->
            CASE type = "None" -> Set(U, name, Null)
              [] type = "StringArray" /\ Is(v, "arr") -> Set(U, name, Arr(Strings(v.arr)))
              [] type = "Object" /\ Is(v, "obj") /\ field.kind.form = "Dynamic" -> Set(U, name, v)
              [] type = "Object" /\ Is(v, "obj") /\ field.kind.form # "Dynamic" ->
                     FoldLeft(LAMBDA W, s : ItemUpdate(W, Append(name, Snake[s]), v.obj[s], optional),
                              U, Keys(v))
              [] type = "ObjectArray" /\ Is(v, "arr") ->
                     FoldLeft(LAMBDA W, i : ItemUpdate(W, Append(name, Ordinal[i]), v.arr[i], optional),
                              U, [i \in 1 .. Len(v.arr) |-> i])
              [] OTHER -> Settle(U, name, v, optional, ItemReads(field.kind, v))

(* fill_default_value of an ItemTemplate is the other's, word for word. *)
ItemFinish(T) == Fill(T, <<>>, FALSE, TRUE)

(* convert_model_item *)
ModelItem(form, v) == ItemFinish(ItemUpdate(Template(form), <<>>, v, FALSE))

-----------------------------------------------------------------------------
(* An input that is named through an array, without an index or with one, makes
   an object of the array or stops the program. *)
Through(form, name) ==
    \E k \in 0 .. Len(name) - 1 :
        LET above == SubSeq(name, 1, k)
        IN above \in DOMAIN form.fields /\ form.fields[above].kind.type = "ObjectArray"

Plain(form) == {i \in Inputs : ~Through(form, i.name)}
Apart(a, b) == ~IsPrefix(a.name, b.name) /\ ~IsPrefix(b.name, a.name)

Whole(form, v) ==
    \A n \in DOMAIN form.fields :
        (n # <<>> /\ ~Through(form, n) /\ \A k \in 0 .. Len(n) - 1 :
             form.fields[SubSeq(n, 1, k)].kind.type = "Object"
             /\ form.fields[SubSeq(n, 1, k)].kind.form # "Dynamic") =>
        LET Up(k) == form.fields[SubSeq(n, 1, k)].optional
        IN ValueAt(v, n) = Null =>
               \/ form.fields[n].kind.type = "None"
               \/ \E k \in 0 .. Len(n) : Up(k)

(* Whatever inputs a job has, if they are accepted then every field has a value
   unless something above it is optional, the value reads back strictly as it is,
   so that a default obeys the bounds a user's value obeys and nothing stored is of
   another type than its field, and inputs for fields that are apart may come in
   any order. *)
InputsAreSound ==
    \A form \in Forms : \A a \in Plain(form), b \in Plain(form) :
        LET v == Answer(form, <<a, b>>)
        IN /\ ~Failed(v) => /\ Whole(form, v.map)
                            /\ ModelItem(form, v.map) = v
           /\ Apart(a, b) =>
                  LET w == Answer(form, <<b, a>>)
                  IN IF Failed(v) THEN Failed(w) ELSE w = v
=============================================================================
