--------------------------- MODULE KubegraphLazy ---------------------------
(***************************************************************************)
(* The lazy virtual machine of kubegraph (crates/kubegraph/vm/lazy, with   *)
(* the values of crates/kubegraph/api/src/vm.rs and the frames of          *)
(* frame/mod.rs) runs the filter and the script of a NetworkFunction over  *)
(* the edges between all nodes.  A script is compiled, statement by        *)
(* statement, into instructions that refer to earlier ones by index:       *)
(* constants are folded, a name is looked up among the instructions, and   *)
(* one that nobody has set becomes a hole that is filled with a column     *)
(* when the code is called.  A call keeps what it computes as expressions  *)
(* over columns: they are worked out when a column is inserted.            *)
(*                                                                         *)
(* A number is counted in halves, so that rounding to integers shows.      *)
(***************************************************************************)
EXTENDS Integers, Sequences, FiniteSets, FiniteSetsExt, TLC
LOCAL INSTANCE SequencesExt

Num(n)  == [k |-> "num", v |-> n]
Bool(b) == [k |-> "bool", v |-> b]
At(i)  == [k |-> "ref", v |-> i]       \* Value::Variable: an instruction, from 1
Hole    == [k |-> "hole"]               \* DefineLocalValue { value: None }
Err     == [k |-> "err"]

(* An expression, of a script and of a column alike. *)
Lit(n)        == [op |-> "lit", val |-> Num(n)]
Name(x)       == [op |-> "name", name |-> x]
Apply(op, es) == [op |-> op, args |-> es]

IsScalar(v) == v.k \in {"num", "bool"}

Arithmetic == {"Add", "Sub", "Mul", "Div", "Neg"}
Comparison == {"Eq", "Ne", "Ge", "Gt", "Le", "Lt"}
Logic      == {"And", "Or", "Not"}
Builtin    == {"Max", "Min"}

(* What an operation takes: Feature or Number. *)
Takes(op) == IF op \in Logic THEN "bool" ELSE "num"

Pick(op, S) == IF op = "Max" THEN Max(S) ELSE Min(S)

(* The quotient of two numbers of halves, in halves. *)
Quotient(a, b) == IF b > 0 THEN (2 * a) \div b ELSE (-2 * a) \div (-b)

(* The operations of Number and Feature. *)
Operate(op, vs) ==
    LET a == vs[1].v  b == vs[Len(vs)].v IN
    CASE op = "Add" -> Num(a + b)
      [] op = "Sub" -> Num(a - b)
      [] op = "Mul" -> Num((a * b) \div 2)
      [] op = "Div" -> IF b = 0 THEN Err ELSE Num(Quotient(a, b))
      [] op = "Neg" -> Num(-a)
      [] op = "Eq"  -> Bool(a = b)
      [] op = "Ne"  -> Bool(a # b)
      [] op = "Ge"  -> Bool(a >= b)
      [] op = "Gt"  -> Bool(a > b)
      [] op = "Le"  -> Bool(a <= b)
      [] op = "Lt"  -> Bool(a < b)
      [] op = "And" -> Bool(a /\ b)
      [] op = "Or"  -> Bool(a \/ b)
      [] op = "Not" -> Bool(~a)
      [] op \in Builtin -> Num(Pick(op, {vs[i].v : i \in DOMAIN vs}))

-----------------------------------------------------------------------------
(* Compilation.  An instruction has a name, "" if none, and a statement: a value
   (Stmt::Identity is a reference), a hole, or an operation on values. *)

Expression(op, vs) == [k |-> "expr", op |-> op, args |-> vs]

(* The operators on Value: constants are folded at once; the builtins look at the
   kinds of their arguments only when they are called. *)
Fold(op, vs) ==
    IF op \in Builtin
    THEN CASE vs = <<>>                               -> Hole
           [] \A i \in DOMAIN vs : vs[i].k = "num"    -> Operate(op, vs)
           [] OTHER                                   -> Expression(op, vs)
    ELSE CASE \E i \in DOMAIN vs : vs[i].k \notin {Takes(op), "ref"} -> Err
           [] \A i \in DOMAIN vs : vs[i].k # "ref"    -> Operate(op, vs)
           [] OTHER                                   -> Expression(op, vs)

(* execute_register_instruction *)
Emit(code, name, stmt) ==
    [code |-> Append(code, [name |-> name, stmt |-> stmt]), val |-> At(Len(code) + 1)]

(* execute_get_local_value_by_name: the first instruction of that name, or the
   value it is known to have; a name that is new becomes a hole. *)
Lookup(code, name) ==
    LET named == {i \in DOMAIN code : code[i].name = name} IN
    IF named = {} THEN Emit(code, name, Hole)
    ELSE LET i == Min(named) IN
         [code |-> code,
          val |-> IF code[i].stmt.k \in {"num", "bool", "ref"} THEN code[i].stmt ELSE At(i)]

RECURSIVE Compile(_, _)
Compile(code, e) ==
    CASE e.op = "lit"  -> [code |-> code, val |-> e.val]
      [] e.op = "name" -> Lookup(code, e.name)
      [] OTHER ->
            LET step(acc, arg) ==
                    LET r == Compile(acc.code, arg)
                    IN  [code |-> r.code, vals |-> Append(acc.vals, r.val)]
                args == FoldLeft(step, [code |-> code, vals |-> <<>>], e.args)
                stmt == IF \E i \in DOMAIN args.vals : args.vals[i] = Err THEN Err
                        ELSE Fold(e.op, args.vals)
            IN  IF stmt.k \in {"expr", "hole"} THEN Emit(args.code, "", stmt)
                ELSE [code |-> args.code, val |-> stmt]

(* execute_script: a set names the value it is given. *)
CompileScript(script) ==
    FoldLeft(LAMBDA code, s : LET r == Compile(code, s.expr)
                              IN  Emit(r.code, s.name, r.val).code,
             <<>>, script)

(* execute_filter: an expression alone, whose value is dropped. *)
CompileFilter(e) ==
    LET r == Compile(<<>>, e) IN IF r.val = Err THEN Emit(r.code, "", Err).code ELSE r.code

Compiled(code) == \A i \in DOMAIN code : code[i].stmt.k # "err"

-----------------------------------------------------------------------------
(* Frames.  A frame has rows, and columns that give each row a value; a name that
   is no column, and kinds that do not go together, are errors of the engine. *)

(* A literal that meets a column is rounded to Int64, half away from zero. *)
Round(v) ==
    IF v.k = "bool" THEN v
    ELSE LET up(n) == 2 * ((n + 1) \div 2) IN Num(IF v.v >= 0 THEN up(v.v) ELSE -up(-v.v))

RECURSIVE Eval(_, _, _)
Eval(frame, e, row) ==
    LET vs == [i \in DOMAIN e.args |-> Eval(frame, e.args[i], row)] IN
    CASE e.op = "lit"  -> e.val
      [] e.op = "name" -> IF e.name \in DOMAIN frame.col THEN frame.col[e.name][row] ELSE Err
      [] e.op = "all"  -> Err
      [] e.op = "most" ->                \* Expr::max, Expr::min: of the whole column
            LET column == {Eval(frame, e.args[1], r) : r \in frame.rows} IN
            IF \E v \in column : v.k # "num" THEN Err ELSE Num(Pick(e.of, {v.v : v \in column}))
      [] OTHER -> IF \E i \in DOMAIN vs : vs[i].k # Takes(e.op) THEN Err ELSE Operate(e.op, vs)

(* insert_column, fill_column_with_*: with_column *)
WithColumn(frame, name, e) ==
    [frame EXCEPT !.col = (name :> [r \in frame.rows |-> Eval(frame, e, r)]) @@ @]

ApplyFilter(frame, e) ==
    LET rows == {r \in frame.rows : Eval(frame, e, r) = Bool(TRUE)}
    IN  [rows |-> rows,
         col  |-> [c \in DOMAIN frame.col |-> [r \in rows |-> frame.col[c][r]]]]

Filters(frame, e) == \A r \in frame.rows : Eval(frame, e, r).k = "bool"

(* The edges between all nodes, with both ends' columns, of the greatest
   capacity. *)
Fabric(nodes, capacity) ==
    LET rows == nodes.rows \X nodes.rows
        side(name, i) ==
            [c \in {IF d = "name" THEN name ELSE name \o "." \o d : d \in DOMAIN nodes.col} |->
                LET d == CHOOSE d \in DOMAIN nodes.col :
                             c = (IF d = "name" THEN name ELSE name \o "." \o d)
                IN  [r \in rows |-> nodes.col[d][r[i]]]]
    IN  [rows |-> rows,
         col  |-> ("capacity" :> [r \in rows |-> Num(capacity)]) @@ side("src", 1) @@ side("sink", 2)]

-----------------------------------------------------------------------------
(* Calls.  A variable is a scalar, a hole, or an expression over columns. *)

Slice(e) == [k |-> "slice", e |-> e]

AsSlice(v) == IF v.k = "slice" THEN v.e ELSE [op |-> "lit", val |-> Round(v)]

(* max and min of frame/mod.rs, from the last argument: a column is reduced to its
   greatest value before it is compared with a number, and meets no other. *)
Extreme(op, vs) ==
    LET step(arg, acc) ==
            CASE acc = Err                                -> Err
              [] arg.k = "slice" /\ acc.k = "slice"       -> Err
              [] arg.k = "num" /\ acc.k = "num"           -> Operate(op, <<acc, arg>>)
              [] OTHER ->
                    LET slice == IF arg.k = "slice" THEN arg ELSE acc
                        b     == IF arg.k = "slice" THEN acc ELSE arg
                    IN  Slice(Apply(op, <<[op |-> "most", of |-> op, args |-> <<slice.e>>],
                                          [op |-> "lit", val |-> b]>>))
    IN  FoldRight(step, Front(vs), Last(vs))

(* execute_expr_*: scalars give a scalar, a slice makes a slice; holes and scalars
   of the wrong kind are errors. *)
Execute(op, vs) ==
    CASE \E i \in DOMAIN vs : vs[i].k \notin {Takes(op), "slice"} -> Err
      [] \A i \in DOMAIN vs : vs[i].k # "slice" -> Operate(op, vs)
      [] op \in Builtin -> Extreme(op, vs)
      [] OTHER -> Slice(Apply(op, [i \in DOMAIN vs |-> AsSlice(vs[i])]))

(* Heap::get_number: a variable of the script, or a column of the edges. *)
GetNumber(ctx, name) ==
    IF name \notin DOMAIN ctx.vars THEN Slice(Name(name))
    ELSE IF ctx.vars[name].k = "bool" THEN Err ELSE ctx.vars[name]

(* Context::call, one instruction. *)
Perform(ctx, ins) ==
    LET fetch(v) == IF v.k = "ref" THEN ctx.stack[v.v] ELSE v
        stmt  == ins.stmt
        value == CASE stmt.k = "expr" ->
                          Execute(stmt.op, [i \in DOMAIN stmt.args |-> fetch(stmt.args[i])])
                   [] stmt.k = "ref" /\ stmt.v > Len(ctx.stack) -> Err
                   [] OTHER -> fetch(stmt)
        push(c, v) == [c EXCEPT !.stack = Append(@, v), !.ok = @ /\ v.k # "err"]
    IN  IF ~ctx.ok \/ value.k = "err" THEN [ctx EXCEPT !.ok = FALSE]
        ELSE IF ins.name = "" THEN push(ctx, value)
        ELSE IF value.k = "hole" THEN push(ctx, GetNumber(ctx, ins.name))
        ELSE push([ctx EXCEPT !.frame = WithColumn(@, ins.name, AsSlice(value)),
                              !.vars  = (ins.name :> value) @@ @], value)

Invoke(frame, code) ==
    IF Compiled(code)
    THEN FoldLeft(Perform, [frame |-> frame, vars |-> <<>>, stack |-> <<>>, ok |-> TRUE], code)
    ELSE [frame |-> frame, vars |-> <<>>, stack |-> <<>>, ok |-> FALSE]

(* try_into_filter: the result of the last instruction, all columns without one. *)
FilterOf(ctx) ==
    IF ctx.stack = <<>> THEN [op |-> "all", args |-> <<>>] ELSE AsSlice(Last(ctx.stack))

(* NetworkFunctionTemplate::infer: the filter is called on edges of its own, and
   applied to the edges the script is called on. *)
Infer(edges, filter, script, function) ==
    LET sieve == Invoke(edges, CompileFilter(filter[1]))
        kept  == ApplyFilter(edges, FilterOf(sieve))
        ctx   == Invoke(IF filter = <<>> THEN edges ELSE kept, CompileScript(script))
    IN  [ok    |-> ctx.ok /\ (filter # <<>> => sieve.ok /\ Filters(edges, FilterOf(sieve))),
         frame |-> WithColumn(ctx.frame, "function", Lit(function))]

-----------------------------------------------------------------------------
(* What a script means, read line by line: each line gives every row the value of
   its expression, which sees the row as the lines before it left it.  The greatest
   of several arguments is taken over all rows. *)
RECURSIVE Means(_, _, _)
Means(frame, e, row) ==
    LET of(i, r) == Means(frame, e.args[i], r) IN
    CASE e.op = "lit"  -> e.val
      [] e.op = "name" -> IF e.name \in DOMAIN frame.col THEN frame.col[e.name][row] ELSE Err
      [] OTHER ->
            IF \E i \in DOMAIN e.args : of(i, row).k # Takes(e.op) THEN Err
            ELSE IF e.op \in Builtin /\ Len(e.args) > 1
            THEN Num(Pick(e.op, {of(i, r).v : i \in DOMAIN e.args, r \in frame.rows}))
            ELSE Operate(e.op, [i \in DOMAIN e.args |-> of(i, row)])

Meaning(frame, script) ==
    FoldLeft(LAMBDA f, s :
                 [f EXCEPT !.col = (s.name :> [r \in f.rows |-> Means(f, s.expr, r)]) @@ @],
             frame, script)

Sensible(frame) == \A c \in DOMAIN frame.col : \A r \in frame.rows : frame.col[c][r].k # "err"

RECURSIVE Used(_)
Used(e) == CASE e.op = "lit"  -> {}
             [] e.op = "name" -> {e.name}
             [] OTHER         -> UNION {Used(e.args[i]) : i \in DOMAIN e.args}

(* No line sets a name that it, or a line before it, has used or set. *)
SetsOnce(script) ==
    \A i \in DOMAIN script : \A j \in 1 .. i :
        /\ script[i].name \notin Used(script[j].expr)
        /\ j < i => script[i].name # script[j].name

-----------------------------------------------------------------------------
(* Two nodes, and what scripts and filters of two lines make of the edges between
   them.  Constants are whole, so that rounding does not show. *)
Nodes ==
    LET nodes == {1, 2}
    IN  [rows |-> nodes,
         col  |-> [c \in {"name", "supply"} |->
                      [n \in nodes |-> Num(IF c = "name" THEN 2 * n ELSE 8 - 4 * n)]]]
Edges == Fabric(Nodes, 10)

Atom   == {Lit(4), Name("src.supply"), Name("capacity"), Name("x")}
Simple == Atom \union {Apply("Max", <<a, Lit(2)>>) : a \in Atom} \union {Apply("Neg", <<a>>) : a \in Atom}
First  == Simple \union {Apply("Sub", <<Lit(4), a>>) : a \in Atom}
Deep   == {Apply("Sub", <<a, Apply(op, <<b, c>>)>>) :
              op \in {"Sub", "Mul"}, a \in {Lit(4), Name("x")}, b \in Atom, c \in {Lit(4), Name("x")}}
             \union {Apply("Sub", <<a, Lit(4)>>) : a \in Simple}
             \union {Apply("Ge", <<a, b>>) : a, b \in Atom}
Script == {<<[name |-> "x", expr |-> e], [name |-> y, expr |-> f]>> :
              e \in First, f \in Deep, y \in {"y", "capacity"}}

Test   == {Apply(op, <<a, b>>) : op \in {"Ge", "Ne"}, a, b \in {Lit(4), Name("src"), Name("sink.supply")}}
Filter == Test \union {Apply("Not", <<t>>) : t \in Test}
               \union {Apply(op, <<t, Apply("Ge", <<Name("src"), Lit(4)>>)>>) : op \in {"And", "Or"}, t \in Test}

(* A script that sets no name it has used before does, compiled, folded and put off,
   what its lines mean one after the other.  (Otherwise a name means what it was
   first set to, and a column what it is when it is worked out.) *)
ScriptsMean ==
    \A script \in {s \in Script : SetsOnce(s)} :
        LET meant == Meaning(Edges, script)
            made  == Infer(Edges, <<>>, script, 0)
        IN  Sensible(meant) =>
                made.ok /\ \A c \in DOMAIN meant.col : made.frame.col[c] = meant.col[c]

(* A filter that uses a column keeps the edges it holds of, and the script runs on
   those alone.  (A constant one leaves no instruction behind, and fails.) *)
FiltersSift ==
    \A e \in Filter :
        LET made == Infer(Edges, <<e>>, <<[name |-> "x", expr |-> Name("src.supply")]>>, 0)
        IN  Used(e) # {} =>
                /\ made.ok
                /\ made.frame.rows = {r \in Edges.rows : Means(Edges, e, r).v}
                /\ \A r \in made.frame.rows : made.frame.col["x"][r] = Edges.col["src.supply"][r]

(* What the lazy virtual machine makes of functions is what they say. *)
LazyHolds == ScriptsMean /\ FiltersSift
=============================================================================
