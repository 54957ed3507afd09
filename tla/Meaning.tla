------------------------------ MODULE Meaning ------------------------------
(***************************************************************************)
(* What a source program means, by its syntax tree alone: which programs   *)
(* the language accepts and what an accepted one outputs.  No registers,   *)
(* no jumps, no upvalues: a variable is a cell, a fresh one each time its  *)
(* declaration is run.                                                     *)
(*                                                                         *)
(* An environment env has the variables in scope, innermost last, and the  *)
(* extra arguments of the function.  A state st has the cells, the tables, *)
(* the closures, the output, and whether an error was raised, after which  *)
(* nothing is output any more.                                             *)
(***************************************************************************)
EXTENDS Values

Var(x, attrib, cell) == [name |-> x, attrib |-> attrib, cell |-> cell]
Decl(x, attrib) == Var(x, attrib, 0)     \* a global declaration has no cell
Bind(env, var) == [env EXCEPT !.vars = Append(@, var)]

(* The innermost entry for x, and the cell of what x means: that of a      *)
(* variable, or 0 for a global.                                            *)
Bound(vs, x) == {i \in DOMAIN vs : vs[i].name = x}
Innermost(vs, x) == vs[CHOOSE i \in Bound(vs, x) : \A j \in Bound(vs, x) : j <= i]
CellOf(env, x) ==
    IF Bound(env.vars, x) = {} THEN 0 ELSE Innermost(env.vars, x).cell

Raised(st) == [st EXCEPT !.err = TRUE]
Output(st, entries) == IF st.err THEN st ELSE [st EXCEPT !.log = @ \o entries]

(* A cell for each value, bound to the names.                              *)
RECURSIVE Declare(_, _, _, _, _)
Declare(env, st, names, attribs, vals) ==
    IF names = <<>> THEN [env |-> env, st |-> st]
    ELSE LET v == Arg(vals, 1)
             bad == Head(attribs) = "close" /\ ~Closable(v)
             put == [st EXCEPT !.cells = Append(@, v), !.err = @ \/ bad]
         IN  Declare(Bind(env, Var(Head(names), Head(attribs), Len(put.cells))),
                     put, Tail(names), Tail(attribs),
                     IF vals = <<>> THEN vals ELSE Tail(vals))

Plain(names) == [i \in DOMAIN names |-> "none"]
Scope(env, st) == [env |-> env, st |-> st]

(* Tables.                                                                 *)
GetIn(st, obj, key) ==
    IF IsTable(obj) THEN Get(st.tables[obj[2]], key) ELSE Fault
SetIn(st, obj, key, v) ==
    IF IsTable(obj) /\ key # NilV /\ ~st.err
    THEN [st EXCEPT !.tables[obj[2]] = Put(@, key, v)] ELSE Raised(st)
NewTableOf(st, t) == [st EXCEPT !.tables = Append(@, t)]

(* The table that holds the globals in scope of env.                       *)
EnvTable(env, st) == st.cells[CellOf(env, "_ENV")]

(* Result of an expression: its values vs, or its one value v.             *)
One(v, st) == [v |-> IF v = Fault THEN NilV ELSE v,
               st |-> IF v = Fault THEN Raised(st) ELSE st]
Many(vs, st) == [vs |-> vs, st |-> st]

RECURSIVE Value(_, _, _), Values_(_, _, _), List(_, _, _), Apply(_, _, _),
          Fields(_, _, _, _, _), Run(_, _, _, _, _)

VarargsOf(env, st) ==
    LET t == st.tables[st.cells[CellOf(env, env.named)][2]]
        n == Get(t, Str("n"))
    IN  IF env.named \in {"no", "yes"} THEN Many(env.extra, st)
        ELSE IF ~IsInt(n) \/ n[2] < 0 THEN Many(<<>>, Raised(st))
        ELSE Many([i \in 1..n[2] |-> Get(t, Num(i))], st)

(* All values of an expression.                                            *)
Values_(e, env, st) ==
    LET obj == Value(e.obj, env, st)
        method == GetIn(obj.st, obj.v, Str(e.method))
        margs == List(e.args, env, obj.st)
        func == Value(e.func, env, st)
        args == List(e.args, env, func.st)
        single == Value(e, env, st)
    IN  CASE e.tag = "Call" -> Apply(func.v, args.vs, args.st)
          [] e.tag = "MethodCall" ->
               IF method = Fault THEN Many(<<>>, Raised(obj.st))
               ELSE Apply(method, <<obj.v>> \o margs.vs, margs.st)
          [] e.tag = "Vararg" -> VarargsOf(env, st)
          [] OTHER -> Many(<<single.v>>, single.st)

(* One value of each expression and all of the last.                       *)
List(exprs, env, st) ==
    LET first == Value(Head(exprs), env, st)
        rest == List(Tail(exprs), env, first.st)
    IN  IF exprs = <<>> THEN Many(<<>>, st)
        ELSE IF Len(exprs) = 1 THEN Values_(exprs[1], env, st)
        ELSE Many(<<first.v>> \o rest.vs, rest.st)

(* Table fields: items are numbered, and all values of a last one count.   *)
Fields(fields, at, t, env, st) ==
    LET f == Head(fields)
        key == Value(f.key, env, st)
        val == Value(f.value, env, key.st)
        last == Values_(f.value, env, st)
        item == Value(f.value, env, st)
    IN  IF fields = <<>> THEN st
        ELSE IF f.kind = "rec"
        THEN Fields(Tail(fields), at, t, env, SetIn(val.st, t, key.v, val.v))
        ELSE IF Len(fields) = 1 /\ IsMulti(f.value)
        THEN [last.st EXCEPT !.tables[t[2]] = PutList(@, at, last.vs)]
        ELSE Fields(Tail(fields), at + 1, t, env,
                    SetIn(item.st, t, Num(at + 1), item.v))

Operation(e, env, st) ==
    LET lhs == Value(e.lhs, env, st)
        rhs == Value(e.rhs, env, lhs.st)
        Is(op) == Binary(op, lhs.v, rhs.v)
        Rev(op) == Binary(op, rhs.v, lhs.v)
    IN  CASE e.op = "and" -> IF Truthy(lhs.v) THEN rhs ELSE lhs
          [] e.op = "or" -> IF Truthy(lhs.v) THEN lhs ELSE rhs
          [] e.op = "~=" -> One(Bln(Is("==") = Bln(FALSE)), rhs.st)
          [] e.op = ">" -> One(Rev("<"), rhs.st)
          [] e.op = ">=" -> One(Rev("<="), rhs.st)
          [] OTHER -> One(Is(e.op), rhs.st)

Value(e, env, st) ==
    LET cell == CellOf(env, e.name)
        obj == Value(e.obj, env, st)
        key == Value(e.key, env, obj.st)
        all == Values_(e, env, st)
        made == NewTableOf(st, EmptyTable)
        t == <<"table", Len(made.tables)>>
        arg == Value(e.operand, env, st)
    IN  CASE e.tag = "Nil" -> One(NilV, st)
          [] e.tag = "True" -> One(Bln(TRUE), st)
          [] e.tag = "False" -> One(Bln(FALSE), st)
          [] e.tag = "Number" -> One(Num(e.num), st)
          [] e.tag = "String" -> One(Str(e.str), st)
          [] e.tag = "Name" ->
               IF cell # 0 THEN One(st.cells[cell], st)
               ELSE One(GetIn(st, EnvTable(env, st), Str(e.name)), st)
          [] e.tag = "Index" -> One(GetIn(key.st, obj.v, key.v), key.st)
          [] e.tag = "Paren" -> Value(e.expr, env, st)
          [] e.tag \in {"Call", "MethodCall", "Vararg"} ->
               One(Arg(all.vs, 1), all.st)
          [] e.tag = "Function" ->
               One(<<"fn", Len(st.closures) + 1>>,
                   [st EXCEPT !.closures = Append(@, [func |-> e, env |-> env])])
          [] e.tag = "Table" -> One(t, Fields(e.fields, 0, t, env, made))
          [] e.tag = "BinOp" -> Operation(e, env, st)
          [] e.tag = "UnOp" ->
               One(IF e.op = "#" THEN Length(arg.v, arg.st.tables)
                   ELSE Unary(IF e.op = "-" THEN "neg" ELSE e.op, arg.v), arg.st)

(***************************************************************************)
(* Statements.  The outcome o of a block is "normal", "break", "return" or *)
(* "goto"; a return has values vs, a goto a label.                         *)
(***************************************************************************)
Normal(env, st) == [o |-> "normal", label |-> "", vs |-> <<>>,
                    env |-> env, st |-> st]
Leaving(o, label, vs, env, st) ==
    [o |-> o, label |-> label, vs |-> vs, env |-> env, st |-> st]

(* Leaving a scope closes its to-be-closed variables, the last one first.  *)
CloseDownTo(env, level, st) ==
    LET going == SelectSeq(SubSeq(env.vars, level + 1, Len(env.vars)),
                           LAMBDA v : v.attrib = "close")
        entries == [i \in DOMAIN going |-> CloseOutput(st.cells[going[i].cell])]
    IN  Output(st, FlattenSeq(Reverse(entries)))
Cut(env, level) == [env EXCEPT !.vars = SubSeq(@, 1, level)]
Level(env) == Len(env.vars)

Inside(body, env, st) ==
    LET r == Run(body, 1, Level(env), env, st)
    IN  [r EXCEPT !.env = env, !.st = CloseDownTo(r.env, Level(env), @)]

(* How many variables a statement declares in its block.                   *)
Declares1(s) == IF s.tag \in {"LocalAssign", "Global"} THEN Len(s.names)
                ELSE IF s.tag = "LocalFunction" THEN 1 ELSE 0
LevelAt(body, i, level) ==
    LET sum[j \in 0..Len(body)] ==
            IF j = 0 THEN level ELSE sum[j - 1] + Declares1(body[j])
    IN  sum[i - 1]
LabelAt(body, l) == {i \in DOMAIN body : body[i].tag = "Label" /\ body[i].name = l}
Shorter(x, y) == IF x < y THEN x ELSE y

RECURSIVE Loop(_, _, _), Count(_, _, _, _, _, _), Iterate(_, _, _, _, _),
          Choose1(_, _, _, _), Stores_(_, _, _, _), Places(_, _, _, _)

(* What a loop makes of the outcome of its body.                           *)
Stops(r) == r.o # "normal"
AfterLoop(r, env) == IF r.o = "break" THEN Normal(env, r.st) ELSE [r EXCEPT !.env = env]

Loop(s, env, st) ==
    LET cond == Value(s.cond, env, st)
        once == Inside(s.body, env, cond.st)
        body == Run(s.body, 1, Level(env), env, st)
        until == Value(s.cond, body.env, body.st)
        closed == CloseDownTo(body.env, Level(env),
                              IF Stops(body) THEN body.st ELSE until.st)
    IN  IF s.tag = "While"
        THEN IF ~Truthy(cond.v) \/ cond.st.err THEN Normal(env, cond.st)
             ELSE IF Stops(once) THEN AfterLoop(once, env)
             ELSE Loop(s, env, once.st)
        ELSE IF Stops(body) THEN AfterLoop([body EXCEPT !.st = closed], env)
        ELSE IF Truthy(until.v) \/ closed.err THEN Normal(env, closed)
        ELSE Loop(s, env, closed)

Count(s, i, limit, step, env, st) ==
    LET scope == Declare(env, st, <<s.name>>, <<"const">>, <<Num(i)>>)
        once == Inside(s.body, scope.env, scope.st)
    IN  IF (IF step > 0 THEN i > limit ELSE i < limit) THEN Normal(env, st)
        ELSE IF Stops(once) THEN AfterLoop(once, env)
        ELSE Count(s, i + step, limit, step, env, once.st)

NumericLoop(s, env, st) ==
    LET start == Value(s.start, env, st)
        limit == Value(s.limit, env, start.st)
        step == IF s.step = <<>> THEN One(Num(1), limit.st)
                ELSE Value(s.step[1], env, limit.st)
    IN  IF \A v \in {start.v, limit.v, step.v} : IsInt(v) /\ step.v # Num(0)
        THEN Count(s, start.v[2], limit.v[2], step.v[2], env, step.st)
        ELSE Normal(env, Raised(step.st))

Iterate(s, f, control, env, st) ==
    LET next == Apply(f[1], <<f[2], control>>, st)
        first == Arg(next.vs, 1)
        scope == Declare(env, next.st, s.names, Plain(s.names), next.vs)
        once == Inside(s.body, scope.env, scope.st)
    IN  IF first = NilV THEN Normal(env, next.st)
        ELSE IF Stops(once) THEN AfterLoop(once, env)
        ELSE Iterate(s, f, first, env, once.st)

GenericLoop_(s, env, st) ==
    LET vals == List(s.exprs, env, st)
        closing == Declare(env, vals.st, <<"(for state)">>, <<"close">>,
                           <<Arg(vals.vs, 4)>>)
        r == Iterate(s, <<Arg(vals.vs, 1), Arg(vals.vs, 2)>>, Arg(vals.vs, 3),
                     env, closing.st)
    IN  [r EXCEPT !.st = CloseDownTo(closing.env, Level(env), @)]

Choose1(clauses, els, env, st) ==
    LET cond == Value(Head(clauses).cond, env, st)
    IN  IF clauses = <<>>
        THEN IF els = <<>> THEN Normal(env, st) ELSE Inside(els[1], env, st)
        ELSE IF Truthy(cond.v) THEN Inside(Head(clauses).body, env, cond.st)
        ELSE Choose1(Tail(clauses), els, env, cond.st)

(* Assignment: all targets and values are evaluated, then stored from      *)
(* right to left.                                                          *)
Places(targets, found, env, st) ==
    LET t == Head(targets)
        cell == CellOf(env, t.name)
        obj == Value(t.obj, env, st)
        key == Value(t.key, env, obj.st)
    IN  IF targets = <<>> THEN [at |-> found, st |-> st]
        ELSE IF t.tag = "Index"
        THEN Places(Tail(targets),
                    Append(found, [cell |-> 0, obj |-> obj.v, key |-> key.v]),
                    env, key.st)
        ELSE Places(Tail(targets),
                    Append(found, [cell |-> cell, key |-> Str(t.name),
                        obj |-> IF cell = 0 THEN EnvTable(env, st) ELSE NilV]),
                    env, st)

Stores_(at, i, vals, st) ==
    IF i = 0 THEN st
    ELSE LET p == at[i]
             v == Arg(vals, i)
         IN  Stores_(at, i - 1, vals,
                     IF p.cell = 0 THEN SetIn(st, p.obj, p.key, v)
                     ELSE [st EXCEPT !.cells[p.cell] = v])

Assignment(targets, exprs, env, st) ==
    LET at == Places(targets, <<>>, env, st)
        vals == List(exprs, env, at.st)
    IN  Stores_(at.at, Len(targets), vals.vs, vals.st)

GlobalDecl(s, env, st) ==
    LET decls == [i \in DOMAIN s.names |-> Decl(s.names[i], s.attribs[i])]
        inner == [env EXCEPT !.vars = @ \o decls]
        vals == List(s.exprs, env, st)
        place == EnvTable(env, st)
        RECURSIVE Define(_, _)
        Define(i, T) ==
            IF i > Len(s.names) THEN T
            ELSE Define(i + 1,
                    IF GetIn(T, place, Str(s.names[i])) \in {NilV, Fault}
                    THEN SetIn(T, place, Str(s.names[i]), Arg(vals.vs, i))
                    ELSE Raised(T))
    IN  CASE s.kind # "function" ->
               Normal(inner, IF s.exprs = <<>> THEN st ELSE Define(1, vals.st))
          [] s.kind = "function" ->
               Normal(inner, Assignment(<<Name(s.names[1])>>, s.exprs, inner, st))

Local(s, env, st) ==
    LET vals == List(s.exprs, env, st)
        scope == Declare(env, vals.st, s.names, s.attribs, vals.vs)
    IN  Normal(scope.env, scope.st)

LocalFunc(s, env, st) ==
    LET scope == Declare(env, st, <<s.name>>, <<"none">>, <<>>)
        f == Value(s.func, scope.env, scope.st)
    IN  Normal(scope.env, [f.st EXCEPT !.cells[CellOf(scope.env, s.name)] = f.v])

Statement(s, env, st) ==
    CASE s.tag = "LocalAssign" -> Local(s, env, st)
      [] s.tag = "LocalFunction" -> LocalFunc(s, env, st)
      [] s.tag = "Assign" ->
           Normal(env, Assignment(s.targets, s.exprs, env, st))
      [] s.tag = "CallStat" -> Normal(env, Values_(s.call, env, st).st)
      [] s.tag = "Do" -> Inside(s.body, env, st)
      [] s.tag \in {"While", "Repeat"} -> Loop(s, env, st)
      [] s.tag = "If" -> Choose1(s.clauses, s.els, env, st)
      [] s.tag = "NumericFor" -> NumericLoop(s, env, st)
      [] s.tag = "GenericFor" -> GenericLoop_(s, env, st)
      [] s.tag = "Return" ->
           LET r == List(s.exprs, env, st)
           IN  Leaving("return", "", r.vs, env, r.st)
      [] s.tag = "Break" -> Leaving("break", "", <<>>, env, st)
      [] s.tag = "Goto" -> Leaving("goto", s.label, <<>>, env, st)
      [] s.tag = "Label" -> Normal(env, st)
      [] s.tag = "Global" -> GlobalDecl(s, env, st)

(* Run body from statement i on, where level variables are outside it.  A  *)
(* goto to a label of this block goes on there; going back leaves the      *)
(* scope of what was declared since.                                       *)
Run(body, i, level, env, st) ==
    LET r == Statement(body[i], env, st)
        at == LabelAt(body, r.label)
        j == CHOOSE k \in at : TRUE
        to == Shorter(Level(r.env), LevelAt(body, j, level))
    IN  IF i > Len(body) \/ st.err THEN Normal(env, st)
        ELSE IF r.o = "normal" THEN Run(body, i + 1, level, r.env, r.st)
        ELSE IF r.o = "goto" /\ at # {}
        THEN Run(body, j, level, Cut(r.env, to), CloseDownTo(r.env, to, r.st))
        ELSE r

Apply(f, args, st) ==
    LET c == st.closures[f[2]]
        params == c.func.params
        extra == SubSeq(args, Len(params) + 1, Len(args))
        inner == [c.env EXCEPT !.extra = extra, !.named = c.func.vararg]
        bound == Declare(inner, st, params, Plain(params), args)
        pack == NewTableOf(bound.st, Put(PutList(EmptyTable, 0, extra), Str("n"),
                                         Num(Len(extra))))
        scope == IF c.func.vararg \in {"no", "yes"} THEN bound
                 ELSE Declare(bound.env, pack, <<c.func.vararg>>, <<"const">>,
                              <<<<"table", Len(pack.tables)>>>>)
        r == Inside(c.func.body, scope.env, scope.st)
    IN  CASE st.err -> Many(<<>>, st)
          [] ~st.err /\ f[1] = "native" ->
               Many(NativeResults(f[2], args), Output(st, NativeOutput(f[2], args)))
          [] ~st.err /\ f[1] = "fn" -> Many(r.vs, r.st)
          [] ~st.err /\ ~IsFunction(f) -> Many(<<>>, Raised(st))

(***************************************************************************)
(* Which programs the language accepts.  A scope has the variables and     *)
(* global declarations of all enclosing functions, and whether a loop of   *)
(* this function is around.                                                *)
(***************************************************************************)
Decls(s) ==
    CASE s.tag = "LocalAssign" ->
           [i \in DOMAIN s.names |-> Var(s.names[i], s.attribs[i], 1)]
      [] s.tag = "LocalFunction" -> <<Var(s.name, "none", 1)>>
      [] s.tag = "Global" ->
           [i \in DOMAIN s.names |-> Decl(s.names[i], s.attribs[i])]
      [] OTHER -> <<>>

(* Global access: _ENV must be a variable, and where there are global      *)
(* declarations the innermost that fits the name decides.                  *)
IsVariable(vs, x) == Bound(vs, x) # {} /\ Innermost(vs, x).cell # 0
GlobalDecls(vs) == SelectSeq(vs, LAMBDA v : v.cell = 0)
Fitting(vs, x) == SelectSeq(GlobalDecls(vs), LAMBDA v : v.name \in {"*", x})
ReadsWell(vs, x) ==
    IsVariable(vs, x)
    \/ /\ IsVariable(vs, "_ENV")
       /\ GlobalDecls(vs) = <<>> \/ Fitting(vs, x) # <<>>
WritesWell(vs, x) ==
    IF IsVariable(vs, x) THEN Innermost(vs, x).attrib = "none"
    ELSE /\ ReadsWell(vs, x)
         /\ Fitting(vs, x) # <<>> => Last(Fitting(vs, x)).attrib # "const"

(* The bodies within a statement, each with what it declares first.        *)
Bodies(s) ==
    CASE s.tag \in {"Do", "While", "Repeat"} -> {<<s.body, <<>>>>}
      [] s.tag = "If" -> {<<c.body, <<>>>> : c \in ToSet(s.clauses)}
                          \cup {<<b, <<>>>> : b \in ToSet(s.els)}
      [] s.tag = "NumericFor" -> {<<s.body, <<Var(s.name, "const", 1)>>>>}
      [] s.tag = "GenericFor" ->
           {<<s.body, [i \in DOMAIN s.names |->
                Var(s.names[i], IF i = 1 THEN "const" ELSE "none", 1)]>>}
      [] OTHER -> {}

(* The gotos that a block leaves to the blocks around it.                  *)
RECURSIVE Escaping(_)
Escaping(body) ==
    LET From(s) == IF s.tag = "Goto" THEN {s.label}
                   ELSE UNION {Escaping(b[1]) : b \in Bodies(s)}
    IN  {l \in UNION {From(s) : s \in ToSet(body)} : LabelAt(body, l) = {}}

(* A goto in statement i reaches the label at j: backward, or forward past *)
(* no declaration, or the label ends the block.                            *)
Reaches(body, i, j) ==
    j <= i \/ body[j].void \/ LevelAt(body, j, 0) = LevelAt(body, i + 1, 0)
GotosFit(body) ==
    \A i \in DOMAIN body :
        \A l \in IF body[i].tag = "Goto" THEN {body[i].label}
                 ELSE UNION {Escaping(b[1]) : b \in Bodies(body[i])} :
            \A j \in LabelAt(body, l) : Reaches(body, i, j)

RECURSIVE WellFormed(_, _), Fits(_, _), FitsStmt(_, _, _)

FitsFunction(f, vs) ==
    LET named == IF f.vararg \in {"no", "yes"} THEN <<>>
                 ELSE <<Var(f.vararg, "const", 1)>>
    IN  /\ WellFormed(f.body, [loop |-> FALSE, labels |-> {}, vars |-> vs \o
            [i \in DOMAIN f.params |-> Var(f.params[i], "none", 1)] \o named])
        /\ Escaping(f.body) = {}

(* Expressions.                                                            *)
Fits(e, vs) ==
    CASE e.tag = "Name" -> ReadsWell(vs, e.name)
      [] e.tag = "Index" -> Fits(e.obj, vs) /\ Fits(e.key, vs)
      [] e.tag = "Paren" -> Fits(e.expr, vs)
      [] e.tag = "Call" ->
           Fits(e.func, vs) /\ \A i \in DOMAIN e.args : Fits(e.args[i], vs)
      [] e.tag = "MethodCall" ->
           Fits(e.obj, vs) /\ \A i \in DOMAIN e.args : Fits(e.args[i], vs)
      [] e.tag = "Function" -> FitsFunction(e, vs)
      [] e.tag = "Table" ->
           \A i \in DOMAIN e.fields :
               /\ Fits(e.fields[i].value, vs)
               /\ e.fields[i].kind = "rec" => Fits(e.fields[i].key, vs)
      [] e.tag = "BinOp" -> Fits(e.lhs, vs) /\ Fits(e.rhs, vs)
      [] e.tag = "UnOp" -> Fits(e.operand, vs)
      [] OTHER -> TRUE

FitAll(exprs, vs) == \A i \in DOMAIN exprs : Fits(exprs[i], vs)

(* A statement, with the labels that are visible where it stands.          *)
FitsStmt(s, scope, labels) ==
    LET vs == scope.vars
        body == [scope EXCEPT !.labels = labels,
                     !.loop = @ \/ s.tag \in {"While", "Repeat", "NumericFor",
                                              "GenericFor"}]
        BodyFits(b) == WellFormed(b[1], [body EXCEPT !.vars = @ \o b[2]])
        Stored(t) == IF t.tag = "Name" THEN WritesWell(vs, t.name) ELSE Fits(t, vs)
        after == vs \o Decls(s)
    IN  /\ \A b \in Bodies(s) : BodyFits(b)
        /\ CASE s.tag = "LocalAssign" ->
                  /\ FitAll(s.exprs, vs)
                  /\ \A i, j \in DOMAIN s.attribs :
                        s.attribs[i] = "close" /\ s.attribs[j] = "close" => i = j
             [] s.tag = "LocalFunction" -> FitsFunction(s.func, after)
             [] s.tag = "Assign" ->
                  FitAll(s.exprs, vs) /\ \A t \in ToSet(s.targets) : Stored(t)
             [] s.tag = "CallStat" -> Fits(s.call, vs)
             [] s.tag = "While" -> Fits(s.cond, vs)
             [] s.tag = "Repeat" ->
                  Fits(s.cond, vs \o FlattenSeq([i \in DOMAIN s.body |->
                                                    Decls(s.body[i])]))
             [] s.tag = "If" -> \A c \in ToSet(s.clauses) : Fits(c.cond, vs)
             [] s.tag = "NumericFor" ->
                  FitAll(<<s.start, s.limit>> \o s.step, vs)
             [] s.tag \in {"GenericFor", "Return"} -> FitAll(s.exprs, vs)
             [] s.tag = "Break" -> scope.loop
             [] s.tag = "Label" -> s.name \notin labels
             [] s.tag = "Global" ->
                  /\ "close" \notin ToSet(s.attribs)
                  /\ FitAll(s.exprs, IF s.kind = "function" THEN after ELSE vs)
                  /\ s.exprs # <<>> =>
                        IsVariable(IF s.kind = "function" THEN after ELSE vs,
                                   "_ENV")
             [] OTHER -> TRUE

WellFormed(body, scope) ==
    LET before(i) == [scope EXCEPT
            !.vars = @ \o FlattenSeq([j \in 1..(i - 1) |-> Decls(body[j])])]
        labels(i) == scope.labels \cup
            {body[j].name : j \in {k \in 1..(i - 1) : body[k].tag = "Label"}}
    IN  /\ GotosFit(body)
        /\ \A i \in DOMAIN body : FitsStmt(body[i], before(i), labels(i))

Accepted(body) ==
    /\ WellFormed(body, [loop |-> FALSE, labels |-> {},
                         vars |-> <<Var("_ENV", "none", 1)>>])
    /\ Escaping(body) = {}

(* How a program ends and what it has output by then.                      *)
Meaning(body) ==
    LET env == [vars |-> <<Var("_ENV", "none", 1)>>, extra |-> <<>>,
                named |-> "yes"]
        st == [cells |-> <<<<"table", 1>>>>, tables |-> <<Globals>>,
               closures |-> <<>>, log |-> <<>>, err |-> FALSE]
        r == Inside(body, env, st)
    IN  IF ~Accepted(body) THEN [ends |-> "rejected", log |-> <<>>]
        ELSE [ends |-> IF r.st.err THEN "error" ELSE "done", log |-> r.st.log]
=============================================================================
