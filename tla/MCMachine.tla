----------------------------- MODULE MCMachine -----------------------------
(***************************************************************************)
(* Source programs for Machine, in families: each family combines every    *)
(* choice of a few features that the compiler must keep apart.             *)
(***************************************************************************)
EXTENDS Machine, Compiler, Meaning

(* Every combination of an element of each of the sequences in choices.    *)
Combinations(choices) ==
    LET size[i \in 0..Len(choices)] ==
            IF i = 0 THEN 1 ELSE size[i - 1] * Len(choices[i])
    IN  [k \in 1..size[Len(choices)] |->
            [i \in DOMAIN choices |->
                choices[i][(((k - 1) \div size[i - 1]) % Len(choices[i])) + 1]]]
Repeated(x, count) == [i \in 1..count |-> x]

(* Short forms.                                                            *)
V(x) == Name(x)
K(i) == Number(i)
CallOf(f, args) == Call(V(f), args)
Do1(f, args) == CallStat(CallOf(f, args))
Out(args) == Do1("out", args)
Loc(x, e) == LocalAssign(<<x>>, <<"none">>, <<e>>)
Tbc(x, k) == LocalAssign(<<x>>, <<"close">>, <<CallOf("guard", <<K(k)>>)>>)
Put1(x, e) == Assign(<<V(x)>>, <<e>>)
Add(x, k) == BinOp("+", V(x), K(k))
When(e, body) == If(<<Clause(e, body)>>, NoElse)
Fun(params, body) == Function(params, "no", body)
LocFun(f, params, body) == LocalFunction(f, Fun(params, body))
(* A closure that adds 1 to x at each call and returns it.                 *)
Counter(x) == Fun(<<>>, <<Put1(x, Add(x, 1)), Return(<<V(x)>>)>>)

(***************************************************************************)
(* Loops: each kind of loop, with a variable of each kind in its body, a   *)
(* closure over one variable or another, and each way to leave an          *)
(* iteration, at the second one.                                           *)
(***************************************************************************)
LoopKinds == <<"while", "repeat", "up", "down", "generic", "closing", "none">>
Guarded == CallOf("guard", <<K(9)>>)
LoopOf(kind, body) ==
    CASE kind = "while" -> While(BinOp("<", V("w"), K(3)), body)
      [] kind = "repeat" ->
           Repeat(body, BinOp("and", BinOp(">=", V("w"), K(3)),
                              BinOp("or", V("v"), True)))
      [] kind = "up" -> NumericFor("i", K(1), K(3), <<>>, body)
      [] kind = "down" -> NumericFor("i", K(3), K(0), <<K(-2)>>, body)
      [] kind = "generic" -> GenericFor(<<"i", "j">>, <<V("upto"), K(3), K(0)>>, body)
      [] kind = "closing" -> GenericFor(<<"i">>, <<V("upto"), K(3), K(0), Guarded>>,
                                        body)
      [] kind = "none" -> Do(body)

LoopVars == <<Loc("v", Add("w", 10)), Tbc("v", 5),
              LocalAssign(<<"u", "v">>, <<"none", "none">>, <<V("w")>>)>>
Captures == <<<<>>, <<Put1("f", Counter("w"))>>,
              <<Put1("f", Fun(<<>>, <<Return(<<V("v"), V("i")>>)>>))>>,
              <<When(BinOp("==", V("w"), K(2)),
                     <<Loc("x", V("w")), Put1("f", Counter("x"))>>)>>>>
Exits == <<<<>>, <<Break>>, <<Goto("next")>>, <<Goto("out")>>,
           <<Return(<<V("w"), K(7)>>)>>, <<Return(<<CallOf("g", <<V("w")>>)>>)>>,
           <<Do1("v", <<>>)>>>>

LoopProgram(c) ==
    <<Loc("f", V("guard")),
      LocFun("g", <<"a">>, <<Out(<<V("a")>>), Return(<<Add("a", 1), K(8)>>)>>),
      LocFun("h", <<>>,
        <<Loc("w", K(0)),
          LoopOf(c[1],
            <<Put1("w", Add("w", 1)), c[2]>> \o c[3] \o
            <<When(BinOp("==", V("w"), K(2)), c[4]),
              Do(<<Loc("z", K(6)), Out(<<V("w"), V("z"), V("v")>>)>>),
              Label("next")>>),
          Label("out"), Do1("f", <<K(4)>>), Return(<<V("w")>>)>>),
      Out(<<CallOf("h", <<>>)>>),
      Out(<<CallOf("f", <<K(1)>>)>>), Out(<<CallOf("f", <<K(1)>>)>>)>>

LoopFamily ==
    LET all == Combinations(<<LoopKinds, LoopVars, Captures, Exits>>)
    IN  Each(all, LAMBDA k, c : LoopProgram(c))

(***************************************************************************)
(* Scopes: every sequence of four pieces with captured and to-be-closed    *)
(* variables, jumps and labels, as the body of a block or of a repeat.     *)
(***************************************************************************)
Jump1 == <<Put1("c", Add("c", 1)),
           When(BinOp("<", V("c"), K(2)), <<Goto("l")>>)>>
ScopePieces ==
    <<<<Loc("a", Add("c", 10)), Put1("f", Counter("a"))>>,
      <<Tbc("b", 7)>>, Jump1, <<Label("l")>>,
      <<Do(<<Tbc("b", 8), Loc("z", K(3))>> \o Jump1 \o <<Out(<<V("z")>>)>>)>>,
      <<Do(<<Loc("y", K(4)), Put1("f", Counter("y"))>> \o Jump1),
        Loc("z", K(5)), Out(<<V("z")>>)>>,
      <<Do(<<Label("l")>>), Loc("z", K(6)), Out(<<V("z"), V("a")>>)>>>>

ScopeProgram(kind, pieces) ==
    LET body == FlattenSeq(pieces)
    IN  <<Loc("c", K(0)), Loc("a", K(1)), Loc("f", Counter("a")),
          IF kind = "do" THEN Do(body)
          ELSE Repeat(body, BinOp(">", V("a"), K(0))),
          Loc("n", K(9)), Out(<<CallOf("f", <<>>)>>),
          Out(<<CallOf("f", <<>>), V("n"), V("a")>>)>>

ScopeFamily ==
    Each(Combinations(Repeated(ScopePieces, 4)),
         LAMBDA k, c : ScopeProgram("do", c))
    \o Each(Combinations(Repeated(ScopePieces, 3)),
            LAMBDA k, c : ScopeProgram("repeat", c))

(***************************************************************************)
(* Assignments: two targets and one or two values, of local variables, or  *)
(* one value, of upvalues.                                                 *)
(***************************************************************************)
Targets == <<V("a"), V("b"), V("g"), V("t"), Index(V("t"), V("a")),
             Index(V("t"), K(2)), Field(V("t"), "x"), Index(V("u"), V("b"))>>
Sources == <<K(7), V("b"), CallOf("two", <<>>), Vararg, Index(V("t"), V("a"))>>
Two == LocFun("two", <<>>, <<Return(<<K(8), K(3)>>)>>)

AssignProgram(nested, targets, exprs) ==
    LET change == <<Assign(targets, exprs)>>
        Body(inner) ==
            <<Loc("a", K(1)), Loc("b", K(2)),
              Loc("t", Table(<<Item(K(10)), Item(K(20)), Item(K(30))>>)),
              Loc("u", Table(<<Item(K(40))>>))>> \o inner \o
            <<Out(<<V("a"), V("b"), V("g"), Index(V("u"), K(2)),
                    Index(V("u"), K(3))>>),
              Out(<<Index(V("t"), K(1)), Index(V("t"), K(2)), Field(V("t"), "x")>>)>>
    IN  <<Two, LocalFunction("h", Function(<<>>, "yes",
            Body(IF nested
                 THEN <<CallStat(Call(Paren(Function(<<>>, "yes", change)),
                                      <<K(5)>>))>>
                 ELSE change))),
          Do1("h", <<K(5), K(6)>>)>>

AssignFamily ==
    LET targets == Combinations(<<Targets, Targets>>)
        exprs == Combinations(<<Sources>>) \o Combinations(<<Sources, Sources>>)
    IN  Each(Combinations(<<targets, exprs>>),
             LAMBDA k, c : AssignProgram(FALSE, c[1], c[2]))
        \o Each(Combinations(<<targets, Combinations(<<Sources>>)>>),
                LAMBDA k, c : AssignProgram(TRUE, c[1], c[2]))

(***************************************************************************)
(* Lists: none to three expressions of any number of values, wherever a    *)
(* list may stand, in a function with varargs, named or not.               *)
(***************************************************************************)
Elements == <<K(4), CallOf("two", <<>>), CallOf("none", <<>>), Vararg,
              Paren(Vararg), MethodCall(V("o"), "m", <<K(3)>>)>>
ListUse(use, exprs) ==
    CASE use = "call" -> <<Out(exprs)>>
      [] use = "return" -> <<Return(exprs)>>
      [] use = "tail" -> <<Return(<<CallOf("out", exprs)>>)>>
      [] use = "method" -> <<Return(<<MethodCall(V("o"), "m", exprs)>>)>>
      [] use = "local" ->
           <<LocalAssign(<<"x", "y">>, <<"none", "none">>, exprs),
             Loc("z", K(1)), Out(<<V("x"), V("y"), V("z")>>)>>
      [] use = "table" ->
           <<Loc("x", Table(Each(exprs, LAMBDA i, e : Item(e)) \o
                            <<Rec(String("k"), K(2)), Item(Vararg)>>)),
             Out([i \in 1..5 |-> Index(V("x"), K(i))])>>
Uses == <<"call", "return", "tail", "method", "local", "table">>

ListProgram(use, vararg, change, exprs) ==
    <<Two, LocFun("none", <<>>, <<>>),
      Loc("o", Table(<<Rec(String("m"),
                Fun(<<"self", "a", "b">>,
                    <<Out(<<V("self"), V("a"), V("b")>>), Return(<<V("b"), V("a")>>)>>))>>)),
      LocalFunction("h", Function(<<"p">>, vararg, change \o ListUse(use, exprs))),
      Out(<<CallOf("h", <<K(5), K(6), K(7)>>), CallOf("h", <<>>)>>)>>

Changes == <<<<>>, <<Assign(<<Field(V("v"), "n")>>, <<K(1)>>)>>,
             <<Assign(<<Field(V("v"), "n")>>, <<K(3)>>)>>,
             <<Assign(<<Field(V("v"), "n")>>, <<UnOp("-", K(1))>>)>>,
             <<Assign(<<Field(V("v"), "n")>>, <<String("n")>>)>>,
             <<Assign(<<Index(V("v"), K(2))>>, <<K(9)>>)>>>>

Lists(longest) ==
    FlattenSeq([n \in 1..(longest + 1) |-> Combinations(Repeated(Elements, n - 1))])
ListFamily ==
    Each(Combinations(<<Uses, Lists(3)>>),
         LAMBDA k, c : ListProgram(c[1], "yes", <<>>, c[2]))
    \o Each(Combinations(<<Uses, Changes, Lists(1)>>),
            LAMBDA k, c : ListProgram(c[1], "v", c[2], c[3]))

(***************************************************************************)
(* Declarations: every sequence of three pieces that declare, read or      *)
(* write x as a local, an upvalue or a global of any kind.                 *)
(***************************************************************************)
GlobalX(attrib, exprs) == Global(<<"x">>, <<attrib>>, exprs, "plain")
GlobalStar(attrib) == Global(<<"*">>, <<attrib>>, <<>>, "star")
GetX == Fun(<<>>, <<Return(<<V("x")>>)>>)
DeclPieces ==
    <<GlobalX("none", <<>>), GlobalX("const", <<K(1)>>),
      GlobalStar("none"), GlobalStar("const"),
      Global(<<"f">>, <<"none">>, <<GetX>>, "function"),
      Global(<<"x", "y">>, <<"none", "const">>, <<K(1), K(2)>>, "plain"),
      Global(<<"_ENV">>, <<"none">>, <<>>, "plain"),
      Put1("x", K(3)),
      LocalAssign(<<"x">>, <<"const">>, <<K(4)>>), Loc("x", K(5)),
      Do(<<GlobalX("none", <<>>), Put1("x", K(6))>>),
      LocFun("h", <<>>, <<Put1("x", K(7))>>),
      Loc("_ENV", Table(<<Rec(String("x"), K(8))>>)),
      Out(<<Call(Paren(GetX), <<>>)>>)>>

DeclFamily ==
    Each(Combinations(Repeated(DeclPieces, 3)),
         LAMBDA k, c : <<Loc("out", V("out"))>> \o c \o <<Out(<<V("x")>>)>>)

(***************************************************************************)
(* Expressions: two operators over operands that output when they are      *)
(* evaluated, variables, and constants.                                    *)
(***************************************************************************)
Operators == <<"+", "-", "*", "<", "<=", ">", ">=", "==", "~=", "..", "and", "or">>
Loud(k) == CallOf("e", <<K(k)>>)
ExprProgram(e) ==
    <<LocFun("e", <<"k">>, <<Out(<<V("k")>>), Return(<<V("k"), K(0)>>)>>),
      Loc("a", K(2)), Loc("t", Table(<<Item(K(5)), Item(K(6))>>)),
      Out(<<e, V("a")>>),
      If(<<Clause(e, <<Out(<<K(1)>>)>>), Clause(Loud(4), <<Out(<<K(2)>>)>>)>>,
         Else(<<Out(<<K(3)>>)>>))>>

ExprFamily ==
    Each(Combinations(<<Operators, Operators, <<Loud(1), V("a"), Nil>>,
                        <<Loud(2)>>, <<Index(V("t"), Loud(2)), False>>,
                        <<"left", "right">>>>),
         LAMBDA k, c : ExprProgram(
             IF c[6] = "left"
             THEN BinOp(c[2], Paren(BinOp(c[1], c[3], c[4])), c[5])
             ELSE BinOp(c[1], c[3], BinOp(c[2], c[4], c[5]))))
    \o Each(Combinations(<<<<"-", "not", "#">>, <<"-", "not", "#">>,
                           <<Loud(1), V("a"), V("t"), True, String("s")>>>>),
            LAMBDA k, c : ExprProgram(UnOp(c[1], UnOp(c[2], c[3]))))

(***************************************************************************)
(* Functions: closures three deep with x declared again at each level or   *)
(* not, and returns with something left to close or not.                   *)
(***************************************************************************)
Level1(how, body) ==
    CASE how = "same" -> <<Return(<<Fun(<<>>, body)>>)>>
      [] how = "local" -> <<Loc("x", Add("x", 10)), Return(<<Fun(<<>>, body)>>)>>
      [] how = "param" -> <<Return(<<Fun(<<"x">>, body)>>)>>
      [] how = "self" -> <<LocFun("x", <<"n">>, <<Return(<<V("n"), V("x")>>)>>),
                           Return(<<Fun(<<>>, body)>>)>>
Levels == <<"same", "local", "param", "self">>
NestProgram(c) ==
    LET inner == <<Put1("x", Add("x", 1)), Return(<<V("x")>>)>>
        body == Level1(c[1], Level1(c[2], Level1(c[3], inner)))
    IN  <<Loc("x", K(1)), LocFun("p", <<"x">>, body),
          Loc("q", Call(CallOf("p", <<K(2)>>), <<K(20)>>)),
          Loc("r", CallOf("q", <<K(30)>>)), Loc("s", CallOf("q", <<K(40)>>)),
          Out(<<CallOf("r", <<K(50)>>)>>), Out(<<CallOf("r", <<K(60)>>)>>),
          Out(<<CallOf("s", <<K(70)>>), V("x")>>)>>

ReturnPieces ==
    <<<<Tbc("b", 7)>>, <<GenericFor(<<"i">>, <<V("upto"), K(1), K(0)>>, <<Out(<<V("i")>>)>>)>>,
      <<When(V("p"), <<Return(<<CallOf("g", <<K(1)>>)>>)>>)>>,
      <<Do(<<Tbc("d", 6), GenericFor(<<"i">>, <<V("upto"), K(1), K(0)>>, <<>>)>>)>>,
      <<GenericFor(<<"i">>, <<V("upto"), K(2), K(0), Guarded>>,
                   <<When(V("p"), <<Return(<<CallOf("g", <<V("i")>>)>>)>>)>>)>>,
      <<When(V("p"), <<Return(<<CallOf("out", <<K(4)>>)>>)>>)>>,
      <<Do(<<Return(<<MethodCall(V("o"), "g", <<K(5)>>)>>)>>)>>>>
ReturnProgram(c) ==
    <<LocFun("g", <<"k", "l">>, <<Out(<<V("k"), V("l")>>), Return(<<K(2), V("k")>>)>>),
      Loc("o", Table(<<Rec(String("g"), V("g"))>>)),
      LocFun("h", <<"p">>, FlattenSeq(c)),
      Out(<<CallOf("h", <<True>>)>>), Out(<<CallOf("h", <<False>>)>>)>>

FunctionFamily ==
    Each(Combinations(Repeated(Levels, 3)), LAMBDA k, c : NestProgram(c))
    \o Each(Combinations(Repeated(ReturnPieces, 3)), LAMBDA k, c : ReturnProgram(c))

(***************************************************************************)
(* Errors: each instruction that may raise one, and what is not accepted.  *)
(***************************************************************************)
Errors ==
    <<Out(<<Field(Nil, "x")>>), Out(<<Index(K(1), K(1))>>),
      Assign(<<Field(K(1), "x")>>, <<K(1)>>),
      Assign(<<Index(V("t"), Nil)>>, <<K(1)>>), Put1("y", Call(Nil, <<>>)),
      GenericFor(<<"i">>, <<K(1)>>, <<>>),
      GenericFor(<<"i">>, <<V("upto"), K(1), K(0), K(1)>>, <<>>),
      NumericFor("i", Nil, K(1), <<>>, <<>>), NumericFor("i", K(1), Nil, <<>>, <<>>),
      NumericFor("i", K(1), K(1), <<Nil>>, <<>>),
      NumericFor("i", K(1), K(1), <<K(0)>>, <<>>),
      LocalAssign(<<"z">>, <<"close">>, <<K(1)>>), Return(<<Call(Nil, <<>>)>>),
      Do1("t", <<>>), CallStat(MethodCall(Nil, "m", <<>>)),
      GlobalX("none", <<K(1)>>), GlobalX("close", <<>>), Break, Goto("l"),
      LocalAssign(<<"x", "y">>, <<"close", "close">>, <<>>),
      Do(<<Label("l"), Do(<<Label("l")>>)>>)>>
ErrorFamily ==
    Each(Errors, LAMBDA k, st :
        <<Loc("t", Table(<<>>)), Put1("x", K(1)), Tbc("c", 3), st,
          CallStat(CallOf("out", <<K(1)>>))>>)

AllPrograms ==
    LoopFamily \o ScopeFamily \o AssignFamily \o ListFamily \o DeclFamily
    \o ExprFamily \o FunctionFamily \o ErrorFamily
=============================================================================
