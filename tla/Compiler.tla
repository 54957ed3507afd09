------------------------------ MODULE Compiler ------------------------------
(***************************************************************************)
(* The compiler of compiler.lua: from a syntax tree to protos of register  *)
(* code.                                                                   *)
(*                                                                         *)
(* The code keeps one FuncState per open function and updates it as it     *)
(* goes; here every operation takes the compiler's state S and gives the   *)
(* next.  S.fns is the stack of FuncStates, innermost last; S.err is the   *)
(* first error raised; S.slips names the known mistakes the compiler made  *)
(* on this source (history, see Machine).  Registers are counted from 0    *)
(* and pcs from 1, as in the code.  An instruction carries its constant    *)
(* itself instead of an index into the proto's list.                       *)
(***************************************************************************)
EXTENDS Syntax, SequencesExt

(* The number of items after which a table constructor flushes (50 in the  *)
(* code).                                                                  *)
CONSTANT FieldsPerFlush

NoReg == -1
(* The sequence of what G makes of each index and element of s.            *)
Each(s, G(_, _)) == <<>> \o [i \in DOMAIN s |-> G(i, s[i])]
Ins(op, a, b, c) == [op |-> op, a |-> a, b |-> b, c |-> c]
Larger(x, y) == IF x > y THEN x ELSE y

NewFuncState(params, vararg, upvals) ==
    [code |-> <<>>, protos |-> <<>>, upvals |-> upvals, numparams |-> params,
     vararg |-> vararg, varreg |-> NoReg, maxstack |-> 2, actvars |-> <<>>,
     locvars |-> <<>>,
     ntbc |-> 0, freereg |-> 0, blocks |-> <<>>, serial |-> 0,
     gotos |-> <<>>, labels |-> <<>>]

Fs(S) == Last(S.fns)
Set(S, fs) == [S EXCEPT !.fns = Append(Front(@), fs)]
Free(S) == Fs(S).freereg
SetFree(S, reg) == Set(S, [Fs(S) EXCEPT !.freereg = reg])
Here(S) == Len(Fs(S).code) + 1
Emit(S, ins) == Set(S, [Fs(S) EXCEPT !.code = Append(@, ins)])
EmitOp(S, op, a, b, c) == Emit(S, Ins(op, a, b, c))
SetArgA(S, pcs, to) ==
    Set(S, [Fs(S) EXCEPT !.code =
        Each(@, LAMBDA i, ins : IF i \in pcs THEN [ins EXCEPT !.a = to] ELSE ins)])
SetArgB(S, pc, to) ==
    Set(S, [Fs(S) EXCEPT !.code =
        Each(@, LAMBDA i, ins : IF i = pc THEN [ins EXCEPT !.b = to] ELSE ins)])
Fail(S, what) == IF S.err = "" THEN [S EXCEPT !.err = what] ELSE S
Slip(S, what, cond) == IF cond THEN [S EXCEPT !.slips = @ \cup {what}] ELSE S

CheckStack(S, reg) == Set(S, [Fs(S) EXCEPT !.maxstack = Larger(@, reg + 1)])
Reserve(S, n) ==
    Set(S, [Fs(S) EXCEPT !.freereg = @ + n,
                         !.maxstack = Larger(@, Free(S) + n)])

(* Scopes.                                                                 *)
EnterBlock(S, loop) ==
    LET fs == Fs(S)
    IN  Set(S, [fs EXCEPT
            !.serial = @ + 1,
            !.blocks = Append(@, [id |-> fs.serial, loop |-> loop,
                firstlocal |-> Len(fs.actvars) + 1, firstreg |-> fs.freereg,
                startpc |-> Here(S), capture |-> FALSE, ntbc |-> fs.ntbc,
                breaks |-> {}])])

CurBlock(S) == Last(Fs(S).blocks)

(* Gotos that have seen no label yet are matched with the labels of the    *)
(* block that is left; the others escape with fewer active variables.      *)
LabelsFor(fs, b, g) ==
    {l \in ToSet(fs.labels) : l.name = g.name /\ l.block = b.id}

ResolveGotos(S, b) ==
    LET fs == Fs(S)
        outer == b.firstlocal - 1
        Open(g) == ~g.done /\ g.pc >= b.startpc
        hits == {g \in ToSet(fs.gotos) : Open(g) /\ LabelsFor(fs, b, g) # {}}
        Target(g) == CHOOSE l \in LabelsFor(fs, b, g) : TRUE
        IntoScope(g) == /\ Target(g).pc > g.pc
                        /\ ~Target(g).void
                        /\ Target(g).nactvar > g.nactvar
        Closes(g) == Target(g).nactvar < Len(g.regs)
        At(pc) == {g \in hits : pc \in {g.pc, g.closepc}}
        Patch(pc, ins) ==
            LET g == CHOOSE h \in At(pc) : TRUE
            IN  IF At(pc) = {} THEN ins
                ELSE IF pc = g.pc THEN [ins EXCEPT !.a = Target(g).pc]
                ELSE IF Closes(g)
                THEN [ins EXCEPT !.a = g.regs[Target(g).nactvar + 1]]
                ELSE ins
        Moved(g) == IF g \in hits THEN [g EXCEPT !.done = TRUE]
                    ELSE IF Open(g) /\ g.nactvar > outer
                    THEN [g EXCEPT !.nactvar = outer] ELSE g
        next == Set(S, [fs EXCEPT
                    !.code = Each(@, Patch),
                    !.gotos = Each(@, LAMBDA i, g : Moved(g))])
    IN  Slip(IF \E g \in hits : IntoScope(g) THEN Fail(next, "goto") ELSE next,
             "void", \E g \in hits : /\ Target(g).nactvar > g.nactvar
                                     /\ Len(g.regs) > g.nactvar)

LeaveBlock(S) ==
    LET b == CurBlock(S)
        closed == IF b.capture THEN EmitOp(S, "CLOSE", b.firstreg, 0, 0) ELSE S
        resolved == ResolveGotos(closed, b)
    IN  Set(resolved, [Fs(resolved) EXCEPT
            !.blocks = Front(@), !.freereg = b.firstreg, !.ntbc = b.ntbc,
            !.actvars = SubSeq(@, 1, b.firstlocal - 1),
            !.locvars = Each(@, LAMBDA i, lv :
                IF \E j \in DOMAIN Fs(S).actvars :
                      j >= b.firstlocal /\ Fs(S).actvars[j].locvar = i
                THEN [lv EXCEPT !.endpc = Here(resolved)] ELSE lv)])

NewLocal(S, x, reg, attrib) ==
    Set(S, [Fs(S) EXCEPT
        !.locvars = Append(@, [name |-> x, reg |-> reg, startpc |-> Here(S),
                               endpc |-> 0]),
        !.actvars = Append(@, [name |-> x, reg |-> reg, attrib |-> attrib,
                               gdecl |-> FALSE,
                               locvar |-> Len(Fs(S).locvars) + 1])])
AddGdecl(S, x, attrib) ==
    Set(S, [Fs(S) EXCEPT !.actvars = Append(@,
            [name |-> x, reg |-> Free(S), attrib |-> attrib, gdecl |-> TRUE,
             locvar |-> 0])])

(* Mutant: only the innermost block gets a CLOSE at its end.               *)
MarkInnermost(fs, reg) ==
    [fs EXCEPT !.blocks[Len(fs.blocks)].capture = TRUE]
(* Every block down to the one that holds reg gets a CLOSE at its end.     *)
MarkCapture(fs, reg) ==
    LET holders == {i \in DOMAIN fs.blocks : fs.blocks[i].firstreg <= reg}
        innermost == IF holders = {} THEN 1
                     ELSE CHOOSE i \in holders : \A j \in holders : j <= i
    IN  [fs EXCEPT !.blocks = Each(@, LAMBDA i, b :
            IF i >= innermost THEN [b EXCEPT !.capture = TRUE] ELSE b)]

(* Names, by function state d of S: "local", "upval" or "global".          *)
UpvalNamed(fs, x) == {i \in DOMAIN fs.upvals : fs.upvals[i].name = x}

RECURSIVE ResolveAt(_, _, _)
ResolveAt(S, d, x) ==
    LET fs == S.fns[d]
        bound == {i \in DOMAIN fs.actvars : fs.actvars[i].name = x}
        av == fs.actvars[CHOOSE i \in bound : \A j \in bound : j <= i]
        up == ResolveAt(S, d - 1, x)
        AddUpval(T, instack) ==
            [s |-> [T EXCEPT !.fns[d].upvals = Append(@,
                        [name |-> x, instack |-> instack, index |-> up.at])],
             kind |-> "upval", at |-> Len(fs.upvals) + 1]
        Found(kind, at) == [s |-> S, kind |-> kind, at |-> at]
    IN  IF bound # {}
        THEN IF av.gdecl THEN Found("global", 0) ELSE Found("local", av.reg)
        ELSE IF UpvalNamed(fs, x) # {}
        THEN Found("upval", CHOOSE i \in UpvalNamed(fs, x) : TRUE)
        ELSE IF d = 1 THEN Found("global", 0)
        ELSE IF up.kind = "local"
        THEN AddUpval([up.s EXCEPT !.fns[d - 1] = MarkCapture(@, up.at)], TRUE)
        ELSE IF up.kind = "upval" THEN AddUpval(up.s, FALSE)
        ELSE up

Resolve(S, x) == ResolveAt(S, Len(S.fns), x)

(* All active variables and declarations, those of the innermost function  *)
(* last.                                                                   *)
AllActive(S) == FlattenSeq([d \in DOMAIN S.fns |-> S.fns[d].actvars])

GlobalStatus(S, x) ==
    LET decls == SelectSeq(AllActive(S), LAMBDA av : av.gdecl)
        fits == {i \in DOMAIN decls : decls[i].name \in {"*", x}}
        last == CHOOSE i \in fits : \A j \in fits : j <= i
    IN  IF decls = <<>> THEN "ok"
        ELSE IF fits = {} THEN "strict"
        ELSE IF decls[last].attrib = "const" THEN "const" ELSE "ok"

CheckGlobalRead(S, x) ==
    IF GlobalStatus(S, x) = "strict" THEN Fail(S, "undeclared") ELSE S
CheckGlobalWrite(S, x) ==
    CASE GlobalStatus(S, x) = "strict" -> Fail(S, "undeclared")
      [] GlobalStatus(S, x) = "const" -> Fail(S, "const")
      [] OTHER -> S

EnvForGlobal(S) ==
    LET env == Resolve(S, "_ENV")
    IN  IF env.kind = "global" THEN [env EXCEPT !.s = Fail(@, "env")] ELSE env

CheckConst(S, x) ==
    LET vars == SelectSeq(AllActive(S), LAMBDA av : ~av.gdecl /\ av.name = x)
        hidden == /\ Resolve(S, x).kind = "global"
                  /\ vars # <<>>
    IN  IF vars # <<>> /\ Last(vars).attrib \in {"const", "close"}
        THEN Slip(Fail(S, "const"), "hidden", hidden) ELSE S

(***************************************************************************)
(* Expressions.  Exp2Reg leaves the value in reg; Exp2AnyReg also says     *)
(* where it left it.                                                       *)
(***************************************************************************)
RECURSIVE Exp2Reg(_, _, _), CompileCall(_, _, _, _, _), Stmts(_, _),
          TableFields(_, _, _, _, _), Flattened(_)

Exp2NextReg(S, e) == Exp2Reg(Reserve(S, 1), e, Free(S))

Exp2AnyReg(S, e) ==
    LET v == Resolve(S, e.name)
    IN  IF e.tag = "Name" /\ v.kind = "local" THEN [s |-> S, reg |-> v.at]
        ELSE [s |-> Exp2NextReg(IF e.tag = "Name" THEN v.s ELSE S, e),
              reg |-> Free(S)]

EmitVararg(S, reg, b) ==
    IF Fs(S).varreg # NoReg THEN EmitOp(S, "UNPACKVARARG", reg, Fs(S).varreg, b)
    ELSE EmitOp(S, "VARARG", reg, b, 0)

LoadName(S, x, reg) ==
    LET v == Resolve(S, x)
        env == EnvForGlobal(CheckGlobalRead(v.s, x))
    IN  CASE v.kind = "local" ->
               IF v.at = reg THEN S ELSE EmitOp(S, "MOVE", reg, v.at, 0)
          [] v.kind = "upval" -> EmitOp(v.s, "GETUPVAL", reg, v.at, 0)
          [] v.kind = "global" ->
               EmitOp(env.s, IF env.kind = "local" THEN "GETFIELD"
                             ELSE "GETTABUP", reg, env.at, Str(x))

LoadIndex(S, e, reg) ==
    LET obj == Exp2AnyReg(S, e.obj)
        key == Exp2AnyReg(obj.s, e.key)
        got == IF e.key.tag = "String"
               THEN EmitOp(obj.s, "GETFIELD", reg, obj.reg, Str(e.key.str))
               ELSE EmitOp(key.s, "GETTABLE", reg, obj.reg, key.reg)
    IN  SetFree(got, Larger(Free(got), reg + 1))

(* Lists of expressions: each but the last gives one value.                *)
RECURSIVE IntoRegs(_, _, _)
IntoRegs(S, exprs, base) ==
    IF exprs = <<>> \/ S.err # "" THEN S
    ELSE IntoRegs(SetFree(Exp2Reg(S, Head(exprs), base), base + 1),
                  Tail(exprs), base + 1)

(* A multi-valued expression into reg and up: all of its values (-1) or    *)
(* exactly want.                                                           *)
LoadMulti(S, e, reg, want) ==
    IF e.tag = "Vararg" THEN EmitVararg(S, reg, want + 1)
    ELSE CompileCall(S, e, reg, want, FALSE)

ExplistOpen(S, exprs, base) ==
    LET n == Len(exprs)
        first == IntoRegs(SetFree(S, base), Front(exprs), base)
    IN  IF n = 0 THEN [s |-> SetFree(S, base), open |-> FALSE]
        ELSE IF IsMulti(Last(exprs))
        THEN [s |-> LoadMulti(CheckStack(first, base + n - 1), Last(exprs),
                              base + n - 1, -1),
              open |-> TRUE]
        ELSE [s |-> SetFree(Exp2Reg(first, Last(exprs), base + n - 1), base + n),
              open |-> FALSE]

AdjustExplist(S, exprs, base, nvars) ==
    LET n == Len(exprs)
        want == Larger(nvars - (n - 1), 0)
        lastreg == base + n - 1
        room == CheckStack(S, base + Larger(nvars, 1) - 1)
        first == IntoRegs(SetFree(room, base), Front(exprs), base)
        multi == LoadMulti(CheckStack(first, lastreg + Larger(want, 1) - 1),
                           Last(exprs), lastreg, want)
        single == Exp2Reg(first, Last(exprs), lastreg)
        Pad(T) == IF n < nvars
                  THEN EmitOp(T, "LOADNIL", base + n, base + nvars - 1, 0) ELSE T
    IN  SetFree(IF n = 0 THEN IF nvars > 0 THEN Pad(room) ELSE room
                ELSE IF IsMulti(Last(exprs)) THEN multi ELSE Pad(single),
                base + Larger(nvars, n))

(* Calls.  nresults is -1 for all results.                                 *)
CompileCall(S, e, reg, nresults, tail) ==
    LET room == CheckStack(S, reg)
        method == e.tag = "MethodCall"
        obj == Exp2AnyReg(room, e.obj)
        self == SetFree(EmitOp(obj.s, "SELF", reg, obj.reg, Str(e.method)),
                        reg + 2)
        func == SetFree(Exp2Reg(SetFree(room, reg), e.func, reg), reg + 1)
        args == IF method THEN ExplistOpen(self, e.args, reg + 2)
                ELSE ExplistOpen(func, e.args, reg + 1)
        b == IF args.open THEN 0
             ELSE Len(e.args) + (IF method THEN 2 ELSE 1)
        called == EmitOp(args.s, "CALL", reg, b, nresults + 1)
    IN  IF tail THEN EmitOp(args.s, "TAILCALL", reg, b, 0)
        ELSE IF nresults >= 0 THEN SetFree(called, reg + nresults) ELSE called

(* Table constructors: pending items wait in the registers above reg.      *)
Flush(S, reg, pending, stored, open) ==
    IF pending = 0 THEN S
    ELSE SetFree(EmitOp(S, "SETLIST", reg, IF open THEN 0 ELSE pending, stored),
                 reg + 1)

TableFields(S, fields, reg, pending, stored) ==
    LET f == Head(fields)
        valreg == reg + 1 + pending
        room == SetFree(CheckStack(S, valreg), valreg)
        flushed == Flush(S, reg, pending, stored, FALSE)
        val == Exp2AnyReg(flushed, f.value)
        key == Exp2AnyReg(flushed, f.key)
        keyval == Exp2AnyReg(key.s, f.value)
        record == IF f.key.tag = "String"
                  THEN EmitOp(val.s, "SETFIELD", reg, Str(f.key.str), val.reg)
                  ELSE EmitOp(keyval.s, "SETTABLE", reg, key.reg, keyval.reg)
        item == SetFree(Exp2Reg(room, f.value, valreg), valreg + 1)
    IN  CASE fields = <<>> -> Flush(S, reg, pending, stored, FALSE)
          [] fields # <<>> /\ f.kind = "rec" ->
               TableFields(SetFree(record, Free(flushed)), Tail(fields), reg, 0,
                           stored + pending)
          [] fields # <<>> /\ f.kind = "item" ->
               IF Len(fields) = 1 /\ IsMulti(f.value)
               THEN Flush(LoadMulti(room, f.value, valreg, -1), reg,
                          pending + 1, stored, TRUE)
               ELSE IF pending + 1 >= FieldsPerFlush
               THEN TableFields(Flush(item, reg, pending + 1, stored, FALSE),
                                Tail(fields), reg, 0, stored + pending + 1)
               ELSE TableFields(item, Tail(fields), reg, pending + 1, stored)

CompileTable(S, e, reg) ==
    LET made == EmitOp(CheckStack(S, reg), "NEWTABLE", reg, 0, 0)
    IN  SetFree(TableFields(SetFree(made, Larger(Free(S), reg + 1)), e.fields,
                            reg, 0, 0), reg + 1)

(* Operators.                                                              *)
ShortCircuit(S, e, reg) ==
    LET lhs == EmitOp(Exp2Reg(S, e.lhs, reg),
                      IF e.op = "and" THEN "JMPIFNOT" ELSE "JMPIF", reg, 0, 0)
        rhs == SetFree(Exp2Reg(SetFree(lhs, reg + 1), e.rhs, reg), Free(lhs))
    IN  SetArgB(rhs, Here(lhs) - 1, Here(rhs))

Flattened(e) == IF e.tag = "BinOp" /\ e.op = ".."
                THEN Flattened(e.lhs) \o Flattened(e.rhs) ELSE <<e>>

Concat(S, e, reg) ==
    LET parts == Flattened(e)
        all == IntoRegs(SetFree(S, reg), parts, reg)
    IN  SetFree(EmitOp(all, "CONCAT", reg, reg, reg + Len(parts) - 1), Free(S))

Operands(S, reg) == SetFree(S, Larger(Free(S), reg + 1))

Swapped == [op \in {">", ">="} |-> IF op = ">" THEN "<" ELSE "<="]

CompileBinop(S, e, reg) ==
    LET lhs == Exp2AnyReg(Operands(S, reg), e.lhs)
        rhs == Exp2AnyReg(lhs.s, e.rhs)
        done == SetFree(rhs.s, Free(S))
    IN  CASE e.op \in {"and", "or"} -> ShortCircuit(S, e, reg)
          [] e.op = ".." -> Concat(S, e, reg)
          [] e.op \in {">", ">="} ->
               EmitOp(done, Swapped[e.op], reg, rhs.reg, lhs.reg)
          [] e.op = "~=" ->
               EmitOp(EmitOp(done, "==", reg, lhs.reg, rhs.reg), "not", reg, reg, 0)
          [] OTHER -> EmitOp(done, e.op, reg, lhs.reg, rhs.reg)

CompileUnop(S, e, reg) ==
    LET val == Exp2AnyReg(Operands(S, reg), e.operand)
    IN  EmitOp(SetFree(val.s, Free(S)), IF e.op = "-" THEN "neg" ELSE e.op,
               reg, val.reg, 0)

(***************************************************************************)
(* Functions.                                                              *)
(***************************************************************************)
RECURSIVE Params(_, _)
Params(S, names) ==
    IF names = <<>> THEN S
    ELSE Params(NewLocal(Reserve(S, 1), Head(names), Free(S), "none"),
                Tail(names))

NamedVararg(S, x) ==
    LET reg == Free(S)
        local == NewLocal(EmitOp(Reserve(S, 1), "VARARGPACK", reg, 0, 0),
                          x, reg, "const")
    IN  IF x \in {"no", "yes"} THEN S
        ELSE Set(local, [Fs(local) EXCEPT !.varreg = reg])

(* The end of a body: the block's end, the implicit return, and the gotos  *)
(* that found no label.                                                    *)
EndBody(S) ==
    LET done == EmitOp(LeaveBlock(S), "RETURN", 0, 1, 0)
    IN  IF \A g \in ToSet(Fs(done).gotos) : g.done THEN done
        ELSE Fail(done, "goto")

ProtoOf(fs) ==
    [code |-> fs.code, protos |-> fs.protos, upvals |-> fs.upvals,
     numparams |-> fs.numparams, vararg |-> fs.vararg,
     locvars |-> fs.locvars, maxstack |-> fs.maxstack]

CompileFunction(S, f) ==
    LET new == NewFuncState(Len(f.params), f.vararg # "no", <<>>)
        opened == EnterBlock([S EXCEPT !.fns = Append(@, new)], FALSE)
        ready == NamedVararg(Params(opened, f.params), f.vararg)
        done == EndBody(Stmts(ready, f.body))
        outer == [done EXCEPT !.fns = Front(@)]
    IN  Set(outer, [Fs(outer) EXCEPT
            !.protos = Append(@, ProtoOf(Fs(done)))])

Closure(S, f, reg) ==
    LET done == CompileFunction(S, f)
    IN  EmitOp(done, "CLOSURE", reg, Len(Fs(done).protos), 0)

Exp2Reg(S0, e, reg) ==
    LET S == CheckStack(S0, reg)
    IN  IF S.err # "" THEN S ELSE
        CASE e.tag = "Nil" -> EmitOp(S, "LOADNIL", reg, reg, 0)
          [] e.tag = "True" -> EmitOp(S, "LOADBOOL", reg, 1, 0)
          [] e.tag = "False" -> EmitOp(S, "LOADBOOL", reg, 0, 0)
          [] e.tag = "Number" -> EmitOp(S, "LOADK", reg, Num(e.num), 0)
          [] e.tag = "String" -> EmitOp(S, "LOADK", reg, Str(e.str), 0)
          [] e.tag = "Vararg" -> EmitVararg(S, reg, 2)
          [] e.tag = "Name" -> LoadName(S, e.name, reg)
          [] e.tag = "Index" -> LoadIndex(S, e, reg)
          [] e.tag = "Paren" -> Exp2Reg(S, e.expr, reg)
          [] e.tag \in {"Call", "MethodCall"} ->
               SetFree(CompileCall(S, e, reg, 1, FALSE), reg + 1)
          [] e.tag = "Function" -> Closure(S, e, reg)
          [] e.tag = "Table" -> CompileTable(S, e, reg)
          [] e.tag = "BinOp" -> CompileBinop(S, e, reg)
          [] e.tag = "UnOp" -> CompileUnop(S, e, reg)

(***************************************************************************)
(* Statements.                                                             *)
(***************************************************************************)
Scoped(S, body) == LeaveBlock(Stmts(EnterBlock(S, FALSE), body))

(* The global x from or to a register, through _ENV wherever that is.      *)
GetGlobal(S, x, reg) ==
    LET env == EnvForGlobal(S)
    IN  EmitOp(env.s, IF env.kind = "local" THEN "GETFIELD" ELSE "GETTABUP",
               reg, env.at, Str(x))
SetGlobal(S, x, reg) ==
    LET env == EnvForGlobal(S)
    IN  EmitOp(env.s, IF env.kind = "local" THEN "SETFIELD" ELSE "SETTABUP",
               env.at, Str(x), reg)

StoreName(S, x, reg) ==
    LET v == Resolve(S, x)
    IN  CASE v.kind = "local" ->
               IF v.at = reg THEN S ELSE EmitOp(S, "MOVE", v.at, reg, 0)
          [] v.kind = "upval" -> EmitOp(v.s, "SETUPVAL", reg, v.at, 0)
          [] v.kind = "global" -> SetGlobal(CheckGlobalWrite(v.s, x), x, reg)

(* The object and key registers of the targets, which are found before the *)
(* values are computed.                                                    *)
TargetReg(S, t) ==
    LET checked == CheckConst(S, t.name)
        v == Resolve(checked, t.name)
        obj == Exp2AnyReg(S, t.obj)
        key == Exp2AnyReg(obj.s, t.key)
    IN  IF t.tag = "Name"
        THEN [s |-> IF v.kind = "global" THEN Resolve(v.s, "_ENV").s ELSE v.s,
              obj |-> NoReg, key |-> NoReg]
        ELSE IF t.key.tag = "String"
        THEN [s |-> obj.s, obj |-> obj.reg, key |-> NoReg]
        ELSE [s |-> key.s, obj |-> obj.reg, key |-> key.reg]

StoreTo(S, t, at, reg) ==
    IF t.tag = "Name" THEN StoreName(S, t.name, reg)
    ELSE IF t.key.tag = "String"
    THEN EmitOp(S, "SETFIELD", at.obj, Str(t.key.str), reg)
    ELSE EmitOp(S, "SETTABLE", at.obj, at.key, reg)

RECURSIVE TargetRegs(_, _, _), Stores(_, _, _, _)
TargetRegs(S, targets, found) ==
    LET p == TargetReg(S, Head(targets))
    IN  IF targets = <<>> THEN [s |-> S, at |-> found]
        ELSE TargetRegs(p.s, Tail(targets),
                      Append(found, [obj |-> p.obj, key |-> p.key]))

(* Right to left.                                                          *)
Stores(S, targets, at, base) ==
    LET n == Len(targets)
    IN  IF n = 0 THEN S
        ELSE Stores(StoreTo(S, Last(targets), at[n], base + n - 1),
                    Front(targets), at, base)

(* A register that a later store reads is one that an earlier store sets.  *)
Overlaps(S, targets, at) ==
    LET SetBy(j) == LET v == Resolve(S, targets[j].name)
                    IN  IF targets[j].tag = "Name" /\ v.kind = "local"
                        THEN {v.at} ELSE {}
    IN  \E i, j \in DOMAIN targets :
            j > i /\ {at[i].obj, at[i].key} \cap SetBy(j) # {}

CompileAssign(S, targets, exprs) ==
    LET pre == TargetRegs(S, targets, <<>>)
        base == Free(pre.s)
        vals == AdjustExplist(pre.s, exprs, base, Len(targets))
    IN  Slip(SetFree(Stores(vals, targets, pre.at, base), Free(S)),
             "overlap", Overlaps(pre.s, targets, pre.at))

MarkTbc(S, reg) ==
    LET fs == MarkCapture(Fs(S), reg)
    IN  Set(S, [fs EXCEPT !.ntbc = @ + 1,
                          !.code = Append(@, Ins("TBC", reg, 0, 0))])

RECURSIVE Activate(_, _, _, _)
Activate(S, names, attribs, reg) ==
    LET local == NewLocal(S, Head(names), reg, Head(attribs))
    IN  IF names = <<>> THEN S
        ELSE Activate(IF Head(attribs) = "close" THEN MarkTbc(local, reg)
                      ELSE local, Tail(names), Tail(attribs), reg + 1)

CompileLocal(S, st) ==
    LET base == Free(S)
        closes == {i \in DOMAIN st.attribs : st.attribs[i] = "close"}
        ready == AdjustExplist(S, st.exprs, base, Len(st.names))
        done == Activate(ready, st.names, st.attribs, base)
    IN  SetFree(IF Cardinality(closes) > 1 THEN Fail(done, "close") ELSE done,
                base + Len(st.names))

CompileLocalFunction(S, st) ==
    LET reg == Free(S)
    IN  SetFree(Closure(NewLocal(Reserve(S, 1), st.name, reg, "none"),
                        st.func, reg), reg + 1)

(* A call returned is a tail call unless something is still to be closed.  *)
TbcActive(fs) ==
    \E i \in DOMAIN fs.actvars : fs.actvars[i].attrib \in {"close", "state"}
IsTail(fs, exprs) ==
    /\ Len(exprs) = 1
    /\ fs.ntbc = 0
    /\ exprs[1].tag \in {"Call", "MethodCall"}

CompileReturn(S, exprs) ==
    LET base == Free(S)
        tail == CompileCall(S, exprs[1], base, -1, TRUE)
        list == ExplistOpen(S, exprs, base)
        b == IF list.open THEN 0 ELSE Len(exprs) + 1
    IN  IF exprs = <<>> THEN EmitOp(S, "RETURN", base, 1, 0)
        ELSE IF IsTail(Fs(S), exprs)
        THEN Slip(SetFree(EmitOp(tail, "RETURN", base, 0, 0), base),
                  "tail", TbcActive(Fs(S)))
        ELSE SetFree(EmitOp(list.s, "RETURN", base, b, 0), base)

RECURSIVE IfClauses(_, _, _, _)
IfClauses(S, clauses, els, jumps) ==
    LET cond == SetFree(Exp2NextReg(S, Head(clauses).cond), Free(S))
        jfalse == Here(cond)
        body == Scoped(EmitOp(cond, "JMPIFNOT", Free(S), 0, 0),
                       Head(clauses).body)
        more == Len(clauses) > 1 \/ els # <<>>
        jump == IF more THEN EmitOp(body, "JMP", 0, 0, 0) ELSE body
        last == IF els = <<>> THEN S ELSE Scoped(S, els[1])
    IN  IF clauses = <<>> THEN SetArgA(last, jumps, Here(last))
        ELSE IfClauses(SetArgB(jump, jfalse, Here(jump)), Tail(clauses), els,
                       IF more THEN jumps \cup {Here(body)} ELSE jumps)

(* The breaks of the loop block that is left jump to where we are.         *)
Breaks(S, loop) == SetArgA(S, CurBlock(loop).breaks, Here(S))

CompileWhile(S, st) ==
    LET top == Here(S)
        cond == SetFree(Exp2NextReg(S, st.cond), Free(S))
        jout == Here(cond)
        loop == Scoped(EnterBlock(EmitOp(cond, "JMPIFNOT", Free(S), 0, 0), TRUE),
                       st.body)
        back == EmitOp(LeaveBlock(loop), "JMP", top, 0, 0)
    IN  Breaks(SetArgB(back, jout, Here(back)), loop)

(* Mutant: no CLOSE before the jump back of a repeat.                      *)
RepeatUnclosed(S, st) ==
    LET inner == Stmts(EnterBlock(EnterBlock(S, TRUE), FALSE), st.body)
        cond == SetFree(Exp2NextReg(inner, st.cond), Free(inner))
        loop == LeaveBlock(EmitOp(cond, "JMPIFNOT", Free(inner), Here(S), 0))
    IN  Breaks(LeaveBlock(loop), loop)

CompileRepeat(S, st) ==
    LET top == Here(S)
        inner == Stmts(EnterBlock(EnterBlock(S, TRUE), FALSE), st.body)
        creg == Free(inner)
        cond == SetFree(Exp2NextReg(inner, st.cond), creg)
        closed == IF CurBlock(cond).capture
                  THEN EmitOp(cond, "CLOSE", CurBlock(cond).firstreg, 0, 0)
                  ELSE cond
        loop == LeaveBlock(EmitOp(closed, "JMPIFNOT", creg, top, 0))
    IN  Breaks(LeaveBlock(loop), loop)

CompileNumericFor(S, st) ==
    LET base == Free(S)
        start == Exp2Reg(Reserve(S, 3), st.start, base)
        limit == Exp2Reg(start, st.limit, base + 1)
        step == IF st.step = <<>>
                THEN EmitOp(limit, "LOADK", base + 2, Num(1), 0)
                ELSE Exp2Reg(limit, st.step[1], base + 2)
        prep == EmitOp(SetFree(step, base + 3), "FORPREP", base, 0, 0)
        var == NewLocal(Reserve(EnterBlock(prep, TRUE), 1), st.name, base + 3,
                        "const")
        loop == Scoped(var, st.body)
        back == EmitOp(LeaveBlock(loop), "FORLOOP", base, Here(prep), 0)
    IN  SetFree(Breaks(SetArgB(back, Here(prep) - 1, Here(back)), loop), base)

CompileGenericFor(S, st) ==
    LET base == Free(S)
        nvars == Len(st.names)
        state == AdjustExplist(S, st.exprs, base, 4)
        room == Reserve(Reserve(state, 4), nvars - 1)
        block == EnterBlock(SetFree(room, base + 3 + nvars), TRUE)
        from == Set(block, [Fs(block) EXCEPT
                    !.blocks[Len(Fs(block).blocks)].firstreg = base])
        hidden == Activate(from, <<"(for state)", "(for state)", "(for state)">>,
                           <<"none", "none", "state">>, base)
        prep == EmitOp(hidden, "TFORPREP", base, 0, 0)
        vars == Activate(Set(prep, [Fs(prep) EXCEPT !.ntbc = @ + 1]), st.names,
                         [i \in DOMAIN st.names |->
                            IF i = 1 THEN "const" ELSE "none"], base + 3)
        loop == Scoped(vars, st.body)
        left == LeaveBlock(loop)
        call == EmitOp(SetArgB(left, Here(prep) - 1, Here(left)),
                       "TFORCALL", base, 0, nvars)
        exit == Breaks(EmitOp(call, "TFORLOOP", base, Here(prep), 0), loop)
        closed == EmitOp(exit, "CLOSE", base + 2, 0, 0)
    IN  Slip(SetFree(Set(closed, [Fs(closed) EXCEPT !.ntbc = @ - 1]), base),
             "closing", /\ CurBlock(loop).capture
                        /\ Len(st.exprs) > 3 \/ IsMulti(Last(st.exprs)))

CompileBreak(S) ==
    LET fs == Fs(S)
        loops == {i \in DOMAIN fs.blocks : fs.blocks[i].loop}
        lb == CHOOSE i \in loops : \A j \in loops : j <= i
        closed == EmitOp(S, "CLOSE", fs.blocks[lb].firstreg, 0, 0)
        jumped == EmitOp(closed, "JMP", 0, 0, 0)
    IN  IF loops = {} THEN Fail(S, "break")
        ELSE Set(jumped, [Fs(jumped) EXCEPT
                !.blocks[lb].breaks = @ \cup {Here(closed)}])

(* A goto leaves room for a CLOSE whose level its label will tell; 256 is  *)
(* above every register.                                                   *)
CompileGoto(S, l) ==
    LET closed == EmitOp(S, "CLOSE", 256, 0, 0)
        jumped == EmitOp(closed, "JMP", 0, 0, 0)
        vars == Fs(S).actvars
    IN  Set(jumped, [Fs(jumped) EXCEPT !.gotos = Append(@,
            [name |-> l, pc |-> Here(closed), closepc |-> Here(S),
             nactvar |-> Len(vars), done |-> FALSE,
             regs |-> [i \in DOMAIN vars |-> vars[i].reg]])])

(* Mutant: a label one instruction before where it stands.                 *)
LabelBefore(S, l, void) ==
    Set(S, [Fs(S) EXCEPT !.labels = Append(@,
        [name |-> l, pc |-> Here(S) - 1, nactvar |-> Len(Fs(S).actvars),
         block |-> CurBlock(S).id, void |-> void])])

CompileLabel(S, l, void) ==
    LET fs == Fs(S)
        open == {b.id : b \in ToSet(fs.blocks)}
        clash == \E k \in ToSet(fs.labels) : k.name = l /\ k.block \in open
        added == Set(S, [fs EXCEPT !.labels = Append(@,
                    [name |-> l, pc |-> Here(S), nactvar |-> Len(fs.actvars),
                     block |-> CurBlock(S).id, void |-> void])])
    IN  IF clash THEN Fail(added, "label") ELSE added

(* global declarations: with values, each name must be undefined.          *)
RECURSIVE Defines(_, _, _, _), Declares(_, _, _)
Defines(S, names, base, temp) ==
    LET x == Head(names)
        tested == EmitOp(GetGlobal(S, x, temp), "ERRNNIL", temp, Str(x), 0)
    IN  IF names = <<>> THEN S
        ELSE Defines(SetGlobal(tested, x, base), Tail(names), base + 1, temp)
Declares(S, names, attribs) ==
    IF names = <<>> THEN S
    ELSE Declares(AddGdecl(S, Head(names), Head(attribs)), Tail(names),
                  Tail(attribs))

CompileGlobal(S, st) ==
    LET base == Free(S)
        n == Len(st.names)
        vals == CheckStack(AdjustExplist(S, st.exprs, base, n), base + n)
        defined == IF st.exprs = <<>> THEN S
                   ELSE SetFree(Defines(vals, st.names, base, base + n), base)
        self == CompileAssign(AddGdecl(S, st.names[1], "none"),
                              <<Name(st.names[1])>>, st.exprs)
        entry == Len(Fs(S).actvars) + 1
        checked(T) == IF "close" \in ToSet(st.attribs) THEN Fail(T, "close") ELSE T
    IN  checked(CASE st.kind = "star" -> AddGdecl(S, "*", st.attribs[1])
                  [] st.kind = "plain" -> Declares(defined, st.names, st.attribs)
                  [] st.kind = "function" ->
                       Set(self, [Fs(self) EXCEPT
                           !.actvars[entry].attrib = st.attribs[1]]))

CallAlone(S, call) == SetFree(CompileCall(S, call, Free(S), 0, FALSE), Free(S))

CompileStmt(S, st) ==
    CASE st.tag = "LocalAssign" -> CompileLocal(S, st)
      [] st.tag = "LocalFunction" -> CompileLocalFunction(S, st)
      [] st.tag = "Assign" -> CompileAssign(S, st.targets, st.exprs)
      [] st.tag = "CallStat" -> CallAlone(S, st.call)
      [] st.tag = "Do" -> Scoped(S, st.body)
      [] st.tag = "While" -> CompileWhile(S, st)
      [] st.tag = "Repeat" -> CompileRepeat(S, st)
      [] st.tag = "If" -> IfClauses(S, st.clauses, st.els, {})
      [] st.tag = "NumericFor" -> CompileNumericFor(S, st)
      [] st.tag = "GenericFor" -> CompileGenericFor(S, st)
      [] st.tag = "Return" -> CompileReturn(S, st.exprs)
      [] st.tag = "Break" -> CompileBreak(S)
      [] st.tag = "Goto" -> CompileGoto(S, st.label)
      [] st.tag = "Label" -> CompileLabel(S, st.name, st.void)
      [] st.tag = "Global" -> CompileGlobal(S, st)

Stmts(S, body) ==
    IF body = <<>> \/ S.err # "" THEN S
    ELSE Stmts(CompileStmt(S, Head(body)), Tail(body))

(***************************************************************************)
(* The main function: its only upvalue is _ENV.                            *)
(***************************************************************************)
CompileMain(body) ==
    LET main == NewFuncState(0, TRUE,
                    <<[name |-> "_ENV", instack |-> FALSE, index |-> 0]>>)
        start == EnterBlock([fns |-> <<main>>, err |-> "", slips |-> {}], FALSE)
        done == EndBody(Stmts(start, body))
    IN  [proto |-> ProtoOf(Fs(done)), err |-> done.err, slips |-> done.slips]
=============================================================================
