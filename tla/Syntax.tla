------------------------------- MODULE Syntax -------------------------------
(***************************************************************************)
(* Guest values and the syntax tree that parser.lua builds, as data.       *)
(*                                                                         *)
(* A value is a tuple whose first element names its type, so that values   *)
(* of different types can be compared: <<"nil">>, <<"bool", b>>,           *)
(* <<"int", n>>, <<"str", s>>, <<"table", id>>, <<"fn", id>> for a guest   *)
(* closure, <<"native", name>> for a host function and <<"guard", n>> for  *)
(* a value with a __close metamethod.  A node is a record with a tag, as   *)
(* in the parser; lines, which only messages use, are left out.            *)
(***************************************************************************)
EXTENDS Integers, Sequences, FiniteSets, TLC

NilV == <<"nil">>
Bln(b) == <<"bool", b>>
Num(n) == <<"int", n>>
Str(s) == <<"str", s>>

Truthy(v) == v # NilV /\ v # Bln(FALSE)

(* Expressions.                                                            *)
Nil == [tag |-> "Nil"]
True == [tag |-> "True"]
False == [tag |-> "False"]
Vararg == [tag |-> "Vararg"]
Number(n) == [tag |-> "Number", num |-> n]
String(s) == [tag |-> "String", str |-> s]
Name(x) == [tag |-> "Name", name |-> x]
Index(obj, key) == [tag |-> "Index", obj |-> obj, key |-> key]
Field(obj, x) == Index(obj, String(x))
Paren(e) == [tag |-> "Paren", expr |-> e]
Call(func, args) == [tag |-> "Call", func |-> func, args |-> args]
MethodCall(obj, method, args) ==
    [tag |-> "MethodCall", obj |-> obj, method |-> method, args |-> args]
Table(fields) == [tag |-> "Table", fields |-> fields]
Item(e) == [kind |-> "item", value |-> e]
Rec(key, e) == [kind |-> "rec", key |-> key, value |-> e]
BinOp(op, lhs, rhs) == [tag |-> "BinOp", op |-> op, lhs |-> lhs, rhs |-> rhs]
UnOp(op, e) == [tag |-> "UnOp", op |-> op, operand |-> e]

(* A block marks the labels that only labels follow (Parser:block), but    *)
(* the body of a repeat does not.                                          *)
Block(stmts) ==
    [i \in DOMAIN stmts |->
        IF \A j \in i..Len(stmts) : stmts[j].tag = "Label"
        THEN [stmts[i] EXCEPT !.void = TRUE] ELSE stmts[i]]

(* vararg is "no", "yes" or the name that a named vararg binds.            *)
Function(params, vararg, body) ==
    [tag |-> "Function", params |-> params, vararg |-> vararg,
     body |-> Block(body)]

(* Statements.  An attribute is "none", "const" or "close".                *)
LocalAssign(names, attribs, exprs) ==
    [tag |-> "LocalAssign", names |-> names, attribs |-> attribs,
     exprs |-> exprs]
LocalFunction(x, func) == [tag |-> "LocalFunction", name |-> x, func |-> func]
Assign(targets, exprs) ==
    [tag |-> "Assign", targets |-> targets, exprs |-> exprs]
CallStat(call) == [tag |-> "CallStat", call |-> call]
Do(body) == [tag |-> "Do", body |-> Block(body)]
While(cond, body) == [tag |-> "While", cond |-> cond, body |-> Block(body)]
Repeat(body, cond) == [tag |-> "Repeat", body |-> body, cond |-> cond]
Clause(cond, body) == [cond |-> cond, body |-> Block(body)]
Else(body) == <<Block(body)>>
NoElse == <<>>
If(clauses, els) == [tag |-> "If", clauses |-> clauses, els |-> els]
NumericFor(x, start, limit, step, body) ==
    [tag |-> "NumericFor", name |-> x, start |-> start, limit |-> limit,
     step |-> step, body |-> Block(body)]
GenericFor(names, exprs, body) ==
    [tag |-> "GenericFor", names |-> names, exprs |-> exprs,
     body |-> Block(body)]
Return(exprs) == [tag |-> "Return", exprs |-> exprs]
Break == [tag |-> "Break"]
Goto(l) == [tag |-> "Goto", label |-> l]
Label(l) == [tag |-> "Label", name |-> l, void |-> FALSE]
Global(names, attribs, exprs, kind) ==
    [tag |-> "Global", names |-> names, attribs |-> attribs, exprs |-> exprs,
     kind |-> kind]

(* Could the expression give other than one value (is_multi)?              *)
IsMulti(e) == e.tag \in {"Call", "MethodCall", "Vararg"}
=============================================================================
