------------------------------- MODULE Values -------------------------------
(***************************************************************************)
(* What the operations of runtime.lua do with guest values.  A table is a  *)
(* function from the keys it holds to their values (GuestTable says how it *)
(* is stored).  Integers are small enough not to wrap.  Metatables are     *)
(* left out, but for the __close of a guard.                               *)
(***************************************************************************)
EXTENDS Syntax, SequencesExt

(* Result of an operation that raises an error.                            *)
Fault == <<"fault">>

EmptyTable == [k \in {} |-> NilV]
Get(t, k) == IF k \in DOMAIN t THEN t[k] ELSE NilV
Put(t, k, v) ==
    IF v = NilV THEN [j \in DOMAIN t \ {k} |-> t[j]] ELSE (k :> v) @@ t

(* Store vals at the keys from + 1, from + 2, ...                          *)
PutList(t, from, vals) ==
    LET keys == {Num(from + i) : i \in DOMAIN vals}
    IN  [k \in {j \in DOMAIN t \cup keys :
                    j \in keys => vals[j[2] - from] # NilV} |->
            IF k \in keys THEN vals[k[2] - from] ELSE t[k]]

Border(t) == CHOOSE i \in 0..Cardinality(DOMAIN t) :
                 /\ i = 0 \/ Num(i) \in DOMAIN t
                 /\ Num(i + 1) \notin DOMAIN t

IsInt(v) == v[1] = "int"
IsTable(v) == v[1] = "table"
IsFunction(v) == v[1] \in {"fn", "native"}
(* What may be the value of a to-be-closed variable.                       *)
Closable(v) == v[1] = "guard" \/ ~Truthy(v)

AsText(v) == IF IsInt(v) THEN ToString(v[2]) ELSE v[2]

(* The numerals that a string may be.  Arithmetic takes them for numbers.  *)
Numerals == [s \in {ToString(n) : n \in 0..99} |->
                CHOOSE n \in 0..99 : ToString(n) = s]
IsNumber(v) == IsInt(v) \/ (v[1] = "str" /\ v[2] \in DOMAIN Numerals)
AsNumber(v) == IF IsInt(v) THEN v[2] ELSE Numerals[v[2]]

(* The families compare no two strings.                                    *)
Binary(op, x, y) ==
    IF \/ op \in {"+", "-", "*"} /\ ~(IsNumber(x) /\ IsNumber(y))
       \/ op \in {"<", "<="} /\ ~(IsInt(x) /\ IsInt(y))
    THEN Fault
    ELSE CASE op = "==" -> Bln(x = y)
           [] op = "+" -> Num(AsNumber(x) + AsNumber(y))
           [] op = "-" -> Num(AsNumber(x) - AsNumber(y))
           [] op = "*" -> Num(AsNumber(x) * AsNumber(y))
           [] op = "<" -> Bln(x[2] < y[2])
           [] op = "<=" -> Bln(x[2] <= y[2])
           [] op = ".." -> IF {x[1], y[1]} \subseteq {"int", "str"}
                           THEN Str(AsText(x) \o AsText(y)) ELSE Fault

Unary(op, x) ==
    CASE op = "not" -> Bln(~Truthy(x))
      [] op = "neg" -> IF IsNumber(x) THEN Num(-AsNumber(x)) ELSE Fault

(* The length of x, where tables are the contents of all tables.           *)
Length(x, tables) ==
    CASE IsTable(x) -> Num(Border(tables[x[2]]))
      [] x[1] = "str" -> Num(Len(x[2]))
      [] OTHER -> Fault

(* The host's functions a program starts with: out is its only output,     *)
(* guard(n) makes a value whose __close is output, upto(s, c) counts from  *)
(* c + 1 to s for a generic for.                                           *)
Natives == {"out", "guard", "upto"}
Globals == [k \in {Str(x) : x \in Natives} |-> <<"native", k[2]>>]

Arg(args, i) == IF i <= Len(args) THEN args[i] ELSE NilV
(* What an output shows of a value: not the identity of an object.         *)
Shown(v) == IF v[1] \in {"table", "fn"} THEN <<v[1]>> ELSE v
NativeOutput(f, args) ==
    IF f = "out" THEN <<[i \in DOMAIN args |-> Shown(args[i])]>> ELSE <<>>
NativeResults(f, args) ==
    LET s == Arg(args, 1)
        c == Arg(args, 2)
    IN  CASE f = "out" -> <<>>
          [] f = "guard" -> <<<<"guard", Arg(args, 1)>>>>
          [] f = "upto" -> IF c[2] < s[2] THEN <<Num(c[2] + 1)>> ELSE <<NilV>>
CloseOutput(v) == IF Truthy(v) THEN <<<<Str("close"), v[2]>>>> ELSE <<>>
=============================================================================
