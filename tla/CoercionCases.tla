--------------------------- MODULE CoercionCases ---------------------------
(* What coercionfuzz computes: operations on operands, each operand an      *)
(* expression spliced into a driver.  An expression is a literal or the     *)
(* name of a local of the driver's prologue, <<"REF", r>> or <<"MM", m>>.   *)
EXTENDS Integers, Sequences, FiniteSets

Operand(name, expr, mm) == [name |-> name, expr |-> expr, mm |-> mm]
literal == <<"literal">>
Strings == {"s_empty", "s_space", "s_0", "s_00", "s_1", "s_m1", "s_p1", "s_neg0", "s_neg0ws",
            "s_neg0f", "s_neg0e", "s_pos0", "s_1e3", "s_1e309", "s_0x10", "s_ws5", "s_0x1p4",
            "s_inf", "s_nan", "s_abc"}
Literals == {"nil", "true", "false", "i0", "i1", "im1", "f0", "fm0", "nan", "inf", "ninf"}
            \union Strings
References == [table |-> "TABLE", func |-> "FUNC", thread |-> "THREAD", table2 |-> "TABLE2"]
plain_operands ==
  {Operand(n, literal, {}) : n \in Literals}
  \union {Operand(n, <<"REF", References[n]>>, {}) : n \in DOMAIN References}
ranging_operands ==
  {o \in plain_operands : o.name \in {"nil", "true", "i0", "i1", "f0", "nan", "inf", "s_1", "s_1e3",
                                      "s_0x10", "s_ws5", "s_abc", "s_empty"} \union DOMAIN References}

ARITH_MM == {"add", "sub", "mul", "div", "mod", "pow", "idiv", "unm"}
BIT_MM == {"band", "bor", "bxor", "bnot", "shl", "shr"}
CMP_MM == {"eq", "lt", "le"}
ALL_MM == ARITH_MM \union BIT_MM \union CMP_MM \union {"concat", "len", "index", "newindex"}
(* The name of a combination, less its "mm_", and in upper case.            *)
Upper == [full_arith |-> "FULL_ARITH", full_bit |-> "FULL_BIT", cmp |-> "CMP",
          arith_cmp |-> "ARITH_CMP", none |-> "NONE"]
Combos == [full_arith |-> ARITH_MM, full_bit |-> BIT_MM, cmp |-> CMP_MM,
           arith_cmp |-> ARITH_MM \union CMP_MM, none |-> {}]
mm_single_operands == {Operand(m, <<"MM", m>>, {m}) : m \in ALL_MM}
mm_combo_operands == {Operand(c, <<"MM", Upper[c]>>, Combos[c]) : c \in DOMAIN Combos}
random_operand(include_mm) ==
  plain_operands \union (IF include_mm THEN mm_single_operands \union mm_combo_operands ELSE {})
operand_index(name) == CHOOSE o \in random_operand(TRUE) : o.name = name
-----------------------------------------------------------------------------
(* The tiers, by operator.  A case without a second operand has one twice.  *)
ARITH == {"+", "-", "*", "/", "%", "//", "^"}
BITWISE == {"&", "|", "~", "<<", ">>"}
BINOPS == ARITH \union BITWISE \union {"<", "<=", ">", ">=", "==", "~="} \union {".."}
UNOPS == {"unm", "len", "bnot", "not"}
LIB_CALLS == {"math.abs", "math.floor", "math.ceil", "math.sqrt", "math.max2", "math.min2",
              "math.tointeger", "math.type", "strrep", "strsub", "strlen", "strbyte", "strupper",
              "strformat_d", "strformat_s", "tonumber", "tonumber16", "tostring"}
Binop(op, a, b) == [kind |-> "binop", op |-> op, spliced |-> <<a, b>>]
Unop(op, a) == [kind |-> "unop", op |-> op, spliced |-> <<a>>]
Other(kind, op, spliced) == [kind |-> kind, op |-> op, spliced |-> spliced]

tier0(op) ==
  IF op \in BINOPS THEN {Binop(op, a, b) : a, b \in plain_operands}
  ELSE {Unop(op, a) : a \in plain_operands}

_OP_FOR_MM == [add |-> "+", sub |-> "-", mul |-> "*", div |-> "/", mod |-> "%", pow |-> "^",
               idiv |-> "//", band |-> "&", bor |-> "|", bxor |-> "~", shl |-> "<<", shr |-> ">>",
               lt |-> "<", le |-> "<=", eq |-> "==", concat |-> ".."]
tier1(op) ==
  LET mm_ops == mm_single_operands \union mm_combo_operands
  IN IF op \in UNOPS THEN {Unop(op, m) : m \in mm_ops}
     ELSE {Binop(op, m, b) : m \in mm_ops, b \in ranging_operands}
          \union {Binop(op, b, m) : m \in mm_ops, b \in ranging_operands}
          \union {Binop(op, m, m) : m \in {s \in mm_single_operands :
                    \E e \in s.mm \intersect DOMAIN _OP_FOR_MM : _OP_FOR_MM[e] = op}}

_lit == Operand("lit_3", literal, {})
tier2(kind) ==
  LET named(n) == operand_index(n)
      forset == {o \in plain_operands : o.name \in
                   {"i1", "i0", "im1", "f0", "nan", "inf", "ninf", "s_1", "s_1e3", "s_abc",
                    "s_ws5", "nil", "true", "table"}}
      libset == {o \in plain_operands : o.name \in Strings \union
                   {"i0", "i1", "im1", "f0", "fm0", "nan", "inf", "ninf", "nil", "true", "table"}}
  IN CASE kind \in {"index_get", "index_set"} -> {Other(kind, kind, <<a>>) : a \in plain_operands}
       [] kind = "key_norm" -> {Other(kind, kind, <<_lit, _lit>>)}
       [] kind = "fornum" -> {Other(kind, kind, <<named("i1"), a, named("i1")>>) : a \in forset}
                             \union {Other(kind, kind, <<named("i1"), named("s_1"), a>>) : a \in forset}
                             \union {Other(kind, kind, <<a, _lit, named("i1")>>) : a \in forset}
       [] OTHER -> {Other("lib", kind, <<a>>) : a \in libset}

(* The questions of precedence, by operator.                                *)
OrderingPairs(op) ==
  (IF op \in {"+", "*", "-"}
   THEN {"s_1", "s_1e3", "s_0x10", "s_ws5", "s_p1", "s_00", "s_0x1p4", "s_inf", "s_nan", "s_abc",
         "s_empty", "s_space"} \X {"i1"} ELSE {})
  \union (IF op = "+"
          THEN {"i1"} \X {"s_1", "s_1e3", "s_0x10", "s_ws5", "s_p1", "s_00", "s_0x1p4", "s_inf",
                          "s_nan", "s_abc", "s_empty", "s_space"} ELSE {})
  \union (IF op = "+" THEN ({"s_1", "s_abc", "s_empty", "i1", "table"} \X {"add"})
                           \union ({"add"} \X {"s_1", "s_abc", "s_empty", "i1", "add", "table2"})
                           \union {<<"sub", "add">>} ELSE {})
  \union (IF op = ".." THEN ({"s_1", "s_abc", "s_empty", "table"} \X {"concat"})
                            \union ({"concat"} \X {"s_1", "s_abc", "s_empty", "table"}) ELSE {})
  \union (IF op \in ARITH THEN {<<"table", "table2">>, <<"nil", "i1">>, <<"true", "i1">>, <<"i1", "nil">>} ELSE {})
  \union (IF op = "==" THEN {<<"eq", "eq">>, <<"table", "table2">>, <<"eq", "i1">>, <<"i1", "eq">>} ELSE {})
  \union (IF op \in {"==", "~="} THEN {<<"eq", "table2">>} ELSE {})
  \union (IF op \in {"<", ">"} THEN {<<"lt", "i1">>, <<"i1", "lt">>} ELSE {})
  \union (IF op \in {"<=", ">="} THEN {<<"le", "i1">>} ELSE {})
  \union (IF op \in BITWISE THEN {<<"i1", "i1">>, <<"f0", "i1">>, <<"f0", "f0">>, <<"i1", "nan">>,
                                  <<"inf", "i1">>, <<"s_1", "i1">>, <<"i1", "band">>} ELSE {})
OrderingUnary(op) ==
  CASE op = "bnot" -> {"f0", "nan", "i1", "bnot"} [] op = "len" -> {"s_abc", "table", "len", "i1"}
    [] OTHER -> {}
ordering(op) ==
  {Binop(op, operand_index(p[1]), operand_index(p[2])) : p \in OrderingPairs(op)}
  \union {Unop(op, operand_index(a)) : a \in OrderingUnary(op)}

tier3(op) ==
  CASE op \in BINOPS -> {Binop(op, a, b) : a, b \in random_operand(TRUE)}
    [] op \in UNOPS  -> {Unop(op, a) : a \in random_operand(TRUE)}
    [] op \in {"index_get", "index_set"} -> {Other(op, op, <<a>>) : a \in random_operand(TRUE)}
    [] OTHER         -> {Other("lib", op, <<a>>) : a \in random_operand(TRUE)}
-----------------------------------------------------------------------------
(* Mutant: an event is missing in the driver.                               *)
_MM_KEYWithoutIdiv ==
  {"add", "sub", "mul", "div", "mod", "pow", "unm", "band", "bor", "bxor", "bnot",
   "shl", "shr", "eq", "lt", "le", "concat", "len", "index", "newindex"}

(* The driver: its prologue binds the references and a table with a         *)
(* metatable for each event and combination; its cases are blocks of their  *)
(* own, so that only the prologue's locals stay alive.                      *)
_MM_KEY == {"add", "sub", "mul", "div", "mod", "pow", "idiv", "unm", "band", "bor", "bxor", "bnot",
            "shl", "shr", "eq", "lt", "le", "concat", "len", "index", "newindex"}
_COMBOS == [FULL_ARITH |-> {"add", "sub", "mul", "div", "mod", "pow", "idiv", "unm"},
            FULL_BIT |-> {"band", "bor", "bxor", "bnot", "shl", "shr"},
            CMP |-> {"eq", "lt", "le"},
            ARITH_CMP |-> {"add", "sub", "mul", "div", "mod", "pow", "idiv", "unm", "eq", "lt", "le"},
            NONE |-> {}]
HeadLocals == {<<"format">>, <<"concat">>, <<"out">>, <<"maskptr">>, <<"serval">>, <<"serr">>, <<"emitcase">>}
_mm_table_lua(name) == {<<"MM", name>>, <<"MM", name, "_mt">>}
_prologue ==
  {<<"REF", r>> : r \in {"TABLE", "TABLE2", "FUNC", "THREAD"}}
  \union UNION {_mm_table_lua(e) : e \in _MM_KEY} \union UNION {_mm_table_lua(c) : c \in DOMAIN _COMBOS}
Events(expr) == IF expr[1] # "MM" THEN {}
                ELSE IF expr[2] \in _MM_KEY THEN {expr[2]} ELSE _COMBOS[expr[2]]

(* A case as it runs: what its operands name, with the metamethods they     *)
(* have there, and the locals alive with its body and res.                  *)
render_case(c) ==
  [uses |-> {c.spliced[i].expr : i \in DOMAIN c.spliced},
   alive |-> Cardinality(HeadLocals \union _prologue) + 2]
=============================================================================
