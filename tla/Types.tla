-------------------------------- MODULE Types --------------------------------
(***************************************************************************)
(* The types of LSL, which of them stand in for which (canCoerce), which   *)
(* may be cast to which (LEGAL_CAST_TABLE) and what an operator makes of   *)
(* the types of its operands (OPERATOR_RESULTS, getResultType).            *)
(*                                                                         *)
(* A row of the operator table is <<left, right, result>>; the right side  *)
(* of a unary operator is "none", and so is the result of an operation the *)
(* table does not list.                                                    *)
(***************************************************************************)
EXTENDS Naturals

Numeric == {"integer", "float"}
Strings == {"string", "key"}
Coordinates == {"vector", "rotation"}
ValueTypes == Numeric \cup Strings \cup Coordinates \cup {"list"}
AllTypes == ValueTypes \cup {"null", "error"}

Increments == {"++x", "x++", "--x", "x--"}
CompoundOps == {"+=", "-=", "*=", "/=", "%="}
Comparisons == {"<", ">", "<=", ">="}
Equalities == {"==", "!="}
Integral == {"&", "|", "^", "&&", "||", "<<", ">>"}
BinaryOps == {"=", "+", "-", "*", "/", "%"} \cup CompoundOps \cup Comparisons
               \cup Equalities \cup Integral
UnaryOps == Increments \cup {"-", "!", "~"}

\* The pairs of COERCION_TABLE, wanted type first.
CoercionTable == {<<"float", "integer">>, <<"string", "key">>, <<"key", "string">>}

\* LSLType::canCoerce
CanCoerce(from, to) ==
  \/ "error" \in {from, to}
  \/ from = to
  \/ <<to, from>> \in CoercionTable

\* LEGAL_CAST_TABLE, is_cast_legal: a type with no value is cast to nothing.
CastLegal(from, to) ==
  /\ from \in ValueTypes /\ to \in ValueTypes
  /\ \/ from = to
     \/ to \in {"string", "list"}
     \/ from = "string"
     \/ from \in Numeric /\ to \in Numeric

Widest(l, r) == IF l = r THEN l ELSE "float"
Like(T) == {<<t, t, t>> : t \in T}
Arithmetic == {<<l, r, Widest(l, r)>> : l, r \in Numeric}
Scaling == {<<"vector", t, "vector">> : t \in Numeric}
Rotations == {<<"vector", "rotation", "vector">>, <<"rotation", "rotation", "rotation">>}
Tests(pairs) == {<<p[1], p[2], "integer">> : p \in pairs}
NumberPairs == Numeric \X Numeric
StringPairs == Strings \X Strings

\* OPERATOR_RESULTS
OperatorResults(op) ==
  CASE op \in Increments -> {<<t, "none", t>> : t \in Numeric}
    [] op = "=" -> Like(ValueTypes) \cup {<<w[1], w[2], w[1]>> : w \in CoercionTable}
    [] op = "+" -> Arithmetic \cup Like(Coordinates \cup {"string"})
                     \cup {<<"list", t, "list">> : t \in ValueTypes}
                     \cup {<<t, "list", "list">> : t \in ValueTypes}
    [] op = "-" -> Arithmetic \cup Like(Coordinates)
                     \cup {<<t, "none", t>> : t \in Numeric \cup Coordinates}
    [] op = "*" -> Arithmetic \cup Scaling \cup Rotations
                     \cup {<<t, "vector", "vector">> : t \in Numeric}
                     \cup {<<"vector", "vector", "float">>}
    [] op = "/" -> Arithmetic \cup Scaling \cup Rotations
    [] op = "%" -> Like({"integer", "vector"})
    [] op \in Comparisons -> Tests(NumberPairs)
    [] op \in Equalities ->
         Tests(NumberPairs \cup StringPairs \cup {<<t, t>> : t \in Coordinates \cup {"list"}})
    [] op \in {"!", "~"} -> {<<"integer", "none", "integer">>}
    [] op \in Integral -> Like({"integer"})
    [] OTHER -> {}

\* decouple_compound_operation
Decouple(op) ==
  CASE op = "+=" -> "+" [] op = "-=" -> "-" [] op = "*=" -> "*"
    [] op = "/=" -> "/" [] op = "%=" -> "%" [] OTHER -> op

\* operation_mutates
Mutates(op) == op \in {"="} \cup Increments \cup CompoundOps

\* LSLType::getResultType. A compound assignment must yield the type of the
\* variable it assigns to, `integer *= float` excepted.
RowResult(rows) == IF rows = {} THEN "none" ELSE (CHOOSE row \in rows : TRUE)[3]
Compounded(l, op, r, result) ==
  CASE op \notin CompoundOps \/ result \in {"none", l} -> result
    [] op = "*=" /\ l = "integer" /\ r = "float" -> "float"
    [] OTHER -> "none"
ResultType(l, op, r) ==
  CASE "error" \in {l, r} -> "error"
    [] op = "(" -> r
    [] OTHER -> Compounded(l, op, r,
                  RowResult({row \in OperatorResults(Decouple(op)) : row[1] = l /\ row[2] = r}))

\* The compound assignment that is not sugar for anything.
Busted(op, l, r) == op = "*=" /\ l = "integer" /\ r = "float"

\* What an operator makes of its operands does not depend on which of two
\* rows for them the code meets first.
ASSUME OneResult ==
  \A op \in BinaryOps \cup UnaryOps :
    \A a, b \in OperatorResults(op) : a[1] = b[1] /\ a[2] = b[2] => a[3] = b[3]
=============================================================================
