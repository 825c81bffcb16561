------------------------------- MODULE MonoCode -------------------------------
(***************************************************************************)
(* The CIL that the Mono back end emits for expressions and straight-line  *)
(* statements (MonoScriptCompiler); MonoMachine runs it.                   *)
(*                                                                         *)
(* An instruction is [i, x, sig, t]: its name, what it names (a variable,  *)
(* a member, a literal, a local's number, a method), the types it takes,   *)
(* the last on top, and the type it leaves.  Every float on the stack is a *)
(* "float"; a boxed value is an "object".  The o of the operators is the   *)
(* options of the compiler: optimizeSubtractions and omitPushes.           *)
(***************************************************************************)
EXTENDS Desugaring, Naturals
LOCAL INSTANCE SequencesExt
LOCAL INSTANCE Functions

Ins(i, x) == [i |-> i, x |-> x, sig |-> <<>>, t |-> "null"]
Method(name, sig, t) == [i |-> "call", x |-> name, sig |-> sig, t |-> t]
Load(t, text) == [i |-> "ldc", x |-> text, sig |-> <<>>, t |-> t]
Box(t) == IF t \in {"string", "list"} THEN <<>> ELSE <<[i |-> "box", x |-> "", sig |-> <<t>>, t |-> "object"]>>

-----------------------------------------------------------------------------
(* Variables *)

\* MonoResourceVisitor::visit(LSLDeclaration): locals are numbered in the
\* order of their declarations, for each function.
LocalNumber(x) ==
  LET f == CHOOSE g \in DOMAIN Functions : x \in Range(Functions[g].locals)
  IN CHOOSE i \in DOMAIN Functions[f].locals : Functions[f].locals[i] = x

Sub(e) == Variables[e.op].sub

\* pushLValueContainer
PushContainer(e) ==
  (IF Sub(e) = "global" THEN <<Ins("ldarg.0", "")>> ELSE <<>>)
    \o IF e.m = "" THEN <<>>
       ELSE CASE Sub(e) = "global" -> <<Ins("ldflda", e.op)>>
              [] Sub(e) = "local" -> <<Ins("ldloca", LocalNumber(e.op))>>
              [] OTHER -> <<Ins("ldarga", e.op)>>
\* pushLValue
PushLValue(e) ==
  PushContainer(e)
    \o CASE e.m # "" -> <<Ins("ldfld member", e.m)>>
         [] Sub(e) = "global" -> <<Ins("ldfld", e.op)>>
         [] Sub(e) = "local" -> <<Ins("ldloc", LocalNumber(e.op))>>
         [] OTHER -> <<Ins("ldarg", e.op)>>

\* Mutant: a member is stored without being read back.
StoreMemberOnly(e, push) ==
  IF e.m # "" THEN <<Ins("stfld member", e.m)>> \o (IF push THEN <<Ins("dup", "")>> ELSE <<>>)
  ELSE IF Sub(e) = "global" THEN <<Ins("stfld", e.op)>> \o (IF push THEN PushLValue(e) ELSE <<>>)
  ELSE (IF push THEN <<Ins("dup", "")>> ELSE <<>>)
         \o <<IF Sub(e) = "local" THEN Ins("stloc", LocalNumber(e.op)) ELSE Ins("starg", e.op)>>
\* storeToLValue
StoreToLValue(e, push) ==
  LET inObject == e.m # "" \/ Sub(e) = "global"
      store == CASE e.m # "" -> Ins("stfld member", e.m)
                 [] Sub(e) = "global" -> Ins("stfld", e.op)
                 [] Sub(e) = "local" -> Ins("stloc", LocalNumber(e.op))
                 [] OTHER -> Ins("starg", e.op)
  IN (IF push /\ ~inObject THEN <<Ins("dup", "")>> ELSE <<>>) \o <<store>>
       \o (IF push /\ inObject THEN PushLValue(e) ELSE <<>>)

-----------------------------------------------------------------------------
(* Constants and conversions *)

\* pushConstant: the components of a vector or rotation are pushed one by
\* one; the only list constant is the empty list.
CreateCoordinates(t) ==
  Method(IF t = "vector" THEN "CreateVector" ELSE "CreateQuaternion",
         [i \in 1 .. Size(t) |-> "float"], t)
PushConstant(t, text) ==
  CASE t \in Numeric \cup {"string"} -> <<Load(t, text)>>
    [] t = "key" -> <<Load("string", text), Method("CreateKey", <<"string">>, "key")>>
    [] t \in Coordinates ->
         [i \in 1 .. Size(t) |-> Load("float", Literal(t, "").w[i].op)] \o <<CreateCoordinates(t)>>
    [] t = "list" -> <<Method("CreateList", <<>>, "list")>>
    [] OTHER -> <<>>
PushDefault(t) == PushConstant(t, IF t \in Strings THEN "" ELSE "0")

\* castTopOfStack
CastTop(from, to) ==
  CASE from = to -> <<>>
    [] to = "integer" -> <<Method(IF from = "float" THEN "ToInteger" ELSE "StringToInt", <<from>>, to)>>
    [] to = "float" ->
         IF from = "integer" THEN <<Ins("conv.r8", "")>> ELSE <<Method("StringToFloat", <<from>>, to)>>
    [] to = "string" -> <<Method("ToString", <<from>>, to)>>
    [] to = "key" -> <<Method("CreateKey", <<"string">>, to)>>
    [] to \in Coordinates -> <<Method("Parse", <<"string">>, to)>>
    [] to = "list" -> Box(from) \o <<Method("CreateList", <<"object">>, to)>>

IsFalse == <<Load("integer", "0"), Ins("ceq", "")>>
\* visit(LSLBoolConversionExpression), after the value
ToBool(t) ==
  CASE t = "integer" -> <<>>
    [] t = "float" -> PushDefault(t) \o <<Ins("ceq", "")>> \o IsFalse
    [] t = "string" -> PushDefault(t) \o <<Method("op_Equality", <<t, t>>, "integer")>> \o IsFalse
    [] t = "key" -> <<Method("IsNonNullUuid", <<t>>, "integer")>>
    [] OTHER -> PushDefault(t) \o <<Method("Equals", <<t, t>>, "integer")>> \o IsFalse

-----------------------------------------------------------------------------
(* Expressions *)

\* SIMPLE_BINARY_OPS: the operations that are calls of one method.
Same(T) == {<<t, t>> : t \in T}
MethodOperators ==
  [Add |-> "+", Subtract |-> "-", Multiply |-> "*", Divide |-> "/", Modulo |-> "%",
   Equals |-> "==", NotEquals |-> "!=", ShiftLeft |-> "<<", ShiftRight |-> ">>",
   op_Equality |-> "=="]
VectorAndRotation == {<<"vector", "float">>, <<"vector", "rotation">>, <<"rotation", "rotation">>}
SimpleOperands(op) ==
  CASE op = "+" -> Same({"string", "vector", "rotation"})
    [] op = "-" -> Same(Coordinates)
    [] op = "*" -> VectorAndRotation \cup {<<"float", "vector">>, <<"vector", "vector">>}
    [] op = "/" -> VectorAndRotation \cup Same({"integer"})
    [] op = "%" -> Same({"integer", "vector"})
    [] op = "==" -> Same(Coordinates \cup {"list"})
    [] op = "!=" -> Same({"list"})
    [] op \in {"<<", ">>"} -> Same({"integer"})
    [] OTHER -> {}
MethodName(op) ==
  CHOOSE name \in DOMAIN MethodOperators : MethodOperators[name] = op /\ name # "op_Equality"

\* maybeOmitPush, and the flag it leaves for the statement
NeedPush(e, o) == ~o.omitPushes \/ e.needed
RECURSIVE PushOmitted(_, _)
PushOmitted(e, o) ==
  \/ e.k \in {"binary", "unary"} /\ Mutates(e.op) /\ ~NeedPush(e, o)
  \/ \E i \in DOMAIN e.kids : PushOmitted(e.kids[i], o)

RECURSIVE Emit(_, _), EmitBinary(_, _, _, _, _)
EmitAll(es, o) == FlattenSeq([i \in DOMAIN es |-> Emit(es[i], o)])

\* Mutant: the left operand is evaluated first.
OperandsLeftFirst(l, r, o) == Emit(l, o) \o Emit(r, o)
\* Both operands, the right one first.
Operands(l, r, o) == Emit(r, o) \o Emit(l, o)

\* Mutant: the left operand is the one whose sign is changed.
SubtractNegatingLeft(l, r, o) ==
  IF o.optimizeSubtractions THEN Emit(r, o) \o Emit(l, o) \o <<Ins("neg", ""), Ins("add", "")>>
  ELSE Operands(l, r, o) \o <<Method("Subtract", <<l.t, l.t>>, l.t)>>
Subtract(l, r, o) ==
  IF o.optimizeSubtractions THEN Emit(r, o) \o <<Ins("neg", "")>> \o Emit(l, o) \o <<Ins("add", "")>>
  ELSE Operands(l, r, o) \o <<Method("Subtract", <<l.t, l.t>>, l.t)>>

\* + where it is no simple method: numbers, and lists with anything.
Add(l, r, o) ==
  Operands(l, r, o)
    \o CASE r.t = "list" /\ l.t # "list" -> Box(l.t) \o <<Method("Prepend", <<"list", "object">>, "list")>>
         [] l.t = "list" -> <<Method("Append", <<r.t, "list">>, "list")>>
         [] l.t \in Numeric -> <<Ins("add", "")>>
         [] OTHER -> <<Ins("assert", "")>>

\* == of numbers, strings and keys: the left side, on top, becomes what the
\* right side is.
Equal(l, r, o) ==
  Operands(l, r, o)
    \o CASE r.t \in Numeric -> <<Ins("ceq", "")>>
         [] r.t = "string" -> CastTop(l.t, r.t) \o <<Method("op_Equality", <<r.t, r.t>>, "integer")>>
         [] r.t = "key" -> CastTop(l.t, r.t) \o <<Method("Equals", <<r.t, r.t>>, "integer")>>
         [] OTHER -> <<Ins("assert", "")>>

\* Comparisons see their operands swapped: clt is "right < left".
Compare(op, l, r, o) ==
  Operands(l, r, o) \o CASE op = ">=" -> <<Ins("cgt", "")>> \o IsFalse
                      [] op = "<=" -> <<Ins("clt", "")>> \o IsFalse
                      [] op = ">" -> <<Ins("clt", "")>>
                      [] op = "<" -> <<Ins("cgt", "")>>

\* &&, || and the operations on bits
And(l, r, o) == Emit(r, o) \o IsFalse \o Emit(l, o) \o IsFalse \o <<Ins("or", "")>> \o IsFalse
Or(l, r, o) == Operands(l, r, o) \o <<Ins("or", "")>> \o IsFalse \o IsFalse
BitInstruction(op) == CASE op = "&" -> "and" [] op = "|" -> "or" [] op = "^" -> "xor"

\* compileBinaryExpression
EmitBinary(op, l, r, t, o) ==
  CASE <<l.t, r.t>> \in SimpleOperands(op) -> Operands(l, r, o) \o <<Method(MethodName(op), <<r.t, l.t>>, t)>>
    [] op = "+" -> Add(l, r, o)
    [] op = "-" -> IF l.t \in Numeric THEN Subtract(l, r, o) ELSE <<Ins("assert", "")>>
    [] op = "*" /\ l.t \in Numeric -> Operands(l, r, o) \o <<Ins("mul", "")>>
    [] op = "/" /\ l.t = "float" -> Operands(l, r, o) \o <<Method("Divide", <<"float", "float">>, "float")>>
    [] op = "==" -> Equal(l, r, o)
    [] op = "!=" -> EmitBinary("==", l, r, t, o) \o IsFalse
    [] op \in Comparisons -> Compare(op, l, r, o)
    [] op = "&&" -> And(l, r, o)
    [] op = "||" -> Or(l, r, o)
    [] op \in {"&", "|", "^"} -> Operands(l, r, o) \o <<Ins(BitInstruction(op), "")>>
    [] OTHER -> <<Ins("assert", "")>>

\* '=' and `int *= float`, the one compound assignment left.
EmitAssignment(e, o) ==
  LET x == e.kids[1]  value == Emit(e.kids[2], o)
  IN PushContainer(x) \o value
       \o (IF e.op = "=" THEN <<>>
           ELSE PushLValue(x) \o CastTop("integer", "float") \o <<Ins("mul", "")>> \o CastTop("float", "integer"))
       \o StoreToLValue(x, NeedPush(e, o))

\* x++, x--: the old value stays on the stack, if anything needs it.
StepInstruction(op) == Ins(IF op \in {"++x", "x++"} THEN "add" ELSE "sub", "")
Stepped(e) ==
  LET x == e.kids[1] IN PushContainer(x) \o PushLValue(x) \o PushConstant(x.t, "1") \o <<StepInstruction(e.op)>>
EmitPost(e, o) ==
  (IF NeedPush(e, o) THEN PushLValue(e.kids[1]) ELSE <<>>) \o Stepped(e)
    \o IF o.omitPushes THEN StoreToLValue(e.kids[1], FALSE)
       ELSE StoreToLValue(e.kids[1], TRUE) \o <<Ins("pop", "")>>
EmitPre(e, o) == Stepped(e) \o StoreToLValue(e.kids[1], NeedPush(e, o))

\* visit(LSLUnaryExpression)
EmitUnary(e, o) ==
  LET x == e.kids[1]
  IN CASE e.op \in {"x++", "x--"} -> EmitPost(e, o)
       [] e.op \in {"++x", "--x"} -> EmitPre(e, o)
       [] e.op = "-" /\ x.t \in Numeric -> Emit(x, o) \o <<Ins("neg", "")>>
       [] e.op = "-" -> Emit(x, o) \o <<Method("Negate", <<x.t>>, x.t)>>
       [] e.op = "!" -> Emit(x, o) \o IsFalse
       [] e.op = "~" -> Emit(x, o) \o <<Ins("not", "")>>

\* visit(LSLListExpression), in a function: all elements, then the list.
EmitList(e, o) ==
  FlattenSeq([i \in DOMAIN e.kids |-> Emit(e.kids[i], o) \o Box(e.kids[i].t)])
    \o <<Method("CreateList", <<>>, "list")>>
    \o [i \in DOMAIN e.kids |-> Method("Prepend", <<"object", "list">>, "list")]

\* visit(LSLFunctionExpression)
EmitCall(e, o) ==
  LET F == Functions[e.op]
      sig == [i \in DOMAIN F.params |-> Variables[F.params[i]].t]
  IN (IF F.builtin THEN <<>> ELSE <<Ins("ldarg.0", "")>>) \o EmitAll(e.kids, o)
       \o <<Method(e.op, (IF F.builtin THEN <<>> ELSE <<"this">>) \o sig, F.t)>>

Emit(e, o) ==
  CASE e.k = "const" -> PushConstant(e.t, e.op)
    [] e.k = "lvalue" -> PushLValue(e)
    [] e.k = "binary" /\ e.op \in {"=", "*="} -> EmitAssignment(e, o)
    [] e.k = "binary" -> EmitBinary(e.op, e.kids[1], e.kids[2], e.t, o)
    [] e.k = "unary" -> EmitUnary(e, o)
    [] e.k = "paren" -> Emit(e.kids[1], o)
    [] e.k = "cast" -> Emit(e.kids[1], o) \o CastTop(e.kids[1].t, e.t)
    [] e.k = "bool" -> Emit(e.kids[1], o) \o ToBool(e.kids[1].t)
    [] e.k \in Coordinates -> EmitAll(e.kids, o) \o <<CreateCoordinates(e.k)>>
    [] e.k = "list" -> EmitList(e, o)
    [] e.k = "call" -> EmitCall(e, o)
    [] e.k = "print" -> Emit(e.kids[1], o) \o CastTop(e.kids[1].t, "string") \o <<Method("Print", <<"string">>, "null")>>
    [] OTHER -> <<Ins("assert", "")>>

-----------------------------------------------------------------------------
(* Statements *)

\* Mutant: the result of an expression is popped whether it is there or not.
EmitExpressionAlways(e, o) == Emit(e, o) \o (IF e.t # "null" THEN <<Ins("pop", "")>> ELSE <<>>)
\* visit(LSLExpressionStatement)
EmitExpression(e, o) ==
  Emit(e, o) \o (IF e.t # "null" /\ ~PushOmitted(e, o) THEN <<Ins("pop", "")>> ELSE <<>>)

\* visit(LSLDeclaration), visit(LSLReturnStatement), the condition of
\* visit(LSLIfStatement)
EmitStatement(st, o) ==
  CASE st.k = "expr" -> EmitExpression(st.e, o)
    [] st.k = "declare" ->
         (IF st.e = NoNode THEN PushDefault(Variables[st.x].t) ELSE Emit(st.e, o))
           \o <<Ins("stloc", LocalNumber(st.x))>>
    [] st.k = "return" -> (IF st.e = NoNode THEN <<>> ELSE Emit(st.e, o)) \o <<Ins("ret", "")>>
    [] st.k = "test" -> Emit(st.e, o) \o <<Ins("brfalse", "")>>

\* buildFunction: a `ret` at the end of a body that may run into it.
MonoBody(f, body, o) ==
  FlattenSeq([i \in DOMAIN body |-> EmitStatement(DesugarStatement(body[i], f, TRUE), o)])
    \o IF AllPathsReturn(body) THEN <<>> ELSE <<Ins("ret", "")>>
=============================================================================
