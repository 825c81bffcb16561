----------------------------- MODULE TypeChecking -----------------------------
(***************************************************************************)
(* The visitor that gives every expression its type and complains of what  *)
(* has none (TypeCheckVisitor).  It visits children first: a node is typed *)
(* from the types of its children.  Types do not change once given, so an  *)
(* expression can be checked while it is written, from the inside out.     *)
(***************************************************************************)
EXTENDS Expressions

Types(es) == {es[i].t : i \in DOMAIN es}
MembersOf(t) == CASE t = "vector" -> {"x", "y", "z"} [] t = "rotation" -> {"x", "y", "z", "s"} [] OTHER -> {}

\* visit(LSLLValueExpression): a member of a builtin constant is refused,
\* as is a member the type of the variable does not have.
LValueType(x, m) ==
  CASE m = "" -> Variables[x].t
    [] Variables[x].sub # "builtin" /\ m \in MembersOf(Variables[x].t) -> "float"
    [] OTHER -> "error"

\* visit(LSLExpression)
MutatesBuiltin(op, e) == Mutates(op) /\ Builtin(e)
ExpressionType(op, l, r) ==
  LET t == ResultType(l.t, op, r.t)
  IN CASE op = "(" -> l.t
       [] MutatesBuiltin(op, l) \/ t = "none" -> "error"
       [] OTHER -> t
\* ... and whether it complains of the node itself, not of one below.
BadExpression(op, l, r) ==
  MutatesBuiltin(op, l) \/ (op # "(" /\ ResultType(l.t, op, r.t) = "none")
\* The warning about the assignment that is not sugar.
MulAssignWarned(op, l, r) == Busted(op, l.t, r.t)

\* visit(LSLListExpression)
BadElements(es) == Types(es) \cap {"list", "null"} # {}

\* validate_func_arg_spec, for a call: types first, then the number of them.
ArgumentsFit(es, params) ==
  /\ \A i \in DOMAIN es \cap DOMAIN params : CanCoerce(es[i].t, Variables[params[i]].t)
  /\ Len(es) = Len(params)

\* visit(LSLVectorExpression), visit(LSLQuaternionExpression)
BadCoordinates(es) == \E t \in Types(es) : ~CanCoerce(t, "float")

\* Mutant: the error that comes from below is reported again.
BadCastAgain(from, to) == ~CastLegal(from, to)
\* visit(LSLTypecastExpression): an error from below is not reported again.
BadCast(from, to) == ~CastLegal(from, to) /\ from # "error"

\* visit(LSLPrintExpression)
BadPrint(e) == e.t = "null"
-----------------------------------------------------------------------------
\* The type of a node whose children are typed; literals, casts, vectors,
\* rotations, lists and prints have theirs from the parser.
TypeOf(e) ==
  CASE e.k = "lvalue" -> LValueType(e.op, e.m)
    [] e.k = "binary" -> ExpressionType(e.op, e.kids[1], e.kids[2])
    [] e.k = "unary" -> ExpressionType(e.op, e.kids[1], Node("none", "", "none", <<>>))
    [] e.k = "paren" -> ExpressionType("(", e.kids[1], NoNode)
    [] e.k = "call" -> Functions[e.op].t
    [] OTHER -> e.t
Mistaken(e) ==
  CASE e.k = "lvalue" -> LValueType(e.op, e.m) = "error"
    [] e.k = "binary" -> BadExpression(e.op, e.kids[1], e.kids[2])
    [] e.k = "unary" -> BadExpression(e.op, e.kids[1], Node("none", "", "none", <<>>))
    [] e.k = "call" -> ~ArgumentsFit(e.kids, Functions[e.op].params)
    [] e.k = "cast" -> BadCast(e.kids[1].t, e.t)
    [] e.k = "list" -> BadElements(e.kids)
    [] e.k \in Coordinates -> BadCoordinates(e.kids)
    [] e.k = "print" -> BadPrint(e.kids[1])
    [] OTHER -> FALSE
Typed(e) == [e EXCEPT !.t = TypeOf(e)]

-----------------------------------------------------------------------------
(* Statements *)

\* handleDeclaration
BadDeclaration(x, e) == e # NoNode /\ ~CanCoerce(e.t, Variables[x].t)

\* visit(LSLReturnStatement), in a function that returns t (no handler).  A call of a
\* function without a value may be returned under a condition only.
BadReturn(t, e, nested) ==
  IF e = NoNode THEN t # "null"
  ELSE ~CanCoerce(e.t, t) \/ (e.t = "null" /\ ~nested)

\* validateCheckExpr
BadCondition(e) == e.t = "null"

BadStatement(st, f) ==
  CASE st.k = "declare" -> BadDeclaration(st.x, st.e)
    [] st.k = "return" -> BadReturn(Functions[f].t, st.e, st.x = "nested")
    [] st.k = "test" -> BadCondition(st.e)
    [] OTHER -> FALSE
=============================================================================
