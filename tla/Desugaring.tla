------------------------------ MODULE Desugaring ------------------------------
(***************************************************************************)
(* The rewriting of a checked tree both back ends begin with               *)
(* (DeSugaringVisitor, LLConformantDeSugaringVisitor): compound            *)
(* assignments are spelled out, the casts the language makes by itself are *)
(* written into the tree, conditions of the Mono target become explicit.   *)
(* A node is rewritten before its children are visited, and the children   *)
(* that are visited are those it has then.                                 *)
(***************************************************************************)
EXTENDS TypeChecking

CastNode(to, e) == [Node("cast", "", to, <<e>>) EXCEPT !.made = TRUE]
\* What is left of a tree when an assertion fails.
FailedAssert == NoNode
Binary(op, t, l, r) == Node("binary", op, t, <<l, r>>)

\* Mutant: a key given for a string, or the reverse, is left as it is.
InjectNumbers(e, to) ==
  IF e.t = to \/ ~CanCoerce(e.t, to) \/ to \in Strings THEN e ELSE CastNode(to, e)
\* maybeInjectCast
Inject(e, to) == IF e.t = to \/ ~CanCoerce(e.t, to) THEN e ELSE CastNode(to, e)

\* Integers that stand beside one of these are promoted, for Mono.
PromotesSibling(t) == t \in {"float"} \cup Coordinates
PromoteSiblings(e) ==
  LET l == e.kids[1]  r == e.kids[2]
  IN CASE PromotesSibling(l.t) /\ r.t = "integer" -> [e EXCEPT !.kids[2] = Inject(r, "float")]
       [] l.t = "integer" /\ PromotesSibling(r.t) -> [e EXCEPT !.kids[1] = Inject(l, "float")]
       [] OTHER -> e

\* visit(LSLBinaryExpression).  The new operation takes the right side as it
\* was before it was promoted; it is promoted again when it is visited.
RewriteBinary(e, mono) ==
  LET l == e.kids[1]  r == e.kids[2]  op == Decouple(e.op)
  IN CASE "error" \in {l.t, r.t} \/ Busted(e.op, l.t, r.t) -> e
       [] op = "=" -> [e EXCEPT !.kids[2] = Inject(r, l.t)]
       [] op # e.op /\ mono /\ l.t = "integer" /\ PromotesSibling(r.t) -> FailedAssert
       [] op # e.op -> [e EXCEPT !.op = "=", !.kids[2] = Binary(op, e.t, l, r)]
       [] OTHER -> IF mono THEN PromoteSiblings(e) ELSE e

\* visit(LSLUnaryExpression): ++x and --x of the LSO target are assignments.
RewritesUnary(e, mono) == ~mono /\ e.k = "unary" /\ e.op \in {"++x", "--x"} /\ e.t # "error"
RewriteUnary(e) ==
  LET x == e.kids[1]
  IN Binary("=", e.t, x, Binary(StepOperator(e.op), e.t, x, Node("const", "1", x.t, <<>>)))

\* visit(LSLLValueExpression), rewriteBuiltinLValue: a builtin vector or
\* rotation is made of its components.
RewriteBuiltin(e) ==
  LET t == Variables[e.op].t
  IN IF t \in Coordinates
     THEN Node(t, "", t, [i \in 1 .. Size(t) |-> Node("const", IF i = 4 THEN "1" ELSE "0", "float", <<>>)])
     ELSE Node("const", "0", t, <<>>)

\* visit(LSLConstantExpression): -1 is the opposite of 1.
RewriteConstant(e) ==
  IF e.op = "-1" THEN Node("unary", "-", e.t, <<[e EXCEPT !.op = "1"]>>) ELSE e

\* visit(LSLFunctionExpression)
RewriteArguments(e) ==
  LET params == Functions[e.op].params
  IN [e EXCEPT !.kids = [i \in DOMAIN @ |-> Inject(@[i], Variables[params[i]].t)]]

\* handleCoordinateExpression
RewriteCoordinates(e) == [e EXCEPT !.kids = [i \in DOMAIN @ |-> Inject(@[i], "float")]]

Rewrite(e, mono) ==
  CASE e.k = "binary" -> RewriteBinary(e, mono)
    [] e.k = "call" -> RewriteArguments(e)
    [] e.k \in Coordinates -> RewriteCoordinates(e)
    [] OTHER -> e

RECURSIVE Desugar(_, _)
Desugar(e, mono) ==
  LET new == Rewrite(e, mono)
  IN CASE Builtin(e) -> RewriteBuiltin(e)
       [] e.k = "const" -> RewriteConstant(e)
       [] RewritesUnary(e, mono) -> RewriteUnary(e)
       [] OTHER -> [new EXCEPT !.kids = [i \in DOMAIN @ |-> Desugar(@[i], mono)]]

-----------------------------------------------------------------------------
\* setResultNeeded(false), which parentheses hand on.
RECURSIVE Unneeded(_)
Unneeded(e) ==
  IF e.k = "paren" THEN [e EXCEPT !.needed = FALSE, !.kids[1] = Unneeded(@)]
  ELSE [e EXCEPT !.needed = FALSE]

\* maybeInjectBoolConversion
InjectBoolConversion(e, mono) == IF mono THEN Node("bool", "", "integer", <<e>>) ELSE e

\* A statement of function f.
DesugarStatement(st, f, mono) ==
  LET injected ==
        CASE st.e = NoNode -> NoNode
          [] st.k = "declare" -> Inject(st.e, Variables[st.x].t)
          [] st.k = "return" /\ f # "entry" -> Inject(st.e, Functions[f].t)
          [] st.k = "test" -> InjectBoolConversion(st.e, mono)
          [] OTHER -> st.e
      e == IF injected = NoNode THEN NoNode ELSE Desugar(injected, mono)
  IN [st EXCEPT !.e = IF st.k = "expr" THEN Unneeded(e) ELSE e]
=============================================================================
