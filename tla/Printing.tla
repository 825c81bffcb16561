------------------------------- MODULE Printing -------------------------------
(***************************************************************************)
(* An expression as it is written, read, simplified and printed            *)
(* (PrettyPrintVisitor), and whether what is printed would be read as the  *)
(* same.  A text is written token by token; Simplified is what is left of  *)
(* a tree by TreeSimplifyingVisitor when it folds constants.               *)
(*                                                                         *)
(* Printed text is a sequence of pieces, a space or what has to be one     *)
(* token or part of one; Lexed puts together what touches.                 *)
(***************************************************************************)
EXTENDS Grammar

CONSTANTS
  Tokens,     \* what can be written
  Beginnings, \* bound: what a text may begin with, and how many tokens follow
  Value       \* the constants the variables that are never assigned stand for

VARIABLES
  parser,     \* the state of the parser
  room,       \* how many tokens may be written yet
  folded,     \* whether constants are folded
  tree        \* the tree that is printed, once the text has ended

vars == <<parser, room, folded, tree>>

-----------------------------------------------------------------------------
(* Folding. *)

RECURSIVE Assigned(_)
Assigned(e) ==
  (IF e.op \in {"=", "--", "post--"} THEN {e.kids[1].op} ELSE {})
    \cup UNION {Assigned(e.kids[i]) : i \in DOMAIN e.kids}

Truth(b) == IF b THEN 1 ELSE 0
UnaryValue(op, v) == CASE op = "-" -> 0 - v [] op = "!" -> Truth(v = 0) [] op = "~" -> 0 - v - 1
BinaryValue(op, l, r) ==
  CASE op = "+" -> l + r [] op = "-" -> l - r [] op = "*" -> l * r
    [] op = "<" -> Truth(l < r) [] op = "<=" -> Truth(l <= r)
    [] op = ">" -> Truth(l > r) [] op = ">=" -> Truth(l >= r)
    [] op = "==" -> Truth(l = r) [] op = "!=" -> Truth(l # r)
    [] op = "&&" -> Truth(l # 0 /\ r # 0) [] op = "||" -> Truth(l # 0 \/ r # 0)

\* The constant a node stands for, if its children do.  Division, shifts and
\* the operators on bits are left as they are.
Kept == {"=", "--", "post--", "/", "%", "<<", ">>", "&", "|", "^"}
Folds(e) ==
  /\ e.k \in {"unary", "binary", "paren", "cast"} /\ e.op \notin Kept
  /\ \A i \in DOMAIN e.kids : e.kids[i].k = "const"
Folded(e) ==
  LET v(i) == e.kids[i].v
      float == e.op \in {"+", "-", "*"} /\ \E i \in DOMAIN e.kids : e.kids[i].t = "float"
      t == IF float THEN "float" ELSE "integer"
  IN CASE e.k = "paren" -> e.kids[1]
       [] e.k = "cast" -> Literal(v(1), e.op)
       [] e.k = "unary" -> Literal(UnaryValue(e.op, v(1)), t)
       [] e.k = "binary" -> Literal(BinaryValue(e.op, v(1), v(2)), t)

RECURSIVE Simplified(_, _)
Simplified(e, changing) ==
  LET simple == [e EXCEPT !.kids = [i \in DOMAIN @ |-> Simplified(@[i], changing)]]
  IN CASE e.k = "lvalue" /\ e.op \in DOMAIN Value \ changing -> Literal(Value[e.op], "integer")
       [] Folds(simple) -> Folded(simple)
       [] OTHER -> simple

-----------------------------------------------------------------------------
(* Printing. *)

Space == Word(" ")
Pieces(w) == CASE w \in {"--", "post--"} -> <<Word("-"), Word("-")>> [] OTHER -> <<Word(w)>>

\* cast_requires_parens
Bare == {"lvalue", "call", "list", "rotation", "vector", "const"}
\* Mutant: an operator on one operand needs none.
CastRequiresParensBinary(e) == e.k \notin Bare \cup {"unary"}
CastRequiresParens(e) == e.k \notin Bare

Parenthesized(text, parens) == IF parens THEN <<Word("(")>> \o text \o <<Word(")")>> ELSE text

\* prettifyCoordinateMembers: no bracket touches another.
\* Mutant: but the last may.
CoordinatesTight(text) ==
  <<Word("<")>> \o (IF text[1].w = "<" THEN <<Space>> ELSE <<>>) \o text \o <<Word(">")>>
Coordinates(text) ==
  <<Word("<")>> \o (IF text[1].w = "<" THEN <<Space>> ELSE <<>>) \o text
    \o (IF text[Len(text)].w = ">" THEN <<Space>> ELSE <<>>) \o <<Word(">")>>

\* The sign of a negative integer constant, and of no other, is kept apart
\* from the operator before it.
NeedParens(e) == e.k = "const" /\ e.t = "integer" /\ e.v < 0

PrintedLiteral(v, t) == IF v < 0 THEN <<Word("-"), Number(0 - v, t)>> ELSE <<Number(v, t)>>

RECURSIVE Printed(_)
Members(kids) ==
  FoldLeft(LAMBDA text, e : text \o (IF text = <<>> THEN <<>> ELSE <<Word(","), Space>>) \o Printed(e), <<>>, kids)
Printed(e) ==
  CASE e.k = "const" -> PrintedLiteral(e.v, e.t)
    [] e.k = "lvalue" -> <<Word(e.op)>>
    [] e.k = "paren" -> Parenthesized(Printed(e.kids[1]), TRUE)
    [] e.k = "unary" ->
         IF e.op = "post--" THEN Printed(e.kids[1]) \o Pieces(e.op)
         ELSE Pieces(e.op) \o Parenthesized(Printed(e.kids[1]), e.op = "-" /\ NeedParens(e.kids[1]))
    [] e.k = "binary" -> Printed(e.kids[1]) \o <<Space, Word(e.op), Space>> \o Printed(e.kids[2])
    [] e.k = "cast" ->
         <<Word(IF e.op = "float" THEN "(float)" ELSE "(integer)")>>
           \o Parenthesized(Printed(e.kids[1]), CastRequiresParens(e.kids[1]))
    [] e.k = "call" -> <<Word("f(")>> \o Members(e.kids) \o <<Word(")")>>
    [] e.k = "list" -> <<Word("[")>> \o Members(e.kids) \o <<Word("]")>>
    [] e.k \in {"vector", "rotation"} -> Coordinates(Members(e.kids))

\* The longest tokens are read first.
Glued == [w \in {"-", "<", ">"} |-> CASE w = "-" -> "--" [] w = "<" -> "<<" [] w = ">" -> ">>"]
Lexed(text) ==
  LET glue(done, piece) ==
        IF done # <<>> /\ piece.w \in DOMAIN Glued /\ done[Len(done)].w = piece.w
        THEN Append(SubSeq(done, 1, Len(done) - 1), Word(Glued[piece.w]))
        ELSE Append(done, piece)
  IN SelectSeq(FoldLeft(glue, <<>>, text), LAMBDA piece : piece.w # " ")

-----------------------------------------------------------------------------
Init ==
  /\ \E b \in Beginnings : parser = FoldLeft(Read, Start, b.tokens) /\ room = b.room
  /\ folded \in BOOLEAN /\ tree = NoTree

Write(tok) ==
  /\ tree = NoTree /\ room > 0
  /\ parser' = Read(parser, tok) /\ parser'.right
  /\ room' = room - 1
  /\ UNCHANGED <<folded, tree>>

EndText ==
  /\ tree = NoTree /\ Parsed(parser) # NoTree
  /\ tree' = IF folded THEN Simplified(Parsed(parser), Assigned(Parsed(parser))) ELSE Parsed(parser)
  /\ UNCHANGED <<parser, room, folded>>

Next == (\E tok \in Tokens : Write(tok)) \/ EndText
Spec == Init /\ [][Next]_vars

-----------------------------------------------------------------------------
(* Properties *)

\* Two trees are the same but for parentheses when their forms are equal.
RECURSIVE Form(_)
Form(e) == IF e.k = "paren" THEN Form(e.kids[1]) ELSE [e EXCEPT !.kids = [i \in DOMAIN @ |-> Form(@[i])]]

ReadsBack(e) == Form(Parse(Lexed(Printed(e)))) = Form(e)

RECURSIVE Parts(_)
Parts(e) == {e} \cup UNION {Parts(e.kids[i]) : i \in DOMAIN e.kids}

\* A minus sign before what begins with one, with which it is a decrement,
\* or with a number, with which it is a literal, though the sign is of the
\* whole; and a literal's sign behind the `>' of a comparison where a vector
\* may end.
SignTouches(e) ==
  /\ e.k = "unary" /\ e.op = "-" /\ ~NeedParens(e.kids[1])
  /\ Printed(e.kids[1])[1].w \in {"-", "number"}
RECURSIVE Unbracketed(_)
Unbracketed(e) ==
  {e} \cup IF e.k \in {"unary", "binary"} THEN UNION {Unbracketed(e.kids[i]) : i \in DOMAIN e.kids} ELSE {}
SignAfterAngle(e) ==
  /\ e.k \in {"vector", "rotation"}
  /\ \E i \in 3 .. Len(e.kids) : \E part \in Unbracketed(e.kids[i]) :
        part.k = "binary" /\ part.op = ">" /\ Printed(part.kids[2])[1].w = "-"
SignMisread(e) == \E part \in Parts(e) : SignTouches(part) \/ SignAfterAngle(part)

\* What is printed is read as the tree that was printed: the parentheses
\* that are left, and those the printer adds, are enough for the precedence
\* of every operator, a cast binds what it did, no two brackets become a
\* shift and no comparison the end of a vector.
PrintedReadsBack == tree # NoTree /\ ~SignMisread(tree) => ReadsBack(tree)

\* "Make sure we don't end up with `--2147483648`" (pretty_print.cc): no
\* sign is misread either.
SignsReadBack == tree # NoTree => ReadsBack(tree)
=============================================================================
