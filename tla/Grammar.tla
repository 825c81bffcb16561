-------------------------------- MODULE Grammar --------------------------------
(***************************************************************************)
(* How the parser (lslmini.y) reads the tokens of an expression.  It is an *)
(* LALR parser whose conflicts are settled by the table of precedences, so *)
(* that at an operator it first reduces what binds at least as tightly.    *)
(* Reading one token is an operator on the parser's stack.                 *)
(*                                                                         *)
(* A token is [w |-> text, v |-> number, t |-> its type].  A node of the   *)
(* tree, and an item of the stack, is [k, op, v, t, kids]; an item that is *)
(* not a tree yet is a "prefix" or "infix" operator, a "cast" to the type  *)
(* op, an open bracket ("open") or a "comma".  A variable stands for its   *)
(* members too, and f( for print( as well.                                 *)
(***************************************************************************)
EXTENDS Integers, Sequences, SequencesExt, FiniteSets

CONSTANT Identifiers   \* the names of variables

Word(w) == [w |-> w, v |-> 0, t |-> ""]
Number(v, t) == [w |-> "number", v |-> v, t |-> t]

Item(k, op) == [k |-> k, op |-> op, v |-> 0, t |-> "", kids |-> <<>>]
Tree(k, op, kids) == [Item(k, op) EXCEPT !.kids = kids]
Literal(v, t) == [Item("const", "") EXCEPT !.v = v, !.t = t]

\* A cast is one word here: no variable has the name of a type.
CastTypes == [w \in {"(integer)", "(float)"} |-> IF w = "(float)" THEN "float" ELSE "integer"]
Closer == [b \in {"(", "f(", "[", "<"} |-> CASE b = "[" -> "]" [] b = "<" -> ">" [] OTHER -> ")"]

\* %left and %right, the loosest first; only assignment is from the right.
Levels ==
  <<{"="}, {"&&", "||"}, {"|"}, {"^"}, {"&"}, {"==", "!="}, {"<", "<=", ">", ">="}, {"<<", ">>"},
    {"+", "-"}, {"*", "/", "%"}, {"!", "~"}>>
Precedence(op) == CHOOSE i \in DOMAIN Levels : op \in Levels[i]
Infix == UNION {Levels[i] : i \in 2 .. 10}

-----------------------------------------------------------------------------
(* The stack; its top is its end. *)

Top(s) == s[Len(s)]
Below(s) == IF Len(s) < 2 THEN Item("bottom", "") ELSE s[Len(s) - 1]
Popped(s, n) == SubSeq(s, 1, Len(s) - n)

\* The rule whose right side the operator below the top tree ends.
Combined(s) ==
  IF Below(s).k = "infix"
  THEN Append(Popped(s, 3), Tree("binary", Below(s).op, <<s[Len(s) - 2], Top(s)>>))
  ELSE Append(Popped(s, 2), Tree(IF Below(s).k = "cast" THEN "cast" ELSE "unary", Below(s).op, <<Top(s)>>))

\* What is reduced before an operator of the precedence p is shifted.  A
\* cast takes nothing but what follows it at once.
RECURSIVE Reduced(_, _)
Reduced(s, p) ==
  IF \/ Below(s).k = "cast"
     \/ Below(s).k \in {"prefix", "infix"} /\ Precedence(Below(s).op) >= p
  THEN Reduced(Combined(s), p) ELSE s

\* The brackets and commas of the stack are those that are open.
Opening(s) == CHOOSE i \in DOMAIN s : s[i].k = "open" /\ \A j \in i + 1 .. Len(s) : s[j].k # "open"
Commas(s, i) == Cardinality({j \in i .. Len(s) : s[j].k = "comma"})
Within(s) == SelectSeq(SubSeq(s, Opening(s) + 1, Len(s)), LAMBDA x : x.k # "comma")
BracketTree(b, kids) ==
  CASE b = "(" -> Tree("paren", "", kids)
    [] b = "f(" -> Tree("call", "", kids)
    [] b = "[" -> Tree("list", "", kids)
    [] b = "<" -> Tree(IF Len(kids) = 3 THEN "vector" ELSE "rotation", "", kids)

\* Once a bracket is closed.  The parentheses a cast needs are not in the
\* tree.
Closed(s) ==
  LET i == Opening(s)
      ofCast == i > 1 /\ s[i].op = "(" /\ s[i - 1].k = "cast"
  IN IF ofCast THEN Append(SubSeq(s, 1, i - 2), Tree("cast", s[i - 1].op, Within(s)))
     ELSE Append(SubSeq(s, 1, i - 1), BracketTree(s[i].op, Within(s)))

-----------------------------------------------------------------------------
(* Reading.  The state of the parser: its stack; whether an operand has    *)
(* just been read; whether it has read a `>' that closes a vector or       *)
(* compares, which the next token tells; and whether the text is right     *)
(* until here.                                                             *)

Start == [stack |-> <<>>, operand |-> FALSE, angle |-> FALSE, right |-> TRUE]
Wrong == [Start EXCEPT !.right = FALSE]
Shift(p, item, operand) == [p EXCEPT !.stack = Append(@, item), !.operand = operand]
LastIs(p, k, op) == p.stack # <<>> /\ Top(p.stack).k = k /\ Top(p.stack).op = op
AfterCast(p) == p.stack # <<>> /\ Top(p.stack).k = "cast"

\* Where an operand is expected.  A minus sign and a number are one literal,
\* whatever follows; ++ and -- take a variable, a cast no operator but the
\* sign of a literal.
ReadOperand(p, tok) ==
  LET negated == LastIs(p, "prefix", "-") /\ tok.w = "number"
      step == LastIs(p, "prefix", "--")
      afterCastSign == LastIs(p, "prefix", "-") /\ Below(p.stack).k = "cast"
      variable == Shift(p, Item("lvalue", tok.w), TRUE)
  IN CASE negated ->
            [p EXCEPT !.stack = Append(Popped(@, 1), Literal(0 - tok.v, tok.t)), !.operand = TRUE]
       [] afterCastSign -> Wrong
       [] \E b \in {"f(", "["} : LastIs(p, "open", b) /\ tok.w = Closer[b] ->
            [p EXCEPT !.stack = Closed(@), !.operand = TRUE]
       [] tok.w \in Identifiers ->
            IF step THEN [variable EXCEPT !.stack = Combined(@)] ELSE variable
       [] step -> Wrong
       [] tok.w = "number" -> Shift(p, Literal(tok.v, tok.t), TRUE)
       [] tok.w = "-" -> Shift(p, Item("prefix", "-"), FALSE)
       [] tok.w \in DOMAIN Closer -> Shift(p, Item("open", tok.w), FALSE)
       [] AfterCast(p) -> Wrong
       [] tok.w \in {"!", "~", "--"} -> Shift(p, Item("prefix", tok.w), FALSE)
       [] tok.w \in DOMAIN CastTypes -> Shift(p, Item("cast", CastTypes[tok.w]), FALSE)
       [] OTHER -> Wrong

\* A vector or rotation in which everything is there but the end.
Ending(s) ==
  /\ \E i \in DOMAIN s : s[i].k = "open"
  /\ s[Opening(s)].op = "<" /\ Below(s).k = "comma" /\ Commas(s, Opening(s)) \in {2, 3}
Closing(s, w) ==
  /\ \E i \in DOMAIN s : s[i].k = "open"
  /\ s[Opening(s)].op # "<" /\ Closer[s[Opening(s)].op] = w
  /\ s[Opening(s)].op = "(" => Commas(s, Opening(s)) = 0
Separating(s) ==
  /\ \E i \in DOMAIN s : s[i].k = "open"
  /\ s[Opening(s)].op # "(" /\ (s[Opening(s)].op = "<" => Commas(s, Opening(s)) < 3)

\* Where an operator is expected.
ReadOperator(p, tok) ==
  LET looser == Reduced(p.stack, Precedence(tok.w))
      whole == Reduced(p.stack, 0)
  IN CASE tok.w = "--" ->
            IF Top(p.stack).k = "lvalue"
            THEN [p EXCEPT !.stack = Append(Popped(@, 1), Tree("unary", "post--", <<Top(@)>>))]
            ELSE Wrong
       [] tok.w = "=" ->
            IF Top(p.stack).k = "lvalue" /\ Below(p.stack).k # "cast"
            THEN Shift(p, Item("infix", "="), FALSE) ELSE Wrong
       [] tok.w = ">" /\ Ending(looser) -> [p EXCEPT !.stack = looser, !.operand = FALSE, !.angle = TRUE]
       [] tok.w \in Infix -> Shift([p EXCEPT !.stack = looser], Item("infix", tok.w), FALSE)
       [] tok.w = "," /\ Separating(whole) -> Shift([p EXCEPT !.stack = whole], Item("comma", ","), FALSE)
       [] Closing(whole, tok.w) -> [p EXCEPT !.stack = Closed(whole)]
       [] OTHER -> Wrong

\* After `>': the vector ends (%prec INITIALIZER) unless no vector can be
\* followed by the token.
EndAngle(p) == [p EXCEPT !.stack = Closed(@), !.operand = TRUE, !.angle = FALSE]
NotAngle(p) == Shift([p EXCEPT !.angle = FALSE], Item("infix", ">"), FALSE)
StartsOperand(tok) ==
  tok.w \in Identifiers \cup {"number", "!", "~", "--", "(", "f(", "["} \cup DOMAIN CastTypes

Read(p, tok) ==
  CASE ~p.right -> p
    [] p.angle /\ StartsOperand(tok) -> ReadOperand(NotAngle(p), tok)
    [] p.angle -> ReadOperator(EndAngle(p), tok)
    [] p.operand -> ReadOperator(p, tok)
    [] OTHER -> ReadOperand(p, tok)

\* At the end of the text, the tree; an item that is no tree if there is none.
NoTree == Item("wrong", "")
Parsed(p) ==
  LET q == IF p.angle THEN EndAngle(p) ELSE p
      whole == Reduced(q.stack, 0)
  IN IF q.right /\ q.operand /\ Len(whole) = 1 THEN whole[1] ELSE NoTree
Parse(tokens) == Parsed(FoldLeft(Read, Start, tokens))
=============================================================================
