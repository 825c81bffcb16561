-------------------------------- MODULE MCBody --------------------------------
(***************************************************************************)
(* Bodies written as trees of statements, for the instances TLC checks.    *)
(***************************************************************************)
EXTENDS Naturals, Sequences, FiniteSets

S(kind, name, kids) == [kind |-> kind, name |-> name, reads |-> 0, kids |-> kids]
Expr == S("expr", "", <<>>)
Read == [Expr EXCEPT !.reads = 1]
Decl == S("decl", "", <<Expr>>)
Return == S("return", "", <<>>)
State == S("state", "", <<>>)
Label(l) == S("label", l, <<>>)
Jump(l) == S("jump", l, <<>>)
Block(s) == S("block", "", s)
While(s) == S("while", "", <<Expr, s>>)
Do(s) == S("do", "", <<s, Expr>>)
For(s) == S("for", "", <<Expr, Expr, Expr, s>>)
WhileRead(s) == S("while", "", <<Read, s>>)
DoRead(s) == S("do", "", <<s, Read>>)
If(s) == S("if", "", <<Expr, s>>)
IfElse(s, t) == S("if", "", <<Expr, s, t>>)

\* The nodes of a statement below node `up`, the first of them number n.
RECURSIVE Nodes(_, _, _), NodesOf(_, _, _)
Nodes(s, up, n) ==
  <<[kind |-> s.kind, up |-> up, name |-> s.name, reads |-> s.reads]>> \o NodesOf(s.kids, n, n + 1)
NodesOf(kids, up, n) ==
  IF kids = <<>> THEN <<>>
  ELSE LET first == Nodes(Head(kids), up, n)
       IN first \o NodesOf(Tail(kids), up, n + Len(first))

\* Reads resolved to the innermost declaration before them in a block around
\* them.
ResolveReads(b) ==
  LET Ancestors[n \in DOMAIN b] == IF n = 1 THEN {} ELSE {b[n].up} \cup Ancestors[b[n].up]
      Visible(n) == {d \in 1 .. n - 1 : b[d].kind = "decl" /\ b[d].up \in Ancestors[n]}
  IN [n \in DOMAIN b |->
        [b[n] EXCEPT !.reads =
           IF b[n].reads = 0 \/ Visible(n) = {} THEN 0
           ELSE CHOOSE d \in Visible(n) : \A e \in Visible(n) : e <= d]]
=============================================================================
