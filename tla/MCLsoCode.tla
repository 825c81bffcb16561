------------------------------- MODULE MCLsoCode -------------------------------
(***************************************************************************)
(* Bodies with every kind of statement in every other, and jumps and       *)
(* labels, of one name more than once, among them; and those of            *)
(* MCExecution.                                                            *)
(***************************************************************************)
EXTENDS LsoCode, MCExecution

Void == [Expr EXCEPT !.name = "void"]
Statements == {Expr, Void, Decl, Return, State, Jump("a"), Label("a")}
Flat == {Expr, Jump("a"), Label("a"), Return}
Compound(T) ==
  {While(s) : s \in T} \cup {Do(s) : s \in T} \cup {For(s) : s \in T} \cup {If(s) : s \in T}
    \cup {IfElse(s, t) : s \in T, t \in {Return, Expr}}
Pairs == {Block(<<s, t>>) : s, t \in Flat}
Once == Compound(Flat \cup Pairs)
Twice == Compound({Block(<<s, t>>) : s \in Compound(Flat), t \in {Jump("a"), Label("a")}})

MCEveryKind ==
  {b \in {Nodes(Block(<<s, t, u>>), 0, 1) :
            s \in Once \cup Twice \cup Statements, t \in Statements, u \in {Label("a"), Jump("a"), Return}} :
     \E n \in DOMAIN b : b[n].kind = "label"}
MCEmitted == MCEveryKind \cup MCAllBodies
MCEmittedNames == {"a", "b", "void"}
=============================================================================
