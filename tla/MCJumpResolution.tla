--------------------------- MODULE MCJumpResolution ---------------------------
(***************************************************************************)
(* Bodies of three statements: a compound or simple one, one or two levels *)
(* of loops and branches around a jump, and one that follows; the labels   *)
(* stand in, between and behind them.                                      *)
(***************************************************************************)
EXTENDS JumpResolution, MCBody

Simple == {Expr, Label("a"), Label("b")}

\* The innermost statements with a jump in them.
WithJump ==
  {Jump("a")}
    \cup {Block(<<Jump("a"), x>>) : x \in Simple}
    \cup {Block(<<Jump("a"), x, Label("a")>>) : x \in {Expr, Label("b")}}
    \cup {IfElse(Jump("a"), Label("a"))}
    \cup {Block(<<While(Expr), Jump("a")>>), Block(<<Jump("b"), Jump("a")>>)}
    \cup {Block(<<Label("a"), Jump("a")>>)}

Around(T) ==
  {While(s) : s \in T} \cup {Do(s) : s \in T} \cup {For(s) : s \in T}
    \cup {Block(<<If(s), x>>) : s \in T, x \in Simple}
    \cup {IfElse(s, Block(<<>>)) : s \in T}

Inner == WithJump \cup Around(WithJump)
Outer == {While(Block(<<s, x>>)) : s \in Inner, x \in Simple} \cup Around(Inner)
          \cup {IfElse(s, Label("a")) : s \in Around(WithJump)}

MCBodies ==
  {Nodes(Block(<<s, x, y>>), 0, 1) :
     s \in Outer, x \in Simple, y \in {Label("a"), Expr}}

\* Bodies whose labels have different names.
DistinctLabels(T) ==
  {b \in T : \A m, n \in DOMAIN b :
     b[m].kind = "label" /\ b[n].kind = "label" /\ b[m].name = b[n].name => m = n}

MCNames == {"a", "b"}
=============================================================================
