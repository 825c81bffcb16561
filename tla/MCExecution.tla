------------------------------ MODULE MCExecution ------------------------------
(***************************************************************************)
(* Bodies of a few statements with one local variable, one or two jumps    *)
(* and their labels, in loops, in branches and outside of them.            *)
(***************************************************************************)
EXTENDS Execution, MCJumpResolution

A == Label("a")
JumpA == Jump("a")

Last == {Read, Return, A, JumpA}
Branch == {Return, JumpA, Block(<<A, Return>>), Block(<<Read, A>>)}
Nested ==
  {Block(<<s, t>>) : s \in {Decl, JumpA}, t \in {Read, A, Return}}
    \cup {IfElse(Return, s) : s \in Branch} \cup {IfElse(s, Return) : s \in Branch}
    \cup {If(s) : s \in Branch}
    \cup {WhileRead(A), DoRead(A)}
    \cup {WhileRead(Block(<<s, t>>)) : s \in {JumpA, Decl, Read}, t \in {Read, A, If(JumpA)}}
    \cup {DoRead(Block(<<s, Decl, t>>)) : s \in {JumpA, A}, t \in {Read, A}}
    \cup {For(Block(<<s, t>>)) : s \in {JumpA, Read}, t \in {Read, A}}

Structured ==
  {Block(<<s, t, u, v>>) :
     s \in {JumpA, If(JumpA), A}, t \in {Decl} \cup Nested,
     u \in {Decl, A, Read} \cup Nested, v \in Last}

\* With a jump, its label, and no two labels of one name.
Compiled(T) ==
  {b \in {ResolveReads(Nodes(s, 0, 1)) : s \in T} :
     /\ \E n \in DOMAIN b : b[n].kind = "jump"
     /\ \E n \in DOMAIN b : b[n].kind = "label" /\ b[n].name = "a"
     /\ \A m, n \in DOMAIN b :
          b[m].kind = "label" /\ b[n].kind = "label" /\ b[m].name = b[n].name => m = n}

MCStructured == Compiled(Structured)
MCAllBodies == MCStructured \cup MCBodies

\* With a label as the statement of a loop.
MCBackEdges == Compiled({Block(<<JumpA, Decl, WhileRead(A)>>)})
=============================================================================
