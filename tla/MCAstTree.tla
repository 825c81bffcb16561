------------------------------ MODULE MCAstTree ------------------------------
(***************************************************************************)
(* The syntax tree on a handful of nodes, and the refinement mapping to    *)
(* the forest it stands for.                                               *)
(***************************************************************************)
EXTENDS AstTree, Sequences, TLC

Symmetry == Permutations(Node)

\* The siblings from m on.
RECURSIVE SiblingsFrom(_)
SiblingsFrom(m) == IF m = Null THEN <<>> ELSE <<m>> \o SiblingsFrom(next[m])

Kids == [n \in Node |-> IF n \in discarded THEN <<>> ELSE SiblingsFrom(head[n])]

Loose == {SiblingsFrom(m) : m \in {k \in Node : parent[k] = Null /\ prev[k] = Null}}

Forest == INSTANCE AstForest WITH kids <- Kids, loose <- Loose

\* The pointer surgery of ast.cc does to the sequences of children exactly
\* what pushChild, replaceNode, removeChild and the parser's links promise:
\* the order of the other siblings is kept and every other list is untouched.
ImplementsForest == Forest!Spec
=============================================================================
