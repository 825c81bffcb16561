------------------------------ MODULE AstForest ------------------------------
(***************************************************************************)
(* What the syntax tree of ast.hh promises its clients, without pointers:  *)
(* every node has a sequence of children, and the nodes that are nobody's  *)
(* children form the loose sequences the parser strings together.          *)
(***************************************************************************)
EXTENDS SequencesExt

CONSTANT Node

VARIABLES
  kids,   \* kids[n]: the children of n, in order
  loose   \* the sequences of siblings that have no parent

\* The nodes of a sequence of siblings and of everything below them.
RECURSIVE Below(_)
Below(s) == ToSet(s) \cup UNION {Below(kids[m]) : m \in ToSet(s)}

\* s with `new` where `old` stood.
Put(s, old, new) == [i \in DOMAIN s |-> IF s[i] = old THEN new ELSE s[i]]

-----------------------------------------------------------------------------
\* A new node joins a sequence of siblings at either end.
Join(n, s) ==
  /\ <<n>> \in loose /\ s \in loose \ {<<n>>}
  /\ \E t \in {<<n>> \o s, s \o <<n>>} : loose' = (loose \ {<<n>>, s}) \cup {t}
  /\ UNCHANGED kids

\* n receives a sequence of siblings, after the children it has.
Adopt(n, s) ==
  /\ s \in loose /\ n \notin Below(s)
  /\ kids' = [kids EXCEPT ![n] = @ \o s]
  /\ loose' = loose \ {s}

\* repl takes the place of old, which is left alone.
Swap(old, repl) ==
  /\ <<repl>> \in loose /\ old \notin Below(<<repl>>)
  /\ kids' = [n \in Node |-> Put(kids[n], old, repl)]
  /\ loose' = {Put(s, old, repl) : s \in loose \ {<<repl>>}} \cup {<<old>>}

\* The only child of old takes its place, and old is left empty.
Hoist(old, c) ==
  /\ kids[old] = <<c>>
  /\ <<old>> \notin loose
  /\ kids' = [n \in Node |-> IF n = old THEN <<>> ELSE Put(kids[n], old, c)]
  /\ loose' = {Put(s, old, c) : s \in loose} \cup {<<old>>}

\* c leaves the children of p; the others close up in the same order.
Drop(p, c) ==
  /\ c \in ToSet(kids[p])
  /\ kids' = [kids EXCEPT ![p] = Remove(@, c)]
  /\ loose' = loose \cup {<<c>>}

-----------------------------------------------------------------------------
Init ==
  /\ kids = [n \in Node |-> <<>>]
  /\ loose = {<<n>> : n \in Node}

Next ==
  \E n \in Node :
    \/ \E s \in loose : Join(n, s) \/ Adopt(n, s)
    \/ \E m \in Node : Swap(n, m) \/ Hoist(n, m) \/ Drop(n, m)

Spec == Init /\ [][Next]_<<kids, loose>>
=============================================================================
