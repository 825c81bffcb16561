--------------------------------- MODULE Body ---------------------------------
(***************************************************************************)
(* The body of a function or an event handler: its statements and the      *)
(* expressions among them as ast.hh and lslmini.hh arrange them, and the   *)
(* order control takes through them, which is what the passes over bodies  *)
(* are judged by.                                                          *)
(*                                                                         *)
(* A body is a sequence of nodes in the order of the source text, which is *)
(* also the order a visitor meets them; `up` is the parent.  The kinds:    *)
(*   "block"               a compound statement; node 1 is the whole body  *)
(*   "if"                  children: condition, branch, perhaps a branch   *)
(*   "while"               condition, statement                            *)
(*   "do"                  statement, condition                            *)
(*   "for"                 initializers, condition, increments, statement  *)
(*   "label", "jump"       `name` is the label's                           *)
(*   "return", "state"     the statements that leave the body              *)
(*   "decl"                a local variable with an initializer            *)
(*   "expr"                any expression; `reads` is the declaration of   *)
(*                         the local variable it reads, or 0               *)
(***************************************************************************)
EXTENDS Naturals, Sequences, FiniteSets

CONSTANTS
  Bodies,    \* the bodies to try
  Names      \* the label names

Loops == {"while", "do", "for"}
Kinds == Loops \cup {"block", "if", "label", "jump", "return", "state", "decl", "expr"}

\* The children of a node, and where among them one stands.
Kids(b, n) == {c \in 1 .. Len(b) : c > n /\ b[c].up = n}
PlaceAt(b, n) == Cardinality({c \in Kids(b, b[n].up) : c <= n})

\* Is n the node a, or somewhere below it?
Contains(b, a, n) == a <= n /\ \A k \in a + 1 .. n : b[k].up >= a

\* A node follows its parent, and what is between the two is below the parent.
InOrder(b) ==
  /\ Len(b) \in Nat \ {0}
  /\ \A n \in 2 .. Len(b) : b[n].up \in 1 .. n - 1 /\ Contains(b, b[n].up, n - 1)

\* Statements have the parts the grammar gives them; what is returned is part
\* of the return.
Shaped(b) ==
  LET parts == [if |-> {2, 3}, while |-> {2}, do |-> {2}, for |-> {4}, return |-> {0}] IN
  \A n \in 1 .. Len(b) : b[n].kind \in Loops \cup {"if", "return"} =>
    \E k \in parts[b[n].kind] :
      Cardinality(Kids(b, n)) = k /\ {PlaceAt(b, c) : c \in Kids(b, n)} = 1 .. k

\* Labels and expressions are one node each, and where the grammar has no
\* statement in a loop or an `if` it has an expression.
Plain(b) ==
  LET statements == [if |-> {2, 3}, while |-> {2}, do |-> {1}, for |-> {4}] IN
  /\ \A n \in 1 .. Len(b) : b[n].kind \in {"label", "expr"} => Kids(b, n) = {}
  /\ \A n \in 2 .. Len(b) : b[b[n].up].kind \in Loops \cup {"if"} =>
       PlaceAt(b, n) \in statements[b[b[n].up].kind] \/ b[n].kind = "expr"

\* A declaration stands in a block, and is read behind itself in that block.
Scoped(b) ==
  \A n \in 1 .. Len(b) :
    LET d == b[n].reads IN
    d # 0 => /\ d \in 2 .. Len(b) /\ b[d].kind = "decl" /\ b[n].kind = "expr"
             /\ b[b[d].up].kind = "block"
             /\ Contains(b, b[d].up, n) /\ ~ Contains(b, d, n)

ASSUME BodiesAssumption == \A b \in Bodies : InOrder(b) /\ Shaped(b) /\ Plain(b) /\ Scoped(b)

VARIABLE body

Node == 1 .. Len(body)
Kind(n) == body[n].kind
Up(n) == body[n].up
Name(n) == body[n].name
Reads(n) == body[n].reads

All(kind) == {n \in Node : Kind(n) = kind}

-----------------------------------------------------------------------------
(* The tree. *)

Children(n) == Kids(body, n)

\* The position of n among its siblings, from 1.
Place(n) == PlaceAt(body, n)

\* The k-th child of n.
Child(n, k) == CHOOSE c \in Children(n) : Place(c) = k

\* getNext: the sibling after n, 0 when there is none.
Follower(n) ==
  IF n # 1 /\ \E c \in Children(Up(n)) : c > n
  THEN CHOOSE c \in Children(Up(n)) : Place(c) = Place(n) + 1
  ELSE 0

\* The nodes that n is somewhere below.
Above == [n \in Node |-> {a \in Node : a < n /\ Contains(body, a, n)}]

\* The greatest of a set of nodes: of nodes above one another, the innermost.
Innermost(S) == IF S = {} THEN 0 ELSE CHOOSE n \in S : \A m \in S : m <= n

InnermostLoop(n) == Innermost({a \in Above[n] : Kind(a) \in Loops})

-----------------------------------------------------------------------------
(* Control.  A position is a node that control enters or leaves. *)

Position == Node \X {"in", "out"}
Begin == <<1, "in">>
End == <<1, "out">>

In(n) == <<n, "in">>
Out(n) == <<n, "out">>

\* A visitor goes down to the first child, then from sibling to sibling.
Onward(n) == IF Follower(n) # 0 THEN In(Follower(n)) ELSE Out(Up(n))
Descend(n) == IF Children(n) # {} THEN In(Child(n, 1)) ELSE Out(n)

\* Where a loop goes when its statement is done.
BackEdge(l) ==
  LET place == [while |-> 1, do |-> 2, for |-> 3] IN In(Child(l, place[Kind(l)]))

\* The place of the statement of a loop or the first branch of an `if`.
StatementPlace(p) == [if |-> 2, while |-> 2, do |-> 1, for |-> 4][Kind(p)]

\* Is n the condition of a statement?
Condition(n) ==
  n # 1 /\ LET p == Up(n) IN
    Kind(p) \in Loops \cup {"if"}
      /\ Place(n) = [if |-> 1, while |-> 1, do |-> 2, for |-> 2][Kind(p)]

\* Where a condition leads.
Taken(n, true) ==
  LET p == Up(n) IN
  IF true THEN In(Child(p, StatementPlace(p)))
  ELSE IF Kind(p) = "if" /\ Cardinality(Children(p)) = 3 THEN In(Child(p, 3)) ELSE Out(p)

\* Where control goes when it leaves n, by the place n has in its parent.
Leaving(n) ==
  LET p == Up(n) IN
  IF Condition(n) THEN {Taken(n, TRUE), Taken(n, FALSE)}
  ELSE IF Kind(p) = "if" THEN {Out(p)}
  ELSE IF Kind(p) \in Loops /\ Place(n) = StatementPlace(p) THEN {BackEdge(p)}
  ELSE IF Kind(p) = "for" /\ Place(n) = 3 THEN {In(Child(p, 2))}
  ELSE {Onward(n)}

\* Where control can go from a position, when jumps go to target.
Flow(position, target) ==
  LET n == position[1] IN
  IF position = End THEN {}
  ELSE IF position[2] = "out" THEN Leaving(n)
  ELSE IF Kind(n) = "jump" THEN {In(target[n])}
  ELSE IF Kind(n) \in {"return", "state"} THEN {}
  ELSE {Descend(n)}

\* At these positions the program does nothing but move on.
Silent(position) ==
  position # End /\
  (position[2] = "in" => Kind(position[1]) \in Loops \cup {"block", "if", "label"}) /\
  (position[2] = "out" => Cardinality(Leaving(position[1])) = 1)

\* Where the program arrives from a position without doing anything.
Moved(q) == IF Silent(q) THEN Flow(q, <<>>) ELSE {q}
Arrives(position) ==
  LET reached[k \in Nat] == IF k = 0 THEN {position} ELSE UNION {Moved(q) : q \in reached[k - 1]}
  IN reached[2 * Len(body)]
=============================================================================
