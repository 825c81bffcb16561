---------------------------- MODULE ExecutionProofs ----------------------------
(***************************************************************************)
(* Proofs about modules JumpResolution and Execution, for every body: the  *)
(* visitors meet every statement once and in the order of the source, so   *)
(* that no jump escapes the conclusions drawn about a function; a jump     *)
(* taken for a `break` or a `continue` is one; and no run finds a way to a *)
(* read or to the end that those conclusions deny.                         *)
(***************************************************************************)
EXTENDS LsoCode, BodyProofs

-----------------------------------------------------------------------------
(* Every jump is met once, then classified once. *)

JumpTypes ==
  /\ Ordered
  /\ phase \in {"walk", "resolve", "classify", "resolved"}
  /\ at \in Position
  /\ pending \in Seq(All("jump"))
  /\ done \in 0 .. Len(pending)
  /\ unstructured \in BOOLEAN

Listed == {pending[i] : i \in 1 .. Len(pending)}

PendingMet ==
  /\ Listed = All("jump") \cap (IF phase = "walk" THEN Met(at) ELSE Node)
  /\ \A i, k \in 1 .. Len(pending) : pending[i] = pending[k] => i = k

OneKind(j) == target[j] # 0 => (j \in breakLike) # (j \in continueLike)

KindsInOrder ==
  /\ phase \in {"walk", "resolve"} => breakLike = {} /\ continueLike = {}
  /\ phase = "classify" =>
       \A i \in 1 .. Len(pending) : i > done => pending[i] \notin breakLike \cup continueLike
  /\ phase = "classify" /\ ~unstructured =>
       \A i \in 1 .. Len(pending) : i <= done => OneKind(pending[i])
  /\ phase = "resolved" /\ ~unstructured => \A i \in 1 .. Len(pending) : OneKind(pending[i])

JumpInv == JumpTypes /\ PendingMet /\ KindsInOrder

LEMMA JumpInvInit == JumpInit => JumpInv
<1> SUFFICES ASSUME JumpInit PROVE JumpInv
  OBVIOUS
<1>1. Ordered /\ pending = <<>> /\ Len(pending) = 0
  BY DEF JumpInit, Ordered
<1>2. at = Begin /\ Begin \in Position /\ Met(Begin) = {}
  BY <1>1, EndMeets, OrderFacts DEF JumpInit, Begin, Position
<1>3. JumpTypes
  <2>1. pending \in Seq(All("jump")) /\ done \in 0 .. Len(pending)
    BY <1>1 DEF JumpInit
  <2> QED BY <1>1, <1>2, <2>1 DEF JumpInit, JumpTypes
<1>4. PendingMet
  BY <1>1, <1>2 DEF JumpInit, PendingMet, Listed
<1>5. KindsInOrder
  BY <1>1 DEF JumpInit, KindsInOrder
<1> QED BY <1>3, <1>4, <1>5 DEF JumpInv

\* A step of the walk that leaves the list of jumps alone or adds the node.
LEMMA WalkStep ==
  ASSUME JumpInv, phase = "walk", phase' = phase, body' = body, NEW n \in Node,
         NEW to, at' = to, to \in Position,
         \/ Kind(n) = "jump" /\ n \notin Met(at) /\ Met(to) = Met(at) \cup {n} /\ pending' = Append(pending, n)
         \/ /\ All("jump") \cap Met(to) = All("jump") \cap Met(at)
            /\ pending' = pending,
         UNCHANGED <<done, target, breakLike, continueLike, unstructured>>
  PROVE  JumpInv'
<1>1. /\ Node' = Node /\ All("jump")' = All("jump") /\ Position' = Position
      /\ Met(at)' = Met(to) /\ Ordered'
  BY DEF Node, All, Kind, Position, Met, Before, Below, JumpInv, JumpTypes, Ordered
<1>2. pending \in Seq(All("jump")) /\ Len(pending) \in Nat
  BY DEF JumpInv, JumpTypes
<1>3. CASE pending' = pending /\ All("jump") \cap Met(to) = All("jump") \cap Met(at)
  <2>1. JumpTypes'
    BY <1>1, <1>3 DEF JumpInv, JumpTypes
  <2>2. PendingMet'
    BY <1>1, <1>3 DEF JumpInv, PendingMet, Listed
  <2>3. KindsInOrder'
    BY DEF JumpInv, KindsInOrder
  <2> QED BY <2>1, <2>2, <2>3 DEF JumpInv
<1>4. CASE Kind(n) = "jump" /\ n \notin Met(at) /\ Met(to) = Met(at) \cup {n} /\ pending' = Append(pending, n)
  <2>1. n \in All("jump")
    BY <1>4 DEF All
  <2>2. /\ pending' \in Seq(All("jump")) /\ Len(pending') = Len(pending) + 1
        /\ \A i \in 1 .. Len(pending) : pending'[i] = pending[i]
        /\ pending'[Len(pending) + 1] = n
    BY <1>2, <1>4, <2>1
  <2>3. JumpTypes'
    BY <1>1, <1>2, <2>2 DEF JumpInv, JumpTypes
  <2>4. Listed' = Listed \cup {n}
    BY <1>2, <2>2 DEF Listed
  <2>5. n \notin Listed
    BY <1>4 DEF JumpInv, PendingMet
  <2>6. Listed' = All("jump") \cap Met(to)
    BY <1>4, <2>1, <2>4 DEF JumpInv, PendingMet
  <2>7. ASSUME NEW i \in 1 .. Len(pending'), NEW k \in 1 .. Len(pending'), pending'[i] = pending'[k]
        PROVE  i = k
    BY <1>2, <2>2, <2>5, <2>7 DEF JumpInv, PendingMet, Listed
  <2>8. PendingMet'
    BY <1>1, <2>6, <2>7 DEF PendingMet
  <2>9. KindsInOrder'
    BY DEF JumpInv, KindsInOrder
  <2> QED BY <2>3, <2>8, <2>9 DEF JumpInv
<1> QED BY <1>3, <1>4

\* Every step keeps the list and what is concluded from it in order.
LEMMA JumpInvStep == JumpInv /\ [Resolution]_jumpVars => JumpInv'
<1> SUFFICES ASSUME JumpInv, [Resolution]_jumpVars PROVE JumpInv'
  OBVIOUS
<1> USE DEF JumpInv
<1>0. Ordered /\ Len(pending) \in Nat /\ done \in Nat /\ done <= Len(pending)
  BY DEF JumpTypes
<1>1. ASSUME NEW n \in Node, Enter(n) PROVE JumpInv'
  <2>1. /\ phase = "walk" /\ phase' = phase /\ body' = body /\ at = In(n) /\ at' = Descend(n)
        /\ UNCHANGED <<done, target, breakLike, continueLike, unstructured>>
    BY <1>1 DEF Enter
  <2>2. Descend(n) \in Position /\ Met(Descend(n)) = Met(at) \cup {n} /\ n \notin Met(at)
    BY <1>0, <2>1, DescendMeets, OrderFacts DEF Met, In, Before
  <2>3. \/ Kind(n) = "jump" /\ pending' = Append(pending, n)
        \/ Kind(n) # "jump" /\ pending' = pending
    BY <1>1 DEF Enter, VisitLabel, VisitJump, EnterLoop, VisitOther, Loops
  <2>4. Kind(n) # "jump" => All("jump") \cap Met(Descend(n)) = All("jump") \cap Met(at)
    BY <2>2 DEF All
  <2> HIDE DEF JumpInv
  <2> QED BY <2>1, <2>2, <2>3, <2>4, WalkStep
<1>2. ASSUME NEW n \in Node, Leave(n) PROVE JumpInv'
  <2>1. /\ phase = "walk" /\ phase' = phase /\ body' = body /\ at = Out(n) /\ n # 1 /\ at' = Onward(n)
        /\ UNCHANGED <<pending, done, target, breakLike, continueLike, unstructured>>
    BY <1>2 DEF Leave
  <2>2. Onward(n) \in Position /\ Met(Onward(n)) = Met(at)
    BY <1>0, <2>1, OnwardMeets DEF Met, Out
  <2> HIDE DEF JumpInv
  <2> QED BY <2>1, <2>2, WalkStep
<1>3. CASE LeaveBody
  <2>1. Met(at) = Node
    BY <1>0, <1>3, EndMeets DEF LeaveBody
  <2>2. JumpTypes'
    BY <1>3 DEF LeaveBody, JumpTypes, Ordered, Position, Node, All, Kind
  <2>3. PendingMet'
    BY <1>3, <2>1 DEF LeaveBody, PendingMet, Listed, Node, All, Kind
  <2>4. KindsInOrder'
    BY <1>3 DEF LeaveBody, KindsInOrder
  <2> QED BY <2>2, <2>3, <2>4
<1>4. CASE ResolveJump
  <2>1. JumpTypes'
    BY <1>0, <1>4 DEF ResolveJump, JumpTypes, Ordered, Position, Node, All, Kind
  <2>2. PendingMet'
    BY <1>4 DEF ResolveJump, PendingMet, Listed, Node, All, Kind
  <2>3. KindsInOrder'
    BY <1>4 DEF ResolveJump, KindsInOrder
  <2> QED BY <2>1, <2>2, <2>3
<1>5. CASE CheckDuplicates
  <2>1. JumpTypes'
    BY <1>0, <1>5 DEF CheckDuplicates, JumpTypes, Ordered, Position, Node, All, Kind
  <2>2. PendingMet'
    BY <1>5 DEF CheckDuplicates, PendingMet, Listed, Node, All, Kind
  <2>3. KindsInOrder'
    <3> DEFINE found == linden /\ Duplicates
    <3>1. /\ phase = "resolve" /\ done' = 0 /\ unstructured' = found
          /\ phase' = IF found THEN "resolved" ELSE "classify"
          /\ UNCHANGED <<pending, target, breakLike, continueLike>>
      BY <1>5 DEF CheckDuplicates
    <3> HIDE DEF found
    <3>2. CASE found
      BY <3>1, <3>2 DEF KindsInOrder
    <3>3. CASE ~found
      <4>1. phase' = "classify" /\ breakLike' = {} /\ continueLike' = {} /\ done' = 0
        BY <3>1, <3>3 DEF KindsInOrder
      <4> QED BY <4>1 DEF KindsInOrder
    <3> QED BY <3>2, <3>3
  <2> QED BY <2>1, <2>2, <2>3
<1>6. CASE ClassifyJump
  <2>0. PICK j : j = pending[done + 1]
    OBVIOUS
  <2> DEFINE l == target[j]
             loop == enclosing[j]
             break == loop # 0 /\ l \in LabelsAfter(loop)
             continue == loop # 0 /\ ~break /\ enclosing[l] = loop /\ LastInLoop(l, loop)
  <2>1. /\ phase = "classify" /\ done < Len(pending) /\ done' = done + 1
        /\ UNCHANGED <<body, phase, at, pending, target>>
        /\ IF l = 0
           THEN UNCHANGED <<breakLike, continueLike, unstructured>>
           ELSE /\ breakLike' = IF break THEN breakLike \cup {j} ELSE breakLike
                /\ continueLike' = IF continue THEN continueLike \cup {j} ELSE continueLike
                /\ unstructured' = (unstructured \/ ~(break \/ continue))
    BY <1>6, <2>0 DEF ClassifyJump
  <2>2. break => ~continue
    OBVIOUS
  <2> HIDE DEF break, continue
  <2>3. JumpTypes'
    <3>1. unstructured' \in BOOLEAN
      BY <2>1 DEF JumpTypes
    <3> QED BY <1>0, <2>1, <3>1 DEF JumpTypes, Ordered, Position, Node, All, Kind
  <2>4. PendingMet'
    BY <2>1 DEF PendingMet, Listed, Node, All, Kind
  <2>5. \A i \in 1 .. Len(pending) : i # done + 1 => pending[i] # j
    BY <1>0, <2>0, <2>1 DEF PendingMet
  <2>6. \A i \in 1 .. Len(pending) : i # done + 1 =>
          /\ pending[i] \in breakLike' <=> pending[i] \in breakLike
          /\ pending[i] \in continueLike' <=> pending[i] \in continueLike
    BY <2>1, <2>5
  <2>7. ASSUME ~unstructured' PROVE ~unstructured /\ OneKind(j)'
    <3>1. CASE l = 0
      BY <2>1, <2>7, <3>1 DEF OneKind
    <3>2. CASE l # 0
      <4>1. j \notin breakLike /\ j \notin continueLike
        BY <1>0, <2>0, <2>1 DEF KindsInOrder
      <4>2. ~unstructured /\ (break \/ continue)
        BY <2>1, <2>7, <3>2
      <4>3. j \in breakLike' <=> break
        BY <2>1, <3>2, <4>1
      <4>4. j \in continueLike' <=> continue
        BY <2>1, <3>2, <4>1
      <4>5. (j \in breakLike') # (j \in continueLike')
        BY <2>2, <4>2, <4>3, <4>4
      <4> QED BY <2>1, <4>2, <4>5 DEF OneKind
    <3> QED BY <3>1, <3>2
  <2>8. ASSUME ~unstructured', NEW i \in 1 .. Len(pending), i <= done + 1 PROVE OneKind(pending[i])'
    <3>1. CASE i = done + 1
      BY <2>0, <2>1, <2>7, <2>8, <3>1
    <3>2. CASE i # done + 1
      <4>1. OneKind(pending[i])
        BY <1>0, <2>1, <2>7, <2>8, <3>2 DEF KindsInOrder
      <4> QED BY <2>1, <2>6, <3>2, <4>1 DEF OneKind
    <3> QED BY <3>1, <3>2
  <2>9. KindsInOrder'
    BY <1>0, <2>1, <2>6, <2>8 DEF KindsInOrder
  <2> QED BY <2>3, <2>4, <2>9
<1>7. CASE EndResolution
  <2>1. JumpTypes'
    BY <1>7 DEF EndResolution, JumpTypes, Ordered, Position, Node, All, Kind
  <2>2. PendingMet'
    BY <1>7 DEF EndResolution, PendingMet, Listed, Node, All, Kind
  <2>3. KindsInOrder'
    BY <1>0, <1>7 DEF EndResolution, KindsInOrder, OneKind
  <2> QED BY <2>1, <2>2, <2>3
<1>8. CASE UNCHANGED jumpVars
  BY <1>8 DEF jumpVars, JumpTypes, PendingMet, Listed, KindsInOrder, OneKind, Ordered, Position,
              Met, Before, Below, Node, All, Kind
<1> QED BY <1>1, <1>2, <1>3, <1>4, <1>5, <1>6, <1>7, <1>8 DEF Resolution

-----------------------------------------------------------------------------
(* Where control comes from. *)

\* A step out of a node goes to its parent or to a sibling: but for the ends
\* of loops, to one behind it, and in a block to the next.
LEMMA LeavingFacts ==
  ASSUME Ordered, NEW n \in Node, n # 1, NEW to \in Leaving(n)
  PROVE  \/ to = Out(Up(n))
         \/ \E c \in Children(Up(n)) :
              /\ to = In(c)
              /\ \/ c > n /\ \A e \in Children(Up(n)) : ~ (n < e /\ e < c)
                 \/ c > n /\ Kind(Up(n)) = "if"
                 \/ Kind(Up(n)) \in Loops
<1> DEFINE p == Up(n)
<1>1. p \in Node /\ n \in Children(p)
  BY OrderFacts, ChildFacts
<1> HIDE DEF p
<1>2. ASSUME NEW c \in Children(p), Kind(p) = "if", Place(c) \in {2, 3}, Place(n) = 1 PROVE c > n
  <2>1. c \in Nat /\ n \in Nat
    BY <1>1, ChildFacts, OrderFacts
  <2>2. c # n /\ ~ (c < n)
    BY <1>1, <1>2, PlacesInOrder
  <2> QED BY <2>1, <2>2
<1>3. CASE Condition(n)
  <2>1. Kind(p) \in {"if", "while", "do", "for"}
    BY <1>3 DEF Condition, p, Loops
  <2>2. to \in {Taken(n, TRUE), Taken(n, FALSE)}
    BY <1>3 DEF Leaving
  <2>3. Child(p, 1) \in Children(p) /\ Child(p, 2) \in Children(p) /\ Place(Child(p, 2)) = 2
    BY <1>1, <2>1, PartsOfStatement DEF Loops
  <2>4. Kind(p) = "for" => Child(p, 4) \in Children(p)
    BY <1>1, PartsOfStatement DEF Loops
  <2>5. StatementPlace(p) = IF Kind(p) = "do" THEN 1 ELSE IF Kind(p) = "for" THEN 4 ELSE 2
    BY <2>1 DEF StatementPlace
  <2>6. Kind(p) = "if" => Place(n) = 1
    BY <1>3 DEF Condition, p
  <2>7. CASE to = Taken(n, TRUE)
    <3>1. to = In(Child(p, StatementPlace(p)))
      BY <2>7 DEF Taken, p
    <3>2. CASE Kind(p) = "if"
      <4>1. StatementPlace(p) = 2
        BY <2>5, <3>2
      <4>2. to = In(Child(p, 2))
        BY <3>1, <4>1
      <4>3. Child(p, 2) > n
        BY <1>2, <2>3, <2>6, <3>2
      <4> QED BY <2>3, <3>2, <4>2, <4>3 DEF p
    <3>3. CASE Kind(p) \in Loops
      <4>1. Child(p, StatementPlace(p)) \in Children(p)
        BY <2>1, <2>3, <2>4, <2>5, <3>3
      <4> QED BY <3>1, <3>3, <4>1 DEF p
    <3> QED BY <2>1, <3>2, <3>3 DEF Loops
  <2>8. CASE to = Taken(n, FALSE)
    <3>1. CASE Kind(p) = "if" /\ Cardinality(Children(p)) = 3
      <4>1. Child(p, 3) \in Children(p) /\ Place(Child(p, 3)) = 3
        BY <1>1, <3>1, PartsOfStatement
      <4>2. to = In(Child(p, 3))
        BY <2>8, <3>1 DEF Taken, p
      <4>3. Child(p, 3) > n
        BY <1>2, <2>6, <3>1, <4>1
      <4> QED BY <3>1, <4>1, <4>2, <4>3 DEF p
    <3>2. CASE ~ (Kind(p) = "if" /\ Cardinality(Children(p)) = 3)
      BY <2>8, <3>2 DEF Taken, p
    <3> QED BY <3>1, <3>2
  <2> QED BY <2>2, <2>7, <2>8
<1>4. CASE ~Condition(n) /\ Kind(p) = "if"
  BY <1>4 DEF Leaving, p
<1>5. CASE ~Condition(n) /\ Kind(p) \in Loops /\ Place(n) = StatementPlace(p)
  <2>1. to = BackEdge(p) /\ Kind(p) # "if"
    BY <1>5 DEF Leaving, p, Loops
  <2>2. CASE Kind(p) = "while"
    BY <1>1, <2>1, <2>2, PartsOfStatement DEF BackEdge, Loops, p
  <2>3. CASE Kind(p) = "do"
    BY <1>1, <2>1, <2>3, PartsOfStatement DEF BackEdge, Loops, p
  <2>4. CASE Kind(p) = "for"
    BY <1>1, <2>1, <2>4, PartsOfStatement DEF BackEdge, Loops, p
  <2> QED BY <1>5, <2>2, <2>3, <2>4 DEF Loops
<1>6. CASE /\ ~Condition(n) /\ Kind(p) = "for" /\ Place(n) = 3 /\ Place(n) # StatementPlace(p)
  <2>1. to = In(Child(p, 2))
    BY <1>6 DEF Leaving, p, Loops
  <2> QED BY <1>1, <1>6, <2>1, PartsOfStatement DEF Loops, p
<1>7. CASE /\ ~Condition(n) /\ Kind(p) # "if" /\ ~ (Kind(p) \in Loops /\ Place(n) = StatementPlace(p))
           /\ ~ (Kind(p) = "for" /\ Place(n) = 3)
  <2>1. to = IF Follower(n) # 0 THEN In(Follower(n)) ELSE Out(p)
    BY <1>7 DEF Leaving, Onward, p, Loops
  <2>2. CASE Follower(n) # 0
    <3>1. \E c \in Children(Up(n)) : c > n
      BY <2>2 DEF Follower
    <3> QED BY <2>1, <2>2, <3>1, NextSibling
  <2>3. CASE Follower(n) = 0
    BY <2>1, <2>3 DEF p
  <2> QED BY <2>2, <2>3
<1> QED BY <1>3, <1>4, <1>5, <1>6, <1>7 DEF Loops

-----------------------------------------------------------------------------
(* The positions from which control comes to a read without passing the   *)
(* end of its declaration: behind it, and before the read or in a loop    *)
(* around the read.                                                        *)

Around(r) == {a \in Node : Kind(a) \in Loops /\ a > Reads(r) /\ r \in Below(a)}
Behind(d) == {m \in Node : m > d /\ m \notin Below(d)}

Comes(r, position) ==
  LET m == position[1] IN
  /\ m \in Behind(Reads(r))
  /\ IF position[2] = "in" THEN m <= r \/ \E a \in Around(r) : m \in Below(a)
     ELSE (m < r /\ r \notin Below(m)) \/ \E a \in Around(r) : m \in Below(a) /\ m # a

ReadAfter(r) == Ordered /\ r \in Node /\ Reads(r) # 0 /\ Reads(r) < r

LEMMA ReadFacts ==
  ASSUME NEW r, ReadAfter(r)
  PROVE  LET d == Reads(r) IN
         /\ d \in Node /\ d # 1 /\ Kind(d) = "decl" /\ Kind(r) = "expr"
         /\ Up(d) \in Node /\ Up(d) < d /\ Kind(Up(d)) = "block" /\ d \in Children(Up(d))
         /\ r \in Below(Up(d)) /\ r \in Behind(d) /\ Comes(r, In(r))
<1> DEFINE d == Reads(r)
<1>1. Scoped(body) /\ r \in 1 .. Len(body) /\ d # 0 /\ Ordered /\ d < r
  BY BodiesAssumption DEF ReadAfter, Ordered, Node
<1>2. /\ d \in 2 .. Len(body) /\ Kind(d) = "decl" /\ Kind(r) = "expr"
      /\ Kind(Up(d)) = "block" /\ Contains(body, Up(d), r) /\ ~ Contains(body, d, r)
  BY <1>1 DEF Scoped, Reads, Kind, Up
<1>3. d \in Node /\ d # 1
  BY <1>2, OrderFacts, <1>1 DEF Node
<1>4. Up(d) \in Node /\ Up(d) < d /\ d \in Children(Up(d))
  BY <1>1, <1>3, OrderFacts, ChildFacts
<1>5. r \in Below(Up(d)) /\ r \in Behind(d)
  BY <1>1, <1>2 DEF Below, Behind, Node
<1>6. r <= r
  BY <1>1, OrderFacts
<1>7. Comes(r, In(r))
  BY <1>5, <1>6 DEF Comes, In
<1> QED BY <1>2, <1>3, <1>4, <1>5, <1>7

\* Nothing is around the read and behind its declaration but what is behind the
\* declaration in its block.
LEMMA BehindUp ==
  ASSUME Ordered, NEW d \in Node, NEW n \in Node, n # 1, Up(n) \in Behind(d)
  PROVE  n \in Behind(d)
<1>1. Up(n) \in Node /\ Up(n) < n /\ Up(n) > d /\ Up(n) \notin Below(d)
  BY OrderFacts DEF Behind
<1>2. n \notin Below(d)
  BY <1>1, BelowPrefix, OrderFacts
<1> QED BY <1>1, <1>2, OrderFacts DEF Behind

LEMMA BehindDown ==
  ASSUME Ordered, NEW d \in Node, NEW n \in Node, n # 1, n \in Behind(d), Up(n) > d
  PROVE  Up(n) \in Behind(d)
<1>1. Up(n) \in Node /\ n \in Children(Up(n))
  BY OrderFacts, ChildFacts
<1>2. Up(n) \notin Below(d)
  BY <1>1, ChildBelow, BelowTransitive DEF Behind
<1> QED BY <1>1, <1>2 DEF Behind

\* The step down to a first child.
LEMMA ComesFromParent ==
  ASSUME NEW r, ReadAfter(r), NEW n \in Node, Children(n) # {}, Comes(r, In(n + 1))
  PROVE  Comes(r, In(n))
<1> DEFINE d == Reads(r)
           c == n + 1
<1>1. Ordered /\ r \in Node /\ d \in Node /\ c \in Node /\ c # 1 /\ Up(c) = n /\ n < c
  BY ReadFacts, FirstChild, ChildFacts, OrderFacts DEF ReadAfter
<1>2. c \in Behind(d) /\ (c <= r \/ \E a \in Around(r) : c \in Below(a))
  BY DEF Comes, In
<1>3. n >= d /\ n # d
  <2>1. n = d => c \in Below(d)
    BY <1>1, ChildFacts, ChildBelow
  <2> QED BY <1>1, <1>2, <2>1, OrderFacts DEF Behind
<1>4. n \in Behind(d)
  BY <1>1, <1>2, <1>3, BehindDown, OrderFacts
<1>5. CASE c <= r
  BY <1>1, <1>4, <1>5, OrderFacts DEF Comes, In
<1>6. ASSUME NEW a \in Around(r), c \in Below(a) PROVE Comes(r, In(n))
  <2>1. a \in Node /\ a <= r /\ a <= c
    BY <1>1, <1>6, BelowFacts DEF Around
  <2>2. CASE a = c
    BY <1>5, <2>1, <2>2
  <2>3. CASE a # c
    <3>1. n \in Below(a)
      BY <1>1, <1>6, <2>1, <2>3, BelowPrefix, OrderFacts
    <3> QED BY <1>4, <3>1 DEF Comes, In
  <2> QED BY <2>2, <2>3
<1> QED BY <1>2, <1>5, <1>6

\* The step out of a node with no children.
LEMMA ComesFromIn ==
  ASSUME NEW r, ReadAfter(r), NEW n \in Node, Comes(r, Out(n))
  PROVE  Comes(r, In(n))
BY ReadFacts, OrderFacts DEF ReadAfter, Comes, In, Out

\* The step out of a node to its parent.
LEMMA ComesFromChild ==
  ASSUME NEW r, ReadAfter(r), NEW n \in Node, n # 1, Comes(r, Out(Up(n)))
  PROVE  Comes(r, Out(n))
<1> DEFINE d == Reads(r)
           p == Up(n)
<1>1. Ordered /\ r \in Node /\ d \in Node /\ p \in Node /\ p < n /\ n \in Below(p) /\ n \in Children(p)
  BY ReadFacts, OrderFacts, ChildFacts, ChildBelow DEF ReadAfter
<1>2. /\ p \in Behind(d)
      /\ (p < r /\ r \notin Below(p)) \/ \E a \in Around(r) : p \in Below(a) /\ p # a
  BY DEF Comes, Out
<1>3. n \in Behind(d)
  BY <1>1, <1>2, BehindUp
<1>4. CASE p < r /\ r \notin Below(p)
  <2>1. ~ (r <= n)
    BY <1>1, <1>4, BelowPrefix, OrderFacts
  <2>2. r \notin Below(n)
    BY <1>1, <1>4, BelowTransitive
  <2>3. n < r
    BY <1>1, <2>1, OrderFacts
  <2> QED BY <1>3, <2>2, <2>3 DEF Comes, Out
<1>5. ASSUME NEW a \in Around(r), p \in Below(a), p # a PROVE Comes(r, Out(n))
  <2>1. a \in Node /\ a <= p
    BY <1>1, <1>5, BelowFacts DEF Around
  <2>2. n \in Below(a) /\ n # a
    BY <1>1, <1>5, <2>1, BelowTransitive, OrderFacts
  <2> QED BY <1>3, <2>2 DEF Comes, Out
<1> QED BY <1>2, <1>4, <1>5

\* The step to the next sibling.
LEMMA ComesFromSibling ==
  ASSUME NEW r, ReadAfter(r), NEW n \in Node, n # 1, NEW c \in Children(Up(n)), c > n,
         \A e \in Children(Up(n)) : ~ (n < e /\ e < c), Comes(r, In(c))
  PROVE  n = Reads(r) \/ Comes(r, Out(n))
<1> DEFINE d == Reads(r)
           p == Up(n)
           B == Up(d)
<1>1. /\ Ordered /\ r \in Node /\ d \in Node /\ d # 1 /\ d < r /\ B \in Node /\ B < d /\ r \in Below(B)
      /\ p \in Node /\ p < n /\ n \in Children(p)
  BY ReadFacts, OrderFacts, ChildFacts DEF ReadAfter
<1>2. c \in Node /\ c # 1 /\ Up(c) = p
  BY <1>1, ChildFacts
<1>3. c \in Behind(d) /\ (c <= r \/ \E a \in Around(r) : c \in Below(a))
  BY DEF Comes, In
<1>4. Before(c) = Before(n) \cup Below(n)
  <2>1. Follower(n) = c
    <3>1. /\ Follower(n) \in Children(p) /\ Follower(n) > n
          /\ ~ (n < c /\ c < Follower(n)) /\ ~ (n < Follower(n) /\ Follower(n) < c)
      BY <1>1, NextSibling
    <3> QED BY <1>1, <1>2, <3>1, ChildFacts, OrderFacts
  <2> QED BY <1>1, <2>1, FollowerMeets
<1>5. ASSUME NEW a \in Around(r), c \in Below(a) PROVE c <= r \/ (a <= p /\ n \in Below(a) /\ n # a)
  <2>1. a \in Node /\ a <= r /\ a <= c /\ r \in Below(a)
    BY <1>1, <1>2, <1>5, BelowFacts DEF Around
  <2>2. CASE a = c
    BY <2>1, <2>2
  <2>3. CASE a # c
    <3>1. p \in Below(a) /\ p >= a
      BY <1>1, <1>2, <1>5, <2>1, <2>3, UpBelow
    <3>2. n \in Below(a) /\ n # a
      BY <1>1, <2>1, <3>1, ChildBelow, BelowTransitive, OrderFacts
    <3> QED BY <1>1, <2>1, <3>1, <3>2, OrderFacts
  <2> QED BY <2>2, <2>3
<1>6. ~ (n < d)
  <2> SUFFICES ASSUME n < d PROVE FALSE
    OBVIOUS
  <2>1. d < c
    BY <1>2, <1>3, OrderFacts DEF Behind
  <2>2. d \in Below(n)
    BY <1>1, <1>4, <2>1, OrderFacts DEF Before
  <2>3. B >= n
    BY <1>1, <2>2, BelowFacts, OrderFacts
  <2>4. c <= r
    <3>1. ASSUME NEW a \in Around(r), c \in Below(a) PROVE c <= r
      BY <1>1, <1>2, <1>5, <2>1, <2>3, <3>1, OrderFacts DEF Around
    <3> QED BY <1>3, <3>1
  <2>5. c \in Below(B) /\ B < c
    BY <1>1, <1>2, <2>1, <2>4, BelowPrefix, OrderFacts
  <2>6. p >= B
    BY <1>1, <1>2, <2>5, BelowFacts, OrderFacts
  <2> QED BY <1>1, <2>3, <2>6, OrderFacts
<1>7. n # d => n \in Behind(d)
  <2> SUFFICES ASSUME n # d PROVE n \in Behind(d)
    OBVIOUS
  <2>1. n > d
    BY <1>1, <1>6, OrderFacts
  <2>2. ASSUME n \in Below(d) PROVE FALSE
    <3>1. p >= d
      BY <1>1, <2>1, <2>2, BelowFacts, OrderFacts
    <3>2. p \in Below(d)
      BY <1>1, <2>2, <3>1, BelowPrefix, OrderFacts
    <3>3. c \in Below(d)
      BY <1>1, <3>2, ChildBelow, BelowTransitive
    <3> QED BY <1>3, <3>3 DEF Behind
  <2> QED BY <2>1, <2>2 DEF Behind
<1>8. ASSUME c <= r PROVE n < r /\ r \notin Below(n)
  <2>1. r \in Below(n) => p >= n
    BY <1>1, <1>2, <1>8, BelowFacts, OrderFacts
  <2> QED BY <1>1, <1>2, <1>8, <2>1, OrderFacts
<1>9. n # d => Comes(r, Out(n))
  BY <1>3, <1>5, <1>7, <1>8 DEF Comes, Out
<1> QED BY <1>9

\* A step within a statement, on to what stands later or back in a loop.
LEMMA ComesFromPart ==
  ASSUME NEW r, ReadAfter(r), NEW n \in Node, n # 1, NEW c \in Children(Up(n)),
         Kind(Up(n)) \in Loops \/ (Kind(Up(n)) = "if" /\ c > n), Comes(r, In(c))
  PROVE  Comes(r, Out(n))
<1> DEFINE d == Reads(r)
           p == Up(n)
           B == Up(d)
<1>1. /\ Ordered /\ r \in Node /\ d \in Node /\ d # 1 /\ d < r /\ B \in Node /\ B < d /\ r \in Below(B)
      /\ p \in Node /\ p < n /\ n \in Children(p) /\ n \in Below(p) /\ p # B
  BY ReadFacts, OrderFacts, ChildFacts, ChildBelow DEF ReadAfter, Loops
<1>2. c \in Node /\ c # 1 /\ Up(c) = p /\ c \in Below(p) /\ p < c
  BY <1>1, ChildFacts, ChildBelow
<1>3. c \in Behind(d) /\ (c <= r \/ \E a \in Around(r) : c \in Below(a)) /\ c > d
  BY DEF Comes, In, Behind
<1>4. c \in Below(B)
  <2>1. CASE c <= r
    BY <1>1, <1>2, <1>3, <2>1, BelowPrefix, OrderFacts
  <2>2. ASSUME NEW a \in Around(r), c \in Below(a) PROVE c \in Below(B)
    <3>1. a \in Node /\ a > d /\ a <= r
      BY <1>1, BelowFacts DEF Around
    <3>2. a \in Below(B)
      BY <1>1, <3>1, BelowPrefix, OrderFacts
    <3> QED BY <1>1, <2>2, <3>2, BelowTransitive
  <2> QED BY <1>3, <2>1, <2>2
<1>5. p > B
  <2>1. c # B
    BY <1>1, <1>2, <1>3, OrderFacts
  <2>2. p >= B
    BY <1>1, <1>2, <1>4, <2>1, UpBelow
  <2> QED BY <1>1, <2>2, OrderFacts
<1>6. p # d
  BY <1>1, <1>2, <1>3 DEF Behind
<1>7. ~ (p < d)
  <2> SUFFICES ASSUME p < d PROVE FALSE
    OBVIOUS
  <2>1. B >= p
    BY <1>1, <1>2, <1>3, OrderFacts
  <2> QED BY <1>1, <1>5, <2>1, OrderFacts
<1>8. p > d
  BY <1>1, <1>6, <1>7, OrderFacts
<1>9. n \in Behind(d)
  BY <1>1, <1>2, <1>3, <1>8, BehindDown, BehindUp
<1>10. ASSUME NEW a \in Around(r), c \in Below(a), ~ (c <= r) PROVE Comes(r, Out(n))
  <2>1. a \in Node /\ a <= r /\ a < c
    BY <1>1, <1>2, <1>10, BelowFacts, OrderFacts DEF Around
  <2>2. p >= a /\ p \in Below(a)
    BY <1>1, <1>2, <1>10, <2>1, UpBelow, OrderFacts
  <2>4. n \in Below(a) /\ n # a
    BY <1>1, <2>1, <2>2, BelowTransitive, OrderFacts
  <2> QED BY <1>9, <2>4 DEF Comes, Out
<1>11. ASSUME c <= r PROVE Comes(r, Out(n))
  <2>1. CASE n < r /\ r \notin Below(n)
    BY <1>9, <2>1 DEF Comes, Out
  <2>2. CASE ~ (n < r /\ r \notin Below(n)) /\ Kind(p) \in Loops
    <3>1. r \in Below(p)
      <4>1. CASE r \in Below(n)
        BY <1>1, <4>1, BelowTransitive
      <4>2. CASE r <= n
        BY <1>1, <1>2, <1>11, <4>2, BelowPrefix, OrderFacts
      <4> QED BY <1>1, <2>2, <4>1, <4>2, OrderFacts
    <3>2. p \in Around(r)
      BY <1>1, <1>8, <2>2, <3>1 DEF Around
    <3>3. n # p
      BY <1>1, OrderFacts
    <3> QED BY <1>1, <1>9, <3>2, <3>3 DEF Comes, Out
  <2>3. CASE Kind(p) = "if" /\ c > n
    <3>1. n < r
      BY <1>1, <1>2, <1>11, <2>3, OrderFacts
    <3>2. r \in Below(n) => p >= n
      BY <1>1, <1>2, <1>11, <2>3, BelowFacts, OrderFacts
    <3> QED BY <1>1, <1>9, <3>1, <3>2, OrderFacts DEF Comes, Out
  <2> QED BY <2>1, <2>2, <2>3
<1> QED BY <1>3, <1>10, <1>11

\* However control comes to such a position, it was at one before or leaves
\* the declaration.
LEMMA FlowComes ==
  ASSUME NEW r, ReadAfter(r), FoldableRead(r), ~ComesBack(r),
         \A j \in All("jump") : target[j] \in All("label"),
         NEW position \in Position, NEW to \in Flow(position, target), Comes(r, to)
  PROVE  position = Out(Reads(r)) \/ Comes(r, position)
<1> DEFINE d == Reads(r)
<1>1. Ordered /\ r \in Node /\ d \in Node /\ Kind(r) = "expr"
  BY ReadFacts DEF ReadAfter
<1>2. PICK n \in Node : position = In(n) \/ position = Out(n)
  BY DEF Position, In, Out
<1>3. CASE position = Out(n)
  <2>1. n # 1 /\ to \in Leaving(n)
    BY <1>3 DEF Flow, Out, End
  <2>2. CASE to = Out(Up(n))
    BY <1>3, <2>1, <2>2, ComesFromChild
  <2>3. CASE to # Out(Up(n))
    <3> DEFINE Adjacent(c) == \A e \in Children(Up(n)) : ~ (n < e /\ e < c)
    <3>1. PICK c \in Children(Up(n)) :
            /\ to = In(c)
            /\ \/ c > n /\ Adjacent(c)
               \/ c > n /\ Kind(Up(n)) = "if"
               \/ Kind(Up(n)) \in Loops
      BY <1>1, <2>1, <2>3, LeavingFacts
    <3>2. CASE c > n /\ Adjacent(c)
      <4>1. Comes(r, In(c))
        BY <3>1
      <4>2. n = d \/ Comes(r, Out(n))
        BY <2>1, <3>2, <4>1, ComesFromSibling
      <4> QED BY <1>3, <4>2
    <3>3. ASSUME Kind(Up(n)) \in Loops \/ (Kind(Up(n)) = "if" /\ c > n)
          PROVE  Comes(r, position)
      <4>1. Comes(r, In(c))
        BY <3>1
      <4>2. Comes(r, Out(n))
        BY <2>1, <3>3, <4>1, ComesFromPart
      <4> QED BY <1>3, <4>2
    <3> HIDE DEF Adjacent
    <3> QED BY <3>1, <3>2, <3>3
  <2> QED BY <2>2, <2>3
<1>4. CASE position = In(n)
  <2>1. CASE Kind(n) = "jump"
    <3>1. PICK l \in All("label") : to = In(l)
      <4>1. n \in All("jump") /\ position # End
        BY <1>4, <2>1 DEF All, In, End
      <4> QED BY <1>4, <2>1, <4>1 DEF Flow, In
    <3>2. /\ l \in Node /\ Kind(l) = "label" /\ l > d
          /\ l <= r \/ \E a \in Around(r) : l \in Below(a)
      BY <3>1 DEF All, Comes, In, Behind
    <3>3. l # r /\ ~ (l < r)
      BY <1>1, <3>1, <3>2 DEF FoldableRead
    <3>4. l > r
      BY <1>1, <3>2, <3>3, OrderFacts
    <3>5. PICK a \in Around(r) : l \in Below(a)
      BY <1>1, <3>2, <3>4, OrderFacts
    <3>6. a \in Node /\ Kind(a) \in Loops /\ a > d /\ a <= r /\ a # r /\ r \in Below(a)
      BY <1>1, BelowFacts DEF Around, Loops
    <3>7. a < r /\ a < l
      BY <1>1, <3>2, <3>4, <3>6, OrderFacts
    <3>8. a \in Above[r] /\ a \in Above[l]
      BY <1>1, <3>2, <3>5, <3>6, <3>7 DEF Above, Below
    <3>9. ComesBack(r)
      BY <3>1, <3>4, <3>6, <3>8 DEF ComesBack
    <3> QED BY <3>9
  <2>2. CASE Kind(n) # "jump"
    <3>1. to = Descend(n)
      BY <1>4, <2>2 DEF Flow, In, End
    <3>2. CASE Children(n) # {}
      <4>1. to = In(n + 1)
        BY <1>1, <3>1, <3>2, FirstChild DEF Descend
      <4> QED BY <1>4, <3>2, <4>1, ComesFromParent
    <3>3. CASE Children(n) = {}
      BY <1>4, <3>1, <3>3, ComesFromIn DEF Descend
    <3> QED BY <3>2, <3>3
  <2> QED BY <2>1, <2>2
<1> QED BY <1>2, <1>3, <1>4

LEMMA LeavingStays ==
  ASSUME Ordered, NEW n \in Node, n # 1, NEW to \in Leaving(n)
  PROVE  to \in Position
<1>1. Up(n) \in Node /\ \A c \in Children(Up(n)) : c \in Node
  BY OrderFacts, ChildFacts
<1> QED BY <1>1, LeavingFacts DEF Position, In, Out

LEMMA FlowStays ==
  ASSUME Ordered, \A j \in All("jump") : target[j] \in All("label"),
         NEW position \in Position, NEW to \in Flow(position, target)
  PROVE  to \in Position
<1>1. PICK n \in Node : position = In(n) \/ position = Out(n)
  BY DEF Position, In, Out
<1>2. CASE position = Out(n)
  <2>1. n # 1 /\ to \in Leaving(n)
    BY <1>2 DEF Flow, Out, End
  <2> QED BY <2>1, LeavingStays
<1>3. CASE position = In(n)
  <2>1. position # End /\ position[2] = "in" /\ position[1] = n
    BY <1>3 DEF In, End
  <2>2. CASE Kind(n) = "jump"
    <3>1. n \in All("jump") /\ to = In(target[n])
      BY <2>1, <2>2 DEF Flow, All
    <3> QED BY <3>1 DEF Position, In, All
  <2>3. CASE Kind(n) # "jump"
    <3>1. to = Descend(n)
      BY <2>1, <2>3 DEF Flow
    <3> QED BY <3>1, DescendMeets
  <2> QED BY <2>2, <2>3
<1> QED BY <1>1, <1>2, <1>3

-----------------------------------------------------------------------------
(* A jump goes to a label of its name. *)

LEMMA DestinationIsLabel ==
  ASSUME Ordered, NEW j, Destination(j) # 0
  PROVE  Destination(j) \in All("label") /\ Name(Destination(j)) = Name(j)
<1>1. Lookup(j) # 0
  BY DEF Destination
<1> DEFINE visible == {l \in All("label") : Name(l) = Name(j) /\ Scope(l) \in Above[j] /\ Defined(l)}
           scopes == {Scope(l) : l \in visible}
<1>2. visible # {} /\ Lookup(j) = CHOOSE l \in visible : \A m \in visible : Scope(m) <= Scope(l)
  BY <1>1 DEF Lookup
<1>3. \A l \in visible : Scope(l) \in Node \cup {0}
  <2>1. ASSUME NEW l \in visible PROVE Scope(l) \in Node \cup {0}
    <3> DEFINE blocks == {a \in Above[l] : Kind(a) = "block"}
    <3>1. blocks \subseteq Node
      BY DEF Above, All
    <3>2. blocks # {} => Innermost(blocks) \in Node
      BY <3>1, InnermostIn
    <3>3. blocks = {} => Innermost(blocks) = 0
      BY DEF Innermost
    <3> QED BY <3>2, <3>3 DEF Scope
  <2> QED BY <2>1
<1>4. \E s \in scopes : \A t \in scopes : t <= s
  <2>1. scopes \subseteq Nat /\ scopes # {} /\ Len(body) \in Nat /\ \A t \in scopes : t <= Len(body)
    BY <1>2, <1>3, OrderFacts DEF Node
  <2> HIDE DEF scopes
  <2> QED BY <2>1, GreatestExists
<1>5. \E l \in visible : \A m \in visible : Scope(m) <= Scope(l)
  BY <1>4
<1>6. Lookup(j) \in visible
  BY <1>2, <1>5
<1>7. Lookup(j) \in All("label") /\ Name(Lookup(j)) = Name(j)
  BY <1>6
<1>8. LastOfName(Lookup(j)) \in All("label") /\ Name(LastOfName(Lookup(j))) = Name(j)
  <2> DEFINE same == {m \in All("label") : Name(m) = Name(Lookup(j))}
  <2>1. Lookup(j) \in same /\ same \subseteq Node
    BY <1>7 DEF All
  <2>2. Innermost(same) \in same
    BY <2>1, InnermostIn
  <2> QED BY <1>7, <2>2 DEF LastOfName
<1> QED BY <1>7, <1>8 DEF Destination

-----------------------------------------------------------------------------
(* Nodes that control never leaves. *)

\* Nothing leads out of the nodes of D but from within D.
Closed(D) ==
  \A m \in D :
    /\ Children(m) # {} \/ Kind(m) = "return"
    /\ \A c \in Children(m) : Out(m) \in Leaving(c) => c \in D

DeadEnd(n) == \E D \in SUBSET Node : n \in D /\ Closed(D)

LEMMA DeadReturn ==
  ASSUME Ordered, NEW n \in Node, Kind(n) = "return"
  PROVE  DeadEnd(n)
<1>1. Children(n) = {}
  <2> DEFINE parts == [if |-> {2, 3}, while |-> {2}, do |-> {2}, for |-> {4}, return |-> {0}]
  <2>1. Shaped(body)
    BY BodiesAssumption DEF Ordered
  <2>2. PICK k \in parts[Kind(n)] : {Place(c) : c \in Children(n)} = 1 .. k
    BY <2>1, Zenon DEF Shaped, Kind, Node, Children, Place
  <2>3. k = 0
    BY <2>2
  <2>4. {Place(c) : c \in Children(n)} = {}
    BY <2>2, <2>3
  <2> QED BY <2>4
<1>2. Closed({n})
  BY <1>1 DEF Closed
<1> QED BY <1>2 DEF DeadEnd

LEMMA DeadBlock ==
  ASSUME Ordered, NEW n \in Node, n # 1, Kind(Up(n)) = "block",
         \A c \in Children(Up(n)) : ~ (c > n), DeadEnd(n)
  PROVE  DeadEnd(Up(n))
<1> DEFINE p == Up(n)
<1>1. p \in Node /\ n \in Children(p)
  BY OrderFacts, ChildFacts
<1>2. PICK D \in SUBSET Node : n \in D /\ Closed(D)
  BY DEF DeadEnd
<1>3. ASSUME NEW c \in Children(p), Out(p) \in Leaving(c) PROVE c = n
  <2>1. c \in Node /\ c # 1 /\ Up(c) = p /\ Kind(p) \notin Loops \cup {"if"}
    BY <1>1, <1>3, ChildFacts DEF Loops
  <2>2. Out(p) = Onward(c)
    BY <1>3, <2>1 DEF Leaving, Condition, Loops
  <2>3. Follower(c) = 0
    BY <2>2 DEF Onward, In, Out
  <2>4. ASSUME NEW e \in Children(p), e > c PROVE FALSE
    <3>1. \E x \in Children(Up(c)) : x > c
      BY <2>1, <2>4
    <3>2. Follower(c) \in Children(Up(c))
      BY <2>1, <3>1, NextSibling
    <3>3. Follower(c) \in Node
      BY <1>1, <2>1, <3>2, ChildFacts
    <3> QED BY <2>3, <3>3, OrderFacts DEF Node
  <2>5. ~ (c > n) /\ ~ (n > c)
    BY <1>1, <1>3, <2>4
  <2> QED BY <1>1, <2>1, <2>5, OrderFacts
<1>4. Closed(D \cup {p})
  BY <1>1, <1>2, <1>3 DEF Closed
<1> QED BY <1>1, <1>2, <1>4 DEF DeadEnd

LEMMA DeadBranches ==
  ASSUME Ordered, NEW n \in Node, TwoWay(n), DeadEnd(Child(n, 2)), DeadEnd(Child(n, 3))
  PROVE  DeadEnd(n)
<1>1. Kind(n) = "if" /\ Cardinality(Children(n)) = 3
  BY DEF TwoWay
<1>2. PICK D \in SUBSET Node : Child(n, 2) \in D /\ Closed(D)
  BY DEF DeadEnd
<1>3. PICK E \in SUBSET Node : Child(n, 3) \in E /\ Closed(E)
  BY DEF DeadEnd
<1>4. ASSUME NEW c \in Children(n), Out(n) \in Leaving(c) PROVE c \in D \cup E
  <2>1. c \in Node /\ c # 1 /\ Up(c) = n
    BY ChildFacts
  <2>2. Place(c) \in {1, 2, 3}
    <3>1. Shaped(body)
      BY BodiesAssumption DEF Ordered
    <3>2. \E k \in {2, 3} : Cardinality(Children(n)) = k /\ {Place(e) : e \in Children(n)} = 1 .. k
      BY <1>1, <3>1 DEF Shaped, Kind, Node, Children, Place
    <3> QED BY <1>1, <3>2
  <2>3. Place(c) # 1
    <3> SUFFICES ASSUME Place(c) = 1 PROVE FALSE
      OBVIOUS
    <3>1. Condition(c)
      BY <1>1, <2>1 DEF Condition
    <3>2. Taken(c, TRUE) = In(Child(n, StatementPlace(n))) /\ Taken(c, FALSE) = In(Child(n, 3))
      BY <1>1, <2>1 DEF Taken
    <3>3. Out(n) \in {Taken(c, TRUE), Taken(c, FALSE)}
      BY <1>4, <3>1 DEF Leaving
    <3>4. \A x : Out(n) # In(x)
      BY DEF In, Out
    <3> QED BY <3>2, <3>3, <3>4
  <2>4. c = Child(n, 2) \/ c = Child(n, 3)
    BY <2>2, <2>3, ChildUnique
  <2> QED BY <1>2, <1>3, <2>4
<1>5. Children(n) # {}
  BY <1>1, PartsOfStatement
<1>6. Closed(D \cup E \cup {n})
  BY <1>2, <1>3, <1>4, <1>5 DEF Closed
<1>7. D \cup E \cup {n} \in SUBSET Node
  OBVIOUS
<1> QED BY <1>6, <1>7 DEF DeadEnd

\* Control does not come to the end of a node that it never leaves.
LEMMA DeadStays ==
  ASSUME Ordered, NEW D \in SUBSET Node, Closed(D), NEW position \in Position,
         NEW m \in D, Out(m) \in Flow(position, target)
  PROVE  \E c \in D : position = Out(c)
<1>1. PICK n \in Node : position = In(n) \/ position = Out(n)
  BY DEF Position, In, Out
<1>2. CASE position = Out(n)
  <2>1. n # 1 /\ Out(m) \in Leaving(n)
    BY <1>2 DEF Flow, Out, End
  <2>2. Up(n) \in Node /\ n \in Children(Up(n))
    BY <2>1, OrderFacts, ChildFacts
  <2>3. Out(m) = Out(Up(n))
    <3>1. \A c : Out(m) # In(c)
      BY DEF In, Out
    <3> QED BY <2>1, <3>1, LeavingFacts
  <2>4. m = Up(n)
    BY <2>3 DEF Out
  <2> QED BY <1>2, <2>1, <2>2, <2>4 DEF Closed
<1>3. CASE position = In(n)
  <2>1. position # End /\ position[1] = n /\ position[2] = "in"
    BY <1>3 DEF In, End
  <2>2. Kind(n) \notin {"jump", "return", "state"} /\ Out(m) = Descend(n)
    BY <2>1 DEF Flow, In, Out
  <2>3. Children(n) = {} /\ m = n
    BY <2>2 DEF Descend, In, Out
  <2> QED BY <2>2, <2>3 DEF Closed
<1> QED BY <1>1, <1>2, <1>3

-----------------------------------------------------------------------------
(* What holds of the passes and of the program. *)

TargetsAreLabels ==
  /\ DOMAIN target = All("jump")
  /\ \A j \in All("jump") : target[j] \in All("label") \cup {0}
  /\ pass # "resolution" => \A j \in All("jump") : target[j] # 0

ReadsInv ==
  /\ Ordered
  /\ TargetsAreLabels
  /\ pc \in Position
  /\ pass # "run" => pc = Begin
  /\ \A r \in foldable : ReadAfter(r) /\ FoldableRead(r)
  /\ pass = "run" => \A r \in foldable : ~ComesBack(r) /\ Comes(r, pc) => Reads(r) \in initialized

LEMMA BodyStays ==
  ASSUME body' = body
  PROVE  /\ Node' = Node /\ Position' = Position /\ Ordered' = Ordered
         /\ All("jump")' = All("jump") /\ All("label")' = All("label")
         /\ \A r : /\ ReadAfter(r)' <=> ReadAfter(r)
                   /\ FoldableRead(r)' <=> FoldableRead(r)
                   /\ ComesBack(r)' <=> ComesBack(r)
                   /\ Reads(r)' = Reads(r)
BY DEF Node, Position, Ordered, All, Kind, ReadAfter, FoldableRead, ComesBack, Reads, Above

LEMMA ComesStays ==
  ASSUME body' = body, pc' = pc, NEW r
  PROVE  Comes(r, pc)' <=> Comes(r, pc)
BY DEF Comes, Behind, Around, Below, Node, Kind, Reads

LEMMA ReadsInvInit == ExecInit => ReadsInv
<1> SUFFICES ASSUME ExecInit PROVE ReadsInv
  OBVIOUS
<1>1. Ordered
  BY DEF ExecInit, JumpInit, Ordered
<1>2. TargetsAreLabels
  BY DEF ExecInit, JumpInit, TargetsAreLabels
<1>3. pc = Begin /\ Begin \in Position
  BY <1>1, OrderFacts DEF ExecInit, Begin, Position
<1> QED BY <1>1, <1>2, <1>3 DEF ExecInit, ReadsInv

LEMMA ReadsInvStep == ReadsInv /\ [ExecNext]_execVars => ReadsInv'
<1> SUFFICES ASSUME ReadsInv, [ExecNext]_execVars PROVE ReadsInv'
  OBVIOUS
<1>0. body' = body
  BY DEF ExecNext, Resolve, Resolution, Enter, Leave, LeaveBody, ResolveJump, CheckDuplicates,
         ClassifyJump, EndResolution, StartTypes, CheckNode, EndTypes, CheckReturns, EndReturns,
         Run, jumpVars, execVars
<1>1. Ordered /\ TargetsAreLabels /\ pc \in Position
  BY DEF ReadsInv
<1>2. ASSUME UNCHANGED <<pc, foldable, initialized>>, TargetsAreLabels',
             pass' = "run" => pass = "run" \/ pc = Begin, pass' # "run" => pass # "run"
      PROVE  ReadsInv'
  <2>1. \A r : ReadAfter(r) => ~ Comes(r, Begin)
    BY ReadFacts, OrderFacts DEF ReadAfter, Comes, Begin, Behind, Node
  <2>2. \A r \in foldable : Comes(r, pc)' <=> Comes(r, pc)
    BY <1>0, <1>2, ComesStays
  <2>3. Begin' = Begin
    BY DEF Begin
  <2>4. (pass = "run" => \A r \in foldable : ~ComesBack(r) /\ Comes(r, pc) => Reads(r) \in initialized)'
    BY <1>0, <1>2, <2>1, <2>2, BodyStays DEF ReadsInv
  <2> QED BY <1>0, <1>1, <1>2, <2>3, <2>4, BodyStays DEF ReadsInv
<1>3. CASE Resolve
  <2>1. ASSUME NEW j \in All("jump") PROVE target'[j] \in All("label") \cup {0}
    <3>1. CASE target' = target
      BY <1>1, <2>1, <3>1 DEF TargetsAreLabels
    <3>2. CASE ResolveJump
      <4> DEFINE k == pending[done + 1]
      <4>1. target' = [target EXCEPT ![k] = Destination(k)]
        BY <3>2 DEF ResolveJump
      <4> HIDE DEF k
      <4>2. Destination(k) \in All("label") \cup {0}
        BY <1>1, DestinationIsLabel
      <4> QED BY <1>1, <2>1, <4>1, <4>2 DEF TargetsAreLabels
    <3> QED BY <1>3, <3>1, <3>2
          DEF Resolve, Resolution, Enter, Leave, LeaveBody, CheckDuplicates, ClassifyJump, EndResolution
  <2>2. DOMAIN target' = All("jump")
    BY <1>1, <1>3 DEF TargetsAreLabels, Resolve, Resolution, Enter, Leave, LeaveBody, ResolveJump,
                      CheckDuplicates, ClassifyJump, EndResolution
  <2>3. TargetsAreLabels'
    BY <1>0, <1>3, <2>1, <2>2, BodyStays DEF TargetsAreLabels, Resolve, passVars
  <2> QED BY <1>2, <1>3, <2>3 DEF Resolve, passVars
<1>4. CASE StartTypes
  <2>1. TargetsAreLabels'
    BY <1>0, <1>1, <1>4, BodyStays DEF TargetsAreLabels, StartTypes, jumpVars
  <2> QED BY <1>2, <1>4, <2>1 DEF StartTypes
<1>5. CASE CheckNode
  <2>1. TargetsAreLabels'
    BY <1>0, <1>1, <1>5, BodyStays DEF TargetsAreLabels, CheckNode, jumpVars
  <2>2. pass = "types" /\ pass' = pass /\ pc' = pc /\ next \in Node
    BY <1>5 DEF CheckNode
  <2>3. ASSUME NEW r \in foldable' PROVE ReadAfter(r) /\ FoldableRead(r)
    <3>1. CASE r \in foldable
      BY <3>1 DEF ReadsInv
    <3>2. CASE r \notin foldable
      BY <1>1, <1>5, <2>2, <2>3, <3>2 DEF CheckNode, ReadAfter, FoldableRead
    <3> QED BY <3>1, <3>2
  <2> QED BY <1>0, <1>1, <2>1, <2>2, <2>3, BodyStays DEF ReadsInv, Begin
<1>6. CASE EndTypes
  <2>1. TargetsAreLabels'
    BY <1>0, <1>1, <1>6, BodyStays DEF TargetsAreLabels, EndTypes, jumpVars
  <2> QED BY <1>2, <1>6, <2>1 DEF EndTypes
<1>7. CASE CheckReturns
  <2>1. TargetsAreLabels'
    BY <1>0, <1>1, <1>7, BodyStays DEF TargetsAreLabels, CheckReturns, jumpVars
  <2> QED BY <1>2, <1>7, <2>1 DEF CheckReturns
<1>8. CASE EndReturns
  <2>1. TargetsAreLabels'
    BY <1>0, <1>1, <1>8, BodyStays DEF TargetsAreLabels, EndReturns, jumpVars
  <2>2. pc = Begin
    BY <1>8 DEF EndReturns, ReadsInv
  <2> QED BY <1>2, <1>8, <2>1, <2>2 DEF EndReturns
<1>9. CASE Run
  <2>1. /\ pass = "run" /\ pass' = pass /\ pc' \in Flow(pc, target) /\ foldable' = foldable
        /\ initialized' = initialized \cup {n \in All("decl") : pc = Out(n)}
        /\ target' = target
    BY <1>9 DEF Run, jumpVars
  <2>2. \A j \in All("jump") : target[j] \in All("label")
    BY <1>1, <2>1 DEF TargetsAreLabels
  <2>3. pc' \in Position
    BY <1>1, <2>1, <2>2, FlowStays
  <2>4. TargetsAreLabels'
    BY <1>0, <1>1, <2>1, BodyStays DEF TargetsAreLabels
  <2>5. ASSUME NEW r \in foldable, ~ComesBack(r), Comes(r, pc)' PROVE Reads(r) \in initialized'
    <3>1. ReadAfter(r) /\ FoldableRead(r)
      BY DEF ReadsInv
    <3>2. PICK to \in Flow(pc, target) : to = pc'
      BY <2>1
    <3>3. Comes(r, to)
      BY <1>0, <2>5, <3>2 DEF Comes, Behind, Around, Below, Node, Kind, Reads
    <3>4. pc = Out(Reads(r)) \/ Comes(r, pc)
      BY <1>1, <2>2, <2>5, <3>1, <3>3, FlowComes
    <3>5. CASE Comes(r, pc)
      BY <2>1, <2>5, <3>5 DEF ReadsInv
    <3>6. CASE pc = Out(Reads(r))
      <4>1. Reads(r) \in All("decl")
        BY <3>1, ReadFacts DEF All
      <4> QED BY <2>1, <3>6, <4>1
    <3> QED BY <3>4, <3>5, <3>6
  <2> QED BY <1>0, <1>1, <2>1, <2>3, <2>4, <2>5, BodyStays DEF ReadsInv, Begin
<1>10. CASE UNCHANGED execVars
  <2>1. TargetsAreLabels' /\ UNCHANGED <<pc, foldable, initialized, pass>>
    BY <1>0, <1>1, <1>10, BodyStays DEF TargetsAreLabels, execVars, jumpVars, passVars
  <2> QED BY <1>2, <2>1
<1> QED BY <1>3, <1>4, <1>5, <1>6, <1>7, <1>8, <1>9, <1>10 DEF ExecNext

-----------------------------------------------------------------------------
(* What AllPathsReturnVisitor knows on its way. *)

\* A node the visitor comes to is in a block or a branch.
Looked(n) == Kind(Up(n)) = "block" \/ IsBranch(n, 2) \/ IsBranch(n, 3)

VisitorInv ==
  /\ cursor \in Position
  /\ \A a \in Node : a # 1 /\ cursor[1] \in Below(a) => Looked(a)
  /\ allReturn /\ cursor[2] = "out" => DeadEnd(cursor[1])
  /\ DOMAIN trueReturn = All("if")
  /\ \A n \in All("if") : trueReturn[n] => DeadEnd(Child(n, 2))

ReturnsInv ==
  /\ ReadsInv
  /\ VisitorInv
  /\ pass = "run" =>
       /\ cursor = End
       /\ allReturn => \E D \in SUBSET Node : 1 \in D /\ Closed(D) /\ \A m \in D : pc # Out(m)

LEMMA TreeStays ==
  ASSUME body' = body
  PROVE  /\ \A D : Closed(D)' <=> Closed(D)
         /\ \A n : DeadEnd(n)' <=> DeadEnd(n)
         /\ \A n : (Looked(n)' <=> Looked(n)) /\ Below(n)' = Below(n)
         /\ \A n, k : Child(n, k)' = Child(n, k)
         /\ All("if")' = All("if")
<1>1. /\ Node' = Node /\ \A n : Children(n)' = Children(n) /\ Kind(n)' = Kind(n) /\ Up(n)' = Up(n)
      /\ \A n : Place(n)' = Place(n)
  BY DEF Node, Children, Kind, Up, Place
<1>2. \A n, k : Child(n, k)' = Child(n, k)
  BY <1>1 DEF Child
<1>3. \A n : Leaving(n)' = Leaving(n) /\ TwoWay(n)' = TwoWay(n)
  BY DEF Leaving, Condition, Taken, BackEdge, StatementPlace, Onward, Follower, Child, Children,
         Kind, Up, Place, TwoWay
<1>4. \A n, k : IsBranch(n, k)' <=> IsBranch(n, k)
  BY <1>1, <1>3 DEF IsBranch
<1>5. \A D : Closed(D)' <=> Closed(D)
  BY <1>1, <1>3 DEF Closed, Out
<1>6. \A n : DeadEnd(n)' <=> DeadEnd(n)
  BY <1>1, <1>5 DEF DeadEnd
<1>7. \A n : (Looked(n)' <=> Looked(n)) /\ Below(n)' = Below(n)
  BY <1>1, <1>4 DEF Looked, Below, Node
<1>8. All("if")' = All("if")
  BY <1>1 DEF All
<1> QED BY <1>2, <1>5, <1>6, <1>7, <1>8

\* From a node the visitor was at to one it comes to next.
LEMMA LookedStays ==
  ASSUME Ordered, VisitorInv, NEW n \in Node, cursor[1] = n,
         NEW m \in Node, m # 1, Looked(m), Up(m) = n \/ (n # 1 /\ Up(m) = Up(n)),
         NEW a \in Node, a # 1, m \in Below(a)
  PROVE  Looked(a)
<1>1. CASE a = m
  BY <1>1
<1>2. CASE a # m
  <2>1. Up(m) \in Below(a)
    BY <1>2, UpBelow
  <2>2. n \in Below(a)
    <3>1. CASE Up(m) = n
      BY <2>1, <3>1
    <3>2. CASE n # 1 /\ Up(m) = Up(n)
      <4>1. Up(n) \in Node /\ n \in Children(Up(n))
        BY <3>2, OrderFacts, ChildFacts
      <4> QED BY <2>1, <3>2, <4>1, ChildBelow, BelowTransitive
    <3> QED BY <3>1, <3>2
  <2> QED BY <2>2 DEF VisitorInv
<1> QED BY <1>1, <1>2

LEMMA LookedAbove ==
  ASSUME Ordered, VisitorInv, NEW n \in Node, n # 1, cursor[1] = n,
         NEW a \in Node, a # 1, Up(n) \in Below(a)
  PROVE  Looked(a)
<1>1. Up(n) \in Node /\ n \in Children(Up(n))
  BY OrderFacts, ChildFacts
<1>2. n \in Below(a)
  BY <1>1, ChildBelow, BelowTransitive
<1> QED BY <1>2 DEF VisitorInv

LEMMA VisitorStep ==
  ASSUME Ordered, VisitorInv, CheckReturns
  PROVE  VisitorInv'
<1>0. body' = body
  BY DEF CheckReturns, jumpVars
<1>1. PICK n \in Node : EnterStatement(n) \/ LeaveTrueBranch(n) \/ LeaveFalseBranch(n) \/ LeaveStatement(n)
  BY DEF CheckReturns
<1>2. SUFFICES
        /\ cursor' \in Position
        /\ \A a \in Node : a # 1 /\ cursor'[1] \in Below(a) => Looked(a)
        /\ allReturn' /\ cursor'[2] = "out" => DeadEnd(cursor'[1])
        /\ DOMAIN trueReturn' = All("if")
        /\ \A i \in All("if") : trueReturn'[i] => DeadEnd(Child(i, 2))
  BY <1>0, TreeStays, BodyStays DEF VisitorInv
<1>3. DOMAIN trueReturn = All("if") /\ \A i \in All("if") : trueReturn[i] => DeadEnd(Child(i, 2))
  BY DEF VisitorInv
<1>4. \A m : In(m)[1] = m /\ In(m)[2] = "in" /\ Out(m)[1] = m /\ Out(m)[2] = "out"
  BY DEF In, Out
<1>5. \A m \in Node : In(m) \in Position /\ Out(m) \in Position
  BY DEF In, Out, Position
<1>6. \A p \in Node : TwoWay(p) => /\ Child(p, 2) \in Children(p) /\ Place(Child(p, 2)) = 2
                                  /\ Child(p, 3) \in Children(p) /\ Place(Child(p, 3)) = 3
  BY PartsOfStatement DEF TwoWay
<1>7. ASSUME NEW m \in Node, NEW k, IsBranch(m, k)
      PROVE  m # 1 /\ Up(m) \in Node /\ TwoWay(Up(m)) /\ m = Child(Up(m), k) /\ Up(m) \in All("if")
  <2>1. m # 1 /\ Up(m) \in Node /\ TwoWay(Up(m)) /\ Place(m) = k /\ m \in Children(Up(m))
    BY <1>7, OrderFacts, ChildFacts DEF IsBranch
  <2> QED BY <2>1, ChildUnique DEF TwoWay, All
<1>8. CASE EnterStatement(n)
  <2>1. cursor[1] = n /\ trueReturn' = trueReturn
    BY <1>4, <1>8 DEF EnterStatement
  <2>2. CASE TwoWay(n)
    <3> DEFINE c == Child(n, 2)
    <3>1. cursor' = In(c)
      BY <1>8, <2>2 DEF EnterStatement
    <3>2. c \in Node /\ c # 1 /\ Up(c) = n /\ Place(c) = 2
      BY <1>6, <2>2, ChildFacts
    <3> HIDE DEF c
    <3>3. Looked(c)
      BY <2>2, <3>2 DEF Looked, IsBranch
    <3>4. \A a \in Node : a # 1 /\ c \in Below(a) => Looked(a)
      BY <2>1, <3>2, <3>3, LookedStays
    <3> QED BY <1>3, <1>4, <1>5, <2>1, <3>1, <3>2, <3>4
  <2>3. CASE ~TwoWay(n) /\ Kind(n) = "block" /\ Children(n) # {}
    <3> DEFINE c == n + 1
    <3>1. cursor' = In(c) /\ c \in Children(n)
      BY <1>8, <2>3, FirstChild DEF EnterStatement, Descend
    <3>2. c \in Node /\ c # 1 /\ Up(c) = n
      BY <3>1, ChildFacts
    <3> HIDE DEF c
    <3>3. Looked(c)
      BY <2>3, <3>2 DEF Looked
    <3>4. \A a \in Node : a # 1 /\ c \in Below(a) => Looked(a)
      BY <2>1, <3>2, <3>3, LookedStays
    <3> QED BY <1>3, <1>4, <1>5, <2>1, <3>1, <3>2, <3>4
  <2>4. CASE ~TwoWay(n) /\ ~ (Kind(n) = "block" /\ Children(n) # {})
    <3>1. cursor' = Out(n) /\ allReturn' = (Kind(n) = "return")
      BY <1>8, <2>4 DEF EnterStatement, Descend
    <3>2. allReturn' => DeadEnd(n)
      BY <3>1, DeadReturn
    <3>3. \A a \in Node : a # 1 /\ n \in Below(a) => Looked(a)
      BY <2>1 DEF VisitorInv
    <3> QED BY <1>3, <1>4, <1>5, <2>1, <3>1, <3>2, <3>3
  <2> QED BY <2>2, <2>3, <2>4
<1>9. CASE LeaveTrueBranch(n)
  <2> DEFINE p == Up(n)
             c == Child(p, 3)
  <2>1. /\ cursor = Out(n) /\ IsBranch(n, 2) /\ cursor' = In(c) /\ allReturn' = allReturn
        /\ trueReturn' = [trueReturn EXCEPT ![p] = allReturn]
    BY <1>9 DEF LeaveTrueBranch
  <2>2. n # 1 /\ p \in Node /\ TwoWay(p) /\ n = Child(p, 2) /\ p \in All("if")
    BY <1>7, <2>1
  <2>3. c \in Node /\ c # 1 /\ Up(c) = p /\ Place(c) = 3
    BY <1>6, <2>2, ChildFacts
  <2>4. cursor[1] = n /\ cursor[2] = "out"
    BY <1>4, <2>1
  <2> HIDE DEF c, p
  <2>5. Looked(c)
    BY <2>2, <2>3 DEF Looked, IsBranch
  <2>6. \A a \in Node : a # 1 /\ c \in Below(a) => Looked(a)
    BY <2>2, <2>3, <2>4, <2>5, LookedStays DEF p
  <2>7. allReturn => DeadEnd(Child(p, 2))
    BY <2>2, <2>4 DEF VisitorInv
  <2> QED BY <1>3, <1>4, <1>5, <2>1, <2>2, <2>3, <2>6, <2>7
<1>10. CASE LeaveFalseBranch(n)
  <2> DEFINE p == Up(n)
  <2>1. /\ cursor = Out(n) /\ IsBranch(n, 3) /\ cursor' = Out(p) /\ trueReturn' = trueReturn
        /\ allReturn' = (trueReturn[p] /\ allReturn)
    BY <1>10 DEF LeaveFalseBranch
  <2>2. n # 1 /\ p \in Node /\ TwoWay(p) /\ n = Child(p, 3) /\ p \in All("if")
    BY <1>7, <2>1
  <2>3. cursor[1] = n /\ cursor[2] = "out"
    BY <1>4, <2>1
  <2> HIDE DEF p
  <2>4. \A a \in Node : a # 1 /\ p \in Below(a) => Looked(a)
    BY <2>2, <2>3, LookedAbove DEF p
  <2>5. allReturn' => DeadEnd(Child(p, 2)) /\ DeadEnd(Child(p, 3))
    BY <1>3, <2>1, <2>2, <2>3 DEF VisitorInv
  <2>6. allReturn' => DeadEnd(p)
    BY <2>2, <2>5, DeadBranches
  <2> QED BY <1>3, <1>4, <1>5, <2>1, <2>2, <2>4, <2>6
<1>11. CASE LeaveStatement(n)
  <2> DEFINE p == Up(n)
  <2>1. /\ cursor = Out(n) /\ n # 1 /\ ~IsBranch(n, 2) /\ ~IsBranch(n, 3) /\ cursor' = Onward(n)
        /\ allReturn' = allReturn /\ trueReturn' = trueReturn
    BY <1>11 DEF LeaveStatement
  <2>2. cursor[1] = n /\ cursor[2] = "out"
    BY <1>4, <2>1
  <2>3. p \in Node /\ n \in Children(p) /\ n \in Below(n)
    BY <2>1, OrderFacts, ChildFacts, SelfBelow
  <2>4. Kind(p) = "block"
    <3>1. Looked(n)
      BY <2>1, <2>2, <2>3 DEF VisitorInv
    <3> QED BY <2>1, <3>1 DEF Looked
  <2>5. CASE \E c \in Children(Up(n)) : c > n
    <3> DEFINE c == Follower(n)
    <3>1. c \in Children(p)
      BY <2>1, <2>5, NextSibling
    <3>2. c \in Node /\ c # 1 /\ Up(c) = p /\ c # 0
      BY <2>3, <3>1, ChildFacts, OrderFacts DEF Node
    <3>3. cursor' = In(c)
      BY <2>1, <3>2 DEF Onward
    <3> HIDE DEF c
    <3>4. Looked(c)
      BY <2>4, <3>2 DEF Looked
    <3>5. \A a \in Node : a # 1 /\ c \in Below(a) => Looked(a)
      BY <2>1, <2>2, <3>2, <3>4, LookedStays
    <3> QED BY <1>3, <1>4, <1>5, <2>1, <3>2, <3>3, <3>5
  <2>6. CASE \A c \in Children(Up(n)) : ~ (c > n)
    <3>1. cursor' = Out(p)
      BY <2>1, <2>6 DEF Onward, Follower
    <3>2. allReturn => DeadEnd(p)
      <4>1. allReturn => DeadEnd(n)
        BY <2>2 DEF VisitorInv
      <4> QED BY <2>1, <2>4, <2>6, <4>1, DeadBlock
    <3>3. \A a \in Node : a # 1 /\ p \in Below(a) => Looked(a)
      BY <2>1, <2>2, LookedAbove
    <3> QED BY <1>3, <1>4, <1>5, <2>1, <2>3, <3>1, <3>2, <3>3
  <2> QED BY <2>5, <2>6
<1> QED BY <1>1, <1>8, <1>9, <1>10, <1>11

LEMMA ReturnsInvInit == ExecInit => ReturnsInv
<1> SUFFICES ASSUME ExecInit PROVE ReturnsInv
  OBVIOUS
<1>1. ReadsInv /\ Ordered
  BY ReadsInvInit DEF ReadsInv
<1>2. cursor = Begin /\ cursor[1] = 1 /\ Begin \in Position /\ ~allReturn /\ pass = "resolution"
  BY <1>1, OrderFacts DEF ExecInit, Begin, Position
<1>3. ASSUME NEW a \in Node, a # 1 PROVE 1 \notin Below(a)
  BY <1>1, <1>3, BelowFacts, OrderFacts DEF Node
<1>4. trueReturn = [n \in All("if") |-> FALSE]
  BY DEF ExecInit
<1>5. VisitorInv
  BY <1>2, <1>3, <1>4 DEF VisitorInv
<1> QED BY <1>1, <1>2, <1>5 DEF ReturnsInv

LEMMA ReturnsInvStep == ReturnsInv /\ [ExecNext]_execVars => ReturnsInv'
<1> SUFFICES ASSUME ReturnsInv, [ExecNext]_execVars PROVE ReturnsInv'
  OBVIOUS
<1>1. ReadsInv' /\ Ordered /\ VisitorInv /\ TargetsAreLabels /\ pc \in Position
  BY ReadsInvStep DEF ReturnsInv, ReadsInv
<1>2. body' = body
  BY DEF ExecNext, Resolve, Resolution, Enter, Leave, LeaveBody, ResolveJump, CheckDuplicates,
         ClassifyJump, EndResolution, StartTypes, CheckNode, EndTypes, CheckReturns, EndReturns,
         Run, jumpVars, execVars
<1>3. ASSUME UNCHANGED <<cursor, allReturn, trueReturn>> PROVE VisitorInv'
  <2>1. Node' = Node /\ Position' = Position
    BY <1>2, BodyStays
  <2> QED BY <1>1, <1>2, <1>3, <2>1, TreeStays DEF VisitorInv
<1>4. CASE CheckReturns
  <2>1. VisitorInv'
    BY <1>1, <1>4, VisitorStep
  <2>2. pass' # "run"
    BY <1>4 DEF CheckReturns
  <2> QED BY <1>1, <2>1, <2>2 DEF ReturnsInv
<1>5. CASE EndReturns
  <2>1. /\ UNCHANGED <<cursor, allReturn, trueReturn, pc>> /\ cursor = End /\ pc = Begin
    BY <1>5 DEF EndReturns, ReturnsInv, ReadsInv
  <2>2. ASSUME allReturn PROVE \E D \in SUBSET Node : 1 \in D /\ Closed(D) /\ \A m \in D : pc # Out(m)
    <3>1. DeadEnd(1)
      BY <1>1, <2>1, <2>2 DEF VisitorInv, End
    <3>2. \A m : pc # Out(m)
      BY <2>1 DEF Begin, Out
    <3> QED BY <3>1, <3>2 DEF DeadEnd
  <2>3. (allReturn => \E D \in SUBSET Node : 1 \in D /\ Closed(D) /\ \A m \in D : pc # Out(m))'
    BY <1>2, <2>1, <2>2, TreeStays, BodyStays DEF Out
  <2>4. (cursor = End)'
    BY <2>1 DEF End
  <2> QED BY <1>1, <1>3, <2>1, <2>3, <2>4 DEF ReturnsInv
<1>6. CASE Run
  <2>1. /\ pass = "run" /\ cursor = End /\ pc' \in Flow(pc, target)
        /\ UNCHANGED <<cursor, allReturn, trueReturn>>
    BY <1>6 DEF Run, ReturnsInv
  <2>2. ASSUME allReturn PROVE \E D \in SUBSET Node : 1 \in D /\ Closed(D) /\ \A m \in D : pc' # Out(m)
    <3>1. PICK D \in SUBSET Node : 1 \in D /\ Closed(D) /\ \A m \in D : pc # Out(m)
      BY <2>1, <2>2 DEF ReturnsInv
    <3>2. ASSUME NEW m \in D, pc' = Out(m) PROVE FALSE
      <4>1. Out(m) \in Flow(pc, target)
        BY <2>1, <3>2
      <4> QED BY <1>1, <3>1, <4>1, DeadStays
    <3> QED BY <3>1, <3>2
  <2>3. (allReturn => \E D \in SUBSET Node : 1 \in D /\ Closed(D) /\ \A m \in D : pc # Out(m))'
    BY <1>2, <2>1, <2>2, TreeStays, BodyStays DEF Out
  <2>4. (cursor = End)'
    BY <2>1 DEF End
  <2> QED BY <1>1, <1>3, <2>1, <2>3, <2>4 DEF ReturnsInv
<1>7. CASE Resolve \/ StartTypes \/ CheckNode \/ EndTypes
  <2>1. UNCHANGED <<cursor, allReturn, trueReturn>> /\ pass' # "run"
    BY <1>7 DEF Resolve, StartTypes, CheckNode, EndTypes, passVars
  <2> QED BY <1>1, <1>3, <2>1 DEF ReturnsInv
<1>8. CASE UNCHANGED execVars
  <2>1. UNCHANGED <<cursor, allReturn, trueReturn, pc, pass>>
    BY <1>8 DEF execVars, passVars
  <2>2. (pass = "run" =>
           /\ cursor = End
           /\ allReturn => \E D \in SUBSET Node : 1 \in D /\ Closed(D) /\ \A m \in D : pc # Out(m))'
    BY <1>2, <2>1, TreeStays, BodyStays DEF ReturnsInv, End, Out
  <2> QED BY <1>1, <1>3, <2>1, <2>2 DEF ReturnsInv
<1> QED BY <1>4, <1>5, <1>6, <1>7, <1>8 DEF ExecNext

-----------------------------------------------------------------------------
(* The kinds of jumps. *)

\* The labels of a row lead to one another.
LEMMA RowOfLabels ==
  ASSUME Ordered, NEW n \in Node, n # 1, Kind(n) # "expr", NEW l \in LabelsAfter(n)
  PROVE  l \in All("label") /\ Arrives(In(l)) = Arrives(Out(n))
<1> DEFINE Solves(g) ==
             g = [m \in Node |->
                    IF Kind(m) # "label" THEN {}
                    ELSE {m} \cup (IF Follower(m) = 0 THEN {} ELSE g[Follower(m)])]
           Siblings(m) == IF m = 1 THEN {1} ELSE Children(Up(m))
           unbroken(m, x) == \A c \in Siblings(m) : m <= c /\ c <= x => Kind(c) = "label"
           closed == [m \in Node |-> {x \in Siblings(m) : m <= x /\ unbroken(m, x)}]
           row == CHOOSE g : Solves(g)
<1>1. ASSUME NEW m \in Node, Follower(m) # 0
      PROVE  /\ m # 1 /\ Follower(m) \in Node /\ Follower(m) # 1 /\ Up(Follower(m)) = Up(m) /\ Follower(m) > m
             /\ \A c \in Children(Up(m)) : ~ (m < c /\ c < Follower(m))
             /\ Follower(m) \in Children(Up(m))
  <2>1. m # 1 /\ \E c \in Children(Up(m)) : c > m
    BY <1>1 DEF Follower
  <2> QED BY <2>1, NextSibling, ChildFacts, OrderFacts
<1>2. ASSUME NEW m \in Node, Follower(m) = 0 PROVE \A c \in Siblings(m) : ~ (c > m)
  <2>1. CASE m = 1
    BY <2>1
  <2>2. CASE m # 1
    <3>1. ASSUME \E c \in Children(Up(m)) : c > m PROVE FALSE
      <4>1. Follower(m) \in Children(Up(m))
        BY <2>2, <3>1, NextSibling
      <4>2. Follower(m) \in Node /\ 0 \notin Node
        BY <2>2, <4>1, OrderFacts, ChildFacts DEF Node
      <4> QED BY <1>2, <4>2
    <3> QED BY <2>2, <3>1
  <2> QED BY <2>1, <2>2
<1>3. \A m \in Node : m \in Siblings(m) /\ Siblings(m) \subseteq Node
  BY ChildFacts, OrderFacts
<1>4. Solves(closed)
  <2>1. ASSUME NEW m \in Node, Kind(m) # "label" PROVE closed[m] = {}
    BY <1>3, <2>1, OrderFacts
  <2>2. ASSUME NEW m \in Node, Kind(m) = "label", Follower(m) = 0 PROVE closed[m] = {m}
    <3>1. \A x \in Siblings(m) : m <= x <=> x = m
      BY <1>2, <1>3, <2>2, OrderFacts
    <3> QED BY <1>3, <2>2, <3>1
  <2>3. ASSUME NEW m \in Node, Kind(m) = "label", Follower(m) # 0
        PROVE  closed[m] = {m} \cup closed[Follower(m)]
    <3> DEFINE f == Follower(m)
    <3>1. /\ m # 1 /\ f \in Node /\ f # 1 /\ Up(f) = Up(m) /\ f > m
          /\ \A c \in Children(Up(m)) : ~ (m < c /\ c < f)
      BY <1>1, <2>3
    <3> HIDE DEF f
    <3>2. Siblings(f) = Siblings(m) /\ \A c \in Siblings(m) : m <= c <=> c = m \/ f <= c
      BY <1>3, <3>1, OrderFacts
    <3>3. ASSUME NEW x \in Siblings(m) PROVE m <= x /\ unbroken(m, x) <=> x = m \/ (f <= x /\ unbroken(f, x))
      <4>1. CASE x = m
        BY <1>3, <2>3, <3>2, <4>1, OrderFacts
      <4>2. CASE x # m
        <5>1. m <= x <=> f <= x
          BY <3>2, <4>2
        <5>2. f <= x => \A c \in Siblings(m) : m <= c /\ c <= x <=> c = m \/ (f <= c /\ c <= x)
          BY <1>3, <3>1, <3>2, OrderFacts
        <5> QED BY <2>3, <3>2, <4>2, <5>1, <5>2
      <4> QED BY <4>1, <4>2
    <3>4. closed[m] = {m} \cup closed[f]
      BY <1>3, <3>1, <3>2, <3>3
    <3> QED BY <3>4 DEF f
  <2> QED BY <2>1, <2>2, <2>3
<1>5. Solves(row)
  BY <1>4
<1>6. LabelsAfter(n) = IF Follower(n) = 0 THEN {} ELSE row[Follower(n)]
  BY DEF LabelsAfter
<1> HIDE DEF row, closed
<1>7. \A m \in Node : row[m] = IF Kind(m) # "label" THEN {}
                               ELSE {m} \cup (IF Follower(m) = 0 THEN {} ELSE row[Follower(m)])
  BY <1>5
<1> HIDE DEF Solves
<1>8. ASSUME NEW m \in Node, NEW x \in row[m] PROVE x \in All("label") /\ Arrives(In(x)) = Arrives(In(m))
  <2> DEFINE Good(k) == \A y \in row[k] : y \in All("label") /\ Arrives(In(y)) = Arrives(In(k))
             T == {k \in Node : ~Good(k)}
  <2> SUFFICES ASSUME T # {} PROVE FALSE
    BY <1>8
  <2>1. PICK k \in T : \A y \in T : y <= k
    <3>1. T \subseteq Node
      OBVIOUS
    <3> HIDE DEF T
    <3> QED BY <3>1, GreatestNode
  <2>2. k \in Node /\ ~Good(k)
    OBVIOUS
  <2> HIDE DEF T
  <2>3. Kind(k) = "label"
    BY <1>7, <2>2
  <2>4. Follower(k) # 0
    BY <1>7, <2>2, <2>3 DEF All
  <2> DEFINE f == Follower(k)
  <2>5. row[k] = {k} \cup row[f]
    BY <1>7, <2>2, <2>3, <2>4
  <2>6. f \in Node /\ f > k
    BY <1>1, <2>2, <2>4
  <2>7. Good(f)
    <3>1. ~ (f <= k)
      BY <2>2, <2>6, OrderFacts
    <3> QED BY <2>1, <2>6, <3>1 DEF T
  <2>8. Kind(f) = "label" => Arrives(In(f)) = Arrives(In(k))
    BY <2>2, <2>3, <2>4, NextLabel, ArrivesLabel
  <2>9. Kind(f) # "label" => row[f] = {}
    BY <1>7, <2>6
  <2>10. k \in All("label")
    BY <2>2, <2>3 DEF All
  <2> QED BY <2>2, <2>5, <2>7, <2>8, <2>9, <2>10
<1>9. Follower(n) # 0 /\ l \in row[Follower(n)]
  BY <1>6
<1>10. Follower(n) \in Node
  BY <1>1, <1>9
<1>11. Kind(Follower(n)) = "label"
  BY <1>7, <1>9, <1>10
<1>12. Arrives(Out(n)) = Arrives(In(Follower(n)))
  BY <1>9, <1>11, NextLabel
<1> QED BY <1>8, <1>9, <1>10, <1>12


\* Where no statement but labels follows up to its loop, a label leads where
\* the loop goes after its statement.
LEMMA LastLeadsBack ==
  ASSUME Ordered, NEW l \in All("label"), NEW loop, loop = InnermostLoop(l), loop # 0, LastInLoop(l, loop)
  PROVE  Arrives(In(l)) = Arrives(BackEdge(loop))
<1> DEFINE path == {l} \cup {a \in Above[l] : a > loop}
           T == {n \in path : Arrives(Out(n)) # Arrives(BackEdge(loop))}
           around == {a \in Above[l] : Kind(a) \in Loops}
<1>1. l \in Node /\ Kind(l) = "label" /\ Above[l] \subseteq Node
  BY AboveFacts DEF All
<1>2. loop \in around /\ \A a \in around : a <= loop
  <2>1. around \subseteq Node /\ loop = Innermost(around)
    BY <1>1 DEF InnermostLoop
  <2>2. around # {}
    BY <2>1 DEF Innermost
  <2> HIDE DEF around
  <2> QED BY <2>1, <2>2, InnermostLast
<1>3. loop \in Node /\ loop \in Above[l] /\ Kind(loop) \in Loops /\ loop < l
  BY <1>1, <1>2, AboveFacts
<1>4. \A n \in path : n \in Node /\ n # 1 /\ n > loop
  BY <1>1, <1>3, OrderFacts
<1>5. ASSUME NEW n \in path PROVE Up(n) = loop \/ (Up(n) \in path /\ Kind(Up(n)) \notin Loops)
  <2>1. n \in Node /\ n # 1 /\ n > loop
    BY <1>4
  <2>2. Up(n) \in Above[l] /\ Up(n) \in Node
    <3>1. CASE n = l
      BY <1>1, <2>1, <3>1, AboveUp
    <3>2. CASE n \in Above[l]
      <4>1. Up(n) \in Above[n] /\ Up(n) \in Node /\ l \in Below(n) /\ n \in Node /\ n < l
        BY <1>1, <2>1, <3>2, AboveUp, AboveFacts, OrderFacts
      <4>2. Up(n) < n /\ n \in Below(Up(n))
        BY <4>1, AboveFacts
      <4>3. l \in Below(Up(n)) /\ Up(n) < l
        BY <1>1, <4>1, <4>2, BelowTransitive, OrderFacts
      <4> QED BY <1>1, <4>1, <4>3, AboveFacts
    <3> QED BY <3>1, <3>2
  <2>3. Up(n) >= loop
    <3>1. n \in Below(loop)
      <4>1. CASE n = l
        BY <1>1, <1>3, <4>1, AboveFacts
      <4>2. CASE n # l
        <5>1. n \in Above[l] /\ n < l /\ loop <= n /\ l \in Below(loop)
          BY <1>1, <1>3, <2>1, <4>2, AboveFacts, OrderFacts
        <5> QED BY <1>1, <1>3, <2>1, <5>1, BelowPrefix, OrderFacts
      <4> QED BY <4>1, <4>2
    <3>2. n # loop
      BY <1>3, <2>1, OrderFacts
    <3> QED BY <1>3, <3>1, <3>2, UpBelow
  <2>4. CASE Up(n) = loop
    BY <2>4
  <2>5. CASE Up(n) # loop
    <3>1. Up(n) > loop
      BY <1>3, <2>2, <2>3, <2>5, OrderFacts
    <3>2. Kind(Up(n)) \notin Loops
      BY <1>2, <1>3, <2>2, <3>1, OrderFacts
    <3> QED BY <2>2, <3>1, <3>2
  <2> QED BY <2>4, <2>5
<1>6. ASSUME NEW n \in path PROVE Kind(n) # "expr"
  <2>1. CASE n = l
    BY <1>1, <2>1
  <2>2. CASE n \in Above[l]
    <3>1. \E c \in Children(n) : l \in Below(c)
      BY <1>1, <2>2, ChildTowards
    <3> QED BY <1>1, <2>2, <3>1, PlainFacts
  <2> QED BY <2>1, <2>2
<1>7. \A n \in path : \A c \in Children(Up(n)) : c > n => Kind(c) = "label" \/ Bare(c)
  BY DEF LastInLoop
<1> HIDE DEF path
<1>8. T = {}
  <2> SUFFICES ASSUME T # {} PROVE FALSE
    OBVIOUS
  <2>1. PICK n \in T : \A m \in T : n <= m
    <3>1. T \subseteq Nat
      BY <1>4, OrderFacts
    <3> HIDE DEF T
    <3> QED BY <3>1, LeastExists
  <2>2. n \in path /\ n \in Node /\ n # 1 /\ Kind(n) # "expr" /\ Up(n) \in Node /\ Up(n) < n
    BY <1>4, <1>6, OrderFacts
  <2>3. CASE Up(n) = loop
    <3>1. Leaving(n) = {BackEdge(loop)}
      BY <1>3, <2>2, <2>3, WayOut
    <3> QED BY <2>2, <3>1, ArrivesOut
  <2>4. CASE Up(n) # loop
    <3>1. Up(n) \in path /\ Kind(Up(n)) \notin Loops
      BY <1>5, <2>2, <2>4
    <3>2. Arrives(Out(Up(n))) = Arrives(BackEdge(loop))
      <4>1. Up(n) \notin T
        BY <2>1, <2>2, OrderFacts
      <4> QED BY <3>1, <4>1
    <3>3. Arrives(Out(n)) = Arrives(Out(Up(n)))
      <4>1. CASE Kind(Up(n)) = "if"
        BY <2>2, <4>1, WayOut, ArrivesOut
      <4>2. CASE Kind(Up(n)) # "if"
        <5>1. \A c \in Children(Up(n)) : c > n => Kind(c) = "label"
          <6>1. \A c \in Children(Up(n)) : ~Bare(c)
            BY <2>2, <3>1, ChildFacts DEF Bare, Loops
          <6> QED BY <1>7, <2>2, <6>1
        <5> QED BY <2>2, <3>1, <4>2, <5>1, OnlyLabels
      <4> QED BY <4>1, <4>2
    <3> QED BY <2>2, <3>2, <3>3
  <2> QED BY <2>3, <2>4
<1>9. Arrives(Out(l)) = Arrives(BackEdge(loop))
  BY <1>8 DEF path
<1> QED BY <1>1, <1>9, ArrivesLabel


\* What the visitor remembers of loops is right where it is not 0.
LoopsAround(position) == {a \in Inside(position) : Kind(a) \in Loops}
LoopKept == phase = "walk" /\ currentLoop # 0 => currentLoop = Innermost(LoopsAround(at))
LoopsRemembered ==
  /\ DOMAIN enclosing = All("label") \cup All("jump")
  /\ \A n \in All("label") \cup All("jump") : enclosing[n] # 0 => enclosing[n] = InnermostLoop(n)

\* The grounds on which a jump is taken for a `break` or a `continue`.
Breaks(j) == InnermostLoop(j) # 0 /\ target[j] \in LabelsAfter(InnermostLoop(j))
Continues(j) ==
  /\ InnermostLoop(j) # 0 /\ target[j] \in All("label")
  /\ InnermostLoop(target[j]) = InnermostLoop(j) /\ LastInLoop(target[j], InnermostLoop(j))
KindsGrounded ==
  /\ \A j \in breakLike : j \in All("jump") /\ Breaks(j)
  /\ \A j \in continueLike : j \in All("jump") /\ Continues(j)

KindsInv == LoopKept /\ LoopsRemembered /\ KindsGrounded

LEMMA LoopsStay ==
  ASSUME body' = body
  PROVE  /\ \A n : InnermostLoop(n)' = InnermostLoop(n) /\ LabelsAfter(n)' = LabelsAfter(n)
         /\ \A l, loop : LastInLoop(l, loop)' <=> LastInLoop(l, loop)
         /\ \A p : LoopsAround(p)' = LoopsAround(p)
<1>1. /\ Node' = Node /\ Above' = Above
      /\ \A n : Kind(n)' = Kind(n) /\ Up(n)' = Up(n) /\ Children(n)' = Children(n) /\ Place(n)' = Place(n)
  BY DEF Node, Above, Kind, Up, Children, Place
<1>2. \A n : InnermostLoop(n)' = InnermostLoop(n)
  BY DEF InnermostLoop, Innermost, Above, Node, Kind
<1>3. \A n : LabelsAfter(n)' = LabelsAfter(n)
  BY DEF LabelsAfter, Follower, Children, Up, Place, Node, Kind
<1>4. \A l, loop : LastInLoop(l, loop)' <=> LastInLoop(l, loop)
  BY <1>1 DEF LastInLoop, Bare
<1>5. \A p : LoopsAround(p)' = LoopsAround(p)
  BY <1>1 DEF LoopsAround, Inside, Met, Before, Below
<1> QED BY <1>2, <1>3, <1>4, <1>5

\* In a step that leaves what is concluded about jumps alone, it stays right.
LEMMA GroundsStay ==
  ASSUME KindsGrounded, UNCHANGED <<body, target, breakLike, continueLike>>
  PROVE  KindsGrounded'
BY LoopsStay, BodyStays DEF KindsGrounded, Breaks, Continues

LEMMA KindsInvInit == JumpInit => KindsInv
BY DEF JumpInit, KindsInv, LoopKept, LoopsRemembered, KindsGrounded

LEMMA LoopsAtNode ==
  ASSUME Ordered, NEW n \in Node
  PROVE  /\ Innermost(LoopsAround(In(n))) = InnermostLoop(n)
         /\ Kind(n) \in Loops => Innermost(LoopsAround(Descend(n))) = n
         /\ Kind(n) \notin Loops => LoopsAround(Descend(n)) = LoopsAround(In(n))
         /\ n # 1 /\ Kind(n) \notin Loops => LoopsAround(Onward(n)) = LoopsAround(Out(n))
<1>1. Inside(In(n)) = Above[n] /\ Inside(Descend(n)) = Above[n] \cup {n}
  BY InsideIn, InsideDescend
<1>2. LoopsAround(In(n)) = {a \in Above[n] : Kind(a) \in Loops}
  BY <1>1 DEF LoopsAround
<1>3. Innermost(LoopsAround(In(n))) = InnermostLoop(n)
  BY <1>2 DEF InnermostLoop
<1>4. ASSUME Kind(n) \in Loops PROVE Innermost(LoopsAround(Descend(n))) = n
  <2>1. n \in LoopsAround(Descend(n)) /\ LoopsAround(Descend(n)) \subseteq Above[n] \cup {n}
    BY <1>1, <1>4 DEF LoopsAround
  <2>2. LoopsAround(Descend(n)) \subseteq Node /\ \A a \in LoopsAround(Descend(n)) : a <= n
    BY <2>1, AboveFacts, OrderFacts
  <2> QED BY <2>1, <2>2, InnermostGreatest
<1>5. Kind(n) \notin Loops => LoopsAround(Descend(n)) = LoopsAround(In(n))
  BY <1>1 DEF LoopsAround
<1>6. n # 1 /\ Kind(n) \notin Loops => LoopsAround(Onward(n)) = LoopsAround(Out(n))
  <2> SUFFICES ASSUME n # 1, Kind(n) \notin Loops PROVE LoopsAround(Onward(n)) = LoopsAround(Out(n))
    OBVIOUS
  <2>1. Inside(Onward(n)) = Inside(Out(n)) \ {n}
    BY InsideOnward
  <2> QED BY <2>1 DEF LoopsAround
<1> QED BY <1>3, <1>4, <1>5, <1>6

LEMMA KindsInvStep ==
  JumpInv /\ TargetsAreLabels /\ KindsInv /\ [Resolution]_jumpVars => KindsInv'
<1> SUFFICES ASSUME JumpInv, TargetsAreLabels, KindsInv, [Resolution]_jumpVars PROVE KindsInv'
  OBVIOUS
<1>1. /\ Ordered /\ pending \in Seq(All("jump")) /\ Len(pending) \in Nat /\ done \in Nat
      /\ LoopKept /\ LoopsRemembered /\ KindsGrounded
  BY DEF JumpInv, JumpTypes, KindsInv
<1>2. ASSUME UNCHANGED <<body, enclosing>> PROVE LoopsRemembered'
  BY <1>1, <1>2, LoopsStay, BodyStays DEF LoopsRemembered
<1>3. ASSUME NEW n \in Node, Enter(n) PROVE KindsInv'
  <2>1. /\ phase = "walk" /\ at = In(n) /\ at' = Descend(n)
        /\ UNCHANGED <<body, phase, target, breakLike, continueLike>>
    BY <1>3 DEF Enter
  <2>2. currentLoop # 0 => currentLoop = InnermostLoop(n) /\ currentLoop = Innermost(LoopsAround(In(n)))
    BY <1>1, <2>1, LoopsAtNode DEF LoopKept
  <2>3. LoopKept'
    <3> DEFINE to == Descend(n)
    <3>1. LoopsAround(at)' = LoopsAround(to)
      BY <2>1 DEF LoopsAround, Inside, Met, Before, Below, Node, Kind
    <3>2. currentLoop' # 0 => currentLoop' = Innermost(LoopsAround(to))
      <4>1. CASE Kind(n) \in Loops
        <5>1. currentLoop' = n
          BY <1>3, <4>1 DEF Enter, EnterLoop, VisitLabel, VisitJump, VisitOther, Loops
        <5> QED BY <1>1, <4>1, <5>1, LoopsAtNode
      <4>2. CASE Kind(n) \notin Loops
        <5>1. currentLoop' = currentLoop
          BY <1>3, <4>2 DEF Enter, EnterLoop, VisitLabel, VisitJump, VisitOther
        <5>2. LoopsAround(to) = LoopsAround(In(n))
          BY <1>1, <4>2, LoopsAtNode
        <5> QED BY <2>2, <5>1, <5>2
      <4> QED BY <4>1, <4>2
    <3> HIDE DEF to
    <3>3. Innermost(LoopsAround(at))' = Innermost(LoopsAround(to))
      BY <3>1 DEF Innermost
    <3> QED BY <3>2, <3>3 DEF LoopKept
  <2>4. LoopsRemembered'
    <3>1. CASE enclosing' = enclosing
      BY <1>2, <2>1, <3>1
    <3>2. CASE enclosing' = [enclosing EXCEPT ![n] = currentLoop]
      BY <1>1, <2>1, <2>2, <3>2, LoopsStay, BodyStays DEF LoopsRemembered
    <3> QED BY <1>3, <3>1, <3>2 DEF Enter, EnterLoop, VisitLabel, VisitJump, VisitOther
  <2> QED BY <1>1, <2>1, <2>3, <2>4, GroundsStay DEF KindsInv
<1>4. ASSUME NEW n \in Node, Leave(n) PROVE KindsInv'
  <2>1. /\ phase = "walk" /\ at = Out(n) /\ n # 1 /\ at' = Onward(n)
        /\ currentLoop' = IF Kind(n) \in Loops THEN 0 ELSE currentLoop
        /\ UNCHANGED <<body, phase, enclosing, target, breakLike, continueLike>>
    BY <1>4 DEF Leave, AfterLoop
  <2>2. LoopKept'
    <3> DEFINE to == Onward(n)
    <3>1. LoopsAround(at)' = LoopsAround(to)
      BY <2>1 DEF LoopsAround, Inside, Met, Before, Below, Node, Kind
    <3>2. ASSUME Kind(n) \notin Loops PROVE LoopsAround(to) = LoopsAround(at)
      BY <1>1, <2>1, <3>2, LoopsAtNode
    <3> HIDE DEF to
    <3>3. Innermost(LoopsAround(at))' = Innermost(LoopsAround(to))
      BY <3>1 DEF Innermost
    <3> QED BY <1>1, <2>1, <3>2, <3>3 DEF LoopKept
  <2> QED BY <1>1, <1>2, <2>1, <2>2, GroundsStay DEF KindsInv
<1>5. ASSUME phase' # "walk", UNCHANGED <<body, enclosing>>, KindsGrounded' PROVE KindsInv'
  BY <1>2, <1>5 DEF KindsInv, LoopKept
<1>6. CASE LeaveBody
  BY <1>1, <1>5, <1>6, GroundsStay DEF LeaveBody
<1>7. CASE ResolveJump
  <2>1. phase = "resolve" /\ UNCHANGED <<body, phase, enclosing, breakLike, continueLike>>
    BY <1>7 DEF ResolveJump
  <2>2. breakLike' = {} /\ continueLike' = {}
    BY <2>1 DEF JumpInv, KindsInOrder
  <2>3. KindsGrounded'
    BY <2>2 DEF KindsGrounded
  <2> QED BY <1>5, <2>1, <2>3
<1>8. CASE CheckDuplicates
  <2>1. phase' \in {"resolved", "classify"} /\ UNCHANGED <<body, enclosing, target, breakLike, continueLike>>
    BY <1>8 DEF CheckDuplicates
  <2> QED BY <1>1, <1>5, <2>1, GroundsStay
<1>9. CASE ClassifyJump
  <2> DEFINE j == pending[done + 1]
             l == target[j]
             loop == enclosing[j]
             break == loop # 0 /\ l \in LabelsAfter(loop)
             continue == loop # 0 /\ ~break /\ enclosing[l] = loop /\ LastInLoop(l, loop)
  <2>1. /\ phase = "classify" /\ done < Len(pending) /\ UNCHANGED <<body, phase, enclosing, target>>
        /\ \/ breakLike' = breakLike
           \/ l # 0 /\ break /\ breakLike' = breakLike \cup {j}
        /\ \/ continueLike' = continueLike
           \/ l # 0 /\ continue /\ continueLike' = continueLike \cup {j}
    BY <1>9 DEF ClassifyJump
  <2>2. j \in All("jump")
    BY <1>1, <2>1
  <2> HIDE DEF j
  <2>3. l # 0 => l \in All("label")
    BY <2>2 DEF TargetsAreLabels
  <2>4. loop # 0 => loop = InnermostLoop(j)
    BY <1>1, <2>2 DEF LoopsRemembered
  <2>5. break => Breaks(j)
    BY <2>4 DEF Breaks
  <2>6. l # 0 /\ continue => Continues(j)
    <3> SUFFICES ASSUME l # 0, continue PROVE Continues(j)
      OBVIOUS
    <3>1. enclosing[l] # 0 /\ enclosing[l] = InnermostLoop(l)
      BY <1>1, <2>3 DEF LoopsRemembered
    <3> QED BY <2>3, <2>4, <3>1 DEF Continues
  <2> HIDE DEF l, loop, break, continue
  <2>7. (\A i \in breakLike' : i \in All("jump") /\ Breaks(i)) /\ (\A i \in continueLike' : i \in All("jump") /\ Continues(i))
    BY <1>1, <2>1, <2>2, <2>5, <2>6 DEF KindsGrounded
  <2>8. KindsGrounded'
    BY <2>1, <2>7, LoopsStay, BodyStays DEF KindsGrounded, Breaks, Continues
  <2> QED BY <1>5, <2>1, <2>8
<1>10. CASE EndResolution
  BY <1>1, <1>5, <1>10, GroundsStay DEF EndResolution
<1>11. CASE UNCHANGED jumpVars
  <2>1. UNCHANGED <<body, phase, at, currentLoop, enclosing, target, breakLike, continueLike>>
    BY <1>11 DEF jumpVars
  <2>2. LoopsAround(at)' = LoopsAround(at)
    BY <2>1 DEF LoopsAround, Inside, Met, Before, Below, Node, Kind
  <2>3. Innermost(LoopsAround(at))' = Innermost(LoopsAround(at))
    BY <2>2 DEF Innermost
  <2>4. LoopKept'
    BY <1>1, <2>1, <2>3 DEF LoopKept
  <2> QED BY <1>1, <1>2, <2>1, <2>4, GroundsStay DEF KindsInv
<1> QED BY <1>3, <1>4, <1>6, <1>7, <1>8, <1>9, <1>10, <1>11 DEF Resolution

-----------------------------------------------------------------------------
(* The theorems. *)

\* The compiler's passes over a body and the program it is are steps of module
\* Execution, whatever is emitted.
LEMMA LsoStep == LsoNext => [ExecNext]_execVars
BY DEF LsoNext, Passes, StartEmitting, Open, Close, Finish, Execute

LEMMA LsoImplementsExec == LsoSpec => ExecSpec
<1>1. LsoInit => ExecInit
  BY DEF LsoInit
<1>2. [LsoNext]_lsoVars => [ExecNext]_execVars
  BY LsoStep DEF lsoVars
<1> QED BY <1>1, <1>2, PTL DEF LsoSpec, ExecSpec

\* Of every body: a function that resolvePendingJumps does not mark as having
\* unstructured jumps has only jumps that are a `break` or a `continue` and
\* not both.
THEOREM StructuredHasNoOther == LsoSpec => []StructuredIsClassified
<1>1. ExecInit => JumpInv
  BY JumpInvInit DEF ExecInit
<1>2. JumpInv /\ [ExecNext]_execVars => JumpInv'
  <2> SUFFICES ASSUME JumpInv, [ExecNext]_execVars PROVE JumpInv'
    OBVIOUS
  <2>1. [Resolution]_jumpVars
    BY DEF ExecNext, Resolve, StartTypes, CheckNode, EndTypes, CheckReturns, EndReturns, Run,
           execVars
  <2> QED BY <2>1, JumpInvStep
<1>3. JumpInv => StructuredIsClassified
  <2> SUFFICES ASSUME JumpInv, phase = "resolved", ~unstructured, NEW j \in All("jump")
               PROVE  target[j] # 0 => (j \in breakLike) # (j \in continueLike)
    BY DEF StructuredIsClassified
  <2>1. j \in Listed
    BY DEF JumpInv, PendingMet, All
  <2>2. OneKind(j)
    BY <2>1 DEF JumpInv, KindsInOrder, Listed
  <2> QED BY <2>2 DEF OneKind
<1> QED BY <1>1, <1>2, <1>3, LsoImplementsExec, PTL DEF ExecSpec

\* Of every body: a jump taken for a `break` arrives where the program arrives
\* when it leaves the innermost loop around it, and one taken for a `continue`
\* where that loop goes after its statement.
THEOREM JumpKindsAreRight == LsoSpec => []JumpKindsHold
<1> DEFINE Inv == JumpInv /\ ReadsInv /\ KindsInv
<1>1. ExecInit => Inv
  BY JumpInvInit, ReadsInvInit, KindsInvInit DEF ExecInit
<1>2. Inv /\ [ExecNext]_execVars => Inv'
  <2> SUFFICES ASSUME Inv, [ExecNext]_execVars PROVE Inv'
    OBVIOUS
  <2>1. [Resolution]_jumpVars
    BY DEF ExecNext, Resolve, StartTypes, CheckNode, EndTypes, CheckReturns, EndReturns, Run,
           execVars
  <2> QED BY <2>1, JumpInvStep, ReadsInvStep, KindsInvStep DEF ReadsInv
<1>3. Inv => JumpKindsHold
  <2> SUFFICES ASSUME Inv PROVE JumpKindsHold
    OBVIOUS
  <2>1. Ordered /\ KindsGrounded
    BY DEF ReadsInv, KindsInv
  <2>2. ASSUME NEW j \in All("jump"), InnermostLoop(j) # 0
        PROVE  InnermostLoop(j) \in Node /\ Kind(InnermostLoop(j)) \in Loops
    <3> DEFINE around == {a \in Above[j] : Kind(a) \in Loops}
    <3>1. around \subseteq Node /\ InnermostLoop(j) = Innermost(around)
      BY <2>1, AboveFacts DEF All, InnermostLoop
    <3>2. around # {}
      BY <2>2, <3>1 DEF Innermost
    <3>3. InnermostLoop(j) \in around
      <4> HIDE DEF around
      <4> QED BY <2>1, <3>1, <3>2, InnermostIn
    <3> QED BY <3>1, <3>3
  <2>3. ASSUME NEW j \in breakLike PROVE Arrives(In(target[j])) = Arrives(Out(InnermostLoop(j)))
    <3> DEFINE loop == InnermostLoop(j)
    <3>1. j \in All("jump") /\ loop # 0 /\ target[j] \in LabelsAfter(loop)
      BY <2>1 DEF KindsGrounded, Breaks
    <3>2. loop \in Node /\ Kind(loop) # "expr"
      BY <2>2, <3>1 DEF Loops
    <3>3. loop # 1
      BY <3>1 DEF LabelsAfter, Follower
    <3> HIDE DEF loop
    <3> QED BY <2>1, <3>1, <3>2, <3>3, RowOfLabels DEF loop
  <2>4. ASSUME NEW j \in continueLike PROVE Arrives(In(target[j])) = Arrives(BackEdge(InnermostLoop(j)))
    BY <2>1, LastLeadsBack DEF KindsGrounded, Continues
  <2> QED BY <2>3, <2>4 DEF JumpKindsHold, BreakLikeBreaks, ContinueLikeContinues
<1> QED BY <1>1, <1>2, <1>3, LsoImplementsExec, PTL DEF ExecSpec

\* Of every body: when control comes to a read that TypeCheckVisitor marks as
\* foldable and no loop leads back to from a label behind it, the declaration
\* has been executed.
THEOREM StraightReadsAreInitialized == LsoSpec => []StraightReadsSeeInitializer
<1>1. ReadsInv => StraightReadsSeeInitializer
  <2> SUFFICES ASSUME ReadsInv, NEW n \in foldable, ~ComesBack(n), pass = "run", pc = In(n)
               PROVE  Reads(n) \in initialized
    BY DEF StraightReadsSeeInitializer
  <2>1. ReadAfter(n)
    BY DEF ReadsInv
  <2>2. Comes(n, pc)
    BY <2>1, ReadFacts
  <2> QED BY <2>2 DEF ReadsInv
<1> QED BY <1>1, ReadsInvInit, ReadsInvStep, LsoImplementsExec, PTL DEF ExecSpec

\* Of every body: when AllPathsReturnVisitor finds that all its paths return,
\* and the compilers leave out the return at its end, no run comes to its end.
THEOREM ReturningBodiesReturn == LsoSpec => []ReturnsEverywhere
<1>1. ReturnsInv => ReturnsEverywhere
  BY DEF ReturnsInv, ReturnsEverywhere, End, Out
<1> QED BY <1>1, ReturnsInvInit, ReturnsInvStep, LsoImplementsExec, PTL DEF ExecSpec
=============================================================================
