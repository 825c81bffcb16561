---------------------------- MODULE LsoMeaningProofs ----------------------------
(***************************************************************************)
(* Proofs about module LsoCode, for every body: the code does what the     *)
(* body does.  The emission is a picture of the body, in which every       *)
(* position has a place; when the last jumps are patched, each place leads *)
(* where the body goes on from its position; and the machine keeps up with *)
(* the body from place to place.                                           *)
(***************************************************************************)
EXTENDS LsoCodeProofs

-----------------------------------------------------------------------------
(* The order of the emission: what is emitted before the visitor comes to a *)
(* position.                                                               *)

LEMMA BelowUp ==
  ASSUME Ordered, NEW n \in Node, n # 1, NEW x \in Node
  PROVE  n \in Below(x) <=> n = x \/ Up(n) \in Below(x)
<1>1. Up(n) \in Node /\ n \in Children(Up(n)) /\ n \in Below(Up(n))
  BY OrderFacts, ChildFacts, ChildBelow
<1>2. n \in Below(x) /\ n # x => Up(n) \in Below(x)
  BY UpBelow
<1>3. Up(n) \in Below(x) => n \in Below(x)
  BY <1>1, BelowTransitive
<1> QED BY <1>2, <1>3, SelfBelow

LEMMA BelowGreater ==
  ASSUME Ordered, NEW n \in Node, NEW m \in Below(n)
  PROVE  n <= m
BY BelowFacts DEF Below

LEMMA Childless ==
  ASSUME Ordered, NEW n \in Node, Children(n) = {}
  PROVE  Below(n) = {n}
<1>1. Descend(n) = Out(n)
  BY DEF Descend
<1>2. Before(n) \cup Below(n) = Before(n) \cup {n}
  BY <1>1, DescendMeets DEF Met, Out
<1>3. ASSUME NEW m \in Below(n) PROVE m = n
  <2>1. n <= m /\ m \in Node
    BY BelowGreater DEF Below
  <2>2. m \notin Before(n)
    BY <2>1, OrderFacts DEF Before
  <2> QED BY <1>2, <2>2
<1> QED BY <1>3, SelfBelow

\* The increments of a `for`, which are emitted behind its statement.
Late(n) == n # 1 /\ Kind(Up(n)) = "for" /\ Place(n) = 3

LEMMA PartsOfFor ==
  ASSUME Ordered, NEW p \in Node, Kind(p) = "for"
  PROVE  /\ \A i \in 1 .. 4 : Child(p, i) \in Children(p) /\ Place(Child(p, i)) = i
         /\ Late(Child(p, 3))
<1>1. ASSUME NEW i \in 1 .. 4 PROVE Child(p, i) \in Children(p) /\ Place(Child(p, i)) = i
  <2>1. i \in {1, 2} \/ i \in {3, 4}
    BY <1>1
  <2> QED BY <1>1, <2>1, PartsOfStatement DEF Loops
<1>2. Late(Child(p, 3))
  <2>1. Child(p, 3) \in Children(p) /\ Place(Child(p, 3)) = 3
    BY <1>1
  <2> QED BY <2>1, ChildFacts DEF Late
<1> QED BY <1>1, <1>2

LEMMA PlaceIsNatural ==
  ASSUME Ordered, NEW p \in Node, NEW c \in Children(p)
  PROVE  Place(c) \in Nat /\ c \in Nat
<1>1. Place(c) \in Nat
  BY PlaceFacts
<1> QED BY <1>1, ChildFacts, OrderFacts

LEMMA PlacesOrder ==
  ASSUME Ordered, NEW p \in Node, NEW c \in Children(p), NEW d \in Children(p), Place(c) < Place(d)
  PROVE  c < d
<1>1. c \in Nat /\ d \in Nat /\ Place(c) \in Nat /\ Place(d) \in Nat
  BY PlaceIsNatural
<1>2. c # d /\ ~ (d < c)
  BY <1>1, PlacesInOrder
<1> QED BY <1>1, <1>2

LEMMA NextPart ==
  ASSUME Ordered, NEW p \in Node, NEW c \in Children(p), NEW d \in Children(p), Place(d) = Place(c) + 1
  PROVE  Follower(c) = d /\ Before(d) = Before(c) \cup Below(c)
<1>1. c \in Node /\ c # 1 /\ Up(c) = p /\ Place(c) \in Nat
  BY ChildFacts, PlaceIsNatural
<1>2. c < d
  BY <1>1, PlacesOrder
<1>3. Follower(c) \in Children(p) /\ Place(Follower(c)) = Place(d)
  BY <1>1, <1>2, NextSibling
<1>4. Follower(c) = d
  <2>1. Child(p, Place(d)) = d /\ Child(p, Place(d)) = Follower(c)
    BY <1>3, ChildUnique
  <2> QED BY <2>1
<1> QED BY <1>1, <1>2, <1>4, FollowerMeets

LEMMA LateFacts ==
  ASSUME Ordered, NEW n \in Node, Late(n)
  PROVE  /\ Kind(n) = "expr" /\ Children(n) = {} /\ Below(n) = {n} /\ ~Condition(n)
         /\ Child(Up(n), 4) \in Node /\ Child(Up(n), 4) \in Children(Up(n)) /\ Place(Child(Up(n), 4)) = 4
         /\ n < Child(Up(n), 4) /\ n \notin Below(Child(Up(n), 4))
<1> DEFINE p == Up(n)
<1>1. p \in Node /\ n \in Children(p) /\ Kind(p) = "for" /\ Place(n) = 3 /\ n # 1
  BY OrderFacts, ChildFacts DEF Late
<1>2. Child(p, 4) \in Children(p) /\ Place(Child(p, 4)) = 4 /\ Child(p, 4) \in Node
  BY <1>1, PartsOfFor, ChildFacts
<1>3. n < Child(p, 4)
  BY <1>1, <1>2, PlacesOrder
<1>4. n \notin Below(Child(p, 4))
  BY <1>2, <1>3, BelowGreater, OrderFacts
<1>5. Kind(n) = "expr"
  BY <1>1, PlainFacts DEF Loops, StatementPlace
<1>6. Children(n) = {} /\ Below(n) = {n}
  BY <1>5, PlainFacts, Childless
<1>7. ~Condition(n)
  BY <1>1 DEF Condition
<1> QED BY <1>2, <1>3, <1>4, <1>5, <1>6, <1>7

\* What is emitted later than it stands in the body, around n.
Skipped(n) == {m \in Node : Late(m) /\ n \in Below(Child(Up(m), 4))}

\* The nodes whose emission has begun when the visitor comes to q.
EmitMet(q) ==
  (Met(q) \cup (IF Late(q[1]) THEN Below(Child(Up(q[1]), 4)) ELSE {})) \ Skipped(q[1])

\* Nothing but increments is met out of turn: from behind a loop's condition to the
\* end of its statement they are left out.
LEMMA SkippedFacts ==
  ASSUME Ordered, NEW n \in Node
  PROVE  /\ n \notin Skipped(n)
         /\ n # 1 /\ ~ (Kind(Up(n)) = "for" /\ Place(n) = 4) => Skipped(n) = Skipped(Up(n))
         /\ n # 1 /\ Kind(Up(n)) = "for" /\ Place(n) = 4 =>
              Skipped(n) = Skipped(Up(n)) \cup {Child(Up(n), 3)}
<1>1. n \notin Skipped(n)
  BY LateFacts DEF Skipped
<1>2. \A m : m \in Skipped(n) <=> m \in Node /\ Late(m) /\ n \in Below(Child(Up(m), 4))
  BY DEF Skipped
<1>3. ASSUME n # 1, NEW m \in Node, Late(m)
      PROVE  n \in Below(Child(Up(m), 4)) <=> n = Child(Up(m), 4) \/ Up(n) \in Below(Child(Up(m), 4))
  BY <1>3, LateFacts, BelowUp
<1>4. ASSUME n # 1, ~ (Kind(Up(n)) = "for" /\ Place(n) = 4) PROVE Skipped(n) = Skipped(Up(n))
  <2>1. ASSUME NEW m \in Node, Late(m) PROVE n # Child(Up(m), 4)
    <3>1. Child(Up(m), 4) \in Children(Up(m)) /\ Place(Child(Up(m), 4)) = 4 /\ Up(m) \in Node /\ Kind(Up(m)) = "for"
      BY <2>1, LateFacts, OrderFacts DEF Late
    <3> QED BY <1>4, <3>1, ChildFacts
  <2> QED BY <1>3, <1>4, <2>1 DEF Skipped
<1>5. ASSUME n # 1, Kind(Up(n)) = "for", Place(n) = 4
      PROVE  Skipped(n) = Skipped(Up(n)) \cup {Child(Up(n), 3)}
  <2> DEFINE p == Up(n)
  <2>1. p \in Node /\ n \in Children(p)
    BY <1>5, OrderFacts, ChildFacts
  <2>2. Child(p, 3) \in Children(p) /\ Place(Child(p, 3)) = 3 /\ Late(Child(p, 3)) /\ Child(p, 4) = n
    BY <1>5, <2>1, PartsOfFor, ChildUnique
  <2>3. Child(p, 3) \in Node /\ Up(Child(p, 3)) = p
    BY <2>1, <2>2, ChildFacts
  <2>4. ASSUME NEW m \in Node, Late(m) PROVE n = Child(Up(m), 4) <=> m = Child(p, 3)
    <3>1. Child(Up(m), 4) \in Children(Up(m)) /\ Up(m) \in Node /\ m \in Children(Up(m)) /\ Place(m) = 3
      BY <2>4, LateFacts, OrderFacts, ChildFacts DEF Late
    <3>2. n = Child(Up(m), 4) => Up(m) = p
      BY <3>1, ChildFacts
    <3>3. Up(m) = p => m = Child(p, 3)
      BY <3>1, ChildUnique
    <3>4. m = Child(p, 3) => Up(m) = p
      BY <2>3
    <3> QED BY <2>2, <3>2, <3>3, <3>4
  <2> QED BY <1>3, <1>5, <2>2, <2>3, <2>4 DEF Skipped
<1> QED BY <1>1, <1>4, <1>5

\* A step down begins one node.
LEMMA DescendEmits ==
  ASSUME Ordered, NEW n \in Node
  PROVE  EmitMet(Descend(n)) = EmitMet(In(n)) \cup {n} /\ n \notin EmitMet(In(n))
<1>1. /\ EmitMet(In(n)) = (Before(n) \cup (IF Late(n) THEN Below(Child(Up(n), 4)) ELSE {})) \ Skipped(n)
      /\ n \notin Before(n)
  BY OrderFacts DEF EmitMet, Met, In, Before
<1>2. n \notin EmitMet(In(n))
  BY <1>1, LateFacts
<1>3. CASE Children(n) # {}
  <2> DEFINE c == n + 1
  <2>1. Descend(n) = In(c) /\ c \in Node /\ c # 1 /\ Up(c) = n /\ Place(c) = 1
    BY <1>3, FirstChild, FirstPlace, ChildFacts DEF Descend
  <2> HIDE DEF c
  <2>2. Before(c) = Before(n) \cup {n}
    BY <2>1, DescendMeets DEF Met, In
  <2>3. ~Late(c) /\ ~Late(n)
    BY <1>3, <2>1, LateFacts DEF Late
  <2>4. Skipped(c) = Skipped(n)
    BY <2>1, SkippedFacts
  <2>5. EmitMet(Descend(n)) = Before(c) \ Skipped(c)
    BY <2>1, <2>3 DEF EmitMet, Met, In
  <2> QED BY <1>1, <1>2, <2>2, <2>3, <2>4, <2>5, SkippedFacts
<1>4. CASE Children(n) = {}
  <2>1. Descend(n) = Out(n) /\ Below(n) = {n}
    BY <1>4, Childless DEF Descend
  <2>2. EmitMet(Out(n)) = (Before(n) \cup Below(n) \cup (IF Late(n) THEN Below(Child(Up(n), 4)) ELSE {})) \ Skipped(n)
    BY DEF EmitMet, Met, Out
  <2> QED BY <1>1, <1>2, <2>1, <2>2, SkippedFacts
<1> QED BY <1>2, <1>3, <1>4

\* A step on or out begins none.
LEMMA NextEmits ==
  ASSUME Ordered, NEW n \in Node, n # 1
  PROVE  EmitMet(NextToEmit(n)) = EmitMet(Out(n)) /\ n \in EmitMet(Out(n))
<1> DEFINE p == Up(n)
<1>1. p \in Node /\ n \in Children(p) /\ Children(p) # {} /\ ~Late(p)
  BY OrderFacts, ChildFacts, LateFacts
<1>2. \A k \in Node : EmitMet(In(k)) = (Before(k) \cup (IF Late(k) THEN Below(Child(Up(k), 4)) ELSE {})) \ Skipped(k)
  BY DEF EmitMet, Met, In
<1>3. \A k \in Node :
        EmitMet(Out(k)) =
          (Before(k) \cup Below(k) \cup (IF Late(k) THEN Below(Child(Up(k), 4)) ELSE {})) \ Skipped(k)
  BY DEF EmitMet, Met, Out
<1>4. n \in EmitMet(Out(n))
  BY <1>3, SelfBelow, SkippedFacts
<1> HIDE DEF p
<1>5. CASE Kind(p) # "for"
  <2>1. NextToEmit(n) = Onward(n) /\ Met(Onward(n)) = Before(n) \cup Below(n)
    BY <1>5, OnwardMeets DEF NextToEmit, p
  <2>2. ~Late(n) /\ Skipped(n) = Skipped(p)
    BY <1>5, SkippedFacts DEF Late, p
  <2>3. EmitMet(Out(n)) = (Before(n) \cup Below(n)) \ Skipped(p)
    BY <1>3, <2>2
  <2>4. CASE \E c \in Children(p) : c > n
    <3>1. Follower(n) \in Children(p) /\ Follower(n) \in Node /\ Follower(n) # 0
      BY <2>4, <1>1, NextSibling, ChildFacts, OrderFacts DEF Node, p
    <3> DEFINE s == Follower(n)
    <3>2. NextToEmit(n) = In(s) /\ s \in Node /\ s # 1 /\ Up(s) = p
      BY <1>1, <2>1, <3>1, ChildFacts DEF Onward
    <3> HIDE DEF s
    <3>3. ~Late(s) /\ Skipped(s) = Skipped(p)
      BY <1>5, <3>2, SkippedFacts DEF Late
    <3>4. Before(s) = Before(n) \cup Below(n)
      BY <2>1, <3>2 DEF Met, In
    <3> QED BY <1>2, <1>4, <2>3, <3>2, <3>3, <3>4
  <2>5. CASE \A c \in Children(p) : ~ (c > n)
    <3>1. NextToEmit(n) = Out(p)
      BY <2>1, <2>5 DEF Onward, Follower, p
    <3>2. Before(p) \cup Below(p) = Before(n) \cup Below(n)
      BY <2>1, <3>1 DEF Met, Out
    <3> QED BY <1>1, <1>3, <1>4, <2>3, <3>1, <3>2
  <2> QED BY <2>4, <2>5
<1>6. CASE Kind(p) = "for"
  <2> DEFINE c1 == Child(p, 1)
             c2 == Child(p, 2)
             c3 == Child(p, 3)
             c4 == Child(p, 4)
  <2>1. /\ c1 \in Children(p) /\ Place(c1) = 1
        /\ c2 \in Children(p) /\ Place(c2) = 2
        /\ c3 \in Children(p) /\ Place(c3) = 3
        /\ c4 \in Children(p) /\ Place(c4) = 4
        /\ Late(c3)
    BY <1>1, <1>6, PartsOfFor
  <2>2. n = Child(p, Place(n))
    BY <1>1, ChildUnique
  <2> HIDE DEF c1, c2, c3, c4
  <2>3. \A c \in {c1, c2, c3, c4} : c \in Node /\ c # 1 /\ Up(c) = p
    BY <1>1, <2>1, ChildFacts
  <2>4. Child(Up(c3), 4) = c4
    BY <2>3 DEF c4
  <2>5. /\ Before(c2) = Before(c1) \cup Below(c1)
        /\ Before(c3) = Before(c2) \cup Below(c2)
        /\ Before(c4) = Before(c3) \cup Below(c3)
    BY <1>1, <2>1, NextPart
  <2>6. /\ Below(c3) = {c3} /\ c3 \notin Below(c4) /\ c3 \notin Before(c3)
        /\ ~Late(c1) /\ ~Late(c2) /\ ~Late(c4)
    BY <2>1, <2>3, <2>4, LateFacts, OrderFacts DEF Late, Before
  <2>7. /\ Skipped(c1) = Skipped(p) /\ Skipped(c2) = Skipped(p) /\ Skipped(c3) = Skipped(p)
        /\ Skipped(c4) = Skipped(p) \cup {c3}
    BY <1>6, <2>1, <2>3, SkippedFacts DEF c3
  <2>8. Place(n) \in {1, 2, 3, 4}
    BY <1>6, PlacesOfParts DEF p
  <2>9. CASE Place(n) = 1
    <3>1. NextToEmit(n) = In(c2) /\ n = c1
      BY <1>6, <2>2, <2>9 DEF NextToEmit, c1, c2, p
    <3>2. EmitMet(In(c2)) = Before(c2) \ Skipped(c2) /\ EmitMet(Out(n)) = (Before(c1) \cup Below(c1)) \ Skipped(c1)
      BY <1>2, <1>3, <2>3, <2>6, <3>1
    <3> QED BY <1>4, <2>5, <2>7, <3>1, <3>2
  <2>10. CASE Place(n) = 2
    <3>1. NextToEmit(n) = In(c4) /\ n = c2
      BY <1>6, <2>2, <2>10 DEF NextToEmit, c2, c4, p
    <3>2. EmitMet(In(c4)) = Before(c4) \ Skipped(c4) /\ EmitMet(Out(n)) = (Before(c2) \cup Below(c2)) \ Skipped(c2)
      BY <1>2, <1>3, <2>3, <2>6, <3>1
    <3> QED BY <1>4, <2>5, <2>6, <2>7, <3>1, <3>2
  <2>11. CASE Place(n) = 4
    <3>1. NextToEmit(n) = In(c3) /\ n = c4
      BY <1>6, <2>2, <2>11 DEF NextToEmit, c3, c4, p
    <3>2. /\ EmitMet(In(c3)) = (Before(c3) \cup Below(c4)) \ Skipped(c3)
          /\ EmitMet(Out(n)) = (Before(c4) \cup Below(c4)) \ Skipped(c4)
      BY <1>2, <1>3, <2>1, <2>3, <2>4, <2>6, <3>1
    <3> QED BY <1>4, <2>5, <2>6, <2>7, <3>1, <3>2
  <2>12. CASE Place(n) = 3
    <3>1. NextToEmit(n) = Out(p) /\ n = c3
      BY <1>6, <2>2, <2>12 DEF NextToEmit, c3, p
    <3>2. \A c \in Children(p) : ~ (c > c4)
      <4> SUFFICES ASSUME NEW c \in Children(p), c4 < c PROVE FALSE
        BY <1>1, <2>1, ChildFacts, OrderFacts
      <4>1. Place(c4) < Place(c)
        BY <1>1, <2>1, PlacesInOrder
      <4>2. Place(c) \in 1 .. 4
        BY <1>1, <1>6, ChildFacts, PlacesOfParts
      <4> QED BY <2>1, <4>1, <4>2
    <3>3. Before(p) \cup Below(p) = Before(c4) \cup Below(c4)
      BY <2>3, <3>2, LastMeets
    <3>4. /\ EmitMet(Out(p)) = (Before(p) \cup Below(p)) \ Skipped(p)
          /\ EmitMet(Out(n)) = (Before(c3) \cup Below(c3) \cup Below(c4)) \ Skipped(c3)
      BY <1>1, <1>3, <2>1, <2>3, <2>4, <3>1
    <3> QED BY <1>4, <2>5, <2>6, <2>7, <3>1, <3>3, <3>4
  <2> QED BY <2>8, <2>9, <2>10, <2>11, <2>12
<1> QED BY <1>5, <1>6

\* The positions it has come from.
Done(q) == {r \in Position : r[1] \in EmitMet(q) /\ (r[2] = "out" => q[1] \notin Below(r[1]))}

\* And the one it goes to next.
Succ(r) == IF r[2] = "in" THEN Descend(r[1]) ELSE NextToEmit(r[1])

LEMMA Positions ==
  /\ \A n : In(n)[1] = n /\ In(n)[2] = "in" /\ Out(n)[1] = n /\ Out(n)[2] = "out"
  /\ \A n, m : In(n) # Out(m) /\ (In(n) = In(m) => n = m) /\ (Out(n) = Out(m) => n = m)
  /\ \A n : (In(n) \in Position <=> n \in Node) /\ (Out(n) \in Position <=> n \in Node)
  /\ \A q \in Position : q[1] \in Node /\ (q = In(q[1]) \/ q = Out(q[1]))
BY DEF In, Out, Position

LEMMA DoneFacts ==
  ASSUME NEW q
  PROVE  /\ \A n : In(n) \in Done(q) <=> n \in Node /\ n \in EmitMet(q)
         /\ \A n : Out(n) \in Done(q) <=> n \in Node /\ n \in EmitMet(q) /\ q[1] \notin Below(n)
         /\ Done(q) \subseteq Position
BY Positions DEF Done

LEMMA SuccIsPosition ==
  ASSUME Ordered, NEW q \in Position, q # End
  PROVE  Succ(q) \in Position
<1>1. CASE q = In(q[1])
  BY <1>1, Positions, DescendMeets DEF Succ
<1>2. CASE q = Out(q[1])
  <2> DEFINE n == q[1]
  <2>1. n \in Node /\ n # 1 /\ Up(n) \in Node
    BY <1>2, Positions, OrderFacts DEF End, Out
  <2>2. Succ(q) = NextToEmit(n)
    BY <1>2, Positions DEF Succ
  <2>3. \A s \in Children(Up(n)) : s \in Node
    BY <2>1, ChildFacts
  <2>4. NextToEmit(n) \in Position
    BY <2>1, <2>3, NextToEmitFacts, Positions
  <2> QED BY <2>2, <2>4
<1> QED BY <1>1, <1>2, Positions

\* The emission comes to a position once.
LEMMA DoneGrows ==
  ASSUME Ordered, NEW q \in Position
  PROVE  /\ q \notin Done(q)
         /\ q # End => Done(Succ(q)) = Done(q) \cup {q}
<1> DEFINE n == q[1]
<1>1. n \in Node
  BY Positions
<1> HIDE DEF n
<1>2. CASE q = In(n)
  <2>1. Succ(q) = Descend(n)
    BY <1>2, Positions DEF Succ
  <2>2. EmitMet(Descend(n)) = EmitMet(q) \cup {n} /\ n \notin EmitMet(q)
    BY <1>1, <1>2, DescendEmits
  <2> DEFINE to == Descend(n)
  <2>3. \A m \in EmitMet(q) \cup {n} : m \in Node => (to[1] \notin Below(m) <=> m # n /\ n \notin Below(m))
    <3> SUFFICES ASSUME NEW m \in Node, m \in EmitMet(q) \cup {n}
                 PROVE  to[1] \notin Below(m) <=> m # n /\ n \notin Below(m)
      OBVIOUS
    <3>1. n \in Below(n)
      BY <1>1, SelfBelow
    <3>2. CASE Children(n) # {}
      <4>1. to = In(n + 1) /\ n + 1 \in Children(n)
        BY <1>1, <3>2, FirstChild DEF Descend
      <4> DEFINE c == n + 1
      <4>2. c \in Node /\ c # 1 /\ Up(c) = n /\ to[1] = c /\ to = In(c) /\ n < c
        BY <1>1, <4>1, ChildFacts, Positions
      <4> HIDE DEF c, to
      <4>3. c \in Below(m) <=> c = m \/ n \in Below(m)
        BY <4>2, BelowUp
      <4>4. c \notin EmitMet(q) \cup {n}
        BY <2>2, <4>2, DescendEmits DEF to
      <4> QED BY <3>1, <4>2, <4>3, <4>4
    <3>3. CASE Children(n) = {}
      <4>1. to[1] = n
        BY <3>3, Positions DEF Descend
      <4> QED BY <3>1, <4>1
    <3> QED BY <3>2, <3>3
  <2> HIDE DEF to
  <2>4. \A m : In(m) \in Done(to) <=> In(m) \in Done(q) \/ m = n
    BY <1>1, <2>2, DoneFacts DEF to
  <2>5. \A m : Out(m) \in Done(to) <=> Out(m) \in Done(q)
    <3>1. q[1] = n
      BY DEF n
    <3> QED BY <2>2, <2>3, <3>1, DoneFacts DEF to
  <2>6. \A r \in Position : r \in Done(to) <=> r \in Done(q) \/ r = q
    BY <1>2, <2>4, <2>5, Positions
  <2>7. q \notin Done(q)
    BY <1>2, <2>2, DoneFacts
  <2> QED BY <2>1, <2>6, <2>7, DoneFacts DEF to
<1>3. CASE q = Out(n)
  <2>1. q \notin Done(q)
    BY <1>1, <1>3, SelfBelow, Positions, DoneFacts
  <2> SUFFICES ASSUME q # End PROVE Done(Succ(q)) = Done(q) \cup {q}
    BY <2>1
  <2>2. n # 1 /\ Succ(q) = NextToEmit(n)
    BY <1>3, Positions DEF Succ, End, Out
  <2> DEFINE to == NextToEmit(n)
             p == Up(n)
  <2>3. EmitMet(to) = EmitMet(q) /\ n \in EmitMet(q) /\ p \in Node /\ p < n
    BY <1>1, <1>3, <2>2, NextEmits, OrderFacts
  <2>4. \A m \in EmitMet(q) : m \in Node => (to[1] \notin Below(m) <=> m = n \/ n \notin Below(m))
    <3> SUFFICES ASSUME NEW m \in Node, m \in EmitMet(q)
                 PROVE  to[1] \notin Below(m) <=> m = n \/ n \notin Below(m)
      OBVIOUS
    <3>1. n \in Below(m) <=> n = m \/ p \in Below(m)
      BY <1>1, <2>2, BelowUp
    <3>2. p \notin Below(n)
      BY <1>1, <2>3, BelowGreater, OrderFacts
    <3>3. CASE to = Out(p)
      <4>1. to[1] = p
        BY <3>3, Positions
      <4> HIDE DEF to, p
      <4> QED BY <3>1, <3>2, <4>1
    <3>4. CASE to # Out(p)
      <4>1. PICK s \in Children(p) : to = In(s)
        BY <1>1, <2>2, <3>4, NextToEmitFacts
      <4>2. s \in Node /\ s # 1 /\ Up(s) = p
        BY <2>3, ChildFacts
      <4>3. to[1] = s
        BY <4>1, Positions
      <4>4. s \notin EmitMet(q)
        BY <2>3, <4>1, <4>2, DescendEmits
      <4>5. s \in Below(m) <=> s = m \/ p \in Below(m)
        BY <4>2, BelowUp
      <4> HIDE DEF to, p
      <4> QED BY <3>1, <3>2, <4>3, <4>4, <4>5
    <3> QED BY <3>3, <3>4
  <2> HIDE DEF to, p
  <2>5. \A m : In(m) \in Done(to) <=> In(m) \in Done(q)
    BY <2>3, DoneFacts
  <2>6. \A m : Out(m) \in Done(to) <=> Out(m) \in Done(q) \/ m = n
    <3>1. q[1] = n
      BY DEF n
    <3> QED BY <1>1, <2>3, <2>4, <3>1, DoneFacts
  <2>7. \A r \in Position : r \in Done(to) <=> r \in Done(q) \/ r = q
    BY <1>3, <2>5, <2>6, Positions
  <2> QED BY <2>2, <2>7, DoneFacts DEF to
<1> QED BY <1>2, <1>3, Positions DEF n

\* At first nothing has been emitted, in the end everything.
LEMMA DoneEnds ==
  ASSUME Ordered
  PROVE  Done(Begin) = {} /\ Done(End) = Position \ {End}
<1>1. 1 \in Node /\ Begin = In(1) /\ End = Out(1)
  BY OrderFacts DEF Begin, End, In, Out
<1>2. ~Late(1)
  BY DEF Late
<1>3. \A x \in Node : 1 \in Below(x) => x = 1
  <2> SUFFICES ASSUME NEW x \in Node, 1 \in Below(x) PROVE x = 1
    OBVIOUS
  <2>1. x <= 1 /\ x \in Nat /\ x >= 1
    BY OrderFacts, BelowGreater DEF Node
  <2> QED BY <2>1
<1>4. Skipped(1) = {}
  <2> SUFFICES ASSUME NEW m \in Node, Late(m), 1 \in Below(Child(Up(m), 4)) PROVE FALSE
    BY DEF Skipped
  <2>1. Child(Up(m), 4) \in Node /\ Child(Up(m), 4) \in Children(Up(m)) /\ Up(m) \in Node
    BY LateFacts, OrderFacts DEF Late
  <2> QED BY <1>3, <2>1, ChildFacts
<1>5. EmitMet(Begin) = {}
  BY <1>1, <1>2, EndMeets, Positions DEF EmitMet
<1>6. EmitMet(End) = Node
  BY <1>1, <1>2, <1>4, EndMeets, Positions DEF EmitMet
<1>7. Done(Begin) = {}
  BY <1>5 DEF Done
<1>8. \A r \in Position : r \in Done(End) <=> r # End
  BY <1>1, <1>3, <1>6, SelfBelow, Positions, DoneFacts
<1> QED BY <1>7, <1>8, DoneFacts

\* What stands before a node among its siblings is done, and its parent begun.
LEMMA DoneBefore ==
  ASSUME Ordered, NEW n \in Node, n # 1
  PROVE  /\ In(Up(n)) \in Done(Out(n)) /\ In(n) \in Done(Out(n))
         /\ \A m \in Children(Up(n)) : m < n /\ ~Late(m) => In(m) \in Done(Out(n)) /\ Out(m) \in Done(Out(n))
<1> DEFINE p == Up(n)
<1>1. p \in Node /\ n \in Children(p) /\ p < n /\ ~Late(p)
  BY OrderFacts, ChildFacts, LateFacts
<1>2. \A m \in Node : m < n /\ ~Late(m) => m \in EmitMet(Out(n))
  BY Positions DEF EmitMet, Met, Before, Skipped
<1>3. n \in EmitMet(Out(n))
  BY NextEmits
<1>4. ASSUME NEW m \in Children(p), m < n PROVE n \notin Below(m) /\ m \in Node
  <2>1. m \in Node /\ m # 1 /\ Up(m) = p /\ p < m
    BY <1>1, ChildFacts
  <2>2. p \notin Below(m)
    BY <1>1, <2>1, BelowGreater, OrderFacts
  <2> QED BY <1>1, <1>4, <2>1, <2>2, BelowUp, OrderFacts
<1> QED BY <1>1, <1>2, <1>3, <1>4, DoneFacts, Positions

\* Nothing behind a node is emitted before it but expressions.
LEMMA EmittedBefore ==
  ASSUME Ordered, NEW n \in Node, ~Late(n), NEW m \in Node, In(m) \in Done(In(n))
  PROVE  m < n
<1>1. EmitMet(In(n)) \subseteq Before(n)
  BY Positions DEF EmitMet, Met
<1> QED BY <1>1, DoneFacts DEF Before

-----------------------------------------------------------------------------
(* The code as a picture of the body: w is where the code of each position  *)
(* is, D the positions that are emitted.                                     *)

\* How much is emitted at a position: an instruction, and a jump behind it.
Rest(r) ==
  IF r[2] = "in" THEN IF Kind(r[1]) \in {"expr", "return", "state"} THEN 1 ELSE 0
  ELSE IF Discarded(r[1]) \/ Kind(r[1]) = "decl" THEN 1 ELSE 0
Bears(r) ==
  IF r[2] = "in" THEN Kind(r[1]) = "jump"
  ELSE r # End /\ (Condition(r[1]) \/ IsBranch(r[1], 2) \/ LastOfLoop(r[1]))
Size(r) == Rest(r) + (IF Bears(r) THEN 2 ELSE 0)
JumpAt(w, r) == w[r] + Rest(r)

\* The jump at p leads to the given place, by its offset.
LeadsTo(text, p, to) == p + 2 + text[p + 2].arg = to

\* The last part of a statement that the jump at its condition leads past.
Closes(m) == m # 1 /\ ((Kind(Up(m)) \in {"if", "while"} /\ Place(m) = 2) \/ Late(m))

\* Where a loop jumps back to.
Again(m) == In(Child(Up(m), IF Kind(Up(m)) = "for" THEN 2 ELSE 1))

\* What is emitted at a position: which jump, and which cells.
JumpOp(r) ==
  IF r[2] = "out" /\ Condition(r[1]) THEN IF Kind(Up(r[1])) = "do" THEN "jumpif" ELSE "jumpnif" ELSE "jump"

CellsOf(w, r, text) ==
  LET n == r[1] IN
  /\ r[2] = "in" /\ Kind(n) = "expr" => text[w[r] + 1] = Cell("eval", n)
  /\ r[2] = "in" /\ Kind(n) \in {"return", "state"} => text[w[r] + 1] = Cell(Kind(n), n)
  /\ r[2] = "out" /\ Discarded(n) => text[w[r] + 1].op = "pop"
  /\ r[2] = "out" /\ Kind(n) = "decl" => text[w[r] + 1] = Cell("store", n)
  /\ Bears(r) => text[JumpAt(w, r) + 1].op = JumpOp(r)

\* No two positions have one jump.
Apart(w, D) == \A r, s \in D : Bears(r) /\ Bears(s) /\ JumpAt(w, r) = JumpAt(w, s) => r = s

\* The emitted positions stand one behind the other in the text, with their cells.
Pictured(w, D, text) ==
  /\ \A r \in D : w[Succ(r)] = w[r] + Size(r) /\ w[r] + Size(r) <= Len(text)
  /\ \A r \in D : CellsOf(w, r, text)
  /\ Apart(w, D)

LEMMA SizeFacts ==
  ASSUME Ordered, NEW r \in Position
  PROVE  /\ Rest(r) \in {0, 1} /\ Size(r) \in Nat /\ Bears(r) \in BOOLEAN
         /\ Bears(r) => Size(r) = Rest(r) + 2
         /\ ~Bears(r) => Size(r) = Rest(r)
         /\ r[2] = "in" /\ Kind(r[1]) \in {"expr", "return", "state"} => Rest(r) = 1
         /\ r[2] = "in" /\ Kind(r[1]) \notin {"expr", "return", "state"} => Rest(r) = 0
         /\ r[2] = "out" /\ (Discarded(r[1]) \/ Kind(r[1]) = "decl") => Rest(r) = 1
         /\ r[2] = "out" /\ ~ (Discarded(r[1]) \/ Kind(r[1]) = "decl") => Rest(r) = 0
<1>1. Rest(r) \in {0, 1}
  BY DEF Rest
<1>2. Bears(r) \in BOOLEAN
  BY DEF Bears
<1>3. r[2] = "in" \/ r[2] = "out"
  BY Positions
<1> QED BY <1>1, <1>2, <1>3 DEF Rest, Size

\* Patching operands changes nothing at a position.
LEMMA CellsKept ==
  ASSUME Ordered, NEW r \in Position, NEW w, NEW v, w[r] \in Nat, v[r] = w[r],
         NEW text, NEW after, Len(text) \in Nat, w[r] + Size(r) <= Len(text),
         \A c \in 1 .. Len(text) : text[c].op # "operand" => after[c] = text[c],
         CellsOf(w, r, text)
  PROVE  CellsOf(v, r, after)
<1> DEFINE n == r[1]
<1>1. Rest(r) \in {0, 1} /\ (Bears(r) => Size(r) = Rest(r) + 2) /\ (~Bears(r) => Size(r) = Rest(r))
  BY SizeFacts
<1>2. Rest(r) = 1 => w[r] + 1 \in 1 .. Len(text)
  BY <1>1
<1>3. JumpAt(v, r) = JumpAt(w, r) /\ (Bears(r) => JumpAt(w, r) + 1 \in 1 .. Len(text))
  BY <1>1 DEF JumpAt
<1>4. r[2] = "in" /\ Kind(n) = "expr" => after[w[r] + 1] = Cell("eval", n)
  <2> SUFFICES ASSUME r[2] = "in", Kind(n) = "expr" PROVE after[w[r] + 1] = Cell("eval", n)
    OBVIOUS
  <2>1. text[w[r] + 1] = Cell("eval", n) /\ w[r] + 1 \in 1 .. Len(text)
    BY <1>2, SizeFacts DEF CellsOf
  <2>2. text[w[r] + 1].op # "operand"
    BY <2>1 DEF Cell
  <2> QED BY <2>1, <2>2
<1>5. r[2] = "in" /\ Kind(n) \in {"return", "state"} => after[w[r] + 1] = Cell(Kind(n), n)
  <2> SUFFICES ASSUME r[2] = "in", Kind(n) \in {"return", "state"} PROVE after[w[r] + 1] = Cell(Kind(n), n)
    OBVIOUS
  <2>1. text[w[r] + 1] = Cell(Kind(n), n) /\ w[r] + 1 \in 1 .. Len(text)
    BY <1>2, SizeFacts DEF CellsOf
  <2>2. text[w[r] + 1].op # "operand"
    BY <2>1 DEF Cell
  <2> QED BY <2>1, <2>2
<1>6. r[2] = "out" /\ Discarded(n) => after[w[r] + 1].op = "pop"
  <2> SUFFICES ASSUME r[2] = "out", Discarded(n) PROVE after[w[r] + 1].op = "pop"
    OBVIOUS
  <2>1. text[w[r] + 1].op = "pop" /\ w[r] + 1 \in 1 .. Len(text)
    BY <1>2, SizeFacts DEF CellsOf
  <2>2. text[w[r] + 1].op # "operand"
    BY <2>1
  <2> QED BY <2>1, <2>2
<1>7. r[2] = "out" /\ Kind(n) = "decl" => after[w[r] + 1] = Cell("store", n)
  <2> SUFFICES ASSUME r[2] = "out", Kind(n) = "decl" PROVE after[w[r] + 1] = Cell("store", n)
    OBVIOUS
  <2>1. text[w[r] + 1] = Cell("store", n) /\ w[r] + 1 \in 1 .. Len(text)
    BY <1>2, SizeFacts DEF CellsOf
  <2>2. text[w[r] + 1].op # "operand"
    BY <2>1 DEF Cell
  <2> QED BY <2>1, <2>2
<1>8. Bears(r) => after[JumpAt(w, r) + 1].op = JumpOp(r)
  <2> SUFFICES ASSUME Bears(r) PROVE after[JumpAt(w, r) + 1].op = JumpOp(r)
    OBVIOUS
  <2>1. text[JumpAt(w, r) + 1].op = JumpOp(r) /\ JumpAt(w, r) + 1 \in 1 .. Len(text)
    BY <1>3 DEF CellsOf
  <2>2. JumpOp(r) # "operand"
    BY DEF JumpOp
  <2> QED BY <2>1, <2>2
<1> QED BY <1>3, <1>4, <1>5, <1>6, <1>7, <1>8 DEF CellsOf

\* One position more is emitted, and at most the operand of one earlier jump
\* is patched.
Grown(w, q, text, after, owner) ==
  /\ Len(after) = Len(text) + Size(q)
  /\ CellsOf(w, q, after)
  /\ \A c \in 1 .. Len(text) :
       \/ after[c] = text[c]
       \/ /\ owner \in Done(q) /\ Bears(owner) /\ c = JumpAt(w, owner) + 2
          /\ text[c].op = "operand" /\ after[c].op = "operand"

LEMMA Extended ==
  ASSUME Ordered, NEW q \in Position, q # End, NEW w \in [Position -> Nat],
         NEW text \in Text, w[q] = Len(text), NEW after \in Text, NEW owner,
         \A r \in Done(q) : Succ(r) \in Done(q) \cup {q},
         Pictured(w, Done(q), text), Grown(w, q, text, after, owner)
  PROVE  LET v == [w EXCEPT ![Succ(q)] = Len(after)] IN
         /\ v \in [Position -> Nat] /\ v[Succ(q)] = Len(after) /\ v[Begin] = w[Begin]
         /\ \A r \in Done(q) \cup {q} : v[r] = w[r] /\ r \in Position
         /\ \A r \in Done(q) : v[Succ(r)] = w[Succ(r)]
         /\ \A r \in Done(Succ(q)) : Succ(r) \in Done(Succ(q)) \cup {Succ(q)}
         /\ Pictured(v, Done(Succ(q)), after)
         /\ \A r \in Done(q) : /\ Bears(r) => JumpAt(v, r) = JumpAt(w, r) /\ JumpAt(w, r) + 2 \in 1 .. Len(text)
                               /\ Bears(r) /\ r # owner => after[JumpAt(w, r) + 2] = text[JumpAt(w, r) + 2]
<1> DEFINE D == Done(q)
           v == [w EXCEPT ![Succ(q)] = Len(after)]
<1>1. Succ(q) \in Position /\ q \notin D /\ D \subseteq Position /\ Done(Succ(q)) = D \cup {q}
  BY SuccIsPosition, DoneGrows, DoneFacts
<1>2. Succ(q) \notin D \cup {q}
  <2>1. Succ(q) \notin Done(Succ(q))
    BY <1>1, DoneGrows
  <2> QED BY <1>1, <2>1
<1>3. Len(text) \in Nat /\ Len(after) \in Nat
  BY DEF Text
<1>4. v \in [Position -> Nat] /\ v[Succ(q)] = Len(after) /\ \A r \in Position : r # Succ(q) => v[r] = w[r]
  BY <1>1, <1>3
<1>4a. v[Begin] = w[Begin]
  <2>1. Begin # Succ(q)
    BY <1>1, DoneEnds
  <2>2. Begin \in Position
    BY OrderFacts DEF Begin, Position
  <2> QED BY <1>4, <2>1, <2>2
<1> HIDE DEF v, D
<1>5. \A r \in D \cup {q} : v[r] = w[r] /\ r \in Position /\ w[r] \in Nat
  BY <1>1, <1>2, <1>4
<1>6. \A r \in D : Succ(r) \in D \cup {q} /\ v[Succ(r)] = w[Succ(r)]
  BY <1>1, <1>2, <1>5 DEF D
<1>7. \A r \in D \cup {q} : Succ(r) \in D \cup {q, Succ(q)}
  BY <1>6
<1>8. /\ \A r \in D : w[Succ(r)] = w[r] + Size(r) /\ w[r] + Size(r) <= Len(text) /\ CellsOf(w, r, text)
      /\ Apart(w, D)
  BY DEF Pictured, D
<1>9. \A r \in D \cup {q} : Rest(r) \in {0, 1} /\ Size(r) \in Nat
  BY <1>5, SizeFacts
<1>10. \A r \in D \cup {q} : JumpAt(v, r) = JumpAt(w, r) /\ JumpAt(w, r) \in Nat /\ JumpAt(w, r) = w[r] + Rest(r)
  BY <1>5, <1>9 DEF JumpAt
<1>11. \A r \in D : Bears(r) => JumpAt(w, r) + 2 \in 1 .. Len(text)
  <2> SUFFICES ASSUME NEW r \in D, Bears(r) PROVE JumpAt(w, r) + 2 \in 1 .. Len(text)
    OBVIOUS
  <2>1. Size(r) = Rest(r) + 2
    BY <1>5, SizeFacts
  <2>2. w[r] + Size(r) <= Len(text) /\ JumpAt(w, r) = w[r] + Rest(r) /\ Rest(r) \in {0, 1} /\ w[r] \in Nat
    BY <1>5, <1>8, <1>9, <1>10
  <2> QED BY <1>3, <2>1, <2>2
<1>12. \A r \in D : Bears(r) /\ r # owner => after[JumpAt(w, r) + 2] = text[JumpAt(w, r) + 2]
  <2> SUFFICES ASSUME NEW r \in D, Bears(r), r # owner
               PROVE  after[JumpAt(w, r) + 2] = text[JumpAt(w, r) + 2]
    OBVIOUS
  <2>1. owner \in D /\ Bears(owner) => JumpAt(w, owner) # JumpAt(w, r)
    BY <1>8 DEF Apart
  <2>2. owner \in D /\ Bears(owner) => JumpAt(w, owner) + 2 # JumpAt(w, r) + 2
    BY <1>10, <2>1
  <2> QED BY <1>11, <2>2 DEF Grown, D
<1>13. ASSUME NEW c \in 1 .. Len(text), text[c].op # "operand" PROVE after[c] = text[c]
  BY <1>13 DEF Grown
<1>14. \A r \in D \cup {q} : v[Succ(r)] = v[r] + Size(r) /\ v[r] + Size(r) <= Len(after)
  <2>1. Len(after) = Len(text) + Size(q) /\ Size(q) \in Nat
    BY <1>9 DEF Grown
  <2>2. ASSUME NEW r \in D PROVE v[Succ(r)] = v[r] + Size(r) /\ v[r] + Size(r) <= Len(after)
    <3>1. w[Succ(r)] = w[r] + Size(r) /\ w[r] + Size(r) <= Len(text) /\ v[Succ(r)] = w[Succ(r)] /\ v[r] = w[r]
      BY <1>5, <1>6, <1>8
    <3> QED BY <1>3, <1>5, <1>9, <2>1, <3>1
  <2>3. v[Succ(q)] = v[q] + Size(q) /\ v[q] + Size(q) <= Len(after)
    BY <1>3, <1>4, <1>5, <2>1
  <2> QED BY <2>2, <2>3
<1>15. \A r \in D \cup {q} : CellsOf(v, r, after)
  <2>1. CellsOf(v, q, after)
    BY <1>5, <1>10 DEF Grown, CellsOf
  <2>2. ASSUME NEW r \in D PROVE CellsOf(v, r, after)
    <3>1. v[r] = w[r] /\ r \in Position /\ w[r] \in Nat /\ w[r] + Size(r) <= Len(text) /\ CellsOf(w, r, text)
      BY <1>5, <1>8
    <3>2. \A c \in 1 .. Len(text) : text[c].op # "operand" => after[c] = text[c]
      BY <1>13
    <3> QED BY <1>3, <3>1, <3>2, CellsKept
  <2> QED BY <2>1, <2>2
<1>16. Apart(v, D \cup {q})
  <2>1. ASSUME NEW r \in D, Bears(r), Bears(q) PROVE JumpAt(w, r) # JumpAt(w, q)
    <3>1. /\ JumpAt(w, r) + 2 <= Len(text) /\ JumpAt(w, q) = Len(text) + Rest(q)
          /\ Rest(q) \in {0, 1} /\ JumpAt(w, r) \in Nat
      BY <1>9, <1>10, <1>11, <2>1
    <3> QED BY <1>3, <3>1
  <2> QED BY <1>8, <1>10, <2>1 DEF Apart
<1>17. Pictured(v, D \cup {q}, after)
  BY <1>14, <1>15, <1>16 DEF Pictured
<1> QED BY <1>1, <1>4, <1>4a, <1>5, <1>6, <1>7, <1>10, <1>11, <1>12, <1>17 DEF v, D

-----------------------------------------------------------------------------
(* What closing a node does to the code, cell by cell. *)

LEMMA JumpCells ==
  ASSUME NEW s \in Text, NEW op \in JumpOps, NEW arg \in Int
  PROVE  LET t == s \o <<Cell(op, 0), Cell("operand", arg)>> IN
         /\ t \in Text /\ Len(t) = Len(s) + 2
         /\ \A c \in 1 .. Len(s) : t[c] = s[c]
         /\ t[Len(s) + 1] = Cell(op, 0) /\ t[Len(s) + 2] = Cell("operand", arg)
<1> DEFINE x == Cell(op, 0)
           y == Cell("operand", arg)
           two == <<x, y>>
           S == [op : Ops, arg : Int]
<1>1. x \in S /\ y \in S
  BY DEF Cell, Ops
<1> HIDE DEF x, y, S
<1>2. two \in Seq(S) /\ Len(two) = 2 /\ two[1] = x /\ two[2] = y
  BY <1>1
<1>3. s \in Seq(S) /\ Text = Seq(S)
  BY DEF Text, S
<1> HIDE DEF two
<1>3a. two \in Seq(S) /\ s \in Seq(S)
  BY <1>2, <1>3
<1>4. /\ s \o two \in Seq(S) /\ Len(s \o two) = Len(s) + Len(two)
      /\ \A c \in 1 .. Len(s) : (s \o two)[c] = s[c]
      /\ \A c \in 1 .. Len(two) : (s \o two)[Len(s) + c] = two[c]
  BY <1>3a, Joined
<1>5. \A c \in 1 .. 2 : (s \o two)[Len(s) + c] = two[c]
  BY <1>2, <1>4
<1>6. 1 \in 1 .. 2 /\ 2 \in 1 .. 2
  OBVIOUS
<1>7. (s \o two)[Len(s) + 1] = two[1] /\ (s \o two)[Len(s) + 2] = two[2]
  BY <1>5, <1>6
<1> QED BY <1>7, <1>2, <1>3, <1>4, <1>5 DEF two, x, y

LEMMA PatchedCells ==
  ASSUME NEW s \in Text, NEW p \in Nat, p + 1 \in 1 .. Len(s), NEW to \in Int
  PROVE  LET t == Patched(s, p, to) IN
         /\ t \in Text /\ Len(t) = Len(s)
         /\ t[p + 1].op = "operand" /\ p + 1 + t[p + 1].arg = to
         /\ \A c \in 1 .. Len(s) : c # p + 1 => t[c] = s[c]
<1> DEFINE arg == Operand(p, to)
           x == Cell("operand", arg)
           S == [op : Ops, arg : Int]
           t == [s EXCEPT ![p + 1] = x]
<1>1. arg \in Int /\ p + 1 + arg = to
  BY DEF Operand
<1> HIDE DEF arg
<1>2. x \in S /\ x.op = "operand" /\ x.arg = arg
  BY <1>1 DEF Cell, Ops
<1>3. s \in Seq(S) /\ Text = Seq(S)
  BY DEF Text
<1> HIDE DEF x, S
<1>4. t \in Seq(S) /\ Len(t) = Len(s) /\ t[p + 1] = x /\ \A c \in 1 .. Len(s) : c # p + 1 => t[c] = s[c]
  BY <1>2, <1>3
<1>5. Patched(s, p, to) = t
  BY DEF Patched, x, arg
<1> HIDE DEF t
<1> QED BY <1>1, <1>2, <1>3, <1>4, <1>5

\* What the places of a node in its parent exclude.
LEMMA Roles ==
  ASSUME Ordered, NEW n \in Node, n # 1
  PROVE  /\ Condition(n) => /\ ~Closes(n) /\ ~IsBranch(n, 2) /\ ~IsBranch(n, 3) /\ ~LastOfLoop(n)
                            /\ ~Discarded(n) /\ Kind(n) = "expr"
         /\ IsBranch(n, 2) => Closes(n) /\ ~IsBranch(n, 3) /\ ~LastOfLoop(n) /\ Kind(Up(n)) = "if"
         /\ IsBranch(n, 3) => ~Closes(n) /\ ~LastOfLoop(n) /\ Kind(Up(n)) = "if"
         /\ LastOfLoop(n) <=> Closes(n) /\ Kind(Up(n)) # "if"
         /\ Closes(n) => Kind(Up(n)) \in {"if", "while", "for"}
         /\ Rest(Out(n)) = IF Discarded(n) \/ Kind(n) = "decl" THEN 1 ELSE 0
         /\ Bears(Out(n)) <=> Condition(n) \/ IsBranch(n, 2) \/ LastOfLoop(n)
<1>1. Condition(n) => /\ ~Closes(n) /\ ~IsBranch(n, 2) /\ ~IsBranch(n, 3) /\ ~LastOfLoop(n)
                      /\ ~Discarded(n) /\ Kind(n) = "expr"
  <2> SUFFICES ASSUME Condition(n)
               PROVE  /\ ~Closes(n) /\ ~IsBranch(n, 2) /\ ~IsBranch(n, 3) /\ ~LastOfLoop(n)
                      /\ ~Discarded(n) /\ Kind(n) = "expr"
    OBVIOUS
  <2>1. Kind(n) = "expr" /\ ~Discarded(n)
    BY ConditionFacts DEF Discarded
  <2>2. /\ Kind(Up(n)) \in {"if", "while", "do", "for"}
        /\ Place(n) = IF Kind(Up(n)) \in {"do", "for"} THEN 2 ELSE 1
    BY DEF Condition, Loops
  <2> QED BY <2>1, <2>2 DEF Closes, Late, IsBranch, TwoWay, LastOfLoop
<1>2. TwoWay(Up(n)) => Kind(Up(n)) = "if"
  BY DEF TwoWay
<1>3. Out(n)[1] = n /\ Out(n)[2] = "out" /\ Out(n) # End
  BY DEF Out, End
<1> QED BY <1>1, <1>2, <1>3 DEF Closes, Late, IsBranch, LastOfLoop, Rest, Bears

LEMMA WithCells ==
  ASSUME Ordered, NEW n \in Node, n # 1, ~Condition(n), code \in Text
  PROVE  /\ With(n) \in Text /\ Len(With(n)) = Len(code) + Rest(Out(n))
         /\ \A c \in 1 .. Len(code) : With(n)[c] = code[c]
         /\ Discarded(n) => With(n)[Len(code) + 1] = Cell("pop", 0)
         /\ Kind(n) = "decl" => With(n)[Len(code) + 1] = Cell("store", n)
         /\ Rest(Out(n)) \in {0, 1}
<1>1. Rest(Out(n)) = IF Discarded(n) \/ Kind(n) = "decl" THEN 1 ELSE 0
  BY Roles
<1>2. Discarded(n) => Kind(n) # "decl"
  BY DEF Discarded
<1>3. n \in Int
  BY OrderFacts
<1>4. CASE Discarded(n)
  <2>1. With(n) = code \o <<Cell("pop", 0)>>
    BY <1>4 DEF With
  <2>2. Cell("pop", 0) \in [op : Ops, arg : Int]
    BY DEF Cell, Ops, Consumers
  <2> QED BY <1>1, <1>2, <1>4, <2>1, <2>2, Lengthened
<1>5. CASE ~Discarded(n) /\ Kind(n) = "decl"
  <2>1. With(n) = code \o <<Cell("store", n)>>
    BY <1>5 DEF With
  <2>2. Cell("store", n) \in [op : Ops, arg : Int]
    BY <1>3 DEF Cell, Ops, Consumers
  <2> QED BY <1>1, <1>5, <2>1, <2>2, Lengthened
<1>6. CASE ~Discarded(n) /\ Kind(n) # "decl"
  <2>1. With(n) = code
    <3>1. With(n) = code \o <<>>
      BY <1>6 DEF With
    <3> QED BY <3>1 DEF Text
  <2>2. Len(code) \in Nat
    BY DEF Text
  <2> QED BY <1>1, <1>6, <2>1, <2>2
<1> QED BY <1>4, <1>5, <1>6

\* What closing a node appends and what it patches.
LEMMA ClosedText ==
  ASSUME Ordered, NEW n \in Node, Close(n), code \in Text, top[Up(n)] \in Nat,
         DOMAIN hole = Node, DOMAIN pastElse = Node,
         Closes(n) => hole[Up(n)] \in Nat /\ hole[Up(n)] + 1 \in 1 .. Len(code),
         IsBranch(n, 3) => pastElse[Up(n)] \in Nat /\ pastElse[Up(n)] + 1 \in 1 .. Len(code)
  PROVE  LET p == Up(n)
             j == Len(code) + Rest(Out(n)) IN
         /\ n # 1 /\ code' \in Text /\ Len(code') = Len(code) + Size(Out(n)) /\ j \in Nat
         /\ Discarded(n) => code'[Len(code) + 1] = Cell("pop", 0)
         /\ Kind(n) = "decl" => code'[Len(code) + 1] = Cell("store", n)
         /\ Bears(Out(n)) => code'[j + 1] = Cell(JumpOp(Out(n)), 0) /\ code'[j + 2].op = "operand"
         /\ Condition(n) /\ Kind(p) = "do" => j + 2 + code'[j + 2].arg = top[p]
         /\ LastOfLoop(n) => j + 2 + code'[j + 2].arg = top[p]
         /\ Closes(n) => code'[hole[p] + 1].op = "operand" /\ hole[p] + 1 + code'[hole[p] + 1].arg = Len(code')
         /\ IsBranch(n, 3) =>
              code'[pastElse[p] + 1].op = "operand" /\ pastElse[p] + 1 + code'[pastElse[p] + 1].arg = Len(code')
         /\ \A c \in 1 .. Len(code) : \/ code'[c] = code[c]
                                      \/ Closes(n) /\ c = hole[p] + 1
                                      \/ IsBranch(n, 3) /\ c = pastElse[p] + 1
         /\ DOMAIN hole' = Node /\ DOMAIN pastElse' = Node
         /\ Condition(n) /\ Kind(p) # "do" => hole'[p] = j + 1
         /\ IsBranch(n, 2) => pastElse'[p] = j + 1
         /\ \A m \in Node : hole'[m] = hole[m] \/ (m = p /\ Condition(n))
         /\ \A m \in Node : pastElse'[m] = pastElse[m] \/ (m = p /\ IsBranch(n, 2))
<1> DEFINE p == Up(n)
           j == Len(code) + Rest(Out(n))
<1>1. n # 1 /\ p \in Node
  BY OrderFacts DEF Close
<1>2. Len(code) \in Nat
  BY DEF Text
<1>3. ~Condition(n) => /\ With(n) \in Text /\ Len(With(n)) = j
                       /\ \A c \in 1 .. Len(code) : With(n)[c] = code[c]
                       /\ Discarded(n) => With(n)[Len(code) + 1] = Cell("pop", 0)
                       /\ Kind(n) = "decl" => With(n)[Len(code) + 1] = Cell("store", n)
                       /\ Rest(Out(n)) \in {0, 1}
  BY <1>1, WithCells
<1>4. /\ Condition(n) => /\ ~Closes(n) /\ ~IsBranch(n, 2) /\ ~IsBranch(n, 3) /\ ~LastOfLoop(n)
                         /\ ~Discarded(n) /\ Kind(n) = "expr"
      /\ IsBranch(n, 2) => Closes(n) /\ ~IsBranch(n, 3) /\ ~LastOfLoop(n) /\ Kind(p) = "if"
      /\ IsBranch(n, 3) => ~Closes(n) /\ ~LastOfLoop(n) /\ Kind(p) = "if"
      /\ LastOfLoop(n) <=> Closes(n) /\ Kind(p) # "if"
      /\ Rest(Out(n)) = IF Discarded(n) \/ Kind(n) = "decl" THEN 1 ELSE 0
      /\ Bears(Out(n)) <=> Condition(n) \/ IsBranch(n, 2) \/ LastOfLoop(n)
  BY <1>1, Roles
<1>5. Out(n) \in Position /\ Size(Out(n)) = Rest(Out(n)) + (IF Bears(Out(n)) THEN 2 ELSE 0)
  BY Positions DEF Size
<1>6. JumpOp(Out(n)) = IF Condition(n) THEN IF Kind(p) = "do" THEN "jumpif" ELSE "jumpnif" ELSE "jump"
  BY Positions DEF JumpOp
<1>7. "jump" \in JumpOps /\ "jumpif" \in JumpOps /\ "jumpnif" \in JumpOps
  BY DEF JumpOps
<1>8. j \in Nat
  BY <1>2, <1>4
<1>9. \A op, arg : Cell(op, arg).op = op /\ Cell(op, arg).arg = arg
  BY DEF Cell
<1> HIDE DEF p, j
<1>10. CASE CloseCondition(n)
  <2>1. /\ code' = code \o <<Cell("jumpnif", 0), Cell("operand", 0)>> /\ Condition(n) /\ Kind(p) # "do"
        /\ hole' = [hole EXCEPT ![p] = Len(code) + 1] /\ pastElse' = pastElse
    BY <1>10 DEF CloseCondition, Hole, p
  <2>2. /\ code' \in Text /\ Len(code') = Len(code) + 2 /\ \A c \in 1 .. Len(code) : code'[c] = code[c]
        /\ code'[Len(code) + 1] = Cell("jumpnif", 0) /\ code'[Len(code) + 2] = Cell("operand", 0)
    BY <1>7, <2>1, JumpCells
  <2>3. j = Len(code) /\ Size(Out(n)) = 2
    BY <1>2, <1>4, <1>5, <2>1 DEF j
  <2> QED BY <1>1, <1>4, <1>5, <1>6, <1>8, <1>9, <2>1, <2>2, <2>3 DEF p, j
<1>11. CASE CloseDoCondition(n)
  <2> DEFINE arg == Operand(Len(code) + 1, top[p])
  <2>1. /\ code' = code \o <<Cell("jumpif", 0), Cell("operand", arg)>> /\ Condition(n) /\ Kind(p) = "do"
        /\ hole' = hole /\ pastElse' = pastElse
    BY <1>11 DEF CloseDoCondition, JumpBack, p
  <2>2. arg \in Int /\ Len(code) + 2 + arg = top[p]
    BY <1>2 DEF Operand, p
  <2> HIDE DEF arg
  <2>3. /\ code' \in Text /\ Len(code') = Len(code) + 2 /\ \A c \in 1 .. Len(code) : code'[c] = code[c]
        /\ code'[Len(code) + 1] = Cell("jumpif", 0) /\ code'[Len(code) + 2] = Cell("operand", arg)
    BY <1>7, <2>1, <2>2, JumpCells
  <2>4. j = Len(code) /\ Size(Out(n)) = 2
    BY <1>2, <1>4, <1>5, <2>1 DEF j
  <2> QED BY <1>1, <1>4, <1>5, <1>6, <1>8, <1>9, <2>1, <2>2, <2>3, <2>4 DEF p, j
<1>12. CASE CloseTrueBranch(n)
  <2> DEFINE s == With(n)
             t == s \o <<Cell("jump", 0), Cell("operand", 0)>>
  <2>1. IsBranch(n, 2) /\ ~Condition(n) /\ Closes(n) /\ ~IsBranch(n, 3) /\ ~LastOfLoop(n) /\ Kind(p) = "if"
    BY <1>4, <1>12 DEF CloseTrueBranch
  <2>2. /\ code' = Patched(t, hole[p], Len(t)) /\ hole' = hole
        /\ pastElse' = [pastElse EXCEPT ![p] = Len(t) - 1]
    BY <1>12 DEF CloseTrueBranch, Hole, p
  <2>3. /\ s \in Text /\ Len(s) = j /\ \A c \in 1 .. Len(code) : s[c] = code[c]
        /\ Discarded(n) => s[Len(code) + 1] = Cell("pop", 0)
        /\ Kind(n) = "decl" => s[Len(code) + 1] = Cell("store", n)
    BY <1>3, <2>1
  <2> HIDE DEF s
  <2>4. /\ t \in Text /\ Len(t) = j + 2 /\ \A c \in 1 .. j : t[c] = s[c]
        /\ t[j + 1] = Cell("jump", 0) /\ t[j + 2] = Cell("operand", 0)
    BY <1>7, <2>3, JumpCells, SMTT(20)
  <2> HIDE DEF t
  <2>5. j = Len(code) + Rest(Out(n)) /\ Rest(Out(n)) \in {0, 1} /\ Size(Out(n)) = Rest(Out(n)) + 2
    BY <1>4, <1>5, <2>1 DEF j
  <2>6. hole[p] \in Nat /\ hole[p] + 1 \in 1 .. Len(code) /\ hole[p] + 1 \in 1 .. Len(t) /\ Len(t) \in Int
    BY <1>2, <1>8, <2>1, <2>4, <2>5 DEF p
  <2>7. /\ code' \in Text /\ Len(code') = Len(t)
        /\ code'[hole[p] + 1].op = "operand" /\ hole[p] + 1 + code'[hole[p] + 1].arg = Len(t)
        /\ \A c \in 1 .. Len(t) : c # hole[p] + 1 => code'[c] = t[c]
    BY <2>2, <2>4, <2>6, PatchedCells, SMTT(20)
  <2>8. Len(code') = Len(code) + Size(Out(n))
    BY <1>2, <2>4, <2>5, <2>7
  <2>9. \A c \in 1 .. Len(code) : c # hole[p] + 1 => code'[c] = code[c]
    <3>1. \A c \in 1 .. Len(code) : c \in 1 .. j /\ c \in 1 .. Len(t)
      BY <1>2, <1>8, <2>4, <2>5
    <3> QED BY <2>3, <2>4, <2>7, <3>1
  <2>10. code'[j + 1] = Cell("jump", 0) /\ code'[j + 2].op = "operand"
    <3>1. j + 1 \in 1 .. Len(t) /\ j + 1 # hole[p] + 1 /\ j + 2 \in 1 .. Len(t) /\ j + 2 # hole[p] + 1
      BY <1>2, <1>8, <2>4, <2>5, <2>6
    <3> QED BY <1>9, <2>4, <2>7, <3>1
  <2>11. Rest(Out(n)) = 1 => code'[Len(code) + 1] = s[Len(code) + 1]
    <3> SUFFICES ASSUME Rest(Out(n)) = 1 PROVE code'[Len(code) + 1] = s[Len(code) + 1]
      OBVIOUS
    <3>1. Len(code) + 1 \in 1 .. j /\ Len(code) + 1 \in 1 .. Len(t) /\ Len(code) + 1 # hole[p] + 1
      BY <1>2, <2>4, <2>5, <2>6
    <3> QED BY <2>4, <2>7, <3>1
  <2>12. pastElse'[p] = j + 1 /\ DOMAIN pastElse' = Node /\ \A m \in Node : m # p => pastElse'[m] = pastElse[m]
    <3>1. Len(t) - 1 = j + 1
      BY <1>8, <2>4
    <3> QED BY <1>1, <2>2, <3>1
  <2>13. Discarded(n) => code'[Len(code) + 1] = Cell("pop", 0)
    BY <1>4, <2>3, <2>11
  <2>14. Kind(n) = "decl" => code'[Len(code) + 1] = Cell("store", n)
    BY <1>4, <2>3, <2>11
  <2> QED BY <1>1, <1>6, <1>8, <2>1, <2>2, <2>7, <2>8, <2>9, <2>10, <2>12, <2>13, <2>14 DEF p, j
<1>13. CASE CloseFalseBranch(n)
  <2> DEFINE t == With(n)
  <2>1. IsBranch(n, 3) /\ ~Condition(n) /\ ~Closes(n) /\ ~IsBranch(n, 2) /\ ~LastOfLoop(n) /\ Kind(p) = "if"
    BY <1>4, <1>13 DEF CloseFalseBranch
  <2>2. code' = Patched(t, pastElse[p], Len(t)) /\ hole' = hole /\ pastElse' = pastElse
    BY <1>13 DEF CloseFalseBranch, p
  <2>3. /\ t \in Text /\ Len(t) = j /\ \A c \in 1 .. Len(code) : t[c] = code[c]
        /\ Discarded(n) => t[Len(code) + 1] = Cell("pop", 0)
        /\ Kind(n) = "decl" => t[Len(code) + 1] = Cell("store", n)
    BY <1>3, <2>1
  <2> HIDE DEF t
  <2>5. j = Len(code) + Rest(Out(n)) /\ Rest(Out(n)) \in {0, 1} /\ Size(Out(n)) = Rest(Out(n)) /\ ~Bears(Out(n))
    BY <1>4, <1>5, <2>1 DEF j
  <2>6. pastElse[p] \in Nat /\ pastElse[p] + 1 \in 1 .. Len(code) /\ pastElse[p] + 1 \in 1 .. Len(t) /\ Len(t) \in Int
    BY <1>2, <1>8, <2>1, <2>3, <2>5 DEF p
  <2>7. /\ code' \in Text /\ Len(code') = Len(t)
        /\ code'[pastElse[p] + 1].op = "operand" /\ pastElse[p] + 1 + code'[pastElse[p] + 1].arg = Len(t)
        /\ \A c \in 1 .. Len(t) : c # pastElse[p] + 1 => code'[c] = t[c]
    BY <2>2, <2>3, <2>6, PatchedCells
  <2>8. Len(code') = Len(code) + Size(Out(n))
    BY <1>2, <2>3, <2>5, <2>7
  <2>9. \A c \in 1 .. Len(code) : c # pastElse[p] + 1 => code'[c] = code[c]
    <3>1. \A c \in 1 .. Len(code) : c \in 1 .. Len(t)
      BY <1>2, <1>8, <2>3, <2>5
    <3> QED BY <2>3, <2>7, <3>1
  <2>11. Rest(Out(n)) = 1 => code'[Len(code) + 1] = t[Len(code) + 1]
    <3> SUFFICES ASSUME Rest(Out(n)) = 1 PROVE code'[Len(code) + 1] = t[Len(code) + 1]
      OBVIOUS
    <3>1. Len(code) + 1 \in 1 .. Len(t) /\ Len(code) + 1 # pastElse[p] + 1
      BY <1>2, <2>3, <2>5, <2>6
    <3> QED BY <2>7, <3>1
  <2>13. Discarded(n) => code'[Len(code) + 1] = Cell("pop", 0)
    BY <1>4, <2>3, <2>11
  <2>14. Kind(n) = "decl" => code'[Len(code) + 1] = Cell("store", n)
    BY <1>4, <2>3, <2>11
  <2> QED BY <1>1, <1>6, <1>8, <2>1, <2>2, <2>5, <2>7, <2>8, <2>9, <2>13, <2>14 DEF p, j
<1>14. CASE CloseOnlyBranch(n)
  <2> DEFINE t == With(n)
  <2>1. /\ Closes(n) /\ ~Condition(n) /\ ~IsBranch(n, 2) /\ ~IsBranch(n, 3) /\ ~LastOfLoop(n) /\ Kind(p) = "if"
    BY <1>1, <1>4, <1>14 DEF CloseOnlyBranch, IsBranch, Closes, p
  <2>2. code' = Patched(t, hole[p], Len(t)) /\ hole' = hole /\ pastElse' = pastElse
    BY <1>14 DEF CloseOnlyBranch, p
  <2>3. /\ t \in Text /\ Len(t) = j /\ \A c \in 1 .. Len(code) : t[c] = code[c]
        /\ Discarded(n) => t[Len(code) + 1] = Cell("pop", 0)
        /\ Kind(n) = "decl" => t[Len(code) + 1] = Cell("store", n)
    BY <1>3, <2>1
  <2> HIDE DEF t
  <2>5. j = Len(code) + Rest(Out(n)) /\ Rest(Out(n)) \in {0, 1} /\ Size(Out(n)) = Rest(Out(n)) /\ ~Bears(Out(n))
    BY <1>4, <1>5, <2>1 DEF j
  <2>6. hole[p] \in Nat /\ hole[p] + 1 \in 1 .. Len(code) /\ hole[p] + 1 \in 1 .. Len(t) /\ Len(t) \in Int
    BY <1>2, <1>8, <2>1, <2>3, <2>5 DEF p
  <2>7. /\ code' \in Text /\ Len(code') = Len(t)
        /\ code'[hole[p] + 1].op = "operand" /\ hole[p] + 1 + code'[hole[p] + 1].arg = Len(t)
        /\ \A c \in 1 .. Len(t) : c # hole[p] + 1 => code'[c] = t[c]
    BY <2>2, <2>3, <2>6, PatchedCells
  <2>8. Len(code') = Len(code) + Size(Out(n))
    BY <1>2, <2>3, <2>5, <2>7
  <2>9. \A c \in 1 .. Len(code) : c # hole[p] + 1 => code'[c] = code[c]
    <3>1. \A c \in 1 .. Len(code) : c \in 1 .. Len(t)
      BY <1>2, <1>8, <2>3, <2>5
    <3> QED BY <2>3, <2>7, <3>1
  <2>11. Rest(Out(n)) = 1 => code'[Len(code) + 1] = t[Len(code) + 1]
    <3> SUFFICES ASSUME Rest(Out(n)) = 1 PROVE code'[Len(code) + 1] = t[Len(code) + 1]
      OBVIOUS
    <3>1. Len(code) + 1 \in 1 .. Len(t) /\ Len(code) + 1 # hole[p] + 1
      BY <1>2, <2>3, <2>5, <2>6
    <3> QED BY <2>7, <3>1
  <2>13. Discarded(n) => code'[Len(code) + 1] = Cell("pop", 0)
    BY <1>4, <2>3, <2>11
  <2>14. Kind(n) = "decl" => code'[Len(code) + 1] = Cell("store", n)
    BY <1>4, <2>3, <2>11
  <2> QED BY <1>1, <1>6, <1>8, <2>1, <2>2, <2>5, <2>7, <2>8, <2>9, <2>13, <2>14 DEF p, j
<1>15. CASE CloseLoop(n)
  <2> DEFINE s == With(n)
             arg == Operand(Len(s) + 1, top[p])
             t == s \o <<Cell("jump", 0), Cell("operand", arg)>>
  <2>1. LastOfLoop(n) /\ ~Condition(n) /\ Closes(n) /\ ~IsBranch(n, 3) /\ ~IsBranch(n, 2) /\ Kind(p) # "if"
    BY <1>4, <1>15 DEF CloseLoop
  <2>2. code' = Patched(t, hole[p], Len(t)) /\ hole' = hole /\ pastElse' = pastElse
    BY <1>15 DEF CloseLoop, JumpBack, p
  <2>3. /\ s \in Text /\ Len(s) = j /\ \A c \in 1 .. Len(code) : s[c] = code[c]
        /\ Discarded(n) => s[Len(code) + 1] = Cell("pop", 0)
        /\ Kind(n) = "decl" => s[Len(code) + 1] = Cell("store", n)
    BY <1>3, <2>1
  <2> HIDE DEF s
  <2>3a. arg \in Int /\ j + 2 + arg = top[p]
    BY <1>8, <2>3 DEF Operand, p
  <2> HIDE DEF arg
  <2>4. /\ t \in Text /\ Len(t) = j + 2 /\ \A c \in 1 .. j : t[c] = s[c]
        /\ t[j + 1] = Cell("jump", 0) /\ t[j + 2] = Cell("operand", arg)
    BY <1>7, <2>3, <2>3a, JumpCells, SMTT(20)
  <2> HIDE DEF t
  <2>5. j = Len(code) + Rest(Out(n)) /\ Rest(Out(n)) \in {0, 1} /\ Size(Out(n)) = Rest(Out(n)) + 2
    BY <1>4, <1>5, <2>1 DEF j
  <2>6. hole[p] \in Nat /\ hole[p] + 1 \in 1 .. Len(code) /\ hole[p] + 1 \in 1 .. Len(t) /\ Len(t) \in Int
    BY <1>2, <1>8, <2>1, <2>4, <2>5 DEF p
  <2>7. /\ code' \in Text /\ Len(code') = Len(t)
        /\ code'[hole[p] + 1].op = "operand" /\ hole[p] + 1 + code'[hole[p] + 1].arg = Len(t)
        /\ \A c \in 1 .. Len(t) : c # hole[p] + 1 => code'[c] = t[c]
    BY <2>2, <2>4, <2>6, PatchedCells, SMTT(20)
  <2>8. Len(code') = Len(code) + Size(Out(n))
    BY <1>2, <2>4, <2>5, <2>7
  <2>9. \A c \in 1 .. Len(code) : c # hole[p] + 1 => code'[c] = code[c]
    <3>1. \A c \in 1 .. Len(code) : c \in 1 .. j /\ c \in 1 .. Len(t)
      BY <1>2, <1>8, <2>4, <2>5
    <3> QED BY <2>3, <2>4, <2>7, <3>1
  <2>10. /\ code'[j + 1] = Cell("jump", 0) /\ code'[j + 2].op = "operand"
         /\ j + 2 + code'[j + 2].arg = top[p]
    <3>1. j + 1 \in 1 .. Len(t) /\ j + 1 # hole[p] + 1 /\ j + 2 \in 1 .. Len(t) /\ j + 2 # hole[p] + 1
      BY <1>2, <1>8, <2>4, <2>5, <2>6
    <3> QED BY <1>9, <2>3a, <2>4, <2>7, <3>1
  <2>11. Rest(Out(n)) = 1 => code'[Len(code) + 1] = s[Len(code) + 1]
    <3> SUFFICES ASSUME Rest(Out(n)) = 1 PROVE code'[Len(code) + 1] = s[Len(code) + 1]
      OBVIOUS
    <3>1. Len(code) + 1 \in 1 .. j /\ Len(code) + 1 \in 1 .. Len(t) /\ Len(code) + 1 # hole[p] + 1
      BY <1>2, <2>4, <2>5, <2>6
    <3> QED BY <2>4, <2>7, <3>1
  <2>13. Discarded(n) => code'[Len(code) + 1] = Cell("pop", 0)
    BY <1>4, <2>3, <2>11
  <2>14. Kind(n) = "decl" => code'[Len(code) + 1] = Cell("store", n)
    BY <1>4, <2>3, <2>11
  <2> QED BY <1>1, <1>6, <1>8, <2>1, <2>2, <2>7, <2>8, <2>9, <2>10, <2>13, <2>14 DEF p, j
<1>16. CASE CloseOther(n)
  <2>1. /\ code' = With(n) /\ hole' = hole /\ pastElse' = pastElse /\ ~Condition(n) /\ ~LastOfLoop(n)
        /\ Kind(p) = "if" => Place(n) = 1
    BY <1>16 DEF CloseOther, p
  <2>2. Kind(p) # "if"
    BY <1>1, <2>1 DEF Condition, p
  <2>3. ~IsBranch(n, 2) /\ ~IsBranch(n, 3) /\ ~Closes(n)
    BY <1>4, <2>1, <2>2
  <2>4. ~Bears(Out(n)) /\ Size(Out(n)) = Rest(Out(n))
    BY <1>4, <1>5, <2>1, <2>3
  <2> QED BY <1>1, <1>3, <1>8, <2>1, <2>2, <2>3, <2>4 DEF p, j
<1> QED BY <1>10, <1>11, <1>12, <1>13, <1>14, <1>15, <1>16 DEF Close, p, j

-----------------------------------------------------------------------------
(* What the emission keeps. *)

\* Where the jumps of a statement lead that are patched when its part n ends.
JointsOf(w, n, D, text) ==
  /\ Condition(n) /\ Kind(Up(n)) = "do" =>
       Taken(n, TRUE) \in D /\ LeadsTo(text, JumpAt(w, Out(n)), w[Taken(n, TRUE)])
  /\ LastOfLoop(n) => Again(n) \in D /\ LeadsTo(text, JumpAt(w, Out(n)), w[Again(n)])
  /\ \A m \in Children(Up(n)) :
       \/ Closes(n) /\ Condition(m)
       \/ IsBranch(n, 3) /\ IsBranch(m, 2)
       => Out(m) \in D /\ LeadsTo(text, JumpAt(w, Out(m)), w[Succ(Out(n))])

\* What the compiler remembers for those it has still to patch.
RememberedOf(w, n, D, tops, holes, pastElses) ==
  /\ In(n) \in D /\ Kind(n) \in {"while", "do"} => tops[n] = w[In(n)]
  /\ In(n) \in D /\ Condition(n) /\ Kind(Up(n)) = "for" => tops[Up(n)] = w[In(n)]
  /\ Out(n) \in D /\ Condition(n) /\ Kind(Up(n)) # "do" => holes[Up(n)] = JumpAt(w, Out(n)) + 1
  /\ Out(n) \in D /\ IsBranch(n, 2) => pastElses[Up(n)] = JumpAt(w, Out(n)) + 1

\* Every value is computed for an expression, and stored for a declaration.
Evaluated(w, c, D, cell) ==
  \E n \in Node : Kind(n) = "expr" /\ In(n) \in D /\ c = w[In(n)] + 1 /\ cell.arg = n
Stored(w, c, D, cell) ==
  \E n \in Node : Kind(n) = "decl" /\ Out(n) \in D /\ c = w[Out(n)] + 1 /\ cell.arg = n

Known(w, D, text) ==
  \A c \in 1 .. Len(text) :
    /\ text[c].op = "eval" => Evaluated(w, c, D, text[c])
    /\ text[c].op = "store" => Stored(w, c, D, text[c])

\* The maps hold the last jump and the last label of each name.
Named(D, kind, l) == {n \in Node : Kind(n) = kind /\ Name(n) = l /\ In(n) \in D}
Latest(w, D, jumps, labelsAt) ==
  \A l \in Names :
    /\ Named(D, "jump", l) = {} => jumps[l] = 0
    /\ \A j \in Named(D, "jump", l) : (\A k \in Named(D, "jump", l) : k <= j) => jumps[l] = w[In(j)] + 1
    /\ \A j \in Named(D, "label", l) : (\A k \in Named(D, "label", l) : k <= j) => labelsAt[l] = w[In(j)]
\* Until the end none leads anywhere but behind itself.
Unpatched(w, D, text) == \A j \in Node : Kind(j) = "jump" /\ In(j) \in D => LeadsTo(text, w[In(j)], w[In(j)] + 2)

\* The picture when the visitor is at q.
Drawn(w, q, text, tops, holes, pastElses, jumps, labelsAt) ==
  /\ w \in [Position -> Nat] /\ w[Begin] = 0 /\ w[q] = Len(text)
  /\ \A r \in Done(q) : Succ(r) \in Done(q) \cup {q}
  /\ Pictured(w, Done(q), text)
  /\ \A n \in Node : n # 1 /\ Out(n) \in Done(q) => JointsOf(w, n, Done(q), text)
  /\ \A n \in Node : RememberedOf(w, n, Done(q), tops, holes, pastElses)
  /\ Known(w, Done(q), text)
  /\ Latest(w, Done(q), jumps, labelsAt)
  /\ Unpatched(w, Done(q), text)

\* What is said of positions and of jumps but the owner's goes on to be so.
Carried(w, v, D, text, after, owner) ==
  /\ \A r \in D : v[r] = w[r] /\ v[Succ(r)] = w[Succ(r)]
  /\ \A r \in D : /\ Bears(r) => JumpAt(v, r) = JumpAt(w, r)
                  /\ Bears(r) /\ r # owner => after[JumpAt(w, r) + 2] = text[JumpAt(w, r) + 2]

\* Nothing has been said yet of where the owner's jump leads.
Undisturbed(owner, D) ==
  \A n \in Node : n # 1 /\ Out(n) \in D =>
    /\ Condition(n) /\ Kind(Up(n)) = "do" => owner # Out(n)
    /\ LastOfLoop(n) => owner # Out(n)
    /\ \A m \in Children(Up(n)) :
         (Closes(n) /\ Condition(m)) \/ (IsBranch(n, 3) /\ IsBranch(m, 2)) => owner # Out(m)

\* What the jumps of a statement lead to they go on to lead to.
LEMMA JointsKept ==
  ASSUME Ordered, NEW w, NEW v, NEW D, NEW E, D \subseteq E, NEW text, NEW after, NEW owner,
         Carried(w, v, D, text, after, owner), Undisturbed(owner, D),
         NEW n \in Node, n # 1, Out(n) \in D, JointsOf(w, n, D, text)
  PROVE  JointsOf(v, n, E, after)
<1>1. ASSUME NEW r \in D, Bears(r), r # owner, NEW x, NEW y, x = y, LeadsTo(text, JumpAt(w, r), x)
      PROVE  LeadsTo(after, JumpAt(v, r), y)
  BY <1>1 DEF Carried, LeadsTo
<1>2. Bears(Out(n)) <=> Condition(n) \/ IsBranch(n, 2) \/ LastOfLoop(n)
  BY Roles
<1>3. v[Succ(Out(n))] = w[Succ(Out(n))] /\ \A r \in D : v[r] = w[r]
  BY DEF Carried
<1>4. ASSUME Condition(n), Kind(Up(n)) = "do"
      PROVE  Taken(n, TRUE) \in E /\ LeadsTo(after, JumpAt(v, Out(n)), v[Taken(n, TRUE)])
  <2>1. Taken(n, TRUE) \in D /\ LeadsTo(text, JumpAt(w, Out(n)), w[Taken(n, TRUE)])
    BY <1>4 DEF JointsOf
  <2>2. owner # Out(n)
    BY <1>4 DEF Undisturbed
  <2>3. v[Taken(n, TRUE)] = w[Taken(n, TRUE)]
    BY <1>3, <2>1
  <2> QED BY <1>1, <1>2, <1>4, <2>1, <2>2, <2>3
<1>5. ASSUME LastOfLoop(n)
      PROVE  Again(n) \in E /\ LeadsTo(after, JumpAt(v, Out(n)), v[Again(n)])
  <2>1. Again(n) \in D /\ LeadsTo(text, JumpAt(w, Out(n)), w[Again(n)])
    BY <1>5 DEF JointsOf
  <2>2. owner # Out(n)
    BY <1>5 DEF Undisturbed
  <2>3. v[Again(n)] = w[Again(n)]
    BY <1>3, <2>1
  <2> QED BY <1>1, <1>2, <1>5, <2>1, <2>2, <2>3
<1>6. ASSUME NEW m \in Children(Up(n)),
             (Closes(n) /\ Condition(m)) \/ (IsBranch(n, 3) /\ IsBranch(m, 2))
      PROVE  Out(m) \in E /\ LeadsTo(after, JumpAt(v, Out(m)), v[Succ(Out(n))])
  <2>1. Out(m) \in D /\ LeadsTo(text, JumpAt(w, Out(m)), w[Succ(Out(n))])
    BY <1>6 DEF JointsOf
  <2>2. owner # Out(m)
    BY <1>6 DEF Undisturbed
  <2>3. Bears(Out(m))
    <3>1. m \in Node /\ m # 1
      BY OrderFacts, ChildFacts
    <3> QED BY <1>6, <3>1, Roles
  <2> QED BY <1>1, <1>3, <2>1, <2>2, <2>3
<1> QED BY <1>4, <1>5, <1>6 DEF JointsOf

LEMMA KnownKept ==
  ASSUME NEW w, NEW v, NEW D, NEW E, D \subseteq E, NEW text, NEW after,
         \A r \in D : v[r] = w[r],
         \A c \in 1 .. Len(text) : after[c] = text[c] \/ after[c].op = "operand",
         Known(w, D, text),
         NEW c \in 1 .. Len(text)
  PROVE  /\ after[c].op = "eval" => Evaluated(v, c, E, after[c])
         /\ after[c].op = "store" => Stored(v, c, E, after[c])
<1>1. after[c].op \in {"eval", "store"} => after[c] = text[c]
  OBVIOUS
<1>2. ASSUME after[c].op = "eval" PROVE Evaluated(v, c, E, after[c])
  <2>1. Evaluated(w, c, D, text[c])
    BY <1>1, <1>2 DEF Known
  <2> QED BY <1>1, <1>2, <2>1 DEF Evaluated
<1>3. ASSUME after[c].op = "store" PROVE Stored(v, c, E, after[c])
  <2>1. Stored(w, c, D, text[c])
    BY <1>1, <1>3 DEF Known
  <2> QED BY <1>1, <1>3, <2>1 DEF Stored
<1> QED BY <1>2, <1>3

\* A statement has one condition and one part that closes it.
LEMMA OnePart ==
  ASSUME Ordered, NEW p \in Node, NEW c \in Children(p), NEW d \in Children(p),
         \/ Condition(c) /\ Condition(d)
         \/ Closes(c) /\ Closes(d)
         \/ \E k : IsBranch(c, k) /\ IsBranch(d, k)
  PROVE  c = d
<1>1. Up(c) = p /\ Up(d) = p /\ c # 1 /\ d # 1
  BY ChildFacts
<1>2. Place(c) = Place(d)
  BY <1>1 DEF Condition, Closes, Late, IsBranch
<1> QED BY <1>2, ChildUnique

LEMMA OpenCells ==
  ASSUME Ordered, NEW n \in Node, code \in Text, NEW w, w[In(n)] = Len(code), Open(n)
  PROVE  /\ code' \in Text
         /\ Grown(w, In(n), code, code', In(n))
         /\ \A c \in 1 .. Len(code) : code'[c] = code[c]
         /\ Kind(n) = "jump" => LeadsTo(code', Len(code), Len(code) + 2)
         /\ \A c \in Len(code) + 1 .. Len(code') :
              /\ code'[c].op = "eval" => Kind(n) = "expr" /\ c = Len(code) + 1 /\ code'[c].arg = n
              /\ code'[c].op # "store"
<1> DEFINE q == In(n)
<1>1. code' = code \o Opening(n) /\ Len(code) \in Nat /\ n \in Int
  BY OrderFacts DEF Open, Text
<1>2. q \in Position /\ q[1] = n /\ q[2] = "in" /\ q # Out(n)
  BY Positions
<1>3. Bears(q) <=> Kind(n) = "jump"
  BY <1>2 DEF Bears
<1>4. Size(q) = Rest(q) + (IF Bears(q) THEN 2 ELSE 0)
  BY DEF Size
<1>5. Rest(q) = IF Kind(n) \in {"expr", "return", "state"} THEN 1 ELSE 0
  BY <1>2 DEF Rest
<1>6. JumpAt(w, q) = Len(code) + Rest(q)
  BY DEF JumpAt
<1>6a. JumpOp(q) = "jump"
  BY <1>2 DEF JumpOp
<1>7. \A op, arg : Cell(op, arg).op = op /\ Cell(op, arg).arg = arg
  BY DEF Cell
<1> HIDE DEF q
<1>8. ASSUME \A c \in 1 .. Len(code) : code'[c] = code[c], Len(code') = Len(code) + Size(q), CellsOf(w, q, code')
      PROVE  Grown(w, q, code, code', q)
  BY <1>8 DEF Grown
<1>9. CASE Kind(n) = "expr"
  <2>1. code' = code \o <<Cell("eval", n)>> /\ Cell("eval", n) \in [op : Ops, arg : Int]
    BY <1>1, <1>9 DEF Opening, Cell, Ops, Visible
  <2>2. /\ code' \in Text /\ Len(code') = Len(code) + 1 /\ code'[Len(code) + 1] = Cell("eval", n)
        /\ \A c \in 1 .. Len(code) : code'[c] = code[c]
    BY <2>1, Lengthened
  <2>3. CellsOf(w, q, code') /\ Size(q) = 1
    BY <1>2, <1>3, <1>4, <1>5, <1>9, <2>2 DEF CellsOf, q
  <2>4. Grown(w, q, code, code', q)
    BY <1>8, <2>2, <2>3
  <2>5. \A c \in Len(code) + 1 .. Len(code') : c = Len(code) + 1
    BY <1>1, <2>2
  <2> QED BY <1>7, <1>9, <2>2, <2>4, <2>5 DEF q
<1>10. CASE Kind(n) = "jump"
  <2>1. code' = code \o <<Cell("jump", 0), Cell("operand", 0)>> /\ "jump" \in JumpOps
    BY <1>1, <1>10 DEF Opening, Hole, JumpOps
  <2>2. /\ code' \in Text /\ Len(code') = Len(code) + 2 /\ \A c \in 1 .. Len(code) : code'[c] = code[c]
        /\ code'[Len(code) + 1] = Cell("jump", 0) /\ code'[Len(code) + 2] = Cell("operand", 0)
    BY <2>1, JumpCells
  <2>3. Rest(q) = 0 /\ Size(q) = 2
    BY <1>3, <1>4, <1>5, <1>10
  <2>3a. JumpAt(w, q) = Len(code)
    BY <1>1, <1>6, <2>3
  <2>4. CellsOf(w, q, code')
    BY <1>2, <1>6a, <1>7, <1>10, <2>2, <2>3a DEF CellsOf
  <2>5. Grown(w, q, code, code', q)
    BY <1>8, <2>2, <2>3, <2>4
  <2>6. \A c \in Len(code) + 1 .. Len(code') : c = Len(code) + 1 \/ c = Len(code) + 2
    BY <1>1, <2>2
  <2>7. LeadsTo(code', Len(code), Len(code) + 2)
    BY <1>1, <1>7, <2>2 DEF LeadsTo
  <2>8. \A c \in Len(code) + 1 .. Len(code') : code'[c].op \notin {"eval", "store"}
    BY <1>7, <2>2, <2>6
  <2> QED BY <2>2, <2>5, <2>7, <2>8 DEF q
<1>11. CASE Kind(n) \in {"return", "state"}
  <2>1. code' = code \o <<Cell(Kind(n), n)>> /\ Cell(Kind(n), n) \in [op : Ops, arg : Int]
    BY <1>1, <1>11 DEF Opening, Cell, Ops, Visible
  <2>2. /\ code' \in Text /\ Len(code') = Len(code) + 1 /\ code'[Len(code) + 1] = Cell(Kind(n), n)
        /\ \A c \in 1 .. Len(code) : code'[c] = code[c]
    BY <2>1, Lengthened
  <2>3. CellsOf(w, q, code') /\ Size(q) = 1
    BY <1>2, <1>3, <1>4, <1>5, <1>11, <2>2 DEF CellsOf, q
  <2>4. Grown(w, q, code, code', q)
    BY <1>8, <2>2, <2>3
  <2>5. \A c \in Len(code) + 1 .. Len(code') : c = Len(code) + 1
    BY <1>1, <2>2
  <2> QED BY <1>7, <1>11, <2>2, <2>4, <2>5 DEF q
<1>12. CASE Kind(n) \notin {"expr", "jump", "return", "state"}
  <2>1. code' = code
    <3>1. code' = code \o <<>>
      BY <1>1, <1>12 DEF Opening
    <3> QED BY <3>1 DEF Text
  <2>2. Size(q) = 0 /\ CellsOf(w, q, code')
    BY <1>2, <1>3, <1>4, <1>5, <1>12 DEF CellsOf
  <2>3. Len(code') = Len(code) + Size(q)
    BY <1>1, <2>1, <2>2
  <2>4. Grown(w, q, code, code', q)
    BY <1>8, <2>1, <2>2, <2>3
  <2>5. Len(code) + 1 .. Len(code') = {}
    BY <1>1, <2>1
  <2> QED BY <1>12, <2>1, <2>4, <2>5 DEF q
<1> QED BY <1>9, <1>10, <1>11, <1>12

-----------------------------------------------------------------------------
(* The last jump and the last label of a name. *)

LEMMA NamedFacts ==
  ASSUME NEW D, NEW kind, NEW l
  PROVE  /\ \A n : n \in Named(D, kind, l) <=> n \in Node /\ Kind(n) = kind /\ Name(n) = l /\ In(n) \in D
BY DEF Named

LEMMA LatestKept ==
  ASSUME Ordered, NEW n \in Node, NEW w, NEW v, NEW D, NEW E, E = D \cup {In(n)},
         \A r \in E : v[r] = w[r],
         Kind(n) \in {"jump", "label"} => \A m \in Node : In(m) \in D => m < n,
         NEW jumps, NEW jumpsAfter, NEW labelsAt, NEW labelsAfter, Latest(w, D, jumps, labelsAt),
         \A l \in Names :
           IF Kind(n) = "jump" /\ Name(n) = l THEN jumpsAfter[l] = w[In(n)] + 1 ELSE jumpsAfter[l] = jumps[l],
         \A l \in Names :
           IF Kind(n) = "label" /\ Name(n) = l THEN labelsAfter[l] = w[In(n)] ELSE labelsAfter[l] = labelsAt[l]
  PROVE  Latest(v, E, jumpsAfter, labelsAfter)
<1> SUFFICES ASSUME NEW l \in Names
             PROVE  /\ Named(E, "jump", l) = {} => jumpsAfter[l] = 0
                    /\ \A j \in Named(E, "jump", l) :
                         (\A k \in Named(E, "jump", l) : k <= j) => jumpsAfter[l] = v[In(j)] + 1
                    /\ \A j \in Named(E, "label", l) :
                         (\A k \in Named(E, "label", l) : k <= j) => labelsAfter[l] = v[In(j)]
  BY DEF Latest
<1>1. /\ Named(D, "jump", l) = {} => jumps[l] = 0
      /\ \A j \in Named(D, "jump", l) : (\A k \in Named(D, "jump", l) : k <= j) => jumps[l] = w[In(j)] + 1
      /\ \A j \in Named(D, "label", l) : (\A k \in Named(D, "label", l) : k <= j) => labelsAt[l] = w[In(j)]
  BY DEF Latest
<1>2. \A kind, j : j \in Named(D, kind, l) => j \in Node /\ In(j) \in E /\ v[In(j)] = w[In(j)] /\ Kind(j) = kind
  BY NamedFacts
<1>3. \A kind, j : j \in Named(E, kind, l) <=> j \in Named(D, kind, l) \/ (j = n /\ Kind(n) = kind /\ Name(n) = l)
  BY NamedFacts, Positions
<1>4. ASSUME NEW kind, NEW j \in Named(D, kind, l), Kind(n) = kind, kind \in {"jump", "label"} PROVE ~ (n <= j)
  <2>1. j \in Node /\ In(j) \in D
    BY NamedFacts
  <2> QED BY <1>4, <2>1, OrderFacts
<1>5. CASE Kind(n) = "jump" /\ Name(n) = l
  <2>1. n \in Named(E, "jump", l) /\ v[In(n)] = w[In(n)]
    BY <1>3, <1>5
  <2>2. \A j \in Named(E, "jump", l) : (\A k \in Named(E, "jump", l) : k <= j) => j = n
    BY <1>3, <1>4, <1>5, <2>1
  <2>3. \A j : j \in Named(E, "label", l) <=> j \in Named(D, "label", l)
    BY <1>3, <1>5
  <2>4. jumpsAfter[l] = w[In(n)] + 1 /\ labelsAfter[l] = labelsAt[l]
    BY <1>5
  <2> QED BY <1>1, <1>2, <2>1, <2>2, <2>3, <2>4
<1>6. CASE Kind(n) = "label" /\ Name(n) = l
  <2>1. n \in Named(E, "label", l) /\ v[In(n)] = w[In(n)]
    BY <1>3, <1>6
  <2>2. \A j \in Named(E, "label", l) : (\A k \in Named(E, "label", l) : k <= j) => j = n
    BY <1>3, <1>4, <1>6, <2>1
  <2>3. \A j : j \in Named(E, "jump", l) <=> j \in Named(D, "jump", l)
    BY <1>3, <1>6
  <2>4. jumpsAfter[l] = jumps[l] /\ labelsAfter[l] = w[In(n)]
    BY <1>6
  <2> QED BY <1>1, <1>2, <2>1, <2>2, <2>3, <2>4
<1>7. CASE ~ (Kind(n) \in {"jump", "label"} /\ Name(n) = l)
  <2>1. \A kind \in {"jump", "label"} : \A j : j \in Named(E, kind, l) <=> j \in Named(D, kind, l)
    BY <1>3, <1>7
  <2>2. jumpsAfter[l] = jumps[l] /\ labelsAfter[l] = labelsAt[l]
    BY <1>7
  <2> QED BY <1>1, <1>2, <2>1, <2>2
<1> QED BY <1>5, <1>6, <1>7

\* Coming to a node adds its position to the picture.
LEMMA OpenDraws ==
  ASSUME Ordered, Emission, NEW n \in Node, Open(n), NEW w,
         Drawn(w, emitAt, code, top, hole, pastElse, jumpMap, labelMap)
  PROVE  \E v : Drawn(v, emitAt', code', top', hole', pastElse', jumpMap', labelMap')
<1> DEFINE q == In(n)
           D == Done(q)
           E == Done(Succ(q))
           v == [w EXCEPT ![Succ(q)] = Len(code')]
<1>1. emitAt = q /\ emitAt' = Succ(q) /\ hole' = hole /\ pastElse' = pastElse
  BY Positions DEF Open, Succ
<1>2. /\ code \in Text /\ DOMAIN top = Node /\ DOMAIN jumpMap = Names /\ DOMAIN labelMap = Names
      /\ Len(code) \in Nat
  BY DEF Emission, Emitted, Text
<1>3. q \in Position /\ q # End /\ q[1] = n
  BY Positions DEF End, In
<1>4. /\ w \in [Position -> Nat] /\ w[Begin] = 0 /\ w[q] = Len(code)
      /\ \A r \in D : Succ(r) \in D \cup {q}
      /\ Pictured(w, D, code)
      /\ \A m \in Node : m # 1 /\ Out(m) \in D => JointsOf(w, m, D, code)
      /\ \A m \in Node : RememberedOf(w, m, D, top, hole, pastElse)
      /\ Known(w, D, code) /\ Latest(w, D, jumpMap, labelMap) /\ Unpatched(w, D, code)
  BY <1>1 DEF Drawn
<1>5. E = D \cup {q} /\ q \notin D /\ D \subseteq Position
  BY <1>3, DoneGrows, DoneFacts
<1>6. /\ code' \in Text /\ Grown(w, q, code, code', q)
      /\ \A c \in 1 .. Len(code) : code'[c] = code[c]
      /\ Kind(n) = "jump" => LeadsTo(code', Len(code), Len(code) + 2)
      /\ \A c \in Len(code) + 1 .. Len(code') :
           /\ code'[c].op = "eval" => Kind(n) = "expr" /\ c = Len(code) + 1 /\ code'[c].arg = n
           /\ code'[c].op # "store"
  BY <1>2, <1>4, OpenCells
<1>7. /\ v \in [Position -> Nat] /\ v[Succ(q)] = Len(code') /\ v[Begin] = w[Begin]
      /\ \A r \in D \cup {q} : v[r] = w[r] /\ r \in Position
      /\ \A r \in D : v[Succ(r)] = w[Succ(r)]
      /\ \A r \in E : Succ(r) \in E \cup {Succ(q)}
      /\ Pictured(v, E, code')
      /\ \A r \in D : /\ Bears(r) => JumpAt(v, r) = JumpAt(w, r) /\ JumpAt(w, r) + 2 \in 1 .. Len(code)
                      /\ Bears(r) /\ r # q => code'[JumpAt(w, r) + 2] = code[JumpAt(w, r) + 2]
  BY <1>2, <1>3, <1>4, <1>6, Extended
<1> HIDE DEF v, E, D, q
<1>8. Carried(w, v, D, code, code', q)
  BY <1>7 DEF Carried
<1>9. Undisturbed(q, D)
  BY Positions DEF Undisturbed, q
<1>10. \A m : Out(m) \in E => Out(m) \in D
  BY <1>5, Positions DEF q
<1>11. \A m : In(m) \in E => In(m) \in D \/ m = n
  BY <1>5, Positions DEF q
<1>12. \A m \in Node : m # 1 /\ Out(m) \in E => JointsOf(v, m, E, code')
  <2> SUFFICES ASSUME NEW m \in Node, m # 1, Out(m) \in E PROVE JointsOf(v, m, E, code')
    OBVIOUS
  <2>1. Out(m) \in D /\ JointsOf(w, m, D, code) /\ D \subseteq E
    BY <1>4, <1>5, <1>10
  <2> QED BY <1>8, <1>9, <2>1, JointsKept
<1>13. \A m \in Node : RememberedOf(v, m, E, top', hole', pastElse')
  <2> SUFFICES ASSUME NEW m \in Node PROVE RememberedOf(v, m, E, top', hole', pastElse')
    OBVIOUS
  <2>1. /\ In(m) \in D /\ Kind(m) \in {"while", "do"} => top[m] = w[In(m)]
        /\ In(m) \in D /\ Condition(m) /\ Kind(Up(m)) = "for" => top[Up(m)] = w[In(m)]
        /\ Out(m) \in D /\ Condition(m) /\ Kind(Up(m)) # "do" => hole[Up(m)] = JumpAt(w, Out(m)) + 1
        /\ Out(m) \in D /\ IsBranch(m, 2) => pastElse[Up(m)] = JumpAt(w, Out(m)) + 1
    BY <1>4 DEF RememberedOf
  <2>2. top' = IF Kind(n) \in {"while", "do"} THEN [top EXCEPT ![n] = Len(code)]
               ELSE IF Condition(n) /\ Kind(Up(n)) = "for" THEN [top EXCEPT ![Up(n)] = Len(code)]
               ELSE top
    BY DEF Open
  <2>3. Condition(m) => Kind(m) = "expr" /\ m # 1 /\ Up(m) \in Node /\ m \in Children(Up(m))
    BY ConditionFacts, OrderFacts, ChildFacts DEF Condition
  <2>4. Condition(n) => Kind(n) = "expr" /\ n # 1 /\ Up(n) \in Node /\ n \in Children(Up(n))
    BY ConditionFacts, OrderFacts, ChildFacts DEF Condition
  <2>5. v[q] = Len(code) /\ \A r \in D : v[r] = w[r]
    BY <1>4, <1>7
  <2>6. ASSUME In(m) \in E, Kind(m) \in {"while", "do"} PROVE top'[m] = v[In(m)]
    <3>1. CASE m = n
      BY <1>2, <2>2, <2>5, <2>6, <3>1 DEF q
    <3>2. CASE m # n
      <4>1. top'[m] = top[m]
        BY <1>2, <2>2, <2>6, <3>2
      <4> QED BY <1>11, <2>1, <2>5, <2>6, <3>2, <4>1
    <3> QED BY <3>1, <3>2
  <2>7. ASSUME In(m) \in E, Condition(m), Kind(Up(m)) = "for" PROVE top'[Up(m)] = v[In(m)]
    <3>1. CASE m = n
      BY <1>2, <2>2, <2>3, <2>5, <2>7, <3>1 DEF q
    <3>2. CASE m # n
      <4>1. Condition(n) => Up(m) # Up(n)
        BY <2>3, <2>4, <2>7, <3>2, OnePart
      <4>2. top'[Up(m)] = top[Up(m)]
        BY <1>2, <2>2, <2>3, <2>7, <4>1
      <4> QED BY <1>11, <2>1, <2>5, <2>7, <3>2, <4>2
    <3> QED BY <3>1, <3>2
  <2>8. m # 1 => (Bears(Out(m)) <=> Condition(m) \/ IsBranch(m, 2) \/ LastOfLoop(m))
    BY Roles
  <2>9. Out(m) \in E /\ Condition(m) /\ Kind(Up(m)) # "do" => hole'[Up(m)] = JumpAt(v, Out(m)) + 1
    BY <1>1, <1>7, <1>10, <2>1, <2>3, <2>8
  <2>10. Out(m) \in E /\ IsBranch(m, 2) => pastElse'[Up(m)] = JumpAt(v, Out(m)) + 1
    BY <1>1, <1>7, <1>10, <2>1, <2>8 DEF IsBranch
  <2> QED BY <2>6, <2>7, <2>9, <2>10 DEF RememberedOf
<1>14. Known(v, E, code')
  <2> SUFFICES ASSUME NEW c \in 1 .. Len(code')
               PROVE  /\ code'[c].op = "eval" => Evaluated(v, c, E, code'[c])
                      /\ code'[c].op = "store" => Stored(v, c, E, code'[c])
    BY DEF Known
  <2>1. CASE c \in 1 .. Len(code)
    <3>1. /\ \A r \in D : v[r] = w[r]
          /\ \A x \in 1 .. Len(code) : code'[x] = code[x] \/ code'[x].op = "operand"
          /\ D \subseteq E /\ Known(w, D, code)
      BY <1>4, <1>5, <1>6, <1>7
    <3> QED BY <2>1, <3>1, KnownKept
  <2>2. CASE c \notin 1 .. Len(code)
    <3>1. Len(code') \in Nat
      BY <1>6 DEF Text
    <3>2. c \in Len(code) + 1 .. Len(code')
      BY <1>2, <2>2, <3>1
    <3>3. In(n) \in E /\ v[In(n)] = Len(code)
      BY <1>4, <1>5, <1>7 DEF q
    <3> QED BY <1>6, <3>2, <3>3 DEF Evaluated
  <2> QED BY <2>1, <2>2
<1>15. Latest(v, E, jumpMap', labelMap')
  <2>1. Kind(n) \in {"jump", "label"} => \A m \in Node : In(m) \in D => m < n
    <3> SUFFICES ASSUME Kind(n) \in {"jump", "label"}, NEW m \in Node, In(m) \in D PROVE m < n
      OBVIOUS
    <3>1. ~Late(n)
      BY LateFacts
    <3> QED BY <3>1, EmittedBefore DEF D, q
  <2>2. jumpMap' = IF Kind(n) = "jump" THEN [jumpMap EXCEPT ![Name(n)] = Len(code) + 1] ELSE jumpMap
    BY DEF Open
  <2>3. labelMap' = IF Kind(n) = "label" THEN [labelMap EXCEPT ![Name(n)] = Len(code)] ELSE labelMap
    BY DEF Open
  <2>4. \A l \in Names :
          IF Kind(n) = "jump" /\ Name(n) = l THEN jumpMap'[l] = w[In(n)] + 1 ELSE jumpMap'[l] = jumpMap[l]
    BY <1>2, <1>4, <2>2 DEF q
  <2>5. \A l \in Names :
          IF Kind(n) = "label" /\ Name(n) = l THEN labelMap'[l] = w[In(n)] ELSE labelMap'[l] = labelMap[l]
    BY <1>2, <1>4, <2>3 DEF q
  <2>6. E = D \cup {In(n)} /\ \A r \in E : v[r] = w[r]
    BY <1>5, <1>7 DEF q
  <2> QED BY <1>4, <2>1, <2>4, <2>5, <2>6, LatestKept
<1>16. Unpatched(v, E, code')
  <2> SUFFICES ASSUME NEW j \in Node, Kind(j) = "jump", In(j) \in E
               PROVE  LeadsTo(code', v[In(j)], v[In(j)] + 2)
    BY DEF Unpatched
  <2>1. CASE j = n
    BY <1>4, <1>6, <1>7, <2>1 DEF q
  <2>2. CASE j # n
    <3>1. In(j) \in D /\ LeadsTo(code, w[In(j)], w[In(j)] + 2) /\ v[In(j)] = w[In(j)] /\ In(j) # q /\ w[In(j)] \in Nat
      BY <1>4, <1>5, <1>7, <1>11, <2>2, Positions DEF Unpatched, q
    <3>2. Bears(In(j)) /\ Rest(In(j)) = 0
      BY Positions DEF Bears, Rest
    <3>3. JumpAt(w, In(j)) = w[In(j)]
      BY <3>1, <3>2 DEF JumpAt
    <3> QED BY <1>7, <3>1, <3>2, <3>3 DEF LeadsTo
  <2> QED BY <2>1, <2>2
<1>17. Drawn(v, Succ(q), code', top', hole', pastElse', jumpMap', labelMap')
  BY <1>4, <1>7, <1>12, <1>13, <1>14, <1>15, <1>16 DEF Drawn, E
<1> QED BY <1>1, <1>17

-----------------------------------------------------------------------------
(* The jump that closing a node patches. *)

\* The part whose jump another part closes stands before it.
LEMMA PartBefore ==
  ASSUME Ordered, NEW n \in Node, n # 1
  PROVE  /\ Closes(n) => \E m \in Children(Up(n)) : Condition(m) /\ m < n /\ ~Late(m)
         /\ IsBranch(n, 3) => \E m \in Children(Up(n)) : IsBranch(m, 2) /\ m < n /\ ~Late(m)
         /\ LastOfLoop(n) \/ (Condition(n) /\ Kind(Up(n)) = "do") =>
              \E m \in Children(Up(n)) :
                /\ m < n /\ ~Late(m)
                /\ IF Kind(Up(n)) = "for" THEN Condition(m)
                   ELSE Kind(Up(n)) \in {"while", "do"} /\ Descend(Up(n)) = In(m)
                /\ LastOfLoop(n) => Again(n) = In(m)
                /\ Condition(n) => Taken(n, TRUE) = In(m)
<1> DEFINE p == Up(n)
<1>1. p \in Node /\ n \in Children(p)
  BY OrderFacts, ChildFacts
<1>2. \A m \in Children(p) : m \in Node /\ m # 1 /\ Up(m) = p
  BY <1>1, ChildFacts
<1>3. ASSUME Kind(p) \in Loops \cup {"if"}, NEW k \in {1, 2}, Place(n) > k
      PROVE  /\ Child(p, k) \in Children(p) /\ Place(Child(p, k)) = k /\ Child(p, k) < n
             /\ ~Late(Child(p, k))
  <2>1. Child(p, k) \in Children(p) /\ Place(Child(p, k)) = k
    BY <1>1, <1>3, PartsOfStatement
  <2>2. Child(p, k) < n
    BY <1>1, <1>3, <2>1, PlacesOrder
  <2> QED BY <2>1, <2>2 DEF Late
<1>4. ASSUME Closes(n) PROVE \E m \in Children(p) : Condition(m) /\ m < n /\ ~Late(m)
  <2>1. CASE Kind(p) \in {"if", "while"} /\ Place(n) = 2
    <3>1. Child(p, 1) \in Children(p) /\ Place(Child(p, 1)) = 1 /\ Child(p, 1) < n /\ ~Late(Child(p, 1))
      BY <1>3, <2>1 DEF Loops
    <3>2. Condition(Child(p, 1))
      BY <1>2, <2>1, <3>1 DEF Condition, Loops
    <3> QED BY <3>1, <3>2
  <2>2. CASE Kind(p) = "for" /\ Place(n) = 3
    <3>1. Child(p, 2) \in Children(p) /\ Place(Child(p, 2)) = 2 /\ Child(p, 2) < n /\ ~Late(Child(p, 2))
      BY <1>3, <2>2 DEF Loops
    <3>2. Condition(Child(p, 2))
      BY <1>2, <2>2, <3>1 DEF Condition, Loops
    <3> QED BY <3>1, <3>2
  <2> QED BY <1>4, <2>1, <2>2 DEF Closes, Late
<1>5. ASSUME IsBranch(n, 3) PROVE \E m \in Children(p) : IsBranch(m, 2) /\ m < n /\ ~Late(m)
  <2>1. Kind(p) = "if" /\ Place(n) = 3 /\ TwoWay(p)
    BY <1>5 DEF IsBranch, TwoWay
  <2>2. Child(p, 2) \in Children(p) /\ Place(Child(p, 2)) = 2 /\ Child(p, 2) < n /\ ~Late(Child(p, 2))
    BY <1>3, <2>1
  <2>3. IsBranch(Child(p, 2), 2)
    BY <1>2, <2>1, <2>2 DEF IsBranch
  <2> QED BY <2>2, <2>3
<1>6. ASSUME Kind(p) \in {"while", "do"}, Place(n) = 2
      PROVE  Child(p, 1) \in Children(p) /\ Child(p, 1) < n /\ ~Late(Child(p, 1)) /\ Descend(p) = In(Child(p, 1))
  <2>1. Child(p, 1) \in Children(p) /\ Child(p, 1) < n /\ ~Late(Child(p, 1))
    BY <1>3, <1>6 DEF Loops
  <2> QED BY <2>1 DEF Descend
<1>7. ASSUME LastOfLoop(n)
      PROVE  \E m \in Children(p) :
               /\ m < n /\ ~Late(m)
               /\ IF Kind(p) = "for" THEN Condition(m) ELSE Kind(p) \in {"while", "do"} /\ Descend(p) = In(m)
               /\ Again(n) = In(m)
  <2>1. CASE Kind(p) = "while" /\ Place(n) = 2
    <3>1. Again(n) = In(Child(p, 1))
      BY <2>1 DEF Again
    <3> QED BY <1>6, <2>1, <3>1
  <2>2. CASE Kind(p) = "for" /\ Place(n) = 3
    <3>1. Child(p, 2) \in Children(p) /\ Place(Child(p, 2)) = 2 /\ Child(p, 2) < n /\ ~Late(Child(p, 2))
      BY <1>3, <2>2 DEF Loops
    <3>2. Condition(Child(p, 2))
      BY <1>2, <2>2, <3>1 DEF Condition, Loops
    <3>3. Again(n) = In(Child(p, 2))
      BY <2>2 DEF Again
    <3> QED BY <2>2, <3>1, <3>2, <3>3
  <2> QED BY <1>7, <2>1, <2>2 DEF LastOfLoop
<1>8. ASSUME Condition(n), Kind(p) = "do"
      PROVE  \E m \in Children(p) : m < n /\ ~Late(m) /\ Descend(p) = In(m) /\ Taken(n, TRUE) = In(m)
  <2>1. Place(n) = 2
    BY <1>8 DEF Condition
  <2>2. Taken(n, TRUE) = In(Child(p, 1))
    BY <1>8 DEF Taken, StatementPlace
  <2> QED BY <1>6, <1>8, <2>1, <2>2
<1>9. Condition(n) => ~LastOfLoop(n)
  BY Roles
<1> QED BY <1>4, <1>5, <1>7, <1>8, <1>9

\* The one jump that closing n patches, or its own.
Owned(n, owner, D) ==
  /\ Closes(n) => \E m \in Children(Up(n)) : Condition(m) /\ owner = Out(m) /\ owner \in D
  /\ IsBranch(n, 3) => \E m \in Children(Up(n)) : IsBranch(m, 2) /\ owner = Out(m) /\ owner \in D
  /\ ~Closes(n) /\ ~IsBranch(n, 3) => owner = Out(n)

LEMMA OwnerExists ==
  ASSUME Ordered, NEW n \in Node, n # 1
  PROVE  \E owner : Owned(n, owner, Done(Out(n)))
<1>1. \A m \in Children(Up(n)) : m < n /\ ~Late(m) => Out(m) \in Done(Out(n))
  BY DoneBefore
<1>2. ~ (Closes(n) /\ IsBranch(n, 3))
  BY Roles
<1>3. CASE Closes(n)
  <2>1. PICK m \in Children(Up(n)) : Condition(m) /\ m < n /\ ~Late(m)
    BY <1>3, PartBefore
  <2>2. Owned(n, Out(m), Done(Out(n)))
    BY <1>1, <1>2, <1>3, <2>1 DEF Owned
  <2> QED BY <2>2
<1>4. CASE IsBranch(n, 3)
  <2>1. PICK m \in Children(Up(n)) : IsBranch(m, 2) /\ m < n /\ ~Late(m)
    BY <1>4, PartBefore
  <2>2. Owned(n, Out(m), Done(Out(n)))
    BY <1>1, <1>2, <1>4, <2>1 DEF Owned
  <2> QED BY <2>2
<1>5. CASE ~Closes(n) /\ ~IsBranch(n, 3)
  <2>1. Owned(n, Out(n), Done(Out(n)))
    BY <1>5 DEF Owned
  <2> QED BY <2>1
<1> QED BY <1>3, <1>4, <1>5

LEMMA OwnerUndisturbed ==
  ASSUME Ordered, NEW n \in Node, n # 1, NEW D, Out(n) \notin D, NEW owner, Owned(n, owner, D),
         NEW w, NEW text, \A m \in Node : m # 1 /\ Out(m) \in D => JointsOf(w, m, D, text)
  PROVE  Undisturbed(owner, D)
<1> SUFFICES ASSUME NEW m \in Node, m # 1, Out(m) \in D
             PROVE  /\ Condition(m) /\ Kind(Up(m)) = "do" => owner # Out(m)
                    /\ LastOfLoop(m) => owner # Out(m)
                    /\ \A c \in Children(Up(m)) :
                         (Closes(m) /\ Condition(c)) \/ (IsBranch(m, 3) /\ IsBranch(c, 2)) => owner # Out(c)
  BY DEF Undisturbed
<1> DEFINE p == Up(n)
<1>1. p \in Node /\ n \in Children(p) /\ Up(m) \in Node /\ m \in Children(Up(m))
  BY OrderFacts, ChildFacts
<1>2. \A x : /\ (x \in Children(p) => x \in Node /\ x # 1 /\ Up(x) = p)
             /\ (x \in Children(Up(m)) => x \in Node /\ x # 1 /\ Up(x) = Up(m))
  BY <1>1, ChildFacts
<1>3. \A c \in Children(Up(m)) : (Closes(m) /\ Condition(c)) \/ (IsBranch(m, 3) /\ IsBranch(c, 2)) => Out(c) \in D
  BY DEF JointsOf
<1>4. m # n
  BY Positions
<1>5. \A x \in Node : x # 1 =>
        /\ Condition(x) => ~Closes(x) /\ ~IsBranch(x, 2) /\ ~LastOfLoop(x)
        /\ IsBranch(x, 2) => ~LastOfLoop(x)
        /\ Closes(x) => Kind(Up(x)) \in {"if", "while", "for"}
  BY Roles
<1>6. CASE Closes(n)
  <2>1. PICK c \in Children(p) : Condition(c) /\ owner = Out(c)
    BY <1>6 DEF Owned
  <2>2. \A x : owner = Out(x) => x = c
    BY <2>1, Positions
  <2>3. Condition(m) /\ Kind(Up(m)) = "do" => owner # Out(m)
    BY <1>2, <1>5, <1>6, <2>2
  <2>4. LastOfLoop(m) => owner # Out(m)
    BY <1>5, <2>1, <2>2
  <2>5. ASSUME NEW d \in Children(Up(m)), owner = Out(d), Closes(m) PROVE FALSE
    <3>1. Up(m) = p
      BY <1>2, <2>2, <2>5
    <3> QED BY <1>1, <1>4, <1>6, <2>5, <3>1, OnePart
  <2>6. ASSUME NEW d \in Children(Up(m)), owner = Out(d), IsBranch(d, 2) PROVE FALSE
    BY <1>2, <1>5, <2>1, <2>2, <2>6
  <2> QED BY <2>3, <2>4, <2>5, <2>6
<1>7. CASE IsBranch(n, 3)
  <2>1. PICK c \in Children(p) : IsBranch(c, 2) /\ owner = Out(c)
    BY <1>7 DEF Owned
  <2>2. \A x : owner = Out(x) => x = c
    BY <2>1, Positions
  <2>3. Condition(m) => owner # Out(m)
    BY <1>5, <2>1, <2>2
  <2>4. LastOfLoop(m) => owner # Out(m)
    BY <1>5, <2>1, <2>2
  <2>5. ASSUME NEW d \in Children(Up(m)), owner = Out(d), IsBranch(m, 3) PROVE FALSE
    <3>1. Up(m) = p
      BY <1>2, <2>2, <2>5
    <3> QED BY <1>1, <1>4, <1>7, <2>5, <3>1, OnePart
  <2>6. ASSUME NEW d \in Children(Up(m)), owner = Out(d), Condition(d) PROVE FALSE
    BY <1>2, <1>5, <2>1, <2>2, <2>6
  <2> QED BY <2>3, <2>4, <2>5, <2>6
<1>8. CASE ~Closes(n) /\ ~IsBranch(n, 3)
  <2>1. owner = Out(n)
    BY <1>8 DEF Owned
  <2>2. \A x : owner = Out(x) => x = n
    BY <2>1, Positions
  <2> QED BY <1>3, <1>4, <2>1, <2>2
<1> QED BY <1>6, <1>7, <1>8

-----------------------------------------------------------------------------
(* Closing a node. *)

\* So does leaving it, with the jumps it patches.
LEMMA CloseDraws ==
  ASSUME Ordered, Emission, NEW n \in Node, Close(n), NEW w,
         Drawn(w, emitAt, code, top, hole, pastElse, jumpMap, labelMap)
  PROVE  \E v : Drawn(v, emitAt', code', top', hole', pastElse', jumpMap', labelMap')
<1> DEFINE q == Out(n)
           p == Up(n)
           D == Done(q)
           E == Done(Succ(q))
           v == [w EXCEPT ![Succ(q)] = Len(code')]
           j == Len(code) + Rest(q)
<1>1. /\ emitAt = q /\ emitAt' = Succ(q) /\ top' = top /\ jumpMap' = jumpMap /\ labelMap' = labelMap
      /\ n # 1
  BY Positions DEF Close, Succ
<1>2. /\ code \in Text /\ DOMAIN hole = Node /\ DOMAIN pastElse = Node
      /\ Len(code) \in Nat /\ \A m \in Node : top[m] \in Nat
      /\ HolesOpen(q, code, hole, pastElse)
  BY <1>1 DEF Emission, Emitted, Text, Starts
<1>3. q \in Position /\ q # End /\ q[1] = n /\ q[2] = "out" /\ p \in Node /\ n \in Children(p)
  BY <1>1, Positions, OrderFacts, ChildFacts DEF End, Out
<1>4. /\ w \in [Position -> Nat] /\ w[Begin] = 0 /\ w[q] = Len(code)
      /\ \A r \in D : Succ(r) \in D \cup {q}
      /\ Pictured(w, D, code)
      /\ \A m \in Node : m # 1 /\ Out(m) \in D => JointsOf(w, m, D, code)
      /\ \A m \in Node : RememberedOf(w, m, D, top, hole, pastElse)
      /\ Known(w, D, code) /\ Latest(w, D, jumpMap, labelMap) /\ Unpatched(w, D, code)
  BY <1>1 DEF Drawn
<1>5. E = D \cup {q} /\ q \notin D /\ D \subseteq Position
  BY <1>3, DoneGrows, DoneFacts
<1>6. PICK owner : Owned(n, owner, D)
  BY <1>1, OwnerExists
<1>7. Undisturbed(owner, D)
  BY <1>1, <1>4, <1>5, <1>6, OwnerUndisturbed
<1>8. /\ Condition(n) => /\ ~Closes(n) /\ ~IsBranch(n, 2) /\ ~IsBranch(n, 3) /\ ~LastOfLoop(n)
                         /\ ~Discarded(n) /\ Kind(n) = "expr"
      /\ IsBranch(n, 2) => Closes(n) /\ ~IsBranch(n, 3) /\ ~LastOfLoop(n) /\ Kind(p) = "if"
      /\ IsBranch(n, 3) => ~Closes(n) /\ ~LastOfLoop(n) /\ Kind(p) = "if"
      /\ LastOfLoop(n) <=> Closes(n) /\ Kind(p) # "if"
      /\ Closes(n) => Kind(p) \in {"if", "while", "for"}
      /\ Rest(q) = IF Discarded(n) \/ Kind(n) = "decl" THEN 1 ELSE 0
      /\ Bears(q) <=> Condition(n) \/ IsBranch(n, 2) \/ LastOfLoop(n)
  BY <1>1, Roles
<1>9. \A m \in Node : m # 1 => (Bears(Out(m)) <=> Condition(m) \/ IsBranch(m, 2) \/ LastOfLoop(m))
  BY Roles
<1>10. \A m \in Children(p) : m \in Node /\ m # 1 /\ Up(m) = p
  BY <1>3, ChildFacts
<1>11. /\ Closes(n) => AtOperand(code, hole[p])
       /\ IsBranch(n, 3) => AtOperand(code, pastElse[p])
  <2>1. Closes(n) => WithHole(n)
    BY DEF Closes, Late, WithHole
  <2> QED BY <1>1, <1>2, <1>3, <2>1, SelfBelow DEF HolesOpen
<1>12. /\ Closes(n) => /\ hole[p] \in Nat /\ hole[p] + 1 \in 1 .. Len(code) /\ code[hole[p] + 1].op = "operand"
                       /\ hole[p] = JumpAt(w, owner) + 1 /\ owner \in D /\ Bears(owner)
       /\ IsBranch(n, 3) => /\ pastElse[p] \in Nat /\ pastElse[p] + 1 \in 1 .. Len(code)
                            /\ code[pastElse[p] + 1].op = "operand"
                            /\ pastElse[p] = JumpAt(w, owner) + 1 /\ owner \in D /\ Bears(owner)
  <2>1. \A x : AtOperand(code, x) => x \in Nat /\ x + 1 \in 1 .. Len(code) /\ code[x + 1].op = "operand"
    BY <1>2 DEF AtOperand
  <2>2. ASSUME Closes(n) PROVE hole[p] = JumpAt(w, owner) + 1 /\ owner \in D /\ Bears(owner)
    <3>1. PICK m \in Children(p) : Condition(m) /\ owner = Out(m) /\ owner \in D
      BY <1>6, <2>2 DEF Owned
    <3> QED BY <1>4, <1>8, <1>9, <1>10, <2>2, <3>1 DEF RememberedOf
  <2>3. ASSUME IsBranch(n, 3) PROVE pastElse[p] = JumpAt(w, owner) + 1 /\ owner \in D /\ Bears(owner)
    <3>1. PICK m \in Children(p) : IsBranch(m, 2) /\ owner = Out(m) /\ owner \in D
      BY <1>6, <2>3 DEF Owned
    <3> QED BY <1>4, <1>9, <1>10, <3>1 DEF RememberedOf
  <2> QED BY <1>11, <2>1, <2>2, <2>3
<1>13. /\ code' \in Text /\ Len(code') = Len(code) + Size(q) /\ j \in Nat
       /\ Discarded(n) => code'[Len(code) + 1] = Cell("pop", 0)
       /\ Kind(n) = "decl" => code'[Len(code) + 1] = Cell("store", n)
       /\ Bears(q) => code'[j + 1] = Cell(JumpOp(q), 0) /\ code'[j + 2].op = "operand"
       /\ Condition(n) /\ Kind(p) = "do" => j + 2 + code'[j + 2].arg = top[p]
       /\ LastOfLoop(n) => j + 2 + code'[j + 2].arg = top[p]
       /\ Closes(n) => code'[hole[p] + 1].op = "operand" /\ hole[p] + 1 + code'[hole[p] + 1].arg = Len(code')
       /\ IsBranch(n, 3) =>
            code'[pastElse[p] + 1].op = "operand" /\ pastElse[p] + 1 + code'[pastElse[p] + 1].arg = Len(code')
       /\ \A c \in 1 .. Len(code) : \/ code'[c] = code[c]
                                    \/ Closes(n) /\ c = hole[p] + 1
                                    \/ IsBranch(n, 3) /\ c = pastElse[p] + 1
       /\ Condition(n) /\ Kind(p) # "do" => hole'[p] = j + 1
       /\ IsBranch(n, 2) => pastElse'[p] = j + 1
       /\ \A m \in Node : hole'[m] = hole[m] \/ (m = p /\ Condition(n))
       /\ \A m \in Node : pastElse'[m] = pastElse[m] \/ (m = p /\ IsBranch(n, 2))
  BY <1>2, <1>3, <1>12, ClosedText
<1>14. JumpAt(w, q) = j
  BY <1>4 DEF JumpAt
<1>15. \A op, arg : Cell(op, arg).op = op /\ Cell(op, arg).arg = arg
  BY DEF Cell
<1>16. \A m : (In(m) \in E <=> In(m) \in D) /\ (Out(m) \in E <=> Out(m) \in D \/ m = n)
  BY <1>5, Positions
<1>17. /\ Closes(n) => LeadsTo(code', JumpAt(w, owner), Len(code'))
       /\ IsBranch(n, 3) => LeadsTo(code', JumpAt(w, owner), Len(code'))
  <2>1. ASSUME NEW h \in Nat, h = JumpAt(w, owner) + 1, JumpAt(w, owner) \in Nat,
               h + 1 + code'[h + 1].arg = Len(code')
        PROVE  LeadsTo(code', JumpAt(w, owner), Len(code'))
    <3>1. h + 1 = JumpAt(w, owner) + 2
      BY <2>1
    <3> QED BY <2>1, <3>1 DEF LeadsTo
  <2>2. owner \in D => JumpAt(w, owner) \in Nat
    <3>1. owner \in D => Rest(owner) \in {0, 1} /\ w[owner] \in Nat
      BY <1>4, <1>5, SizeFacts
    <3> QED BY <3>1 DEF JumpAt
  <2> QED BY <1>12, <1>13, <2>1, <2>2
<1>18. LastOfLoop(n) \/ (Condition(n) /\ Kind(p) = "do") =>
         \E m \in Children(p) : /\ In(m) \in D /\ w[In(m)] = top[p]
                                /\ LastOfLoop(n) => Again(n) = In(m)
                                /\ Condition(n) => Taken(n, TRUE) = In(m)
  <2> SUFFICES ASSUME LastOfLoop(n) \/ (Condition(n) /\ Kind(p) = "do")
               PROVE  \E m \in Children(p) : /\ In(m) \in D /\ w[In(m)] = top[p]
                                             /\ LastOfLoop(n) => Again(n) = In(m)
                                             /\ Condition(n) => Taken(n, TRUE) = In(m)
    OBVIOUS
  <2>1. PICK m \in Children(p) :
          /\ m < n /\ ~Late(m)
          /\ IF Kind(p) = "for" THEN Condition(m) ELSE Kind(p) \in {"while", "do"} /\ Descend(p) = In(m)
          /\ LastOfLoop(n) => Again(n) = In(m)
          /\ Condition(n) => Taken(n, TRUE) = In(m)
    BY <1>1, PartBefore
  <2>2. In(m) \in D /\ In(p) \in D
    BY <1>1, <2>1, DoneBefore
  <2>3. CASE Kind(p) = "for"
    BY <1>4, <1>10, <2>1, <2>2, <2>3 DEF RememberedOf
  <2>4. CASE Kind(p) \in {"while", "do"} /\ Descend(p) = In(m)
    <3>1. top[p] = w[In(p)]
      BY <1>3, <1>4, <2>2, <2>4 DEF RememberedOf
    <3>2. Succ(In(p)) = In(m)
      BY <2>4, Positions DEF Succ
    <3>3. Size(In(p)) = 0
      BY <2>4, Positions DEF Size, Rest, Bears
    <3>4. w[Succ(In(p))] = w[In(p)] + Size(In(p))
      BY <1>4, <2>2 DEF Pictured
    <3>5. w[In(p)] \in Nat
      BY <1>4, <1>5, <2>2
    <3>6. w[In(m)] = w[In(p)]
      BY <3>2, <3>3, <3>4, <3>5
    <3> QED BY <2>1, <2>2, <3>1, <3>6
  <2> QED BY <2>1, <2>3, <2>4
<1>19. Grown(w, q, code, code', owner)
  <2>1. CellsOf(w, q, code')
    BY <1>3, <1>4, <1>13, <1>14, <1>15 DEF CellsOf
  <2>2. ASSUME NEW c \in 1 .. Len(code), code'[c] # code[c]
        PROVE  /\ owner \in D /\ Bears(owner) /\ c = JumpAt(w, owner) + 2
               /\ code[c].op = "operand" /\ code'[c].op = "operand"
    <3>1. owner \in D => JumpAt(w, owner) \in Nat
      <4>1. owner \in D => Rest(owner) \in {0, 1} /\ w[owner] \in Nat
        BY <1>4, <1>5, SizeFacts
      <4> QED BY <4>1 DEF JumpAt
    <3>2. CASE Closes(n) /\ c = hole[p] + 1
      BY <1>12, <1>13, <3>1, <3>2
    <3>3. CASE IsBranch(n, 3) /\ c = pastElse[p] + 1
      BY <1>12, <1>13, <3>1, <3>3
    <3> QED BY <1>13, <2>2, <3>2, <3>3
  <2> QED BY <1>13, <2>1, <2>2 DEF Grown
<1>20. /\ v \in [Position -> Nat] /\ v[Succ(q)] = Len(code') /\ v[Begin] = w[Begin]
       /\ \A r \in D \cup {q} : v[r] = w[r] /\ r \in Position
       /\ \A r \in D : v[Succ(r)] = w[Succ(r)]
       /\ \A r \in E : Succ(r) \in E \cup {Succ(q)}
       /\ Pictured(v, E, code')
       /\ \A r \in D : /\ Bears(r) => JumpAt(v, r) = JumpAt(w, r) /\ JumpAt(w, r) + 2 \in 1 .. Len(code)
                       /\ Bears(r) /\ r # owner => code'[JumpAt(w, r) + 2] = code[JumpAt(w, r) + 2]
  <2>1. /\ q \in Position /\ q # End /\ w \in [Position -> Nat] /\ code \in Text /\ w[q] = Len(code) /\ code' \in Text
        /\ \A r \in D : Succ(r) \in D \cup {q}
        /\ Pictured(w, D, code) /\ Grown(w, q, code, code', owner)
    BY <1>2, <1>3, <1>4, <1>13, <1>19
  <2>2. v \in [Position -> Nat] /\ v[Succ(q)] = Len(code') /\ v[Begin] = w[Begin]
    BY <2>1, Extended
  <2>3. \A r \in D \cup {q} : v[r] = w[r] /\ r \in Position
    BY <2>1, Extended
  <2>4. \A r \in D : v[Succ(r)] = w[Succ(r)]
    BY <2>1, Extended
  <2>5. \A r \in E : Succ(r) \in E \cup {Succ(q)}
    BY <2>1, Extended
  <2>6. Pictured(v, E, code')
    BY <2>1, Extended
  <2>7. \A r \in D : /\ Bears(r) => JumpAt(v, r) = JumpAt(w, r) /\ JumpAt(w, r) + 2 \in 1 .. Len(code)
                     /\ Bears(r) /\ r # owner => code'[JumpAt(w, r) + 2] = code[JumpAt(w, r) + 2]
    <3>1. \A r \in D : JumpAt(v, r) = JumpAt(w, r)
      BY <2>3 DEF JumpAt
    <3>2. \A r \in D : Bears(r) => JumpAt(w, r) + 2 \in 1 .. Len(code)
      BY <2>1, Extended
    <3>3. ASSUME NEW r \in D, Bears(r), r # owner PROVE code'[JumpAt(w, r) + 2] = code[JumpAt(w, r) + 2]
      <4>1. \A s \in D : JumpAt(w, s) \in Nat
        <5>1. \A s \in D : Rest(s) \in {0, 1} /\ w[s] \in Nat
          BY <1>4, <1>5, SizeFacts
        <5> QED BY <5>1 DEF JumpAt
      <4>2. owner \in D /\ Bears(owner) => JumpAt(w, r) # JumpAt(w, owner)
        BY <2>1, <3>3 DEF Pictured, Apart
      <4> QED BY <2>1, <3>2, <3>3, <4>1, <4>2 DEF Grown
    <3> QED BY <3>1, <3>2, <3>3
  <2> QED BY <2>2, <2>3, <2>4, <2>5, <2>6, <2>7
<1>21. Rest(q) \in {0, 1} /\ (Bears(q) => Size(q) = Rest(q) + 2) /\ (~Bears(q) => Size(q) = Rest(q))
  BY <1>3, SizeFacts
<1> HIDE DEF v, E, D, q, j, p
<1>22. Carried(w, v, D, code, code', owner)
  BY <1>20 DEF Carried
<1>23. JumpAt(v, q) = j
  BY <1>14, <1>20 DEF JumpAt
<1>24. JointsOf(v, n, E, code')
  <2>1. ASSUME LastOfLoop(n) \/ (Condition(n) /\ Kind(p) = "do")
        PROVE  \E to \in E : /\ j + 2 + code'[j + 2].arg = v[to]
                             /\ LastOfLoop(n) => Again(n) = to
                             /\ Condition(n) => Taken(n, TRUE) = to
    <3>1. PICK m \in Children(p) : /\ In(m) \in D /\ w[In(m)] = top[p]
                                   /\ LastOfLoop(n) => Again(n) = In(m)
                                   /\ Condition(n) => Taken(n, TRUE) = In(m)
      BY <1>18, <2>1
    <3>2. In(m) \in E /\ v[In(m)] = top[p]
      BY <1>16, <1>20, <3>1
    <3>3. j + 2 + code'[j + 2].arg = top[p]
      BY <1>13, <2>1
    <3> QED BY <3>1, <3>2, <3>3
  <2>2. Condition(n) /\ Kind(p) = "do" =>
          Taken(n, TRUE) \in E /\ LeadsTo(code', JumpAt(v, q), v[Taken(n, TRUE)])
    BY <1>23, <2>1 DEF LeadsTo
  <2>3. LastOfLoop(n) => Again(n) \in E /\ LeadsTo(code', JumpAt(v, q), v[Again(n)])
    BY <1>23, <2>1 DEF LeadsTo
  <2>4. ASSUME NEW m \in Children(p), (Closes(n) /\ Condition(m)) \/ (IsBranch(n, 3) /\ IsBranch(m, 2))
        PROVE  Out(m) \in E /\ LeadsTo(code', JumpAt(v, Out(m)), v[Succ(q)])
    <3>1. Out(m) = owner /\ owner \in D /\ Bears(owner)
      <4>1. CASE Closes(n) /\ Condition(m)
        <5>1. PICK c \in Children(p) : Condition(c) /\ owner = Out(c) /\ owner \in D
          BY <1>6, <4>1 DEF Owned, p
        <5>2. c = m
          BY <1>3, <4>1, <5>1, OnePart
        <5> QED BY <1>12, <4>1, <5>1, <5>2
      <4>2. CASE IsBranch(n, 3) /\ IsBranch(m, 2)
        <5>1. PICK c \in Children(p) : IsBranch(c, 2) /\ owner = Out(c) /\ owner \in D
          BY <1>6, <4>2 DEF Owned, p
        <5>2. c = m
          BY <1>3, <4>2, <5>1, OnePart
        <5> QED BY <1>12, <4>2, <5>1, <5>2
      <4> QED BY <2>4, <4>1, <4>2
    <3>2. JumpAt(v, owner) = JumpAt(w, owner) /\ v[Succ(q)] = Len(code') /\ owner \in E
      BY <1>5, <1>20, <3>1
    <3> QED BY <1>17, <2>4, <3>1, <3>2
  <2> QED BY <2>2, <2>3, <2>4 DEF JointsOf, q, p
<1>25. \A m \in Node : m # 1 /\ Out(m) \in E => JointsOf(v, m, E, code')
  <2> SUFFICES ASSUME NEW m \in Node, m # 1, Out(m) \in E, m # n PROVE JointsOf(v, m, E, code')
    BY <1>24
  <2>1. Out(m) \in D /\ JointsOf(w, m, D, code) /\ D \subseteq E
    BY <1>4, <1>5, <1>16
  <2> QED BY <1>7, <1>22, <2>1, JointsKept
<1>26. \A m \in Node : RememberedOf(v, m, E, top', hole', pastElse')
  <2> SUFFICES ASSUME NEW m \in Node PROVE RememberedOf(v, m, E, top', hole', pastElse')
    OBVIOUS
  <2>1. /\ In(m) \in D /\ Kind(m) \in {"while", "do"} => top[m] = w[In(m)]
        /\ In(m) \in D /\ Condition(m) /\ Kind(Up(m)) = "for" => top[Up(m)] = w[In(m)]
        /\ Out(m) \in D /\ Condition(m) /\ Kind(Up(m)) # "do" => hole[Up(m)] = JumpAt(w, Out(m)) + 1
        /\ Out(m) \in D /\ IsBranch(m, 2) => pastElse[Up(m)] = JumpAt(w, Out(m)) + 1
    BY <1>4 DEF RememberedOf
  <2>2. Condition(m) \/ IsBranch(m, 2) => m # 1 /\ Up(m) \in Node /\ m \in Children(Up(m))
    BY OrderFacts, ChildFacts DEF Condition, IsBranch
  <2>3. \A r \in D : v[r] = w[r]
    BY <1>20
  <2>4. In(m) \in E /\ Kind(m) \in {"while", "do"} => top'[m] = v[In(m)]
    BY <1>1, <1>16, <2>1, <2>3
  <2>5. In(m) \in E /\ Condition(m) /\ Kind(Up(m)) = "for" => top'[Up(m)] = v[In(m)]
    BY <1>1, <1>16, <2>1, <2>3
  <2>6. Out(m) \in D /\ (Condition(m) \/ IsBranch(m, 2)) => JumpAt(v, Out(m)) = JumpAt(w, Out(m))
    BY <1>9, <1>20, <2>2
  <2>7. ASSUME Out(m) \in E, Condition(m), Kind(Up(m)) # "do" PROVE hole'[Up(m)] = JumpAt(v, Out(m)) + 1
    <3>1. CASE m = n
      BY <1>13, <1>23, <2>7, <3>1 DEF p, q
    <3>2. CASE m # n
      <4>1. Out(m) \in D
        BY <1>16, <2>7, <3>2
      <4>2. ~ (Up(m) = p /\ Condition(n))
        BY <1>3, <2>2, <2>7, <3>2, OnePart
      <4>3. hole'[Up(m)] = hole[Up(m)]
        BY <1>13, <2>2, <2>7, <4>2
      <4> QED BY <2>1, <2>6, <2>7, <4>1, <4>3
    <3> QED BY <3>1, <3>2
  <2>8. ASSUME Out(m) \in E, IsBranch(m, 2) PROVE pastElse'[Up(m)] = JumpAt(v, Out(m)) + 1
    <3>1. CASE m = n
      BY <1>13, <1>23, <2>8, <3>1 DEF p, q
    <3>2. CASE m # n
      <4>1. Out(m) \in D
        BY <1>16, <2>8, <3>2
      <4>2. ~ (Up(m) = p /\ IsBranch(n, 2))
        BY <1>3, <2>2, <2>8, <3>2, OnePart
      <4>3. pastElse'[Up(m)] = pastElse[Up(m)]
        BY <1>13, <2>2, <2>8, <4>2
      <4> QED BY <2>1, <2>6, <2>8, <4>1, <4>3
    <3> QED BY <3>1, <3>2
  <2> QED BY <2>4, <2>5, <2>7, <2>8 DEF RememberedOf
<1>27. Known(v, E, code')
  <2> SUFFICES ASSUME NEW c \in 1 .. Len(code')
               PROVE  /\ code'[c].op = "eval" => Evaluated(v, c, E, code'[c])
                      /\ code'[c].op = "store" => Stored(v, c, E, code'[c])
    BY DEF Known
  <2>1. CASE c \in 1 .. Len(code)
    <3>1. \A x \in 1 .. Len(code) : code'[x] = code[x] \/ code'[x].op = "operand"
      BY <1>13
    <3>2. \A r \in D : v[r] = w[r]
      BY <1>20
    <3>3. D \subseteq E /\ Known(w, D, code)
      BY <1>4, <1>5
    <3> QED BY <2>1, <3>1, <3>2, <3>3, KnownKept
  <2>2. CASE c \notin 1 .. Len(code)
    <3>1. Len(code') \in Nat /\ c > Len(code) /\ c <= Len(code) + Size(q) /\ c \in Nat
      BY <1>2, <1>13, <2>2 DEF Text
    <3>2. \/ c = Len(code) + 1 /\ Rest(q) = 1
          \/ Bears(q) /\ (c = j + 1 \/ c = j + 2)
      BY <1>2, <1>21, <3>1 DEF j
    <3>3. CASE c = Len(code) + 1 /\ Rest(q) = 1
      <4>1. CASE Discarded(n)
        BY <1>13, <1>15, <3>3, <4>1
      <4>2. CASE Kind(n) = "decl"
        <5>1. code'[c] = Cell("store", n) /\ q \in E /\ v[q] = Len(code)
          BY <1>4, <1>5, <1>13, <1>20, <3>3, <4>2
        <5> QED BY <1>15, <3>3, <4>2, <5>1 DEF Stored, q
      <4> QED BY <1>8, <3>3, <4>1, <4>2
    <3>4. CASE Bears(q) /\ (c = j + 1 \/ c = j + 2)
      <4>1. JumpOp(q) \notin {"eval", "store"}
        BY DEF JumpOp
      <4> QED BY <1>13, <1>15, <3>4, <4>1
    <3> QED BY <3>2, <3>3, <3>4
  <2> QED BY <2>1, <2>2
<1>28. Latest(v, E, jumpMap', labelMap')
  <2>1. \A kind, l, x : x \in Named(E, kind, l) <=> x \in Named(D, kind, l)
    BY <1>16, NamedFacts
  <2>2. \A kind, l : Named(E, kind, l) = Named(D, kind, l)
    BY <2>1
  <2>3. \A kind, l : \A x \in Named(D, kind, l) : v[In(x)] = w[In(x)]
    BY <1>20, NamedFacts
  <2> QED BY <1>1, <1>4, <2>2, <2>3 DEF Latest
<1>29. Unpatched(v, E, code')
  <2> SUFFICES ASSUME NEW x \in Node, Kind(x) = "jump", In(x) \in E
               PROVE  LeadsTo(code', v[In(x)], v[In(x)] + 2)
    BY DEF Unpatched
  <2>1. In(x) \in D /\ LeadsTo(code, w[In(x)], w[In(x)] + 2) /\ v[In(x)] = w[In(x)] /\ w[In(x)] \in Nat
    BY <1>4, <1>5, <1>16, <1>20 DEF Unpatched
  <2>2. In(x) # owner
    BY <1>6, Positions DEF Owned
  <2>3. Bears(In(x)) /\ Rest(In(x)) = 0
    BY Positions DEF Bears, Rest
  <2>4. JumpAt(w, In(x)) = w[In(x)]
    BY <2>1, <2>3 DEF JumpAt
  <2> QED BY <1>20, <2>1, <2>2, <2>3, <2>4 DEF LeadsTo
<1>30. Drawn(v, Succ(q), code', top', hole', pastElse', jumpMap', labelMap')
  BY <1>4, <1>20, <1>25, <1>26, <1>27, <1>28, <1>29 DEF Drawn, E
<1> QED BY <1>1, <1>30

-----------------------------------------------------------------------------
(* The body never changes. *)

\* What is said of the picture is said of the body, which never changes.
LEMMA PlaceStays ==
  ASSUME body' = body
  PROVE  /\ Node' = Node /\ Position' = Position /\ (Ordered' <=> Ordered)
         /\ \A n : /\ Children(n)' = Children(n) /\ Kind(n)' = Kind(n) /\ Up(n)' = Up(n) /\ Name(n)' = Name(n)
                   /\ Place(n)' = Place(n) /\ Below(n)' = Below(n) /\ Follower(n)' = Follower(n)
         /\ \A n, k : Child(n, k)' = Child(n, k)
         /\ \A n : (Condition(n)' <=> Condition(n)) /\ (TwoWay(n)' <=> TwoWay(n))
         /\ \A n, k : IsBranch(n, k)' <=> IsBranch(n, k)
         /\ \A n : Onward(n)' = Onward(n) /\ Descend(n)' = Descend(n) /\ NextToEmit(n)' = NextToEmit(n)
         /\ \A n, v : Taken(n, v)' = Taken(n, v)
<1>1. /\ Node' = Node /\ Position' = Position /\ (Ordered' <=> Ordered)
      /\ \A n : Children(n)' = Children(n) /\ Kind(n)' = Kind(n) /\ Up(n)' = Up(n) /\ Name(n)' = Name(n)
      /\ \A n : Place(n)' = Place(n) /\ Below(n)' = Below(n)
  BY DEF Node, Position, Ordered, Children, Kind, Up, Name, Place, Below
<1>2. \A n, k : Child(n, k)' = Child(n, k)
  BY <1>1 DEF Child
<1>3. \A n : Follower(n)' = Follower(n)
  BY DEF Follower, Children, Up, Place
<1>4. \A n : (Condition(n)' <=> Condition(n)) /\ (TwoWay(n)' <=> TwoWay(n))
  BY <1>1 DEF Condition, TwoWay
<1>5. \A n, k : IsBranch(n, k)' <=> IsBranch(n, k)
  BY <1>1, <1>4 DEF IsBranch
<1>6. \A n : Onward(n)' = Onward(n) /\ Descend(n)' = Descend(n)
  BY <1>1, <1>2, <1>3 DEF Onward, Descend, In, Out
<1>7. \A n : NextToEmit(n)' = NextToEmit(n)
  BY <1>1, <1>2, <1>6 DEF NextToEmit, In, Out
<1>8. \A n, v : Taken(n, v)' = Taken(n, v)
  BY <1>1, <1>2 DEF Taken, StatementPlace, In, Out
<1> QED BY <1>1, <1>2, <1>3, <1>4, <1>5, <1>6, <1>7, <1>8

LEMMA DoneStays ==
  ASSUME body' = body
  PROVE  /\ \A n : Late(n)' <=> Late(n)
         /\ \A q : Done(q)' = Done(q) /\ Succ(q)' = Succ(q)
<1>1. \A n : Late(n)' <=> Late(n)
  BY PlaceStays DEF Late
<1>2. \A n : Skipped(n)' = Skipped(n)
  BY <1>1, PlaceStays DEF Skipped
<1>3. \A n : Before(n)' = Before(n)
  BY PlaceStays DEF Before
<1>4. \A q : Met(q)' = Met(q)
  BY <1>3, PlaceStays DEF Met
<1>5. \A q : EmitMet(q)' = EmitMet(q)
  BY <1>1, <1>2, <1>4, PlaceStays DEF EmitMet
<1>6. \A q : Done(q)' = Done(q)
  BY <1>5, PlaceStays DEF Done
<1>7. \A q : Succ(q)' = Succ(q)
  BY PlaceStays DEF Succ
<1> QED BY <1>1, <1>6, <1>7

LEMMA PictureStays ==
  ASSUME body' = body
  PROVE  /\ \A r : Rest(r)' = Rest(r) /\ (Bears(r)' <=> Bears(r)) /\ Size(r)' = Size(r)
         /\ \A w, r : JumpAt(w, r)' = JumpAt(w, r)
         /\ \A n : (Closes(n)' <=> Closes(n)) /\ (LastOfLoop(n)' <=> LastOfLoop(n)) /\ Again(n)' = Again(n)
         /\ \A w, r, text : CellsOf(w, r, text)' <=> CellsOf(w, r, text)
         /\ \A w, D, text : Pictured(w, D, text)' <=> Pictured(w, D, text)
<1>1. \A n : (Discarded(n)' <=> Discarded(n)) /\ (LastOfLoop(n)' <=> LastOfLoop(n))
  BY PlaceStays DEF Discarded, HasValue, LastOfLoop
<1>2. \A r : Rest(r)' = Rest(r)
  BY <1>1, PlaceStays DEF Rest
<1>3. End' = End
  BY DEF End
<1>4. \A r : Bears(r)' <=> Bears(r)
  BY <1>1, <1>3, PlaceStays DEF Bears
<1>5. \A r : Size(r)' = Size(r)
  BY <1>2, <1>4 DEF Size
<1>6. \A w, r : JumpAt(w, r)' = JumpAt(w, r)
  BY <1>2 DEF JumpAt
<1>7. \A n : (Closes(n)' <=> Closes(n)) /\ Again(n)' = Again(n)
  BY DoneStays, PlaceStays DEF Closes, Again, In
<1>8. \A r : JumpOp(r)' = JumpOp(r)
  BY PlaceStays DEF JumpOp
<1>9. \A w, r, text : CellsOf(w, r, text)' <=> CellsOf(w, r, text)
  BY <1>1, <1>4, <1>6, <1>8, PlaceStays DEF CellsOf, Cell
<1>10. \A w, D : Apart(w, D)' <=> Apart(w, D)
  BY <1>4, <1>6 DEF Apart
<1>11. \A w, D, text : Pictured(w, D, text)' <=> Pictured(w, D, text)
  BY <1>5, <1>9, <1>10, DoneStays DEF Pictured
<1> QED BY <1>1, <1>2, <1>4, <1>5, <1>6, <1>7, <1>9, <1>11

LEMMA SaidStays ==
  ASSUME body' = body
  PROVE  /\ \A w, n, D, text : JointsOf(w, n, D, text)' <=> JointsOf(w, n, D, text)
         /\ \A w, D, text : Known(w, D, text)' <=> Known(w, D, text)
<1>1. \A text, p, to : LeadsTo(text, p, to)' <=> LeadsTo(text, p, to)
  BY DEF LeadsTo
<1>2. \A n : Out(n)' = Out(n) /\ In(n)' = In(n)
  BY DEF Out, In
<1>3. \A w, n, D, text : JointsOf(w, n, D, text)' <=> JointsOf(w, n, D, text)
  <2> SUFFICES ASSUME NEW w, NEW n, NEW D, NEW text PROVE JointsOf(w, n, D, text)' <=> JointsOf(w, n, D, text)
    OBVIOUS
  <2>1. /\ \A k : /\ Children(k)' = Children(k) /\ Kind(k)' = Kind(k) /\ Up(k)' = Up(k)
                 /\ (Condition(k)' <=> Condition(k))
        /\ \A k, i : IsBranch(k, i)' <=> IsBranch(k, i)
        /\ \A k, v : Taken(k, v)' = Taken(k, v)
    BY PlaceStays
  <2>2. \A q : Succ(q)' = Succ(q)
    BY DoneStays
  <2>3. /\ \A r : JumpAt(w, r)' = JumpAt(w, r)
        /\ \A k : (Closes(k)' <=> Closes(k)) /\ (LastOfLoop(k)' <=> LastOfLoop(k)) /\ Again(k)' = Again(k)
    BY PictureStays
  <2>4. (Condition(n) /\ Kind(Up(n)) = "do" =>
           Taken(n, TRUE) \in D /\ LeadsTo(text, JumpAt(w, Out(n)), w[Taken(n, TRUE)]))'
         <=> (Condition(n) /\ Kind(Up(n)) = "do" =>
           Taken(n, TRUE) \in D /\ LeadsTo(text, JumpAt(w, Out(n)), w[Taken(n, TRUE)]))
    BY <2>1, <2>3 DEF LeadsTo, Out
  <2>5. (LastOfLoop(n) => Again(n) \in D /\ LeadsTo(text, JumpAt(w, Out(n)), w[Again(n)]))'
         <=> (LastOfLoop(n) => Again(n) \in D /\ LeadsTo(text, JumpAt(w, Out(n)), w[Again(n)]))
    BY <2>3 DEF LeadsTo, Out
  <2>6. ASSUME NEW m
        PROVE  /\ (m \in Children(Up(n)))' <=> m \in Children(Up(n))
               /\ (Closes(n) /\ Condition(m))' <=> (Closes(n) /\ Condition(m))
               /\ (IsBranch(n, 3) /\ IsBranch(m, 2))' <=> (IsBranch(n, 3) /\ IsBranch(m, 2))
               /\ (Out(m) \in D /\ LeadsTo(text, JumpAt(w, Out(m)), w[Succ(Out(n))]))'
                    <=> (Out(m) \in D /\ LeadsTo(text, JumpAt(w, Out(m)), w[Succ(Out(n))]))
    BY <2>1, <2>2, <2>3 DEF LeadsTo, Out
  <2>7. (\A m \in Children(Up(n)) :
           \/ Closes(n) /\ Condition(m)
           \/ IsBranch(n, 3) /\ IsBranch(m, 2)
           => Out(m) \in D /\ LeadsTo(text, JumpAt(w, Out(m)), w[Succ(Out(n))]))'
         <=> (\A m \in Children(Up(n)) :
           \/ Closes(n) /\ Condition(m)
           \/ IsBranch(n, 3) /\ IsBranch(m, 2)
           => Out(m) \in D /\ LeadsTo(text, JumpAt(w, Out(m)), w[Succ(Out(n))]))
    BY <2>6
  <2> QED BY <2>4, <2>5, <2>7 DEF JointsOf
<1>4. \A w, c, D, cell : Evaluated(w, c, D, cell)' <=> Evaluated(w, c, D, cell)
  <2>1. Node' = Node /\ \A n : Kind(n)' = Kind(n)
    BY PlaceStays
  <2> QED BY <2>1, Zenon DEF Evaluated, In
<1>5. \A w, c, D, cell : Stored(w, c, D, cell)' <=> Stored(w, c, D, cell)
  <2>1. Node' = Node /\ \A n : Kind(n)' = Kind(n)
    BY PlaceStays
  <2> QED BY <2>1, Zenon DEF Stored, Out
<1>6. \A w, D, text : Known(w, D, text)' <=> Known(w, D, text)
  BY <1>4, <1>5 DEF Known
<1> QED BY <1>3, <1>6

\* The picture is of the body and of what the emission keeps, and of nothing else.
LEMMA DrawnStays ==
  ASSUME body' = body, NEW w,
         Drawn(w, emitAt', code', top', hole', pastElse', jumpMap', labelMap')
  PROVE  Drawn(w, emitAt, code, top, hole, pastElse, jumpMap, labelMap)'
<1>1. \A n : Out(n)' = Out(n) /\ In(n)' = In(n) /\ Begin' = Begin
  BY DEF Out, In, Begin
<1>2. \A v, n, D, tops, holes, pastElses :
        RememberedOf(v, n, D, tops, holes, pastElses)' <=> RememberedOf(v, n, D, tops, holes, pastElses)
  BY <1>1, PlaceStays, PictureStays DEF RememberedOf
<1>3. \A D, kind, l : Named(D, kind, l)' = Named(D, kind, l)
  BY <1>1, PlaceStays DEF Named
<1>4. \A v, D, jumps, labelsAt : Latest(v, D, jumps, labelsAt)' <=> Latest(v, D, jumps, labelsAt)
  BY <1>1, <1>3 DEF Latest
<1>5. \A v, D, text : Unpatched(v, D, text)' <=> Unpatched(v, D, text)
  BY <1>1, PlaceStays DEF Unpatched, LeadsTo
<1>6. \A v, q, text, tops, holes, pastElses, jumps, labelsAt :
        Drawn(v, q, text, tops, holes, pastElses, jumps, labelsAt)'
          <=> Drawn(v, q, text, tops, holes, pastElses, jumps, labelsAt)
  BY <1>1, <1>2, <1>4, <1>5, PlaceStays, DoneStays, PictureStays, SaidStays DEF Drawn
<1> QED BY <1>6

-----------------------------------------------------------------------------
(* The code when it is done. *)

\* Where a jump goes in the code; one that is not patched goes on behind itself.
JumpDest(j) == IF Effective(j) THEN In(LastOfName(target[j])) ELSE Out(j)

\* Every position has its place, and all jumps lead where the body goes on.
LaidOut(w, text) ==
  /\ w \in [Position -> Nat] /\ w[Begin] = 0
  /\ \A r \in Position \ {End} :
       w[Succ(r)] = w[r] + Size(r) /\ w[r] + Size(r) <= Len(text) /\ CellsOf(w, r, text)
  /\ \A n \in Node : n # 1 => JointsOf(w, n, Position \ {End}, text)
  /\ Known(w, Position \ {End}, text)
  /\ \A j \in All("jump") : LeadsTo(text, w[In(j)], w[JumpDest(j)])
  /\ IF allReturn THEN Len(text) = w[End] ELSE Len(text) = w[End] + 1 /\ text[w[End] + 1] = Cell("return", 1)

\* A jump is resolved to a label of its name.
TargetsNamed == \A j \in All("jump") : target[j] # 0 => Name(target[j]) = Name(j)

\* What is patched at the end, cell by cell.
LEMMA FinishCells ==
  ASSUME Ordered, Emission, Finish
  PROVE  /\ Len(code) \in Nat
         /\ \A c \in 1 .. Len(code) :
              IF \E l \in Names : jumpMap[l] = c - 1 /\ c # 1
              THEN /\ code[c].op = "operand" /\ code'[c].op = "operand"
                   /\ \E l \in Names : jumpMap[l] = c - 1 /\ c + code'[c].arg = labelMap[l]
              ELSE code'[c] = code[c]
         /\ IF allReturn THEN Len(code') = Len(code)
            ELSE Len(code') = Len(code) + 1 /\ code'[Len(code) + 1] = Cell("return", 1)
<1> DEFINE operands == {jumpMap[l] : l \in Names} \ {0}
           LabelOf(p) == CHOOSE l \in Names : jumpMap[l] = p
           text == [c \in DOMAIN code |->
                      IF c - 1 \in operands
                      THEN Cell("operand", Operand(c - 1, labelMap[LabelOf(c - 1)])) ELSE code[c]]
<1>1. emitAt = End /\ code' = IF allReturn THEN text ELSE Append(text, Cell("return", 1))
  BY DEF Finish
<1>2. /\ code \in Text
      /\ \A l \in Names : Starts(code, labelMap[l]) /\ (jumpMap[l] # 0 => AtOperand(code, jumpMap[l]))
  BY DEF Emission, Emitted
<1>3. Len(code) \in Nat /\ DOMAIN code = 1 .. Len(code)
  BY <1>2 DEF Text
<1>4. ASSUME NEW c \in 1 .. Len(code)
      PROVE  IF \E l \in Names : jumpMap[l] = c - 1 /\ c # 1
             THEN /\ code[c].op = "operand" /\ text[c].op = "operand"
                  /\ \E l \in Names : jumpMap[l] = c - 1 /\ c + text[c].arg = labelMap[l]
             ELSE text[c] = code[c]
  <2>1. CASE \E l \in Names : jumpMap[l] = c - 1 /\ c # 1
    <3> DEFINE l == LabelOf(c - 1)
    <3>1. l \in Names /\ jumpMap[l] = c - 1 /\ c - 1 # 0
      BY <2>1
    <3>2. c - 1 \in operands
      BY <3>1
    <3>3. text[c] = Cell("operand", Operand(c - 1, labelMap[l]))
      BY <1>3, <3>2
    <3> HIDE DEF l, text, operands
    <3>4. Starts(code, labelMap[l]) /\ AtOperand(code, c - 1)
      BY <1>2, <3>1
    <3>5. labelMap[l] \in Int
      BY <3>4 DEF Starts
    <3>6. c + Operand(c - 1, labelMap[l]) = labelMap[l]
      BY <3>5 DEF Operand
    <3>7. text[c].op = "operand" /\ c + text[c].arg = labelMap[l]
      BY <3>3, <3>6 DEF Cell
    <3>8. code[c].op = "operand"
      BY <3>4 DEF AtOperand
    <3> QED BY <2>1, <3>1, <3>7, <3>8
  <2>2. CASE ~ \E l \in Names : jumpMap[l] = c - 1 /\ c # 1
    <3>1. c - 1 \notin operands
      BY <2>2
    <3>2. text[c] = code[c]
      BY <1>3, <3>1
    <3> QED BY <2>2, <3>2
  <2> QED BY <2>1, <2>2
<1>5. DOMAIN text = 1 .. Len(code)
  BY <1>3
<1> HIDE DEF text, operands
<1>6. CASE allReturn
  <2>1. code' = text
    BY <1>1, <1>6
  <2>2. code' \in Text
    BY FinishSettles
  <2>3. Len(code') = Len(code)
    BY <1>3, <1>5, <2>1, <2>2 DEF Text
  <2> QED BY <1>3, <1>4, <1>6, <2>1, <2>3
<1>7. CASE ~allReturn
  <2> DEFINE S == {text[c] : c \in 1 .. Len(code)} \cup {Cell("return", 1)}
  <2>1. code' = Append(text, Cell("return", 1))
    BY <1>1, <1>7
  <2>2. text \in Seq(S) /\ Len(text) = Len(code)
    <3>1. text \in [1 .. Len(code) -> S]
      <4>1. text = [c \in 1 .. Len(code) |-> text[c]]
        BY <1>3 DEF text
      <4> QED BY <4>1
    <3> QED BY <1>3, <3>1
  <2>3. Cell("return", 1) \in S
    OBVIOUS
  <2> HIDE DEF S
  <2>4. Len(code') = Len(code) + 1 /\ code'[Len(code) + 1] = Cell("return", 1)
        /\ \A c \in 1 .. Len(code) : code'[c] = text[c]
    BY <1>3, <2>1, <2>2, <2>3
  <2> QED BY <1>3, <1>4, <1>7, <2>4
<1> QED BY <1>6, <1>7

\* Where the jumps of statements lead does not change when others are patched.
LEMMA JointsPatched ==
  ASSUME Ordered, NEW w, NEW D, NEW text, NEW after,
         \A r \in D : Bears(r) /\ r[2] = "out" => after[JumpAt(w, r) + 2] = text[JumpAt(w, r) + 2],
         NEW n \in Node, n # 1, Out(n) \in D, JointsOf(w, n, D, text)
  PROVE  JointsOf(w, n, D, after)
<1>1. ASSUME NEW m \in Node, m # 1, Out(m) \in D, Condition(m) \/ IsBranch(m, 2) \/ LastOfLoop(m),
             NEW x, LeadsTo(text, JumpAt(w, Out(m)), x)
      PROVE  LeadsTo(after, JumpAt(w, Out(m)), x)
  <2>1. Bears(Out(m)) /\ Out(m)[2] = "out"
    BY <1>1, Roles, Positions
  <2> QED BY <1>1, <2>1 DEF LeadsTo
<1>2. \A m \in Children(Up(n)) : m \in Node /\ m # 1
  BY OrderFacts, ChildFacts
<1> QED BY <1>1, <1>2 DEF JointsOf

\* The jump of a name that is patched is the last one.
LEMMA LastJump ==
  ASSUME Ordered, NEW w \in [Position -> Nat], Apart(w, Position \ {End}), NEW jumps, NEW labelsAt,
         Latest(w, Position \ {End}, jumps, labelsAt), NEW l \in Names, jumps[l] # 0
  PROVE  \E k \in All("jump") : Name(k) = l /\ Effective(k) /\ jumps[l] = w[In(k)] + 1
<1> DEFINE T == Named(Position \ {End}, "jump", l)
<1>1. T # {} /\ T \subseteq Node
  BY NamedFacts DEF Latest
<1>2. PICK k \in T : \A j \in T : j <= k
  BY <1>1, GreatestNode
<1>3. jumps[l] = w[In(k)] + 1
  BY <1>2 DEF Latest
<1>4. \A j \in All("jump") : Name(j) = l => j \in T
  <2>1. \A j \in Node : In(j) \in Position \ {End}
    BY Positions DEF End, In
  <2> QED BY <2>1, NamedFacts DEF All
<1>5. k \in All("jump") /\ Name(k) = l
  BY <1>2, NamedFacts DEF All
<1>6. Effective(k)
  BY <1>2, <1>4, <1>5 DEF Effective
<1> QED BY <1>3, <1>5, <1>6

LEMMA JumpFacts ==
  ASSUME Ordered, NEW j \in All("jump")
  PROVE  /\ j \in Node /\ Name(j) \in Names /\ In(j) \in Position \ {End}
         /\ Bears(In(j)) /\ Rest(In(j)) = 0 /\ Size(In(j)) = 2 /\ Succ(In(j)) = Out(j)
         /\ Children(j) = {}
<1>1. j \in Node /\ Kind(j) = "jump"
  BY DEF All
<1>2. Name(j) \in Names /\ Children(j) = {}
  BY <1>1, EmittableFacts
<1>3. In(j) \in Position \ {End}
  BY <1>1, Positions DEF End, In
<1>4. Bears(In(j)) /\ Rest(In(j)) = 0
  BY <1>1, Positions DEF Bears, Rest
<1>5. Succ(In(j)) = Out(j)
  BY <1>2, Positions DEF Succ, Descend
<1>6. Size(In(j)) = 2
  BY <1>4 DEF Size
<1> QED BY <1>1, <1>2, <1>3, <1>4, <1>5, <1>6

\* When the jumps of the names are patched, all lead where the body goes on.
LEMMA FinishLays ==
  ASSUME Ordered, Emission, Finish, NEW w,
         Drawn(w, emitAt, code, top, hole, pastElse, jumpMap, labelMap),
         TargetsNamed, \A j \in All("jump") : target[j] \in All("label")
  PROVE  LaidOut(w, code')
<1> DEFINE D == Position \ {End}
           Operands == {c \in 1 .. Len(code) : \E l \in Names : jumpMap[l] = c - 1 /\ c # 1}
<1>1. emitAt = End /\ Done(End) = D
  BY DoneEnds DEF Finish
<1>2. /\ w \in [Position -> Nat] /\ w[Begin] = 0 /\ w[End] = Len(code)
      /\ \A r \in D : Succ(r) \in D \cup {End}
      /\ Pictured(w, D, code)
      /\ \A n \in Node : n # 1 /\ Out(n) \in D => JointsOf(w, n, D, code)
      /\ Known(w, D, code) /\ Latest(w, D, jumpMap, labelMap) /\ Unpatched(w, D, code)
  BY <1>1 DEF Drawn
<1>3. /\ Len(code) \in Nat
      /\ \A c \in 1 .. Len(code) :
           IF c \in Operands
           THEN /\ code[c].op = "operand" /\ code'[c].op = "operand"
                /\ \E l \in Names : jumpMap[l] = c - 1 /\ c + code'[c].arg = labelMap[l]
           ELSE code'[c] = code[c]
      /\ IF allReturn THEN Len(code') = Len(code)
         ELSE Len(code') = Len(code) + 1 /\ code'[Len(code) + 1] = Cell("return", 1)
  BY FinishCells
<1>4. \A r \in D : w[Succ(r)] = w[r] + Size(r) /\ w[r] + Size(r) <= Len(code) /\ CellsOf(w, r, code) /\ w[r] \in Nat
  BY <1>2 DEF Pictured
<1>5. Apart(w, D)
  BY <1>2 DEF Pictured
<1>6. ASSUME NEW c \in Operands
      PROVE  \E k \in All("jump"), l \in Names :
               /\ jumpMap[l] = c - 1 /\ Name(k) = l /\ Effective(k) /\ c = w[In(k)] + 2
               /\ c + code'[c].arg = labelMap[l]
  <2>1. c \in 1 .. Len(code) /\ c # 1
    OBVIOUS
  <2> HIDE DEF Operands
  <2>2. PICK l \in Names : jumpMap[l] = c - 1 /\ c + code'[c].arg = labelMap[l]
    BY <1>3, <2>1
  <2>3. jumpMap[l] # 0
    BY <2>1, <2>2
  <2>4. PICK k \in All("jump") : Name(k) = l /\ Effective(k) /\ jumpMap[l] = w[In(k)] + 1
    BY <1>2, <1>5, <2>3, LastJump, ZenonT(30)
  <2>5. w[In(k)] \in Nat
    BY <1>4, JumpFacts
  <2>6. c = w[In(k)] + 2
    BY <2>1, <2>2, <2>4, <2>5
  <2> QED BY <2>2, <2>4, <2>6
<1> HIDE DEF Operands
<1>7. ASSUME NEW r \in D, Bears(r), JumpAt(w, r) + 2 \in Operands
      PROVE  \E k \in All("jump"), l \in Names :
               /\ r = In(k) /\ Name(k) = l /\ Effective(k)
               /\ LeadsTo(code', w[In(k)], labelMap[l])
  <2>1. PICK k \in All("jump"), l \in Names :
               /\ Name(k) = l /\ Effective(k) /\ JumpAt(w, r) + 2 = w[In(k)] + 2
               /\ JumpAt(w, r) + 2 + code'[JumpAt(w, r) + 2].arg = labelMap[l]
    BY <1>6, <1>7
  <2>2. In(k) \in D /\ Bears(In(k)) /\ JumpAt(w, In(k)) = w[In(k)] /\ w[In(k)] \in Nat
    <3>1. In(k) \in D /\ Bears(In(k)) /\ Rest(In(k)) = 0
      BY JumpFacts
    <3>2. w[In(k)] \in Nat
      BY <1>4, <3>1
    <3> QED BY <3>1, <3>2 DEF JumpAt
  <2>3. JumpAt(w, r) \in Nat
    <3>1. Rest(r) \in {0, 1} /\ w[r] \in Nat
      BY <1>4, SizeFacts
    <3> QED BY <3>1 DEF JumpAt
  <2>4. JumpAt(w, r) = JumpAt(w, In(k))
    BY <2>1, <2>2, <2>3
  <2>5. r = In(k)
    BY <1>5, <1>7, <2>2, <2>4 DEF Apart
  <2> QED BY <2>1, <2>2, <2>4, <2>5 DEF LeadsTo
<1>8. \A r \in D : Bears(r) => JumpAt(w, r) + 2 \in 1 .. Len(code)
  <2> SUFFICES ASSUME NEW r \in D, Bears(r) PROVE JumpAt(w, r) + 2 \in 1 .. Len(code)
    OBVIOUS
  <2>1. Rest(r) \in {0, 1} /\ Size(r) = Rest(r) + 2
    BY SizeFacts
  <2>2. w[r] \in Nat /\ w[r] + Size(r) <= Len(code)
    BY <1>4
  <2> QED BY <1>3, <2>1, <2>2 DEF JumpAt
<1>9. \A r \in D : Bears(r) /\ r[2] = "out" => code'[JumpAt(w, r) + 2] = code[JumpAt(w, r) + 2]
  <2> SUFFICES ASSUME NEW r \in D, Bears(r), r[2] = "out", JumpAt(w, r) + 2 \in Operands PROVE FALSE
    BY <1>3, <1>8
  <2> QED BY <1>7, Positions
<1>10. \A n \in Node : n # 1 => JointsOf(w, n, D, code')
  <2> SUFFICES ASSUME NEW n \in Node, n # 1 PROVE JointsOf(w, n, D, code')
    OBVIOUS
  <2>1. Out(n) \in D
    BY Positions DEF End, Out
  <2>2. JointsOf(w, n, D, code)
    BY <1>2, <2>1
  <2> HIDE DEF D
  <2> QED BY <1>9, <2>1, <2>2, JointsPatched
<1>11. \A c \in 1 .. Len(code) : code[c].op # "operand" => code'[c] = code[c]
  BY <1>3
<1>12. \A r \in D : CellsOf(w, r, code')
  <2> SUFFICES ASSUME NEW r \in D PROVE CellsOf(w, r, code')
    OBVIOUS
  <2>1. r \in Position /\ w[r] \in Nat /\ w[r] + Size(r) <= Len(code) /\ CellsOf(w, r, code)
    BY <1>4
  <2> QED BY <1>3, <1>11, <2>1, CellsKept
<1>13. Len(code) <= Len(code') /\ Len(code') \in Nat
  BY <1>3
<1>14. Known(w, D, code')
  <2> SUFFICES ASSUME NEW c \in 1 .. Len(code')
               PROVE  /\ code'[c].op = "eval" => Evaluated(w, c, D, code'[c])
                      /\ code'[c].op = "store" => Stored(w, c, D, code'[c])
    BY DEF Known
  <2>1. CASE c \in 1 .. Len(code)
    <3>1. \A x \in 1 .. Len(code) : code'[x] = code[x] \/ code'[x].op = "operand"
      BY <1>3
    <3> HIDE DEF D
    <3> QED BY <1>2, <2>1, <3>1, KnownKept
  <2>2. CASE c \notin 1 .. Len(code)
    <3>1. c = Len(code) + 1 /\ code'[c] = Cell("return", 1)
      BY <1>3, <2>2
    <3> QED BY <3>1 DEF Cell
  <2> QED BY <2>1, <2>2
<1>15. ASSUME NEW j \in All("jump") PROVE LeadsTo(code', w[In(j)], w[JumpDest(j)])
  <2>1. /\ j \in Node /\ Name(j) \in Names /\ In(j) \in D
        /\ Bears(In(j)) /\ Rest(In(j)) = 0 /\ Size(In(j)) = 2 /\ Succ(In(j)) = Out(j)
    BY JumpFacts
  <2>2. w[In(j)] \in Nat /\ JumpAt(w, In(j)) = w[In(j)] /\ w[Out(j)] = w[In(j)] + 2
    BY <1>4, <2>1 DEF JumpAt
  <2>3. w[In(j)] + 2 \in 1 .. Len(code)
    BY <1>8, <2>1, <2>2
  <2>4. CASE Effective(j)
    <3> DEFINE same == {m \in All("label") : Name(m) = Name(target[j])}
               l == Name(j)
    <3>1. Name(target[j]) = l /\ target[j] \in All("label")
      <4>1. target[j] \in All("label") /\ target[j] # 0
        BY OrderFacts DEF All
      <4> QED BY <4>1 DEF TargetsNamed
    <3>2. same \subseteq Node /\ same # {}
      BY <3>1 DEF All
    <3>3. LastOfName(target[j]) \in same /\ \A m \in same : m <= LastOfName(target[j])
      BY <3>2, InnermostLast DEF LastOfName
    <3>4. same = Named(D, "label", l)
      <4>1. \A m \in Node : In(m) \in D
        BY Positions DEF End, In
      <4>2. \A m : m \in same <=> m \in Node /\ Kind(m) = "label" /\ Name(m) = l
        BY <3>1 DEF All
      <4>3. \A m : m \in Named(D, "label", l) <=> m \in Node /\ Kind(m) = "label" /\ Name(m) = l
        BY <4>1, NamedFacts
      <4> QED BY <4>2, <4>3
    <3> HIDE DEF same
    <3>5. labelMap[l] = w[In(LastOfName(target[j]))]
      BY <1>2, <2>1, <3>3, <3>4 DEF Latest
    <3>6. jumpMap[l] = w[In(j)] + 1
      <4>1. j \in Named(D, "jump", l)
        BY <2>1, NamedFacts DEF All
      <4>2. \A k \in Named(D, "jump", l) : k <= j
        BY <2>4, NamedFacts DEF Effective, All
      <4> QED BY <1>2, <2>1, <4>1, <4>2 DEF Latest
    <3>7. w[In(j)] + 2 \in Operands
      BY <2>1, <2>2, <2>3, <3>6 DEF Operands
    <3>8. PICK k \in All("jump") : In(j) = In(k) /\ LeadsTo(code', w[In(k)], labelMap[Name(k)])
      BY <1>7, <2>1, <2>2, <3>7
    <3>9. k = j
      BY <3>8, Positions
    <3> QED BY <2>4, <3>5, <3>8, <3>9 DEF JumpDest
  <2>5. CASE ~Effective(j)
    <3>1. w[In(j)] + 2 \notin Operands
      <4> SUFFICES ASSUME w[In(j)] + 2 \in Operands PROVE FALSE
        OBVIOUS
      <4>1. PICK k \in All("jump") : In(j) = In(k) /\ Effective(k)
        BY <1>7, <2>1, <2>2
      <4> QED BY <2>5, <4>1, Positions
    <3>2. code'[w[In(j)] + 2] = code[w[In(j)] + 2]
      BY <1>3, <2>3, <3>1
    <3>3. LeadsTo(code, w[In(j)], w[In(j)] + 2)
      BY <1>2, <2>1 DEF Unpatched, All
    <3> QED BY <2>2, <2>5, <3>2, <3>3 DEF JumpDest, LeadsTo
  <2> QED BY <2>4, <2>5
<1>16. \A r \in D : w[r] + Size(r) <= Len(code')
  <2>1. \A r \in D : Size(r) \in Nat
    BY SizeFacts
  <2> QED BY <1>3, <1>4, <1>13, <2>1
<1> QED BY <1>2, <1>3, <1>4, <1>10, <1>12, <1>14, <1>15, <1>16 DEF LaidOut

-----------------------------------------------------------------------------
(* The code that is laid out does what the body does, position by position. *)

\* Where the emission goes from the parts of a statement.
LEMMA AfterPart ==
  ASSUME Ordered, NEW n \in Node, n # 1
  PROVE  LET p == Up(n) IN
         /\ Kind(p) \in {"while", "do"} =>
              NextToEmit(n) = IF Place(n) = 1 THEN In(Child(p, 2)) ELSE Out(p)
         /\ Kind(p) = "if" =>
              NextToEmit(n) = IF Place(n) = 1 THEN In(Child(p, 2))
                              ELSE IF Place(n) = 2 /\ TwoWay(p) THEN In(Child(p, 3)) ELSE Out(p)
         /\ Kind(p) = "for" =>
              /\ Place(n) = 1 => NextToEmit(n) = In(Child(p, 2)) /\ Onward(n) = In(Child(p, 2))
              /\ Place(n) = 2 => NextToEmit(n) = In(Child(p, 4))
              /\ Place(n) = 3 => NextToEmit(n) = Out(p)
              /\ Place(n) = 4 => NextToEmit(n) = In(Child(p, 3))
         /\ Kind(p) # "for" => NextToEmit(n) = Onward(n)
<1> DEFINE p == Up(n)
<1>1. p \in Node /\ n \in Children(p) /\ Place(n) \in Nat
  BY OrderFacts, ChildFacts, PlaceIsNatural
<1>2. ASSUME Kind(p) \in {"while", "do", "if"}, NEW k, k = Place(n) + 1, k = 2 \/ (k = 3 /\ TwoWay(p))
      PROVE  NextToEmit(n) = In(Child(p, k))
  <2>1. Child(p, k) \in Children(p) /\ Place(Child(p, k)) = k
    BY <1>1, <1>2, PartsOfStatement DEF Loops, TwoWay
  <2>2. Child(p, k) > n
    <3>1. n < Child(p, k)
      BY <1>1, <1>2, <2>1, PlacesOrder
    <3>2. n \in Nat /\ Child(p, k) \in Nat
      BY <1>1, <2>1, PlaceIsNatural
    <3> QED BY <3>1, <3>2
  <2>3. PICK s \in Children(p) : NextToEmit(n) = In(s) /\ Place(s) = Place(n) + 1
    BY <1>2, <2>1, <2>2, NextToEmitFacts
  <2>4. s = Child(p, k)
    BY <1>1, <1>2, <2>3, ChildUnique
  <2> QED BY <2>3, <2>4
<1>3. ASSUME Kind(p) \in {"while", "do", "if"}, Place(n) = 2, ~TwoWay(p)
      PROVE  NextToEmit(n) = Out(p)
  <2> SUFFICES ASSUME NEW s \in Children(p), Place(s) = Place(n) + 1 PROVE FALSE
    BY <1>3, NextToEmitFacts
  <2>1. s \in Node /\ s # 1 /\ Up(s) = p
    BY <1>1, ChildFacts
  <2>2. Place(s) \in 1 .. 2
    BY <1>3, <2>1, PlacesOfParts
  <2> QED BY <1>3, <2>2
<1>4. ASSUME Kind(p) = "if", Place(n) = 3
      PROVE  NextToEmit(n) = Out(p)
  <2> SUFFICES ASSUME NEW s \in Children(p), Place(s) = Place(n) + 1 PROVE FALSE
    BY <1>4, NextToEmitFacts
  <2>1. s \in Node /\ s # 1 /\ Up(s) = p
    BY <1>1, ChildFacts
  <2>2. Place(s) \in 1 .. 3
    BY <1>4, <2>1, PlacesOfParts
  <2> QED BY <1>4, <2>2
<1>5. /\ Kind(p) \in {"while", "do"} => Place(n) \in {1, 2}
      /\ Kind(p) = "if" => Place(n) \in {1, 2, 3}
      /\ Kind(p) \in {"while", "do"} => ~TwoWay(p)
      /\ Kind(p) = "if" /\ Place(n) = 3 => TwoWay(p)
  BY <1>1, PlacesOfParts DEF TwoWay
<1>6. Kind(p) # "for" => NextToEmit(n) = Onward(n)
  BY DEF NextToEmit
<1>7. ASSUME Kind(p) = "for"
      PROVE  /\ Place(n) = 1 => NextToEmit(n) = In(Child(p, 2)) /\ Onward(n) = In(Child(p, 2))
             /\ Place(n) = 2 => NextToEmit(n) = In(Child(p, 4))
             /\ Place(n) = 3 => NextToEmit(n) = Out(p)
             /\ Place(n) = 4 => NextToEmit(n) = In(Child(p, 3))
  <2>1. ASSUME Place(n) = 1 PROVE Onward(n) = In(Child(p, 2))
    <3>1. Child(p, 2) \in Children(p) /\ Place(Child(p, 2)) = 2
      BY <1>1, <1>7, PartsOfFor
    <3>2. Follower(n) = Child(p, 2)
      BY <1>1, <2>1, <3>1, NextPart
    <3>3. Child(p, 2) # 0
      BY <1>1, <3>1, ChildFacts, OrderFacts DEF Node
    <3> QED BY <3>2, <3>3 DEF Onward
  <2> QED BY <1>7, <2>1 DEF NextToEmit
<1>8. Kind(p) \in {"while", "do"} => NextToEmit(n) = IF Place(n) = 1 THEN In(Child(p, 2)) ELSE Out(p)
  BY <1>2, <1>3, <1>5
<1>9. Kind(p) = "if" => NextToEmit(n) = IF Place(n) = 1 THEN In(Child(p, 2))
                              ELSE IF Place(n) = 2 /\ TwoWay(p) THEN In(Child(p, 3)) ELSE Out(p)
  BY <1>2, <1>3, <1>4, <1>5
<1> QED BY <1>6, <1>7, <1>8, <1>9

-----------------------------------------------------------------------------
(* From cell to cell. *)

\* What is laid out at a position.
LEMMA LaidFacts ==
  ASSUME Ordered, NEW w, LaidOut(w, code), Len(code) \in Nat, NEW r \in Position, r # End
  PROVE  /\ w[r] \in Nat /\ JumpAt(w, r) \in Nat /\ Succ(r) \in Position
         /\ w[Succ(r)] = w[r] + Size(r) /\ w[r] + Size(r) <= Len(code) /\ CellsOf(w, r, code)
         /\ Rest(r) \in {0, 1}
         /\ Bears(r) => /\ Size(r) = Rest(r) + 2 /\ w[Succ(r)] = JumpAt(w, r) + 2
                        /\ JumpAt(w, r) + 1 < Len(code) /\ At(JumpAt(w, r)).op = JumpOp(r)
         /\ ~Bears(r) => w[Succ(r)] = JumpAt(w, r)
         /\ \A x : Bears(r) /\ LeadsTo(code, JumpAt(w, r), x) => Destined(JumpAt(w, r)) = x
<1>1. /\ w[r] \in Nat /\ w[Succ(r)] = w[r] + Size(r) /\ w[r] + Size(r) <= Len(code) /\ CellsOf(w, r, code)
  BY DEF LaidOut
<1>2. Rest(r) \in {0, 1} /\ (Bears(r) => Size(r) = Rest(r) + 2) /\ (~Bears(r) => Size(r) = Rest(r))
  BY SizeFacts
<1>3. JumpAt(w, r) = w[r] + Rest(r) /\ JumpAt(w, r) \in Nat
  BY <1>1, <1>2 DEF JumpAt
<1>4. Succ(r) \in Position
  BY SuccIsPosition
<1>5. Bears(r) => At(JumpAt(w, r)).op = JumpOp(r)
  BY <1>1 DEF CellsOf, At
<1>6. \A x : LeadsTo(code, JumpAt(w, r), x) => Destined(JumpAt(w, r)) = x
  <2>1. JumpAt(w, r) + 1 + 1 = JumpAt(w, r) + 2
    BY <1>3
  <2> QED BY <2>1 DEF LeadsTo, Destined, At
<1> QED BY <1>1, <1>2, <1>3, <1>4, <1>5, <1>6

\* Out of a node that is not a condition, behind what takes its value.
LEMMA OutLeads ==
  ASSUME Ordered, NEW w, LaidOut(w, code), Len(code) \in Nat, NEW n \in Node, n # 1, ~Condition(n)
  PROVE  LET x == JumpAt(w, Out(n)) IN
         \E to \in Position :
           /\ Leaving(n) = {to}
           /\ IF Bears(Out(n)) THEN x + 1 < Len(code) /\ At(x).op = "jump" /\ Destined(x) = w[to] ELSE x = w[to]
<1> DEFINE p == Up(n)
           r == Out(n)
           x == JumpAt(w, Out(n))
<1>1. p \in Node /\ n \in Children(p) /\ r \in Position /\ r # End
  BY OrderFacts, ChildFacts, Positions DEF End, Out
<1>2. /\ Bears(r) => x + 1 < Len(code) /\ At(x).op = "jump"
      /\ ~Bears(r) => w[NextToEmit(n)] = x
      /\ \A to : Bears(r) /\ LeadsTo(code, x, w[to]) => Destined(x) = w[to]
  <2>1. JumpOp(r) = "jump"
    BY Positions DEF JumpOp
  <2>2. Succ(r) = NextToEmit(n)
    BY Positions DEF Succ
  <2> QED BY <1>1, <2>1, <2>2, LaidFacts
<1>3. Bears(r) <=> IsBranch(n, 2) \/ LastOfLoop(n)
  BY Roles
<1>4. JointsOf(w, n, Position \ {End}, code) /\ \A m \in Children(p) : JointsOf(w, m, Position \ {End}, code)
  BY <1>1, ChildFacts DEF LaidOut
<1>5. ASSUME NEW to, Leaving(n) = {to}, Bears(r) => LeadsTo(code, x, w[to]), ~Bears(r) => to = NextToEmit(n)
      PROVE  /\ to \in Position
             /\ IF Bears(r) THEN x + 1 < Len(code) /\ At(x).op = "jump" /\ Destined(x) = w[to] ELSE x = w[to]
  BY <1>2, <1>5, LeavingStays
<1>6. CASE Kind(p) = "if"
  <2>1. Place(n) # 1 /\ Leaving(n) = {Out(p)}
    <3>1. Place(n) # 1
      BY <1>6 DEF Condition
    <3>2. Leaving(n) = {Out(p)}
      BY <1>6 DEF Leaving
    <3> QED BY <3>1, <3>2
  <2>2. CASE IsBranch(n, 2)
    <3>1. TwoWay(p) /\ Cardinality(Children(p)) = 3
      BY <2>2 DEF IsBranch, TwoWay
    <3> DEFINE m == Child(p, 3)
    <3>2. m \in Children(p) /\ Place(m) = 3
      BY <1>1, <1>6, <3>1, PartsOfStatement
    <3>3. m \in Node /\ m # 1 /\ Up(m) = p
      BY <1>1, <3>2, ChildFacts
    <3>4. IsBranch(m, 3)
      BY <3>1, <3>2, <3>3 DEF IsBranch
    <3>5. NextToEmit(m) = Out(p)
      BY <1>6, <3>2, <3>3, AfterPart
    <3>6. LeadsTo(code, x, w[Succ(Out(m))])
      <4>1. JointsOf(w, m, Position \ {End}, code) /\ n \in Children(Up(m))
        BY <1>1, <1>4, <3>2, <3>3
      <4> HIDE DEF m
      <4> QED BY <2>2, <3>4, <4>1 DEF JointsOf
    <3>7. Succ(Out(m)) = Out(p)
      BY <3>5, Positions DEF Succ
    <3> QED BY <1>3, <1>5, <2>1, <2>2, <3>6, <3>7
  <2>3. CASE ~IsBranch(n, 2)
    <3>1. ~LastOfLoop(n)
      BY <1>6 DEF LastOfLoop
    <3>2. ~ (Place(n) = 2 /\ TwoWay(p))
      BY <2>3 DEF IsBranch
    <3>3. NextToEmit(n) = Out(p)
      BY <1>6, <2>1, <3>2, AfterPart
    <3> QED BY <1>3, <1>5, <2>1, <2>3, <3>1, <3>3
  <2> QED BY <2>2, <2>3
<1>7. CASE Kind(p) = "while"
  <2>1. Place(n) = 2
    BY <1>7, PlacesOfParts DEF Condition, Loops
  <2>2. Leaving(n) = {In(Child(p, 1))} /\ LastOfLoop(n)
    BY <1>7, <2>1 DEF Leaving, Loops, StatementPlace, BackEdge, LastOfLoop
  <2>3. LeadsTo(code, x, w[In(Child(p, 1))])
    BY <1>4, <1>7, <2>2 DEF JointsOf, Again
  <2> QED BY <1>3, <1>5, <2>2, <2>3
<1>8. CASE Kind(p) = "do"
  <2>1. Place(n) = 1
    BY <1>8, PlacesOfParts DEF Condition, Loops
  <2>2. Leaving(n) = {In(Child(p, 2))}
    BY <1>8, <2>1 DEF Leaving, Loops, StatementPlace, BackEdge
  <2>3. NextToEmit(n) = In(Child(p, 2))
    BY <1>8, <2>1, AfterPart
  <2>4. ~Bears(r)
    BY <1>3, <1>8 DEF IsBranch, TwoWay, LastOfLoop
  <2> QED BY <1>5, <2>2, <2>3, <2>4
<1>9. CASE Kind(p) = "for"
  <2>1. Place(n) \in {1, 3, 4}
    BY <1>9, PlacesOfParts DEF Condition, Loops
  <2>2. ~IsBranch(n, 2) /\ (LastOfLoop(n) <=> Place(n) = 3)
    BY <1>9 DEF IsBranch, TwoWay, LastOfLoop
  <2>3. CASE Place(n) = 1
    <3>1. Leaving(n) = {In(Child(p, 2))}
      BY <1>9, <2>3, AfterPart DEF Leaving, Loops, StatementPlace
    <3> QED BY <1>3, <1>5, <1>9, <2>2, <2>3, <3>1, AfterPart
  <2>4. CASE Place(n) = 3
    <3>1. Leaving(n) = {In(Child(p, 2))}
      BY <1>9, <2>4 DEF Leaving, Loops, StatementPlace
    <3>2. LeadsTo(code, x, w[In(Child(p, 2))])
      BY <1>4, <1>9, <2>2, <2>4 DEF JointsOf, Again
    <3> QED BY <1>3, <1>5, <2>2, <2>4, <3>1, <3>2
  <2>5. CASE Place(n) = 4
    <3>1. Leaving(n) = {In(Child(p, 3))}
      BY <1>9, <2>5 DEF Leaving, Loops, StatementPlace, BackEdge
    <3> QED BY <1>3, <1>5, <1>9, <2>2, <2>5, <3>1, AfterPart
  <2> QED BY <2>1, <2>3, <2>4, <2>5
<1>10. CASE Kind(p) \notin Loops \cup {"if"}
  <2>1. Leaving(n) = {Onward(n)} /\ NextToEmit(n) = Onward(n)
    BY <1>10, AfterPart DEF Leaving, Loops
  <2>2. ~Bears(r)
    BY <1>3, <1>10 DEF IsBranch, TwoWay, LastOfLoop, Loops
  <2> QED BY <1>5, <2>1, <2>2
<1> QED BY <1>6, <1>7, <1>8, <1>9, <1>10 DEF Loops

\* Out of a condition, behind its value.
LEMMA ConditionLeads ==
  ASSUME Ordered, NEW w, LaidOut(w, code), Len(code) \in Nat, NEW n \in Node, Condition(n), NEW v \in BOOLEAN
  PROVE  LET y == w[Out(n)] IN
         /\ Taken(n, v) \in Position
         /\ y + 1 < Len(code) /\ At(y).op \in {"jumpif", "jumpnif"} /\ Skip(y, v) = w[Taken(n, v)]
<1> DEFINE p == Up(n)
           r == Out(n)
           y == w[Out(n)]
<1>1. /\ n # 1 /\ p \in Node /\ n \in Children(p) /\ r \in Position /\ r # End
      /\ Kind(p) \in Loops \cup {"if"}
  <2>1. n # 1 /\ Kind(p) \in Loops \cup {"if"}
    BY DEF Condition
  <2> QED BY <2>1, OrderFacts, ChildFacts, Positions DEF End, Out
<1>2. Bears(r) /\ Rest(r) = 0
  BY <1>1, Roles DEF Loops
<1>3. y \in Nat /\ JumpAt(w, r) = y
  <2>1. y \in Nat
    BY <1>1, LaidFacts
  <2> QED BY <1>2, <2>1 DEF JumpAt
<1>4. /\ y + 1 < Len(code) /\ At(y).op = JumpOp(r) /\ w[NextToEmit(n)] = y + 2
      /\ \A x : LeadsTo(code, y, x) => Destined(y) = x
  <2>1. Succ(r) = NextToEmit(n)
    BY Positions DEF Succ
  <2> QED BY <1>1, <1>2, <1>3, <2>1, LaidFacts
<1>5. Taken(n, v) \in Position
  <2>1. Taken(n, v) \in Leaving(n)
    BY DEF Leaving
  <2> QED BY <1>1, <2>1, LeavingStays
<1>6. JointsOf(w, n, Position \ {End}, code) /\ \A m \in Children(p) : JointsOf(w, m, Position \ {End}, code)
  BY <1>1, ChildFacts DEF LaidOut
<1>7. JumpOp(r) = IF Kind(p) = "do" THEN "jumpif" ELSE "jumpnif"
  BY Positions DEF JumpOp
<1>8. ASSUME Kind(p) # "do", NEW m \in Children(p), Closes(m) PROVE Destined(y) = w[NextToEmit(m)]
  <2>1. JointsOf(w, m, Position \ {End}, code) /\ n \in Children(Up(m))
    BY <1>1, <1>6, ChildFacts
  <2>2. LeadsTo(code, y, w[Succ(Out(m))])
    BY <1>3, <1>8, <2>1 DEF JointsOf
  <2>3. Succ(Out(m)) = NextToEmit(m)
    BY Positions DEF Succ
  <2> QED BY <1>4, <2>2, <2>3
<1>9. CASE Kind(p) = "do"
  <2>1. Place(n) = 2
    BY <1>9 DEF Condition
  <2>2. Taken(n, FALSE) = Out(p)
    BY <1>9 DEF Taken
  <2>3. NextToEmit(n) = Out(p)
    BY <1>1, <1>9, <2>1, AfterPart
  <2>4. LeadsTo(code, y, w[Taken(n, TRUE)])
    BY <1>3, <1>6, <1>9 DEF JointsOf
  <2>5. Destined(y) = w[Taken(n, TRUE)]
    BY <1>4, <2>4
  <2>6. Skip(y, v) = IF v THEN Destined(y) ELSE y + 2
    BY <1>4, <1>7, <1>9 DEF Skip
  <2> QED BY <1>4, <1>5, <1>7, <1>9, <2>2, <2>3, <2>5, <2>6
<1>10. Kind(p) # "do" => Skip(y, v) = IF v THEN y + 2 ELSE Destined(y)
  BY <1>4, <1>7 DEF Skip
<1>11. ASSUME Kind(p) # "do", NextToEmit(n) = Taken(n, TRUE),
              NEW m \in Children(p), Closes(m), NextToEmit(m) = Taken(n, FALSE)
       PROVE  /\ Taken(n, v) \in Position
              /\ y + 1 < Len(code) /\ At(y).op \in {"jumpif", "jumpnif"} /\ Skip(y, v) = w[Taken(n, v)]
  BY <1>4, <1>5, <1>7, <1>8, <1>10, <1>11
<1>12. CASE Kind(p) \in {"if", "while"}
  <2> DEFINE m == Child(p, 2)
  <2>1. m \in Children(p) /\ Place(m) = 2
    BY <1>1, PartsOfStatement
  <2>2. m \in Node /\ m # 1 /\ Up(m) = p
    BY <1>1, <2>1, ChildFacts
  <2>3. Closes(m)
    BY <1>12, <2>1, <2>2 DEF Closes
  <2>4. Place(n) = 1
    BY <1>12 DEF Condition
  <2>5. Taken(n, TRUE) = In(Child(p, 2))
    BY <1>12 DEF Taken, StatementPlace
  <2>6. NextToEmit(n) = In(Child(p, 2))
    BY <1>1, <1>12, <2>4, AfterPart
  <2>7. CASE TwoWay(p)
    <3>1. Taken(n, FALSE) = In(Child(p, 3))
      BY <2>7 DEF Taken, TwoWay
    <3>2. Kind(p) = "if"
      BY <2>7 DEF TwoWay
    <3>3. NextToEmit(m) = In(Child(p, 3))
      BY <2>1, <2>2, <2>7, <3>2, AfterPart
    <3> QED BY <1>11, <1>12, <2>1, <2>3, <2>5, <2>6, <3>1, <3>3
  <2>8. CASE ~TwoWay(p)
    <3>1. Taken(n, FALSE) = Out(p)
      BY <2>8 DEF Taken, TwoWay
    <3>2. NextToEmit(m) = Out(p)
      BY <1>12, <2>1, <2>2, <2>8, AfterPart
    <3> QED BY <1>11, <1>12, <2>1, <2>3, <2>5, <2>6, <3>1, <3>2
  <2> QED BY <2>7, <2>8
<1>13. CASE Kind(p) = "for"
  <2> DEFINE m == Child(p, 3)
  <2>1. m \in Children(p) /\ Place(m) = 3 /\ Late(m)
    BY <1>1, <1>13, PartsOfFor
  <2>2. m \in Node /\ m # 1 /\ Up(m) = p
    BY <1>1, <2>1, ChildFacts
  <2>3. Closes(m)
    BY <2>1, <2>2 DEF Closes
  <2>4. Place(n) = 2
    BY <1>13 DEF Condition
  <2>5. Taken(n, TRUE) = In(Child(p, 4)) /\ Taken(n, FALSE) = Out(p)
    BY <1>13 DEF Taken, StatementPlace
  <2>6. NextToEmit(n) = In(Child(p, 4)) /\ NextToEmit(m) = Out(p)
    BY <1>1, <1>13, <2>1, <2>2, <2>4, AfterPart
  <2> QED BY <1>11, <1>13, <2>1, <2>3, <2>5, <2>6
<1> QED BY <1>1, <1>9, <1>12, <1>13 DEF Loops

-----------------------------------------------------------------------------
(* Going on and on from one of finitely many places. *)

\* Going on from x, by f.
Path(g, S, f, x) == g \in [Nat -> S] /\ g[0] = x /\ \A k \in Nat : g[k + 1] = f[g[k]]

ClosedUnder(C, f) == \A p \in C : f[p] \in C

\* Going on from x there is a path.
LEMMA PathExists ==
  ASSUME NEW S, NEW f \in [S -> S], NEW x \in S
  PROVE  \E g : Path(g, S, f, x)
<1> DEFINE Start(g, k) == g \in [Nat -> S] /\ g[0] = x /\ \A i \in Nat : i < k => g[i + 1] = f[g[i]]
           T == {k \in Nat : ~ \E g : Start(g, k)}
<1>1. T = {}
  <2> SUFFICES ASSUME T # {} PROVE FALSE
    OBVIOUS
  <2>1. PICK k \in T : \A m \in T : k <= m
    BY LeastExists
  <2>2. k # 0
    <3>1. Start([i \in Nat |-> x], 0)
      OBVIOUS
    <3> QED BY <3>1
  <2>3. k - 1 \in Nat /\ k - 1 \notin T
    <3> HIDE DEF T
    <3>1. k \in Nat
      BY DEF T
    <3>2. k - 1 \in Nat /\ ~ (k <= k - 1)
      BY <2>2, <3>1
    <3> QED BY <2>1, <3>2
  <2>4. PICK g : Start(g, k - 1)
    BY <2>3
  <2>5. f[g[k - 1]] \in S
    BY <2>3, <2>4
  <2> DEFINE h == [g EXCEPT ![k] = f[g[k - 1]]]
  <2>6. h \in [Nat -> S] /\ h[k] = f[g[k - 1]] /\ \A i \in Nat : i # k => h[i] = g[i]
    BY <2>4, <2>5
  <2> HIDE DEF h
  <2>7. ASSUME NEW i \in Nat, i < k PROVE h[i + 1] = f[h[i]]
    <3>1. CASE i = k - 1
      BY <2>3, <2>6, <3>1
    <3>2. CASE i # k - 1
      BY <2>3, <2>4, <2>6, <2>7, <3>2
    <3> QED BY <3>1, <3>2
  <2>8. Start(h, k)
    BY <2>2, <2>4, <2>6, <2>7
  <2> QED BY <2>1, <2>8
<1>2. \A k \in Nat : \E g : Start(g, k)
  BY <1>1
<1> DEFINE part == [k \in Nat |-> CHOOSE g : Start(g, k)]
<1>3. \A k \in Nat : Start(part[k], k)
  BY <1>2
<1> HIDE DEF part
<1>4. \A k, i \in Nat : i < k => part[k][i + 1] = f[part[k][i]]
  BY <1>3
<1>5. ASSUME NEW k \in Nat PROVE \A i \in Nat : i <= k => part[k][i] = part[i][i]
  <2> DEFINE E == {i \in Nat : \E m \in Nat : i <= m /\ part[m][i] # part[i][i]}
  <2>1. E = {}
    <3> SUFFICES ASSUME E # {} PROVE FALSE
      OBVIOUS
    <3>1. PICK i \in E : \A y \in E : i <= y
      BY LeastExists
    <3>2. PICK m \in Nat : i <= m /\ part[m][i] # part[i][i]
      BY <3>1
    <3>3. i # 0
      BY <1>3, <3>2
    <3>4. i - 1 \in Nat /\ i - 1 < i /\ i - 1 \notin E
      BY <3>1, <3>3
    <3>5. part[m][i - 1] = part[i - 1][i - 1] /\ part[i][i - 1] = part[i - 1][i - 1]
      BY <3>2, <3>4
    <3>6. part[m][i] = f[part[m][i - 1]] /\ part[i][i] = f[part[i][i - 1]]
      <4>1. i \in Nat /\ (i - 1) + 1 = i /\ i - 1 < m /\ i - 1 < i
        BY <3>2, <3>4
      <4> HIDE DEF Start, T, E
      <4>2. part[m][(i - 1) + 1] = f[part[m][i - 1]] /\ part[i][(i - 1) + 1] = f[part[i][i - 1]]
        BY <1>4, <3>2, <3>4, <4>1
      <4> QED BY <4>1, <4>2
    <3> QED BY <3>2, <3>5, <3>6
  <2>2. ASSUME NEW i \in Nat, i <= k PROVE part[k][i] = part[i][i]
    <3>1. i \notin E
      BY <2>1
    <3> QED BY <2>2, <3>1
  <2> QED BY <2>2
<1> DEFINE g == [k \in Nat |-> part[k][k]]
<1>6. g \in [Nat -> S] /\ g[0] = x
  BY <1>3
<1>7. ASSUME NEW i \in Nat PROVE g[i + 1] = f[g[i]]
  <2>0. i + 1 \in Nat /\ i < i + 1 /\ i <= i + 1
    OBVIOUS
  <2>1. part[i + 1][i + 1] = f[part[i + 1][i]]
    BY <1>4, <2>0
  <2>2. part[i + 1][i] = part[i][i]
    BY <1>5, <2>0
  <2> QED BY <2>1, <2>2
<1> QED BY <1>6, <1>7 DEF Path

\* What is defined recursively is the path.
LEMMA PathSolves ==
  ASSUME NEW S, NEW f, NEW x, NEW g, Path(g, S, f, x), NEW h,
         h[0] = x, \A k \in Nat : h[k] \in S => h[k + 1] = f[h[k]]
  PROVE  \A k \in Nat : h[k] = g[k]
<1> DEFINE T == {k \in Nat : h[k] # g[k]}
<1> SUFFICES ASSUME T # {} PROVE FALSE
  OBVIOUS
<1>1. PICK k \in T : \A m \in T : k <= m
  BY LeastExists
<1>2. k # 0
  BY <1>1 DEF Path
<1>3. k - 1 \in Nat /\ (k - 1) + 1 = k /\ h[k - 1] = g[k - 1]
  BY <1>1, <1>2
<1>4. g[k - 1] \in S /\ g[(k - 1) + 1] = f[g[k - 1]]
  BY <1>3 DEF Path
<1>5. h[(k - 1) + 1] = f[h[k - 1]]
  BY <1>3, <1>4
<1> QED BY <1>1, <1>3, <1>4, <1>5

\* A path stays in a set that is never left.
LEMMA PathWithin ==
  ASSUME NEW S, NEW f, NEW x, NEW g, Path(g, S, f, x), NEW C, x \in C, ClosedUnder(C, f)
  PROVE  \A k \in Nat : g[k] \in C
<1> DEFINE T == {k \in Nat : g[k] \notin C}
<1> SUFFICES ASSUME T # {} PROVE FALSE
  OBVIOUS
<1>1. PICK k \in T : \A m \in T : k <= m
  BY LeastExists
<1>2. k # 0
  BY <1>1 DEF Path
<1>3. k - 1 \in Nat /\ (k - 1) + 1 = k /\ g[k - 1] \in C
  BY <1>1, <1>2
<1>4. g[(k - 1) + 1] = f[g[k - 1]]
  BY <1>3 DEF Path
<1> QED BY <1>1, <1>3, <1>4 DEF ClosedUnder

\* More steps than places.
LEMMA TwoAlike ==
  ASSUME NEW N \in Nat, NEW T, IsFiniteSet(T), Cardinality(T) <= N, NEW g,
         \A i \in Nat : i <= N => g[i] \in T
  PROVE  \E i, j \in Nat : i < j /\ j <= N /\ g[i] = g[j]
<1> DEFINE part == [i \in 0 .. N |-> g[i]]
<1>1. IsFiniteSet(0 .. N) /\ Cardinality(0 .. N) = N + 1
  BY FS_Interval
<1>2. part \in [0 .. N -> T] /\ Cardinality(T) \in Nat
  BY FS_CardinalityType
<1>3. PICK i, j \in 0 .. N : i # j /\ part[i] = part[j]
  <2> DEFINE I == 0 .. N
  <2> HIDE DEF part
  <2>1. Cardinality(T) < Cardinality(I) /\ IsFiniteSet(I) /\ part \in [I -> T]
    BY <1>1, <1>2
  <2> HIDE DEF I
  <2>2. \E i, j \in I : i # j /\ part[i] = part[j]
    BY <2>1, FS_PigeonHole, Zenon
  <2> QED BY <2>2 DEF I
<1>4. g[i] = g[j]
  BY <1>3
<1>5. CASE i < j
  BY <1>4, <1>5
<1>6. CASE j < i
  BY <1>4, <1>6
<1> QED BY <1>3, <1>5, <1>6

\* A path that comes to a place it stays at is there after as many steps as
\* there are places.
LEMMA PathSettles ==
  ASSUME NEW S, IsFiniteSet(S), NEW f, NEW x, NEW g, Path(g, S, f, x),
         NEW N \in Nat, Cardinality(S) <= N + 1, NEW k \in Nat, f[g[k]] = g[k]
  PROVE  g[N] = g[k]
<1> DEFINE t == g[k]
           T == {i \in Nat : g[i] = t}
<1>1. \A i \in Nat : g[i] \in S /\ g[i + 1] = f[g[i]]
  BY DEF Path
<1>2. PICK least \in T : \A i \in T : least <= i
  <2>1. T # {}
    OBVIOUS
  <2> HIDE DEF T
  <2>2. T \subseteq Nat
    BY DEF T
  <2> QED BY <2>1, <2>2, LeastExists
<1>3. ASSUME NEW i \in Nat, least <= i PROVE g[i] = t
  <2> DEFINE E == {m \in Nat : least <= m /\ g[m] # t}
  <2> SUFFICES ASSUME E # {} PROVE FALSE
    BY <1>3
  <2>1. PICK m \in E : \A y \in E : m <= y
    BY LeastExists
  <2>2. m # least
    BY <1>2, <2>1
  <2>3. m - 1 \in Nat /\ (m - 1) + 1 = m /\ least <= m - 1 /\ ~ (m <= m - 1)
    BY <1>2, <2>1, <2>2
  <2>4. g[m - 1] = t
    BY <2>1, <2>3
  <2>5. g[m] = f[g[m - 1]]
    BY <1>1, <2>3
  <2> QED BY <2>1, <2>4, <2>5
<1>4. CASE least <= N
  BY <1>3, <1>4
<1>5. CASE ~ (least <= N)
  <2>1. IsFiniteSet(S \ {t}) /\ Cardinality(S \ {t}) = Cardinality(S) - 1 /\ Cardinality(S) \in Nat
    BY <1>1, FS_RemoveElement, FS_CardinalityType
  <2>2. \A i \in Nat : i <= N => g[i] \in S \ {t}
    <3>1. ASSUME NEW i \in Nat, i <= N, g[i] = t PROVE FALSE
      <4>1. i \in T /\ least \in Nat
        BY <3>1
      <4> QED BY <1>2, <1>5, <3>1, <4>1
    <3> QED BY <1>1, <3>1
  <2>3. Cardinality(S \ {t}) <= N
    BY <2>1
  <2>4. \E i, j \in Nat : i < j /\ j <= N /\ g[i] = g[j]
    <3> HIDE DEF t, T
    <3> QED BY <2>1, <2>2, <2>3, TwoAlike
  <2>5. PICK i, j \in Nat : i < j /\ j <= N /\ g[i] = g[j]
    BY <2>4
  <2>6. i \in Nat /\ j \in Nat /\ i < j /\ j < least /\ least \in Nat
    BY <1>2, <1>5, <2>5
  <2> DEFINE E == {m \in Nat : g[i + m] # g[j + m]}
  <2>7. E = {}
    <3> SUFFICES ASSUME E # {} PROVE FALSE
      OBVIOUS
    <3>1. PICK m \in E : \A y \in E : m <= y
      BY LeastExists
    <3>1a. m \in Nat /\ g[i + m] # g[j + m]
      BY <3>1
    <3>2. m # 0
      BY <2>5, <2>6, <3>1a
    <3>2a. m - 1 \in Nat /\ ~ (m <= m - 1)
      BY <3>1a, <3>2
    <3>2b. m - 1 \notin E
      BY <3>1, <3>2a
    <3>3. m - 1 \in Nat /\ g[i + (m - 1)] = g[j + (m - 1)]
      BY <3>2a, <3>2b
    <3>4. i + (m - 1) \in Nat /\ i + (m - 1) + 1 = i + m /\ j + (m - 1) \in Nat /\ j + (m - 1) + 1 = j + m
      BY <2>6, <3>3
    <3>5. g[i + m] = f[g[i + (m - 1)]] /\ g[j + m] = f[g[j + (m - 1)]]
      BY <1>1, <3>4
    <3> QED BY <3>1a, <3>3, <3>5
  <2>8. least - j \in Nat /\ j + (least - j) = least /\ i + (least - j) \in Nat /\ ~ (least <= i + (least - j))
    BY <2>6
  <2>9. g[i + (least - j)] = t
    BY <1>2, <2>7, <2>8
  <2> QED BY <1>2, <2>8, <2>9
<1> QED BY <1>4, <1>5

-----------------------------------------------------------------------------
(* The machine between two cells that can be seen. *)

\* The places of the code, and where one step that cannot be seen leads.
Places == 0 .. Len(code)
Unseen(p) == p \in 0 .. Len(code) - 1 /\ At(p).op \notin Visible
Moves(v) == [p \in Places |-> IF Unseen(p) THEN Skip(p, v) ELSE p]

\* From x the machine comes to t, where it stops to be seen; or it never stops.
ComesTo(x, v, t) ==
  /\ t \in Places /\ ~Unseen(t)
  /\ \A C \in SUBSET Places : x \in C /\ ClosedUnder(C, Moves(v)) => t \in C
NeverStops(x, v) ==
  \E C \in SUBSET Places : x \in C /\ ClosedUnder(C, Moves(v)) /\ \A p \in C : Unseen(p)

\* What is seen next from x, when the last condition was v.
Shows(x, v, answer) ==
  \/ \E t : ComesTo(x, v, t) /\ answer = {IF t = Len(code) THEN 0 ELSE At(t).arg}
  \/ NeverStops(x, v) /\ answer = {}

LEMMA MovesFacts ==
  ASSUME Settled, NEW v \in BOOLEAN
  PROVE  /\ Len(code) \in Nat /\ Moves(v) \in [Places -> Places]
         /\ IsFiniteSet(Places) /\ Cardinality(Places) = Len(code) + 1
         /\ \A p \in Places : /\ Unseen(p) => Moves(v)[p] = Skip(p, v)
                              /\ ~Unseen(p) => Moves(v)[p] = p
<1>1. code \in Text /\ Laid(code) /\ Len(code) \in Nat
  BY DEF Settled, Text
<1>2. ASSUME NEW p \in Places, Unseen(p) PROVE Skip(p, v) \in Places
  <2>1. p \in 0 .. Len(code) - 1
    BY <1>2 DEF Unseen
  <2>2. CASE At(p).op \in JumpOps
    <3>1. p + 2 \in 0 .. Len(code) /\ Destined(p) \in 0 .. Len(code)
      BY <1>1, <2>1, <2>2, JumpTarget DEF Starts
    <3> QED BY <2>2, <3>1 DEF Skip, JumpOps, Places
  <2>3. CASE At(p).op \notin JumpOps
    <3>1. Skip(p, v) = p + 1
      BY <2>3 DEF Skip, JumpOps
    <3> QED BY <1>1, <2>1, <3>1 DEF Places
  <2> QED BY <2>2, <2>3
<1>3. Moves(v) \in [Places -> Places]
  BY <1>2 DEF Moves
<1>4. IsFiniteSet(Places) /\ Cardinality(Places) = Len(code) + 1
  BY <1>1, FS_Interval DEF Places
<1> QED BY <1>1, <1>3, <1>4 DEF Moves

\* A step that cannot be seen changes nothing about what is seen next.
LEMMA UnseenStep ==
  ASSUME Settled, NEW v \in BOOLEAN, NEW x \in Places, Unseen(x), NEW answer
  PROVE  Skip(x, v) \in Places /\ (Shows(x, v, answer) <=> Shows(Skip(x, v), v, answer))
<1> DEFINE f == Moves(v)
           y == Skip(x, v)
<1>1. f[x] = y /\ y \in Places /\ f \in [Places -> Places]
  BY MovesFacts
<1> HIDE DEF f, y
<1>2. ASSUME NEW C \in SUBSET Places, y \in C, ClosedUnder(C, f)
      PROVE  C \cup {x} \in SUBSET Places /\ ClosedUnder(C \cup {x}, f)
  BY <1>1, <1>2 DEF ClosedUnder
<1>3. ASSUME NEW C \in SUBSET Places, x \in C, ClosedUnder(C, f) PROVE y \in C
  BY <1>1, <1>3 DEF ClosedUnder
<1>4. \A t : ComesTo(x, v, t) <=> ComesTo(y, v, t)
  <2> SUFFICES ASSUME NEW t, t \in Places, ~Unseen(t)
               PROVE  (\A C \in SUBSET Places : x \in C /\ ClosedUnder(C, f) => t \in C)
                        <=> (\A C \in SUBSET Places : y \in C /\ ClosedUnder(C, f) => t \in C)
    BY DEF ComesTo, f
  <2>1. t # x
    OBVIOUS
  <2>2. ASSUME \A C \in SUBSET Places : x \in C /\ ClosedUnder(C, f) => t \in C,
               NEW C \in SUBSET Places, y \in C, ClosedUnder(C, f)
        PROVE  t \in C
    BY <1>2, <2>1, <2>2
  <2>3. ASSUME \A C \in SUBSET Places : y \in C /\ ClosedUnder(C, f) => t \in C,
               NEW C \in SUBSET Places, x \in C, ClosedUnder(C, f)
        PROVE  t \in C
    BY <1>3, <2>3
  <2> QED BY <2>2, <2>3
<1>5. NeverStops(x, v) <=> NeverStops(y, v)
  <2>1. ASSUME NeverStops(x, v) PROVE NeverStops(y, v)
    BY <1>3, <2>1 DEF NeverStops, f
  <2>2. ASSUME NeverStops(y, v) PROVE NeverStops(x, v)
    <3>1. PICK C \in SUBSET Places : y \in C /\ ClosedUnder(C, f) /\ \A p \in C : Unseen(p)
      BY <2>2 DEF NeverStops, f
    <3>2. C \cup {x} \in SUBSET Places /\ ClosedUnder(C \cup {x}, f)
      BY <1>2, <3>1
    <3>3. x \in C \cup {x} /\ \A p \in C \cup {x} : Unseen(p)
      BY <3>1
    <3> QED BY <3>2, <3>3 DEF NeverStops, f
  <2> QED BY <2>1, <2>2
<1>6. Shows(x, v, answer) <=> Shows(y, v, answer)
  BY <1>4, <1>5, Zenon DEF Shows
<1> QED BY <1>1, <1>6 DEF y

\* The machine does next what it shows from where it is.
LEMMA MachineShows ==
  ASSUME Settled, ip \in Places, value \in BOOLEAN, NEW answer, Shows(ip, value, answer)
  PROVE  MachineNext = answer
<1> DEFINE f == Moves(value)
           N == 2 * Len(code)
           Solves(h) == h = [k \in Nat |-> IF k = 0 THEN ip
                               ELSE LET p == h[k - 1] IN
                                    IF p \in 0 .. Len(code) - 1 /\ At(p).op \notin Visible THEN Skip(p, value) ELSE p]
           onward == CHOOSE h : Solves(h)
           Said(p) == IF p \notin 0 .. Len(code) - 1 THEN {0}
                      ELSE IF At(p).op \in Visible THEN {At(p).arg} ELSE {}
<1>1. /\ Len(code) \in Nat /\ N \in Nat /\ f \in [Places -> Places]
      /\ IsFiniteSet(Places) /\ Cardinality(Places) <= N + 1
      /\ \A p \in Places : (Unseen(p) => f[p] = Skip(p, value)) /\ (~Unseen(p) => f[p] = p)
  BY MovesFacts
<1>2. MachineNext = Said(onward[N])
  BY DEF MachineNext
<1> HIDE DEF f
<1>3. PICK g : Path(g, Places, f, ip)
  BY <1>1, PathExists
<1>4. \A k \in Nat : g[k] \in Places /\ g[k + 1] = f[g[k]]
  BY <1>3 DEF Path
<1>5. Solves(g)
  <2>1. ASSUME NEW k \in Nat, k # 0 PROVE g[k] = IF Unseen(g[k - 1]) THEN Skip(g[k - 1], value) ELSE g[k - 1]
    <3>1. k - 1 \in Nat /\ (k - 1) + 1 = k
      BY <2>1
    <3>2. g[k - 1] \in Places /\ g[k] = f[g[k - 1]]
      BY <1>4, <3>1
    <3> QED BY <1>1, <3>2
  <2>2. g \in [Nat -> Places] /\ g[0] = ip
    BY <1>3 DEF Path
  <2> QED BY <2>1, <2>2 DEF Unseen
<1>6. Solves(onward)
  BY <1>5
<1> HIDE DEF onward, N
<1>7. onward[N] = g[N]
  <2>1. onward[0] = ip
    BY <1>6
  <2>2. ASSUME NEW k \in Nat, onward[k] \in Places PROVE onward[k + 1] = f[onward[k]]
    <3>1. k + 1 \in Nat /\ k + 1 # 0 /\ (k + 1) - 1 = k
      OBVIOUS
    <3>2. onward[k + 1] = IF Unseen(onward[k]) THEN Skip(onward[k], value) ELSE onward[k]
      BY <1>6, <3>1 DEF Unseen
    <3> QED BY <1>1, <2>2, <3>2
  <2> HIDE DEF Solves
  <2>3. \A k \in Nat : onward[k] = g[k]
    BY <1>1, <1>3, <2>1, <2>2, PathSolves
  <2> QED BY <1>1, <2>3
<1> HIDE DEF Solves
<1>8. ASSUME NEW t, ComesTo(ip, value, t), answer = {IF t = Len(code) THEN 0 ELSE At(t).arg}
      PROVE  Said(g[N]) = answer
  <2> DEFINE C == {g[k] : k \in Nat}
  <2>1. C \in SUBSET Places /\ ip \in C
    BY <1>3, <1>4 DEF Path
  <2>2. ClosedUnder(C, f)
    <3>1. ASSUME NEW k \in Nat PROVE f[g[k]] \in C
      <4>1. k + 1 \in Nat /\ f[g[k]] = g[k + 1]
        BY <1>4
      <4> QED BY <4>1
    <3> QED BY <3>1 DEF ClosedUnder
  <2>3. t \in C
    BY <1>8, <2>1, <2>2 DEF ComesTo, f
  <2>4. PICK k \in Nat : g[k] = t
    BY <2>3
  <2>5. t \in Places /\ ~Unseen(t)
    BY <1>8 DEF ComesTo
  <2>6. f[g[k]] = g[k]
    BY <1>1, <2>4, <2>5
  <2>7. g[N] = t
    BY <1>1, <1>3, <2>4, <2>6, PathSettles
  <2>8. CASE t = Len(code)
    <3>1. t \notin 0 .. Len(code) - 1
      BY <1>1, <2>8
    <3> QED BY <1>8, <2>7, <2>8, <3>1
  <2>9. CASE t # Len(code)
    <3>1. t \in 0 .. Len(code) - 1
      BY <1>1, <2>5, <2>9 DEF Places
    <3>2. At(t).op \in Visible
      BY <2>5, <3>1 DEF Unseen
    <3> QED BY <1>8, <2>7, <2>9, <3>1, <3>2
  <2> QED BY <2>8, <2>9
<1>9. ASSUME NeverStops(ip, value), answer = {}
      PROVE  Said(g[N]) = answer
  <2>1. PICK C \in SUBSET Places : ip \in C /\ ClosedUnder(C, f) /\ \A p \in C : Unseen(p)
    BY <1>9 DEF NeverStops, f
  <2>2. \A k \in Nat : g[k] \in C
    BY <1>1, <1>3, <2>1, PathWithin
  <2>3. Unseen(g[N])
    BY <1>1, <2>1, <2>2
  <2> QED BY <1>9, <2>3 DEF Unseen
<1> HIDE DEF Said
<1>10. Said(g[N]) = answer
  BY <1>8, <1>9 DEF Shows
<1> QED BY <1>2, <1>7, <1>10

-----------------------------------------------------------------------------
(* The body between two nodes that can be seen, and the code beside it. *)

\* Control never comes to the end of an expression silently: what takes the
\* value comes first.
Points == Position \ {Out(n) : n \in All("expr")}

\* Where control goes from a point, silently; it stays where it is seen.
Goes(q) ==
  IF Seen(q) THEN q
  ELSE IF q[2] = "in" /\ Kind(q[1]) = "jump" /\ ~Effective(q[1]) THEN Out(q[1])
  ELSE CHOOSE r \in Flow(q, Jumps) : TRUE

\* Every jump has its label.
JumpsResolved == \A j \in All("jump") : target[j] \in All("label")

\* What is laid out, of a body that is resolved.
Compiled(w) == Ordered /\ Settled /\ LaidOut(w, code) /\ JumpsResolved

LEMMA PointFacts ==
  ASSUME Ordered
  PROVE  /\ Points \subseteq Position
         /\ \A n \in Node : In(n) \in Points /\ (Kind(n) # "expr" => Out(n) \in Points)
         /\ \A n : Out(n) \in Points => n \in Node /\ Kind(n) # "expr"
<1>1. ASSUME NEW n, Out(n) \in Points PROVE n \in Node /\ Kind(n) # "expr"
  <2>1. n \in Node
    BY <1>1, Positions DEF Points
  <2> QED BY <1>1, <2>1 DEF Points, All
<1>2. ASSUME NEW n \in Node PROVE In(n) \in Points /\ (Kind(n) # "expr" => Out(n) \in Points)
  <2>1. In(n) \in Position /\ Out(n) \in Position
    BY Positions
  <2>2. \A m : In(n) # Out(m) /\ (Out(n) = Out(m) => n = m)
    BY Positions
  <2> QED BY <2>1, <2>2 DEF Points, All
<1> QED BY <1>1, <1>2 DEF Points

\* Where control goes from a node that has parts or from a label.
LEMMA GoesIn ==
  ASSUME Ordered, NEW w, Compiled(w), NEW n \in Node, ~Seen(In(n)), Kind(n) # "jump"
  PROVE  LET q == In(n) IN
         /\ Goes(q) = Descend(n) /\ Goes(q) \in Points /\ w[Goes(q)] = w[q]
         /\ Seen(Goes(q)) \/ (Silent(q) /\ Flow(q, <<>>) = {Goes(q)})
<1> DEFINE q == In(n)
<1>1. q[1] = n /\ q[2] = "in" /\ q # End /\ q \in Position
  BY Positions DEF End, In
<1>2. Kind(n) \notin {"expr", "return", "state", "jump"} /\ Kind(n) \in Kinds
  BY <1>1, EmittableFacts DEF Seen
<1>3. Goes(q) = Descend(n)
  <2>1. Flow(q, Jumps) = {Descend(n)}
    BY <1>1, <1>2 DEF Flow
  <2> QED BY <1>1, <1>2, <2>1 DEF Goes
<1>4. w[Descend(n)] = w[q]
  <2>1. Rest(q) = 0 /\ ~Bears(q) /\ Succ(q) = Descend(n)
    BY <1>1, <1>2 DEF Rest, Bears, Succ
  <2>2. Size(q) = 0
    BY <2>1 DEF Size
  <2>3. Len(code) \in Nat /\ LaidOut(w, code)
    BY DEF Compiled, Settled, Text
  <2>4. w[q] \in Nat /\ w[Succ(q)] = w[q] + Size(q)
    BY <1>1, <2>3, LaidFacts
  <2> QED BY <2>1, <2>2, <2>4
<1>5. CASE Children(n) # {}
  <2>1. Descend(n) = In(n + 1) /\ n + 1 \in Node /\ n + 1 # 1 /\ Up(n + 1) = n
    BY <1>5, FirstChild, ChildFacts DEF Descend
  <2>2. Descend(n) \in Points
    BY <2>1, PointFacts
  <2>3. CASE Kind(n) = "decl"
    <3>1. Kind(n + 1) = "expr"
      BY <2>1, <2>3, EmittableFacts
    <3>2. Seen(In(n + 1))
      BY <3>1, Positions DEF Seen
    <3> QED BY <1>3, <1>4, <2>1, <2>2, <3>2
  <2>4. CASE Kind(n) # "decl"
    <3>1. Kind(n) \in Loops \cup {"block", "if", "label"}
      BY <1>2, <2>4 DEF Kinds
    <3> QED BY <1>3, <1>4, <2>2, <3>1, SilentIn
  <2> QED BY <2>3, <2>4
<1>6. CASE Children(n) = {}
  <2>1. Descend(n) = Out(n) /\ Descend(n) \in Points
    BY <1>2, <1>6, PointFacts DEF Descend
  <2>2. Kind(n) # "decl"
    BY <1>6, EmittableFacts
  <2>3. Kind(n) \in Loops \cup {"block", "if", "label"}
    BY <1>2, <2>2 DEF Kinds
  <2> QED BY <1>3, <1>4, <2>1, <2>3, SilentIn
<1> QED BY <1>5, <1>6

\* A jump goes to its destination, and so does its code.
LEMMA GoesFromJump ==
  ASSUME Ordered, NEW w, Compiled(w), NEW j \in Node, Kind(j) = "jump"
  PROVE  LET q == In(j) IN
         /\ Goes(q) = JumpDest(j) /\ Goes(q) \in Points
         /\ w[q] \in 0 .. Len(code) - 1 /\ At(w[q]).op = "jump" /\ Destined(w[q]) = w[Goes(q)]
<1> DEFINE q == In(j)
<1>1. q[1] = j /\ q[2] = "in" /\ q # End /\ q \in Position /\ j \in All("jump")
  BY Positions DEF End, In, All
<1>2. ~Seen(q)
  BY <1>1 DEF Seen
<1>3. JumpDest(j) \in Points /\ Goes(q) = JumpDest(j)
  <2>1. CASE Effective(j)
    <3> DEFINE l == LastOfName(target[j])
               T == {m \in All("label") : Name(m) = Name(target[j])}
    <3>1. T \subseteq Node /\ target[j] \in T
      BY <1>1 DEF Compiled, JumpsResolved, All
    <3>2. l \in Node
      <4>1. T # {} /\ l = Innermost(T)
        BY <3>1 DEF LastOfName
      <4> HIDE DEF T, l
      <4> QED BY <3>1, <4>1, InnermostIn
    <3>3. Jumps[j] = l
      BY <1>1 DEF Jumps
    <3>4. Flow(q, Jumps) = {In(l)}
      BY <1>1, <3>3 DEF Flow
    <3>5. Goes(q) = In(l)
      BY <1>1, <1>2, <2>1, <3>4 DEF Goes
    <3>6. JumpDest(j) = In(l)
      BY <2>1 DEF JumpDest
    <3> HIDE DEF l
    <3> QED BY <3>2, <3>5, <3>6, PointFacts
  <2>2. CASE ~Effective(j)
    <3>1. Goes(q) = Out(j) /\ JumpDest(j) = Out(j)
      BY <1>1, <1>2, <2>2 DEF Goes, JumpDest
    <3> QED BY <3>1, PointFacts
  <2> QED BY <2>1, <2>2
<1>4. Bears(q) /\ Rest(q) = 0 /\ LeadsTo(code, w[q], w[JumpDest(j)])
  BY <1>1, JumpFacts DEF Compiled, LaidOut
<1>5. Len(code) \in Nat /\ LaidOut(w, code)
  BY DEF Compiled, Settled, Text
<1>6. w[q] \in Nat
  BY <1>1, <1>5, LaidFacts
<1>7. JumpAt(w, q) = w[q]
  BY <1>4, <1>6 DEF JumpAt
<1>8. /\ JumpAt(w, q) + 1 < Len(code) /\ At(JumpAt(w, q)).op = JumpOp(q)
      /\ Destined(JumpAt(w, q)) = w[JumpDest(j)]
  BY <1>1, <1>4, <1>5, <1>7, LaidFacts
<1>9. JumpOp(q) = "jump"
  BY <1>1 DEF JumpOp
<1> QED BY <1>3, <1>5, <1>6, <1>7, <1>8, <1>9

\* Behind a node control goes on at one place, and the code with it.
LEMMA GoesOut ==
  ASSUME Ordered, NEW w, Compiled(w), NEW n \in Node, Out(n) \in Points, ~Seen(Out(n))
  PROVE  LET q == Out(n) IN
         /\ Goes(q) \in Points /\ Silent(q) /\ Flow(q, <<>>) = {Goes(q)} /\ Leaving(n) = {Goes(q)}
         /\ \/ w[Goes(q)] = w[q]
            \/ w[q] \in 0 .. Len(code) - 1 /\ At(w[q]).op = "jump" /\ Destined(w[q]) = w[Goes(q)]
<1> DEFINE q == Out(n)
<1>1. q[1] = n /\ q[2] = "out" /\ q \in Position
  BY Positions
<1>2. Kind(n) \notin {"expr", "decl"} /\ q # End /\ n # 1
  BY <1>1, PointFacts DEF Seen, End, Out
<1>3. ~Condition(n)
  BY <1>2, ConditionFacts
<1>4. Len(code) \in Nat /\ LaidOut(w, code)
  BY DEF Compiled, Settled, Text
<1>5. PICK to \in Position :
        /\ Leaving(n) = {to}
        /\ IF Bears(q)
             THEN JumpAt(w, q) + 1 < Len(code) /\ At(JumpAt(w, q)).op = "jump" /\ Destined(JumpAt(w, q)) = w[to]
           ELSE JumpAt(w, q) = w[to]
  BY <1>2, <1>3, <1>4, OutLeads
<1>6. Silent(q) /\ Flow(q, <<>>) = {to}
  BY <1>2, <1>5, SilentOut
<1>7. Goes(q) = to
  <2>1. Flow(q, Jumps) = {to}
    BY <1>1, <1>2, <1>5 DEF Flow
  <2> QED BY <1>1, <2>1 DEF Goes
<1>8. to \in Points
  <2>1. PICK x : /\ Leaving(n) = {x}
                 /\ \/ x = Onward(n)
                    \/ x = Out(Up(n))
                    \/ \E c \in Children(Up(n)) : x = In(c) /\ Kind(c) = "expr"
    BY <1>2, <1>6, LeavingSilently
  <2>2. x = to
    BY <1>5, <2>1
  <2>3. Up(n) \in Node /\ n \in Children(Up(n))
    BY <1>2, OrderFacts, ChildFacts
  <2>4. Out(Up(n)) \in Points
    <3>1. Kind(Up(n)) # "expr"
      BY <2>3, PlainFacts
    <3> QED BY <2>3, <3>1, PointFacts
  <2>5. \A c \in Node : In(c) \in Points
    BY PointFacts
  <2>6. Onward(n) \in Points
    <3>1. CASE Follower(n) # 0
      <4>1. Follower(n) \in Node
        BY <1>2, <2>3, <3>1, NextSibling, ChildFacts DEF Follower
      <4> QED BY <2>5, <3>1, <4>1 DEF Onward
    <3>2. CASE Follower(n) = 0
      BY <2>4, <3>2 DEF Onward
    <3> QED BY <3>1, <3>2
  <2> QED BY <2>1, <2>2, <2>3, <2>4, <2>5, <2>6, ChildFacts
<1>9. JumpAt(w, q) = w[q] /\ w[q] \in Nat
  <2>1. w[q] \in Nat
    BY <1>1, <1>2, <1>4, LaidFacts
  <2>2. Rest(q) = 0
    BY <1>1, <1>2 DEF Rest, Discarded
  <2> QED BY <2>1, <2>2 DEF JumpAt
<1>10. \/ w[to] = w[q]
       \/ w[q] \in 0 .. Len(code) - 1 /\ At(w[q]).op = "jump" /\ Destined(w[q]) = w[to]
  BY <1>4, <1>5, <1>9
<1> QED BY <1>5, <1>6, <1>7, <1>8, <1>10

\* Where control is seen, the code has a cell for it.
LEMMA SeenCell ==
  ASSUME Ordered, NEW w, Compiled(w), NEW q \in Position, Seen(q), q = End => ~allReturn
  PROVE  w[q] \in 0 .. Len(code) - 1 /\ At(w[q]).op \in Visible /\ At(w[q]).arg = q[1]
<1>1. Len(code) \in Nat /\ LaidOut(w, code) /\ w[q] \in Nat
  <2>1. Len(code) \in Nat /\ LaidOut(w, code)
    BY DEF Compiled, Settled, Text
  <2> QED BY <2>1 DEF LaidOut
<1>2. PICK n \in Node : q[1] = n /\ (q = In(n) \/ q = Out(n))
  BY Positions
<1>3. CASE q = End
  <2>1. Len(code) = w[q] + 1 /\ code[w[q] + 1] = Cell("return", 1)
    BY <1>1, <1>3 DEF LaidOut
  <2> QED BY <1>1, <1>3, <2>1 DEF At, Cell, Visible, End
<1>4. ASSUME q # End, Rest(q) = 1, \E op \in Visible : code[w[q] + 1] = Cell(op, n)
      PROVE  w[q] \in 0 .. Len(code) - 1 /\ At(w[q]).op \in Visible /\ At(w[q]).arg = q[1]
  <2>1. w[q] + Size(q) <= Len(code) /\ Size(q) \in Nat /\ Size(q) >= 1
    <3>1. w[q] + Size(q) <= Len(code)
      BY <1>1, <1>4, LaidFacts
    <3>2. Size(q) = 1 \/ Size(q) = 3
      BY <1>4 DEF Size
    <3> QED BY <3>1, <3>2
  <2> QED BY <1>1, <1>2, <1>4, <2>1 DEF At, Cell
<1>5. CASE q # End /\ q = In(n)
  <2>1. q[2] = "in" /\ Kind(n) \in {"expr", "return", "state"}
    BY <1>2, <1>5, Positions DEF Seen
  <2>2. CellsOf(w, q, code) /\ Rest(q) = 1
    BY <1>1, <1>2, <1>5, <2>1, LaidFacts DEF Rest
  <2>3. \E op \in Visible : code[w[q] + 1] = Cell(op, n)
    BY <1>2, <2>1, <2>2 DEF CellsOf, Visible
  <2> QED BY <1>4, <1>5, <2>2, <2>3
<1>6. CASE q # End /\ q = Out(n)
  <2>1. q[2] = "out" /\ Kind(n) = "decl"
    BY <1>2, <1>6, Positions DEF Seen
  <2>2. CellsOf(w, q, code) /\ Rest(q) = 1
    BY <1>1, <1>2, <1>6, <2>1, LaidFacts DEF Rest
  <2>3. \E op \in Visible : code[w[q] + 1] = Cell(op, n)
    BY <1>2, <2>1, <2>2 DEF CellsOf, Visible
  <2> QED BY <1>4, <1>6, <2>2, <2>3
<1> QED BY <1>2, <1>3, <1>5, <1>6

\* One step of control from a point that cannot be seen: the code jumps, or
\* there is none for it.
LEMMA PointStep ==
  ASSUME Ordered, NEW w, Compiled(w), NEW q \in Points, ~Seen(q)
  PROVE  /\ Goes(q) \in Points
         /\ \/ w[q] \in 0 .. Len(code) - 1 /\ At(w[q]).op = "jump" /\ Destined(w[q]) = w[Goes(q)]
            \/ w[Goes(q)] = w[q] /\ (Seen(Goes(q)) \/ (Silent(q) /\ Flow(q, <<>>) = {Goes(q)}))
<1>1. PICK n \in Node : q = In(n) \/ q = Out(n)
  BY Positions, PointFacts
<1>2. CASE q = In(n) /\ Kind(n) # "jump"
  BY <1>2, GoesIn
<1>3. CASE q = In(n) /\ Kind(n) = "jump"
  BY <1>3, GoesFromJump
<1>4. CASE q = Out(n)
  BY <1>4, GoesOut
<1> QED BY <1>1, <1>2, <1>3, <1>4

LEMMA PlaceOfPoint ==
  ASSUME Ordered, NEW w, Compiled(w), NEW q \in Position
  PROVE  w[q] \in Places
<1>1. Len(code) \in Nat /\ LaidOut(w, code)
  BY DEF Compiled, Settled, Text
<1>2. w[q] \in Nat
  BY <1>1 DEF LaidOut
<1>3. CASE q = End
  <2>1. w[q] <= Len(code)
    BY <1>1, <1>2, <1>3 DEF LaidOut
  <2> QED BY <1>1, <1>2, <2>1 DEF Places
<1>4. CASE q # End
  <2>1. w[q] + Size(q) <= Len(code) /\ Size(q) \in Nat
    BY <1>1, <1>4, LaidFacts, SizeFacts
  <2> QED BY <1>1, <1>2, <2>1 DEF Places
<1> QED BY <1>3, <1>4

Walk == [q \in Points |-> Goes(q)]

LEMMA WalkFacts ==
  ASSUME Ordered, NEW w, Compiled(w)
  PROVE  /\ Walk \in [Points -> Points]
         /\ \A q \in Points : Walk[q] = Goes(q) /\ (Seen(q) => Goes(q) = q)
<1>1. \A q \in Points : Goes(q) \in Points /\ (Seen(q) => Goes(q) = q)
  BY PointStep DEF Goes
<1> QED BY <1>1 DEF Walk

\* When control comes to where it is seen, the machine comes to its cell.
LEMMA BothCome ==
  ASSUME Ordered, NEW w, Compiled(w), NEW v \in BOOLEAN, NEW start \in Points,
         NEW g, Path(g, Points, Walk, start), NEW k \in Nat, Seen(g[k]), g[k] = End => ~allReturn
  PROVE  Shows(w[start], v, {g[k][1]})
<1> DEFINE q == g[k]
           t == w[q]
<1>1. q \in Points /\ q \in Position
  BY PointFacts DEF Path
<1>2. t \in 0 .. Len(code) - 1 /\ At(t).op \in Visible /\ At(t).arg = q[1]
  BY <1>1, SeenCell
<1>3. Settled
  BY DEF Compiled
<1>4. ASSUME NEW C \in SUBSET Places, w[start] \in C, ClosedUnder(C, Moves(v)) PROVE t \in C
  <2> DEFINE Q == {r \in Points : w[r] \in C}
  <2>1. ASSUME NEW r \in Points, w[r] \in C PROVE w[Goes(r)] \in C
    <3>1. CASE Seen(r)
      BY <2>1, <3>1 DEF Goes
    <3>2. CASE ~Seen(r) /\ w[Goes(r)] # w[r]
      <4>1. w[r] \in 0 .. Len(code) - 1 /\ At(w[r]).op = "jump" /\ Destined(w[r]) = w[Goes(r)]
        BY <3>2, PointStep
      <4>2. Unseen(w[r]) /\ Skip(w[r], v) = w[Goes(r)]
        BY <4>1 DEF Unseen, Skip, Visible
      <4>3. w[r] \in Places /\ Moves(v)[w[r]] = w[Goes(r)]
        BY <1>3, <2>1, <4>2, MovesFacts
      <4> QED BY <1>4, <2>1, <4>3 DEF ClosedUnder
    <3>3. CASE w[Goes(r)] = w[r]
      BY <2>1, <3>3
    <3> QED BY <3>1, <3>2, <3>3
  <2>2. ClosedUnder(Q, Walk)
    <3>1. \A r \in Q : Walk[r] \in Points /\ Walk[r] = Goes(r) /\ w[Goes(r)] \in C
      BY <2>1, WalkFacts
    <3> QED BY <3>1 DEF ClosedUnder
  <2>3. start \in Q
    BY <1>4
  <2> HIDE DEF Q
  <2>4. q \in Q
    BY <2>2, <2>3, PathWithin
  <2> QED BY <2>4 DEF Q
<1>5. t \in Places /\ ~Unseen(t)
  BY <1>1, <1>2, PlaceOfPoint DEF Unseen
<1>6. ComesTo(w[start], v, t)
  BY <1>4, <1>5 DEF ComesTo
<1>7. t # Len(code)
  BY <1>2, <1>3, MovesFacts
<1> HIDE DEF t
<1>8. {q[1]} = {IF t = Len(code) THEN 0 ELSE At(t).arg}
  BY <1>2, <1>7 DEF t
<1> HIDE DEF q
<1>9. Shows(w[start], v, {q[1]})
  BY <1>6, <1>8 DEF Shows
<1> QED BY <1>9 DEF q

\* When control never comes to where it is seen, the machine jumps on and on.
LEMMA NeitherStops ==
  ASSUME Ordered, NEW w, Compiled(w), NEW v \in BOOLEAN, NEW start \in Points,
         NEW g, Path(g, Points, Walk, start), \A k \in Nat : ~Seen(g[k])
  PROVE  Shows(w[start], v, {})
<1> DEFINE K == {g[k] : k \in Nat}
           C == {w[q] : q \in K}
<1>1. K \subseteq Points /\ start \in K
  BY DEF Path
<1>2. \A q \in K : Goes(q) \in K /\ ~Seen(q)
  <2>1. ASSUME NEW k \in Nat PROVE Goes(g[k]) \in K
    <3>1. k + 1 \in Nat /\ g[k] \in Points /\ g[k + 1] = Walk[g[k]]
      BY DEF Path
    <3>2. g[k + 1] = Goes(g[k])
      BY <3>1, WalkFacts
    <3> QED BY <3>1, <3>2
  <2> QED BY <2>1
<1>3. C \in SUBSET Places /\ w[start] \in C
  BY <1>1, PlaceOfPoint, PointFacts
<1> HIDE DEF K
<1>4. Settled
  BY DEF Compiled
<1>5. ASSUME NEW p \in C
      PROVE  \E q \in K : w[q] = p /\ p \in 0 .. Len(code) - 1 /\ At(p).op = "jump" /\ Destined(p) = w[Goes(q)]
  <2> SUFFICES ASSUME \A q \in K : w[q] = p =>
                        ~ (p \in 0 .. Len(code) - 1 /\ At(p).op = "jump" /\ Destined(p) = w[Goes(q)])
               PROVE  FALSE
    OBVIOUS
  <2>1. PICK start0 \in K : w[start0] = p
    OBVIOUS
  <2> DEFINE T == {q \in K : w[q] = p}
  <2>2. ASSUME NEW q \in T PROVE Goes(q) \in T /\ Silent(q) /\ Moved(q) = {Goes(q)}
    <3>1. q \in Points /\ ~Seen(q) /\ Goes(q) \in K /\ ~Seen(Goes(q)) /\ w[q] = p
      BY <1>1, <1>2
    <3>2. w[Goes(q)] = w[q] /\ Silent(q) /\ Flow(q, <<>>) = {Goes(q)}
      BY <3>1, PointStep
    <3> QED BY <3>1, <3>2 DEF Moved
  <2>3. start0 \in T /\ T \subseteq Position
    BY <1>1, <2>1, PointFacts
  <2> HIDE DEF T
  <2>4. PICK f : Trail(f, start0)
    BY <2>3, TrailExists
  <2>5. \A i \in Nat : f[i] \in T
    <3> DEFINE E == {i \in Nat : f[i] \notin T}
    <3> SUFFICES ASSUME E # {} PROVE FALSE
      OBVIOUS
    <3>1. PICK i \in E : \A m \in E : i <= m
      BY LeastExists
    <3>2. i # 0
      BY <2>3, <2>4, <3>1 DEF Trail
    <3>3. i - 1 \in Nat /\ (i - 1) + 1 = i /\ f[i - 1] \in T
      BY <3>1, <3>2
    <3>4. Moved(f[i - 1]) = {f[i]}
      BY <2>4, <3>3 DEF Trail
    <3>5. f[i] = Goes(f[i - 1])
      BY <2>2, <3>3, <3>4
    <3> QED BY <2>2, <3>1, <3>3, <3>5
  <2>6. 2 * Len(body) \in Nat
    BY OrderFacts
  <2>7. Silent(f[2 * Len(body)])
    BY <2>2, <2>5, <2>6
  <2> QED BY <2>3, <2>4, <2>7, TrailSettles
<1>6. ASSUME NEW p \in C PROVE Unseen(p) /\ Moves(v)[p] \in C
  <2>1. PICK q \in K : p \in 0 .. Len(code) - 1 /\ At(p).op = "jump" /\ Destined(p) = w[Goes(q)]
    BY <1>5
  <2>2. Unseen(p) /\ Skip(p, v) = w[Goes(q)]
    BY <2>1 DEF Unseen, Skip, Visible
  <2>3. p \in Places /\ Goes(q) \in K
    BY <1>2, <1>3
  <2>4. Moves(v)[p] = Skip(p, v)
    BY <1>4, <2>2, <2>3, MovesFacts
  <2> QED BY <2>2, <2>3, <2>4
<1> HIDE DEF C
<1>7. NeverStops(w[start], v)
  BY <1>3, <1>6 DEF NeverStops, ClosedUnder
<1> QED BY <1>7 DEF Shows

-----------------------------------------------------------------------------
(* What the body does next. *)

\* Where the body goes on behind a node, or from its beginning.
Starting(n, v) ==
  IF n = 0 THEN Begin
  ELSE IF Condition(n) THEN Taken(n, v)
  ELSE CHOOSE q \in Leaving(n) : TRUE

LEMMA PointsFinite ==
  ASSUME Ordered
  PROVE  /\ 4 * Len(body) \in Nat /\ IsFiniteSet(Points) /\ Cardinality(Points) <= 4 * Len(body) + 1
<1>1. Len(body) \in Nat
  BY OrderFacts
<1>2. IsFiniteSet(Node) /\ Cardinality(Node) = Len(body)
  <2>1. ASSUME NEW L \in Nat PROVE IsFiniteSet(1 .. L) /\ Cardinality(1 .. L) = L
    <3>1. 1 \in Int /\ L \in Int
      OBVIOUS
    <3>2. IsFiniteSet(1 .. L) /\ Cardinality(1 .. L) = IF 1 > L THEN 0 ELSE L - 1 + 1
      BY <3>1, FS_Interval
    <3> QED BY <3>2
  <2> QED BY <1>1, <2>1 DEF Node
<1>3. IsFiniteSet({"in", "out"}) /\ Cardinality({"in", "out"}) = 2
  <2>1. IsFiniteSet({"in"}) /\ Cardinality({"in"}) = 1
    BY FS_Singleton
  <2>2. IsFiniteSet({"in"} \cup {"out"}) /\ Cardinality({"in"} \cup {"out"}) = 2
    BY <2>1, FS_AddElement
  <2>3. {"in"} \cup {"out"} = {"in", "out"}
    OBVIOUS
  <2> QED BY <2>2, <2>3
<1>4. IsFiniteSet(Position) /\ Cardinality(Position) = Len(body) * 2
  <2>1. IsFiniteSet(Position) /\ Cardinality(Position) = Cardinality(Node) * Cardinality({"in", "out"})
    BY <1>2, <1>3, FS_Product DEF Position
  <2> QED BY <1>2, <1>3, <2>1
<1>5. IsFiniteSet(Points) /\ Cardinality(Points) <= Cardinality(Position)
  BY <1>4, PointFacts, FS_Subset
<1>6. Cardinality(Points) \in Nat
  BY <1>5, FS_CardinalityType
<1> QED BY <1>1, <1>4, <1>5, <1>6

\* What the body does next is what the machine does from the place of where
\* the body goes on.
LEMMA SourceShows ==
  ASSUME Ordered, NEW w, Compiled(w), value \in BOOLEAN, Starting(last, value) \in Points,
         NEW R, Starting(last, value) \in R, ClosedUnder(R, Walk), End \in R => ~allReturn
  PROVE  Shows(w[Starting(last, value)], value, SourceNext)
<1> DEFINE N == 4 * Len(body)
           Solves(h) == h = [k \in Nat |-> IF k = 0 THEN Starting(last, value) ELSE Goes(h[k - 1])]
           onward == CHOOSE h : Solves(h)
           Said(q) == IF Seen(q) THEN {q[1]} ELSE {}
<1>1. SourceNext = Said(onward[N])
  BY DEF SourceNext, Starting, Goes
<1>2. /\ N \in Nat /\ IsFiniteSet(Points) /\ Cardinality(Points) <= N + 1
      /\ Walk \in [Points -> Points]
      /\ \A q \in Points : Walk[q] = Goes(q) /\ (Seen(q) => Goes(q) = q)
  BY PointsFinite, WalkFacts
<1> HIDE DEF N
<1>3. PICK g : Path(g, Points, Walk, Starting(last, value))
  BY <1>2, PathExists
<1>4. \A k \in Nat : g[k] \in Points /\ g[k + 1] = Goes(g[k])
  BY <1>2, <1>3 DEF Path
<1>5. Solves(g)
  <2>1. ASSUME NEW k \in Nat, k # 0 PROVE g[k] = Goes(g[k - 1])
    <3>1. k - 1 \in Nat /\ (k - 1) + 1 = k
      BY <2>1
    <3> QED BY <1>4, <3>1
  <2>2. g \in [Nat -> Points] /\ g[0] = Starting(last, value)
    BY <1>3 DEF Path
  <2> QED BY <2>1, <2>2
<1>6. Solves(onward)
  BY <1>5
<1> HIDE DEF onward
<1>7. onward[N] = g[N]
  <2>1. onward[0] = Starting(last, value)
    BY <1>6
  <2>2. ASSUME NEW k \in Nat, onward[k] \in Points PROVE onward[k + 1] = Walk[onward[k]]
    <3>1. k + 1 \in Nat /\ k + 1 # 0 /\ (k + 1) - 1 = k
      OBVIOUS
    <3>2. onward[k + 1] = Goes(onward[k])
      BY <1>6, <3>1
    <3> QED BY <1>2, <2>2, <3>2
  <2> HIDE DEF Solves
  <2>3. \A k \in Nat : onward[k] = g[k]
    BY <1>2, <1>3, <2>1, <2>2, PathSolves
  <2> QED BY <1>2, <2>3
<1> HIDE DEF Solves
<1>8. ASSUME NEW k \in Nat, Seen(g[k]) PROVE Shows(w[Starting(last, value)], value, Said(g[N]))
  <2>1. Walk[g[k]] = g[k]
    BY <1>2, <1>4, <1>8
  <2>2. g[N] = g[k]
    BY <1>2, <1>3, <2>1, PathSettles
  <2>3. g[k] \in R
    BY <1>2, <1>3, PathWithin
  <2>4. Shows(w[Starting(last, value)], value, {g[k][1]})
    BY <1>3, <1>8, <2>3, BothCome
  <2> QED BY <1>8, <2>2, <2>4
<1>9. ASSUME \A k \in Nat : ~Seen(g[k]) PROVE Shows(w[Starting(last, value)], value, Said(g[N]))
  <2>1. Shows(w[Starting(last, value)], value, {})
    BY <1>3, <1>9, NeitherStops
  <2> QED BY <1>2, <1>9, <2>1
<1> QED BY <1>1, <1>7, <1>8, <1>9

-----------------------------------------------------------------------------
(* The end of a body whose paths all return. *)

\* Control does not come silently to the end of a node that it never leaves.
LEMMA DeadPoints ==
  ASSUME Ordered, JumpsResolved, NEW w, Compiled(w), NEW D \in SUBSET Node, Closed(D)
  PROVE  ClosedUnder({q \in Points : \A m \in D : q # Out(m)}, Walk)
<1> DEFINE R == {q \in Points : \A m \in D : q # Out(m)}
<1>1. ASSUME NEW q \in R PROVE Walk[q] \in R
  <2>1. q \in Points /\ q \in Position /\ Walk[q] = Goes(q) /\ Goes(q) \in Points
    BY PointFacts, WalkFacts
  <2>2. CASE Seen(q)
    BY <2>1, <2>2 DEF Goes
  <2>3. CASE ~Seen(q)
    <3> SUFFICES ASSUME NEW m \in D, Goes(q) = Out(m) PROVE FALSE
      BY <2>1
    <3>1. PICK n \in Node : q[1] = n /\ (q = In(n) \/ q = Out(n))
      BY <2>1, Positions
    <3>2. CASE q = In(n) /\ Kind(n) = "jump"
      <4>1. JumpDest(n) = Out(m)
        BY <3>2, GoesFromJump
      <4>2. Out(n) = Out(m)
        BY <4>1, Positions DEF JumpDest
      <4>3. n = m /\ Children(n) = {}
        BY <3>2, <4>2, EmittableFacts, Positions
      <4> QED BY <3>2, <4>3 DEF Closed
    <3>3. CASE q = In(n) /\ Kind(n) # "jump"
      <4>1. Goes(q) = Descend(n) /\ Kind(n) \notin {"jump", "return", "state"}
        BY <2>3, <3>3, GoesIn, Positions DEF Seen
      <4>2. Flow(q, target) = {Descend(n)}
        BY <3>3, <4>1, Positions DEF Flow, End, In
      <4>3. Out(m) \in Flow(q, target)
        BY <4>1, <4>2
      <4> QED BY <2>1, <4>3, DeadStays
    <3>4. CASE q = Out(n)
      <4>1. Leaving(n) = {Goes(q)}
        BY <2>1, <2>3, <3>4, GoesOut
      <4>2. q # End
        BY <2>3 DEF Seen
      <4>3. Flow(q, target) = Leaving(n)
        BY <3>4, <4>2, Positions DEF Flow
      <4>4. Out(m) \in Flow(q, target)
        BY <4>1, <4>3
      <4> QED BY <2>1, <4>4, DeadStays
    <3> QED BY <3>1, <3>2, <3>3, <3>4
  <2> QED BY <2>2, <2>3
<1> QED BY <1>1 DEF ClosedUnder

\* Expressions and declarations are always left.
LEMMA NotDead ==
  ASSUME Ordered, NEW D \in SUBSET Node, Closed(D), NEW n \in Node, Kind(n) \in {"expr", "decl"}
  PROVE  n \notin D
<1>1. ASSUME NEW m \in D, Kind(m) = "expr" PROVE FALSE
  <2>1. Children(m) = {} /\ Kind(m) # "return"
    BY <1>1, PlainFacts
  <2> QED BY <2>1 DEF Closed
<1>2. ASSUME Kind(n) = "decl", n \in D PROVE FALSE
  <2>1. PICK c : c \in Children(n)
    BY <1>2, EmittableFacts
  <2>2. c \in Node /\ c # 1 /\ Up(c) = n
    BY <2>1, ChildFacts
  <2>3. Kind(c) = "expr" /\ Children(n) = {c}
    BY <1>2, <2>2, EmittableFacts
  <2>4. Leaving(c) = {Out(n)}
    <3>1. ~ (\E d \in Children(Up(c)) : d > c)
      <4>1. c \in Nat
        BY <2>2, OrderFacts
      <4> QED BY <2>2, <2>3, <4>1
    <3>2. Follower(c) = 0
      BY <2>2, <3>1 DEF Follower
    <3>3. Onward(c) = Out(n)
      BY <2>2, <3>2 DEF Onward
    <3>4. Kind(Up(c)) \notin Loops \cup {"if"} /\ Kind(Up(c)) # "for"
      BY <1>2, <2>2 DEF Loops
    <3>5. ~Condition(c)
      BY <3>4 DEF Condition
    <3> QED BY <3>3, <3>4, <3>5 DEF Leaving
  <2>5. c \in D
    BY <1>2, <2>1, <2>4 DEF Closed
  <2> QED BY <1>1, <2>3, <2>5
<1> QED BY <1>1, <1>2

\* Nor from where it goes on.
LEMMA StartsAlive ==
  ASSUME Ordered, NEW w, Compiled(w), value \in BOOLEAN,
         last = 0 \/ (last \in Node /\ Kind(last) \in {"expr", "decl"})
  PROVE  /\ Starting(last, value) \in Points
         /\ \A D \in SUBSET Node : Closed(D) => \A m \in D : Starting(last, value) # Out(m)
<1>1. CASE last = 0
  <2>1. Starting(last, value) = In(1)
    BY <1>1 DEF Starting, Begin, In
  <2>2. 1 \in Node
    BY OrderFacts
  <2> QED BY <2>1, <2>2, PointFacts, Positions
<1>2. CASE last # 0
  <2>1. last \in Node /\ Kind(last) \in {"expr", "decl"} /\ last # 1
    BY <1>2, EmittableFacts
  <2>2. Starting(last, value) \in Leaving(last)
    <3>1. CASE Condition(last)
      BY <1>2, <3>1 DEF Starting, Leaving
    <3>2. CASE ~Condition(last)
      <4>1. Len(code) \in Nat /\ LaidOut(w, code)
        BY DEF Compiled, Settled, Text
      <4>2. PICK to \in Position : Leaving(last) = {to}
        BY <2>1, <3>2, <4>1, OutLeads
      <4> QED BY <1>2, <3>2, <4>2 DEF Starting
    <3> QED BY <3>1, <3>2
  <2>3. Up(last) \in Node /\ last \in Children(Up(last))
    BY <2>1, OrderFacts, ChildFacts
  <2>4. Starting(last, value) = Out(Up(last)) \/ \E c \in Children(Up(last)) : Starting(last, value) = In(c)
    BY <2>1, <2>2, LeavingFacts
  <2>5. Kind(Up(last)) # "expr"
    BY <2>3, PlainFacts
  <2>6. Starting(last, value) \in Points
    BY <2>3, <2>4, <2>5, PointFacts, ChildFacts
  <2>7. ASSUME NEW D \in SUBSET Node, Closed(D), NEW m \in D, Starting(last, value) = Out(m) PROVE FALSE
    <3>1. m = Up(last)
      BY <2>4, <2>7, Positions
    <3>2. last \in D
      BY <2>2, <2>3, <2>7, <3>1 DEF Closed
    <3> QED BY <2>1, <2>7, <3>2, NotDead
  <2> QED BY <2>6, <2>7
<1> QED BY <1>1, <1>2

-----------------------------------------------------------------------------
(* The machine keeps up with the body. *)

\* At most two steps that cannot be seen lead from x to y.
Reaches(x, v, y) ==
  \/ x = y
  \/ Unseen(x) /\ (\/ Skip(x, v) = y
                   \/ Unseen(Skip(x, v)) /\ Skip(Skip(x, v), v) = y)

\* What is shown from a place that is reached is shown from before.
LEMMA ReachesShows ==
  ASSUME Settled, NEW v \in BOOLEAN, NEW x \in Places, NEW y, Reaches(x, v, y), NEW answer, Shows(y, v, answer)
  PROVE  Shows(x, v, answer)
<1>1. CASE x = y
  BY <1>1
<1>2. CASE Unseen(x) /\ Skip(x, v) = y
  BY <1>2, UnseenStep
<1>3. CASE Unseen(x) /\ Unseen(Skip(x, v)) /\ Skip(Skip(x, v), v) = y
  <2>1. Skip(x, v) \in Places
    BY <1>3, UnseenStep
  <2>2. Shows(Skip(x, v), v, answer)
    BY <1>3, <2>1, UnseenStep
  <2> QED BY <1>3, <2>2, UnseenStep
<1> QED BY <1>1, <1>2, <1>3 DEF Reaches

\* Behind what can be seen of a node the machine comes to where the body goes
\* on behind the node.
LEMMA SeenLeads ==
  ASSUME Ordered, NEW w, Compiled(w), NEW p \in 0 .. Len(code) - 1, At(p).op \in {"eval", "store"}, NEW v \in BOOLEAN
  PROVE  LET n == At(p).arg IN
         /\ n \in Node /\ Kind(n) \in {"expr", "decl"} /\ n # 0
         /\ p + 1 \in Places /\ Reaches(p + 1, v, w[Starting(n, v)])
<1> DEFINE n == At(p).arg
<1>1. Len(code) \in Nat /\ LaidOut(w, code) /\ p \in Nat /\ p + 1 \in 1 .. Len(code) /\ p + 1 \in Places
  BY DEF Compiled, Settled, Text, Places
<1>2. \/ /\ n \in Node /\ Kind(n) = "expr" /\ p = w[In(n)]
      \/ /\ n \in Node /\ Kind(n) = "decl" /\ p = w[Out(n)]
  <2>1. At(p) = code[p + 1]
    BY DEF At
  <2>2. Known(w, Position \ {End}, code)
    BY <1>1 DEF LaidOut
  <2>3. CASE At(p).op = "eval"
    <3>1. PICK m \in Node :
            Kind(m) = "expr" /\ In(m) \in Position \ {End} /\ p + 1 = w[In(m)] + 1 /\ code[p + 1].arg = m
      BY <1>1, <2>1, <2>2, <2>3 DEF Known, Evaluated
    <3>2. w[In(m)] \in Nat
      BY <1>1, <3>1 DEF LaidOut
    <3>3. p = w[In(m)]
      BY <1>1, <3>1, <3>2
    <3> QED BY <2>1, <3>1, <3>3
  <2>4. CASE At(p).op = "store"
    <3>1. PICK m \in Node :
            Kind(m) = "decl" /\ Out(m) \in Position \ {End} /\ p + 1 = w[Out(m)] + 1 /\ code[p + 1].arg = m
      BY <1>1, <2>1, <2>2, <2>4 DEF Known, Stored
    <3>2. w[Out(m)] \in Nat
      BY <1>1, <3>1 DEF LaidOut
    <3>3. p = w[Out(m)]
      BY <1>1, <3>1, <3>2
    <3> QED BY <2>1, <3>1, <3>3
  <2> QED BY <2>3, <2>4
<1> HIDE DEF n
<1>3. n \in Node /\ Kind(n) \in {"expr", "decl"} /\ n # 0 /\ n # 1 /\ Out(n) \in Position /\ Out(n) # End
  <2>1. n \in Node /\ Kind(n) \in {"expr", "decl"}
    BY <1>2
  <2>2. n # 1
    BY <2>1, EmittableFacts
  <2> QED BY <2>1, <2>2, Positions DEF Node, End, Out
<1> DEFINE y == w[Out(n)]
           x == JumpAt(w, Out(n))
<1>4. y \in Nat /\ x = y + Rest(Out(n))
  BY <1>1, <1>3, LaidFacts DEF JumpAt
<1>5. CASE Kind(n) = "expr"
  <2>1. p = w[In(n)] /\ Children(n) = {}
    BY <1>2, <1>5, PlainFacts
  <2>2. p + 1 = y
    <3>1. In(n) \in Position /\ In(n) # End /\ In(n)[1] = n /\ In(n)[2] = "in"
      BY <1>3, Positions DEF End, In
    <3>2. Succ(In(n)) = Out(n)
      BY <2>1, <3>1 DEF Succ, Descend
    <3>3. Size(In(n)) = 1
      BY <1>5, <3>1 DEF Size, Rest, Bears
    <3> QED BY <1>1, <2>1, <3>1, <3>2, <3>3, LaidFacts
  <2>3. CASE Condition(n)
    <3>1. y + 1 < Len(code) /\ At(y).op \in {"jumpif", "jumpnif"} /\ Skip(y, v) = w[Taken(n, v)]
      BY <1>1, <1>3, <2>3, ConditionLeads
    <3>2. Unseen(y)
      BY <1>1, <1>4, <3>1 DEF Unseen, Visible
    <3>3. Starting(n, v) = Taken(n, v)
      BY <1>3, <2>3 DEF Starting
    <3>4. Reaches(p + 1, v, w[Starting(n, v)])
      BY <2>2, <3>1, <3>2, <3>3 DEF Reaches
    <3> QED BY <1>1, <1>3, <3>4 DEF n
  <2>4. CASE ~Condition(n)
    <3>1. PICK to \in Position :
            /\ Leaving(n) = {to}
            /\ IF Bears(Out(n)) THEN x + 1 < Len(code) /\ At(x).op = "jump" /\ Destined(x) = w[to] ELSE x = w[to]
      BY <1>1, <1>3, <2>4, OutLeads
    <3>2. Starting(n, v) = to
      BY <1>3, <2>4, <3>1 DEF Starting
    <3>3. x = w[to] \/ (Unseen(x) /\ Skip(x, v) = w[to])
      <4>1. x \in Nat
        BY <1>1, <1>3, LaidFacts
      <4>2. CASE Bears(Out(n))
        BY <1>1, <3>1, <4>1, <4>2 DEF Unseen, Visible, Skip
      <4> QED BY <3>1, <4>2
    <3>4. x = y \/ (Unseen(y) /\ Skip(y, v) = x)
      <4>1. CASE Discarded(n)
        <5>1. Rest(Out(n)) = 1
          BY <4>1, Positions DEF Rest
        <5>2. At(y).op = "pop"
          BY <1>1, <1>3, <4>1, Positions, LaidFacts DEF CellsOf, At
        <5>3. y + 1 <= Len(code)
          <6>1. y + Size(Out(n)) <= Len(code)
            BY <1>1, <1>3, LaidFacts
          <6>2. Size(Out(n)) \in {1, 3}
            BY <5>1 DEF Size
          <6> QED BY <1>1, <1>4, <6>1, <6>2
        <5>4. Unseen(y) /\ Skip(y, v) = y + 1
          BY <1>1, <1>4, <5>2, <5>3 DEF Unseen, Visible, Skip
        <5> QED BY <1>4, <5>1, <5>4
      <4>2. CASE ~Discarded(n)
        <5>1. Rest(Out(n)) = 0
          BY <1>5, <4>2, Positions DEF Rest
        <5> QED BY <1>4, <5>1
      <4> QED BY <4>1, <4>2
    <3> HIDE DEF x, y
    <3>5. Reaches(p + 1, v, w[Starting(n, v)])
      BY <2>2, <3>2, <3>3, <3>4 DEF Reaches
    <3> QED BY <1>1, <1>3, <3>5 DEF n
  <2> QED BY <2>3, <2>4
<1>6. CASE Kind(n) = "decl"
  <2>1. p = y
    BY <1>2, <1>6
  <2>2. ~Condition(n)
    BY <1>3, <1>6, ConditionFacts
  <2>3. PICK to \in Position :
          /\ Leaving(n) = {to}
          /\ IF Bears(Out(n)) THEN x + 1 < Len(code) /\ At(x).op = "jump" /\ Destined(x) = w[to] ELSE x = w[to]
    BY <1>1, <1>3, <2>2, OutLeads
  <2>4. Starting(n, v) = to
    BY <1>3, <2>2, <2>3 DEF Starting
  <2>5. x = p + 1
    BY <1>4, <1>6, <2>1, Positions DEF Rest
  <2>6. x = w[to] \/ (Unseen(x) /\ Skip(x, v) = w[to])
    <3>1. CASE Bears(Out(n))
      BY <1>1, <2>3, <2>5, <3>1 DEF Unseen, Visible, Skip
    <3> QED BY <2>3, <3>1
  <2> HIDE DEF x, y
  <2>7. Reaches(p + 1, v, w[Starting(n, v)])
    BY <2>4, <2>5, <2>6 DEF Reaches
  <2> QED BY <1>1, <1>3, <2>7 DEF n
<1> QED BY <1>3, <1>5, <1>6

-----------------------------------------------------------------------------
(* From one state to the next. *)

\* What is said of code that is done is said of the body, its jumps and the code.
LEMMA CodeStays ==
  ASSUME body' = body, target' = target, allReturn' = allReturn
  PROVE  /\ \A w, text : LaidOut(w, text)' <=> LaidOut(w, text)
         /\ \A n, v : Starting(n, v)' = Starting(n, v)
         /\ JumpsResolved' <=> JumpsResolved
<1>1. /\ Node' = Node /\ Position' = Position
      /\ \A n : Kind(n)' = Kind(n) /\ Name(n)' = Name(n) /\ In(n)' = In(n) /\ Out(n)' = Out(n)
      /\ \A k : All(k)' = All(k)
      /\ Begin' = Begin /\ End' = End
  BY PlaceStays DEF In, Out, All, Begin, End
<1>2. \A n : LastOfName(n)' = LastOfName(n)
  BY DEF LastOfName, Innermost, All, Node, Kind, Name
<1>3. \A j : JumpDest(j)' = JumpDest(j)
  BY <1>1, <1>2 DEF JumpDest, Effective
<1>4. \A text, p, to : LeadsTo(text, p, to)' <=> LeadsTo(text, p, to)
  BY DEF LeadsTo
<1>5. \A w, text : LaidOut(w, text)' <=> LaidOut(w, text)
  <2> SUFFICES ASSUME NEW w, NEW text PROVE LaidOut(w, text)' <=> LaidOut(w, text)
    OBVIOUS
  <2>1. (w \in [Position -> Nat] /\ w[Begin] = 0)' <=> (w \in [Position -> Nat] /\ w[Begin] = 0)
    BY <1>1
  <2>2. \A r : /\ Succ(r)' = Succ(r) /\ Size(r)' = Size(r)
               /\ CellsOf(w, r, text)' <=> CellsOf(w, r, text)
    BY DoneStays, PictureStays
  <2>3. (\A r \in Position \ {End} :
           w[Succ(r)] = w[r] + Size(r) /\ w[r] + Size(r) <= Len(text) /\ CellsOf(w, r, text))'
        <=> (\A r \in Position \ {End} :
           w[Succ(r)] = w[r] + Size(r) /\ w[r] + Size(r) <= Len(text) /\ CellsOf(w, r, text))
    BY <1>1, <2>2
  <2>4. (Position \ {End})' = Position \ {End}
    BY <1>1
  <2>5. \A n : JointsOf(w, n, Position \ {End}, text)' <=> JointsOf(w, n, Position \ {End}, text)
    BY <2>4, SaidStays
  <2>6. Known(w, Position \ {End}, text)' <=> Known(w, Position \ {End}, text)
    BY <2>4, SaidStays
  <2>7. (\A j \in All("jump") : LeadsTo(text, w[In(j)], w[JumpDest(j)]))'
        <=> (\A j \in All("jump") : LeadsTo(text, w[In(j)], w[JumpDest(j)]))
    BY <1>1, <1>3, <1>4
  <2>8. (IF allReturn THEN Len(text) = w[End] ELSE Len(text) = w[End] + 1 /\ text[w[End] + 1] = Cell("return", 1))'
        <=> (IF allReturn THEN Len(text) = w[End] ELSE Len(text) = w[End] + 1 /\ text[w[End] + 1] = Cell("return", 1))
    BY <1>1 DEF Cell
  <2> QED BY <1>1, <2>1, <2>3, <2>5, <2>6, <2>7, <2>8 DEF LaidOut
<1>6. \A n : Leaving(n)' = Leaving(n)
  BY DEF Leaving, BackEdge, StatementPlace, Condition, Taken, Onward, Follower, Children, Child, Place,
         Kind, Up, In, Out
<1>7. \A n, v : Starting(n, v)' = Starting(n, v)
  BY DEF Starting, Begin, Leaving, BackEdge, StatementPlace, Condition, Taken, Onward, Follower, Children,
         Child, Place, Kind, Up, In, Out
<1> QED BY <1>1, <1>5, <1>7 DEF JumpsResolved

LEMMA ShowsStays ==
  ASSUME code' = code
  PROVE  /\ Places' = Places
         /\ \A x, v, answer : Shows(x, v, answer)' <=> Shows(x, v, answer)
<1>1. Places' = Places /\ \A p : Unseen(p)' <=> Unseen(p)
  BY DEF Places, Unseen, At
<1>2. \A p, v : Skip(p, v)' = Skip(p, v)
  BY DEF Skip, Destined, At
<1>3. \A v : Moves(v)' = Moves(v)
  BY <1>1, <1>2 DEF Moves
<1>4. \A C, v : ClosedUnder(C, Moves(v))' <=> ClosedUnder(C, Moves(v))
  BY <1>3 DEF ClosedUnder
<1>5. \A x, v : NeverStops(x, v)' <=> NeverStops(x, v)
  BY <1>1, <1>4 DEF NeverStops
<1>6. \A x, v, t : ComesTo(x, v, t)' <=> ComesTo(x, v, t)
  BY <1>1, <1>4 DEF ComesTo
<1>7. \A p : At(p)' = At(p)
  BY DEF At
<1> QED BY <1>1, <1>5, <1>6, <1>7 DEF Shows

-----------------------------------------------------------------------------
(* The invariant. *)

\* From where the machine is it shows what it does from the place of where the
\* body goes on.
Follows(w) ==
  /\ Compiled(w)
  /\ ip \in Places
  /\ \A answer : Shows(w[Starting(last, value)], value, answer) => Shows(ip, value, answer)

\* The inductive invariant.
CompilerInv ==
  /\ ReturnsInv
  /\ CodeInv
  /\ TargetsNamed
  /\ stage # "passes" => pass = "run"
  /\ stage # "machine" =>
       /\ last = 0 /\ value = FALSE
       /\ \E w : Drawn(w, emitAt, code, top, hole, pastElse, jumpMap, labelMap)
  /\ stage = "machine" =>
       /\ last = 0 \/ (last \in Node /\ Kind(last) \in {"expr", "decl"})
       /\ value \in BOOLEAN
       /\ \E w : Follows(w)

LEMMA ResolvedTargets ==
  ASSUME CompilerInv, stage # "passes"
  PROVE  pass = "run" /\ JumpsResolved
<1>1. pass = "run" /\ TargetsAreLabels
  BY DEF CompilerInv, ReturnsInv, ReadsInv
<1> QED BY <1>1 DEF TargetsAreLabels, JumpsResolved

LEMMA FollowsSame ==
  ASSUME CompilerInv, stage = "machine"
  PROVE  MachineNext = SourceNext
<1>1. PICK w : Follows(w)
  BY DEF CompilerInv
<1>2. Compiled(w) /\ Ordered /\ Settled /\ ip \in Places /\ value \in BOOLEAN
  BY <1>1 DEF Follows, Compiled, CompilerInv
<1>3. JumpsResolved
  BY ResolvedTargets
<1>4. /\ Starting(last, value) \in Points
      /\ \A D \in SUBSET Node : Closed(D) => \A m \in D : Starting(last, value) # Out(m)
  <2>1. last = 0 \/ (last \in Node /\ Kind(last) \in {"expr", "decl"})
    BY DEF CompilerInv
  <2> QED BY <1>2, <2>1, StartsAlive
<1>5. Shows(w[Starting(last, value)], value, SourceNext)
  <2>1. CASE ~allReturn
    <3>1. ClosedUnder(Points, Walk)
      BY <1>2, WalkFacts DEF ClosedUnder
    <3> QED BY <1>2, <1>4, <2>1, <3>1, SourceShows
  <2>2. CASE allReturn
    <3>1. PICK D \in SUBSET Node : 1 \in D /\ Closed(D)
      BY <2>2, ResolvedTargets DEF CompilerInv, ReturnsInv
    <3> DEFINE R == {q \in Points : \A m \in D : q # Out(m)}
    <3>2. ClosedUnder(R, Walk)
      BY <1>2, <1>3, <3>1, DeadPoints
    <3>3. Starting(last, value) \in R
      BY <1>4, <3>1
    <3>4. End \notin R
      BY <3>1 DEF End, Out
    <3> HIDE DEF R
    <3> QED BY <1>2, <1>4, <3>2, <3>3, <3>4, SourceShows
  <2> QED BY <2>1, <2>2
<1>6. Shows(ip, value, SourceNext)
  BY <1>1, <1>5 DEF Follows
<1> QED BY <1>2, <1>6, MachineShows

LEMMA BodyKept == [LsoNext]_lsoVars => body' = body
BY DEF LsoNext, Passes, StartEmitting, Open, Close, Finish, Execute, lsoVars, execVars, jumpVars,
       ExecNext, Resolve, StartTypes, CheckNode, EndTypes, CheckReturns, EndReturns, Run,
       Resolution, Enter, Leave, LeaveBody, ResolveJump, CheckDuplicates, ClassifyJump, EndResolution

\* A jump is resolved to a label of its name.
LEMMA NamedStays ==
  ASSUME CompilerInv, [LsoNext]_lsoVars
  PROVE  TargetsNamed'
<1>1. body' = body
  BY BodyKept
<1>2. Ordered /\ TargetsAreLabels /\ TargetsNamed
  BY DEF CompilerInv, ReturnsInv, ReadsInv
<1>3. \A n : Name(n)' = Name(n)
  BY <1>1, PlaceStays
<1>4. All("jump")' = All("jump")
  BY <1>1, BodyStays
<1>5. CASE target' = target
  BY <1>2, <1>3, <1>4, <1>5 DEF TargetsNamed
<1>6. CASE ResolveJump
  <2>1. PICK x : target' = [target EXCEPT ![x] = Destination(x)]
    BY <1>6 DEF ResolveJump
  <2>2. ASSUME NEW j \in All("jump"), target'[j] # 0 PROVE Name(target'[j]) = Name(j)
    <3>1. CASE j = x
      <4>1. target'[j] = Destination(j)
        BY <1>2, <2>1, <3>1 DEF TargetsAreLabels
      <4> QED BY <1>2, <2>2, <4>1, DestinationIsLabel
    <3>2. CASE j # x
      <4>1. target'[j] = target[j]
        BY <1>2, <2>1, <3>2 DEF TargetsAreLabels
      <4> QED BY <1>2, <2>2, <4>1 DEF TargetsNamed
    <3> QED BY <3>1, <3>2
  <2> QED BY <1>3, <1>4, <2>2 DEF TargetsNamed
<1>7. target' = target \/ ResolveJump
  BY DEF LsoNext, Passes, StartEmitting, Open, Close, Finish, Execute, lsoVars, execVars, jumpVars,
         ExecNext, Resolve, StartTypes, CheckNode, EndTypes, CheckReturns, EndReturns, Run,
         Resolution, Enter, Leave, LeaveBody, CheckDuplicates, ClassifyJump, EndResolution
<1> QED BY <1>5, <1>6, <1>7

\* One step of the machine, as it keeps up with the body.
LEMMA ExecuteFollows ==
  ASSUME Ordered, Execute, value \in BOOLEAN, NEW w, Follows(w),
         last = 0 \/ (last \in Node /\ Kind(last) \in {"expr", "decl"})
  PROVE  /\ last' = 0 \/ (last' \in Node /\ Kind(last') \in {"expr", "decl"})
         /\ value' \in BOOLEAN /\ ip' \in Places
         /\ \A answer : Shows(w[Starting(last', value')], value', answer) => Shows(ip', value', answer)
<1>1. Compiled(w) /\ Settled /\ ip \in Places /\ ip \in 0 .. Len(code) - 1
  BY DEF Follows, Compiled, Execute
<1>2. CASE At(ip).op \notin Visible
  <2>1. ip' = Skip(ip, value) /\ last' = last /\ value' = value
    BY <1>2 DEF Execute
  <2>2. Unseen(ip)
    BY <1>1, <1>2 DEF Unseen
  <2>3. /\ Skip(ip, value) \in Places
        /\ \A answer : Shows(ip, value, answer) <=> Shows(Skip(ip, value), value, answer)
    BY <1>1, <2>2, UnseenStep
  <2> QED BY <2>1, <2>3 DEF Follows
<1>3. CASE At(ip).op \in Visible
  <2>1. ip' = ip + 1 /\ last' = At(ip).arg /\ value' \in BOOLEAN /\ At(ip).op \in {"eval", "store"}
    BY <1>3 DEF Execute, Visible
  <2>2. /\ last' \in Node /\ Kind(last') \in {"expr", "decl"}
        /\ ip' \in Places /\ Reaches(ip', value', w[Starting(last', value')])
    BY <1>1, <2>1, SeenLeads
  <2>3. \A answer : Shows(w[Starting(last', value')], value', answer) => Shows(ip', value', answer)
    BY <1>1, <2>1, <2>2, ReachesShows
  <2> QED BY <2>1, <2>2, <2>3
<1> QED BY <1>2, <1>3

\* The invariant holds at first.
LEMMA CompilerInvInit == LsoInit => CompilerInv
<1> SUFFICES ASSUME LsoInit PROVE CompilerInv
  OBVIOUS
<1>1. ReturnsInv /\ CodeInv /\ stage = "passes" /\ last = 0 /\ value = FALSE
  BY ReturnsInvInit, CodeInvInit DEF LsoInit
<1>2. Ordered /\ emitAt = Begin /\ code = <<>> /\ Len(code) = 0
  BY DEF LsoInit, ExecInit, JumpInit, Ordered
<1>3. TargetsNamed
  BY DEF LsoInit, ExecInit, JumpInit, TargetsNamed
<1> DEFINE w == [q \in Position |-> 0]
<1>4. Begin \in Position
  BY <1>2, OrderFacts DEF Begin, Position
<1>5. Done(emitAt) = {}
  BY <1>2, DoneEnds
<1>6. w \in [Position -> Nat] /\ w[Begin] = 0 /\ w[emitAt] = Len(code)
  BY <1>2, <1>4
<1> HIDE DEF w
<1>7. Known(w, {}, code)
  BY <1>2 DEF Known
<1>8. Latest(w, {}, jumpMap, labelMap)
  BY DEF LsoInit, Latest, Named
<1>9. Pictured(w, {}, code) /\ Unpatched(w, {}, code)
  BY DEF Pictured, Apart, Unpatched
<1>10. \A n \in Node : RememberedOf(w, n, {}, top, hole, pastElse)
  BY DEF RememberedOf
<1>11. Drawn(w, emitAt, code, top, hole, pastElse, jumpMap, labelMap)
  BY <1>5, <1>6, <1>7, <1>8, <1>9, <1>10 DEF Drawn
<1> QED BY <1>1, <1>3, <1>11 DEF CompilerInv

\* Every step of the passes, of the emission and of the machine keeps it.
LEMMA CompilerInvStep == CompilerInv /\ [LsoNext]_lsoVars => CompilerInv'
<1> SUFFICES ASSUME CompilerInv, [LsoNext]_lsoVars PROVE CompilerInv'
  OBVIOUS
<1>1. body' = body /\ Ordered
  BY BodyKept DEF CompilerInv, CodeInv
<1>2. ReturnsInv' /\ CodeInv' /\ TargetsNamed'
  <2>1. [ExecNext]_execVars
    BY LsoStep DEF lsoVars
  <2>2. ReturnsInv /\ CodeInv
    BY DEF CompilerInv
  <2> QED BY <2>1, <2>2, ReturnsInvStep, CodeInvStep, NamedStays
<1>3. \A n : Kind(n)' = Kind(n) /\ Node' = Node /\ (Ordered' <=> Ordered)
  BY <1>1, PlaceStays
<1>4. ASSUME stage # "machine", stage' \in {"passes", "emit"}, last' = last, value' = value,
             stage' # "passes" => pass' = "run",
             NEW v, Drawn(v, emitAt', code', top', hole', pastElse', jumpMap', labelMap')
      PROVE  CompilerInv'
  <2>1. Drawn(v, emitAt, code, top, hole, pastElse, jumpMap, labelMap)'
    BY <1>1, <1>4, DrawnStays
  <2>2. last = 0 /\ value = FALSE
    BY <1>4 DEF CompilerInv
  <2> QED BY <1>2, <1>4, <2>1, <2>2 DEF CompilerInv
<1>5. ASSUME stage # "machine" PROVE \E w : Drawn(w, emitAt, code, top, hole, pastElse, jumpMap, labelMap)
  BY <1>5 DEF CompilerInv
<1>6. stage # "passes" => pass = "run" /\ JumpsResolved
  BY ResolvedTargets
<1>7. stage \in {"passes", "emit", "machine"}
  BY DEF CompilerInv, CodeInv
<1>8. CASE /\ stage # "machine" /\ UNCHANGED emitVars /\ UNCHANGED machineVars /\ stage' \in {"passes", "emit"}
           /\ stage' # "passes" => pass' = "run"
  <2>1. PICK w : Drawn(w, emitAt, code, top, hole, pastElse, jumpMap, labelMap)
    BY <1>5, <1>8
  <2>2. Drawn(w, emitAt', code', top', hole', pastElse', jumpMap', labelMap')
    BY <1>8, <2>1 DEF emitVars
  <2> QED BY <1>4, <1>8, <2>2 DEF machineVars
<1>9. CASE Passes
  BY <1>8, <1>9 DEF Passes
<1>10. CASE StartEmitting
  BY <1>8, <1>10 DEF StartEmitting, execVars, passVars
<1>11. ASSUME NEW n \in Node, Open(n) \/ Close(n) PROVE CompilerInv'
  <2>1. /\ stage = "emit" /\ stage' = "emit" /\ pass' = pass /\ last' = last /\ value' = value
    BY <1>11 DEF Open, Close, machineVars, execVars, passVars
  <2>2. Emission
    BY <2>1 DEF CompilerInv, CodeInv
  <2>3. PICK w : Drawn(w, emitAt, code, top, hole, pastElse, jumpMap, labelMap)
    BY <1>5, <2>1
  <2>4. \E v : Drawn(v, emitAt', code', top', hole', pastElse', jumpMap', labelMap')
    BY <1>1, <1>11, <2>2, <2>3, OpenDraws, CloseDraws
  <2> QED BY <1>4, <1>6, <2>1, <2>4
<1>12. ASSUME stage' = "machine", pass' = "run", target' = target, allReturn' = allReturn, JumpsResolved,
              last' = 0 \/ (last' \in Node /\ Kind(last') \in {"expr", "decl"}), value' \in BOOLEAN,
              NEW w, LaidOut(w, code'), ip' \in 0 .. Len(code'),
              \/ w[Starting(last', value')] = ip'
              \/ /\ code' = code
                 /\ \A answer : Shows(w[Starting(last', value')], value', answer) => Shows(ip', value', answer)
       PROVE  CompilerInv'
  <2>1. Compiled(w)'
    <3>1. Settled'
      BY <1>2, <1>12 DEF CodeInv
    <3>2. LaidOut(w, code)' /\ JumpsResolved'
      BY <1>1, <1>12, CodeStays
    <3> QED BY <1>1, <1>3, <3>1, <3>2 DEF Compiled
  <2>2. Starting(last, value)' = Starting(last', value')
    BY <1>1, <1>12, CodeStays
  <2>3. \A answer : Shows(w[Starting(last, value)], value, answer)' => Shows(ip, value, answer)'
    <3>1. CASE w[Starting(last', value')] = ip'
      <4>1. (w[Starting(last, value)])' = ip'
        BY <2>2, <3>1
      <4> QED BY <4>1
    <3>2. CASE /\ code' = code
               /\ \A answer : Shows(w[Starting(last', value')], value', answer) => Shows(ip', value', answer)
      <4>1. \A answer :
              Shows(w[Starting(last, value)], value, answer)' <=> Shows(w[Starting(last', value')], value', answer)
        BY <2>2, <3>2, ShowsStays
      <4>2. \A answer : Shows(ip, value, answer)' <=> Shows(ip', value', answer)
        BY <3>2, ShowsStays
      <4> QED BY <3>2, <4>1, <4>2
    <3> QED BY <1>12, <3>1, <3>2
  <2>4. Follows(w)'
    BY <1>12, <2>1, <2>3 DEF Follows, Places
  <2>5. last' = 0 \/ (last \in Node /\ Kind(last) \in {"expr", "decl"})'
    BY <1>3, <1>12
  <2> QED BY <1>2, <1>12, <2>4, <2>5 DEF CompilerInv
<1>13. CASE Finish
  <2>1. /\ stage = "emit" /\ stage' = "machine" /\ pass' = pass /\ target' = target /\ allReturn' = allReturn
        /\ last' = last /\ value' = value /\ ip' = ip
    BY <1>13 DEF Finish, machineVars, execVars, passVars, jumpVars
  <2>2. Emission /\ ip = 0 /\ TargetsNamed /\ last = 0 /\ value = FALSE
    BY <2>1 DEF CompilerInv, CodeInv
  <2>3. PICK w : Drawn(w, emitAt, code, top, hole, pastElse, jumpMap, labelMap)
    BY <1>5, <2>1
  <2>4. JumpsResolved /\ pass = "run"
    BY <1>6, <2>1
  <2>5. LaidOut(w, code')
    BY <1>1, <1>13, <2>2, <2>3, <2>4, FinishLays DEF JumpsResolved
  <2>6. w[Starting(last', value')] = ip'
    BY <2>1, <2>2, <2>5 DEF LaidOut, Starting
  <2>7. ip' \in 0 .. Len(code')
    <3>1. Settled'
      BY <1>2, <2>1 DEF CodeInv
    <3>2. Len(code') \in Nat
      BY <3>1 DEF Settled, Text
    <3> QED BY <2>1, <2>2, <3>2
  <2> QED BY <1>12, <2>1, <2>2, <2>4, <2>5, <2>6, <2>7
<1>14. CASE Execute
  <2>1. /\ stage = "machine" /\ stage' = "machine" /\ pass' = pass /\ target' = target /\ allReturn' = allReturn
        /\ code' = code
    BY <1>14 DEF Execute, emitVars, execVars, passVars, jumpVars
  <2>2. PICK w : Follows(w)
    BY <2>1 DEF CompilerInv
  <2>3. /\ last' = 0 \/ (last' \in Node /\ Kind(last') \in {"expr", "decl"})
        /\ value' \in BOOLEAN /\ ip' \in Places
        /\ \A answer : Shows(w[Starting(last', value')], value', answer) => Shows(ip', value', answer)
    <3>1. /\ value \in BOOLEAN
          /\ last = 0 \/ (last \in Node /\ Kind(last) \in {"expr", "decl"})
      BY <2>1 DEF CompilerInv
    <3> QED BY <1>1, <1>14, <2>2, <3>1, ExecuteFollows
  <2>4. JumpsResolved /\ pass = "run"
    BY <1>6, <2>1
  <2>5. LaidOut(w, code') /\ ip' \in 0 .. Len(code')
    BY <2>1, <2>2, <2>3 DEF Follows, Compiled, Places
  <2> QED BY <1>12, <2>1, <2>3, <2>4, <2>5
<1>15. CASE UNCHANGED lsoVars
  <2>1. UNCHANGED <<execVars, stage, emitVars, machineVars>>
    BY <1>15 DEF lsoVars
  <2>2. CASE stage # "machine"
    <3>1. stage' \in {"passes", "emit"} /\ (stage' # "passes" => pass' = "run")
      BY <1>6, <1>7, <2>1, <2>2 DEF execVars, passVars
    <3> QED BY <1>8, <2>1, <2>2, <3>1
  <2>3. CASE stage = "machine"
    <3>1. /\ stage' = "machine" /\ pass' = "run" /\ target' = target /\ allReturn' = allReturn
          /\ code' = code /\ ip' = ip /\ last' = last /\ value' = value
      BY <1>6, <2>1, <2>3 DEF emitVars, machineVars, execVars, passVars, jumpVars
    <3>2. PICK w : Follows(w)
      BY <2>3 DEF CompilerInv
    <3>3. LaidOut(w, code') /\ ip' \in 0 .. Len(code')
      BY <3>1, <3>2 DEF Follows, Compiled, Places
    <3>4. /\ value' \in BOOLEAN
          /\ last' = 0 \/ (last' \in Node /\ Kind(last') \in {"expr", "decl"})
      BY <2>3, <3>1 DEF CompilerInv
    <3>5. \A answer : Shows(w[Starting(last', value')], value', answer) => Shows(ip', value', answer)
      BY <3>1, <3>2 DEF Follows
    <3> QED BY <1>6, <1>12, <2>3, <3>1, <3>3, <3>4, <3>5
  <2> QED BY <2>2, <2>3
<1> QED BY <1>9, <1>10, <1>11, <1>13, <1>14, <1>15 DEF LsoNext

\* Of every body, and whatever its conditions turn out to be: the code does
\* what the body does, in its order, and returns where the body ends.
THEOREM CodeDoesWhatTheBodyDoes == LsoSpec => []SameNext
<1>1. CompilerInv => SameNext
  BY FollowsSame DEF SameNext
<1> QED BY <1>1, CompilerInvInit, CompilerInvStep, PTL DEF LsoSpec
=============================================================================
