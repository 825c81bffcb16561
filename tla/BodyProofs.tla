------------------------------- MODULE BodyProofs -------------------------------
(***************************************************************************)
(* The order in which a visitor meets the nodes of a body, what it has met *)
(* where, and where the program arrives without doing anything, for every  *)
(* body.                                                                   *)
(***************************************************************************)
EXTENDS Body, FiniteSetTheorems, WellFoundedInduction, TLAPS

-----------------------------------------------------------------------------
(* The least element of a set of naturals, by which the proofs do without  *)
(* induction: a least counterexample has nothing below it.                 *)

\* Every set of naturals that is not empty has a least element.
LEMMA LeastExists ==
  ASSUME NEW T, T \subseteq Nat, T # {}
  PROVE  \E x \in T : \A y \in T : x <= y
<1>1. PICK x \in T : \A y \in T : ~ (<<y, x>> \in OpToRel(<, Nat))
  BY WFMin, NatLessThanWellFounded
<1>2. \A y \in T : ~ (y < x)
  BY <1>1 DEF OpToRel
<1> QED BY <1>2

\* And every one below a bound a greatest.
LEMMA GreatestExists ==
  ASSUME NEW T, T \subseteq Nat, T # {}, NEW n \in Nat, \A x \in T : x <= n
  PROVE  \E x \in T : \A y \in T : y <= x
<1> DEFINE Gaps == {n - x : x \in T}
<1>1. Gaps \subseteq Nat /\ Gaps # {}
  <2>1. \A x \in T : n - x \in Nat
    OBVIOUS
  <2> QED BY <2>1
<1>2. PICK d \in Gaps : \A e \in Gaps : d <= e
  BY <1>1, LeastExists
<1>3. PICK x \in T : d = n - x
  BY <1>2
<1>4. \A y \in T : n - x <= n - y
  BY <1>2, <1>3
<1> QED BY <1>4

-----------------------------------------------------------------------------
(* The order of a visit. *)

Ordered == body \in Bodies

LEMMA OrderFacts ==
  ASSUME Ordered
  PROVE  /\ Len(body) \in Nat \ {0} /\ Node \subseteq Nat /\ 1 \in Node
         /\ \A n \in Node : n # 1 => Up(n) \in Node /\ Up(n) < n
         /\ \A n, m \in Node : n # 1 /\ Up(n) < m /\ m < n => Up(m) >= Up(n)
<1>1. InOrder(body)
  BY BodiesAssumption DEF Ordered
<1>2. Len(body) \in Nat \ {0}
  BY <1>1 DEF InOrder
<1>3. \A n \in 2 .. Len(body) :
        /\ Up(n) \in 1 .. n - 1
        /\ \A m \in Up(n) + 1 .. n - 1 : Up(m) >= Up(n)
  BY <1>1 DEF InOrder, Contains, Up
<1> QED BY <1>2, <1>3 DEF Node

\* A node and what is below it; what stands before it.
Below(n) == {m \in Node : Contains(body, n, m)}
Before(n) == {m \in Node : m < n}

LEMMA BelowFacts ==
  ASSUME Ordered, NEW n \in Node, NEW m \in Node
  PROVE  m \in Below(n) <=> n <= m /\ \A k \in Node : n < k /\ k <= m => Up(k) >= n
<1>1. \A k : k \in n + 1 .. m <=> k \in Node /\ n < k /\ k <= m
  BY OrderFacts DEF Node
<1> QED BY <1>1 DEF Below, Contains, Up

LEMMA ChildFacts ==
  ASSUME Ordered, NEW n \in Node
  PROVE  /\ \A c : c \in Children(n) <=> c \in Node /\ c # 1 /\ Up(c) = n
         /\ \A c \in Children(n) : c > n
BY OrderFacts DEF Children, Kids, Node, Up

LEMMA PlaceFacts ==
  ASSUME Ordered, NEW p \in Node, NEW c \in Children(p)
  PROVE  LET S == {d \in Children(p) : d <= c}
         IN IsFiniteSet(S) /\ Cardinality(S) \in Nat /\ Place(c) = Cardinality(S)
<1> DEFINE S == {d \in Children(p) : d <= c}
<1>1. IsFiniteSet(Node)
  BY OrderFacts, FS_Interval DEF Node
<1>2. S \subseteq Node
  BY ChildFacts
<1>3. Place(c) = Cardinality(S)
  <2>1. body[c].up = p
    BY ChildFacts DEF Up
  <2> QED BY <2>1 DEF Place, PlaceAt, Children
<1> HIDE DEF S
<1>4. IsFiniteSet(S)
  BY <1>1, <1>2, FS_Subset
<1>5. Cardinality(S) \in Nat
  BY <1>4, FS_CardinalityType
<1> QED BY <1>3, <1>4, <1>5 DEF S

\* The first child of a node is the next node.
LEMMA FirstChild ==
  ASSUME Ordered, NEW n \in Node, Children(n) # {}
  PROVE  Child(n, 1) = n + 1 /\ n + 1 \in Children(n)
<1>1. PICK c \in Children(n) : TRUE
  OBVIOUS
<1>2. c \in Node /\ n < c /\ Up(c) = n /\ n \in Nat /\ c \in Nat /\ c # 1
  BY <1>1, OrderFacts, ChildFacts
<1>3. n + 1 \in Node /\ n + 1 # 1
  BY <1>2, OrderFacts DEF Node
<1>4. Up(n + 1) = n
  <2>1. CASE c = n + 1
    BY <1>2, <2>1
  <2>2. CASE n + 1 < c
    <3>1. Up(n + 1) < n + 1 /\ Up(n + 1) \in Nat
      BY <1>3, OrderFacts
    <3> DEFINE m == n + 1
    <3>2. m \in Node /\ Up(c) < m /\ m < c
      BY <1>2, <1>3, <2>2
    <3> HIDE DEF m
    <3>3. Up(m) >= Up(c)
      BY <1>2, <3>2, OrderFacts
    <3> QED BY <1>2, <3>1, <3>3 DEF m
  <2> QED BY <1>2, <2>1, <2>2
<1>5. n + 1 \in Children(n)
  BY <1>3, <1>4, ChildFacts
<1>6. ASSUME NEW d \in Children(n) PROVE d >= n + 1 /\ d \in Nat
  BY <1>2, <1>6, ChildFacts, OrderFacts
<1>7. {d \in Children(n) : d <= n + 1} = {n + 1}
  <2>1. \A d \in Children(n) : d <= n + 1 => d = n + 1
    BY <1>2, <1>6
  <2>2. n + 1 <= n + 1
    BY <1>2
  <2> QED BY <1>5, <2>1, <2>2
<1>8. Place(n + 1) = 1
  <2>1. Place(n + 1) = Cardinality({d \in Children(n) : d <= n + 1})
    BY <1>5, PlaceFacts
  <2> QED BY <1>7, <2>1, FS_Singleton
<1>9. ASSUME NEW d \in Children(n), Place(d) = 1 PROVE d = n + 1
  <2> DEFINE S == {e \in Children(n) : e <= d}
  <2>1. IsFiniteSet(S) /\ Cardinality(S) = 1
    BY <1>9, PlaceFacts
  <2>2. d \in S /\ n + 1 \in S
    BY <1>5, <1>6
  <2> HIDE DEF S
  <2> QED BY <2>1, <2>2, FS_Singleton
<1> QED BY <1>5, <1>8, <1>9 DEF Child

\* Places are in the order of the nodes.
LEMMA PlacesInOrder ==
  ASSUME Ordered, NEW p \in Node, NEW c \in Children(p), NEW d \in Children(p), c < d
  PROVE  Place(c) < Place(d)
<1> DEFINE UpTo(e) == {x \in Children(p) : x <= e}
<1>1. \A e \in Children(p) : /\ IsFiniteSet(UpTo(e)) /\ Cardinality(UpTo(e)) \in Nat
                             /\ Place(e) = Cardinality(UpTo(e))
  BY PlaceFacts
<1>2. UpTo(c) \subseteq UpTo(d) /\ d \in UpTo(d) /\ d \notin UpTo(c)
  BY ChildFacts, OrderFacts
<1> HIDE DEF UpTo
<1>3. Cardinality(UpTo(c)) <= Cardinality(UpTo(d)) /\ Cardinality(UpTo(c)) # Cardinality(UpTo(d))
  BY <1>1, <1>2, FS_Subset
<1> QED BY <1>1, <1>3

\* getNext is the least of the later siblings.
LEMMA NextSibling ==
  ASSUME Ordered, NEW n \in Node, n # 1, \E c \in Children(Up(n)) : c > n
  PROVE  /\ Follower(n) \in Children(Up(n)) /\ Follower(n) > n
         /\ Place(Follower(n)) = Place(n) + 1
         /\ \A c \in Children(Up(n)) : ~ (n < c /\ c < Follower(n))
<1> DEFINE p == Up(n)
           Later == {c \in Children(p) : c > n}
           UpTo(c) == {d \in Children(p) : d <= c}
<1>1. n \in Children(p) /\ p \in Node /\ \A c \in Children(p) : c \in Node /\ c \in Nat /\ Up(c) = p
  BY OrderFacts, ChildFacts
<1>2. PICK f \in Later : \A c \in Later : f <= c
  <2>1. Later \subseteq Nat /\ Later # {}
    BY <1>1
  <2> QED BY <2>1, LeastExists
<1>3. \A c \in Children(p) : /\ IsFiniteSet(UpTo(c)) /\ Cardinality(UpTo(c)) \in Nat
                             /\ Place(c) = Cardinality(UpTo(c))
  BY <1>1, PlaceFacts
<1>4. UpTo(f) = UpTo(n) \cup {f} /\ f \notin UpTo(n)
  BY <1>1, <1>2
<1>5. Place(f) = Place(n) + 1
  <2>1. f \in Children(p) /\ n \in Children(p)
    BY <1>1, <1>2
  <2> HIDE DEF UpTo
  <2>2. Cardinality(UpTo(n) \cup {f}) = Cardinality(UpTo(n)) + 1
    BY <1>3, <1>4, <2>1, FS_AddElement
  <2> QED BY <1>3, <1>4, <2>1, <2>2
<1>7. ASSUME NEW c \in Children(p), Place(c) = Place(n) + 1 PROVE c = f
  <2>1. f \in Children(p) /\ c \in Nat /\ f \in Nat
    BY <1>1, <1>2
  <2>2. Place(c) \in Nat /\ Place(f) \in Nat /\ Place(c) = Place(f)
    BY <1>3, <1>5, <1>7, <2>1
  <2>3. ~ (c < f) /\ ~ (f < c)
    BY <1>1, <2>1, <2>2, PlacesInOrder
  <2> QED BY <2>1, <2>3
<1>8. Follower(n) = f
  BY <1>2, <1>5, <1>7 DEF Follower
<1> QED BY <1>1, <1>2, <1>5, <1>8

-----------------------------------------------------------------------------
(* What the visitor has met on its way. *)

Met(position) ==
  Before(position[1]) \cup (IF position[2] = "in" THEN {} ELSE Below(position[1]))

LEMMA SelfBelow ==
  ASSUME Ordered, NEW n \in Node
  PROVE  n \in Below(n)
BY BelowFacts, OrderFacts

\* What stands between a node and one below it is below it too.
LEMMA BelowPrefix ==
  ASSUME Ordered, NEW n \in Node, NEW m \in Below(n), NEW k \in Node, n <= k, k <= m
  PROVE  k \in Below(n)
<1>1. m \in Node
  BY DEF Below
<1> QED BY <1>1, BelowFacts, OrderFacts

LEMMA BelowTransitive ==
  ASSUME Ordered, NEW n \in Node, NEW m \in Below(n), NEW k \in Below(m)
  PROVE  k \in Below(n)
<1>1. m \in Node /\ k \in Node /\ n <= m /\ m <= k
  BY BelowFacts DEF Below
<1>2. n <= k
  BY <1>1, OrderFacts
<1>3. ASSUME NEW i \in Node, n < i, i <= k PROVE Up(i) >= n
  <2>1. CASE i <= m
    BY <1>1, <1>3, <2>1, BelowFacts
  <2>2. CASE i > m
    <3>1. Up(i) >= m /\ Up(i) \in Nat
      BY <1>1, <1>3, <2>2, BelowFacts, OrderFacts
    <3> QED BY <1>1, <3>1, OrderFacts
  <2> QED BY <1>1, <1>3, <2>1, <2>2, OrderFacts
<1> QED BY <1>1, <1>2, <1>3, BelowFacts

LEMMA UpBelow ==
  ASSUME Ordered, NEW n \in Node, NEW m \in Below(n), m # n
  PROVE  m \in Node /\ m # 1 /\ n < m /\ Up(m) \in Below(n) /\ Up(m) >= n
<1>1. m \in Node /\ n <= m /\ \A k \in Node : n < k /\ k <= m => Up(k) >= n
  BY BelowFacts DEF Below
<1>2. n < m /\ m <= m
  BY <1>1, OrderFacts
<1>3. m # 1
  BY <1>1, <1>2, OrderFacts DEF Node
<1>4. Up(m) \in Node /\ Up(m) < m /\ Up(m) >= n
  BY <1>1, <1>2, <1>3, OrderFacts
<1>5. Up(m) \in Below(n)
  BY <1>1, <1>4, BelowPrefix, OrderFacts
<1> QED BY <1>1, <1>2, <1>3, <1>4, <1>5

LEMMA ChildBelow ==
  ASSUME Ordered, NEW n \in Node, NEW c \in Children(n)
  PROVE  c \in Below(n) /\ n < c
<1>1. c \in Node /\ c # 1 /\ Up(c) = n /\ n < c
  BY ChildFacts
<1>2. ASSUME NEW k \in Node, n < k, k <= c PROVE Up(k) >= n
  BY <1>1, <1>2, OrderFacts
<1> QED BY <1>1, <1>2, BelowFacts, OrderFacts

\* The step down, past the node itself.
LEMMA DescendMeets ==
  ASSUME Ordered, NEW n \in Node
  PROVE  Descend(n) \in Position /\ Met(Descend(n)) = Before(n) \cup {n}
<1>1. CASE Children(n) # {}
  <2>1. Descend(n) = In(n + 1) /\ n + 1 \in Node
    BY <1>1, FirstChild, ChildFacts DEF Descend
  <2>2. Before(n + 1) = Before(n) \cup {n}
    BY OrderFacts DEF Before
  <2> QED BY <2>1, <2>2 DEF In, Met, Position
<1>2. CASE Children(n) = {}
  <2>1. Descend(n) = Out(n)
    BY <1>2 DEF Descend
  <2>2. ASSUME NEW m \in Below(n) PROVE m = n
    <3>1. m \in Node /\ n <= m /\ \A k \in Node : n < k /\ k <= m => Up(k) >= n
      BY BelowFacts DEF Below
    <3>2. SUFFICES ASSUME n < m PROVE FALSE
      BY <3>1, OrderFacts
    <3> DEFINE c == n + 1
    <3>3. c \in Node /\ c # 1 /\ n < c /\ c <= m
      BY <3>1, <3>2, OrderFacts DEF Node
    <3>4. Up(c) >= n /\ Up(c) < n + 1 /\ Up(c) \in Nat
      BY <3>1, <3>3, OrderFacts
    <3>5. Up(c) = n
      BY <3>4, OrderFacts
    <3> HIDE DEF c
    <3>6. c \in Children(n)
      BY <3>3, <3>5, ChildFacts
    <3> QED BY <1>2, <3>6
  <2>3. Below(n) = {n}
    BY <2>2, SelfBelow
  <2> QED BY <2>1, <2>3 DEF Out, Met, Position
<1> QED BY <1>1, <1>2

\* The step over to the next sibling, past all that is below the node.
LEMMA FollowerMeets ==
  ASSUME Ordered, NEW n \in Node, n # 1, \E c \in Children(Up(n)) : c > n
  PROVE  Before(Follower(n)) = Before(n) \cup Below(n)
<1> DEFINE f == Follower(n)
           p == Up(n)
<1>1. /\ f \in Children(p) /\ f > n /\ \A c \in Children(p) : ~ (n < c /\ c < f)
      /\ p \in Node /\ p < n
  BY NextSibling, OrderFacts
<1>2. f \in Node /\ f # 1 /\ Up(f) = p
  BY <1>1, ChildFacts
<1> HIDE DEF f, p
<1>3. ASSUME NEW m \in Below(n) PROVE m < f
  <2>1. m \in Node /\ \A k \in Node : n < k /\ k <= m => Up(k) >= n
    BY BelowFacts DEF Below
  <2> QED BY <1>1, <1>2, <2>1, OrderFacts
<1>4. ASSUME NEW k \in Node, n < k, k < f PROVE Up(k) >= n
  <2>1. k # 1 /\ Up(k) >= p /\ Up(k) \in Node
    BY <1>1, <1>2, <1>4, OrderFacts
  <2>2. Up(k) # p
    BY <1>1, <1>4, <2>1, ChildFacts
  <2>3. Up(k) < n => Up(n) >= Up(k)
    BY <1>4, <2>1, OrderFacts
  <2> QED BY <2>1, <2>2, <2>3, OrderFacts DEF p
<1>5. ASSUME NEW m \in Node, n <= m, m < f PROVE m \in Below(n)
  <2>1. ASSUME NEW k \in Node, n < k, k <= m PROVE Up(k) >= n
    BY <1>2, <1>4, <1>5, <2>1, OrderFacts
  <2> QED BY <1>5, <2>1, BelowFacts
<1>6. Below(n) \subseteq Node
  BY DEF Below
<1>7. Before(f) = Before(n) \cup Below(n)
  BY <1>1, <1>2, <1>3, <1>5, <1>6, OrderFacts DEF Before
<1> QED BY <1>7 DEF f

\* The step out of the last child, past all that is below its parent.
LEMMA LastMeets ==
  ASSUME Ordered, NEW n \in Node, n # 1, \A c \in Children(Up(n)) : ~ (c > n)
  PROVE  Before(Up(n)) \cup Below(Up(n)) = Before(n) \cup Below(n)
<1> DEFINE p == Up(n)
<1>1. p \in Node /\ p < n /\ n \in Children(p)
  BY OrderFacts, ChildFacts
<1>2. n \in Below(p)
  BY <1>1, ChildBelow
<1>3. ASSUME NEW m \in Below(n) PROVE m \in Below(p)
  BY <1>1, <1>2, <1>3, BelowTransitive
<1>4. ASSUME NEW m \in Before(n) PROVE m < p \/ m \in Below(p)
  BY <1>1, <1>2, <1>4, BelowPrefix, OrderFacts DEF Before
<1>5. ASSUME NEW m \in Below(p), n <= m PROVE m \in Below(n)
  <2>1. m \in Node /\ \A k \in Node : p < k /\ k <= m => Up(k) >= p
    BY <1>1, BelowFacts DEF Below
  <2>2. ASSUME NEW k \in Node, n < k, k <= m PROVE Up(k) >= n
    <3>1. k # 1 /\ Up(k) >= p /\ Up(k) \in Node
      BY <1>1, <2>1, <2>2, OrderFacts
    <3>2. Up(k) # p
      BY <1>1, <2>2, <3>1, ChildFacts
    <3>3. Up(k) < n => Up(n) >= Up(k)
      BY <2>2, <3>1, OrderFacts
    <3> QED BY <1>1, <3>1, <3>2, <3>3, OrderFacts
  <2> QED BY <1>5, <2>1, <2>2, BelowFacts
<1>6. Below(n) \subseteq Node /\ Below(p) \subseteq Node
  BY DEF Below
<1>7. ASSUME NEW m \in Before(p) PROVE m \in Before(n)
  BY <1>1, <1>7, OrderFacts DEF Before
<1>8. ASSUME NEW m \in Below(p) PROVE m \in Before(n) \cup Below(n)
  BY <1>1, <1>5, <1>6, <1>8, OrderFacts DEF Before
<1>9. ASSUME NEW m \in Before(n) PROVE m \in Before(p) \cup Below(p)
  BY <1>4, <1>9 DEF Before
<1> QED BY <1>3, <1>7, <1>8, <1>9

LEMMA OnwardMeets ==
  ASSUME Ordered, NEW n \in Node, n # 1
  PROVE  Onward(n) \in Position /\ Met(Onward(n)) = Before(n) \cup Below(n)
<1>1. CASE \E c \in Children(Up(n)) : c > n
  <2>1. Follower(n) \in Node /\ Follower(n) # 0
    BY <1>1, NextSibling, ChildFacts, OrderFacts DEF Node
  <2>2. Onward(n) = In(Follower(n))
    BY <2>1 DEF Onward
  <2>3. Before(Follower(n)) = Before(n) \cup Below(n)
    BY <1>1, FollowerMeets
  <2> QED BY <2>1, <2>2, <2>3 DEF In, Met, Position
<1>2. CASE \A c \in Children(Up(n)) : ~ (c > n)
  <2>1. Onward(n) = Out(Up(n)) /\ Up(n) \in Node
    BY <1>2, OrderFacts DEF Onward, Follower
  <2>2. Before(Up(n)) \cup Below(Up(n)) = Before(n) \cup Below(n)
    BY <1>2, LastMeets
  <2> QED BY <2>1, <2>2 DEF Out, Met, Position
<1> QED BY <1>1, <1>2

LEMMA EndMeets ==
  ASSUME Ordered
  PROVE  Met(Begin) = {} /\ Met(End) = Node
<1>1. Before(1) = {}
  BY OrderFacts DEF Before, Node
<1>2. ASSUME NEW m \in Node PROVE m \in Below(1)
  <2>1. \A k \in Node : 1 < k => Up(k) >= 1
    BY OrderFacts DEF Node
  <2> QED BY <1>2, <2>1, BelowFacts, OrderFacts DEF Node
<1>3. Below(1) = Node
  BY <1>2 DEF Below
<1> QED BY <1>1, <1>3 DEF Met, Begin, End
-----------------------------------------------------------------------------
(* Among nodes. *)

LEMMA ChildUnique ==
  ASSUME Ordered, NEW p \in Node, NEW c \in Children(p), NEW k, Place(c) = k
  PROVE  Child(p, k) = c
<1>1. ASSUME NEW d \in Children(p), Place(d) = k PROVE d = c
  <2>1. c \in Nat /\ d \in Nat
    BY ChildFacts, OrderFacts
  <2>2. Place(c) \in Nat
    BY PlaceFacts
  <2>3. ~ (c < d) /\ ~ (d < c)
    BY <1>1, <2>2, PlacesInOrder
  <2> QED BY <2>1, <2>3
<1> QED BY <1>1 DEF Child

LEMMA GreatestNode ==
  ASSUME Ordered, NEW T, T \subseteq Node, T # {}
  PROVE  \E x \in T : \A y \in T : y <= x
<1>1. T \subseteq Nat /\ Len(body) \in Nat /\ \A x \in T : x <= Len(body)
  BY OrderFacts DEF Node
<1> QED BY <1>1, GreatestExists

LEMMA InnermostIn ==
  ASSUME Ordered, NEW T, T \subseteq Node, T # {}
  PROVE  Innermost(T) \in T
BY GreatestNode DEF Innermost

LEMMA InnermostGreatest ==
  ASSUME Ordered, NEW T, T \subseteq Node, NEW x \in T, \A y \in T : y <= x
  PROVE  Innermost(T) = x
<1>1. x \in Node /\ T # {}
  OBVIOUS
<1>2. ASSUME NEW z \in T, \A y \in T : y <= z PROVE z = x
  BY <1>1, <1>2, OrderFacts
<1> QED BY <1>1, <1>2 DEF Innermost

LEMMA InnermostLast ==
  ASSUME Ordered, NEW T, T \subseteq Node, T # {}
  PROVE  Innermost(T) \in T /\ \A y \in T : y <= Innermost(T)
BY GreatestNode DEF Innermost

\* What is above a node, by what is below.
LEMMA AboveFacts ==
  ASSUME Ordered, NEW n \in Node
  PROVE  /\ \A a : a \in Above[n] <=> a \in Node /\ a < n /\ n \in Below(a)
         /\ Above[n] \subseteq Node
BY DEF Above, Below

\* A node is below its parent and what that is below of, and nothing else.
LEMMA AboveUp ==
  ASSUME Ordered, NEW n \in Node, n # 1
  PROVE  /\ Up(n) \in Above[n] /\ \A a \in Above[n] : a <= Up(n)
         /\ \A a : a \in Above[n] <=> a = Up(n) \/ a \in Above[Up(n)]
<1> DEFINE p == Up(n)
<1>1. p \in Node /\ p < n /\ n \in Children(p) /\ n \in Below(p)
  BY OrderFacts, ChildFacts, ChildBelow
<1>2. p \in Above[n]
  BY <1>1, AboveFacts
<1>3. ASSUME NEW a \in Above[n] PROVE a <= p /\ p \in Below(a)
  <2>1. a \in Node /\ a < n /\ n \in Below(a)
    BY <1>3, AboveFacts
  <2> QED BY <2>1, UpBelow, OrderFacts
<1>4. ASSUME NEW a \in Above[n], a # p PROVE a \in Above[p]
  <2>1. a \in Node /\ a <= p /\ p \in Below(a)
    BY <1>3, <1>4, AboveFacts
  <2> QED BY <1>1, <1>4, <2>1, AboveFacts, OrderFacts
<1>5. ASSUME NEW a \in Above[p] PROVE a \in Above[n]
  <2>1. a \in Node /\ a < p /\ p \in Below(a)
    BY <1>1, <1>5, AboveFacts
  <2>2. n \in Below(a)
    BY <1>1, <2>1, BelowTransitive
  <2> QED BY <1>1, <2>1, <2>2, AboveFacts, OrderFacts
<1> QED BY <1>2, <1>3, <1>4, <1>5

\* Below a node but through one of its children there is nothing.
LEMMA ChildTowards ==
  ASSUME Ordered, NEW n \in Node, NEW a \in Above[n]
  PROVE  \E c \in Children(a) : n \in Below(c)
<1> DEFINE T == {x \in Node : x > a /\ n \in Below(x)}
<1>1. a \in Node /\ a < n /\ n \in Below(a)
  BY AboveFacts
<1>2. n \in T /\ T \subseteq Nat
  BY <1>1, SelfBelow, OrderFacts
<1>3. PICK c \in T : \A y \in T : c <= y
  BY <1>2, LeastExists
<1>4. c \in Node /\ c > a /\ n \in Below(c) /\ c <= n
  BY <1>3, BelowFacts
<1>5. c \in Below(a) /\ c # a
  BY <1>1, <1>4, BelowPrefix, OrderFacts
<1>6. c # 1 /\ Up(c) \in Node /\ Up(c) >= a /\ Up(c) < c
  BY <1>1, <1>4, <1>5, UpBelow, OrderFacts
<1>7. c \in Below(Up(c))
  BY <1>4, <1>6, ChildFacts, ChildBelow
<1>8. n \in Below(Up(c))
  BY <1>4, <1>6, <1>7, BelowTransitive
<1>9. Up(c) \notin T
  BY <1>3, <1>4, <1>6, OrderFacts
<1>10. Up(c) = a
  BY <1>1, <1>6, <1>8, <1>9, OrderFacts
<1> QED BY <1>4, <1>6, <1>10, ChildFacts

\* Of two nodes above a third one is above the other.
LEMMA AboveComparable ==
  ASSUME Ordered, NEW n \in Node, NEW a \in Node, NEW b \in Node, n \in Below(a), n \in Below(b), a < b
  PROVE  a \in Above[b]
<1>1. b <= n
  BY BelowFacts
<1>2. b \in Below(a)
  BY <1>1, BelowPrefix, OrderFacts
<1> QED BY <1>2, AboveFacts

-----------------------------------------------------------------------------
(* What it has entered and not left. *)

Inside(position) == {n \in Met(position) : position[1] \in Below(n)}

LEMMA InsideIn ==
  ASSUME Ordered, NEW n \in Node
  PROVE  Inside(In(n)) = Above[n] /\ Inside(Out(n)) = Above[n] \cup {n}
<1>1. \A a : a \in Before(n) <=> a \in Node /\ a < n
  BY DEF Before
<1>2. Inside(In(n)) = Above[n]
  BY <1>1, AboveFacts DEF Inside, Met, In
<1>3. ASSUME NEW a \in Below(n), n \in Below(a) PROVE a = n
  BY <1>3, BelowFacts, OrderFacts DEF Below
<1>4. Met(Out(n)) = Before(n) \cup Below(n) /\ Out(n)[1] = n
  BY DEF Met, Out
<1>5. Inside(Out(n)) = Above[n] \cup {n}
  BY <1>1, <1>3, <1>4, AboveFacts, SelfBelow DEF Inside
<1> QED BY <1>2, <1>5

LEMMA InsideDescend ==
  ASSUME Ordered, NEW n \in Node
  PROVE  Inside(Descend(n)) = Inside(In(n)) \cup {n}
<1>1. CASE Children(n) # {}
  <2>1. Descend(n) = In(n + 1) /\ n + 1 \in Node /\ n + 1 # 1 /\ Up(n + 1) = n
    BY <1>1, FirstChild, ChildFacts DEF Descend
  <2> DEFINE c == n + 1
  <2>2. c \in Node /\ c # 1 /\ Up(c) = n /\ Descend(n) = In(c)
    BY <2>1
  <2> HIDE DEF c
  <2> QED BY <2>2, InsideIn, AboveUp
<1>2. CASE Children(n) = {}
  BY <1>2, InsideIn DEF Descend
<1> QED BY <1>1, <1>2

LEMMA InsideOnward ==
  ASSUME Ordered, NEW n \in Node, n # 1
  PROVE  Inside(Onward(n)) = Inside(Out(n)) \ {n}
<1>1. Inside(Out(n)) \ {n} = Above[n]
  BY InsideIn, AboveFacts, OrderFacts
<1>2. CASE \E c \in Children(Up(n)) : c > n
  <2>1. Follower(n) \in Children(Up(n)) /\ Up(n) \in Node
    BY <1>2, NextSibling, OrderFacts
  <2>2. Follower(n) \in Node /\ Follower(n) # 1 /\ Up(Follower(n)) = Up(n) /\ Follower(n) # 0
    BY <2>1, ChildFacts, OrderFacts DEF Node
  <2>3. Onward(n) = In(Follower(n))
    BY <2>2 DEF Onward
  <2>4. Above[Follower(n)] = Above[n]
    BY <2>2, AboveUp
  <2> QED BY <1>1, <2>2, <2>3, <2>4, InsideIn
<1>3. CASE \A c \in Children(Up(n)) : ~ (c > n)
  <2>1. Onward(n) = Out(Up(n)) /\ Up(n) \in Node
    BY <1>3, OrderFacts DEF Onward, Follower
  <2> QED BY <1>1, <2>1, InsideIn, AboveUp
<1> QED BY <1>2, <1>3

-----------------------------------------------------------------------------
(* Silent steps: the program moves on without doing anything. *)

LEMMA PartsOfStatement ==
  ASSUME Ordered, NEW p \in Node, Kind(p) \in Loops \cup {"if"}, NEW i,
         \/ i \in {1, 2}
         \/ i \in {3, 4} /\ Kind(p) = "for"
         \/ i = 3 /\ Cardinality(Children(p)) = 3
  PROVE  Child(p, i) \in Children(p) /\ Place(Child(p, i)) = i
<1>1. Shaped(body)
  BY BodiesAssumption DEF Ordered
<1>2. PICK k \in Nat : /\ k \in {2, 3, 4} /\ (Kind(p) = "for" => k = 4)
                       /\ Cardinality(Children(p)) = k /\ {Place(c) : c \in Children(p)} = 1 .. k
  <2>1. Kind(p) \in {"if", "while", "do", "for"}
    BY DEF Loops
  <2> QED BY <1>1, <2>1 DEF Shaped, Kind, Node, Children, Place
<1>3. i \in 1 .. k
  <2>1. CASE i \in {1, 2}
    BY <1>2, <2>1
  <2>2. CASE i \in {3, 4} /\ Kind(p) = "for"
    BY <1>2, <2>2
  <2>3. CASE i = 3 /\ Cardinality(Children(p)) = 3
    BY <1>2, <2>3
  <2> QED BY <2>1, <2>2, <2>3
<1>4. \E c \in Children(p) : Place(c) = i
  BY <1>2, <1>3
<1> QED BY <1>4 DEF Child

\* Labels and expressions have no parts, and where a loop or an `if` has no
\* statement it has an expression.
LEMMA PlainFacts ==
  ASSUME Ordered, NEW n \in Node
  PROVE  /\ Kind(n) \in {"label", "expr"} => Children(n) = {}
         /\ n # 1 /\ Kind(Up(n)) = "if" => Place(n) \in {2, 3} \/ Kind(n) = "expr"
         /\ n # 1 /\ Kind(Up(n)) \in Loops => Place(n) = StatementPlace(Up(n)) \/ Kind(n) = "expr"
<1> DEFINE statements == [if |-> {2, 3}, while |-> {2}, do |-> {1}, for |-> {4}]
<1>1. Plain(body)
  BY BodiesAssumption DEF Ordered
<1>2. Kind(n) \in {"label", "expr"} => Children(n) = {}
  BY <1>1 DEF Plain, Kind, Children, Node
<1>3. ASSUME n # 1, Kind(Up(n)) \in Loops \cup {"if"} PROVE Place(n) \in statements[Kind(Up(n))] \/ Kind(n) = "expr"
  <2>1. n \in 2 .. Len(body)
    BY <1>3, OrderFacts DEF Node
  <2> QED BY <1>1, <1>3, <2>1, Zenon DEF Plain, Kind, Up, Place
<1>4. ASSUME n # 1, Kind(Up(n)) = "if" PROVE Place(n) \in {2, 3} \/ Kind(n) = "expr"
  <2>1. statements[Kind(Up(n))] = {2, 3}
    BY <1>4
  <2> QED BY <1>3, <1>4, <2>1
<1>5. ASSUME n # 1, Kind(Up(n)) \in Loops PROVE Place(n) = StatementPlace(Up(n)) \/ Kind(n) = "expr"
  <2>1. Kind(Up(n)) \in {"while", "do", "for"}
    BY <1>5 DEF Loops
  <2>2. statements[Kind(Up(n))] = {StatementPlace(Up(n))}
    BY <2>1 DEF StatementPlace
  <2> QED BY <1>3, <1>5, <2>2
<1> QED BY <1>2, <1>4, <1>5

\* A condition has two outcomes, and is an expression.
LEMMA ConditionFacts ==
  ASSUME Ordered, NEW n \in Node, Condition(n)
  PROVE  Kind(n) = "expr" /\ Taken(n, TRUE) # Taken(n, FALSE)
<1> DEFINE p == Up(n)
<1>1. n # 1 /\ p \in Node /\ Kind(p) \in {"if", "while", "do", "for"}
  BY OrderFacts DEF Condition, Loops
<1>2. StatementPlace(p) = IF Kind(p) = "do" THEN 1 ELSE IF Kind(p) = "for" THEN 4 ELSE 2
  BY <1>1 DEF StatementPlace
<1>3. Place(n) = IF Kind(p) \in {"do", "for"} THEN 2 ELSE 1
  BY <1>1 DEF Condition
<1> HIDE DEF p
<1>4. Kind(n) = "expr"
  <2>1. CASE Kind(p) = "if"
    BY <1>1, <1>3, <2>1, PlainFacts DEF p
  <2>2. CASE Kind(p) # "if"
    <3>1. Place(n) # StatementPlace(p) /\ Kind(p) \in Loops
      BY <1>1, <1>2, <1>3, <2>2 DEF Loops
    <3> QED BY <1>1, <3>1, PlainFacts DEF p
  <2> QED BY <2>1, <2>2
<1> DEFINE yes == Taken(n, TRUE)
           no == Taken(n, FALSE)
<1>5. yes = In(Child(p, StatementPlace(p)))
  BY DEF Taken, p
<1>6. no = IF Kind(p) = "if" /\ Cardinality(Children(p)) = 3 THEN In(Child(p, 3)) ELSE Out(p)
  BY DEF Taken, p
<1> HIDE DEF yes, no
<1>7. yes # no
  <2>1. CASE Kind(p) = "if" /\ Cardinality(Children(p)) = 3
    <3>1. no = In(Child(p, 3)) /\ yes = In(Child(p, 2))
      BY <1>2, <1>5, <1>6, <2>1
    <3>2. Place(Child(p, 3)) = 3 /\ Place(Child(p, 2)) = 2
      BY <1>1, <2>1, PartsOfStatement
    <3>3. Child(p, 3) # Child(p, 2)
      BY <3>2
    <3> QED BY <3>1, <3>3 DEF In
  <2>2. CASE ~ (Kind(p) = "if" /\ Cardinality(Children(p)) = 3)
    <3>1. no = Out(p)
      BY <1>6, <2>2
    <3> QED BY <1>5, <3>1 DEF In, Out
  <2> QED BY <2>1, <2>2
<1> QED BY <1>4, <1>7 DEF yes, no

\* What is not an expression has one way out.
LEMMA SilentOut ==
  ASSUME Ordered, NEW n \in Node, n # 1, NEW to, Leaving(n) = {to}
  PROVE  Silent(Out(n)) /\ Flow(Out(n), <<>>) = {to}
<1>1. Out(n) # End /\ Out(n)[1] = n /\ Out(n)[2] = "out"
  BY DEF Out, End
<1>2. Cardinality({to}) = 1
  BY FS_Singleton
<1> QED BY <1>1, <1>2 DEF Silent, Flow

LEMMA SilentIn ==
  ASSUME Ordered, NEW n \in Node
  PROVE  /\ Silent(In(n)) <=> Kind(n) \in Loops \cup {"block", "if", "label"}
         /\ Silent(In(n)) => Flow(In(n), <<>>) = {Descend(n)}
<1>1. In(n) # End /\ In(n)[1] = n /\ In(n)[2] = "in"
  BY DEF In, End
<1> QED BY <1>1 DEF Silent, Flow, Loops

\* The ways out of a node without a choice.
LEMMA LeavingSilently ==
  ASSUME Ordered, NEW n \in Node, n # 1, Silent(Out(n))
  PROVE  \E to : /\ Leaving(n) = {to}
                 /\ \/ to = Onward(n)
                    \/ to = Out(Up(n))
                    \/ \E c \in Children(Up(n)) : to = In(c) /\ Kind(c) = "expr"
<1> DEFINE p == Up(n)
<1>1. n # 1 /\ p \in Node
  BY OrderFacts
<1>2. ~Condition(n)
  <2> SUFFICES ASSUME Condition(n) PROVE FALSE
    OBVIOUS
  <2> DEFINE yes == Taken(n, TRUE)
             no == Taken(n, FALSE)
  <2>1. Leaving(n) = {yes} \cup {no} /\ yes # no
    BY ConditionFacts, Zenon DEF Leaving
  <2> HIDE DEF yes, no
  <2>2. Cardinality(Leaving(n)) = 1
    BY DEF Silent, Out
  <2>3. IsFiniteSet(Leaving(n))
    <3>1. IsFiniteSet({yes})
      BY FS_Singleton
    <3>2. IsFiniteSet({yes} \cup {no})
      BY <3>1, FS_AddElement
    <3> QED BY <2>1, <3>2
  <2>4. PICK x : Leaving(n) = {x}
    BY <2>2, <2>3, FS_Singleton
  <2>5. yes \in Leaving(n) /\ no \in Leaving(n)
    BY <2>1
  <2>6. yes = x /\ no = x
    BY <2>4, <2>5
  <2> QED BY <2>1, <2>6
<1>3. \A c \in Children(p) : Place(c) # StatementPlace(p) /\ Kind(p) \in Loops => Kind(c) = "expr"
  BY <1>1, PlainFacts, ChildFacts
<1> HIDE DEF p
<1>4. CASE Kind(p) = "if"
  BY <1>2, <1>4 DEF Leaving, p
<1>5. CASE Kind(p) \in Loops /\ Place(n) = StatementPlace(p)
  <2>1. Leaving(n) = {BackEdge(p)}
    BY <1>2, <1>5 DEF Leaving, p, Loops
  <2>2. \E c \in Children(p) : BackEdge(p) = In(c) /\ Kind(c) = "expr"
    <3>1. CASE Kind(p) = "while"
      BY <1>1, <1>3, <3>1, PartsOfStatement DEF BackEdge, StatementPlace, Loops
    <3>2. CASE Kind(p) = "do"
      BY <1>1, <1>3, <3>2, PartsOfStatement DEF BackEdge, StatementPlace, Loops
    <3>3. CASE Kind(p) = "for"
      BY <1>1, <1>3, <3>3, PartsOfStatement DEF BackEdge, StatementPlace, Loops
    <3> QED BY <1>5, <3>1, <3>2, <3>3 DEF Loops
  <2> QED BY <2>1, <2>2 DEF p
<1>6. CASE Kind(p) = "for" /\ Place(n) = 3
  <2>1. StatementPlace(p) = 4 /\ Kind(p) \in Loops
    BY <1>6 DEF StatementPlace, Loops
  <2>2. Leaving(n) = {In(Child(p, 2))}
    BY <1>2, <1>6, <2>1 DEF Leaving, p, Loops
  <2>3. Child(p, 2) \in Children(p) /\ Place(Child(p, 2)) = 2
    BY <1>1, <2>1, PartsOfStatement
  <2> QED BY <1>3, <2>1, <2>2, <2>3 DEF p
<1>7. CASE Kind(p) # "if" /\ ~ (Kind(p) \in Loops /\ Place(n) = StatementPlace(p)) /\ ~ (Kind(p) = "for" /\ Place(n) = 3)
  BY <1>2, <1>7 DEF Leaving, p
<1> QED BY <1>4, <1>5, <1>6, <1>7

-----------------------------------------------------------------------------
(* Silent steps lead ahead, so that they come to an end. *)

\* More has been met at q, or the same and control is inside fewer nodes.
Ahead(p, q) ==
  /\ Met(p) \subseteq Met(q)
  /\ Met(p) = Met(q) => Inside(q) \subseteq Inside(p) /\ Inside(q) # Inside(p)

LEMMA AheadFacts ==
  /\ \A p : ~Ahead(p, p)
  /\ \A p, q, r : Ahead(p, q) /\ Ahead(q, r) => Ahead(p, r)
BY DEF Ahead

LEMMA SilentFlow ==
  ASSUME Ordered, NEW p \in Position, Silent(p)
  PROVE  \E q \in Position : Flow(p, <<>>) = {q} /\ (Silent(q) => Ahead(p, q))
<1>1. PICK n \in Node : p = In(n) \/ p = Out(n)
  BY DEF Position, In, Out
<1>2. \A c \in Node : In(c) \in Position /\ Out(c) \in Position
  BY DEF Position, In, Out
<1>3. CASE p = In(n)
  <2>1. Flow(p, <<>>) = {Descend(n)}
    BY <1>3, SilentIn
  <2>2. Descend(n) \in Position /\ Met(Descend(n)) = Before(n) \cup {n}
    BY DescendMeets
  <2>3. Met(p) = Before(n) /\ n \notin Before(n)
    BY <1>3, OrderFacts DEF Met, In, Before
  <2>4. Ahead(p, Descend(n))
    BY <2>2, <2>3 DEF Ahead
  <2> QED BY <2>1, <2>2, <2>4
<1>4. CASE p = Out(n)
  <2>1. n # 1
    BY <1>4 DEF Silent, Out, End
  <2>2. Up(n) \in Node /\ n \in Children(Up(n))
    BY <2>1, OrderFacts, ChildFacts
  <2>3. PICK to : /\ Leaving(n) = {to}
                  /\ \/ to = Onward(n)
                     \/ to = Out(Up(n))
                     \/ \E c \in Children(Up(n)) : to = In(c) /\ Kind(c) = "expr"
    BY <1>4, <2>1, LeavingSilently
  <2>4. Flow(p, <<>>) = {to}
    BY <1>4, <2>1, <2>3, SilentOut
  <2>5. Inside(p) = Above[n] \cup {n} /\ n \notin Above[n] /\ Met(p) = Before(n) \cup Below(n)
    BY <1>4, InsideIn, AboveFacts, OrderFacts DEF Met, Out
  <2>6. CASE to = Onward(n)
    <3>1. Onward(n) \in Position /\ Met(Onward(n)) = Met(p)
      BY <2>1, <2>5, OnwardMeets
    <3>2. Inside(Onward(n)) = Above[n]
      <4>1. n \notin Above[n] /\ Inside(Out(n)) = Above[n] \cup {n}
        BY <2>5, InsideIn
      <4>2. Inside(Onward(n)) = Inside(Out(n)) \ {n}
        BY <2>1, InsideOnward
      <4> QED BY <4>1, <4>2
    <3>3. Ahead(p, Onward(n))
      BY <2>5, <3>1, <3>2 DEF Ahead
    <3> QED BY <2>4, <2>6, <3>1, <3>3
  <2>7. CASE to = Out(Up(n))
    <3>1. Inside(Out(Up(n))) = Above[n]
      BY <2>1, <2>2, InsideIn, AboveUp
    <3>2. Met(Out(Up(n))) = Before(Up(n)) \cup Below(Up(n))
      BY DEF Met, Out
    <3>3. Met(p) \subseteq Met(Out(Up(n)))
      <4>1. ASSUME NEW m \in Node, m < n PROVE m \in Before(Up(n)) \cup Below(Up(n))
        <5>1. CASE m < Up(n)
          BY <5>1 DEF Before
        <5>2. CASE Up(n) <= m
          BY <2>1, <2>2, <4>1, <5>2, ChildBelow, BelowPrefix, OrderFacts
        <5> QED BY <2>2, <5>1, <5>2, OrderFacts
      <4>2. ASSUME NEW m \in Below(n) PROVE m \in Below(Up(n))
        BY <2>2, ChildBelow, BelowTransitive
      <4> QED BY <2>5, <3>2, <4>1, <4>2 DEF Before
    <3>4. Ahead(p, Out(Up(n)))
      BY <2>5, <3>1, <3>3 DEF Ahead
    <3> QED BY <1>2, <2>2, <2>4, <2>7, <3>4
  <2>8. ASSUME NEW c \in Children(Up(n)), to = In(c), Kind(c) = "expr"
        PROVE  \E q \in Position : Flow(p, <<>>) = {q} /\ (Silent(q) => Ahead(p, q))
    <3>1. c \in Node
      BY <2>2, ChildFacts
    <3>2. ~Silent(In(c))
      BY <2>8, <3>1, SilentIn DEF Loops
    <3> QED BY <1>2, <2>4, <2>8, <3>1, <3>2
  <2> QED BY <2>3, <2>6, <2>7, <2>8
<1> QED BY <1>1, <1>3, <1>4

-----------------------------------------------------------------------------
(* Where the program arrives. *)

\* f goes on from p as the program does until it does something.
Trail(f, p) == f \in [Nat -> Position] /\ f[0] = p /\ \A i \in Nat : Moved(f[i]) = {f[i + 1]}

LEMMA MovedFacts ==
  ASSUME Ordered, NEW p \in Position
  PROVE  \E q \in Position : Moved(p) = {q} /\ (Silent(p) /\ Silent(q) => Ahead(p, q))
BY SilentFlow DEF Moved

LEMMA TrailExists ==
  ASSUME Ordered, NEW p \in Position
  PROVE  \E f : Trail(f, p)
<1> DEFINE Start(f, k) == f \in [Nat -> Position] /\ f[0] = p /\ \A i \in Nat : i < k => Moved(f[i]) = {f[i + 1]}
           T == {k \in Nat : ~ \E f : Start(f, k)}
<1>1. T = {}
  <2> SUFFICES ASSUME T # {} PROVE FALSE
    OBVIOUS
  <2>1. PICK k \in T : \A m \in T : k <= m
    BY LeastExists
  <2>2. k # 0
    <3>1. Start([i \in Nat |-> p], 0)
      OBVIOUS
    <3> QED BY <3>1
  <2>3. k - 1 \in Nat /\ k - 1 \notin T
    <3> HIDE DEF T
    <3>1. k \in Nat
      BY DEF T
    <3>2. k - 1 \in Nat /\ ~ (k <= k - 1)
      BY <2>2, <3>1
    <3> QED BY <2>1, <3>2
  <2>4. PICK f : Start(f, k - 1)
    BY <2>3
  <2>5. PICK q \in Position : Moved(f[k - 1]) = {q}
    BY <2>3, <2>4, MovedFacts
  <2> DEFINE g == [f EXCEPT ![k] = q]
  <2>6. g \in [Nat -> Position] /\ g[k] = q /\ \A i \in Nat : i # k => g[i] = f[i]
    BY <2>4
  <2> HIDE DEF g
  <2>7. ASSUME NEW i \in Nat, i < k PROVE Moved(g[i]) = {g[i + 1]}
    <3>1. CASE i = k - 1
      BY <2>3, <2>5, <2>6, <3>1
    <3>2. CASE i # k - 1
      BY <2>3, <2>4, <2>6, <2>7, <3>2
    <3> QED BY <3>1, <3>2
  <2>8. Start(g, k)
    BY <2>2, <2>4, <2>6, <2>7
  <2> QED BY <2>1, <2>8
<1>2. \A k \in Nat : \E f : Start(f, k)
  BY <1>1
<1> DEFINE part == [k \in Nat |-> CHOOSE f : Start(f, k)]
<1>3. \A k \in Nat : Start(part[k], k)
  BY <1>2
<1> HIDE DEF part
<1>4. \A k, i \in Nat : i < k => Moved(part[k][i]) = {part[k][i + 1]}
  BY <1>3
<1>5. ASSUME NEW k \in Nat PROVE \A i \in Nat : i <= k => part[k][i] = part[i][i]
  <2> DEFINE E == {i \in Nat : \E m \in Nat : i <= m /\ part[m][i] # part[i][i]}
  <2>1. E = {}
    <3> SUFFICES ASSUME E # {} PROVE FALSE
      OBVIOUS
    <3>1. PICK i \in E : \A x \in E : i <= x
      BY LeastExists
    <3>2. PICK m \in Nat : i <= m /\ part[m][i] # part[i][i]
      BY <3>1
    <3>3. i # 0
      BY <1>3, <3>2
    <3>4. i - 1 \in Nat /\ i - 1 < i /\ i - 1 \notin E
      BY <3>1, <3>3
    <3>5. part[m][i - 1] = part[i - 1][i - 1] /\ part[i][i - 1] = part[i - 1][i - 1]
      BY <3>2, <3>4
    <3>6. Moved(part[m][i - 1]) = {part[m][i]} /\ Moved(part[i][i - 1]) = {part[i][i]}
      <4>1. i \in Nat /\ (i - 1) + 1 = i /\ i - 1 < m /\ i - 1 < i
        BY <3>2, <3>4
      <4> HIDE DEF Start, T, E
      <4>2. Moved(part[m][i - 1]) = {part[m][(i - 1) + 1]} /\ Moved(part[i][i - 1]) = {part[i][(i - 1) + 1]}
        BY <1>4, <3>2, <3>4, <4>1
      <4> QED BY <4>1, <4>2
    <3> QED BY <3>2, <3>5, <3>6
  <2>2. ASSUME NEW i \in Nat, i <= k PROVE part[k][i] = part[i][i]
    <3>1. i \notin E
      BY <2>1
    <3> QED BY <2>2, <3>1
  <2> QED BY <2>2
<1> DEFINE f == [k \in Nat |-> part[k][k]]
<1>6. f \in [Nat -> Position] /\ f[0] = p
  BY <1>3
<1>7. ASSUME NEW i \in Nat PROVE Moved(f[i]) = {f[i + 1]}
  <2>0. i + 1 \in Nat /\ i < i + 1 /\ i <= i + 1
    OBVIOUS
  <2>1. Moved(part[i + 1][i]) = {part[i + 1][i + 1]}
    BY <1>3, <2>0
  <2>2. part[i + 1][i] = part[i][i]
    BY <1>5, <2>0
  <2> QED BY <2>1, <2>2
<1> QED BY <1>6, <1>7 DEF Trail

LEMMA ArrivesAtEnd ==
  ASSUME Ordered, NEW p \in Position, NEW f, Trail(f, p)
  PROVE  Arrives(p) = {f[2 * Len(body)]}
<1> DEFINE Solves(h) == h = [k \in Nat |-> IF k = 0 THEN {p} ELSE UNION {Moved(q) : q \in h[k - 1]}]
           g == [k \in Nat |-> {f[k]}]
           reached == CHOOSE h : Solves(h)
<1>1. 2 * Len(body) \in Nat
  BY OrderFacts
<1>2. Solves(g)
  <2>1. ASSUME NEW k \in Nat, k # 0 PROVE UNION {Moved(q) : q \in g[k - 1]} = {f[k]}
    <3>1. k - 1 \in Nat /\ (k - 1) + 1 = k
      BY <2>1
    <3>2. Moved(f[k - 1]) = {f[k]}
      BY <3>1 DEF Trail
    <3>3. g[k - 1] = {f[k - 1]}
      BY <3>1
    <3> QED BY <3>2, <3>3
  <2>2. f[0] = p
    BY DEF Trail
  <2> QED BY <2>1, <2>2
<1>3. Solves(reached)
  BY <1>2
<1>4. Arrives(p) = reached[2 * Len(body)]
  BY DEF Arrives
<1> HIDE DEF reached
<1> DEFINE T == {k \in Nat : reached[k] # {f[k]}}
<1>5. T = {}
  <2> SUFFICES ASSUME T # {} PROVE FALSE
    OBVIOUS
  <2>1. PICK k \in T : \A m \in T : k <= m
    BY LeastExists
  <2>2. reached[k] = IF k = 0 THEN {p} ELSE UNION {Moved(q) : q \in reached[k - 1]}
    BY <1>3, <2>1
  <2>3. k # 0
    BY <2>1, <2>2 DEF Trail
  <2>4. k - 1 \in Nat /\ (k - 1) + 1 = k /\ reached[k - 1] = {f[k - 1]}
    BY <2>1, <2>3
  <2>5. Moved(f[k - 1]) = {f[k]}
    BY <2>4 DEF Trail
  <2> QED BY <2>1, <2>2, <2>3, <2>4, <2>5
<1> QED BY <1>1, <1>4, <1>5


\* Control moves on silently at most once for every position there is.
LEMMA TrailSettles ==
  ASSUME Ordered, NEW p \in Position, NEW f, Trail(f, p)
  PROVE  ~Silent(f[2 * Len(body)])
<1> DEFINE N == 2 * Len(body)
<1>1. N \in Nat /\ Len(body) \in Nat
  BY OrderFacts
<1>2. \A i \in Nat : f[i] \in Position /\ Moved(f[i]) = {f[i + 1]}
  BY DEF Trail
<1>3. Cardinality(Position) = N /\ IsFiniteSet(Position)
  <2>1. IsFiniteSet(Node) /\ Cardinality(Node) = Len(body)
    <3>1. ASSUME NEW L \in Nat PROVE IsFiniteSet(1 .. L) /\ Cardinality(1 .. L) = L
      <4>1. 1 \in Int /\ L \in Int
        OBVIOUS
      <4>2. IsFiniteSet(1 .. L) /\ Cardinality(1 .. L) = IF 1 > L THEN 0 ELSE L - 1 + 1
        BY <4>1, FS_Interval
      <4> QED BY <4>2
    <3> QED BY <1>1, <3>1 DEF Node
  <2>2. IsFiniteSet({"in"}) /\ Cardinality({"in"}) = 1
    BY FS_Singleton
  <2>3. IsFiniteSet({"in"} \cup {"out"}) /\ Cardinality({"in"} \cup {"out"}) = 2
    BY <2>2, FS_AddElement
  <2>4. {"in"} \cup {"out"} = {"in", "out"}
    OBVIOUS
  <2>5. IsFiniteSet({"in", "out"}) /\ Cardinality({"in", "out"}) = 2
    BY <2>3, <2>4
  <2>6. IsFiniteSet(Position) /\ Cardinality(Position) = Cardinality(Node) * Cardinality({"in", "out"})
    BY <2>1, <2>5, FS_Product DEF Position
  <2>7. Cardinality(Position) = Len(body) * 2
    BY <2>1, <2>5, <2>6
  <2> QED BY <1>1, <2>6, <2>7
<1> SUFFICES ASSUME Silent(f[N]) PROVE FALSE
  OBVIOUS
<1> HIDE DEF N
<1>4. ASSUME NEW i \in Nat, i <= N PROVE Silent(f[i])
  <2> DEFINE T == {k \in Nat : k <= N /\ ~Silent(f[k])}
  <2> SUFFICES ASSUME T # {} PROVE FALSE
    BY <1>4
  <2>1. PICK k \in T : \A m \in T : m <= k
    <3>1. \A m \in T : m <= N
      OBVIOUS
    <3>2. T \subseteq Nat
      OBVIOUS
    <3> HIDE DEF T
    <3> QED BY <1>1, <3>1, <3>2, GreatestExists
  <2>2. k \in Nat /\ k < N
    BY <1>1
  <2>3. f[k + 1] = f[k]
    BY <1>2, <2>2 DEF Moved
  <2>4. k + 1 \in Nat /\ k + 1 <= N /\ ~ (k + 1 <= k)
    BY <1>1, <2>2
  <2>5. k + 1 \in T
    BY <2>3, <2>4
  <2> QED BY <2>1, <2>4, <2>5
<1>5. ASSUME NEW i \in Nat, NEW k \in Nat, i < k, k <= N PROVE Ahead(f[i], f[k])
  <2> DEFINE T == {m \in Nat : i < m /\ m <= N /\ ~Ahead(f[i], f[m])}
  <2> SUFFICES ASSUME T # {} PROVE FALSE
    BY <1>5
  <2>1. PICK m \in T : \A x \in T : m <= x
    BY LeastExists
  <2>2. m \in Nat /\ i < m /\ m <= N
    OBVIOUS
  <2>3. m - 1 \in Nat /\ m - 1 <= N /\ (m - 1) + 1 = m /\ i <= m - 1 /\ ~ (m <= m - 1)
    BY <1>1, <2>2
  <2>4. Silent(f[m - 1]) /\ Silent(f[m])
    BY <1>4, <2>2, <2>3
  <2>5. Moved(f[m - 1]) = {f[m]}
    BY <1>2, <2>3
  <2>6. Ahead(f[m - 1], f[m])
    <3>1. PICK q \in Position : Moved(f[m - 1]) = {q} /\ (Silent(f[m - 1]) /\ Silent(q) => Ahead(f[m - 1], q))
      BY <1>2, <2>3, MovedFacts
    <3> QED BY <2>4, <2>5, <3>1
  <2>7. CASE i = m - 1
    BY <2>1, <2>6, <2>7
  <2>8. CASE i # m - 1
    <3>1. i < m - 1
      BY <2>3, <2>8
    <3>2. m - 1 \notin T
      BY <2>1, <2>3
    <3>3. Ahead(f[i], f[m - 1])
      BY <2>3, <3>1, <3>2
    <3> QED BY <2>1, <2>6, <3>3, AheadFacts
  <2> QED BY <2>7, <2>8
<1>6. IsFiniteSet(0 .. N) /\ Cardinality(0 .. N) = N + 1
  BY <1>1, FS_Interval
<1> DEFINE g == [i \in 0 .. N |-> f[i]]
<1>7. g \in [0 .. N -> Position]
  BY <1>1, <1>2
<1>8. PICK i, k \in 0 .. N : i # k /\ g[i] = g[k]
  <2> DEFINE S == 0 .. N
  <2> HIDE DEF g
  <2>1. Cardinality(Position) < Cardinality(S) /\ IsFiniteSet(S) /\ g \in [S -> Position]
    BY <1>1, <1>3, <1>6, <1>7
  <2> HIDE DEF S
  <2>2. \E i, k \in S : i # k /\ g[i] = g[k]
    BY <1>3, <2>1, FS_PigeonHole, Zenon
  <2> QED BY <2>2 DEF S
<1>9. f[i] = f[k] /\ i \in Nat /\ k \in Nat /\ i <= N /\ k <= N
  BY <1>1, <1>8
<1> QED BY <1>5, <1>8, <1>9, AheadFacts

\* A silent step does not change where the program arrives.
LEMMA ArrivesStep ==
  ASSUME Ordered, NEW p \in Position, Silent(p), NEW q, Flow(p, <<>>) = {q}
  PROVE  q \in Position /\ Arrives(p) = Arrives(q)
<1>1. Moved(p) = {q}
  BY DEF Moved
<1>2. q \in Position
  BY <1>1, MovedFacts
<1>3. PICK f : Trail(f, p)
  BY TrailExists
<1> DEFINE g == [i \in Nat |-> f[i + 1]]
<1>4. \A i \in Nat : i + 1 \in Nat /\ g[i] = f[i + 1]
  OBVIOUS
<1>5. g \in [Nat -> Position]
  BY <1>3 DEF Trail
<1>6. f[1] = q
  <2>1. Moved(f[0]) = {f[0 + 1]} /\ f[0] = p /\ 0 + 1 = 1
    BY <1>3 DEF Trail
  <2> QED BY <1>1, <2>1
<1>7. g[0] = q
  BY <1>6
<1> HIDE DEF g
<1>8. ASSUME NEW i \in Nat PROVE Moved(g[i]) = {g[i + 1]}
  <2>1. Moved(f[i + 1]) = {f[(i + 1) + 1]}
    BY <1>3 DEF Trail
  <2> QED BY <1>4, <2>1
<1>9. Trail(g, q)
  BY <1>5, <1>7, <1>8 DEF Trail
<1>10. 2 * Len(body) \in Nat
  BY OrderFacts
<1>11. Arrives(p) = {f[2 * Len(body)]} /\ Arrives(q) = {g[2 * Len(body)]}
  BY <1>2, <1>3, <1>9, ArrivesAtEnd
<1>12. Moved(f[2 * Len(body)]) = {f[2 * Len(body)]}
  BY <1>3, TrailSettles DEF Moved
<1>13. Moved(f[2 * Len(body)]) = {f[2 * Len(body) + 1]}
  BY <1>3, <1>10 DEF Trail
<1> QED BY <1>2, <1>4, <1>10, <1>11, <1>12, <1>13


-----------------------------------------------------------------------------
(* Where the ends of statements arrive. *)

LEMMA ArrivesOut ==
  ASSUME Ordered, NEW n \in Node, n # 1, NEW to, Leaving(n) = {to}
  PROVE  Arrives(Out(n)) = Arrives(to)
<1>1. Silent(Out(n)) /\ Flow(Out(n), <<>>) = {to}
  BY SilentOut
<1>2. Out(n) \in Position
  BY DEF Position, Out
<1> QED BY <1>1, <1>2, ArrivesStep

LEMMA ArrivesLabel ==
  ASSUME Ordered, NEW l \in Node, Kind(l) = "label"
  PROVE  Arrives(In(l)) = Arrives(Out(l))
<1>1. Silent(In(l)) /\ Flow(In(l), <<>>) = {Descend(l)}
  BY SilentIn
<1>2. Descend(l) = Out(l)
  BY PlainFacts DEF Descend
<1>3. In(l) \in Position
  BY DEF Position, In
<1> QED BY <1>1, <1>2, <1>3, ArrivesStep

\* The one way out of what is not an expression.
LEMMA WayOut ==
  ASSUME Ordered, NEW n \in Node, n # 1, Kind(n) # "expr"
  PROVE  /\ Kind(Up(n)) = "if" => Leaving(n) = {Out(Up(n))}
         /\ Kind(Up(n)) \in Loops => Place(n) = StatementPlace(Up(n)) /\ Leaving(n) = {BackEdge(Up(n))}
         /\ Kind(Up(n)) \notin Loops \cup {"if"} => Leaving(n) = {Onward(n)}
<1>1. ~Condition(n)
  BY ConditionFacts
<1>2. CASE Kind(Up(n)) = "if"
  BY <1>1, <1>2 DEF Leaving, Loops
<1>3. CASE Kind(Up(n)) \in Loops
  <2>1. Place(n) = StatementPlace(Up(n))
    BY <1>3, PlainFacts
  <2> QED BY <1>1, <1>3, <2>1 DEF Leaving, Loops
<1>4. CASE Kind(Up(n)) \notin Loops \cup {"if"}
  BY <1>1, <1>4 DEF Leaving, Loops
<1> QED BY <1>2, <1>3, <1>4

\* From a statement with a label behind it the program arrives where it does
\* from the label.
LEMMA NextLabel ==
  ASSUME Ordered, NEW n \in Node, Kind(n) # "expr", Follower(n) # 0, Kind(Follower(n)) = "label"
  PROVE  Arrives(Out(n)) = Arrives(In(Follower(n)))
<1> DEFINE f == Follower(n)
           p == Up(n)
<1>1. n # 1 /\ \E c \in Children(p) : c > n
  BY DEF Follower
<1>2. p \in Node /\ n \in Children(p) /\ f \in Children(p) /\ f > n
  BY <1>1, OrderFacts, ChildFacts, NextSibling
<1>3. f \in Node /\ f # 1 /\ Up(f) = p /\ Kind(f) = "label"
  BY <1>2, ChildFacts
<1>4. Onward(n) = In(f)
  BY DEF Onward
<1> HIDE DEF f
<1>5. CASE Kind(p) = "if"
  <2>1. Leaving(n) = {Out(p)} /\ Leaving(f) = {Out(p)}
    BY <1>1, <1>3, <1>5, WayOut
  <2>2. Arrives(Out(n)) = Arrives(Out(p)) /\ Arrives(Out(f)) = Arrives(Out(p))
    BY <1>1, <1>3, <2>1, ArrivesOut
  <2>3. Arrives(In(f)) = Arrives(Out(f))
    BY <1>3, ArrivesLabel
  <2> QED BY <2>2, <2>3 DEF f
<1>6. CASE Kind(p) \in Loops
  <2>1. Place(n) = StatementPlace(p) /\ Place(f) = StatementPlace(p)
    BY <1>1, <1>3, <1>6, WayOut
  <2>2. Place(n) < Place(f)
    BY <1>2, PlacesInOrder
  <2>3. Place(n) \in Nat
    BY <1>2, PlaceFacts
  <2> QED BY <2>1, <2>2, <2>3
<1>7. CASE Kind(p) \notin Loops \cup {"if"}
  <2>1. Leaving(n) = {In(f)}
    BY <1>1, <1>4, <1>7, WayOut
  <2> QED BY <1>1, <2>1, ArrivesOut DEF f
<1> QED BY <1>5, <1>6, <1>7

\* Where only labels follow, the program arrives where it does when it leaves
\* what is around them.
LEMMA OnlyLabels ==
  ASSUME Ordered, NEW n \in Node, n # 1, Kind(n) # "expr", Kind(Up(n)) \notin Loops \cup {"if"},
         \A c \in Children(Up(n)) : c > n => Kind(c) = "label"
  PROVE  Arrives(Out(n)) = Arrives(Out(Up(n)))
<1> DEFINE p == Up(n)
           T == {c \in Children(p) : c >= n /\ Arrives(Out(c)) # Arrives(Out(p))}
<1>1. p \in Node /\ n \in Children(p) /\ n \in Nat
  BY OrderFacts, ChildFacts
<1>2. T \subseteq Node
  BY <1>1, ChildFacts
<1> SUFFICES ASSUME T # {} PROVE FALSE
  BY <1>1
<1>3. PICK c \in T : \A x \in T : x <= c
  <2> HIDE DEF T
  <2> QED BY <1>2, GreatestNode
<1>4. c \in Node /\ c # 1 /\ c \in Children(p) /\ Up(c) = p /\ c >= n /\ Arrives(Out(c)) # Arrives(Out(p))
  BY <1>1, ChildFacts
<1>5. Kind(c) # "expr"
  <2>1. c = n \/ c > n
    BY <1>1, <1>4, OrderFacts
  <2> QED BY <1>4, <2>1
<1>6. Leaving(c) = {Onward(c)}
  BY <1>4, <1>5, WayOut
<1>7. CASE Follower(c) = 0
  <2>1. Onward(c) = Out(p)
    BY <1>4, <1>7 DEF Onward
  <2> QED BY <1>4, <1>6, <2>1, ArrivesOut
<1>8. CASE Follower(c) # 0
  <2> DEFINE f == Follower(c)
  <2>1. \E e \in Children(Up(c)) : e > c
    BY <1>8 DEF Follower
  <2>2. f \in Children(p) /\ f > c /\ f \in Node
    BY <1>1, <1>4, <2>1, NextSibling, ChildFacts
  <2> HIDE DEF f, T
  <2>3. f > n /\ f >= n /\ ~ (f <= c)
    <3>1. c \in Nat /\ f \in Nat /\ n \in Nat
      BY <1>1, <1>4, <2>2, OrderFacts
    <3> QED BY <1>4, <2>2, <3>1
  <2>4. Kind(f) = "label"
    BY <2>2, <2>3
  <2>5. Arrives(Out(c)) = Arrives(In(f))
    BY <1>4, <1>5, <1>8, <2>4, NextLabel DEF f
  <2>6. Arrives(In(f)) = Arrives(Out(f))
    BY <2>2, <2>4, ArrivesLabel
  <2>7. f \in T
    BY <1>4, <2>2, <2>3, <2>5, <2>6 DEF T
  <2> QED BY <1>3, <2>3, <2>7
<1> QED BY <1>7, <1>8
=============================================================================
