--------------------------- MODULE SimplifierProofs ---------------------------
(***************************************************************************)
(* Proofs about module Simplifier, for every well-formed program, every    *)
(* set of optimizations and every number of operators a client rebuilds.   *)
(***************************************************************************)
EXTENDS Simplifier, FiniteSetTheorems, WellFoundedInduction, TLAPS

-----------------------------------------------------------------------------
(* The inductive invariant. *)

TypeOK ==
  /\ prog \in Programs
  /\ opts \in OptionSets
  /\ live \subseteq Unit
  /\ folded \subseteq constant
  /\ \A u \in folded : Kind(u) \in {"op", "get"}
  /\ refs \in [Symbol -> Nat]
  /\ asgs \in [Symbol -> Nat]
  /\ constant \subseteq Unit
  /\ rewrites \in Nat
  /\ phase \in {"recalculate", "propagate", "rewrite", "optimize", "done"}
  /\ at \in Nat \ {0}
  /\ level \in BOOLEAN

\* Until optimize() starts the tree is as it was parsed.
Untouched ==
  phase \notin {"optimize", "done"} => live = Unit /\ folded = {}

\* What is below a unit that left the tree left with it.
Downward ==
  \A u \in Unit : \A v \in Inside(u) : v \in live => u \in live

\* A constant has no effects, and what it reads cannot change.
ConstantsFixed ==
  /\ \A u \in constant : \A v \in Subtree(u) : Kind(v) \notin {"set", "call"}
  /\ \A u \in constant :
       Kind(u) = "get" => Writes(Names(u), Unit) = {} \/ InGlobals(u)

\* Nothing applies to what the visitor has passed, until it changes something.
PassedIsClean ==
  phase \in {"optimize", "done"} /\ ~level =>
    \A u \in live :
      u < at => ~UnusedGlobal(u) /\ ~UnusedLocal(u) /\ ~Foldable(u)

Ended == phase = "done" => at > Len(prog) /\ ~level

Inv ==
  /\ TypeOK
  /\ Untouched
  /\ Downward
  /\ ConstantsFixed
  /\ CountsHold
  /\ NothingDangles
  /\ PassedIsClean
  /\ Ended

-----------------------------------------------------------------------------
(* Well-formed programs. *)

\* What WellFormed says, in the words of the module.
Shape ==
  /\ Len(prog) \in Nat /\ Unit = 1 .. Len(prog)
  /\ \A u \in Unit : u \in Subtree(u) /\ Subtree(u) \subseteq Unit
  /\ \A u \in Unit : \A v \in Inside(u) : v < u /\ Subtree(v) \subseteq Inside(u)
  /\ \A u \in Unit : \A v, w \in Unit :
       u \in Subtree(v) /\ u \in Subtree(w) => v \in Subtree(w) \/ w \in Subtree(v)
  /\ \A u \in Unit : Kind(u) \in {"lit", "get"} => Inside(u) = {}
  /\ \A u \in Unit : \A v \in Inside(u) :
       /\ Kind(u) \notin {"func", "handler"} => Kind(v) \notin Declaring
       /\ Kind(u) = "func" => Kind(v) \notin {"func", "gvar"}
       /\ Kind(u) = "gvar" => Kind(v) \notin {"set", "call"}
  /\ \A u \in Unit : Names(u) # 0 => Names(u) \in Symbol
  /\ \A u \in Unit : Kind(u) \in {"get", "set", "call"} => Names(u) \in Unit
  /\ \A u \in Unit : Kind(u) = "get" =>
       /\ Kind(Names(u)) = "gvar" \/ Names(u) < u
       /\ InGlobals(u) => Kind(Names(u)) = "gvar" /\ Names(u) < u
  /\ \A u \in Unit : Kind(u) \in {"get", "set"} => Kind(Names(u)) # "func"
  /\ \A u \in Unit : \A f \in Unit :
       Kind(f) = "func" /\ Names(u) \in Inside(f) => u \in Inside(f)

LEMMA NamesOfKinds ==
  ASSUME NEW u
  PROVE  /\ Kind(u) \in Declaring => Names(u) = u
         /\ Kind(u) \in {"get", "set", "call"} => Names(u) = prog[u].of
         /\ Kind(u) \notin Declaring \cup {"get", "set", "call"} => Names(u) = 0
BY DEF Names, Declaring

LEMMA ProgramsHaveShape == TypeOK => Shape
<1> SUFFICES ASSUME TypeOK PROVE Shape
  OBVIOUS
<1> DEFINE Record == [kind : Declaring \cup {"handler", "get", "set", "call", "op", "lit"},
                      first : Nat \ {0}, of : Nat, list : BOOLEAN]
           Before(u) == prog[u].first .. u - 1
<1>1. WellFormed(prog)
  BY ProgramsAssumption DEF TypeOK
<1>2. prog \in Seq(Record)
  BY <1>1 DEF WellFormed
<1>3. \A u \in Unit :
        /\ prog[u].first <= u
        /\ \A v \in Before(u) : prog[u].first <= prog[v].first
        /\ Kind(u) \in {"lit", "get"} => prog[u].first = u
        /\ Kind(u) \notin {"func", "handler"} =>
             \A v \in Before(u) : Kind(v) \notin Declaring \cup {"handler"}
        /\ Kind(u) \in {"func", "handler"} =>
             \A v \in Before(u) : Kind(v) \notin {"func", "gvar", "handler"}
        /\ Kind(u) = "gvar" =>
             \A v \in Before(u) :
               /\ Kind(v) \notin {"set", "call"}
               /\ Kind(v) = "get" => Kind(prog[v].of) = "gvar" /\ prog[v].of < v
        /\ Kind(u) \in {"get", "set", "call"} => prog[u].of \in Unit
        /\ Kind(u) \in {"get", "set"} => Kind(prog[u].of) \in {"gvar", "decl"}
        /\ Kind(u) = "call" => Kind(prog[u].of) = "func"
        /\ Kind(u) = "get" => Kind(prog[u].of) = "gvar" \/ prog[u].of < u
        /\ Kind(u) \in {"get", "set", "call"} =>
             \A f \in Unit :
               Kind(f) \in {"func", "handler"} /\ prog[u].of \in Before(f) => u \in Before(f)
  BY <1>1, Zenon DEF WellFormed, Unit, Kind
<1> HIDE DEF Record
<1>4. Len(prog) \in Nat /\ Unit = 1 .. Len(prog) /\ \A u \in Unit : prog[u] \in Record
  BY <1>2 DEF Unit
<1>5. \A u \in Unit : prog[u].first \in Nat \ {0} /\ prog[u].first <= u
  BY <1>3, <1>4 DEF Record
<1> HIDE DEF Before
<1>6. \A u \in Unit : u \in Subtree(u) /\ Subtree(u) \subseteq Unit
  BY <1>4, <1>5 DEF Subtree
<1>7. \A u \in Unit : Inside(u) = Before(u)
  BY <1>4, <1>5 DEF Subtree, Inside, Before
<1>8. \A u \in Unit : \A v \in Inside(u) : v < u /\ v \in Unit
  BY <1>4, <1>5, <1>7, SMTT(20) DEF Before
<1>9. \A u \in Unit : \A v \in Inside(u) : Subtree(v) \subseteq Inside(u)
  <2> SUFFICES ASSUME NEW u \in Unit, NEW v \in Inside(u) PROVE Subtree(v) \subseteq Inside(u)
    OBVIOUS
  <2>1. prog[u].first <= prog[v].first
    BY <1>3, <1>7
  <2> QED BY <2>1, <1>4, <1>5, <1>7, <1>8, SMTT(20) DEF Subtree, Before
<1>10. \A u \in Unit : Kind(u) \in {"lit", "get"} => Inside(u) = {}
  BY <1>3, <1>4, <1>5, <1>7 DEF Before
<1>11. \A u \in Unit : \A v \in Inside(u) :
         /\ Kind(u) \notin {"func", "handler"} => Kind(v) \notin Declaring
         /\ Kind(u) = "func" => Kind(v) \notin {"func", "gvar"}
         /\ Kind(u) = "gvar" => Kind(v) \notin {"set", "call"}
  BY <1>3, <1>7
<1>12. \A u \in Unit : Names(u) # 0 => Names(u) \in Symbol
  BY <1>3, NamesOfKinds DEF Declaring, Symbol
<1>13. \A u \in Unit : Kind(u) \in {"get", "set", "call"} => Names(u) \in Unit
  BY <1>3, NamesOfKinds
<1>14. \A u \in Unit : Kind(u) = "get" =>
         /\ Kind(Names(u)) = "gvar" \/ Names(u) < u
         /\ InGlobals(u) => Kind(Names(u)) = "gvar" /\ Names(u) < u
  BY <1>3, <1>7, NamesOfKinds DEF InGlobals
<1>15. \A u \in Unit : Kind(u) \in {"get", "set"} => Kind(Names(u)) # "func"
  BY <1>3, NamesOfKinds
<1>16. ASSUME NEW u \in Unit, NEW f \in Unit, Kind(f) = "func", Names(u) \in Inside(f)
       PROVE  u \in Inside(f)
  <2>1. Names(u) # 0
    BY <1>4, <1>8, <1>16
  <2> QED BY <1>3, <1>7, <1>16, <2>1, NamesOfKinds
<1>17. \A u \in Unit : \A v, w \in Unit :
         u \in Subtree(v) /\ u \in Subtree(w) => v \in Subtree(w) \/ w \in Subtree(v)
  BY <1>4, <1>5 DEF Subtree
<1> QED BY <1>4, <1>6, <1>8, <1>9, <1>10, <1>11, <1>12, <1>13, <1>14, <1>15, <1>16, <1>17 DEF Shape

-----------------------------------------------------------------------------
(* The least element of a set of naturals, by which the proofs do without  *)
(* induction: a least counterexample has nothing below it.                 *)

\* Every set of naturals that is not empty has a least element.
LEMMA LeastExists ==
  ASSUME NEW T, T \subseteq Nat, T # {}
  PROVE  \E x \in T : \A y \in T : x <= y
<1>1. PICK x \in T : \A y \in T : ~ (<<y, x>> \in OpToRel(<, Nat))
  BY WFMin, NatLessThanWellFounded
<1>2. \A y \in T : ~ (y < x)
  BY <1>1 DEF OpToRel
<1> QED BY <1>2

\* And every one below a bound a greatest.
LEMMA GreatestExists ==
  ASSUME NEW T, T \subseteq Nat, T # {}, NEW n \in Nat, \A x \in T : x <= n
  PROVE  \E x \in T : \A y \in T : y <= x
<1> DEFINE Gaps == {n - x : x \in T}
<1>1. Gaps \subseteq Nat /\ Gaps # {}
  <2>1. \A x \in T : n - x \in Nat
    OBVIOUS
  <2> QED BY <2>1
<1>2. PICK d \in Gaps : \A e \in Gaps : d <= e
  BY <1>1, LeastExists
<1>3. PICK x \in T : d = n - x
  BY <1>2
<1>4. \A y \in T : n - x <= n - y
  BY <1>2, <1>3
<1> QED BY <1>4

-----------------------------------------------------------------------------
(* The constants of a tree: the recursive function is defined everywhere,  *)
(* by induction on the units, as the least counterexample shows.           *)

\* The order values are found in: global variables first.
OfGlobal(u) == Kind(u) = "gvar" \/ InGlobals(u)
Rank(u) == IF OfGlobal(u) THEN u ELSE Len(prog) + u

\* What a unit's constant depends on comes before it.
LEMMA EarlierConstants ==
  ASSUME Shape, NEW f, NEW g, NEW u \in Unit, \A v \in Unit : Rank(v) < Rank(u) => f[v] = g[v]
  PROVE  ConstantGiven(f, u) = ConstantGiven(g, u)
<1>1. ASSUME NEW c \in Children(u) PROVE f[c] = g[c]
  <2>1. c \in Unit /\ c \in Inside(u) /\ c < u
    BY <1>1 DEF Shape, Children, Inside
  <2>2. OfGlobal(u) => OfGlobal(c)
    <3>1. \A h \in Unit : u = h \/ u \in Inside(h) => c \in Inside(h)
      BY <2>1 DEF Shape, Inside
    <3> QED BY <3>1 DEF OfGlobal, InGlobals
  <2>3. Rank(c) < Rank(u)
    BY <2>1, <2>2 DEF Rank, Shape
  <2> QED BY <2>1, <2>3
<1>2. ASSUME Kind(u) = "get" PROVE f[Names(u)] = g[Names(u)]
  <2>1. Names(u) \in Unit /\ ~ (Kind(u) = "gvar")
    BY <1>2 DEF Shape
  <2>2. CASE OfGlobal(u)
    <3>1. Names(u) < u /\ OfGlobal(Names(u))
      BY <1>2, <2>1, <2>2 DEF Shape, OfGlobal
    <3> QED BY <2>1, <2>2, <3>1 DEF Rank, Shape
  <2>3. CASE ~ OfGlobal(u)
    <3>1. Names(u) < u \/ OfGlobal(Names(u))
      BY <1>2 DEF Shape, OfGlobal
    <3> QED BY <2>1, <2>3, <3>1 DEF Rank, Shape
  <2> QED BY <2>2, <2>3
<1> QED BY <1>1, <1>2 DEF ConstantGiven

LEMMA ConstantsDefined ==
  ASSUME Shape
  PROVE  \E f : f = [u \in Unit |-> ConstantGiven(f, u)]
<1> DEFINE UpTo(n) == {u \in Unit : Rank(u) <= n}
           Defined(n) == \E f : f = [u \in UpTo(n) |-> ConstantGiven(f, u)]
           Last == 2 * Len(prog)
           Without == {n \in 0 .. Last : ~ Defined(n)}
<1>1. Last \in Nat /\ \A u \in Unit : Rank(u) \in 1 .. Last
  BY DEF Shape, Rank
<1>2. Defined(0)
  <2> DEFINE f == [u \in UpTo(0) |-> TRUE]
  <2>1. UpTo(0) = {}
    BY <1>1
  <2>2. f = [u \in UpTo(0) |-> ConstantGiven(f, u)]
    BY <2>1
  <2> QED BY <2>2
<1>3. ASSUME NEW n \in 1 .. Last, Defined(n - 1)
      PROVE  Defined(n)
  <2>1. PICK f : f = [u \in UpTo(n - 1) |-> ConstantGiven(f, u)]
    BY <1>3
  <2> DEFINE g == [u \in UpTo(n) |-> IF Rank(u) < n THEN f[u] ELSE ConstantGiven(f, u)]
  <2>2. \A u \in UpTo(n) : g[u] = ConstantGiven(f, u)
    <3> SUFFICES ASSUME NEW u \in UpTo(n), Rank(u) < n PROVE f[u] = ConstantGiven(f, u)
      OBVIOUS
    <3>1. u \in UpTo(n - 1)
      BY <1>1
    <3> QED BY <2>1, <3>1
  <2>3. \A u \in UpTo(n) : g[u] = ConstantGiven(g, u)
    <3> SUFFICES ASSUME NEW u \in UpTo(n) PROVE ConstantGiven(f, u) = ConstantGiven(g, u)
      BY <2>2
    <3>1. \A v \in Unit : Rank(v) < Rank(u) => f[v] = g[v]
      BY <1>1
    <3> HIDE DEF g
    <3> QED BY <3>1, EarlierConstants
  <2>4. g = [u \in UpTo(n) |-> g[u]]
    OBVIOUS
  <2> HIDE DEF g
  <2> QED BY <2>3, <2>4
<1>4. Without = {}
  <2> SUFFICES ASSUME Without # {} PROVE FALSE
    OBVIOUS
  <2>1. PICK n \in Without : \A m \in Without : n <= m
    <3>1. Without \subseteq Nat
      BY <1>1
    <3> QED BY <3>1, LeastExists
  <2> HIDE DEF Defined
  <2>2. n \in 1 .. Last
    BY <1>1, <1>2
  <2>3. Defined(n - 1)
    BY <1>1, <2>1, <2>2
  <2> QED BY <1>3, <2>2, <2>3
<1>5. Last \in 0 .. Last /\ UpTo(Last) = Unit
  BY <1>1
<1> QED BY <1>4, <1>5

LEMMA ConstantsOfUnits ==
  ASSUME Shape, NEW u \in Unit
  PROVE  IsConstant[u] = ConstantGiven(IsConstant, u)
<1>1. IsConstant = [v \in Unit |-> ConstantGiven(IsConstant, v)]
  BY ConstantsDefined DEF IsConstant
<1> QED BY <1>1

\* As parsed, nothing below a constant fails to be one: the least unit with such a
\* descendant, and the last of these, have a unit between them that is less.
LEMMA ConstantsClosed ==
  ASSUME Shape, live = Unit, folded = {}
  PROVE  \A u \in Unit : IsConstant[u] => \A v \in Inside(u) : IsConstant[v]
<1> DEFINE Bad(u) == {v \in Inside(u) : ~ IsConstant[v]}
           Open == {u \in Unit : IsConstant[u] /\ Bad(u) # {}}
<1> SUFFICES ASSUME Open # {} PROVE FALSE
  OBVIOUS
<1>1. \A u \in Unit : u \in Nat /\ Inside(u) \subseteq Unit
  BY DEF Shape, Inside
<1>2. PICK u \in Open : \A w \in Open : u <= w
  <2>1. Open \subseteq Nat
    BY <1>1
  <2> QED BY <2>1, LeastExists
<1>3. PICK v \in Bad(u) : \A w \in Bad(u) : w <= v
  <2>1. \A w \in Bad(u) : u \in Nat /\ w \in Nat /\ w <= u
    BY <1>1, <1>2 DEF Shape
  <2> QED BY <1>2, <2>1, GreatestExists
<1>4. u \in Unit /\ v \in Inside(u) /\ ConstantGiven(IsConstant, u)
  BY <1>2, <1>3, ConstantsOfUnits
<1>5. \A c \in Children(u) : IsConstant[c]
  <2>1. Kind(u) \notin {"lit", "get"}
    BY <1>4 DEF Shape
  <2>2. Children(u) \subseteq live
    BY <1>1, <1>4 DEF Children
  <2> QED BY <1>4, <2>1, <2>2 DEF ConstantGiven
<1>6. PICK w \in Inside(u) : w # v /\ v \in Subtree(w)
  BY <1>3, <1>4, <1>5 DEF Children
<1>7. w \in Unit /\ w < u /\ v \in Inside(w) /\ v < w
  BY <1>1, <1>4, <1>6 DEF Shape, Inside
<1>8. IsConstant[w]
  BY <1>1, <1>3, <1>4, <1>6, <1>7
<1> QED BY <1>1, <1>2, <1>3, <1>7, <1>8

\* What propagateValues finds constant has no effects and reads nothing that
\* changes.
LEMMA ConstantsAreFixed ==
  ASSUME Shape, live = Unit, folded = {}, NEW u \in Unit, IsConstant[u]
  PROVE  /\ \A v \in Subtree(u) : Kind(v) \notin {"set", "call"}
         /\ Kind(u) = "get" => asgs[Names(u)] = 0 \/ InGlobals(u)
<1>1. \A v \in Subtree(u) : v \in Unit /\ IsConstant[v]
  BY ConstantsClosed DEF Shape, Inside
<1>2. \A v \in Subtree(u) : ConstantGiven(IsConstant, v)
  BY <1>1, ConstantsOfUnits
<1>3. ConstantGiven(IsConstant, u)
  BY ConstantsOfUnits
<1> QED BY <1>2, <1>3 DEF ConstantGiven, Declaring

-----------------------------------------------------------------------------
(* Counting. *)

LEMMA MinusFacts ==
  ASSUME NEW n \in Nat, NEW k \in Nat
  PROVE  /\ Minus(n, k) \in Nat
         /\ TakenAndReplaced(n, k) \in Nat
         /\ TakenAndReplaced(n, k) >= n
         /\ \A c \in Nat : k <= c /\ n >= c => Minus(n, k) >= c - k
         /\ \A c \in Nat : k <= c /\ n = c => Minus(n, k) = c - k
BY DEF Minus, TakenAndReplaced

LEMMA UnitsAreFinite ==
  ASSUME Shape, NEW S, S \subseteq Unit
  PROVE  IsFiniteSet(S) /\ Cardinality(S) \in Nat
<1>1. IsFiniteSet(Unit)
  BY FS_Interval DEF Shape
<1>2. IsFiniteSet(S)
  BY <1>1, FS_Subset
<1> QED BY <1>2, FS_CardinalityType

\* What is left of a set of units without those of another.
LEMMA CountWithout ==
  ASSUME Shape, NEW S, S \subseteq Unit, NEW D
  PROVE  /\ Cardinality(S \cap D) \in Nat
         /\ Cardinality(S \cap D) <= Cardinality(S)
         /\ Cardinality(S \ D) = Cardinality(S) - Cardinality(S \cap D)
<1>1. IsFiniteSet(S)
  BY UnitsAreFinite
<1> QED BY <1>1, UnitsAreFinite, FS_Difference, FS_Subset

Covered ==
  \A s \in Symbol \cap live :
    refs[s] >= Cardinality(Uses(s)) /\ asgs[s] >= Cardinality(Writes(s, Present))

Exact ==
  \A s \in Symbol \cap live :
    refs[s] = Cardinality(Uses(s)) /\ asgs[s] = Cardinality(Writes(s, Present))

LEMMA CountsHoldMeans ==
  CountsHold <=> (phase # "recalculate" => Covered /\ (rewrites = 0 => Exact))
BY DEF CountsHold, CountsCover, CountsExact, Covered, Exact

\* Taking the part D of the tree out, no recursive mention of a symbol that stays
\* among it, the counters stay as true as they were.
LEMMA DecrementCounts ==
  ASSUME TypeOK, Shape, NEW D, D \subseteq Present, Decrement(D),
         prog' = prog, live' \subseteq live, Present' = Present \ D,
         \A s \in live' : \A u \in Mentions(s, D) : ~ Recursive(u)
  PROVE  /\ refs' \in [Symbol -> Nat] /\ asgs' \in [Symbol -> Nat]
         /\ Covered => Covered'
         /\ Exact => Exact'
<1>1. Present \subseteq Unit
  BY DEF TypeOK, Present
<1>2. ASSUME NEW s
      PROVE  /\ Cardinality(Mentions(s, D)) \in Nat
             /\ Cardinality(Writes(s, D)) \in Nat
  BY <1>1, UnitsAreFinite DEF Mentions, Writes
<1>3. /\ refs' = [s \in Symbol |-> Minus(refs[s], Cardinality(Mentions(s, D)))]
      /\ asgs' = [s \in Symbol |-> Minus(asgs[s], Cardinality(Writes(s, D)))]
      /\ \A s \in Symbol : refs[s] \in Nat /\ asgs[s] \in Nat
  BY DEF Decrement, TypeOK
<1>4. refs' \in [Symbol -> Nat] /\ asgs' \in [Symbol -> Nat]
  BY <1>2, <1>3, MinusFacts
<1>5. ASSUME NEW s \in (Symbol \cap live)'
      PROVE  /\ s \in Symbol \cap live
             /\ Uses(s)' = Uses(s) \ Mentions(s, D) /\ Uses(s) \cap Mentions(s, D) = Mentions(s, D)
             /\ Writes(s, Present)' = Writes(s, Present) \ Writes(s, D)
             /\ Writes(s, Present) \cap Writes(s, D) = Writes(s, D)
  BY <1>5 DEF Symbol, Unit, Kind, Uses, Mentions, Writes, Recursive, Names, Inside, Subtree
<1>6. ASSUME NEW s
      PROVE  Uses(s) \subseteq Unit /\ Writes(s, Present) \subseteq Unit
  BY <1>1 DEF Uses, Mentions, Writes
<1>7. ASSUME NEW s \in (Symbol \cap live)'
      PROVE  /\ Cardinality(Uses(s)') = Cardinality(Uses(s)) - Cardinality(Mentions(s, D))
             /\ Cardinality(Mentions(s, D)) <= Cardinality(Uses(s))
             /\ Cardinality(Uses(s)) \in Nat
             /\ Cardinality(Writes(s, Present)')
                  = Cardinality(Writes(s, Present)) - Cardinality(Writes(s, D))
             /\ Cardinality(Writes(s, D)) <= Cardinality(Writes(s, Present))
             /\ Cardinality(Writes(s, Present)) \in Nat
  <2>1. Uses(s) \subseteq Unit /\ Writes(s, Present) \subseteq Unit
    BY <1>6
  <2>2. /\ Cardinality(Uses(s) \ Mentions(s, D))
             = Cardinality(Uses(s)) - Cardinality(Uses(s) \cap Mentions(s, D))
        /\ Cardinality(Uses(s) \cap Mentions(s, D)) <= Cardinality(Uses(s))
    BY <2>1, CountWithout
  <2>3. /\ Cardinality(Writes(s, Present) \ Writes(s, D))
             = Cardinality(Writes(s, Present)) - Cardinality(Writes(s, Present) \cap Writes(s, D))
        /\ Cardinality(Writes(s, Present) \cap Writes(s, D)) <= Cardinality(Writes(s, Present))
    BY <2>1, CountWithout
  <2>4. Cardinality(Uses(s)) \in Nat /\ Cardinality(Writes(s, Present)) \in Nat
    BY <2>1, UnitsAreFinite
  <2> QED BY <1>5, <2>2, <2>3, <2>4
<1>8. ASSUME NEW s \in (Symbol \cap live)'
      PROVE  /\ refs'[s] = Minus(refs[s], Cardinality(Mentions(s, D)))
             /\ asgs'[s] = Minus(asgs[s], Cardinality(Writes(s, D)))
             /\ refs[s] \in Nat /\ asgs[s] \in Nat
  BY <1>3, <1>5
<1>9. ASSUME Covered, NEW s \in (Symbol \cap live)'
      PROVE  refs'[s] >= Cardinality(Uses(s)') /\ asgs'[s] >= Cardinality(Writes(s, Present)')
  <2>1. refs[s] >= Cardinality(Uses(s)) /\ asgs[s] >= Cardinality(Writes(s, Present))
    BY <1>5, <1>9 DEF Covered
  <2> QED BY <1>2, <1>7, <1>8, <2>1 DEF Minus
<1>10. ASSUME Exact, NEW s \in (Symbol \cap live)'
       PROVE  refs'[s] = Cardinality(Uses(s)') /\ asgs'[s] = Cardinality(Writes(s, Present)')
  <2>1. refs[s] = Cardinality(Uses(s)) /\ asgs[s] = Cardinality(Writes(s, Present))
    BY <1>5, <1>10 DEF Exact
  <2> QED BY <1>2, <1>7, <1>8, <2>1 DEF Minus
<1> QED BY <1>4, <1>9, <1>10 DEF Covered, Exact

-----------------------------------------------------------------------------
(* What leaves the tree. *)

\* Whatever is below a unit is below one of its children.
LEMMA ChildAbove ==
  ASSUME Shape, NEW a \in Unit, NEW u \in Inside(a)
  PROVE  \E c \in Children(a) : u \in Subtree(c)
<1> DEFINE Above == {w \in Inside(a) : u \in Subtree(w)}
<1>1. \A w \in Inside(a) : w \in Unit /\ a \in Nat /\ w \in Nat /\ w < a
  BY DEF Shape, Inside
<1>2. u \in Above
  BY <1>1 DEF Shape
<1>3. PICK c \in Above : \A w \in Above : w <= c
  <2>1. Above \subseteq Nat /\ \A w \in Above : w <= a
    BY <1>1
  <2> QED BY <1>1, <1>2, <2>1, GreatestExists
<1>4. ASSUME NEW w \in Inside(a) \ {c}, c \in Subtree(w) PROVE FALSE
  <2>1. w \in Unit /\ c \in Inside(w) /\ c < w
    BY <1>1, <1>4 DEF Shape, Inside
  <2>2. u \in Subtree(w)
    BY <1>3, <2>1 DEF Shape, Inside
  <2> QED BY <1>1, <1>3, <2>1, <2>2
<1> QED BY <1>3, <1>4 DEF Children

\* What optimize() may do to a unit.
Leaves(a) == UnusedGlobal(a) \/ UnusedLocal(a) \/ Foldable(a)

\* The kinds it does that to.
LEMMA KindsThatLeave ==
  ASSUME NEW a, Leaves(a)
  PROVE  /\ UnusedGlobal(a) \/ UnusedLocal(a) =>
              /\ Kind(a) \in Declaring
              /\ refs[a] = 1
         /\ Foldable(a) => Kind(a) \in {"op", "get"} /\ a \in constant
BY DEF Leaves, UnusedGlobal, UnusedLocal, Foldable, Declaring

\* No call and no assignment leaves the tree but with a function.
LEMMA EffectsLeaveWithFunctions ==
  ASSUME Inv, Shape, NEW a \in live, Leaves(a), Kind(a) # "func",
         NEW u \in Subtree(a) \cap live
  PROVE  Kind(u) \notin {"call", "set"}
<1>1. CASE Foldable(a)
  BY <1>1, KindsThatLeave DEF Inv, ConstantsFixed
<1>2. CASE UnusedGlobal(a)
  <2>1. Kind(a) = "gvar" /\ a \in Unit
    BY <1>2 DEF UnusedGlobal, Inv, TypeOK
  <2>2. CASE u = a
    BY <2>1, <2>2
  <2>3. CASE u \in Inside(a)
    BY <2>1, <2>3 DEF Shape
  <2> QED BY <2>2, <2>3 DEF Inside
<1>3. CASE UnusedLocal(a)
  <2>1. Kind(a) = "decl" /\ a \in Unit
    BY <1>3 DEF UnusedLocal, Inv, TypeOK
  <2>2. CASE u = a
    BY <2>1, <2>2
  <2>3. CASE u \in Inside(a)
    <3>1. PICK c \in Children(a) : u \in Subtree(c)
      BY <2>1, <2>3, ChildAbove
    <3>2. c \in Unit
      BY <2>1, <3>1 DEF Children, Inside, Shape
    <3>3. c \in live
      BY <3>1, <3>2 DEF Inv, Downward, Inside
    <3>4. c \in constant
      BY <1>3, <3>1, <3>3 DEF UnusedLocal
    <3> QED BY <3>1, <3>4 DEF Inv, ConstantsFixed
  <2> QED BY <2>2, <2>3 DEF Inside
<1> QED BY <1>1, <1>2, <1>3 DEF Leaves

\* A recursive mention leaves only with its function, so the mentions that are
\* taken off a counter that stays are among those it counts.
LEMMA RecursionLeavesWhole ==
  ASSUME Inv, Shape, NEW a \in live, Leaves(a), NEW u \in Subtree(a) \cap live,
         Recursive(u)
  PROVE  Names(u) \in Subtree(a) /\ Kind(a) = "func"
<1>1. a \in Unit /\ u \in Unit
  BY DEF Inv, TypeOK
<1>2. PICK f \in Unit : Kind(f) = "func" /\ u \in Inside(f) /\ Names(u) = f
  BY DEF Recursive
<1>3. u # f /\ f # 0
  BY <1>1, <1>2 DEF Shape
<1>4. Kind(u) = "call"
  BY <1>1, <1>2, <1>3, NamesOfKinds DEF Shape
<1>5. Kind(a) = "func"
  BY <1>4, EffectsLeaveWithFunctions
<1>6. a \in Subtree(f) \/ f \in Subtree(a)
  BY <1>1, <1>2 DEF Shape, Inside
<1>7. a \in Inside(f) => FALSE
  BY <1>2, <1>5 DEF Shape
<1> QED BY <1>1, <1>2, <1>5, <1>6, <1>7 DEF Inside, Shape

-----------------------------------------------------------------------------
(* The visitor's steps.  Out(a) is what pruning or folding a takes off. *)

Out(a) == Subtree(a) \cap Present

LEMMA PruneSteps ==
  ASSUME Inv, Shape, NEW a \in live, Prune(a)
  PROVE  /\ Leaves(a) /\ (UnusedGlobal(a) \/ UnusedLocal(a))
         /\ Decrement(Out(a)) /\ level' = TRUE /\ folded' = folded
         /\ live' = live \ Subtree(a) /\ Present' = Present \ Out(a)
BY DEF Prune, Leaves, Out, Present

LEMMA FoldSteps ==
  ASSUME Inv, Shape, NEW a \in live, Fold(a)
  PROVE  /\ Leaves(a) /\ Foldable(a)
         /\ Decrement(Out(a)) /\ level' = TRUE /\ folded' = folded \cup {a}
         /\ live' = live \ Inside(a) /\ Present' = Present \ Out(a)
<1>1. Subtree(a) = Inside(a) \cup {a}
  BY DEF Inv, TypeOK, Shape, Inside
<1> QED BY <1>1 DEF Fold, Leaves, Out, Present, Inside

LEMMA AtMostOne ==
  ASSUME NEW S, IsFiniteSet(S), Cardinality(S) <= 1, NEW x \in S, NEW y \in S
  PROVE  x = y
<1>1. Cardinality(S) \in Nat
  BY FS_CardinalityType
<1>2. Cardinality(S) = 0 \/ Cardinality(S) = 1
  BY <1>1
<1> QED BY <1>2, FS_EmptySet, FS_Singleton

\* What is pruned is mentioned by its own declaration, and otherwise only below it.
LEMMA PrunedIsUnused ==
  ASSUME Inv, Shape, Covered, NEW a \in live, UnusedGlobal(a) \/ UnusedLocal(a),
         NEW u \in Present, Names(u) = a
  PROVE  u \in Subtree(a)
<1>1. a \in Unit /\ u \in Unit /\ Kind(a) \in Declaring /\ refs[a] = 1
  BY KindsThatLeave DEF Leaves, Inv, TypeOK, Present
<1>2. a \in Symbol /\ a \in Present /\ Names(a) = a
  BY <1>1, NamesOfKinds DEF Symbol, Present, Inv, TypeOK, Declaring
<1>3. ~ Recursive(a)
  BY <1>1, <1>2 DEF Recursive, Inside
<1>4. Uses(a) \subseteq Unit /\ Cardinality(Uses(a)) <= 1 /\ IsFiniteSet(Uses(a))
  <2>1. Uses(a) \subseteq Unit
    BY DEF Uses, Mentions, Present, Inv, TypeOK
  <2>2. refs[a] >= Cardinality(Uses(a))
    BY <1>2 DEF Covered
  <2> QED BY <1>1, <2>1, <2>2, UnitsAreFinite
<1>5. a \in Uses(a)
  BY <1>2, <1>3 DEF Uses, Mentions
<1>6. CASE Recursive(u)
  BY <1>6 DEF Recursive, Inside
<1>7. CASE ~ Recursive(u)
  <2>1. u \in Uses(a)
    BY <1>7 DEF Uses, Mentions
  <2>2. u = a
    BY <1>4, <1>5, <2>1, AtMostOne
  <2> QED BY <1>1, <2>2 DEF Shape
<1> QED BY <1>6, <1>7

\* Pruning and folding leave no unit that names something they took out.
LEMMA NothingDanglesAfter ==
  ASSUME Inv, Shape, Covered, NEW a \in live, Prune(a) \/ Fold(a), prog' = prog
  PROVE  NothingDangles'
<1> SUFFICES ASSUME NEW u \in Present', Names(u) # 0, Names(u) \notin live'
             PROVE  FALSE
  BY DEF NothingDangles, Names, Kind
<1>1. /\ Leaves(a) /\ Present' = Present \ Out(a)
      /\ live' = live \ Subtree(a) \/ live' = live \ Inside(a)
  BY PruneSteps, FoldSteps
<1>2. u \in Present /\ u \notin Subtree(a) /\ u \in Unit /\ a \in Unit
  BY <1>1 DEF Out, Present, Inv, TypeOK
<1>3. Names(u) \in live /\ Names(u) \in Symbol
  BY <1>2 DEF Inv, NothingDangles, Shape
<1>4. Kind(Names(u)) \in Declaring
  BY <1>3 DEF Symbol
<1>5. CASE Prune(a)
  <2>1. UnusedGlobal(a) \/ UnusedLocal(a)
    BY <1>5, PruneSteps
  <2>2. Names(u) \in Subtree(a)
    BY <1>3, <1>5, PruneSteps
  <2>3. CASE Names(u) = a
    BY <1>2, <2>1, <2>3, PrunedIsUnused
  <2>4. CASE Names(u) \in Inside(a)
    <3>1. Kind(a) \in {"func", "handler"}
      BY <1>2, <1>4, <2>4 DEF Shape
    <3>2. Kind(a) = "func"
      BY <3>1, <2>1, <1>1, KindsThatLeave DEF Declaring
    <3>3. u \in Inside(a)
      BY <1>2, <2>4, <3>2 DEF Shape
    <3> QED BY <1>2, <3>3 DEF Inside
  <2> QED BY <2>2, <2>3, <2>4 DEF Inside
<1>6. CASE Fold(a)
  <2>1. Foldable(a) /\ Names(u) \in Inside(a)
    BY <1>3, <1>6, FoldSteps
  <2>2. Kind(a) \in {"op", "get"}
    BY <1>1, <2>1, KindsThatLeave
  <2> QED BY <1>2, <1>4, <2>1, <2>2 DEF Shape
<1> QED BY <1>5, <1>6

LEMMA CountsAfter ==
  ASSUME Inv, Shape, NEW a \in live, Prune(a) \/ Fold(a), prog' = prog
  PROVE  /\ refs' \in [Symbol -> Nat] /\ asgs' \in [Symbol -> Nat]
         /\ Covered => Covered'
         /\ Exact => Exact'
<1>1. /\ Leaves(a) /\ Decrement(Out(a)) /\ Present' = Present \ Out(a)
      /\ live' = live \ Subtree(a) \/ live' = live \ Inside(a)
  BY PruneSteps, FoldSteps
<1>2. ASSUME NEW s \in live', NEW u \in Mentions(s, Out(a)), Recursive(u)
      PROVE  FALSE
  <2>1. u \in Subtree(a) \cap live /\ Names(u) = s
    BY <1>2 DEF Mentions, Out, Present
  <2>2. s \in Subtree(a) /\ Kind(a) = "func"
    BY <1>1, <1>2, <2>1, RecursionLeavesWhole
  <2>3. CASE Prune(a)
    BY <1>2, <2>2, <2>3, PruneSteps
  <2>4. CASE Fold(a)
    BY <1>1, <2>2, <2>4, FoldSteps, KindsThatLeave
  <2> QED BY <2>3, <2>4
<1> QED BY <1>1, <1>2, DecrementCounts DEF Out, Inv

-----------------------------------------------------------------------------
(* The invariant. *)

LEMMA InitInv == Init => Inv
<1> SUFFICES ASSUME Init PROVE Inv
  OBVIOUS
<1>1. TypeOK
  <2>1. level \in BOOLEAN
    BY Zenon DEF Init
  <2>2. rewrites = 0 /\ at = 1 /\ live = Unit /\ folded = {} /\ constant = {}
    BY DEF Init, Unit
  <2> QED BY <2>1, <2>2 DEF Init, TypeOK
<1>2. Shape
  BY <1>1, ProgramsHaveShape
<1>3. Untouched /\ ConstantsFixed /\ CountsHold /\ PassedIsClean /\ Ended
  BY DEF Init, Untouched, ConstantsFixed, CountsHold, CountsCover, CountsExact,
         PassedIsClean, Ended, Unit
<1>4. live = Unit /\ Present \subseteq Unit
  BY DEF Init, Unit, Present
<1>5. Downward /\ NothingDangles
  BY <1>2, <1>4 DEF Downward, NothingDangles, Shape, Symbol
<1> QED BY <1>1, <1>3, <1>5 DEF Inv

\* A step that leaves the program and the tree leaves what is said of them alone.
LEMMA SameTree ==
  ASSUME Inv, UNCHANGED <<prog, opts, live, folded, constant>>
  PROVE  Downward' /\ ConstantsFixed' /\ NothingDangles'
BY DEF Inv, Downward, ConstantsFixed, NothingDangles, Present, Unit, Inside, Subtree,
       Kind, Names, Writes, InGlobals

LEMMA SameCounts ==
  ASSUME UNCHANGED <<prog, live, folded, refs, asgs, rewrites>>, Covered, rewrites = 0 => Exact
  PROVE  CountsHold'
<1>1. ASSUME NEW s \in (Symbol \cap live)'
      PROVE  s \in Symbol \cap live /\ Uses(s)' = Uses(s) /\ Writes(s, Present)' = Writes(s, Present)
  BY DEF Symbol, Unit, Kind, Uses, Mentions, Writes, Present, Recursive, Names, Inside, Subtree
<1> QED BY <1>1 DEF CountsHold, CountsCover, CountsExact, Covered, Exact

\* Nor does it change what optimize() would do.
LEMMA SameCandidates ==
  ASSUME UNCHANGED <<prog, opts, live, folded, refs, asgs, constant>>, NEW u
  PROVE  /\ UnusedGlobal(u)' <=> UnusedGlobal(u)
         /\ UnusedLocal(u)' <=> UnusedLocal(u)
         /\ Foldable(u)' <=> Foldable(u)
BY DEF UnusedGlobal, UnusedLocal, Foldable, Children, Inside, Subtree, Kind, Names

LEMMA RecalculateInv == Inv /\ Recalculate => Inv'
<1> SUFFICES ASSUME Inv, Recalculate PROVE Inv'
  OBVIOUS
<1>1. Shape
  BY ProgramsHaveShape DEF Inv
<1>2. /\ phase = "recalculate" /\ phase' = "propagate"
      /\ UNCHANGED <<prog, opts, live, folded, constant, rewrites, at, level>>
      /\ refs' = [s \in Symbol |-> Cardinality({u \in Mentions(s, live) : ~ Recursive(u)})]
      /\ asgs' = [s \in Symbol |-> Cardinality(Writes(s, live))]
  BY DEF Recalculate
<1>3. live = Unit /\ folded = {} /\ Present = live
  BY <1>2 DEF Inv, Untouched, Present
<1>4. \A s : /\ Cardinality({u \in Mentions(s, live) : ~ Recursive(u)}) \in Nat
             /\ Cardinality(Writes(s, live)) \in Nat
  BY <1>1, <1>3, UnitsAreFinite DEF Mentions, Writes
<1>5. TypeOK'
  <2>1. refs' \in [Symbol' -> Nat] /\ asgs' \in [Symbol' -> Nat]
    BY <1>2, <1>4 DEF Symbol, Unit, Kind
  <2> QED BY <1>2, <2>1 DEF Inv, TypeOK, Unit, Kind
<1>6. Covered' /\ Exact'
  <2> SUFFICES ASSUME NEW s \in (Symbol \cap live)'
               PROVE  /\ refs'[s] = Cardinality(Uses(s)') /\ refs'[s] \in Nat
                      /\ asgs'[s] = Cardinality(Writes(s, Present)') /\ asgs'[s] \in Nat
    BY DEF Covered, Exact
  <2>1. /\ Uses(s)' = {u \in Mentions(s, live) : ~ Recursive(u)}
        /\ Writes(s, Present)' = Writes(s, live)
        /\ s \in Symbol
    BY <1>2, <1>3 DEF Uses, Mentions, Writes, Present, Recursive, Unit, Kind, Names, Inside,
                      Subtree, Symbol
  <2> QED BY <1>2, <1>4, <2>1
<1>7. CountsHold'
  BY <1>6 DEF CountsHold, CountsCover, CountsExact, Covered, Exact
<1>8. Untouched' /\ PassedIsClean' /\ Ended'
  BY <1>2, <1>3 DEF Untouched, PassedIsClean, Ended, Unit
<1> QED BY <1>2, <1>5, <1>7, <1>8, SameTree DEF Inv

LEMMA PropagateInv == Inv /\ Propagate => Inv'
<1> SUFFICES ASSUME Inv, Propagate PROVE Inv'
  OBVIOUS
<1>1. Shape
  BY ProgramsHaveShape DEF Inv
<1>2. /\ phase = "propagate" /\ phase' = "rewrite"
      /\ UNCHANGED <<prog, opts, live, folded, refs, asgs, rewrites, at, level>>
      /\ constant' = {u \in live : IsConstant[u]}
  BY DEF Propagate
<1>3. live = Unit /\ folded = {} /\ Present = Unit
  BY <1>2 DEF Inv, Untouched, Present
<1>4. Covered
  BY <1>2, CountsHoldMeans DEF Inv
<1>5. TypeOK'
  BY <1>2, <1>3 DEF Inv, TypeOK, Unit, Kind, Symbol
<1>6. ASSUME NEW u \in constant'
      PROVE  /\ \A v \in Subtree(u) : Kind(v) \notin {"set", "call"}
             /\ Kind(u) = "get" => Writes(Names(u), Unit) = {} \/ InGlobals(u)
  <2>1. u \in Unit /\ IsConstant[u]
    BY <1>2, <1>3, <1>6
  <2>2. /\ \A v \in Subtree(u) : Kind(v) \notin {"set", "call"}
        /\ Kind(u) = "get" => asgs[Names(u)] = 0 \/ InGlobals(u)
    BY <1>1, <1>3, <2>1, ConstantsAreFixed
  <2>3. ASSUME Kind(u) = "get", asgs[Names(u)] = 0 PROVE Writes(Names(u), Unit) = {}
    <3>1. Names(u) \in Symbol \cap live
      BY <1>1, <1>3, <2>1, <2>3 DEF Shape
    <3>2. asgs[Names(u)] >= Cardinality(Writes(Names(u), Unit))
      BY <1>3, <1>4, <3>1 DEF Covered
    <3>3. IsFiniteSet(Writes(Names(u), Unit)) /\ Cardinality(Writes(Names(u), Unit)) \in Nat
      BY <1>1, UnitsAreFinite DEF Writes
    <3>4. Cardinality(Writes(Names(u), Unit)) = 0
      BY <2>3, <3>2, <3>3
    <3> QED BY <3>3, <3>4, FS_EmptySet
  <2> QED BY <2>2, <2>3
<1>7. ConstantsFixed'
  BY <1>2, <1>6 DEF ConstantsFixed, Subtree, Kind, Writes, Names, Unit, InGlobals, Inside
<1>8. Downward' /\ NothingDangles'
  BY <1>2 DEF Inv, Downward, NothingDangles, Present, Unit, Inside, Subtree, Kind, Names
<1>9. CountsHold'
  <2>1. rewrites = 0 => Exact
    BY <1>2, CountsHoldMeans DEF Inv
  <2> QED BY <1>2, <1>4, <2>1, SameCounts
<1>10. Untouched' /\ PassedIsClean' /\ Ended'
  BY <1>2, <1>3 DEF Untouched, PassedIsClean, Ended, Unit
<1> QED BY <1>5, <1>7, <1>8, <1>9, <1>10 DEF Inv

LEMMA RebuildInv == ASSUME NEW u \in Unit PROVE Inv /\ Rebuild(u) => Inv'
<1> SUFFICES ASSUME Inv, Rebuild(u) PROVE Inv'
  OBVIOUS
<1> DEFINE taken == Inside(u) \cap live
<1>1. Shape
  BY ProgramsHaveShape DEF Inv
<1>2. /\ phase = "rewrite" /\ phase' = "propagate" /\ rewrites' = rewrites + 1
      /\ UNCHANGED <<prog, opts, live, folded, constant, at, level>>
      /\ refs' = [s \in Symbol |-> TakenAndReplaced(refs[s], Cardinality(Mentions(s, taken)))]
      /\ asgs' = [s \in Symbol |-> TakenAndReplaced(asgs[s], Cardinality(Writes(s, taken)))]
  BY DEF Rebuild
<1>3. taken \subseteq Unit
  BY DEF Inv, TypeOK
<1> HIDE DEF taken
<1>4. \A s \in Symbol : /\ refs[s] \in Nat /\ Cardinality(Mentions(s, taken)) \in Nat
                        /\ asgs[s] \in Nat /\ Cardinality(Writes(s, taken)) \in Nat
  BY <1>1, <1>3, UnitsAreFinite DEF Mentions, Writes, Inv, TypeOK
<1>5. \A s \in Symbol : /\ refs'[s] \in Nat /\ refs'[s] >= refs[s]
                        /\ asgs'[s] \in Nat /\ asgs'[s] >= asgs[s]
  BY <1>2, <1>4, MinusFacts
<1>6. TypeOK'
  <2>1. refs' \in [Symbol' -> Nat] /\ asgs' \in [Symbol' -> Nat]
    BY <1>2, <1>5 DEF Symbol, Unit, Kind
  <2> QED BY <1>2, <2>1 DEF Inv, TypeOK, Unit, Kind
<1>7. CountsHold'
  <2>1. Covered
    BY <1>2, CountsHoldMeans DEF Inv
  <2>2. rewrites' # 0
    BY <1>2 DEF Inv, TypeOK
  <2> SUFFICES ASSUME NEW s \in (Symbol \cap live)'
               PROVE  refs'[s] >= Cardinality(Uses(s)') /\ asgs'[s] >= Cardinality(Writes(s, Present)')
    BY <2>2 DEF CountsHold, CountsCover, CountsExact
  <2>3. s \in Symbol \cap live /\ Uses(s)' = Uses(s) /\ Writes(s, Present)' = Writes(s, Present)
    BY <1>2 DEF Symbol, Unit, Kind, Uses, Mentions, Writes, Present, Recursive, Names, Inside,
                Subtree
  <2>4. refs[s] >= Cardinality(Uses(s)) /\ asgs[s] >= Cardinality(Writes(s, Present))
    BY <2>1, <2>3 DEF Covered
  <2>5. Cardinality(Uses(s)) \in Nat /\ Cardinality(Writes(s, Present)) \in Nat
    BY <1>1, UnitsAreFinite DEF Uses, Mentions, Writes, Present, Inv, TypeOK
  <2> QED BY <1>4, <1>5, <2>3, <2>4, <2>5
<1>8. Untouched' /\ PassedIsClean' /\ Ended'
  BY <1>2 DEF Inv, Untouched, PassedIsClean, Ended, Unit
<1> QED BY <1>2, <1>6, <1>7, <1>8, SameTree DEF Inv

LEMMA StartPassInv == Inv /\ StartPass => Inv'
<1> SUFFICES ASSUME Inv, StartPass PROVE Inv'
  OBVIOUS
<1>1. Shape
  BY ProgramsHaveShape DEF Inv
<1>2. /\ phase # "recalculate" /\ phase' = "optimize" /\ at' = 1
      /\ UNCHANGED <<prog, opts, live, folded, refs, asgs, constant, rewrites>>
  BY DEF StartPass
<1>3. level' \in BOOLEAN
  BY Zenon DEF StartPass
<1>4. TypeOK'
  BY <1>2, <1>3 DEF Inv, TypeOK, Unit, Kind, Symbol
<1>5. CountsHold'
  <2>1. Covered /\ (rewrites = 0 => Exact)
    BY <1>2, CountsHoldMeans DEF Inv
  <2> QED BY <1>2, <2>1, SameCounts
<1>6. PassedIsClean'
  <2>1. live \subseteq Unit /\ live' = live
    BY <1>2 DEF Inv, TypeOK
  <2>2. \A u \in live' : ~ (u < at')
    BY <1>1, <1>2, <2>1 DEF Shape
  <2> QED BY <2>2 DEF PassedIsClean
<1>7. Untouched' /\ Ended'
  BY <1>2 DEF Untouched, Ended
<1> QED BY <1>2, <1>4, <1>5, <1>6, <1>7, SameTree DEF Inv

LEMMA EndOptimizeInv == Inv /\ EndOptimize => Inv'
<1> SUFFICES ASSUME Inv, EndOptimize PROVE Inv'
  OBVIOUS
<1>1. /\ phase = "optimize" /\ phase' = "done" /\ at > Len(prog) /\ ~ level
      /\ UNCHANGED <<prog, opts, live, folded, refs, asgs, constant, rewrites, at, level>>
  BY DEF EndOptimize
<1>2. TypeOK'
  BY <1>1 DEF Inv, TypeOK, Unit, Kind, Symbol
<1>3. CountsHold'
  <2>1. Covered /\ (rewrites = 0 => Exact)
    BY <1>1, CountsHoldMeans DEF Inv
  <2> QED BY <1>1, <2>1, SameCounts
<1>4. PassedIsClean'
  BY <1>1, SameCandidates DEF Inv, PassedIsClean
<1>5. Untouched' /\ Ended'
  BY <1>1 DEF Untouched, Ended
<1> QED BY <1>1, <1>2, <1>3, <1>4, <1>5, SameTree DEF Inv

\* The visitor takes something out, or puts a constant in its place.
LEMMA ChangeInv ==
  ASSUME Inv, Shape, phase = "optimize", at \in live, Prune(at) \/ Fold(at),
         at' = at + 1, UNCHANGED <<prog, opts, constant, rewrites, phase>>
  PROVE  Inv'
<1>1. /\ Leaves(at) /\ level' = TRUE
      /\ live' = live \ Subtree(at) \/ live' = live \ Inside(at)
  BY PruneSteps, FoldSteps
<1>2. at \in Unit
  BY DEF Inv, TypeOK
<1>3. /\ folded' \subseteq constant
      /\ \A u \in folded' : Kind(u) \in {"op", "get"}
  <2>1. CASE Prune(at)
    BY <2>1, PruneSteps DEF Inv, TypeOK
  <2>2. CASE Fold(at)
    <3>1. Foldable(at) /\ folded' = folded \cup {at}
      BY <2>2, FoldSteps
    <3>2. Kind(at) \in {"op", "get"} /\ at \in constant
      BY <1>1, <3>1, KindsThatLeave
    <3> QED BY <3>1, <3>2 DEF Inv, TypeOK
  <2> QED BY <2>1, <2>2
<1>4. TypeOK'
  <2>1. refs' \in [Symbol' -> Nat] /\ asgs' \in [Symbol' -> Nat]
    BY CountsAfter DEF Symbol, Unit, Kind
  <2>2. level' \in BOOLEAN
    BY <1>1, Zenon
  <2>3. live' \subseteq Unit' /\ constant' \subseteq Unit' /\ folded' \subseteq constant'
    BY <1>1, <1>3 DEF Inv, TypeOK, Unit
  <2>4. \A u \in folded' : Kind(u)' \in {"op", "get"}
    BY <1>3 DEF Kind
  <2>5. at' \in Nat \ {0}
    BY DEF Inv, TypeOK
  <2> QED BY <2>1, <2>2, <2>3, <2>4, <2>5 DEF Inv, TypeOK
<1>5. Covered /\ (rewrites = 0 => Exact)
  BY CountsHoldMeans DEF Inv
<1>6. CountsHold'
  <2>1. Covered' /\ (rewrites = 0 => Exact')
    BY <1>5, CountsAfter
  <2> QED BY <2>1 DEF CountsHold, CountsCover, CountsExact, Covered, Exact
<1>7. NothingDangles'
  BY <1>5, NothingDanglesAfter
<1>8. Downward'
  <2> SUFFICES ASSUME NEW u \in Unit, NEW v \in Inside(u), v \in live' PROVE u \in live'
    BY DEF Downward, Unit, Inside, Subtree
  <2>1. u \in live /\ v \in live
    BY <1>1 DEF Inv, Downward
  <2>2. u \in Inside(at) => v \in Inside(at)
    BY <1>2 DEF Shape, Inside
  <2>3. u = at => v \in Inside(at)
    OBVIOUS
  <2> QED BY <1>1, <2>1, <2>2, <2>3 DEF Inside
<1>9. ConstantsFixed'
  BY DEF Inv, ConstantsFixed, Unit, Inside, Subtree, Kind, Names, Writes, InGlobals
<1>10. Untouched' /\ PassedIsClean' /\ Ended'
  BY <1>1 DEF Untouched, PassedIsClean, Ended
<1> QED BY <1>4, <1>6, <1>7, <1>8, <1>9, <1>10 DEF Inv

\* The visitor passes a unit that stays as it is, or is no longer there.
LEMMA PassInv ==
  ASSUME Inv, Shape, phase = "optimize", at' = at + 1,
         UNCHANGED <<prog, opts, live, folded, refs, asgs, constant, rewrites, phase, level>>,
         at \in live => ~ UnusedGlobal(at) /\ ~ UnusedLocal(at) /\ ~ Foldable(at)
  PROVE  Inv'
<1>1. TypeOK'
  BY DEF Inv, TypeOK, Unit, Kind, Symbol
<1>2. CountsHold'
  <2>1. Covered /\ (rewrites = 0 => Exact)
    BY CountsHoldMeans DEF Inv
  <2> QED BY <2>1, SameCounts
<1>3. PassedIsClean'
  <2> SUFFICES ASSUME ~ level, NEW u \in live, u < at + 1
               PROVE  ~ UnusedGlobal(u) /\ ~ UnusedLocal(u) /\ ~ Foldable(u)
    BY SameCandidates DEF PassedIsClean
  <2>1. u < at \/ u = at
    BY DEF Inv, TypeOK, Shape
  <2> QED BY <2>1 DEF Inv, PassedIsClean
<1>4. Untouched' /\ Ended'
  BY DEF Untouched, Ended
<1> QED BY <1>1, <1>2, <1>3, <1>4, SameTree DEF Inv

LEMMA VisitInv == Inv /\ Visit => Inv'
<1> SUFFICES ASSUME Inv, Visit PROVE Inv'
  OBVIOUS
<1>1. Shape
  BY ProgramsHaveShape DEF Inv
<1>2. /\ phase = "optimize" /\ at' = at + 1
      /\ UNCHANGED <<prog, opts, constant, rewrites, phase>>
  BY DEF Visit
<1>3. CASE at \in live /\ (Prune(at) \/ Fold(at))
  BY <1>1, <1>2, <1>3, ChangeInv
<1>4. CASE at \in live /\ Keep(at)
  BY <1>1, <1>2, <1>4, PassInv DEF Keep
<1>5. CASE at \notin live
  BY <1>1, <1>2, <1>5, PassInv DEF Visit
<1> QED BY <1>3, <1>4, <1>5 DEF Visit

LEMMA StepInv == Inv /\ [Next]_vars => Inv'
<1> SUFFICES ASSUME Inv, [Next]_vars PROVE Inv'
  OBVIOUS
<1>1. CASE UNCHANGED vars
  <2>1. CASE phase = "recalculate"
    BY <1>1, <2>1, SameTree, SameCandidates
       DEF vars, Inv, TypeOK, Unit, Kind, Symbol, Untouched, PassedIsClean, Ended, CountsHold,
           CountsCover, CountsExact
  <2>2. CASE phase # "recalculate"
    <3>1. Covered /\ (rewrites = 0 => Exact)
      BY <2>2, CountsHoldMeans DEF Inv
    <3>2. CountsHold'
      BY <1>1, <3>1, SameCounts DEF vars
    <3> QED BY <1>1, <3>2, SameTree, SameCandidates
            DEF vars, Inv, TypeOK, Unit, Kind, Symbol, Untouched, PassedIsClean, Ended
  <2> QED BY <2>1, <2>2
<1>2. CASE \E u \in Unit : Rebuild(u)
  BY <1>2, RebuildInv
<1> QED BY <1>1, <1>2, RecalculateInv, PropagateInv, StartPassInv, VisitInv, EndOptimizeInv
        DEF Next

\* The inductive invariant holds of every program.
THEOREM InvariantHolds == Spec => []Inv
<1> QED BY InitInv, StepInv, PTL DEF Spec

-----------------------------------------------------------------------------
(* What it says of the optimizer. *)

\* The counters of references and assignments are never too low, and exact while
\* only the optimizer changes the tree.
THEOREM CountsAlwaysHold == Spec => []CountsHold
<1>1. Inv => CountsHold
  BY DEF Inv
<1> QED BY <1>1, InvariantHolds, PTL

\* Nothing the tree still names is ever pruned, nor lost in what is folded.
THEOREM NothingEverDangles == Spec => []NothingDangles
<1>1. Inv => NothingDangles
  BY DEF Inv
<1> QED BY <1>1, InvariantHolds, PTL

\* A read that becomes a constant is of a variable nothing assigns, or
\* initializes a global.
THEOREM FoldedReadsAreAlwaysFixed == Spec => []FoldedReadsAreFixed
<1>1. Inv => FoldedReadsAreFixed
  BY DEF Inv, TypeOK, ConstantsFixed, FoldedReadsAreFixed
<1> QED BY <1>1, InvariantHolds, PTL

\* No call and no assignment leaves the tree but with the function it is in.
THEOREM EffectsAlwaysStay == Spec => EffectsStay
<1>1. ASSUME Inv, [Next]_vars, NEW u \in live \ live', Kind(u) \in {"call", "set"}
      PROVE  \E f \in live \ live' : Kind(f) = "func" /\ u \in Inside(f)
  <2>1. Shape
    BY <1>1, ProgramsHaveShape DEF Inv
  <2>2. Visit /\ at \in live /\ (Prune(at) \/ Fold(at))
    BY <1>1 DEF Next, vars, Recalculate, Propagate, Rebuild, StartPass, EndOptimize, Visit, Keep
  <2>3. /\ Leaves(at)
        /\ Prune(at) => live' = live \ Subtree(at)
        /\ Fold(at) => Foldable(at) /\ live' = live \ Inside(at)
    BY <1>1, <2>1, <2>2, PruneSteps, FoldSteps
  <2>4. u \in Subtree(at) \cap live
    BY <1>1, <2>2, <2>3 DEF Inside
  <2>5. Kind(at) = "func"
    BY <1>1, <2>1, <2>2, <2>3, <2>4, EffectsLeaveWithFunctions
  <2>6. Prune(at)
    BY <2>2, <2>3, <2>5, KindsThatLeave
  <2>7. at \in live \ live'
    BY <1>1, <2>1, <2>2, <2>3, <2>6 DEF Shape, Inv, TypeOK
  <2>8. u \in Inside(at)
    BY <1>1, <2>4, <2>5 DEF Inside
  <2> QED BY <2>5, <2>7, <2>8
<1>2. Inv /\ [Next]_vars =>
        [\A u \in live \ live' : Kind(u) \in {"call", "set"} =>
           \E f \in live \ live' : Kind(f) = "func" /\ u \in Inside(f)]_vars
  BY <1>1
<1> QED BY <1>2, InvariantHolds, PTL DEF Spec, EffectsStay

\* When the optimizer ends by itself nothing it may prune or fold is left.
THEOREM NothingIsEverLeft == Spec => []NothingLeft
<1>1. ASSUME Inv, phase = "done", rewrites = 0, NEW u \in Present
      PROVE  /\ Kind(u) = "func" /\ "prune_unused_functions" \in opts => Uses(u) # {u}
             /\ Kind(u) = "gvar" /\ "prune_unused_globals" \in opts => Uses(u) # {u}
             /\ Kind(u) = "decl" /\ "prune_unused_locals" \in opts =>
                  Uses(u) # {u} \/ ~(Children(u) \cap live \subseteq constant)
             /\ ~ Foldable(u)
  <2>1. Shape /\ u \in live /\ u \in Unit
    BY <1>1, ProgramsHaveShape DEF Inv, TypeOK, Present
  <2>2. ~ UnusedGlobal(u) /\ ~ UnusedLocal(u) /\ ~ Foldable(u)
    BY <1>1, <2>1 DEF Inv, TypeOK, Ended, PassedIsClean, Shape
  <2>3. Exact
    BY <1>1, CountsHoldMeans DEF Inv
  <2>4. ASSUME Kind(u) \in Declaring, Uses(u) = {u} PROVE refs[u] = 1
    <3>1. u \in Symbol \cap live
      BY <2>1, <2>4 DEF Symbol
    <3> QED BY <2>3, <2>4, <3>1, FS_Singleton DEF Exact
  <2>5. ASSUME Kind(u) = "decl", Uses(u) = {u} PROVE asgs[u] = 0
    <3>1. u \in Symbol \cap live
      BY <2>1, <2>5 DEF Symbol, Declaring
    <3>2. \A w \in Writes(u, Present) : w \in Uses(u)
      BY <2>5 DEF Writes, Uses, Mentions, Recursive
    <3>3. Writes(u, Present) = {}
      BY <2>5, <3>2 DEF Writes
    <3> QED BY <2>3, <3>1, <3>3, FS_EmptySet DEF Exact
  <2> QED BY <2>2, <2>4, <2>5 DEF UnusedGlobal, UnusedLocal, Declaring
<1>2. Inv => NothingLeft
  BY <1>1 DEF NothingLeft
<1> QED BY <1>2, InvariantHolds, PTL
=============================================================================
