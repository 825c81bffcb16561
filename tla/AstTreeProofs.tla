---------------------------- MODULE AstTreeProofs ----------------------------
(***************************************************************************)
(* The syntax tree stays a tree, for any set of nodes: what the runs of    *)
(* MCAstTree check on five nodes, proved by induction over the steps.      *)
(***************************************************************************)
EXTENDS AstTree, TLAPS

(***************************************************************************)
(* Types.                                                                  *)
(***************************************************************************)

\* A store of a pointer into a field of pointers leaves a field of pointers.
LEMMA StoreType ==
  ASSUME NEW f \in [Node -> Pointer], NEW p, NEW v \in Pointer
  PROVE  Store(f, p, v) \in [Node -> Pointer]
  BY DEF Store

\* setParent to a node or to null leaves a field of pointers.
LEMMA SetParentType ==
  ASSUME NEW par \in [Node -> Pointer], NEW nx, NEW pv, NEW n, NEW p \in Pointer
  PROVE  SetParent(par, nx, pv, n, p) \in [Node -> Pointer]
  BY DEF SetParent

\* What replaceNode writes is well typed.
LEMMA SubstituteType ==
  ASSUME TypeOK, NEW old \in Node, NEW repl \in Node, Substitute(old, repl)
  PROVE  /\ parent' \in [Node -> Pointer]
         /\ next' \in [Node -> Pointer] /\ prev' \in [Node -> Pointer]
         /\ head' \in [Node -> Pointer] /\ tail' \in [Node -> Pointer]
<1>1. Null \in Pointer /\ repl \in Pointer /\ next[old] \in Pointer
        /\ prev[old] \in Pointer /\ parent[old] \in Pointer
  BY DEF TypeOK, Pointer
<1>2. next' \in [Node -> Pointer]
  BY <1>1, StoreType DEF Substitute, ReplaceLinks, TypeOK
<1>3. prev' \in [Node -> Pointer]
  BY <1>1, StoreType DEF Substitute, ReplaceLinks, TypeOK
<1>4. head' \in [Node -> Pointer] /\ tail' \in [Node -> Pointer]
  BY <1>1 DEF Substitute, ReplaceEnds, TypeOK
<1>5. parent' \in [Node -> Pointer]
  BY <1>1, SetParentType DEF Substitute, ReplaceParents, TypeOK
<1> QED BY <1>2, <1>3, <1>4, <1>5

\* Every step keeps the types.
LEMMA NextType == TypeOK /\ [Next]_vars => TypeOK'
<1> SUFFICES ASSUME TypeOK, [Next]_vars PROVE TypeOK'
  OBVIOUS
<1>1. Null \in Pointer /\ \A n \in Node : n \in Pointer
  BY DEF Pointer
<1>2. CASE UNCHANGED vars
  BY <1>2 DEF vars, TypeOK
<1>3. ASSUME NEW a \in Node, NEW b \in Node, LinkNext(a, b) PROVE TypeOK'
  BY <1>1, <1>3, StoreType DEF LinkNext, TypeOK
<1>4. ASSUME NEW a \in Node, NEW b \in Node, LinkPrev(a, b) PROVE TypeOK'
  BY <1>1, <1>4, StoreType DEF LinkPrev, TypeOK
<1>5. ASSUME NEW n \in Node, NEW c \in Node, PushChild(n, c) PROVE TypeOK'
  <2>1. parent' \in [Node -> Pointer]
    BY <1>1, <1>5, SetParentType DEF PushChild, TypeOK
  <2>2. tail' \in [Node -> Pointer]
    BY <1>1, <1>5, StoreType DEF PushChild, TypeOK
  <2>3. /\ head' \in [Node -> Pointer]
        /\ next' \in [Node -> Pointer] /\ prev' \in [Node -> Pointer]
    BY <1>1, <1>5, StoreType DEF PushChild, AppendChild, TypeOK
  <2> QED BY <1>5, <2>1, <2>2, <2>3 DEF PushChild, TypeOK
<1>6. ASSUME NEW old \in Node, NEW repl \in Node, ReplaceNode(old, repl) PROVE TypeOK'
  BY <1>6, SubstituteType DEF ReplaceNode, Substitute, TypeOK
<1>7. ASSUME NEW old \in Node, NEW c \in Node, HoistChild(old, c) PROVE TypeOK'
  BY <1>7, SubstituteType DEF HoistChild, Substitute, TypeOK
<1>8. ASSUME NEW p \in Node, NEW c \in Node, RemoveChild(p, c) PROVE TypeOK'
  <2>1. prev[c] \in Pointer /\ next[c] \in Pointer
    BY DEF TypeOK
  <2>2. /\ head' \in [Node -> Pointer] /\ tail' \in [Node -> Pointer]
        /\ next' \in [Node -> Pointer] /\ prev' \in [Node -> Pointer]
    BY <1>1, <1>8, <2>1, StoreType DEF RemoveChild, TypeOK
  <2>3. parent' \in [Node -> Pointer]
    BY <1>1, <1>8, SetParentType DEF RemoveChild, TypeOK
  <2> QED BY <1>8, <2>2, <2>3 DEF RemoveChild, TypeOK
<1>9. CASE EndParsing
  BY <1>9 DEF EndParsing, TypeOK
<1> QED BY <1>2, <1>3, <1>4, <1>5, <1>6, <1>7, <1>8, <1>9 DEF Next

\* Every field of every node is a node or null, in every reachable state.
THEOREM TypeCorrect == Spec => []TypeOK
<1>1. Init => TypeOK
  BY DEF Init, TypeOK, Pointer
<1>2. QED BY <1>1, NextType, PTL DEF Spec

(***************************************************************************)
(* setParent.                                                              *)
(***************************************************************************)

\* The walk goes on until it meets the parent it is to set.
LEMMA WalkClosed ==
  ASSUME NEW link, NEW par, NEW n, NEW p,
         NEW m \in Walk(link, par, n, p) \cup {n},
         link[m] \in Node, par[link[m]] # p
  PROVE  link[m] \in Walk(link, par, n, p)
  BY DEF Walk

\* The walk meets nothing that following the link does not reach.
LEMMA WalkLeast ==
  ASSUME NEW link, NEW par, NEW n, NEW p, NEW S \in SUBSET Node,
         \A k \in S \cup {n} : link[k] \in Node /\ par[link[k]] # p => link[k] \in S
  PROVE  Walk(link, par, n, p) \subseteq S
  BY DEF Walk

\* When the node has no neighbour, or the neighbour already has the parent,
\* the walk meets nothing.
LEMMA WalkNowhere ==
  ASSUME NEW link, NEW par, NEW n, NEW p, link[n] \in Node => par[link[n]] = p
  PROVE  Walk(link, par, n, p) = {}
<1>1. ASSUME NEW m \in Walk(link, par, n, p) PROVE FALSE
  <2>1. {} \in SUBSET Node
    OBVIOUS
  <2>2. \A k \in {} \cup {n} : link[k] \in Node /\ par[link[k]] # p => link[k] \in {}
    OBVIOUS
  <2>3. m \in {}
    BY <1>1, <2>1, <2>2 DEF Walk
  <2> QED BY <2>3
<1> QED BY <1>1

\* In that case setParent writes to the node alone.
LEMMA SetParentOfOne ==
  ASSUME NEW par, NEW nx, NEW pv, NEW n, NEW p,
         nx[n] \in Node => par[nx[n]] = p,
         pv[n] \in Node => par[pv[n]] = p
  PROVE  SetParent(par, nx, pv, n, p) = Store(par, n, p)
<1>1. Walk(nx, par, n, p) = {} /\ Walk(pv, par, n, p) = {}
  BY WalkNowhere
<1> QED BY <1>1 DEF SetParent, Store

\* Given to a chain that has no parent, pushChild sets the parent of a set of
\* nodes without parents, closed under the sibling links in both directions
\* and apart from n and its ancestors.
LEMMA PushMoves ==
  ASSUME IInv, NEW n \in Node, NEW c \in Node, PushChild(n, c)
  PROVE  \E M \in SUBSET Node :
           /\ c \in M /\ M = Chain(c) /\ M \cap Ancestors(n) = {}
           /\ \A m \in M : parent[m] = Null /\ (m # c => prev[m] \in M)
           /\ \A m, k \in Node : next[m] = k => (m \in M <=> k \in M)
           /\ parent' = [m \in Node |-> IF m \in M THEN n ELSE parent[m]]
<1> DEFINE W == Walk(next, parent, c, n)
           M == {c} \cup W
           NoParent == {m \in Node : parent[m] = Null}
           V == Walk(next, parent, c, c)
<1>0. /\ parent \in [Node -> Pointer] /\ next \in [Node -> Pointer]
      /\ prev \in [Node -> Pointer] /\ Null \notin Node
      /\ parent[c] = Null /\ prev[c] = Null
      /\ Mirror /\ SameParent
  BY NullAssumption DEF IInv, TypeOK, NeighboursAgree, PushChild
<1>1. W \subseteq NoParent
  <2>1. \A k \in NoParent \cup {c} : next[k] \in Node => next[k] \in NoParent
    BY <1>0 DEF SameParent
  <2>2. NoParent \in SUBSET Node
    OBVIOUS
  <2> HIDE DEF NoParent
  <2> QED BY <2>1, <2>2, WalkLeast
<1>2. V \subseteq NoParent
  <2>1. \A k \in NoParent \cup {c} : next[k] \in Node => next[k] \in NoParent
    BY <1>0 DEF SameParent
  <2>2. NoParent \in SUBSET Node
    OBVIOUS
  <2> HIDE DEF NoParent
  <2> QED BY <2>1, <2>2, WalkLeast
<1>3. W \subseteq V
  <2>1. \A k \in V \cup {c} : next[k] \in Node => next[k] \in V
    <3> TAKE k \in V \cup {c}
    <3>1. CASE next[k] \in Node
      <4>1. parent[next[k]] # c
        BY <1>0, <1>2, <3>1 DEF SameParent
      <4> QED BY <4>1, <3>1, WalkClosed
    <3> QED BY <3>1
  <2>2. V \in SUBSET Node
    BY <1>2
  <2> HIDE DEF V
  <2> QED BY <2>1, <2>2, WalkLeast
<1>4. \A k \in M : next[k] \in Node => next[k] \in M
  <2> TAKE k \in M
  <2>1. CASE next[k] \in Node
    <3>1. parent[next[k]] # n
      BY <1>0, <1>1, <2>1 DEF SameParent
    <3> QED BY <3>1, <2>1, WalkClosed
  <2> QED BY <2>1
<1>5. \A k \in M : k # c => prev[k] \in M
  <2> DEFINE P == {k \in W : prev[k] \in M}
  <2>1. \A k \in P \cup {c} : next[k] \in Node /\ parent[next[k]] # n => next[k] \in P
    <3> TAKE k \in P \cup {c}
    <3>1. CASE next[k] \in Node /\ parent[next[k]] # n
      <4>1. next[k] \in W
        BY <3>1, WalkClosed
      <4>2. prev[next[k]] = k
        BY <1>0, <1>1, <3>1 DEF Mirror
      <4> QED BY <4>1, <4>2
    <3> QED BY <3>1
  <2>2. P \in SUBSET Node
    BY <1>1
  <2>3. W \subseteq P
    <3> HIDE DEF P
    <3> QED BY <2>1, <2>2, WalkLeast
  <2> QED BY <2>3
<1>6. Walk(prev, parent, c, n) = {}
  BY <1>0, WalkNowhere
<1>7. parent' = [m \in Node |-> IF m \in M THEN n ELSE parent[m]]
  BY <1>6 DEF PushChild, SetParent
<1>8. M = Chain(c)
  <2>1. \A k \in W \cup {c} : next[k] \in Node /\ parent[next[k]] # c => next[k] \in W
    BY <1>0, <1>1, <1>4 DEF Mirror
  <2>2. W \in SUBSET Node
    BY <1>1
  <2>3. V \subseteq W
    <3> HIDE DEF W
    <3> QED BY <2>1, <2>2, WalkLeast
  <2> QED BY <1>3, <2>3 DEF Chain
<1>9. \A m, k \in Node : next[m] = k => (m \in M <=> k \in M)
  BY <1>0, <1>4, <1>5 DEF Mirror
<1> QED
  <2>1. M \in SUBSET Node /\ c \in M
        /\ \A m \in M : parent[m] = Null /\ (m # c => prev[m] \in M)
    BY <1>0, <1>1, <1>5
  <2>2. M \cap Ancestors(n) = {}
    BY <1>8 DEF PushChild
  <2> HIDE DEF M
  <2> QED BY <2>1, <2>2, <1>7, <1>8, <1>9

(***************************************************************************)
(* The inductive invariant, one action at a time.                          *)
(***************************************************************************)

\* A step that writes no link keeps the invariant.
LEMMA UnlinkedKeeps ==
  ASSUME IInv, TypeOK', UNCHANGED <<parent, next, prev, head, tail, chained, discarded>>,
         parsing' => parsing
  PROVE  IInv'
  BY DEF IInv, NeighboursAgree, Mirror, SameParent, Acyclic, NoCycle, TailIsLast,
         FirstIsHead, DiscardedAlone, Single

\* The parser's links: the end of one chain is tied to the start of another,
\* one of the two being a new node.
LEMMA LinkKeeps ==
  ASSUME IInv, TypeOK', NEW a \in Node, NEW b \in Node,
         LinkNext(a, b) \/ LinkPrev(b, a)
  PROVE  IInv'
<1>0. /\ parent \in [Node -> Pointer] /\ next \in [Node -> Pointer]
      /\ prev \in [Node -> Pointer] /\ Null \notin Node
      /\ head \in [Node -> Pointer] /\ tail \in [Node -> Pointer]
      /\ Mirror /\ SameParent /\ Acyclic /\ TailIsLast /\ FirstIsHead /\ DiscardedAlone
  BY NullAssumption DEF IInv, TypeOK, NeighboursAgree
<1>1. /\ a # b /\ parent[a] = Null /\ parent[b] = Null
      /\ next[a] = Null /\ prev[b] = Null
      /\ prev[a] = Null \/ next[b] = Null
      /\ next' = [m \in Node |-> IF m = a THEN b ELSE next[m]]
      /\ prev' = [m \in Node |-> IF m = b THEN a ELSE prev[m]]
      /\ UNCHANGED <<parent, head, tail, parsing, chained, discarded>>
      /\ parsing
  BY DEF LinkNext, LinkPrev, Single, Store
<1>2. Mirror'
  BY <1>0, <1>1 DEF Mirror
<1>3. SameParent'
  BY <1>0, <1>1 DEF SameParent
<1>4. NoCycle(parent)'
  BY <1>0, <1>1 DEF Acyclic, NoCycle
<1>5. NoCycle(prev)'
  <2> SUFFICES ASSUME NEW S \in SUBSET Node, S # {}, \A m \in S : prev'[m] \in S
               PROVE  FALSE
    BY DEF NoCycle
  <2> DEFINE T == S \ {b}
  <2>1. T # {}
    BY <1>0, <1>1
  <2>2. b \in S => next[b] = Null
    BY <1>0, <1>1
  <2>3. ASSUME NEW m \in T PROVE prev[m] \in T
    <3>1. m \in Node /\ prev[m] \in S /\ prev'[m] = prev[m]
      BY <1>0, <1>1
    <3>2. prev[m] # b
      BY <1>0, <2>2, <3>1 DEF Mirror
    <3> QED BY <3>1, <3>2
  <2> QED BY <1>0, <2>1, <2>3 DEF Acyclic, NoCycle
<1>6. TailIsLast'
  BY <1>0, <1>1 DEF TailIsLast, Pointer
<1>7. FirstIsHead'
  BY <1>0, <1>1 DEF FirstIsHead, Pointer
<1>8. DiscardedAlone'
  BY <1>0, <1>1 DEF DiscardedAlone, Single
<1> QED BY <1>2, <1>3, <1>4, <1>5, <1>6, <1>7, <1>8 DEF IInv, NeighboursAgree, Acyclic

\* A node that is somebody's parent has a list.
LEMMA ParentHasList ==
  ASSUME IInv, NEW n \in Node, head[n] = Null
  PROVE  \A m \in Node : parent[m] # n
<1> DEFINE S == {m \in Node : parent[m] = n}
<1>0. Null \notin Node /\ FirstIsHead /\ Mirror /\ SameParent /\ prev \in [Node -> Pointer]
  BY NullAssumption DEF IInv, TypeOK, NeighboursAgree
<1>1. ASSUME NEW m \in S PROVE prev[m] \in S
  <2>1. prev[m] \in Node
    BY <1>0 DEF FirstIsHead, Pointer
  <2> QED BY <1>0, <2>1 DEF Mirror, SameParent
<1> QED BY <1>1 DEF IInv, Acyclic, NoCycle

\* No chain of parents runs in a circle when a set of nodes without parents,
\* apart from n and its ancestors, is given the parent n.
LEMMA AncestorsClosed ==
  ASSUME NEW n \in Node
  PROVE  /\ n \in Ancestors(n)
         /\ \A k \in Ancestors(n) : parent[k] \in Node => parent[k] \in Ancestors(n)
  BY DEF Ancestors

LEMMA AdoptedAcyclic ==
  ASSUME NoCycle(parent), NEW n \in Node, NEW M \in SUBSET Node,
         M \cap Ancestors(n) = {},
         parent' = [m \in Node |-> IF m \in M THEN n ELSE parent[m]]
  PROVE  NoCycle(parent)'
<1> SUFFICES ASSUME NEW S \in SUBSET Node, S # {}, \A m \in S : parent'[m] \in S
             PROVE  FALSE
  BY DEF NoCycle
<1>1. CASE S \cap M = {}
  <2>1. \A m \in S : parent[m] \in S
    BY <1>1
  <2> QED BY <2>1 DEF NoCycle
<1>2. CASE S \cap M # {}
  <2> DEFINE T == S \cap Ancestors(n)
  <2>1. T # {}
    BY <1>2, AncestorsClosed
  <2>2. \A m \in T : parent[m] \in T
    BY AncestorsClosed
  <2> QED BY <2>1, <2>2 DEF NoCycle
<1> QED BY <1>1, <1>2

\* pushChild, on the lists the passes push on.
LEMMA PushKeeps ==
  ASSUME IInv, TypeOK', ~ClientPushes, NEW n \in Node, NEW c \in Node, PushChild(n, c)
  PROVE  IInv'
<1>0. /\ parent \in [Node -> Pointer] /\ next \in [Node -> Pointer]
      /\ prev \in [Node -> Pointer] /\ Null \notin Node
      /\ head \in [Node -> Pointer] /\ tail \in [Node -> Pointer]
      /\ Mirror /\ SameParent /\ NoCycle(parent) /\ NoCycle(prev)
      /\ TailIsLast /\ FirstIsHead /\ DiscardedAlone /\ discarded \subseteq Node
  BY NullAssumption DEF IInv, TypeOK, NeighboursAgree, Acyclic
<1>1. PICK M \in SUBSET Node :
        /\ c \in M /\ M = Chain(c) /\ M \cap Ancestors(n) = {}
        /\ \A m \in M : parent[m] = Null /\ (m # c => prev[m] \in M)
        /\ \A m, k \in Node : next[m] = k => (m \in M <=> k \in M)
        /\ parent' = [m \in Node |-> IF m \in M THEN n ELSE parent[m]]
  BY PushMoves
<1>2. /\ n \notin discarded /\ n \notin chained /\ c \notin discarded
      /\ parent[c] = Null /\ prev[c] = Null
      /\ tail' = [m \in Node |-> IF m = n THEN c ELSE tail[m]]
      /\ chained' = IF next[c] = Null THEN chained ELSE chained \cup {n}
      /\ discarded' = discarded /\ parsing' = parsing
  BY DEF PushChild, Store
<1>3. NoCycle(parent)'
  BY <1>0, <1>1, AdoptedAcyclic
<1>4. M \cap discarded = {}
  BY <1>0, <1>1, <1>2 DEF DiscardedAlone, Single
<1>5. DiscardedAlone'
  <2>1. ASSUME NEW d \in discarded PROVE next'[d] = Null /\ prev'[d] = Null
    <3>1. d # c /\ next[d] = Null /\ prev[d] = Null /\ d \in Node
      BY <1>0, <1>2 DEF DiscardedAlone, Single
    <3>2. CASE head[n] = Null
      BY <3>1, <3>2 DEF PushChild, AppendChild
    <3>3. CASE head[n] # Null
      <4>1. tail[n] \in Node /\ parent[tail[n]] = n
        BY <1>0, <1>2, <3>3 DEF TailIsLast, Pointer
      <4>2. d # tail[n]
        BY <1>0, <4>1 DEF DiscardedAlone, Single
      <4> QED BY <3>1, <3>3, <4>2 DEF PushChild, AppendChild, Store
    <3> QED BY <3>2, <3>3
  <2> QED BY <1>0, <1>1, <1>2, <1>4, <2>1 DEF DiscardedAlone, Single
<1>6. CASE head[n] = Null
  <2>0. /\ head' = [m \in Node |-> IF m = n THEN c ELSE head[m]]
        /\ next' = next /\ prev' = prev
    BY <1>6 DEF PushChild, AppendChild, Store
  <2>1. Mirror' /\ NoCycle(prev)'
    BY <1>0, <2>0 DEF Mirror, NoCycle
  <2>2. SameParent'
    BY <1>0, <1>1, <2>0 DEF SameParent
  <2>3. \A m \in Node : parent[m] # n
    BY <1>6, ParentHasList
  <2>4. \A p \in Node \ discarded' :
          head'[p] # Null => parent'[head'[p]] = p /\ prev'[head'[p]] = Null
    BY <1>0, <1>1, <1>2, <2>0 DEF FirstIsHead, Pointer
  <2>5. \A m \in Node : parent'[m] # Null /\ prev'[m] = Null => head'[parent'[m]] = m
    BY <1>0, <1>1, <1>2, <2>0, <2>3 DEF FirstIsHead, Pointer
  <2>6. TailIsLast'
    <3> SUFFICES ASSUME NEW p \in Node \ (discarded' \cup chained')
                 PROVE  /\ head'[p] = Null <=> tail'[p] = Null
                        /\ tail'[p] # Null => parent'[tail'[p]] = p /\ next'[tail'[p]] = Null
      BY DEF TailIsLast
    <3>1. p \in Node \ (discarded \cup chained)
      BY <1>2
    <3>2. CASE p = n
      BY <1>0, <1>1, <1>2, <2>0, <3>2
    <3>3. CASE p # n
      BY <1>0, <1>1, <1>2, <2>0, <3>1, <3>3 DEF TailIsLast, Pointer
    <3> QED BY <3>2, <3>3
  <2> QED BY <1>3, <1>5, <2>1, <2>2, <2>4, <2>5, <2>6
          DEF IInv, NeighboursAgree, Acyclic, FirstIsHead
<1>7. CASE head[n] # Null
  <2> DEFINE t == tail[n]
  <2>0. /\ t \in Node /\ parent[t] = n /\ next[t] = Null /\ t \notin M
        /\ next' = [m \in Node |-> IF m = t THEN c ELSE next[m]]
        /\ prev' = [m \in Node |-> IF m = c THEN t ELSE prev[m]]
        /\ head' = head
    BY <1>0, <1>1, <1>2, <1>7
       DEF TailIsLast, Pointer, PushChild, AppendChild, Store
  <2> HIDE DEF t
  <2>1. Mirror'
    BY <1>0, <1>2, <2>0 DEF Mirror
  <2>2. SameParent'
    BY <1>0, <1>1, <2>0 DEF SameParent
  <2>3. NoCycle(prev)'
    <3> SUFFICES ASSUME NEW S \in SUBSET Node, S # {}, \A m \in S : prev'[m] \in S
                 PROVE  FALSE
      BY DEF NoCycle
    <3> DEFINE T == S \ M
    <3>1. T # {}
      <4>1. CASE S \cap M = {}
        BY <4>1
      <4>2. CASE c \in S
        BY <2>0, <4>2
      <4>3. CASE c \notin S
        BY <1>0, <1>1, <2>0, <4>3 DEF NoCycle
      <4> QED BY <4>1, <4>2, <4>3
    <3>2. ASSUME NEW m \in T PROVE prev[m] \in T
      <4>1. m \in Node /\ prev[m] \in S /\ prev'[m] = prev[m]
        BY <1>1, <2>0
      <4> QED BY <1>0, <1>1, <4>1 DEF Mirror
    <3> QED BY <1>0, <3>1, <3>2 DEF NoCycle
  <2>4. \A p \in Node \ discarded' :
          head'[p] # Null => parent'[head'[p]] = p /\ prev'[head'[p]] = Null
    BY <1>0, <1>1, <1>2, <2>0 DEF FirstIsHead, Pointer
  <2>5. \A m \in Node : parent'[m] # Null /\ prev'[m] = Null => head'[parent'[m]] = m
    BY <1>0, <1>1, <1>2, <2>0 DEF FirstIsHead, Pointer
  <2>6. TailIsLast'
    <3> SUFFICES ASSUME NEW p \in Node \ (discarded' \cup chained')
                 PROVE  /\ head'[p] = Null <=> tail'[p] = Null
                        /\ tail'[p] # Null => parent'[tail'[p]] = p /\ next'[tail'[p]] = Null
      BY DEF TailIsLast
    <3>1. p \in Node \ (discarded \cup chained)
      BY <1>2
    <3>2. CASE p = n
      BY <1>0, <1>1, <1>2, <1>7, <2>0, <3>2
    <3>3. CASE p # n
      BY <1>0, <1>1, <1>2, <2>0, <3>1, <3>3 DEF TailIsLast, Pointer
    <3> QED BY <3>2, <3>3
  <2> QED BY <1>3, <1>5, <2>1, <2>2, <2>3, <2>4, <2>5, <2>6
          DEF IInv, NeighboursAgree, Acyclic, FirstIsHead
<1> QED BY <1>6, <1>7

\* What replaceNode writes when the replacement has no siblings: four list
\* links at most, the ends of one list, and the parents of two nodes.
LEMMA SubstituteWrites ==
  ASSUME IInv, NEW old \in Node, NEW repl \in Node, Substitute(old, repl),
         next[repl] = Null, prev[repl] = Null
  PROVE  /\ next' = [m \in Node |-> IF m = old THEN Null
                                   ELSE IF m = repl THEN next[old]
                                   ELSE IF m = prev[old] THEN repl ELSE next[m]]
         /\ prev' = [m \in Node |-> IF m = old THEN Null
                                   ELSE IF m = repl THEN prev[old]
                                   ELSE IF m = next[old] THEN repl ELSE prev[m]]
         /\ parent' = [m \in Node |-> IF m = repl THEN parent[old]
                                     ELSE IF m = old THEN Null ELSE parent[m]]
         /\ old \notin {next[old], prev[old], parent[old]}
         /\ repl \notin {next[old], prev[old]}
<1>0. /\ parent \in [Node -> Pointer] /\ next \in [Node -> Pointer]
      /\ prev \in [Node -> Pointer] /\ Null \notin Node
      /\ Mirror /\ SameParent /\ NoCycle(parent) /\ NoCycle(prev)
  BY NullAssumption DEF IInv, TypeOK, NeighboursAgree, Acyclic
<1>1. prev[old] # old /\ parent[old] # old
  <2>1. {old} \in SUBSET Node /\ {old} # {}
    OBVIOUS
  <2> QED BY <1>0, <2>1 DEF NoCycle
<1>2. old # next[old] /\ repl \notin {next[old], prev[old]}
  BY <1>0, <1>1 DEF Mirror
<1>3. next' = [m \in Node |-> IF m = old THEN Null
                            ELSE IF m = repl THEN next[old]
                            ELSE IF m = prev[old] THEN repl ELSE next[m]]
  BY <1>0 DEF Substitute, ReplaceLinks, Store
<1>4. prev' = [m \in Node |-> IF m = old THEN Null
                            ELSE IF m = repl THEN prev[old]
                            ELSE IF m = next[old] THEN repl ELSE prev[m]]
  BY <1>0 DEF Substitute, ReplaceLinks, Store
<1> DEFINE par == Store(parent, old, Null)
<1>5. SetParent(parent, next', prev', old, Null) = par
  BY <1>0, <1>3, <1>4, SetParentOfOne
<1>6. /\ next'[repl] \in Node => par[next'[repl]] = parent[old]
      /\ prev'[repl] \in Node => par[prev'[repl]] = parent[old]
  BY <1>0, <1>1, <1>2, <1>3, <1>4 DEF Substitute, SameParent, Mirror, Store
<1>7. SetParent(par, next', prev', repl, parent[old]) = Store(par, repl, parent[old])
  BY <1>6, SetParentOfOne
<1>8. parent' = Store(par, repl, parent[old])
  BY <1>5, <1>7 DEF Substitute, ReplaceParents
<1> QED BY <1>1, <1>2, <1>3, <1>4, <1>8 DEF Store

\* replaceNode keeps the sibling lists whole, whether the replacement was
\* detached or was the only child of the node it replaces.
LEMMA SubstituteLists ==
  ASSUME IInv, NEW old \in Node, NEW repl \in Node, Substitute(old, repl),
         next[repl] = Null, prev[repl] = Null
  PROVE  Mirror' /\ SameParent' /\ NoCycle(prev)'
<1>0. /\ parent \in [Node -> Pointer] /\ next \in [Node -> Pointer]
      /\ prev \in [Node -> Pointer] /\ Null \notin Node /\ old # repl
      /\ Mirror /\ SameParent /\ NoCycle(prev)
  BY NullAssumption DEF IInv, TypeOK, NeighboursAgree, Acyclic, Substitute
<1>1. Mirror'
  BY <1>0, SubstituteWrites DEF Mirror
<1>2. SameParent'
  BY <1>0, SubstituteWrites DEF SameParent, Mirror
<1>3. NoCycle(prev)'
  <2> SUFFICES ASSUME NEW S \in SUBSET Node, S # {}, \A m \in S : prev'[m] \in S
               PROVE  FALSE
    BY DEF NoCycle
  <2>1. old \notin S
    BY <1>0, SubstituteWrites
  <2>2. CASE repl \notin S
    <3>1. \A m \in S : prev[m] \in S
      BY <1>0, <2>1, <2>2, SubstituteWrites
    <3> QED BY <1>0, <3>1 DEF NoCycle
  <2>3. CASE repl \in S
    <3> DEFINE T == (S \ {repl}) \cup {old}
    <3>1. prev[old] \in T
      BY <1>0, <2>1, <2>3, SubstituteWrites
    <3>2. ASSUME NEW m \in S \ {repl} PROVE prev[m] \in T
      <4>1. prev[m] # repl
        BY <1>0 DEF Mirror
      <4> QED BY <1>0, <2>1, <4>1, SubstituteWrites DEF Mirror
    <3>3. T \in SUBSET Node /\ T # {} /\ \A m \in T : prev[m] \in T
      BY <3>1, <3>2
    <3> QED BY <1>0, <3>3 DEF NoCycle
  <2> QED BY <2>2, <2>3
<1> QED BY <1>1, <1>2, <1>3

\* replaceNode with a detached replacement that does not contain the node.
LEMMA ReplaceKeeps ==
  ASSUME IInv, TypeOK', NEW old \in Node, NEW repl \in Node, ReplaceNode(old, repl)
  PROVE  IInv'
<1>0. /\ parent \in [Node -> Pointer] /\ next \in [Node -> Pointer]
      /\ prev \in [Node -> Pointer] /\ Null \notin Node
      /\ head \in [Node -> Pointer] /\ tail \in [Node -> Pointer]
      /\ Mirror /\ SameParent /\ NoCycle(parent)
      /\ TailIsLast /\ FirstIsHead /\ DiscardedAlone /\ discarded \subseteq Node
  BY NullAssumption DEF IInv, TypeOK, NeighboursAgree, Acyclic
<1>1. /\ Substitute(old, repl) /\ old # repl /\ ~parsing
      /\ parent[repl] = Null /\ next[repl] = Null /\ prev[repl] = Null
      /\ repl \notin Ancestors(old) /\ {old, repl} \cap discarded = {}
      /\ UNCHANGED <<parsing, chained, discarded>>
  BY DEF ReplaceNode, Substitute, Single
<1>2. /\ head' = [p \in Node |-> IF p = parent[old] /\ head[p] = old THEN repl ELSE head[p]]
      /\ tail' = [p \in Node |-> IF p = parent[old] /\ tail[p] = old THEN repl ELSE tail[p]]
  BY <1>1 DEF Substitute, ReplaceEnds
<1>3. Mirror' /\ SameParent' /\ NoCycle(prev)'
  BY <1>1, SubstituteLists
<1>4. NoCycle(parent)'
  <2> SUFFICES ASSUME NEW S \in SUBSET Node, S # {}, \A m \in S : parent'[m] \in S
               PROVE  FALSE
    BY DEF NoCycle
  <2>1. CASE repl \notin S
    <3>1. \A m \in S : parent[m] \in S
      BY <1>0, <1>1, <2>1, SubstituteWrites
    <3> QED BY <1>0, <3>1 DEF NoCycle
  <2>2. CASE repl \in S
    <3> DEFINE T == S \cap Ancestors(old)
    <3>1. parent[old] \in T
      BY <1>1, <2>2, SubstituteWrites, AncestorsClosed
    <3>2. \A m \in T : parent[m] \in T
      BY <1>0, <1>1, SubstituteWrites, AncestorsClosed
    <3> QED BY <1>0, <3>1, <3>2 DEF NoCycle
  <2> QED BY <2>1, <2>2
<1>5. FirstIsHead'
  <2>1. \A p \in Node \ discarded' :
          head'[p] # Null => parent'[head'[p]] = p /\ prev'[head'[p]] = Null
    BY <1>0, <1>1, <1>2, SubstituteWrites DEF FirstIsHead, Pointer, Mirror
  <2>2. \A m \in Node : parent'[m] # Null /\ prev'[m] = Null => head'[parent'[m]] = m
    BY <1>0, <1>1, <1>2, SubstituteWrites DEF FirstIsHead, Pointer, Mirror
  <2> QED BY <2>1, <2>2 DEF FirstIsHead
<1>6. TailIsLast'
  BY <1>0, <1>1, <1>2, SubstituteWrites DEF TailIsLast, Pointer, Mirror
<1>7. DiscardedAlone'
  BY <1>0, <1>1, SubstituteWrites DEF DiscardedAlone, Single, Mirror
<1> QED BY <1>3, <1>4, <1>5, <1>6, <1>7 DEF IInv, NeighboursAgree, Acyclic

\* The redundant typecast that is replaced by its own child.
LEMMA HoistKeeps ==
  ASSUME IInv, TypeOK', NEW old \in Node, NEW c \in Node, HoistChild(old, c)
  PROVE  IInv'
<1>0. /\ parent \in [Node -> Pointer] /\ next \in [Node -> Pointer]
      /\ prev \in [Node -> Pointer] /\ Null \notin Node
      /\ head \in [Node -> Pointer] /\ tail \in [Node -> Pointer]
      /\ Mirror /\ SameParent /\ NoCycle(parent)
      /\ TailIsLast /\ FirstIsHead /\ DiscardedAlone /\ discarded \subseteq Node
  BY NullAssumption DEF IInv, TypeOK, NeighboursAgree, Acyclic
<1>1. /\ Substitute(old, c) /\ old # c /\ ~parsing
      /\ parent[c] = old /\ next[c] = Null /\ prev[c] = Null
      /\ old \notin discarded /\ discarded' = discarded \cup {old}
      /\ UNCHANGED <<parsing, chained>>
  BY DEF HoistChild, Substitute
<1>2. /\ head' = [p \in Node |-> IF p = parent[old] /\ head[p] = old THEN c ELSE head[p]]
      /\ tail' = [p \in Node |-> IF p = parent[old] /\ tail[p] = old THEN c ELSE tail[p]]
  BY <1>1 DEF Substitute, ReplaceEnds
<1>3. Mirror' /\ SameParent' /\ NoCycle(prev)'
  BY <1>1, SubstituteLists
<1>4. NoCycle(parent)'
  <2> SUFFICES ASSUME NEW S \in SUBSET Node, S # {}, \A m \in S : parent'[m] \in S
               PROVE  FALSE
    BY DEF NoCycle
  <2>1. old \notin S
    BY <1>0, <1>1, SubstituteWrites
  <2> DEFINE T == S \cup {old}
  <2>2. CASE c \in S
    <3>1. \A m \in T : parent[m] \in T
      BY <1>0, <1>1, <2>1, <2>2, SubstituteWrites
    <3> QED BY <1>0, <3>1 DEF NoCycle
  <2>3. CASE c \notin S
    <3>1. \A m \in S : parent[m] \in S
      BY <1>0, <1>1, <2>1, <2>3, SubstituteWrites
    <3> QED BY <1>0, <3>1 DEF NoCycle
  <2> QED BY <2>2, <2>3
<1>5. \A m \in Node : parent[m] = old => m = c
  <2> DEFINE S == {m \in Node : parent[m] = old /\ m # c}
  <2>1. head[old] = c
    BY <1>0, <1>1 DEF FirstIsHead
  <2>2. \A m \in S : prev[m] \in S
    BY <1>0, <1>1, <2>1 DEF FirstIsHead, SameParent, Mirror, Pointer
  <2> QED BY <2>2 DEF IInv, Acyclic, NoCycle
<1>6. FirstIsHead'
  <2>1. \A p \in Node \ discarded' :
          head'[p] # Null => parent'[head'[p]] = p /\ prev'[head'[p]] = Null
    BY <1>0, <1>1, <1>2, SubstituteWrites DEF FirstIsHead, Pointer, Mirror
  <2>2. \A m \in Node : parent'[m] # Null /\ prev'[m] = Null => head'[parent'[m]] = m
    BY <1>0, <1>1, <1>2, SubstituteWrites DEF FirstIsHead, Pointer, Mirror
  <2> QED BY <2>1, <2>2 DEF FirstIsHead
<1>7. TailIsLast'
  BY <1>0, <1>1, <1>2, SubstituteWrites DEF TailIsLast, Pointer, Mirror
<1>8. DiscardedAlone'
  BY <1>0, <1>1, <1>5, SubstituteWrites DEF DiscardedAlone, Single, Mirror
<1> QED BY <1>3, <1>4, <1>6, <1>7, <1>8 DEF IInv, NeighboursAgree, Acyclic

\* removeChild.
LEMMA RemoveKeeps ==
  ASSUME IInv, TypeOK', NEW p \in Node, NEW c \in Node, RemoveChild(p, c)
  PROVE  IInv'
<1>0. /\ parent \in [Node -> Pointer] /\ next \in [Node -> Pointer]
      /\ prev \in [Node -> Pointer] /\ Null \notin Node
      /\ head \in [Node -> Pointer] /\ tail \in [Node -> Pointer]
      /\ Mirror /\ SameParent /\ NoCycle(parent) /\ NoCycle(prev)
      /\ TailIsLast /\ FirstIsHead /\ DiscardedAlone /\ discarded \subseteq Node
  BY NullAssumption DEF IInv, TypeOK, NeighboursAgree, Acyclic
<1>1. prev[c] # c /\ next[c] # c
  <2>1. {c} \in SUBSET Node /\ {c} # {}
    OBVIOUS
  <2>2. prev[c] # c
    BY <1>0, <2>1 DEF NoCycle
  <2> QED BY <1>0, <2>2 DEF Mirror
<1>2. /\ next' = [m \in Node |-> IF m = c THEN Null
                                ELSE IF m = prev[c] THEN next[c] ELSE next[m]]
      /\ prev' = [m \in Node |-> IF m = c THEN Null
                                ELSE IF m = next[c] THEN prev[c] ELSE prev[m]]
      /\ head' = [m \in Node |-> IF m = p /\ prev[c] = Null THEN next[c] ELSE head[m]]
      /\ tail' = [m \in Node |-> IF m = p /\ next[c] = Null THEN prev[c] ELSE tail[m]]
      /\ parent[c] = p /\ ~parsing /\ UNCHANGED <<parsing, chained, discarded>>
  BY <1>0 DEF RemoveChild, Store
<1>3. parent' = [m \in Node |-> IF m = c THEN Null ELSE parent[m]]
  <2>1. next'[c] = Null /\ prev'[c] = Null
    BY <1>2
  <2>2. SetParent(parent, next', prev', c, Null) = Store(parent, c, Null)
    BY <1>0, <2>1, SetParentOfOne
  <2> QED BY <2>2 DEF RemoveChild, Store
<1>4. Mirror' /\ SameParent'
  BY <1>0, <1>1, <1>2, <1>3 DEF Mirror, SameParent
<1>5. NoCycle(parent)'
  BY <1>0, <1>3 DEF NoCycle
<1>6. NoCycle(prev)'
  <2> SUFFICES ASSUME NEW S \in SUBSET Node, S # {}, \A m \in S : prev'[m] \in S
               PROVE  FALSE
    BY DEF NoCycle
  <2>1. c \notin S
    BY <1>0, <1>2
  <2> DEFINE T == S \cup {c}
  <2>2. CASE next[c] \in S
    <3>1. \A m \in T : prev[m] \in T
      BY <1>0, <1>1, <1>2, <2>1, <2>2 DEF Mirror
    <3>2. T \in SUBSET Node /\ T # {}
      OBVIOUS
    <3> HIDE DEF T
    <3> QED BY <1>0, <3>1, <3>2 DEF NoCycle
  <2>3. CASE next[c] \notin S
    <3>1. \A m \in S : prev[m] \in S
      BY <1>0, <1>2, <2>1, <2>3
    <3> QED BY <1>0, <3>1 DEF NoCycle
  <2> QED BY <2>2, <2>3
<1>7. FirstIsHead'
  <2>1. \A q \in Node \ discarded' :
          head'[q] # Null => parent'[head'[q]] = q /\ prev'[head'[q]] = Null
    BY <1>0, <1>1, <1>2, <1>3 DEF FirstIsHead, Pointer, Mirror, SameParent
  <2>2. \A m \in Node : parent'[m] # Null /\ prev'[m] = Null => head'[parent'[m]] = m
    BY <1>0, <1>1, <1>2, <1>3 DEF FirstIsHead, Pointer, Mirror, SameParent
  <2> QED BY <2>1, <2>2 DEF FirstIsHead
<1>8. TailIsLast'
  <2> SUFFICES ASSUME NEW q \in Node \ (discarded \cup chained)
               PROVE  /\ head'[q] = Null <=> tail'[q] = Null
                      /\ tail'[q] # Null => parent'[tail'[q]] = q /\ next'[tail'[q]] = Null
    BY <1>2 DEF TailIsLast
  <2>1. /\ head[q] = Null <=> tail[q] = Null
        /\ tail[q] # Null => tail[q] \in Node /\ parent[tail[q]] = q /\ next[tail[q]] = Null
    BY <1>0 DEF TailIsLast, Pointer
  <2>2. CASE q # p
    BY <1>0, <1>2, <1>3, <2>1, <2>2 DEF Mirror, SameParent
  <2>3. CASE q = p
    <3>1. head[p] # Null
      BY <1>2, ParentHasList
    <3>2. CASE next[c] = Null
      <4>1. tail'[p] = prev[c]
        BY <1>2, <3>2
      <4>2. prev[c] # Null => prev[c] \in Node /\ parent[prev[c]] = p
        BY <1>0, <1>2 DEF Mirror, SameParent, Pointer
      <4> QED BY <1>0, <1>1, <1>2, <1>3, <2>3, <3>1, <3>2, <4>1, <4>2
    <3>3. CASE next[c] # Null
      <4>1. tail'[p] = tail[p] /\ tail[p] # c /\ tail[p] # prev[c] /\ tail[p] # Null
        BY <1>0, <1>2, <2>1, <2>3, <3>1, <3>3 DEF Mirror
      <4> QED BY <1>0, <1>2, <1>3, <2>1, <2>3, <3>1, <3>3, <4>1
    <3> QED BY <3>2, <3>3
  <2> QED BY <2>2, <2>3
<1>9. DiscardedAlone'
  BY <1>0, <1>1, <1>2, <1>3 DEF DiscardedAlone, Single, Mirror
<1> QED BY <1>4, <1>5, <1>6, <1>7, <1>8, <1>9 DEF IInv, NeighboursAgree, Acyclic

(***************************************************************************)
(* The theorems.                                                           *)
(***************************************************************************)

LEMMA NextKeeps == ~ClientPushes /\ IInv /\ [Next]_vars => IInv'
<1> SUFFICES ASSUME ~ClientPushes, IInv, [Next]_vars PROVE IInv'
  OBVIOUS
<1>1. TypeOK'
  BY NextType DEF IInv
<1>2. CASE UNCHANGED vars
  BY <1>1, <1>2, UnlinkedKeeps DEF vars
<1>3. CASE EndParsing
  BY <1>1, <1>3, UnlinkedKeeps DEF EndParsing
<1>4. ASSUME NEW a \in Node, NEW b \in Node,
             \/ LinkNext(a, b)
             \/ LinkPrev(a, b)
             \/ PushChild(a, b)
             \/ ReplaceNode(a, b)
             \/ HoistChild(a, b)
             \/ RemoveChild(a, b)
      PROVE  IInv'
  BY <1>1, <1>4, LinkKeeps, PushKeeps, ReplaceKeeps, HoistKeeps, RemoveKeeps
<1> QED BY <1>2, <1>3, <1>4 DEF Next

\* The inductive invariant holds as long as pushChild is called the way the
\* parser and the passes call it.
THEOREM InvariantHolds ==
  ASSUME ~ClientPushes
  PROVE  Spec => []IInv
<1>1. Init => IInv
  BY NullAssumption DEF Init, IInv, TypeOK, Pointer, NeighboursAgree, Mirror, SameParent,
     Acyclic, NoCycle, TailIsLast, FirstIsHead, DiscardedAlone
<1>2. IInv /\ [Next]_vars => IInv'
  BY NextKeeps
<1> QED BY <1>1, <1>2, PTL DEF Spec

\* Following next from the first child meets every child: the set of children
\* it misses would be closed under prev.
LEMMA ListIsComplete == IInv => ListComplete
<1> SUFFICES ASSUME IInv, NEW p \in Node \ discarded
             PROVE  Listed(p) = {m \in Node : parent[m] = p}
  BY DEF ListComplete
<1>0. /\ parent \in [Node -> Pointer] /\ next \in [Node -> Pointer]
      /\ prev \in [Node -> Pointer] /\ head \in [Node -> Pointer] /\ Null \notin Node
      /\ Mirror /\ SameParent /\ NoCycle(prev) /\ FirstIsHead
  BY NullAssumption DEF IInv, TypeOK, NeighboursAgree, Acyclic
<1> DEFINE C == {m \in Node : parent[m] = p}
<1>1. Listed(p) \subseteq C
  <2>1. C \in SUBSET Node /\ (head[p] \in Node => head[p] \in C)
    BY <1>0 DEF FirstIsHead
  <2>2. \A k \in C : next[k] \in Node => next[k] \in C
    BY <1>0 DEF SameParent
  <2> HIDE DEF C
  <2> QED BY <2>1, <2>2 DEF Listed
<1>2. head[p] \in Node => head[p] \in Listed(p)
  BY DEF Listed
<1>3. \A k \in Listed(p) : next[k] \in Node => next[k] \in Listed(p)
  BY DEF Listed
<1>4. C \subseteq Listed(p)
  <2> DEFINE Missed == C \ Listed(p)
  <2>1. ASSUME NEW m \in Missed PROVE prev[m] \in Missed
    <3>1. prev[m] \in Node
      BY <1>0, <1>2 DEF FirstIsHead, Pointer
    <3>2. next[prev[m]] = m /\ parent[prev[m]] = p
      BY <1>0, <3>1 DEF Mirror, SameParent
    <3> QED BY <1>3, <3>1, <3>2
  <2> QED BY <1>0, <2>1 DEF NoCycle
<1> QED BY <1>1, <1>4

\* Siblings agree on their order and on their parent.
THEOREM NeighboursAlwaysAgree ==
  ASSUME ~ClientPushes
  PROVE  Spec => []NeighboursAgree
<1>1. IInv => NeighboursAgree
  BY DEF IInv
<1> QED BY <1>1, InvariantHolds, PTL

\* No node is its own ancestor or its own later sibling.
THEOREM AlwaysAcyclic ==
  ASSUME ~ClientPushes
  PROVE  Spec => []Acyclic
<1>1. IInv => Acyclic
  BY DEF IInv
<1> QED BY <1>1, InvariantHolds, PTL

\* Iterating over the children of a node meets exactly the nodes that name it
\* as their parent.
THEOREM ListsAlwaysComplete ==
  ASSUME ~ClientPushes
  PROVE  Spec => []ListComplete
<1> QED BY ListIsComplete, InvariantHolds, PTL

\* The tail pointer is right wherever pushChild may use it.
THEOREM TailAlwaysLast ==
  ASSUME ~ClientPushes
  PROVE  Spec => []TailIsLast
<1>1. IInv => TailIsLast
  BY DEF IInv
<1> QED BY <1>1, InvariantHolds, PTL

\* What following next from k meets.
After(k) ==
  {m \in Node : \A S \in SUBSET Node :
     (k \in S /\ \A j \in S : next[j] \in Node => next[j] \in S) => m \in S}

\* What is met from a node is met from the next one, apart from the node.
LEMMA AfterNext ==
  ASSUME next \in [Node -> Pointer], NEW k \in Node, NEW m \in After(k), m # k
  PROVE  next[k] \in Node /\ m \in After(next[k])
<1>1. next[k] \in Node
  <2>1. {k} \in SUBSET Node
    OBVIOUS
  <2> QED BY <2>1 DEF After
<1> DEFINE S == {k} \cup After(next[k])
<1>2. \A j \in S : next[j] \in Node => next[j] \in S
  BY DEF After
<1>3. S \in SUBSET Node /\ k \in S
  BY DEF After
<1>4. m \in S
  <2> HIDE DEF S
  <2> QED BY <1>2, <1>3 DEF After
<1> QED BY <1>1, <1>4

\* A list has one last child: from every child the iteration meets the ones
\* that nothing follows.
LEMMA OneLast ==
  ASSUME next \in [Node -> Pointer], Null \notin Node, NEW p \in Node,
         head[p] \in Node,
         NEW m \in Listed(p), NEW t \in Listed(p), next[m] = Null, next[t] = Null
  PROVE  m = t
<1> DEFINE Q == {k \in Node : m \in After(k)}
<1>1. head[p] \in Q
  BY DEF Listed, After
<1>2. ASSUME NEW k \in Q, next[k] \in Node PROVE next[k] \in Q
  BY <1>2, AfterNext
<1>3. Q \in SUBSET Node
  OBVIOUS
<1>4. t \in Q
  <2> HIDE DEF Q
  <2> QED BY <1>1, <1>2, <1>3 DEF Listed
<1> QED BY <1>4, AfterNext

\* A child, or a chain of them, pushed on a node joins the list at its end, and
\* no child that was on the list is lost.
THEOREM PushAlwaysAddsToEnd ==
  ASSUME ~ClientPushes
  PROVE  Spec => PushAddsToEnd
<1> DEFINE Adds(p, c) == PushChild(p, c) =>
             /\ Listed(p)' = Listed(p) \cup Chain(c)
             /\ \A m \in Listed(p) : next[m] = Null => next'[m] = c
<1>0. IInv' => ListComplete'
  BY ListIsComplete, PTL
<1>1. ASSUME IInv, IInv', NEW p \in Node, NEW c \in Node, PushChild(p, c), ~ClientPushes
      PROVE  Adds(p, c)
  <2>0. /\ parent \in [Node -> Pointer] /\ Null \notin Node /\ p \notin discarded
        /\ discarded' = discarded /\ next \in [Node -> Pointer]
        /\ tail \in [Node -> Pointer] /\ prev \in [Node -> Pointer]
        /\ head \in [Node -> Pointer] /\ p \notin chained
        /\ Mirror /\ SameParent /\ NoCycle(prev) /\ TailIsLast /\ FirstIsHead
    BY <1>1, NullAssumption
       DEF IInv, TypeOK, NeighboursAgree, Acyclic, PushChild
  <2>1. Listed(p) = {m \in Node : parent[m] = p}
    BY <1>1, <2>0, ListIsComplete DEF ListComplete
  <2>2. ListComplete'
    BY <1>0, <1>1
  <2>3. Listed(p)' = {m \in Node : parent'[m] = p}
    BY <2>0, <2>2 DEF ListComplete
  <2>4. PICK M \in SUBSET Node :
          /\ M = Chain(c) /\ parent' = [m \in Node |-> IF m \in M THEN p ELSE parent[m]]
    BY <1>1, PushMoves
  <2>5. Listed(p)' = Listed(p) \cup Chain(c)
    BY <2>0, <2>1, <2>3, <2>4
  <2>6. ASSUME NEW m \in Listed(p), next[m] = Null PROVE next'[m] = c
    <3> DEFINE t == tail[p]
    <3>1. m \in Node /\ parent[m] = p
      BY <2>1
    <3>2. head[p] # Null
      BY <1>1, <3>1, ParentHasList
    <3>3. t \in Node /\ parent[t] = p /\ next[t] = Null
      BY <2>0, <3>2 DEF TailIsLast, Pointer
    <3>4. m = t
      BY <2>0, <2>1, <2>6, <3>1, <3>2, <3>3, OneLast DEF Pointer
    <3> QED BY <1>1, <3>2, <3>3, <3>4 DEF PushChild, AppendChild, Store
  <2> QED BY <2>5, <2>6
<1>2. ASSUME IInv, IInv', [Next]_vars
      PROVE  [\A p, c \in Node : Adds(p, c)]_vars
  BY <1>1, <1>2
<1> QED BY <1>2, NextKeeps, InvariantHolds, PTL DEF Spec, PushAddsToEnd
=============================================================================
