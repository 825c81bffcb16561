------------------------------- MODULE AstTree -------------------------------
(***************************************************************************)
(* The syntax tree of libtailslide/ast.cc and ast.hh.                      *)
(*                                                                         *)
(* An LSLASTNode keeps its children in an intrusive doubly linked list:    *)
(* _mChildren and _mChildrenTail point at the two ends, and every child    *)
(* carries _mParent, _mNext and _mPrev.  The parser first strings siblings *)
(* together while they have no parent, then hands the first of them to the *)
(* constructor of the list node; the passes rewrite the finished tree.     *)
(* Every action below is one method, with the calls it makes.              *)
(***************************************************************************)
CONSTANTS
  Node,         \* the nodes that can ever be allocated (newTracked)
  Null,         \* the null pointer
  ClientPushes  \* TRUE: pushChild is also called on lists the parser built,
                \* as a client of the library may; the passes never do

ASSUME NullAssumption == Null \notin Node
ASSUME ClientAssumption == ClientPushes \in BOOLEAN

VARIABLES
  parent, next, prev,  \* LSLASTNode::_mParent, _mNext, _mPrev
  head, tail,          \* LSLASTNode::_mChildren, _mChildrenTail
  parsing,             \* ScriptContext::parsing
  chained,             \* history: nodes whose list began as a chain
  discarded            \* history: nodes whose only child took their place

vars == <<parent, next, prev, head, tail, parsing, chained, discarded>>

Pointer == Node \cup {Null}

-----------------------------------------------------------------------------
(* Helpers. *)

\* The store `p->field = v`.  Every store of ast.cc through a pointer that may
\* be null is guarded by a null test, so a store through Null writes nothing.
Store(f, p, v) == [m \in Node |-> IF m = p THEN v ELSE f[m]]

\* The siblings one loop of setParent updates: it follows `link` from n until
\* the list ends or a sibling already has the parent p.
Walk(link, par, n, p) ==
  {m \in Node : \A S \in SUBSET Node :
     (\A k \in S \cup {n} :
        link[k] \in Node /\ par[link[k]] # p => link[k] \in S) => m \in S}

\* Mutant: setParent does not walk the siblings.
SetParentAlone(par, nx, pv, n, p) == Store(par, n, p)

\* LSLASTNode::setParent: the node, then the siblings after and before it.
SetParent(par, nx, pv, n, p) ==
  LET moved == {n} \cup Walk(nx, par, n, p) \cup Walk(pv, par, n, p)
  IN [m \in Node |-> IF m \in moved THEN p ELSE par[m]]

\* Mutant: only pushChild's `assert (child != this)` guards the callers.
AncestorsSelfOnly(n) == {n}

\* n and the nodes above it (getParent until it returns null).
Ancestors(n) ==
  {m \in Node : \A S \in SUBSET Node :
     (n \in S /\ \A k \in S : parent[k] \in Node => parent[k] \in S) => m \in S}

\* The chain that starts at c while it has no parent.
Chain(c) == {c} \cup Walk(next, parent, c, c)

\* A node with no parent and no siblings, as `new` and takeChild return it.
Single(n) == parent[n] = Null /\ next[n] = Null /\ prev[n] = Null

-----------------------------------------------------------------------------
(* The parser: siblings are chained before they have a parent. *)

\* `$1->setNext($2)` of the right-recursive lists: a is new, b starts a chain.
LinkNext(a, b) ==
  /\ parsing
  /\ Single(a)
  /\ a # b /\ parent[b] = Null /\ prev[b] = Null
  /\ next' = Store(next, a, b)
  /\ prev' = Store(prev, b, a)
  /\ UNCHANGED <<parent, head, tail, parsing, chained, discarded>>

\* `$2->setPrev($1)` of the left-recursive statement list: b is new, a ends a
\* chain.
LinkPrev(b, a) ==
  /\ parsing
  /\ Single(b)
  /\ a # b /\ parent[a] = Null /\ next[a] = Null
  /\ prev' = Store(prev, b, a)
  /\ next' = Store(next, a, b)
  /\ UNCHANGED <<parent, head, tail, parsing, chained, discarded>>

\* parseInternal clears the flag when the parser returns.
EndParsing ==
  /\ parsing
  /\ parsing' = FALSE
  /\ UNCHANGED <<parent, next, prev, head, tail, chained, discarded>>

-----------------------------------------------------------------------------
(* Building: pushChild, called by the constructors and by list copies. *)

\* Mutants: the child is linked behind the first child, or put in front.
AppendAfterHead(n, c) ==
  IF head[n] = Null
  THEN head' = Store(head, n, c) /\ UNCHANGED <<next, prev>>
  ELSE /\ next' = Store(next, head[n], c) /\ prev' = Store(prev, c, head[n])
       /\ UNCHANGED head

AppendInFront(n, c) ==
  /\ head' = Store(head, n, c)
  /\ next' = Store(next, c, head[n]) /\ prev' = Store(prev, head[n], c)

\* The links pushChild writes: c becomes the list, or follows the tail.
AppendChild(n, c) ==
  IF head[n] = Null
  THEN /\ head' = Store(head, n, c)
       /\ UNCHANGED <<next, prev>>
  ELSE /\ next' = Store(next, tail[n], c)
       /\ prev' = Store(prev, c, tail[n])
       /\ UNCHANGED head

\* c starts a chain with no parent.  Nodes are built bottom up, so n is not
\* inside what it receives.
PushChild(n, c) ==
  /\ n \notin discarded /\ (n \notin chained \/ ClientPushes)
  /\ c \notin discarded
  /\ parent[c] = Null /\ prev[c] = Null
  /\ Ancestors(n) \cap Chain(c) = {}
  /\ parent' = SetParent(parent, next, prev, c, n)
  /\ AppendChild(n, c)
  /\ tail' = Store(tail, n, c)
  /\ chained' = IF next[c] = Null THEN chained ELSE chained \cup {n}
  /\ UNCHANGED <<parsing, discarded>>

-----------------------------------------------------------------------------
(* Rewriting: replaceNode and removeChild, called by the passes. *)

\* What replaceNode does to the lists: repl takes old's place and old is cut
\* off.  setPrev and setNext also write the neighbours' links back.
ReplaceLinks(old, repl) ==
  /\ next' = Store(Store(Store(next, prev[old], repl), repl, next[old]), old, Null)
  /\ prev' = Store(Store(Store(prev, next[old], repl), repl, prev[old]), old, Null)

\* Mutants: replaceNode forgets one of the two ends of the parent's list.
ReplaceEndsNoHead(old, repl) ==
  /\ UNCHANGED head
  /\ tail' = [p \in Node |-> IF p = parent[old] /\ tail[p] = old THEN repl ELSE tail[p]]

ReplaceEndsNoTail(old, repl) ==
  /\ head' = [p \in Node |-> IF p = parent[old] /\ head[p] = old THEN repl ELSE head[p]]
  /\ UNCHANGED tail

\* What replaceNode does to the parent of old, when it has one.
ReplaceEnds(old, repl) ==
  /\ head' = [p \in Node |-> IF p = parent[old] /\ head[p] = old THEN repl ELSE head[p]]
  /\ tail' = [p \in Node |-> IF p = parent[old] /\ tail[p] = old THEN repl ELSE tail[p]]

\* The two setParent calls that end replaceNode, after the links are written.
ReplaceParents(old, repl) ==
  parent' = SetParent(SetParent(parent, next', prev', old, Null),
                      next', prev', repl, parent[old])

Substitute(old, repl) ==
  /\ ~parsing
  /\ old # repl /\ old \notin discarded
  /\ ReplaceLinks(old, repl)
  /\ ReplaceEnds(old, repl)
  /\ ReplaceParents(old, repl)
  /\ UNCHANGED <<parsing, chained>>

\* replaceNode with a detached replacement; setChild and takeChild replace
\* with a new null node.  The passes hold no replacement that contains old.
ReplaceNode(old, repl) ==
  /\ Single(repl) /\ repl \notin discarded /\ repl \notin Ancestors(old)
  /\ Substitute(old, repl)
  /\ UNCHANGED discarded

\* The redundant typecast: replaceNode(cast_expr, child) with the only child
\* of cast_expr, which keeps its stale _mChildren and is never used again.
HoistChild(old, c) ==
  /\ parent[c] = old /\ parent[old] # Null
  /\ next[c] = Null /\ prev[c] = Null
  /\ Substitute(old, c)
  /\ discarded' = discarded \cup {old}

\* removeChild: c's neighbours are joined, or p's ends moved, and c is cut
\* off before its own setParent so that its siblings keep theirs.
RemoveChild(p, c) ==
  /\ ~parsing
  /\ parent[c] = p
  /\ next' = Store(Store(next, prev[c], next[c]), c, Null)
  /\ prev' = Store(Store(prev, next[c], prev[c]), c, Null)
  /\ head' = IF prev[c] = Null THEN Store(head, p, next[c]) ELSE head
  /\ tail' = IF next[c] = Null THEN Store(tail, p, prev[c]) ELSE tail
  /\ parent' = SetParent(parent, next', prev', c, Null)
  /\ UNCHANGED <<parsing, chained, discarded>>

-----------------------------------------------------------------------------
\* Mutant: _mChildrenTail has no initialiser.
InitTailUnset ==
  /\ parent = [n \in Node |-> Null]
  /\ next = [n \in Node |-> Null]
  /\ prev = [n \in Node |-> Null]
  /\ head = [n \in Node |-> Null]
  /\ tail = [n \in Node |-> "unset"]
  /\ parsing = TRUE
  /\ chained = {}
  /\ discarded = {}

Init ==
  /\ parent = [n \in Node |-> Null]
  /\ next = [n \in Node |-> Null]
  /\ prev = [n \in Node |-> Null]
  /\ head = [n \in Node |-> Null]
  /\ tail = [n \in Node |-> Null]
  /\ parsing = TRUE
  /\ chained = {}
  /\ discarded = {}

Next ==
  \/ \E a, b \in Node : \/ LinkNext(a, b)
                        \/ LinkPrev(a, b)
                        \/ PushChild(a, b)
                        \/ ReplaceNode(a, b)
                        \/ HoistChild(a, b)
                        \/ RemoveChild(a, b)
  \/ EndParsing

Spec == Init /\ [][Next]_vars

-----------------------------------------------------------------------------
(* Correctness. *)

TypeOK ==
  /\ parent \in [Node -> Pointer]
  /\ next \in [Node -> Pointer] /\ prev \in [Node -> Pointer]
  /\ head \in [Node -> Pointer] /\ tail \in [Node -> Pointer]
  /\ parsing \in BOOLEAN
  /\ chained \subseteq Node /\ discarded \subseteq Node

\* The two directions of every sibling list agree, and siblings have one
\* parent, whatever order setNext, setPrev and setParent ran in.
Mirror == \A m, k \in Node : next[m] = k <=> prev[k] = m
SameParent == \A m, k \in Node : next[m] = k => parent[m] = parent[k]
NeighboursAgree == Mirror /\ SameParent

\* Following the pointers of `link` from any node ends at null: no set of
\* nodes is closed under it.
NoCycle(link) == \A S \in SUBSET Node : S # {} => \E m \in S : link[m] \notin S

\* getRoot, the child iterator and the loops of setParent end, and no node is
\* an ancestor of itself.
Acyclic == NoCycle(parent) /\ NoCycle(prev)

\* What iterating over the children of p meets (node_child_iterator).
Listed(p) ==
  {m \in Node : \A S \in SUBSET Node :
     ((head[p] \in Node => head[p] \in S)
       /\ \A k \in S : next[k] \in Node => next[k] \in S) => m \in S}

\* A pass that iterates over a node's children meets exactly the nodes that
\* name it as their parent: none is lost and none is visited under two nodes.
ListComplete ==
  \A p \in Node \ discarded : Listed(p) = {m \in Node : parent[m] = p}

\* _mChildrenTail is the last child (null when there is none), unless the list
\* began as a chain from the parser.
TailIsLast ==
  \A p \in Node \ (discarded \cup chained) :
    /\ head[p] = Null <=> tail[p] = Null
    /\ tail[p] # Null => parent[tail[p]] = p /\ next[tail[p]] = Null

\* What the properties above rest on: the list of a node starts with the one
\* child that has no sibling before it, and a node whose child was hoisted
\* is in no list.
FirstIsHead ==
  /\ \A p \in Node \ discarded :
       head[p] # Null => parent[head[p]] = p /\ prev[head[p]] = Null
  /\ \A m \in Node : parent[m] # Null /\ prev[m] = Null => head[parent[m]] = m

DiscardedAlone ==
  /\ parsing => discarded = {}
  /\ \A d \in discarded : Single(d) /\ \A m \in Node : parent[m] # d

IInv == /\ TypeOK
        /\ NeighboursAgree
        /\ Acyclic
        /\ TailIsLast
        /\ FirstIsHead
        /\ DiscardedAlone

\* The comment on pushChild, "Add child to end of list" (ast.hh:188): what
\* the list held stays on it, and its last child is followed by the new one.
PushAddsToEnd ==
  [][\A p, c \in Node : PushChild(p, c) =>
       /\ Listed(p)' = Listed(p) \cup Chain(c)
       /\ \A m \in Listed(p) : next[m] = Null => next'[m] = c]_vars
=============================================================================
