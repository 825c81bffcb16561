---------------------------- MODULE JumpResolution ----------------------------
(***************************************************************************)
(* Labels and jumps in symbol_resolution.cc: SymbolResolutionVisitor walks *)
(* a body, remembers its labels, its jumps and the loop each was met in,   *)
(* and, once it has left the body, finds the label each jump goes to and   *)
(* whether the jump does what `break` or `continue` would.                 *)
(***************************************************************************)
EXTENDS Body

CONSTANT LindenJumps   \* the values of linden_jump_semantics to try; in the
                       \* compiler's own use of the visitor it is always true

VARIABLES
  linden,         \* _mLindenJumpSemantics
  phase,          \* what the visitor does next
  at,             \* the position of the visitor
  currentLoop,    \* _mCurrentLoop, 0 when it is null
  enclosing,      \* _mEnclosingLoops: a loop or 0 for each label and jump met
  labels,         \* _mCollectedLabels
  pending,        \* _mPendingJumps
  done,           \* how many pending jumps this phase has handled
  target,         \* the label each jump goes to; 0 when there is none
  breakLike,      \* the jumps with setIsBreakLike
  continueLike,   \* the jumps with setIsContinueLike
  unstructured    \* has_unstructured_jumps

jumpVars == <<body, linden, phase, at, currentLoop, enclosing, labels, pending,
              done, target, breakLike, continueLike, unstructured>>

-----------------------------------------------------------------------------
(* The walk. *)

VisitLabel(n) ==
  /\ Kind(n) = "label"
  /\ labels' = Append(labels, n)
  /\ enclosing' = [enclosing EXCEPT ![n] = currentLoop]
  /\ UNCHANGED <<currentLoop, pending>>

VisitJump(n) ==
  /\ Kind(n) = "jump"
  /\ pending' = Append(pending, n)
  /\ enclosing' = [enclosing EXCEPT ![n] = currentLoop]
  /\ UNCHANGED <<currentLoop, labels>>

\* visitLoop, before it visits the children.
EnterLoop(n) ==
  /\ Kind(n) \in Loops
  /\ currentLoop' = n
  /\ UNCHANGED <<enclosing, labels, pending>>

VisitOther(n) ==
  /\ Kind(n) \notin Loops \cup {"label", "jump"}
  /\ UNCHANGED <<currentLoop, enclosing, labels, pending>>

Enter(n) ==
  /\ phase = "walk" /\ at = In(n)
  /\ VisitLabel(n) \/ VisitJump(n) \/ EnterLoop(n) \/ VisitOther(n)
  /\ at' = Descend(n)
  /\ UNCHANGED <<body, linden, phase, done, target, breakLike, continueLike, unstructured>>

\* visitLoop, after it has visited the children.
AfterLoop(n) == IF Kind(n) \in Loops THEN 0 ELSE currentLoop

Leave(n) ==
  /\ phase = "walk" /\ at = Out(n) /\ n # 1
  /\ currentLoop' = AfterLoop(n)
  /\ at' = Onward(n)
  /\ UNCHANGED <<body, linden, phase, enclosing, labels, pending, done, target,
                 breakLike, continueLike, unstructured>>

LeaveBody ==
  /\ phase = "walk" /\ at = End
  /\ phase' = "resolve"
  /\ UNCHANGED <<body, linden, at, currentLoop, enclosing, labels, pending, done,
                 target, breakLike, continueLike, unstructured>>

-----------------------------------------------------------------------------
(* resolvePendingJumps. *)

\* A label is defined in the table of the innermost block around it, unless
\* that has one of its name already.
Scope(n) == Innermost({a \in Above[n] : Kind(a) = "block"})
Defined(l) == \A m \in All("label") : Name(m) = Name(l) /\ Scope(m) = Scope(l) => l <= m

\* lookupSymbol: the label of the innermost table around the jump that has one.
Lookup(j) ==
  LET visible == {l \in All("label") : Name(l) = Name(j) /\ Scope(l) \in Above[j] /\ Defined(l)}
  IN IF visible = {} THEN 0
     ELSE CHOOSE l \in visible : \A m \in visible : Scope(m) <= Scope(l)

\* The last label of the body with the name of l.
LastOfName(l) == Innermost({m \in All("label") : Name(m) = Name(l)})

Destination(j) == IF linden /\ Lookup(j) # 0 THEN LastOfName(Lookup(j)) ELSE Lookup(j)

ResolveJump ==
  /\ phase = "resolve" /\ done < Len(pending)
  /\ target' = [target EXCEPT ![pending[done + 1]] = Destination(pending[done + 1])]
  /\ done' = done + 1
  /\ UNCHANGED <<body, linden, phase, at, currentLoop, enclosing, labels, pending,
                 breakLike, continueLike, unstructured>>

\* has_duplicate_labels
Duplicates == \E m, n \in All("label") : m # n /\ Name(m) = Name(n)

\* Mutant: what is found is not passed on.
CheckDuplicatesForgets ==
  /\ phase = "resolve" /\ done = Len(pending)
  /\ phase' = IF linden /\ Duplicates THEN "resolved" ELSE "classify"
  /\ done' = 0
  /\ UNCHANGED <<body, linden, at, currentLoop, enclosing, labels, pending, target,
                 breakLike, continueLike, unstructured>>

CheckDuplicates ==
  /\ phase = "resolve" /\ done = Len(pending)
  /\ unstructured' = (linden /\ Duplicates)
  /\ phase' = IF linden /\ Duplicates THEN "resolved" ELSE "classify"
  /\ done' = 0
  /\ UNCHANGED <<body, linden, at, currentLoop, enclosing, labels, pending, target,
                 breakLike, continueLike>>

\* Mutant: other statements may stand between.
LabelsAfterAny(n) == {m \in All("label") : n # 1 /\ Up(m) = Up(n) /\ m > n}

\* The labels that stand in a row after a statement.
LabelsAfter(n) ==
  LET row[m \in Node] ==
        IF Kind(m) # "label" THEN {}
        ELSE {m} \cup (IF Follower(m) = 0 THEN {} ELSE row[Follower(m)])
  IN IF Follower(n) = 0 THEN {} ELSE row[Follower(n)]

\* The condition of a `do` stands bare, where an expression elsewhere after a
\* statement is a statement itself.
Bare(n) == Kind(Up(n)) = "do" /\ Place(n) = 2

\* Mutant: what l is in may be followed by anything.
LastInLoopInBlock(l, loop) ==
  \A c \in Children(Up(l)) : c > l => Kind(c) = "label" \/ Bare(c)

\* No statement but a label follows l, nor what it is in, up to its loop.
LastInLoop(l, loop) ==
  \A n \in {l} \cup {a \in Above[l] : a > loop} :
    \A c \in Children(Up(n)) : c > n => Kind(c) = "label" \/ Bare(c)

ClassifyJump ==
  /\ phase = "classify" /\ done < Len(pending)
  /\ LET j == pending[done + 1]
         l == target[j]
         loop == enclosing[j]
         break == loop # 0 /\ l \in LabelsAfter(loop)
         continue == loop # 0 /\ ~break /\ enclosing[l] = loop /\ LastInLoop(l, loop)
     IN IF l = 0
        THEN UNCHANGED <<breakLike, continueLike, unstructured>>
        ELSE /\ breakLike' = IF break THEN breakLike \cup {j} ELSE breakLike
             /\ continueLike' = IF continue THEN continueLike \cup {j} ELSE continueLike
             /\ unstructured' = (unstructured \/ ~(break \/ continue))
  /\ done' = done + 1
  /\ UNCHANGED <<body, linden, phase, at, currentLoop, enclosing, labels, pending, target>>

\* The function's symbol gets the flags.
EndResolution ==
  /\ phase = "classify" /\ done = Len(pending)
  /\ phase' = "resolved"
  /\ UNCHANGED <<body, linden, at, currentLoop, enclosing, labels, pending, done,
                 target, breakLike, continueLike, unstructured>>

-----------------------------------------------------------------------------
JumpInit ==
  /\ body \in Bodies
  /\ linden \in LindenJumps
  /\ phase = "walk"
  /\ at = Begin
  /\ currentLoop = 0
  /\ enclosing = [n \in All("label") \cup All("jump") |-> 0]
  /\ labels = <<>> /\ pending = <<>> /\ done = 0
  /\ target = [n \in All("jump") |-> 0]
  /\ breakLike = {} /\ continueLike = {} /\ unstructured = FALSE

Resolution ==
  \/ \E n \in Node : Enter(n) \/ Leave(n)
  \/ LeaveBody
  \/ ResolveJump \/ CheckDuplicates \/ ClassifyJump \/ EndResolution

JumpSpec == JumpInit /\ [][Resolution]_jumpVars

-----------------------------------------------------------------------------
(* Correctness. *)

\* A jump taken for a `break` goes where the program goes when it leaves the
\* innermost loop around the jump, whatever that loop is the statement of.
BreakLikeBreaks ==
  phase = "resolved" =>
    \A j \in breakLike : Arrives(In(target[j])) = Arrives(Out(InnermostLoop(j)))

\* A jump taken for a `continue` goes where that loop goes after its statement.
ContinueLikeContinues ==
  phase = "resolved" =>
    \A j \in continueLike : Arrives(In(target[j])) = Arrives(BackEdge(InnermostLoop(j)))

\* Both flags of a jump mean what the code generators may take them for.
JumpKindsHold == BreakLikeBreaks /\ ContinueLikeContinues

\* A function not said to have unstructured jumps can be written with break and
\* continue: each of its jumps is one of the two and not both.
StructuredIsClassified ==
  phase = "resolved" /\ ~unstructured =>
    \A j \in All("jump") :
      target[j] # 0 => (j \in breakLike) # (j \in continueLike)
=============================================================================
