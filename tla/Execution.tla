------------------------------- MODULE Execution -------------------------------
(***************************************************************************)
(* What the passes after symbol resolution conclude about a body, against  *)
(* every run of it: the reads of local variables that TypeCheckVisitor     *)
(* lets later passes replace by the initial value (type_checking.cc), and  *)
(* whether AllPathsReturnVisitor finds that all paths return               *)
(* (final_pass.cc), for which the compilers leave out the return at the    *)
(* end.  Conditions go either way.                                         *)
(***************************************************************************)
EXTENDS JumpResolution

VARIABLES
  pass,         \* "resolution", "types", "returns" or "run"
  next,         \* the next node TypeCheckVisitor meets
  foldable,     \* the reads with _mIsFoldable
  cursor,       \* the position of AllPathsReturnVisitor
  allReturn,    \* mAllReturn
  trueReturn,   \* true_ret of each `if`
  pc,           \* the position of the program
  initialized   \* the declarations the program has executed

passVars == <<pass, next, foldable, cursor, allReturn, trueReturn, pc, initialized>>
execVars == <<jumpVars, passVars>>

Resolve ==
  /\ pass = "resolution" /\ Resolution
  /\ UNCHANGED passVars

\* A jump without a label is an error and ends the compilation, and so is a
\* second label of one name in a block.
StartTypes ==
  /\ pass = "resolution" /\ phase = "resolved"
  /\ \A j \in All("jump") : target[j] # 0
  /\ \A l \in All("label") : Defined(l)
  /\ pass' = "types"
  /\ UNCHANGED <<jumpVars, next, foldable, cursor, allReturn, trueReturn, pc, initialized>>

-----------------------------------------------------------------------------
(* TypeCheckVisitor. *)

\* Mutant: a label is no obstacle.
FoldableReadAnyLabel(n) == Reads(n) < n

\* The declaration stands before the read, and no label of the function
\* between the two.
FoldableRead(n) ==
  /\ Reads(n) < n
  /\ ~\E l \in All("label") : Reads(n) < l /\ l < n

CheckNode ==
  /\ pass = "types" /\ next \in Node
  /\ foldable' = IF Reads(next) # 0 /\ FoldableRead(next) THEN foldable \cup {next} ELSE foldable
  /\ next' = next + 1
  /\ UNCHANGED <<jumpVars, pass, cursor, allReturn, trueReturn, pc, initialized>>

EndTypes ==
  /\ pass = "types" /\ next \notin Node
  /\ pass' = "returns"
  /\ UNCHANGED <<jumpVars, next, foldable, cursor, allReturn, trueReturn, pc, initialized>>

-----------------------------------------------------------------------------
(* AllPathsReturnVisitor. *)

TwoWay(n) == Kind(n) = "if" /\ Cardinality(Children(n)) = 3
IsBranch(n, k) == n # 1 /\ TwoWay(Up(n)) /\ Place(n) = k

\* Mutant: a statement after a return changes nothing.
EnterStatementKeeping(n) ==
  /\ cursor = In(n)
  /\ cursor' = IF TwoWay(n) THEN In(Child(n, 2))
               ELSE IF Kind(n) = "block" THEN Descend(n) ELSE Out(n)
  /\ allReturn' = (allReturn \/ Kind(n) = "return")
  /\ UNCHANGED trueReturn

\* A statement on its own returns or not; only blocks and two-way branches
\* are looked into.
EnterStatement(n) ==
  /\ cursor = In(n)
  /\ cursor' = IF TwoWay(n) THEN In(Child(n, 2))
               ELSE IF Kind(n) = "block" THEN Descend(n) ELSE Out(n)
  /\ allReturn' = IF TwoWay(n) THEN allReturn ELSE Kind(n) = "return"
  /\ UNCHANGED trueReturn

LeaveTrueBranch(n) ==
  /\ cursor = Out(n) /\ IsBranch(n, 2)
  /\ trueReturn' = [trueReturn EXCEPT ![Up(n)] = allReturn]
  /\ cursor' = In(Child(Up(n), 3))
  /\ UNCHANGED allReturn

LeaveFalseBranch(n) ==
  /\ cursor = Out(n) /\ IsBranch(n, 3)
  /\ allReturn' = (trueReturn[Up(n)] /\ allReturn)
  /\ cursor' = Out(Up(n))
  /\ UNCHANGED trueReturn

LeaveStatement(n) ==
  /\ cursor = Out(n) /\ n # 1 /\ ~IsBranch(n, 2) /\ ~IsBranch(n, 3)
  /\ cursor' = Onward(n)
  /\ UNCHANGED <<allReturn, trueReturn>>

CheckReturns ==
  /\ pass = "returns" /\ cursor # End
  /\ \E n \in Node : \/ EnterStatement(n) \/ LeaveTrueBranch(n)
                     \/ LeaveFalseBranch(n) \/ LeaveStatement(n)
  /\ UNCHANGED <<jumpVars, pass, next, foldable, pc, initialized>>

EndReturns ==
  /\ pass = "returns" /\ cursor = End
  /\ pass' = "run"
  /\ UNCHANGED <<jumpVars, next, foldable, cursor, allReturn, trueReturn, pc, initialized>>

-----------------------------------------------------------------------------
(* The program. *)

Run ==
  /\ pass = "run"
  /\ pc' \in Flow(pc, target)
  /\ initialized' = initialized \cup {n \in All("decl") : pc = Out(n)}
  /\ UNCHANGED <<jumpVars, pass, next, foldable, cursor, allReturn, trueReturn>>

-----------------------------------------------------------------------------
ExecInit ==
  /\ JumpInit
  /\ pass = "resolution"
  /\ next = 1 /\ foldable = {}
  /\ cursor = Begin /\ allReturn = FALSE /\ trueReturn = [n \in All("if") |-> FALSE]
  /\ pc = Begin /\ initialized = {}

ExecNext ==
  \/ Resolve \/ StartTypes
  \/ CheckNode \/ EndTypes
  \/ CheckReturns \/ EndReturns
  \/ Run

ExecSpec == ExecInit /\ [][ExecNext]_execVars

-----------------------------------------------------------------------------
(* Correctness. *)

\* Whenever the program reaches a read that may be replaced by the initial
\* value of the variable, it has executed the declaration, however it jumped.
FoldedReadsSeeInitializer ==
  \A n \in foldable : pass = "run" /\ pc = In(n) => Reads(n) \in initialized

\* From a label behind the read a loop around both, and not around the
\* declaration, leads back to the read.
ComesBack(n) ==
  \E l \in All("label"), a \in Node :
    /\ Kind(a) \in Loops /\ a > Reads(n)
    /\ l > n /\ a \in Above[n] \cap Above[l]

\* The same of every read that TypeCheckVisitor has looked far enough for: no
\* loop around it holds a label behind it.
StraightReadsSeeInitializer ==
  \A n \in foldable :
    ~ComesBack(n) /\ pass = "run" /\ pc = In(n) => Reads(n) \in initialized

\* A function whose paths are all said to return never comes to its end.
ReturnsEverywhere == pass = "run" /\ allReturn => pc # End
=============================================================================
