-------------------------------- MODULE LsoCode --------------------------------
(***************************************************************************)
(* The code LSOBytecodeCompiler emits for the statements of a body         *)
(* (lso/bytecode_compiler.cc), after the passes of module Execution, and   *)
(* the machine that runs it.                                               *)
(*                                                                         *)
(* Code is a sequence of cells and a position counts the cells before it.  *)
(* An expression and a variable's store are one cell each; a jump is its   *)
(* opcode, the type of its condition included, and an operand, relative to *)
(* the end of the operand.  An expression without a value is one of the    *)
(* name "void".                                                            *)
(***************************************************************************)
EXTENDS Execution, Integers

\* What the grammar and the type checker see to: a jump and a change of state
\* have no parts, a local variable has one initializer (the default one when
\* none is written), and that and conditions have a value.
Emittable(b) ==
  LET condition == [if |-> 1, while |-> 1, do |-> 2, for |-> 2] IN
  /\ b[1].kind = "block"
  /\ \A n \in 1 .. Len(b) :
       /\ b[n].kind \in Kinds
       /\ b[n].kind \in {"jump", "state"} => Kids(b, n) = {}
       /\ b[n].kind \in {"jump", "label"} => b[n].name \in Names
       /\ b[n].kind = "decl" => \E c \in 1 .. Len(b) : Kids(b, n) = {c}
  /\ \A n \in 2 .. Len(b) :
       LET p == b[b[n].up].kind IN
       /\ p = "decl" => b[n].kind = "expr" /\ b[n].name # "void"
       /\ p \in Loops \cup {"if"} /\ PlaceAt(b, n) = condition[p] => b[n].name # "void"

ASSUME EmittableAssumption == \A b \in Bodies : Emittable(b)

VARIABLES
  stage,      \* "passes", "emit", "machine"
  emitAt,     \* the position of the visitor
  code,       \* mCodeBS
  top,        \* check_pos or start_pos of each loop
  hole,       \* _mSourcePos of the patcher each `if` and each loop has
  pastElse,   \* _mSourcePos of jump_past_false_patcher of each `if`
  jumpMap,    \* _mJumpMap: the operand of the last jump to each label, or 0
  labelMap,   \* _mLabelMap: the position of each label, or 0
  ip,         \* the machine's instruction pointer
  depth,      \* how much it has on the stack above its locals
  last,       \* the node whose cell it executed last, 0 at first
  value       \* what that node's value is as a condition

emitVars == <<emitAt, code, top, hole, pastElse, jumpMap, labelMap>>
machineVars == <<ip, depth, last, value>>
lsoVars == <<execVars, stage, emitVars, machineVars>>

\* The passes, and the program as it is written.
Passes ==
  /\ stage = "passes" /\ ExecNext
  /\ UNCHANGED <<stage, emitVars, machineVars>>

\* The compiler asks for the rule SL has for labels of one name.
StartEmitting ==
  /\ stage = "passes" /\ pass = "run" /\ pc = Begin /\ linden
  /\ stage' = "emit"
  /\ UNCHANGED <<execVars, emitVars, machineVars>>

-----------------------------------------------------------------------------
(* LSOBytecodeCompiler. *)

Cell(op, arg) == [op |-> op, arg |-> arg]
Pos == Len(code)

\* Mutant: relative to the start of the operand.
OperandFromStart(operandPos, targetPos) == targetPos - operandPos

\* calculate_jump_operand
Operand(operandPos, targetPos) == targetPos - (operandPos + 1)

\* A jump with its operand to be patched, and one to an earlier position.
Hole(op) == <<Cell(op, 0), Cell("operand", 0)>>
JumpBack(text, op, to) ==
  text \o <<Cell(op, 0), Cell("operand", Operand(Len(text) + 1, to))>>

\* The code with the operand at a position patched to jump to another.
Patched(text, operandPos, to) ==
  [text EXCEPT ![operandPos + 1] = Cell("operand", Operand(operandPos, to))]

\* What is emitted when the visitor comes to n, before its children.
Opening(n) ==
  CASE Kind(n) = "expr" -> <<Cell("eval", n)>>
    [] Kind(n) = "jump" -> Hole("jump")
    [] Kind(n) \in {"return", "state"} -> <<Cell(Kind(n), n)>>
    [] OTHER -> <<>>

Open(n) ==
  /\ stage = "emit" /\ emitAt = In(n)
  /\ code' = code \o Opening(n)
  /\ top' = IF Kind(n) \in {"while", "do"} THEN [top EXCEPT ![n] = Len(code)]
            ELSE IF Condition(n) /\ Kind(Up(n)) = "for" THEN [top EXCEPT ![Up(n)] = Len(code)]
            ELSE top
  /\ jumpMap' = IF Kind(n) = "jump" THEN [jumpMap EXCEPT ![Name(n)] = Len(code) + 1] ELSE jumpMap
  /\ labelMap' = IF Kind(n) = "label" THEN [labelMap EXCEPT ![Name(n)] = Len(code)] ELSE labelMap
  /\ emitAt' = Descend(n)
  /\ UNCHANGED <<execVars, stage, hole, pastElse, machineVars>>

HasValue(n) == Name(n) # "void"

\* Nothing consumes the value of an expression that is a statement or stands
\* in the initializers or the increments of a `for`.
Discarded(n) ==
  Kind(n) = "expr" /\ Kind(Up(n)) # "decl" /\ ~Condition(n) /\ HasValue(n)

\* Mutant: the value of an increment is left.
WithIncrement(n) ==
  code \o (IF Discarded(n) /\ ~(Kind(Up(n)) = "for" /\ Place(n) = 3) THEN <<Cell("pop", 0)>>
           ELSE IF Kind(n) = "decl" THEN <<Cell("store", n)>> ELSE <<>>)

\* The code when all of n has been emitted but for what its parent adds.
With(n) ==
  code \o (IF Discarded(n) THEN <<Cell("pop", 0)>>
           ELSE IF Kind(n) = "decl" THEN <<Cell("store", n)>> ELSE <<>>)

\* The condition of an `if`, a `while` or a `for`: a jump past its statement.
CloseCondition(n) ==
  /\ Condition(n) /\ Kind(Up(n)) # "do"
  /\ code' = code \o Hole("jumpnif")
  /\ hole' = [hole EXCEPT ![Up(n)] = Len(code) + 1]
  /\ UNCHANGED pastElse

CloseDoCondition(n) ==
  /\ Condition(n) /\ Kind(Up(n)) = "do"
  /\ code' = JumpBack(code, "jumpif", top[Up(n)])
  /\ UNCHANGED <<hole, pastElse>>

\* Mutant: the target is marked before the jump past the other.
CloseTrueBranchEarly(n) ==
  /\ IsBranch(n, 2)
  /\ LET text == With(n) \o Hole("jump") IN
       /\ code' = Patched(text, hole[Up(n)], Len(text) - 2)
       /\ pastElse' = [pastElse EXCEPT ![Up(n)] = Len(text) - 1]
  /\ UNCHANGED hole

\* The first of two branches: a jump past the other.
CloseTrueBranch(n) ==
  /\ IsBranch(n, 2)
  /\ LET text == With(n) \o Hole("jump") IN
       /\ code' = Patched(text, hole[Up(n)], Len(text))
       /\ pastElse' = [pastElse EXCEPT ![Up(n)] = Len(text) - 1]
  /\ UNCHANGED hole

CloseFalseBranch(n) ==
  /\ IsBranch(n, 3)
  /\ code' = Patched(With(n), pastElse[Up(n)], Len(With(n)))
  /\ UNCHANGED <<hole, pastElse>>

CloseOnlyBranch(n) ==
  /\ Kind(Up(n)) = "if" /\ ~TwoWay(Up(n)) /\ Place(n) = 2
  /\ code' = Patched(With(n), hole[Up(n)], Len(With(n)))
  /\ UNCHANGED <<hole, pastElse>>

\* The end of a `while` or a `for`: the jump back, and the way out.
LastOfLoop(n) ==
  \/ Kind(Up(n)) = "while" /\ Place(n) = 2
  \/ Kind(Up(n)) = "for" /\ Place(n) = 3

CloseLoop(n) ==
  /\ LastOfLoop(n)
  /\ LET text == JumpBack(With(n), "jump", top[Up(n)])
     IN code' = Patched(text, hole[Up(n)], Len(text))
  /\ UNCHANGED <<hole, pastElse>>

CloseOther(n) ==
  /\ ~Condition(n) /\ ~LastOfLoop(n)
  /\ Kind(Up(n)) = "if" => Place(n) = 1
  /\ code' = With(n)
  /\ UNCHANGED <<hole, pastElse>>

\* A `for` has its statement emitted before its increments.
NextToEmit(n) ==
  LET p == Up(n)
      after == [place \in 1 .. 4 |-> <<In(Child(p, 2)), In(Child(p, 4)), Out(p), In(Child(p, 3))>>[place]]
  IN IF Kind(p) = "for" THEN after[Place(n)] ELSE Onward(n)

Close(n) ==
  /\ stage = "emit" /\ emitAt = Out(n) /\ n # 1
  /\ \/ CloseCondition(n) \/ CloseDoCondition(n)
     \/ CloseTrueBranch(n) \/ CloseFalseBranch(n) \/ CloseOnlyBranch(n)
     \/ CloseLoop(n) \/ CloseOther(n)
  /\ emitAt' = NextToEmit(n)
  /\ UNCHANGED <<execVars, stage, top, jumpMap, labelMap, machineVars>>

\* The end of buildFunction: the last jump to each label, then the return a
\* body needs unless all its paths return.
Finish ==
  /\ stage = "emit" /\ emitAt = End
  /\ LET operands == {jumpMap[l] : l \in Names} \ {0}
         LabelOf(p) == CHOOSE l \in Names : jumpMap[l] = p
         text == [c \in DOMAIN code |->
                    IF c - 1 \in operands
                    THEN Cell("operand", Operand(c - 1, labelMap[LabelOf(c - 1)])) ELSE code[c]]
     IN code' = IF allReturn THEN text ELSE Append(text, Cell("return", 1))
  /\ stage' = "machine"
  /\ UNCHANGED <<execVars, emitAt, top, hole, pastElse, jumpMap, labelMap, machineVars>>

-----------------------------------------------------------------------------
(* The machine. *)

At(p) == code[p + 1]
Destined(p) == p + 2 + At(p + 1).arg

Visible == {"eval", "store", "return", "state"}

\* Where it goes from a cell that changes nothing but its stack.
Skip(p, v) ==
  CASE At(p).op = "jump" -> Destined(p)
    [] At(p).op = "jumpnif" -> IF v THEN p + 2 ELSE Destined(p)
    [] At(p).op = "jumpif" -> IF v THEN Destined(p) ELSE p + 2
    [] OTHER -> p + 1

Execute ==
  /\ stage = "machine" /\ ip \in 0 .. Len(code) - 1 /\ At(ip).op \notin {"return", "state"}
  /\ IF At(ip).op \in Visible
     THEN /\ last' = At(ip).arg
          /\ ip' = ip + 1
          /\ IF Kind(last') = "expr" /\ Condition(last') THEN value' \in BOOLEAN ELSE UNCHANGED value
     ELSE /\ ip' = Skip(ip, value)
          /\ UNCHANGED <<last, value>>
  /\ depth' = CASE At(ip).op = "eval" /\ HasValue(At(ip).arg) -> depth + 1
                [] At(ip).op \in {"store", "pop", "jumpif", "jumpnif"} -> depth - 1
                [] OTHER -> depth
  /\ UNCHANGED <<execVars, stage, emitVars>>

-----------------------------------------------------------------------------
LsoInit ==
  /\ ExecInit
  /\ stage = "passes"
  /\ emitAt = Begin /\ code = <<>>
  /\ top = [n \in Node |-> 0] /\ hole = [n \in Node |-> 0] /\ pastElse = [n \in Node |-> 0]
  /\ jumpMap = [l \in Names |-> 0] /\ labelMap = [l \in Names |-> 0]
  /\ ip = 0 /\ depth = 0 /\ last = 0 /\ value = FALSE

LsoNext ==
  \/ Passes \/ StartEmitting
  \/ \E n \in Node : Open(n) \/ Close(n)
  \/ Finish
  \/ Execute

LsoSpec == LsoInit /\ [][LsoNext]_lsoVars

-----------------------------------------------------------------------------
(* Correctness. *)

\* What the machine does next that can be seen, as a node; 1 is the return at
\* the end of the body, 0 the end of the code.  Empty when it only jumps.
MachineNext ==
  LET onward[k \in Nat] ==
        IF k = 0 THEN ip
        ELSE LET p == onward[k - 1] IN
             IF p \in 0 .. Len(code) - 1 /\ At(p).op \notin Visible THEN Skip(p, value) ELSE p
      p == onward[2 * Len(code)]
  IN IF p \notin 0 .. Len(code) - 1 THEN {0}
     ELSE IF At(p).op \in Visible THEN {At(p).arg} ELSE {}

\* What a jump does in this compiler, as lso_jump_behavior.lsl says: only the
\* last jump to a name goes anywhere, to the last label of the name.
Effective(j) == \A k \in All("jump") : Name(k) = Name(j) => k <= j
Jumps == [j \in All("jump") |-> LastOfName(target[j])]

Seen(position) ==
  \/ position = End
  \/ position[2] = "in" /\ Kind(position[1]) \in {"expr", "return", "state"}
  \/ position[2] = "out" /\ Kind(position[1]) = "decl"

\* What the body does next, after its last visible node.
SourceNext ==
  LET start == IF last = 0 THEN Begin
               ELSE IF Condition(last) THEN Taken(last, value)
               ELSE CHOOSE q \in Leaving(last) : TRUE
      Step(q) == IF Seen(q) THEN q
                 ELSE IF q[2] = "in" /\ Kind(q[1]) = "jump" /\ ~Effective(q[1]) THEN Out(q[1])
                 ELSE CHOOSE r \in Flow(q, Jumps) : TRUE
      onward[k \in Nat] == IF k = 0 THEN start ELSE Step(onward[k - 1])
      q == onward[4 * Len(body)]
  IN IF Seen(q) THEN {q[1]} ELSE {}

\* Whatever the conditions, the code does what the body does, in its order,
\* and returns where the body ends.
SameNext == stage = "machine" => MachineNext = SourceNext

\* No path of statements leaves a value on the stack for the return to find.
StackClean ==
  stage = "machine" =>
    /\ depth \in 0 .. 1
    /\ ip < Len(code) /\ At(ip).op \in {"return", "state"} => depth = 0

\* Every jump, the ones never patched included, goes to an instruction.
JumpsLand ==
  stage = "machine" =>
    \A p \in 0 .. Len(code) - 1 : At(p).op \in {"jump", "jumpif", "jumpnif"} =>
      /\ Destined(p) \in 0 .. Len(code)
      /\ Destined(p) < Len(code) => At(Destined(p)).op # "operand"
=============================================================================
