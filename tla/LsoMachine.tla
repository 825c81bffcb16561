------------------------------ MODULE LsoMachine ------------------------------
(***************************************************************************)
(* The LSO virtual machine, as the compiler uses it: a stack of words      *)
(* shared by the frames of all functions, globals in a memory of bytes,    *)
(* and opcodes that are told the types of what they take.  A vector lies   *)
(* on the stack from its first member up and in memory from its last, for  *)
(* the stack grows downwards.                                              *)
(*                                                                         *)
(* Words remember the type they were made with, which the machine itself   *)
(* cannot see: an opcode that is told another type than its operands have  *)
(* leaves m stuck.  m is [code, glob, stack, bp, trace, status].           *)
(***************************************************************************)
EXTENDS LsoExpressions
LOCAL INSTANCE SequencesExt

Failed(m) == [m EXCEPT !.status = "stuck"]
Empty == Term("empty", "empty", <<>>)
BasePointer(n) == [op |-> "frame", t |-> "frame", args |-> <<>>, n |-> n]
TypeByte(t) == Term(t, "byte", <<>>)

\* A zero is a zero, an integer's or a float's.
IntegerZero == Term("0", "integer", <<>>)
ReadAs(w, t) == IF t = "float" /\ w = IntegerZero THEN Term("0", "float", <<>>) ELSE w
Holds(words, t) == \A i \in DOMAIN words : ReadAs(words[i], WordType(t)).t = WordType(t)
ValueOf(words, t) == Value(t, [i \in DOMAIN words |-> ReadAs(words[i], WordType(t))])

Depth(m) == Len(m.stack)
Under(m, n) == SubSeq(m.stack, 1, Depth(m) - n)
Upper(m, n) == SubSeq(m.stack, Depth(m) - n + 1, Depth(m))
Finds(m, t) == Depth(m) >= Size(t) /\ Holds(Upper(m, Size(t)), t)
\* Two operands, the left one on top.
HasBoth(m, l, r) ==
  Depth(m) >= Size(l) + Size(r) /\ Holds(Upper(m, Size(l)), l) /\ Holds(SubSeq(Upper(m, Size(l) + Size(r)), 1, Size(r)), r)
PushWords(m, words) == [m EXCEPT !.stack = @ \o words]
Replace(m, n, words) == [m EXCEPT !.stack = Under(m, n) \o words]

Binary2(m, op, l, r) ==
  IF HasBoth(m, l, r)
  THEN LET left == ValueOf(Upper(m, Size(l)), l)
           right == ValueOf(SubSeq(Upper(m, Size(l) + Size(r)), 1, Size(r)), r)
       IN Replace(m, Size(l) + Size(r), Operation(op, left, right).w)
  ELSE Failed(m)
Unary1(m, op, t) ==
  IF Finds(m, t) THEN Replace(m, Size(t), UnaryOperation(op, ValueOf(Upper(m, Size(t)), t)).w) ELSE Failed(m)

\* Memory of globals, by byte; the stack from the base pointer, by word.
MemoryWords(m, at, n) == [i \in 1 .. n |-> m.glob[at + 4 * (n - i)]]
InMemory(m, at, n) == \A i \in 0 .. n - 1 : at + 4 * i \in DOMAIN m.glob
StoreMemory(m, at, words) ==
  [m EXCEPT !.glob = [b \in DOMAIN @ |->
     IF \E i \in DOMAIN words : b = at + 4 * (Len(words) - i)
     THEN words[CHOOSE i \in DOMAIN words : b = at + 4 * (Len(words) - i)] ELSE @[b]]]
SlotOf(m, offset) == m.bp + offset \div 4 + 1
InStack(m, offset, n) == SlotOf(m, offset) >= 1 /\ SlotOf(m, offset) + n - 1 <= Depth(m)
StackWords(m, offset, n) == SubSeq(m.stack, SlotOf(m, offset), SlotOf(m, offset) + n - 1)
StoreStack(m, offset, words) ==
  [m EXCEPT !.stack = [i \in DOMAIN @ |->
     IF i \in SlotOf(m, offset) .. SlotOf(m, offset) + Len(words) - 1
     THEN words[i - SlotOf(m, offset) + 1] ELSE @[i]]]

Variable(m, c) ==
  LET n == Size(c.l)  top == Upper(m, n)
  IN CASE c.i = "PUSHG" -> IF InMemory(m, c.n, n) THEN PushWords(m, MemoryWords(m, c.n, n)) ELSE Failed(m)
       [] c.i = "PUSH" -> IF InStack(m, c.n, n) THEN PushWords(m, StackWords(m, c.n, n)) ELSE Failed(m)
       [] ~Finds(m, c.l) -> Failed(m)
       [] c.i = "STOREG" -> IF InMemory(m, c.n, n) THEN StoreMemory(m, c.n, top) ELSE Failed(m)
       [] c.i = "STORE" -> IF InStack(m, c.n, n) THEN StoreStack(m, c.n, top) ELSE Failed(m)
       [] c.i = "LOADP" -> IF InStack(m, c.n, n) THEN Replace(StoreStack(m, c.n, top), n, <<>>) ELSE Failed(m)

\* STACKTOL: n elements, each with its type above it.
RECURSIVE Gather(_, _, _)
Gather(m, n, parts) ==
  LET t == m.stack[Depth(m)].op
      under == Replace(m, 1, <<>>)
  IN CASE n = 0 -> PushWords(m, ListOf(parts).w)
       [] Depth(m) = 0 \/ m.stack[Depth(m)].t # "byte" -> Failed(m)
       [] ~Finds(under, t) -> Failed(m)
       [] OTHER -> Gather(Replace(under, Size(t), <<>>), n - 1,
                          Parts(ValueOf(Upper(under, Size(t)), t)) \o parts)

RECURSIVE LsoRun(_, _)
IsFrame(m, n) == Depth(m) >= n /\ \A i \in 1 .. n : Upper(m, n)[i].t = "frame"
\* RETURN: the old base pointer is on top, the return address below it.
Return(m) ==
  IF IsFrame(m, 1) THEN [Replace(m, 2, <<>>) EXCEPT !.bp = m.stack[Depth(m)].n, !.status = "returned"]
  ELSE Failed(m)
EnterFunction(m, f) ==
  LET ran == LsoRun(m.code[f], m) IN IF ran.status = "returned" THEN [ran EXCEPT !.status = "running"] ELSE Failed(m)
\* A function of the library takes its arguments from the stack and writes
\* its result where the caller made room for it.
EnterLibrary(m, f) ==
  LET F == Functions[f]
      n == ParameterBytes(f) \div 4
      given == [i \in DOMAIN F.params |->
                  LET t == Variables[F.params[i]].t
                  IN ValueOf(StackWords(m, FrameOffset(F.params[i]), Size(t)), t)]
      words == FlattenSeq([i \in DOMAIN given |-> given[i].w])
      fits == m.bp = Depth(m) - n /\ \A i \in DOMAIN given : Holds(given[i].w, given[i].t)
      result == IF F.t = "null" THEN <<>> ELSE Opaque(f, F.t, words).w
      returned == Return(Replace(m, n, <<>>))
  IN IF ~fits \/ returned.status = "stuck" THEN Failed(m)
     ELSE [Notify(Replace(returned, Size(F.t), result), Event(f, words)) EXCEPT !.status = "running"]

Typed2 == {"+", "-", "*", "/", "%"} \cup Comparisons \cup Equalities
IntegerOps == {Opcodes[op] : op \in DOMAIN Opcodes}
OperatorOf(opcode) == CHOOSE op \in DOMAIN Opcodes : Opcodes[op] = opcode
Variables2 == {"PUSHG", "PUSH", "STOREG", "STORE", "LOADP"}

LsoStep(m, c) ==
  LET value == ValueOf(Upper(m, Size(c.l)), c.l)
      typed(next) == IF Finds(m, c.l) THEN next ELSE Failed(m)
  IN CASE m.status # "running" -> m
       [] c.i \in Variables2 -> Variable(m, c)
       [] c.i \in Typed2 -> Binary2(m, c.i, c.l, c.r)
       [] c.i \in IntegerOps -> Binary2(m, OperatorOf(c.i), "integer", "integer")
       [] c.i = "NEG" -> Unary1(m, "-", c.l)
       [] c.i = "BOOLNOT" -> Unary1(m, "!", "integer")
       [] c.i = "BITNOT" -> Unary1(m, "~", "integer")
       [] c.i = "CAST" -> typed(Replace(m, Size(c.l), Cast(c.r, value).w))
       [] c.i = "PRINT" -> typed(Notify(Replace(m, Size(c.l), <<>>), Printed(value)))
       [] c.i = "JUMPNIF" -> typed(Notify(Replace(m, Size(c.l), <<>>), Tested(value)))
       [] c.i = "POP" -> IF Depth(m) >= Size(c.l) THEN Replace(m, Size(c.l), <<>>) ELSE Failed(m)
       [] c.i = "PUSHARG" /\ c.l = "frame" -> PushWords(m, <<BasePointer(c.n \div 4)>>)
       [] c.i = "PUSHARG" -> PushWords(m, Literal(c.l, c.n).w)
       [] c.i = "PUSHARGB" -> PushWords(m, <<TypeByte(c.l)>>)
       [] c.i = "STACKTOL" -> Gather(m, c.n, <<>>)
       [] c.i = "PUSHE" -> PushWords(m, [i \in 1 .. Size(c.l) |-> Empty])
       [] c.i = "PUSHARGE" -> PushWords(m, [i \in 1 .. c.n \div 4 |-> Empty])
       [] c.i = "PUSHBP" -> PushWords(m, <<BasePointer(m.bp)>>)
       [] c.i = "PUSHSP" -> PushWords(m, <<BasePointer(Depth(m))>>)
       [] c.i = "ADDSP" -> IF IsFrame(m, 2)
                           THEN Replace(m, 2, <<BasePointer(Upper(m, 2)[1].n - Upper(m, 2)[2].n)>>) ELSE Failed(m)
       [] c.i = "POPBP" -> IF IsFrame(m, 1) THEN [Replace(m, 1, <<>>) EXCEPT !.bp = m.stack[Depth(m)].n] ELSE Failed(m)
       [] c.i = "CALL" -> EnterFunction(m, c.n)
       [] c.i = "CALLLIB" -> EnterLibrary(m, c.n)
       [] c.i = "RETURN" -> Return(m)

LsoRun(code, m) == FoldLeft(LsoStep, m, code)

\* Globals as memory and back.
Memory ==
  LET at(x, i) == GlobalOffset(x) + 4 * (Size(Variables[x].t) - i)
      places == {<<x, i>> \in Names("global") \X (1 .. 4) : i <= Size(Variables[x].t)}
  IN [b \in {at(p[1], p[2]) : p \in places} |->
        LET p == CHOOSE q \in places : at(q[1], q[2]) = b IN Initial(p[1]).w[p[2]]]
GlobalsOf(m) ==
  [x \in Names("global") |->
     ValueOf(MemoryWords(m, GlobalOffset(x), Size(Variables[x].t)), Variables[x].t)]

\* The script, from its entry, called by the simulator with an empty frame.
LsoStart(code) ==
  LsoRun(code["entry"],
         [code |-> code, glob |-> Memory, stack |-> <<Empty, BasePointer(0)>>, bp |-> 2,
          trace |-> <<>>, status |-> "running"])
LeftAsFound(m) == IF m.stack # <<>> \/ m.bp # 0 THEN Failed(m) ELSE m
LsoMeaning(prog) == LeftAsFound(LsoStart([f \in DOMAIN prog |-> LsoBody(f, prog[f])]))
=============================================================================
