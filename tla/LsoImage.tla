------------------------------- MODULE LsoImage -------------------------------
(***************************************************************************)
(* How LSOScriptCompiler lays a script out in memory (script_compiler.cc): *)
(* sections written one after the other, with tables that are filled in    *)
(* later, at the offsets LSOResourceVisitor (resource_collector.cc) gives  *)
(* the generated code.  Everything is bytes, in the streams of ByteStream. *)
(*                                                                         *)
(* A script is its globals, variables and functions mixed, and its states, *)
(* the default state first.  The code of a body is some bytes, and no more *)
(* is said of it here.  Types are their numbers in LSLIType.               *)
(***************************************************************************)
EXTENDS Integers, Sequences, SequencesExt

CONSTANTS
  Scripts,       \* the scripts to compile
  TotalMemory    \* TOTAL_LSO_MEMORY

ASSUME MemoryAssumption == TotalMemory \in Nat

INSTANCE ByteStream WITH Byte <- 0 .. 255, Zero <- 0, MinRealloc <- 10

VARIABLES
  script,      \* what is compiled
  phase,       \* "globals", "states", "handlers", "done" or "failed"
  next,        \* the global or the state it is at
  handler,     \* the handler of that state it is at
  globals,     \* mGlobalsBS
  functions,   \* _mFunctionsBS
  states,      \* _mStatesBS
  state,       \* _mStateBS, used again for every state
  heap,        \* mHeapBS
  registers,   \* _mRegistersBS
  image        \* mScriptBS

streams == <<globals, functions, states, state, heap, registers, image>>
vars == <<script, phase, next, handler, streams>>

-----------------------------------------------------------------------------
(* Values and their bytes. *)

None == 0  Integer == 1  String == 3  Vector == 5  List == 7

\* LSO_TYPE_DATA_SIZES
DataSize(t) == IF t = Vector THEN 12 ELSE 4

U8(n) == <<n>>
U16(n) == <<n \div 256, n % 256>>
U32(n) == U16(n \div 65536) \o U16(n % 65536)
U64(n) == U32(0) \o U32(n)   \* of a bit field of less than 32 bits

\* A vector's components are written last first.
Raw(c) ==
  CASE c.type = Integer -> U32(c.data)
    [] c.type = String -> c.data \o U8(0)
    [] c.type = Vector -> U32(c.data[3]) \o U32(c.data[2]) \o U32(c.data[1])

\* moveBy(n, true); the operator<<s of a ScopedBitStreamSeek.
SkipOver(s, n) == MoveAllocating(s, s.pos + n)
WriteAt(s, p, bytes) == MoveTo(Write(MoveTo(s, p), bytes), s.pos)

\* LSOHeapManager::writeHeader
Header(size, type, refs) == U32(size) \o U8(type) \o U16(refs)

\* Mutant: the index is the position, from 0.
IndexFromZero(h) == h.pos

\* "first byte on the heap has an index of 1, not 0"
HeapIndex(h) == h.pos + 1

\* Mutant: the size counts the header.
WriteBlockWithHeader(h, c) == Write(h, Header(7 + Len(Raw(c)), c.type, 1) \o Raw(c))

WriteBlock(h, c) == Write(h, Header(Len(Raw(c)), c.type, 1) \o Raw(c))

\* A list's children follow it, and their indices go into the hole left for
\* them.  Lists do not nest.
WriteConstant(h, c) ==
  IF c.type # List THEN WriteBlock(h, c)
  ELSE LET n == Len(c.data)
           opened == Write(h, Header(4 + 4 * n, List, 1) \o U32(n))
           filled == FoldLeft(LAMBDA acc, child :
                         [heap |-> WriteBlock(acc.heap, child),
                          indices |-> acc.indices \o U32(HeapIndex(acc.heap))],
                       [heap |-> SkipOver(opened, 4 * n), indices |-> <<>>], c.data)
       IN WriteAt(filled.heap, opened.pos, filled.indices)

-----------------------------------------------------------------------------
(* What the resource collector says of the script. *)

IsVariable(g) == g.kind = "variable"
IsFunction(g) == g.kind = "function"
Before(n) == SubSeq(script.globals, 1, n - 1)

\* The offset to the data, the type, and a name that is only its terminator.
VariableHeader(t) == U32(6) \o U8(t) \o U8(0)

\* Mutant: the type and the empty name are forgotten.
OffsetWithoutName(n) ==
  FoldLeft(LAMBDA total, g : total + 4 + DataSize(g.type), 4, SelectSeq(Before(n), IsVariable))

\* The offset of the data of global variable n.
GlobalOffset(n) ==
  FoldLeft(LAMBDA total, g : total + 6 + DataSize(g.type), 6, SelectSeq(Before(n), IsVariable))

FunctionIndex(n) == Len(SelectSeq(Before(n), IsFunction))

\* The room for the parameters and locals of a body.
FrameSize(body) == FoldLeft(LAMBDA total, t : total + DataSize(t), 0, body.params \o body.locals)

Handlers == script.states[next]
Events(s) == {script.states[s][h].event : h \in 1 .. Len(script.states[s])}

\* Mutant: in the order of the source.
TableIndexAsWritten(s, e) == CHOOSE h \in 0 .. Len(script.states[s]) - 1 : script.states[s][h + 1].event = e

\* The handlers of a state are a sorted set.
TableIndex(s, e) == Cardinality({f \in Events(s) : f < e})

\* pack_handled_events
EventBits(s) == MapThenSumSet(LAMBDA e : 2 ^ (e - 1), Events(s))

-----------------------------------------------------------------------------
(* What a global variable starts with. *)

Default(t) == [type |-> t, data |-> CASE t = Integer -> 0 [] t = Vector -> <<0, 0, 0>> [] OTHER -> <<>>]

\* resolve_sa_identifier: the initializer a chain of names ends at.
Resolved(n) ==
  LET init[m \in 1 .. n] == IF script.globals[m].init.form = "name"
                            THEN init[script.globals[m].init.of] ELSE script.globals[m].init
  IN init[n]

\* A list is made again from the initializers its names end at.
Element(e) == IF e.form = "name" THEN Resolved(e.of).value ELSE e.value

ConstantOf(n) ==
  LET init == Resolved(n) IN
  CASE init.form = "none" -> Default(script.globals[n].type)
    [] init.form = "constant" -> init.value
    [] init.form = "list" -> [type |-> List, data |-> [k \in 1 .. Len(init.items) |-> Element(init.items[k])]]

\* "we have only an lvalue reference in the rvalue", to a global without one
IsPlaceholder(n) == script.globals[n].init.form = "name" /\ Resolved(n).form = "none"

-----------------------------------------------------------------------------
(* The compiler. *)

RegisterOffset == [TM |-> 0, VN |-> 8, BP |-> 12, SP |-> 16, HR |-> 20, HP |-> 24, GVR |-> 56, GFR |-> 60,
                   SR |-> 72, NCE |-> 76, NER |-> 92, MAX |-> 100]
WordRegisters == <<"TM", "VN", "BP", "SP", "GVR", "GFR", "SR", "HR", "HP">>
JumpTableBase == 5
StateTable(n) == 4 + 12 * n

FunctionsStart(count) ==
  IF count = 0 THEN NewStream ELSE SkipOver(Write(NewStream, U32(count)), 4 * count)

\* Mutant: without the globals.
CollidesNoGlobals == registers.size + functions.size + states.size + heap.size > TotalMemory

\* checkStackHeapCollision
Collides ==
  registers.size + globals.size + functions.size + states.size + heap.size > TotalMemory

AtGlobal(kind) ==
  /\ phase = "globals" /\ next <= Len(script.globals) /\ script.globals[next].kind = kind
  /\ next' = next + 1
  /\ UNCHANGED <<script, phase, handler, states, state, registers, image>>

\* Mutant: the cursor does not leave what is written.
PlaceholderNoRoom(s, t) == MoveTo(Write(s, VariableHeader(t)), s.pos + 6 + DataSize(t))

\* writePlaceholder
Placeholder(s, t) == SkipOver(Write(s, VariableHeader(t)), DataSize(t))

VisitGlobalVariable ==
  /\ AtGlobal("variable")
  /\ LET t == script.globals[next].type
         c == ConstantOf(next)
     IN IF Collides THEN UNCHANGED <<globals, heap>>
        ELSE IF IsPlaceholder(next)
        THEN globals' = Placeholder(globals, t) /\ UNCHANGED heap
        ELSE IF t \in {String, List}
        THEN /\ heap' = WriteConstant(heap, c)
             /\ globals' = Write(globals, VariableHeader(t) \o U32(HeapIndex(heap)))
        ELSE globals' = Write(globals, VariableHeader(t) \o Raw(c)) /\ UNCHANGED heap
  /\ UNCHANGED functions

\* The offset to the code, an empty name, the return type, and of every
\* parameter the type and an empty name.
FunctionHeader(f) ==
  LET params == FlattenSeq([k \in 1 .. Len(f.params) |-> U8(f.params[k]) \o U8(0)])
      rest == U8(0) \o U8(f.type) \o params \o U8(0)
  IN U32(4 + Len(rest)) \o rest

\* Mutant: the table has no count before it.
ListFunctionFromZero(n) == WriteAt(functions, 4 * FunctionIndex(n), U32(functions.pos))

ListFunction(n) == WriteAt(functions, 4 + 4 * FunctionIndex(n), U32(functions.pos))

VisitGlobalFunction ==
  /\ AtGlobal("function")
  /\ functions' =
       IF Collides THEN functions
       ELSE LET f == script.globals[next]
            IN Write(ListFunction(next), FunctionHeader(f) \o f.code)
  /\ UNCHANGED <<globals, heap>>

EndGlobals ==
  /\ phase = "globals" /\ next > Len(script.globals)
  /\ IF Collides THEN phase' = "failed" /\ UNCHANGED <<next, heap, states>>
     ELSE /\ phase' = "states" /\ next' = 1
          /\ heap' = Write(heap, Header(TotalMemory, None, 0))
          /\ states' = MoveAllocating(Write(states, U32(Len(script.states))), StateTable(Len(script.states)))
  /\ UNCHANGED <<script, handler, globals, functions, state, registers, image>>

\* "resize keeps the underlying buffer allocated"
Emptied(s) == Resize(s, 0)

OpenState ==
  /\ phase = "states" /\ next <= Len(script.states)
  /\ phase' = "handlers" /\ handler' = 1
  /\ states' = WriteAt(states, StateTable(next - 1), U32(states.pos) \o U64(EventBits(next)))
  /\ state' = SkipOver(Write(Emptied(state), U32(JumpTableBase) \o U8(0)), 8 * Cardinality(Events(next)))
  /\ UNCHANGED <<script, next, globals, functions, heap, registers, image>>

\* The event's entry in the jump table: where it starts and what it needs on
\* the stack.  Then the offset to the code, an empty name, and the code.
VisitEventHandler ==
  /\ phase = "handlers" /\ handler <= Len(Handlers)
  /\ LET h == Handlers[handler]
         entry == U32(state.pos - JumpTableBase) \o U32(FrameSize(h))
         listed == WriteAt(state, JumpTableBase + 8 * TableIndex(next, h.event), entry)
     IN state' = Write(listed, U32(5) \o U8(0) \o h.code)
  /\ handler' = handler + 1
  /\ UNCHANGED <<script, phase, next, globals, functions, states, heap, registers, image>>

CloseState ==
  /\ phase = "handlers" /\ handler > Len(Handlers)
  /\ states' = Write(states, Contents(state))
  /\ UNCHANGED <<script, handler, globals, functions, state, heap, registers, image>>
  /\ IF Collides' THEN phase' = "failed" /\ UNCHANGED next
     ELSE phase' = "states" /\ next' = next + 1

\* The sections in the image, and their places in the registers.
WriteImage ==
  /\ phase = "states" /\ next > Len(script.states)
  /\ phase' = "done"
  /\ LET space == MoveTo(MakeSpace(image, TotalMemory), RegisterOffset.MAX)
         withGlobals == Write(space, Contents(globals))
         withFunctions == Write(withGlobals, Contents(functions))
         withStates == Write(withFunctions, Contents(states))
         withHeap == Write(withStates, Contents(heap))
         word == [TM |-> TotalMemory, VN |-> 512, BP |-> TotalMemory - 1, SP |-> TotalMemory - 1,
                  GVR |-> RegisterOffset.MAX, GFR |-> withGlobals.pos, SR |-> withFunctions.pos,
                  HR |-> withStates.pos, HP |-> withHeap.pos]
         withWords == FoldLeft(LAMBDA r, name : WriteAt(r, RegisterOffset[name], U32(word[name])),
                               registers, WordRegisters)
         withEvents == WriteAt(withWords, RegisterOffset.NCE, U64(1))
     IN /\ registers' = WriteAt(withEvents, RegisterOffset.NER, U64(EventBits(1)))
        /\ image' = Write(MoveTo(withHeap, 0), Contents(registers'))
  /\ UNCHANGED <<script, next, handler, globals, functions, states, state, heap>>

Init ==
  /\ script \in Scripts
  /\ phase = "globals" /\ next = 1 /\ handler = 1
  /\ functions = FunctionsStart(Len(SelectSeq(script.globals, IsFunction)))
  /\ registers = MakeSpace(NewStream, RegisterOffset.MAX)
  /\ globals = NewStream /\ states = NewStream /\ state = NewStream
  /\ heap = NewStream /\ image = NewStream

Next ==
  \/ VisitGlobalVariable \/ VisitGlobalFunction \/ EndGlobals
  \/ OpenState \/ VisitEventHandler \/ CloseState
  \/ WriteImage

Spec == Init /\ [][Next]_vars

-----------------------------------------------------------------------------
(* Correctness: what a loader finds that follows the registers and tables. *)

BytesAt(p, n) == SubSeq(image.data, p + 1, p + n)
WordAt(p) == FoldLeft(LAMBDA total, b : 256 * total + b, 0, BytesAt(p, 4))
RegisterAt(name) == WordAt(RegisterOffset[name])

\* The constant c is in the heap block of this index.
BlockHolds(index, c) ==
  LET p == RegisterAt("HR") + index - 1
      simple(q, d) == BytesAt(q, 7 + Len(Raw(d))) = Header(Len(Raw(d)), d.type, 1) \o Raw(d)
  IN IF c.type # List THEN simple(p, c)
     ELSE /\ BytesAt(p, 11) = Header(4 + 4 * Len(c.data), List, 1) \o U32(Len(c.data))
          /\ \A k \in 1 .. Len(c.data) :
               simple(RegisterAt("HR") + WordAt(p + 7 + 4 * k) - 1, c.data[k])

\* At its offset from GVR the code finds every global variable, its value in
\* place or on the heap; one that names a global without a value is all zeros.
GlobalsFound ==
  phase = "done" =>
    \A n \in 1 .. Len(script.globals) : script.globals[n].kind = "variable" =>
      LET t == script.globals[n].type
          p == RegisterAt("GVR") + GlobalOffset(n)
      IN /\ BytesAt(p - 6, 6) = VariableHeader(t)
         /\ p + DataSize(t) <= RegisterAt("GFR")
         /\ IF IsPlaceholder(n) THEN \A b \in ToSet(BytesAt(p, DataSize(t))) : b = 0
            ELSE IF t \in {String, List} THEN BlockHolds(WordAt(p), ConstantOf(n))
            ELSE BytesAt(p, DataSize(t)) = Raw(ConstantOf(n))

\* Through the function table a call finds the header and the code of its
\* function, and the code ends where the next one starts.
FunctionsFound ==
  phase = "done" =>
    LET indices == {n \in 1 .. Len(script.globals) : script.globals[n].kind = "function"}
        base == RegisterAt("GFR")
        start(k) == IF k = Cardinality(indices) THEN RegisterAt("SR") ELSE base + WordAt(base + 4 + 4 * k)
    IN \A n \in indices :
         LET f == script.globals[n]
             p == start(FunctionIndex(n))
             c == p + WordAt(p)
         IN /\ WordAt(base) = Cardinality(indices)
            /\ BytesAt(p, c - p) = FunctionHeader(f)
            /\ BytesAt(c, Len(f.code)) = f.code
            /\ c + Len(f.code) = start(FunctionIndex(n) + 1)

\* Through the state table and the state's jump table, which is in the order
\* of the events, an event finds the code of its handler and what it needs.
HandlersFound ==
  phase = "done" =>
    /\ WordAt(RegisterAt("SR")) = Len(script.states)
    /\ RegisterAt("NER") = 0 /\ WordAt(RegisterOffset.NER + 4) = EventBits(1)
    /\ \A s \in 1 .. Len(script.states) :
         LET entry == RegisterAt("SR") + StateTable(s - 1)
             table == RegisterAt("SR") + WordAt(entry) + WordAt(RegisterAt("SR") + WordAt(entry))
         IN /\ WordAt(entry + 8) = EventBits(s)
            /\ \A h \in 1 .. Len(script.states[s]) :
                 LET body == script.states[s][h]
                     p == table + 8 * Cardinality({e \in Events(s) : e < body.event})
                     q == table + WordAt(p)
                 IN /\ WordAt(p + 4) = FrameSize(body)
                    /\ BytesAt(q + WordAt(q), Len(body.code)) = body.code

\* Whatever a read, a call or an event goes through, it ends at the global or
\* the code meant.
EverythingFound == GlobalsFound /\ FunctionsFound /\ HandlersFound

\* From HR the heap is one block after the other, up to the terminal block,
\* which ends at HP; behind it the memory is clear to its end.
HeapWalks ==
  phase = "done" =>
    LET hp == RegisterAt("HP")
        walk[p \in 0 .. TotalMemory] ==
          IF p + 7 > hp THEN FALSE
          ELSE IF BytesAt(p + 4, 1) = U8(None) THEN p + 7 = hp
          ELSE walk[p + 7 + WordAt(p)]
    IN /\ walk[RegisterAt("HR")]
       /\ Len(image.data) = TotalMemory /\ image.size = TotalMemory
       /\ \A p \in hp + 1 .. TotalMemory : image.data[p] = 0

\* What the sections take, a byte behind a last placeholder included.
BlockSize(c) ==
  IF c.type # List THEN 7 + Len(Raw(c))
  ELSE FoldLeft(LAMBDA total, d : total + 4 + 7 + Len(Raw(d)), 11, c.data)

Needed ==
  LET vs == {n \in 1 .. Len(script.globals) : script.globals[n].kind = "variable"}
      fs == (1 .. Len(script.globals)) \ vs
      onHeap == {n \in vs : script.globals[n].type \in {String, List} /\ ~IsPlaceholder(n)}
      stray == \E n \in vs : IsPlaceholder(n) /\ \A m \in vs : m <= n
      codes(s) == FoldLeft(LAMBDA total, h : total + 8 + 5 + Len(h.code), 12 + 5, script.states[s])
  IN RegisterOffset.MAX
     + MapThenSumSet(LAMBDA n : 6 + DataSize(script.globals[n].type), vs) + (IF stray THEN 1 ELSE 0)
     + (IF fs = {} THEN 0 ELSE 4)
     + MapThenSumSet(LAMBDA n : 11 + 2 * Len(script.globals[n].params) + Len(script.globals[n].code), fs)
     + 4 + MapThenSumSet(codes, 1 .. Len(script.states))
     + MapThenSumSet(LAMBDA n : BlockSize(ConstantOf(n)), onHeap) + 7

\* A script is refused exactly when it needs more memory than there is.
RefusedWhenTooLarge == (phase = "failed" => Needed > TotalMemory) /\ (phase = "done" => Needed <= TotalMemory)
=============================================================================
