---------------------------- MODULE LsoExpressions ----------------------------
(***************************************************************************)
(* The LSO bytecode emitted for expressions, calls and straight-line       *)
(* statements (LSOBytecodeCompiler), and the layout of globals, parameters *)
(* and locals it refers to (LSOResourceVisitor).                           *)
(*                                                                         *)
(* An instruction is [i, l, r, n]: its opcode, the types it is told of and *)
(* its operand, an offset or size in bytes, a literal or a function.       *)
(* Addresses on the stack are kept apart from integers: PUSHARG and ADD    *)
(* have a form of their own for them.                                      *)
(***************************************************************************)
EXTENDS Desugaring, Integers
LOCAL INSTANCE SequencesExt

CONSTANT Globals  \* the names of the globals, as they are declared

Code(i, l, r, n) == [i |-> i, l |-> l, r |-> r, n |-> n]
Op(i) == Code(i, "null", "null", 0)
Bytes(t) == 4 * Size(t)
SumOfBytes(names) == FoldLeft(LAMBDA sum, x : sum + Bytes(Variables[x].t), 0, names)
-----------------------------------------------------------------------------
(* Layout *)

\* visit(LSLGlobalVariable): each global follows a header of its own.
GlobalHeader == 4 + 1 + 1
GlobalOffset(x) ==
  LET i == CHOOSE j \in DOMAIN Globals : Globals[j] = x
  IN i * GlobalHeader + SumOfBytes(SubSeq(Globals, 1, i - 1))

\* handleFuncDecl, visit(LSLDeclaration): parameters, then locals.
ParameterBytes(f) == SumOfBytes(Functions[f].params)
FrameBytes(f) == ParameterBytes(f) + SumOfBytes(Functions[f].locals)
Frame(f) == Functions[f].params \o Functions[f].locals
FrameOffset(x) ==
  LET f == CHOOSE g \in DOMAIN Functions : \E i \in DOMAIN Frame(g) : Frame(g)[i] = x
      i == CHOOSE j \in DOMAIN Frame(f) : Frame(f)[j] = x
  IN SumOfBytes(SubSeq(Frame(f), 1, i - 1))

IsGlobal(e) == Variables[e.op].sub = "global"
\* Mutant: the members of a global are laid out like those of a local.
LValueOffsetForward(e) ==
  (IF IsGlobal(e) THEN GlobalOffset(e.op) ELSE FrameOffset(e.op))
    + (IF e.m = "" THEN 0 ELSE 4 * (AxisOf(e.m) - 1))
\* calculateLValueOffset: the first member of a global is its last word.
LValueOffset(e) ==
  LET member == IF e.m = "" THEN 0 ELSE 4 * (AxisOf(e.m) - 1)
  IN CASE ~IsGlobal(e) -> FrameOffset(e.op) + member
       [] e.m = "" -> GlobalOffset(e.op)
       [] OTHER -> GlobalOffset(e.op) + Bytes(Variables[e.op].t) - 4 - member

-----------------------------------------------------------------------------
(* Expressions *)

\* pushConstant.  A literal list is empty.
PushLiteral(t, text) == <<IF t = "list" THEN Code("STACKTOL", "null", "null", 0) ELSE Code("PUSHARG", t, "null", text)>>
DefaultText(t) == IF t \in Strings THEN "" ELSE "0"
\* LSO_TYPE_POP_OPCODE
PopOf(t) == IF t = "null" THEN <<>> ELSE <<Code("POP", t, "null", 0)>>
\* visit(LSLLValueExpression): PUSHG, PUSHGS ... or PUSH, PUSHS ...
PushVariable(e) == <<Code(IF IsGlobal(e) THEN "PUSHG" ELSE "PUSH", e.t, "null", LValueOffset(e))>>
\* storeStackToLValue: what is stored stays on the stack.
Store(e) == <<Code(IF IsGlobal(e) THEN "STOREG" ELSE "STORE", e.t, "null", LValueOffset(e))>>

\* strip_string_key_autocast
StripTextCast(e) == IF e.k = "cast" /\ e.made /\ e.t \in Strings THEN e.kids[1] ELSE e

Opcodes ==
  [x \in {"|", "&", "^", "<<", ">>", "&&", "||"} |->
     CASE x = "|" -> "BITOR" [] x = "&" -> "BITAND" [] x = "^" -> "BITXOR" [] x = "<<" -> "SHL"
       [] x = ">>" -> "SHR" [] x = "&&" -> "BOOLAND" [] x = "||" -> "BOOLOR"]

RECURSIVE Generate(_)
GenerateAll(es) == FlattenSeq([i \in DOMAIN es |-> Generate(es[i])])

\* visit(LSLBinaryExpression)
GenerateBinary(e) ==
  LET l == e.kids[1]  r == e.kids[2]
      typed == [Op(e.op) EXCEPT !.l = l.t, !.r = r.t]
  IN CASE e.op = "=" -> Generate(StripTextCast(r)) \o Store(l)
       [] e.op = "*=" -> Generate(r) \o Generate(l) \o <<Code("*", "float", "float", 0)>> \o Store(l)
       [] e.op \in DOMAIN Opcodes -> Generate(r) \o Generate(l) \o <<Op(Opcodes[e.op])>>
       [] OTHER -> Generate(r) \o Generate(l) \o <<typed>>

\* Mutant: the changed variable is left on the stack in place of its old value.
GenerateUnaryNew(e) ==
  LET x == e.kids[1]
  IN CASE e.op \in {"x++", "x--"} ->
            PushLiteral(x.t, "1") \o Generate(x)
              \o <<Code(StepOperator(e.op), x.t, x.t, 0)>> \o Store(x)
       [] e.op = "-" -> Generate(x) \o <<Code("NEG", x.t, "null", 0)>>
       [] OTHER -> Generate(x) \o <<Op(IF e.op = "!" THEN "BOOLNOT" ELSE "BITNOT")>>
\* visit(LSLUnaryExpression): x++ keeps the old value below the new one, and
\* pops the new one once it is stored.
GenerateUnary(e) ==
  LET x == e.kids[1]
  IN CASE e.op \in {"x++", "x--"} ->
            Generate(x) \o PushLiteral(x.t, "1") \o Generate(x)
              \o <<Code(StepOperator(e.op), x.t, x.t, 0)>> \o Store(x) \o PopOf(x.t)
       [] e.op = "-" -> Generate(x) \o <<Code("NEG", x.t, "null", 0)>>
       [] OTHER -> Generate(x) \o <<Op(IF e.op = "!" THEN "BOOLNOT" ELSE "BITNOT")>>

\* visit(LSLListExpression): each element is followed by its type.
GenerateList(e) ==
  FlattenSeq([i \in DOMAIN e.kids |->
                Generate(e.kids[i]) \o <<Code("PUSHARGB", e.kids[i].t, "null", 0)>>])
    \o <<Code("STACKTOL", "null", "null", Len(e.kids))>>

\* Mutant: the base pointer is set from the size of the locals alone.
GenerateCallLocals(e) ==
  LET f == e.op  F == Functions[f]
  IN (IF F.t = "null" THEN <<>> ELSE <<Code("PUSHE", F.t, "null", 0)>>)
       \o <<Code("PUSHE", "integer", "null", 0), Op("PUSHBP")>>
       \o GenerateAll(e.kids)
       \o <<Code("PUSHARGE", "null", "null", FrameBytes(f) - ParameterBytes(f)),
            Op("PUSHSP"), Code("PUSHARG", "frame", "null", FrameBytes(f) - ParameterBytes(f)), Op("ADDSP"),
            Op("POPBP"), Code(IF F.builtin THEN "CALLLIB" ELSE "CALL", "null", "null", f)>>
\* visit(LSLFunctionExpression): room for the result, for the return address
\* and the old base pointer, the arguments, room for the locals, and the
\* base pointer set to where the arguments start.
GenerateCall(e) ==
  LET f == e.op  F == Functions[f]
  IN (IF F.t = "null" THEN <<>> ELSE <<Code("PUSHE", F.t, "null", 0)>>)
       \o <<Code("PUSHE", "integer", "null", 0), Op("PUSHBP")>>
       \o GenerateAll(e.kids)
       \o <<Code("PUSHARGE", "null", "null", FrameBytes(f) - ParameterBytes(f)),
            Op("PUSHSP"), Code("PUSHARG", "frame", "null", FrameBytes(f)), Op("ADDSP"),
            Op("POPBP"), Code(IF F.builtin THEN "CALLLIB" ELSE "CALL", "null", "null", f)>>

Generate(e) ==
  CASE e.k = "const" -> PushLiteral(e.t, e.op)
    [] e.k = "lvalue" -> PushVariable(e)
    [] e.k = "binary" -> GenerateBinary(e)
    [] e.k = "unary" -> GenerateUnary(e)
    [] e.k \in Coordinates \cup {"paren"} -> GenerateAll(e.kids)
    [] e.k = "cast" -> Generate(e.kids[1]) \o <<Code("CAST", e.kids[1].t, e.t, 0)>>
    [] e.k = "list" -> GenerateList(e)
    [] e.k = "call" -> GenerateCall(e)
    [] e.k = "print" -> Generate(e.kids[1]) \o <<Code("PRINT", e.kids[1].t, "null", 0)>>

-----------------------------------------------------------------------------
(* Statements *)

\* visit(LSLDeclaration): a float starts as the integer zero.
GenerateDeclaration(x, e) ==
  LET t == Variables[x].t
  IN (IF e # NoNode THEN Generate(e)
      ELSE PushLiteral(IF t = "float" THEN "integer" ELSE t, DefaultText(t)))
       \o <<Code("LOADP", t, "null", FrameOffset(x))>>

\* popLocals, writeReturn
PopFrame(f) ==
  LET names == Reverse(Frame(f)) IN FlattenSeq([i \in DOMAIN names |-> PopOf(Variables[names[i]].t)])
WriteReturn(f) == PopFrame(f) \o <<Op("RETURN")>>

\* visit(LSLReturnStatement): the cast to the type of the function is taken
\* off again, and an expression without a value is not evaluated.
StripReturnCast(e) == IF e.k = "cast" /\ e.made THEN e.kids[1] ELSE e
\* Mutant: the result is written over the words below the frame.
GenerateReturnLow(st, f) ==
  LET e == StripReturnCast(st.e)
  IN (IF e = NoNode \/ Size(e.t) = 0 THEN <<>> ELSE Generate(e) \o <<Code("LOADP", e.t, "null", -8)>>)
       \o WriteReturn(f)
GenerateReturn(st, f) ==
  LET e == StripReturnCast(st.e)
  IN (IF e = NoNode \/ Size(e.t) = 0 THEN <<>>
      ELSE Generate(e) \o <<Code("LOADP", e.t, "null", -8 - Bytes(e.t))>>)
       \o WriteReturn(f)

GenerateStatement(st, f) ==
  CASE st.k = "expr" -> Generate(st.e) \o PopOf(st.e.t)
    [] st.k = "declare" -> GenerateDeclaration(st.x, st.e)
    [] st.k = "return" -> GenerateReturn(st, f)
    [] st.k = "test" -> Generate(st.e) \o <<Code("JUMPNIF", st.e.t, "null", 0)>>

\* buildFunction
LsoBody(f, body) ==
  FlattenSeq([i \in DOMAIN body |-> GenerateStatement(DesugarStatement(body[i], f, FALSE), f)])
    \o IF AllPathsReturn(body) THEN <<>> ELSE WriteReturn(f)
=============================================================================
