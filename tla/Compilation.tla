------------------------------ MODULE Compilation ------------------------------
(***************************************************************************)
(* One statement from its text to what both targets do with it.  An        *)
(* expression is written and checked from the inside out; then it becomes  *)
(* a statement of a function, and the script that calls the function is    *)
(* compiled and run: as the language means it, as CIL with and without the *)
(* optional shortcuts of the Mono back end, and as LSO bytecode.           *)
(***************************************************************************)
EXTENDS MonoMachine, LsoMachine

CONSTANTS
  Leaves,      \* typed expressions without children
  Companions,  \* those that may be the other side of an operator
  Callees,     \* functions an expression may call
  Declarables, \* locals the statement may declare
  Prelude,     \* what the function does before the statement
  Library,     \* [name -> body] of the functions that may be called
  EntryCall,   \* [name -> the call of a function under test, with its arguments]
  MaxNodes     \* bound on the operators written around the first leaf

Plain == [optimizeSubtractions |-> FALSE, omitPushes |-> FALSE]
Tuned == [optimizeSubtractions |-> TRUE, omitPushes |-> TRUE]

VARIABLES expr, nodes, complaints, stage, script, meaning, plain, tuned, lso
results == <<meaning, plain, tuned, lso>>
vars == <<expr, nodes, complaints, stage, script, results>>

NoResult == [glob |-> <<>>, trace |-> <<>>, status |-> "none"]
NoScript == [st |-> Statement("none", "", NoNode), f |-> "entry"]

Init ==
  /\ \E e \in Leaves : expr = Typed(e) /\ complaints = IF Mistaken(e) THEN 1 ELSE 0
  /\ nodes = 0
  /\ stage = "writing"
  /\ script = NoScript
  /\ meaning = NoResult /\ plain = NoResult /\ tuned = NoResult /\ lso = NoResult

-----------------------------------------------------------------------------
\* The parser makes a node of what it has, the checker types it.
Make(e) ==
  /\ expr' = Typed(e)
  /\ complaints' = complaints + IF Mistaken(e) THEN 1 ELSE 0
  /\ nodes' = nodes + 1
  /\ UNCHANGED <<stage, script, results>>

Assignable(e) == e.k = "lvalue"
WriteUnary(op) == (Mutates(op) => Assignable(expr)) /\ Make(Node("unary", op, "null", <<expr>>))
WriteBinary(op, l, r) == (Mutates(op) => Assignable(l)) /\ Make(Node("binary", op, "null", <<l, r>>))
WriteParenthesis == Make(Node("paren", "(", "null", <<expr>>))
WriteCast(t) == Make(Node("cast", "", t, <<expr>>))
WriteCoordinates(t, es) == Make(Node(t, "", t, es))
WriteList(es) == Make(Node("list", "", "list", es))
WriteCall(f, es) == Make(Node("call", f, "null", es))
WritePrint == Make(Node("print", "", "null", <<expr>>))

Writing ==
  /\ stage = "writing" /\ nodes < MaxNodes /\ (complaints = 0 \/ expr.t = "error")
  /\ \/ \E op \in UnaryOps : WriteUnary(op)
     \/ \E op \in BinaryOps, other \in Companions : WriteBinary(op, expr, other)
     \/ \E op \in BinaryOps, other \in Companions : WriteBinary(op, other, expr)
     \/ WriteParenthesis
     \/ \E t \in ValueTypes : WriteCast(t)
     \/ \E other \in Companions : WriteCoordinates("vector", <<other, expr, other>>)
     \/ \E other \in Companions : WriteCoordinates("rotation", <<expr, other, other, expr>>)
     \/ \E other \in Companions : WriteList(<<other, expr>>) \/ WriteList(<<expr, other, expr>>)
     \/ \E f \in Callees, other \in Companions : WriteCall(f, <<expr, other>>) \/ WriteCall(f, <<expr>>)
     \/ WritePrint

\* The expression becomes a statement of function f.
Finish(k, x, f) ==
  LET st == Statement(k, x, expr)
  IN /\ stage = "writing" /\ (complaints = 0 \/ expr.t = "error")
     /\ script' = [st |-> st, f |-> f]
     /\ complaints' = complaints + IF BadStatement(st, f) THEN 1 ELSE 0
     /\ stage' = "written"
     /\ UNCHANGED <<expr, nodes, results>>

UnderTest == DOMAIN EntryCall
Finishing ==
  \/ \E k \in {"expr", "test"} : Finish(k, "", "procedure")
  \/ \E x \in Declarables : Finish("declare", x, "procedure")
  \/ \E f \in UnderTest, x \in {"", "nested"} : Finish("return", x, f)

\* The script: a handler that calls the function and prints what it returns.
PrintOf(e) == Statement("expr", "", Node("print", "", "null", <<e>>))
Body ==
  Prelude \o <<script.st>>
    \o IF script.st.k = "declare" THEN <<PrintOf(Node("lvalue", script.st.x, Variables[script.st.x].t, <<>>))>>
       ELSE <<>>
Entry(f) == <<IF Functions[f].t = "null" THEN Statement("expr", "", EntryCall[f]) ELSE PrintOf(EntryCall[f])>>
Script ==
  [f \in DOMAIN Library \cup {"entry", script.f} |->
     CASE f = "entry" -> Entry(script.f) [] f = script.f -> Body [] OTHER -> Library[f]]

\* What is compared: the globals and the events, and how the machine stopped.
Outcome(s) == [glob |-> s.glob, trace |-> s.trace, status |-> "running"]
MonoOutcome(m) == [glob |-> m.glob, trace |-> m.trace, status |-> m.status]
LsoOutcome(m) ==
  [glob |-> IF m.status = "stuck" THEN <<>> ELSE GlobalsOf(m), trace |-> m.trace, status |-> m.status]

\* The script compiles when nothing was complained of.
Compile ==
  /\ stage = "written" /\ complaints = 0
  /\ meaning' = Outcome(Meaning(Script))
  /\ plain' = MonoOutcome(MonoMeaning(Script, Plain))
  /\ tuned' = MonoOutcome(MonoMeaning(Script, Tuned))
  /\ lso' = LsoOutcome(LsoMeaning(Script))
  /\ stage' = "ran"
  /\ UNCHANGED <<expr, nodes, complaints, script>>

Next == Writing \/ Finishing \/ Compile
Spec == Init /\ [][Next]_vars

-----------------------------------------------------------------------------
(* Properties *)

\* A mistake is reported once: what is written around an expression that has
\* no type is not complained of for that (type_checking.cc, "this is just an
\* error bubbling up"), unless it is wrong by itself.
WrongByItself(e) ==
  \A t \in ValueTypes :
    Mistaken([e EXCEPT !.kids = [i \in DOMAIN @ |-> IF @[i].t = "error" THEN [@[i] EXCEPT !.t = t] ELSE @[i]]])
NoEcho ==
  [][expr.t = "error" /\ complaints' > complaints => stage' = "writing" /\ WrongByItself(expr')]_vars

RECURSIVE NodesOf(_)
NodesOf(e) == {e} \cup UNION {NodesOf(e.kids[i]) : i \in DOMAIN e.kids}
\* The compound assignment the checker warns of, and the code both targets
\* make of it, is not sugar for anything: nothing is claimed of it.
Warned == \E e \in NodesOf(expr) : e.k = "binary" /\ MulAssignWarned(e.op, e.kids[1], e.kids[2])
Ran == stage = "ran" /\ ~Warned

\* Once a statement is desugared nothing is left to convert: what is
\* assigned has the type of the variable, an argument that of its parameter,
\* a component is a float, and for Mono both sides of an operator are
\* numbers of one type; no compound assignment is left.
Explicit(e, mono) ==
  CASE e.k = "binary" ->
         LET l == e.kids[1]  r == e.kids[2]
         IN /\ e.op \notin CompoundOps
            /\ e.op = "=" => l.t = r.t /\ e.t = l.t
            /\ mono => ~("integer" \in {l.t, r.t} /\ {l.t, r.t} \cap ({"float"} \cup Coordinates) # {})
    [] e.k = "call" -> \A i \in DOMAIN e.kids : e.kids[i].t = Variables[Functions[e.op].params[i]].t
    [] e.k \in Coordinates -> \A i \in DOMAIN e.kids : e.kids[i].t = "float"
    [] OTHER -> ~Builtin(e)
SugarIsGone ==
  stage = "written" /\ complaints = 0 /\ ~Warned =>
    \A mono \in BOOLEAN : \A e \in NodesOf(DesugarStatement(script.st, script.f, mono).e) : Explicit(e, mono)

\* CIL for an accepted script is well typed: every instruction finds what it
\* takes on the stack, a method leaves exactly its result there, and no
\* assertion of the compiler fails; and it does what the script means: the
\* globals it leaves, the calls it makes and what it prints, in order, with
\* and without the optional shortcuts.
MonoKeepsMeaning ==
  Ran => \A code \in {plain, tuned} :
           code.status = "done" /\ code.glob = meaning.glob /\ code.trace = meaning.trace

\* What the LSO back end does on purpose or by accident: a float function
\* keeps the integer it was told to return, and a function without a value
\* that is returned under a condition is not called.
KeepsInteger == script.st.k = "return" /\ expr.t = "integer" /\ Functions[script.f].t = "float"
DropsCall == script.st.k = "return" /\ expr.t = "null"

\* LSO bytecode for an accepted script finds on the stack words of the types
\* its opcodes are told, finds the base pointer where the frame starts, and
\* leaves the stack as it was when the handler was called; and it does what
\* the script means.
LsoKeepsMeaning ==
  Ran /\ ~KeepsInteger =>
    /\ lso.status = "returned"
    /\ ~DropsCall => lso.glob = meaning.glob /\ lso.trace = meaning.trace
=============================================================================
