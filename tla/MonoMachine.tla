------------------------------ MODULE MonoMachine ------------------------------
(***************************************************************************)
(* The typed stack machine that runs the CIL of MonoCode: the instructions *)
(* of the virtual machine and the methods of the LSL runtime, as the       *)
(* compiler uses them.  An instruction that does not find the types it     *)
(* needs on the stack, or the place an assertion fails in the compiler,    *)
(* leaves the machine stuck.                                               *)
(*                                                                         *)
(* m is [code, glob, args, locals, stack, trace, status].                  *)
(***************************************************************************)
EXTENDS MonoCode
LOCAL INSTANCE SequencesExt

This == Value("this", <<>>)
Address(kind, x) == Value("address", <<kind, x>>)
Stuck(m) == [m EXCEPT !.status = "stuck"]

Fits(v, t) == v.t = t \/ (t = "object" /\ v.t \in {"string", "list"})
Has(m, sig) ==
  LET base == Len(m.stack) - Len(sig)
  IN base >= 0 /\ \A i \in DOMAIN sig : Fits(m.stack[base + i], sig[i])
Below(m, n) == SubSeq(m.stack, 1, Len(m.stack) - n)
Tops(m, n) == SubSeq(m.stack, Len(m.stack) - n + 1, Len(m.stack))
Top(m) == m.stack[Len(m.stack)]
\* Values of the types sig are taken from the stack, the values vs put there.
Exchange(m, sig, vs) == IF Has(m, sig) THEN [m EXCEPT !.stack = Below(m, Len(sig)) \o vs] ELSE Stuck(m)
Push(m, v) == [m EXCEPT !.stack = Append(@, v)]

\* Two numbers of one type; the upper is the second operand.
Pair(m) == Len(m.stack) >= 2 /\ \E t \in Numeric : Has(m, <<t, t>>)
Arithmetical(m, op) ==
  IF Pair(m) THEN LET two == Tops(m, 2) IN [m EXCEPT !.stack = Append(Below(m, 2), Operation(op, two[1], two[2]))]
  ELSE Stuck(m)
Bitwise(m, op) == IF Has(m, <<"integer", "integer">>) THEN Arithmetical(m, op) ELSE Stuck(m)

\* The number of a parameter in its function.
ArgumentNumber(x) ==
  LET f == CHOOSE g \in DOMAIN Functions : \E i \in DOMAIN Functions[g].params : Functions[g].params[i] = x
  IN CHOOSE i \in DOMAIN Functions[f].params : Functions[f].params[i] = x
Addressed(m, at) ==
  CASE at[1] = "glob" -> m.glob[at[2]] [] at[1] = "loc" -> m.locals[at[2]] [] OTHER -> m.args[ArgumentNumber(at[2])]
StoreMember(m, at, member, v) ==
  CASE at[1] = "glob" -> [m EXCEPT !.glob[at[2]] = WithMember(@, member, v)]
    [] at[1] = "loc" -> [m EXCEPT !.locals[at[2]] = WithMember(@, member, v)]
    [] OTHER -> [m EXCEPT !.args[ArgumentNumber(at[2])] = WithMember(@, member, v)]
HasAddress(m, n) == Len(m.stack) >= n /\ m.stack[Len(m.stack) - n + 1].t = "address"

\* The methods of the runtime.  They get what is on top as the last argument.
Result(c, a) ==
  LET words == FlattenSeq([i \in DOMAIN a |-> a[i].w])
  IN CASE c.x \in DOMAIN MethodOperators -> Operation(MethodOperators[c.x], a[2], a[1])
       [] c.x = "Negate" -> UnaryOperation("-", a[1])
       [] c.x = "IsNonNullUuid" -> Value("integer", <<Truth(a[1])>>)
       [] c.x \in {"CreateVector", "CreateQuaternion"} -> Value(c.t, words)
       [] c.x = "CreateList" -> ListOf(IF a = <<>> THEN <<>> ELSE Parts(a[1]))
       [] c.x = "Append" -> ListOf(Parts(a[2]) \o Parts(a[1]))
       [] c.x = "Prepend" /\ c.sig[1] = "object" -> ListOf(Parts(a[1]) \o Parts(a[2]))
       [] c.x = "Prepend" -> ListOf(Parts(a[2]) \o Parts(a[1]))
       [] c.x \in DOMAIN Functions -> Opaque(c.x, c.t, words)
       [] OTHER -> Cast(c.t, a[1])
Unboxed(v) == IF v.t = "object" THEN v.w[1] ELSE v

FreshLocals ==
  [f \in DOMAIN Functions |-> [i \in DOMAIN Functions[f].locals |-> Default(Variables[Functions[f].locals[i]].t)]]
RECURSIVE MonoRun(_, _)
\* A method of the script: its own arguments and locals, and an empty stack.
CallScript(m, c) ==
  LET F == Functions[c.x]
      a == Tops(m, Len(F.params))
      ran == MonoRun(m.code[c.x],
               [m EXCEPT !.stack = <<>>,
                  !.args = a, !.locals = FreshLocals[c.x]])
      returned == IF F.t = "null" THEN <<>> ELSE <<F.t>>
  IN IF ~Has(m, c.sig) \/ ran.status # "done" \/ Len(ran.stack) # Len(returned) \/ ~Has(ran, returned)
     THEN Stuck(m)
     ELSE [ran EXCEPT !.args = m.args, !.locals = m.locals, !.status = "running",
                      !.stack = Below(m, Len(c.sig)) \o ran.stack]
Reported(m, c, args) ==
  LET words == FlattenSeq([i \in DOMAIN args |-> args[i].w])
  IN CASE c.x = "Print" -> Notify(m, Event("print", words))
       [] c.x \in DOMAIN Functions -> Notify(m, Event(c.x, words))
       [] OTHER -> m
RunMethod(m, c, args) ==
  Exchange(Reported(m, c, args), c.sig, IF c.t = "null" THEN <<>> ELSE <<Result(c, args)>>)
CallLibrary(m, c) ==
  LET taken == Tops(m, Len(c.sig)) IN RunMethod(m, c, [i \in DOMAIN taken |-> Unboxed(taken[i])])

Call(m, c) == IF c.x \in DOMAIN Functions /\ ~Functions[c.x].builtin THEN CallScript(m, c) ELSE CallLibrary(m, c)

Type(c) == Variables[c.x].t
LoadVariable(m, c) ==
  CASE c.i = "ldarg.0" -> Push(m, This)
    [] c.i = "ldfld" -> Exchange(m, <<"this">>, <<m.glob[c.x]>>)
    [] c.i = "ldflda" -> Exchange(m, <<"this">>, <<Address("glob", c.x)>>)
    [] c.i = "ldloc" -> Push(m, m.locals[c.x])
    [] c.i = "ldloca" -> Push(m, Address("loc", c.x))
    [] c.i = "ldarg" -> Push(m, m.args[ArgumentNumber(c.x)])
    [] c.i = "ldarga" -> Push(m, Address("arg", c.x))
    [] c.i = "ldfld member" ->
         IF HasAddress(m, 1) THEN Push([m EXCEPT !.stack = Below(m, 1)], Member(Addressed(m, Top(m).w), c.x))
         ELSE Stuck(m)
StoreVariable(m, c) ==
  LET taken(sig) == Exchange(m, sig, <<>>)
  IN CASE c.i = "stfld" -> [taken(<<"this", Type(c)>>) EXCEPT !.glob[c.x] = Top(m)]
       [] c.i = "stloc" -> [taken(<<m.locals[c.x].t>>) EXCEPT !.locals[c.x] = Top(m)]
       [] c.i = "starg" -> [taken(<<Type(c)>>) EXCEPT !.args[ArgumentNumber(c.x)] = Top(m)]
       [] c.i = "stfld member" ->
            IF HasAddress(m, 2) /\ Has(m, <<"float">>)
            THEN StoreMember([m EXCEPT !.stack = Below(m, 2)], m.stack[Len(m.stack) - 1].w, c.x, Top(m))
            ELSE Stuck(m)
ArithmeticalOps == [add |-> "+", sub |-> "-", mul |-> "*", ceq |-> "==", clt |-> "<", cgt |-> ">"]
BitwiseOps == [and |-> "&", or |-> "|", xor |-> "^"]
Compute(m, c) ==
  CASE c.i \in DOMAIN ArithmeticalOps -> Arithmetical(m, ArithmeticalOps[c.i])
    [] c.i \in DOMAIN BitwiseOps -> Bitwise(m, BitwiseOps[c.i])
    [] c.i = "not" -> IF Has(m, <<"integer">>) THEN [m EXCEPT !.stack[Len(m.stack)] = UnaryOperation("~", @)] ELSE Stuck(m)
    [] c.i = "neg" -> IF m.stack # <<>> /\ Top(m).t \in Numeric
                      THEN [m EXCEPT !.stack[Len(m.stack)] = UnaryOperation("-", @)] ELSE Stuck(m)
    [] c.i = "conv.r8" -> Exchange(m, <<"integer">>, <<Cast("float", Top(m))>>)

Loads == {"ldarg.0", "ldfld", "ldflda", "ldloc", "ldloca", "ldarg", "ldarga", "ldfld member"}
Stores == {"stfld", "stloc", "starg", "stfld member"}

Step(m, c) ==
  CASE m.status # "running" -> m
    [] c.i \in Loads -> LoadVariable(m, c)
    [] c.i \in Stores -> IF m.stack = <<>> THEN Stuck(m) ELSE StoreVariable(m, c)
    [] c.i = "ldc" -> Push(m, Literal(c.t, c.x))
    [] c.i = "dup" -> IF m.stack = <<>> THEN Stuck(m) ELSE Push(m, Top(m))
    [] c.i = "pop" -> IF m.stack = <<>> THEN Stuck(m) ELSE [m EXCEPT !.stack = Below(m, 1)]
    [] c.i = "box" -> Exchange(m, c.sig, <<Value("object", Tops(m, 1))>>)
    [] c.i = "call" -> Call(m, c)
    [] c.i = "brfalse" -> IF Has(m, <<"integer">>)
                          THEN Notify([m EXCEPT !.stack = Below(m, 1)], Event("test", Top(m).w)) ELSE Stuck(m)
    [] c.i = "ret" -> [m EXCEPT !.status = "done"]
    [] c.i = "assert" -> Stuck(m)
    [] OTHER -> Compute(m, c)

MonoRun(code, m) == FoldLeft(Step, m, code)

\* The script, from its entry.
Loaded(code) ==
  [code |-> code, glob |-> InitialGlobals, args |-> <<>>, locals |-> <<>>, stack |-> <<>>,
   trace |-> <<>>, status |-> "running"]
MonoStart(code) == MonoRun(code["entry"], Loaded(code))
EmptyAtEnd(m) == IF m.stack # <<>> THEN Stuck(m) ELSE m
MonoMeaning(prog, o) == EmptyAtEnd(MonoStart([f \in DOMAIN prog |-> MonoBody(f, prog[f], o)]))
=============================================================================
