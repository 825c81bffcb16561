---------------------------- MODULE MCCompilation ----------------------------
(***************************************************************************)
(* Scripts with a global, a parameter or a local of every type, a user     *)
(* function `change` that changes the globals its caller reads, and one of *)
(* the library.  The functions under test have one layout.                 *)
(***************************************************************************)
EXTENDS Compilation

Var(t, sub) == [t |-> t, sub |-> sub]
MCVariables ==
  [gi |-> Var("integer", "global"), gf |-> Var("float", "global"), gs |-> Var("string", "global"),
   gk |-> Var("key", "global"), gv |-> Var("vector", "global"), gr |-> Var("rotation", "global"),
   gl |-> Var("list", "global"),
   pi |-> Var("integer", "param"), pv |-> Var("vector", "param"),
   cf |-> Var("float", "param"), ci |-> Var("integer", "param"),
   ls |-> Var("string", "param"), lk |-> Var("integer", "param"),
   lf |-> Var("float", "local"), lv |-> Var("vector", "local"),
   df |-> Var("float", "local"), ds |-> Var("string", "local"),
   ZERO |-> Var("rotation", "builtin")]
MCGlobals == <<"gi", "gf", "gs", "gk", "gv", "gr", "gl">>

Fn(t, params, locals, builtin) == [t |-> t, params |-> params, locals |-> locals, builtin |-> builtin]
Test(t) == Fn(t, <<"pi", "pv">>, <<"lf", "lv", "df", "ds">>, FALSE)
MCFunctions ==
  [entry |-> Fn("null", <<>>, <<>>, FALSE), procedure |-> Test("null"),
   float |-> Test("float"), key |-> Test("key"), rotation |-> Test("rotation"),
   change |-> Fn("integer", <<"cf", "ci">>, <<>>, FALSE),
   reset |-> Fn("null", <<"cf">>, <<>>, FALSE),
   llSay |-> Fn("float", <<"ls">>, <<>>, TRUE)]

L(x, m) == Typed([Node("lvalue", x, "null", <<>>) EXCEPT !.m = m])
C(t, text) == Node("const", text, t, <<>>)
E(op, l, r) == Typed(Node("binary", op, "null", <<l, r>>))
Call1(f, es) == Typed(Node("call", f, "null", es))

Paren(e) == Typed(Node("paren", "(", "null", <<e>>))

\* Reads of every kind of variable and member, literals, and expressions
\* with an effect whose result is used.
MCLeaves ==
  {L("gi", ""), L("gf", ""), L("gs", ""), L("gk", ""), L("gv", ""), L("gr", ""), L("gl", ""),
   L("pi", ""), L("lv", ""), L("gv", "x"), L("pv", "z"), L("gr", "s"), L("lv", "y"), L("ZERO", ""),
   L("gi", "x"), C("integer", "-1"), C("string", "a"), C("list", ""),
   Typed(Node("unary", "x++", "null", <<L("gf", "")>>)), Paren(E("+=", L("gv", "x"), L("gi", ""))),
   E("-", L("gi", ""), L("gf", ""))}
\* One of every type; what changes globals, or what the other side may read.
MCCompanions ==
  {Call1("change", <<L("gi", ""), L("gi", "")>>), Paren(E("=", L("lf", ""), L("gi", ""))),
   L("gs", ""), L("gk", ""), L("gv", ""), L("gr", ""), L("gl", "")}
MCCallees == {"change", "reset", "llSay"}
MCDeclarables == {"df", "ds"}

Set(x, v) == Statement("expr", "", E("=", x, v))
MCPrelude == <<Statement("declare", "lf", NoNode), Statement("declare", "lv", L("gv", ""))>>
MCLibrary ==
  [change |-> <<Set(L("gf", ""), L("cf", "")), Set(L("gi", ""), E("+", L("gi", ""), L("ci", ""))),
                Statement("return", "", L("ci", ""))>>,
   reset |-> <<Set(L("gf", ""), L("cf", ""))>>]
MCEntryCall ==
  [f \in {"procedure", "float", "key", "rotation"} |-> Call1(f, <<L("gi", ""), L("gv", "")>>)]
=============================================================================
