------------------------------- MODULE MCSymbols -------------------------------
(***************************************************************************)
(* Scripts of two globals, a function and a handler, in which few names    *)
(* stand for many things; names of the language and names that look made   *)
(* up are among them.                                                      *)
(***************************************************************************)
EXTENDS Symbols, MCBody

Read1(x) == S("read", x, <<>>)
Call(f) == S("call", f, <<>>)
Switch(s) == S("switch", s, <<>>)
Variable(x, uses) == S("variable", x, uses)
Local(x, uses) == S("local", x, uses)
Function(f, x, stmts) == S("function", f, <<S("param", x, <<>>), Block(stmts)>>)
Handler(e, stmts) == S("handler", e, <<Block(stmts)>>)
StateOf(s, handlers) == S("state", s, handlers)
Script(globals, stmts, others) ==
  S("script", "", globals \o <<StateOf("default", <<Handler("touch", stmts)>>)>> \o others)

\* Declarations and uses of x in blocks and functions.
Statements ==
  {Local("x", <<>>), Local("x", <<Read1("x")>>), Local("y", <<Read1("x")>>), Read1("x"), Call("x"),
   Block(<<Local("x", <<Read1("x")>>), Read1("x")>>), Block(<<Read1("y"), Call("say")>>),
   Label("x"), Jump("x"), Block(<<Label("x"), Jump("x")>>), Local("say", <<>>), Label("PI"), Switch("x")}
Globals ==
  {<<Variable("x", <<>>)>>, <<Variable("x", <<Read1("y")>>), Variable("y", <<>>)>>,
   <<Variable("y", <<Read1("PI")>>), Variable("x", <<Read1("y")>>)>>}
Functions(b) ==
  {<<Function(f, p, b), Variable("y", <<>>)>> : f \in {"x", "y", "say"}, p \in {"x", "y", "say", "touch"}}
Others ==
  {<<>>, <<StateOf("x", <<Handler("touch", <<Jump("y"), Label("y")>>), Handler("tick", <<>>)>>)>>,
   <<StateOf("s", <<Handler("y", <<Read1("x")>>), Handler("touch", <<>>), Handler("touch", <<>>)>>)>>}

\* A function called by initializers before and behind it.
Calling(f) ==
  LET early == Variable("s", <<S("call", "x", <<Read1("y")>>), Read1("PI")>>)  y == Variable("y", <<>>)
  IN {<<early, y, f>>, <<y, early, f>>, <<y, f, early>>, <<f, early, y>>}

Scoping ==
  {Script(g, <<s, t>>, o) : g \in Globals, s, t \in Statements, o \in Others}
    \cup {Script(g, <<Jump("x"), Block(<<Label("x")>>), t>>, o) :
            g \in UNION {Functions(<<s, u>>) : s \in Statements, u \in {Read1("x"), Label("x"), Block(<<Label("x")>>)}},
            t \in {Label("x"), Switch("x")}, o \in {<<>>}}
    \cup {Script(g, <<t>>, <<>>) :
            g \in UNION {Calling(Function(f, "y", <<Read1("s")>>)) : f \in {"x", "y"}}, t \in Statements}

\* Scripts that have been given new names before.
Old == {"_0", "_1", "_2"}
Remangled ==
  {Script(<<Variable(a, <<>>), Function(f, p, <<Local(x, <<Read1(a)>>), Read1(p), Read1(a), Block(<<Local(y, <<Read1(x)>>), Read1(y)>>)>>)>>,
          <<Call(f), Read1(a), Label(l), Jump(l)>>, <<>>) :
     a, f, p, x, y, l \in Old}

MCScripts == {Nodes(s, 0, 1) : s \in Scoping \cup Remangled}
MCBuiltins ==
  {[name |-> "say", type |-> "function"], [name |-> "PI", type |-> "variable"],
   [name |-> "touch", type |-> "event"], [name |-> "tick", type |-> "event"]}
Digits == <<"0", "1", "2", "3", "4", "5", "6", "7", "8", "9", "a", "b", "c", "d", "e", "f">>
MCMangledNames ==
  [i \in 1 .. 64 |-> "_" \o (IF i <= 16 THEN "" ELSE Digits[((i - 1) \div 16) + 1]) \o Digits[((i - 1) % 16) + 1]]
MCNameOrder == <<"PI", "_0", "_1", "_2", "default", "s", "say", "tick", "touch", "x", "y">>
MCNames == {"x", "y"}
=============================================================================
