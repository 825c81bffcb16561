------------------------------- MODULE MCScript -------------------------------
(***************************************************************************)
(* A script has globals and statements.  Statements are compiled with      *)
(* globals that hold any values when they run, so either half is checked   *)
(* by itself: in each behaviour one of them rests.                         *)
(*                                                                         *)
(* The globals: up to four of which each reads the one before it, and any  *)
(* two.                                                                    *)
(***************************************************************************)
EXTENDS MCCompilation, Globals
LOCAL INSTANCE TLC

ScriptVariables ==
  MCVariables @@ [i2 |-> Var("integer", "global"), f2 |-> Var("float", "global"), r2 |-> Var("rotation", "global"),
                  l2 |-> Var("list", "global"), PI |-> Var("float", "builtin"),
                  undeclared |-> Var("error", "none")]
    @@ ("TRUE" :> Var("integer", "builtin"))
ScriptGlobals == MCGlobals \o <<"i2", "f2", "r2", "l2">>
ScriptFunctions == MCFunctions @@ [llAbs |-> Fn("integer", <<"pi">>, <<>>, TRUE)]

\* As the parser makes them; the type checker sees whole scripts.
Use(x) == Node("lvalue", x, "null", <<>>)
UseOf(x, m) == [Use(x) EXCEPT !.m = m]
BinaryOf(op, l, r) == Node("binary", op, "null", <<l, r>>)
Minus(e) == Node("unary", "-", "null", <<e>>)
Parenthesis(e) == Node("paren", "(", "null", <<e>>)
To(t, e) == Node("cast", "(", t, <<e>>)
Vector(a, b, c) == Node("vector", "<", "vector", <<a, b, c>>)
List(es) == Node("list", "[", "list", es)
One1 == C("integer", "1")
D(x, e) == [x |-> x, init |-> e]

Declarations ==
  {D("gi", NoNode), D("gi", One1), D("gi", C("integer", "-1")), D("gi", Use("undeclared")), D("gi", C("string", "a")),
   D("gi", Use("TRUE")), D("gi", Minus(Use("TRUE"))),
   D("i2", Use("gi")), D("i2", Minus(Use("gi"))), D("i2", BinaryOf("+", Use("gi"), One1)), D("i2", Parenthesis(Use("gi"))),
   D("i2", BinaryOf("=", Use("gi"), One1)), D("i2", Node("call", "llAbs", "null", <<Use("gi")>>)), D("i2", To("integer", Use("gf"))),
   D("gf", NoNode), D("gf", One1), D("gf", Use("gi")), D("gf", Minus(Use("PI"))), D("gf", UseOf("gv", "x")), D("gf", UseOf("gv", "s")),
   D("f2", Use("gf")), D("f2", Minus(Use("gf"))),
   D("gs", NoNode), D("gs", C("string", "a")), D("gs", Use("gk")), D("gs", BinaryOf("+", C("string", "a"), C("string", "b"))),
   D("gk", NoNode), D("gk", Use("gs")), D("gk", C("string", "b")),
   D("gv", Vector(Use("gf"), One1, Use("PI"))), D("gv", Vector(Use("gi"), Use("f2"), Use("undeclared"))),
   D("gv", Vector(Use("gs"), One1, One1)), D("gv", Vector(Minus(Use("gf")), One1, One1)),
   D("gr", NoNode), D("gr", Use("ZERO")), D("gr", Minus(Use("ZERO"))), D("r2", Use("gr")),
   D("gl", List(<<>>)), D("gl", List(<<Use("gi"), Use("PI")>>)), D("gl", List(<<Use("f2"), Vector(Use("f2"), One1, One1)>>)),
   D("gl", List(<<Use("gk"), C("string", "a")>>)), D("gl", List(<<Use("r2"), Use("ZERO")>>)), D("gl", List(<<Use("gv")>>)),
   D("gl", List(<<Use("undeclared"), Use("i2")>>)), D("gl", List(<<Minus(Use("f2")), Minus(Use("PI"))>>)),
   D("l2", Use("gl")), D("l2", To("list", Use("gk"))), D("l2", List(<<Use("gf")>>))}

RECURSIVE Reads(_)
Reads(e) ==
  (IF e.k = "lvalue" /\ e.op \notin {"PI", "TRUE", "ZERO", "undeclared"} THEN {e.op} ELSE {})
    \cup UNION {Reads(e.kids[n]) : n \in DOMAIN e.kids}

NamesIn(s) == {s[n].x : n \in DOMAIN s}
Follows(d, s) == d.x \notin NamesIn(s) /\ Reads(d.init) \subseteq NamesIn(s)
Pairs == {<<c, d>> \in Declarations \X Declarations : Follows(c, <<>>) /\ Follows(d, <<c>>)}
Longer(chains) ==
  {Append(p[1], p[2]) : p \in {p \in chains \X Declarations :
     Follows(p[2], p[1]) /\ p[1][Len(p[1])].x \in Reads(p[2].init)}}
Chains3 == Longer(Longer({<<d>> : d \in {c \in Declarations : Follows(c, <<>>)}}))

RECURSIVE AllTyped(_)
AllTyped(e) == Typed([e EXCEPT !.kids = [n \in DOMAIN @ |-> AllTyped(@[n])]])
MCSources ==
  {[n \in DOMAIN s |-> D(s[n].x, AllTyped(s[n].init))] : s \in Pairs \cup Chains3 \cup Longer(Chains3)}
MCOptions == {{}, {"fold"}, {"prune", "fold"}, {"lso"}, {"lso", "prune"}, {"lso", "fold"}}

ScriptInit ==
  \/ /\ Init
     /\ source = <<>> /\ globals = <<>> /\ options = {} /\ written = {} /\ phase = "done" /\ at = 1
     /\ changed = FALSE /\ constants = <<>> /\ refused = {} /\ memory = <<>>
  \/ /\ GlobalsInit
     /\ expr = NoNode /\ nodes = 0 /\ complaints = 0 /\ stage = "none" /\ script = NoScript
     /\ meaning = NoResult /\ plain = NoResult /\ tuned = NoResult /\ lso = NoResult
ScriptNext ==
  \/ Next /\ UNCHANGED globalVars
  \/ GlobalsNext /\ UNCHANGED vars
ScriptSpec == ScriptInit /\ [][ScriptNext]_<<vars, globalVars>>
=============================================================================
