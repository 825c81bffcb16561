------------------------------ MODULE MCLsoImage ------------------------------
(* Scripts of up to three globals and two states, in a memory that some of   *)
(* them do not fit in.                                                       *)
EXTENDS LsoImage

Const(t, d) == [form |-> "constant", value |-> [type |-> t, data |-> d]]
Unset == [form |-> "none"]
Name(n) == [form |-> "name", of |-> n]
ListOf(items) == [form |-> "list", items |-> items]
Variable(t, init) == [kind |-> "variable", type |-> t, init |-> init]

One == Const(Integer, 258)
Text == Const(String, <<65, 66>>)
Point == Const(Vector, <<1, 2, 3>>)

Constants == {
  Variable(Integer, One), Variable(String, Unset), Variable(Vector, Unset),
  Variable(List, ListOf(<<>>)), Variable(List, ListOf(<<Text, One, Point>>))}

Function(params, code) == [kind |-> "function", type |-> None, params |-> params, code |-> code]
FunctionItems == {Function(<<>>, <<201>>), Function(<<Integer, Vector>>, <<202, 203>>)}

\* What may name an earlier global: a list only one that has a value.
Naming(before) ==
  UNION {
    {Variable(before[n].type, Name(n))} \cup
      (IF before[n].type \in {Integer, String} /\ before[n].init.form = "constant"
       THEN {Variable(List, ListOf(<<Name(n), One>>))} ELSE {})
    : n \in {m \in 1 .. Len(before) : before[m].kind = "variable"}}

Longer(seqs) == UNION {{Append(s, g) : g \in Constants \cup FunctionItems \cup Naming(s)} : s \in seqs}
Globals == {<<>>} \cup Longer({<<>>}) \cup Longer(Longer({<<>>})) \cup Longer(Longer(Longer({<<>>})))

Handler(event, params, locals, code) ==
  [event |-> event, params |-> params, locals |-> locals, code |-> code]

EntryOnly == <<Handler(1, <<>>, <<Vector>>, <<211>>)>>
TimerFirst == <<Handler(12, <<>>, <<>>, <<212, 213>>), Handler(3, <<Integer>>, <<String>>, <<214>>)>>
StateLists == {<<EntryOnly>>, <<TimerFirst, EntryOnly>>}

SmallScripts == [globals : Globals, states : StateLists]
=============================================================================
