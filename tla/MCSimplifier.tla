----------------------------- MODULE MCSimplifier -----------------------------
(***************************************************************************)
(* Programs with two globals g and k, two functions f and h and an event   *)
(* handler, in every combination of the initializers and bodies below:     *)
(* chains of declarations that become unused one after another, recursion  *)
(* of one and of two functions, locals with and without side effects.      *)
(***************************************************************************)
EXTENDS Simplifier

\* A tree, written with names in place of unit numbers.
T(kind, name, kids) == [kind |-> kind, name |-> name, kids |-> kids, list |-> FALSE]
Lit == T("lit", "", <<>>)
Get(x) == T("get", x, <<>>)
Set(x) == T("set", x, <<>>)
Call(f) == T("call", f, <<>>)
Op(kids) == T("op", "", kids)
Local(x, init) == T("decl", x, init)

\* The units of the trees s in depth-first order, numbered from n + 1.
RECURSIVE Flatten(_, _)
Flatten(s, n) ==
  IF s = <<>> THEN <<>>
  ELSE LET t == Head(s)
           below == Flatten(t.kids, n)
           unit == [kind |-> t.kind, first |-> n + 1, name |-> t.name, list |-> t.list]
       IN below \o <<unit>> \o Flatten(Tail(s), n + Len(below) + 1)

\* The names resolved to the units that declare them.
Resolve(units) ==
  [i \in DOMAIN units |->
     [kind |-> units[i].kind, first |-> units[i].first, list |-> units[i].list,
      of |-> IF units[i].kind \in {"get", "set", "call"}
             THEN CHOOSE d \in DOMAIN units :
                    units[d].kind \in {"func", "gvar", "decl"} /\ units[d].name = units[i].name
             ELSE 0]]

Initializers == {<<>>, <<Lit>>}
OfG == {<<>>, <<Get("g")>>, <<Op(<<Get("g"), Lit>>)>>}
BodiesOfF == {
  <<Get("g")>>, <<Call("f")>>, <<Call("f"), Call("h")>>, <<Set("g")>>,
  <<Local("x", <<Get("g")>>)>>, <<Local("x", <<Call("h")>>)>>,
  <<Local("x", <<Lit>>), Op(<<Get("x"), Get("x")>>)>>,
  <<Local("x", <<>>), Op(<<Set("x"), Call("f"), Call("f")>>), Get("x")>>}
BodiesOfH == {<<>>, <<Get("k")>>, <<Call("f")>>, <<Call("h"), Set("k")>>}
BodiesOfHandler == {
  <<>>, <<Call("f")>>, <<Op(<<Get("k"), Lit>>)>>,
  <<Local("y", <<Op(<<Get("k"), Get("g")>>)>>), Get("y")>>}

MCPrograms ==
  {Resolve(Flatten(
     << [T("gvar", "g", g) EXCEPT !.list = l], T("gvar", "k", k),
        T("func", "f", f), T("func", "h", h), T("handler", "", e) >>, 0)) :
   g \in Initializers, l \in BOOLEAN, k \in OfG,
   f \in BodiesOfF, h \in BodiesOfH, e \in BodiesOfHandler}
  \cup
  \* functions above the globals they use
  {Resolve(Flatten(
     << T("func", "f", f), T("func", "h", h), T("gvar", "g", <<Lit>>), T("gvar", "k", k),
        T("handler", "", e) >>, 0)) :
   k \in OfG, f \in BodiesOfF, h \in BodiesOfH, e \in BodiesOfHandler}

MCOptionSets == {Options, {"fold_constants", "prune_unused_locals"}, Options \ {"fold_constants"}}
=============================================================================
