----------------------------- MODULE Expressions -----------------------------
(***************************************************************************)
(* What expressions and straight-line bodies of LSL mean, for both targets *)
(* the compilers generate code for: operands are evaluated from right to   *)
(* left, the parts of lists, vectors, rotations and calls from left to     *)
(* right, an integer is a float beside a float, a vector or a rotation.    *)
(*                                                                         *)
(* Values are symbolic.  A word is a term over the initial values of the   *)
(* variables; a value is a type and its words, three for a vector, four    *)
(* for a rotation.  Terms have a normal form, so that two ways to compute  *)
(* one thing yield the same term: a - b is b's opposite added to a, a > b  *)
(* is b < a, && and || are made of | and the test for zero.                *)
(*                                                                         *)
(* A node of a tree is [k, op, m, t, kids, made, needed]: its kind, its    *)
(* operator, name or literal, the member it reads, its type, its children, *)
(* whether the compiler made it, and whether its result is needed.         *)
(***************************************************************************)
EXTENDS Types, Sequences
LOCAL INSTANCE SequencesExt
LOCAL INSTANCE TLC

CONSTANTS
  Variables,  \* [name -> [t |-> type, sub |-> "global", "local", "param" or "builtin"]]
  Functions   \* [name -> [t |-> type, params |-> names, locals |-> names, builtin |-> BOOLEAN]]

Node(k, op, t, kids) ==
  [k |-> k, op |-> op, m |-> "", t |-> t, kids |-> kids, made |-> FALSE, needed |-> TRUE]
NoNode == Node("none", "", "null", <<>>)
Statement(k, x, e) == [k |-> k, x |-> x, e |-> e]

Axes == <<"x", "y", "z", "s">>
AxisOf(m) == CHOOSE i \in 1 .. 4 : Axes[i] = m
Size(t) == CASE t = "vector" -> 3 [] t = "rotation" -> 4 [] t \in {"null", "none"} -> 0 [] OTHER -> 1

Term(op, t, args) == [op |-> op, t |-> t, args |-> args]
\* Strings and keys are told apart by the type of the value, not by its word.
WordType(t) == CASE t \in Strings -> "text" [] t \in Coordinates -> "float" [] OTHER -> t
Value(t, w) == [t |-> t, w |-> w]
Void == Value("null", <<>>)

\* The value of type t that is one term, a component of it for each word.
Opaque(op, t, args) ==
  Value(t, IF Size(t) = 1 THEN <<Term(op, WordType(t), args)>>
           ELSE [i \in 1 .. Size(t) |-> Term(op, "float", <<Term(Axes[i], "axis", <<>>)>> \o args)])
ListOf(parts) == Value("list", <<Term("list", "list", parts)>>)
Parts(v) == IF v.t = "list" THEN v.w[1].args ELSE <<Term(v.t, "part", v.w)>>
Initial(x) ==
  IF Variables[x].t = "list" THEN ListOf(<<Term(x, "segment", <<>>)>>)
  ELSE Opaque(x, Variables[x].t, <<>>)
Literal(t, text) ==
  CASE t = "list" -> ListOf(<<>>)
    [] t \in Coordinates -> Value(t, [i \in 1 .. Size(t) |-> Term(IF i = 4 THEN "1" ELSE "0", "float", <<>>)])
    [] OTHER -> Value(t, <<Term(text, WordType(t), <<>>)>>)
Default(t) == IF t = "null" THEN Void ELSE Literal(t, IF t \in Strings THEN "" ELSE "0")
Member(v, m) == IF m = "" THEN v ELSE Value("float", <<v.w[AxisOf(m)]>>)
WithMember(v, m, new) == IF m = "" THEN new ELSE [v EXCEPT !.w[AxisOf(m)] = new.w[1]]
-----------------------------------------------------------------------------
(* Operations on words *)
Commuting(op, t, a, b) == Term(op, t, CHOOSE p \in {<<a, b>>, <<b, a>>} : TRUE)
IsZero(a) == Commuting("==", "integer", a, Term("0", a.t, <<>>))
Negated(a) == Term("neg", a.t, <<a>>)

WordOperation(op, t, a, b) ==
  CASE op = "-" -> Commuting("+", t, a, Negated(b))
    [] op = "+" /\ t = "text" -> Term("joined", t, <<a, b>>)
    [] op = "<" -> Term("<", "integer", <<a, b>>)
    [] op = ">" -> Term("<", "integer", <<b, a>>)
    [] op = ">=" -> IsZero(Term("<", "integer", <<a, b>>))
    [] op = "<=" -> IsZero(Term("<", "integer", <<b, a>>))
    [] op = "!=" -> IsZero(Commuting("==", "integer", a, b))
    [] op = "&&" -> IsZero(Commuting("|", "integer", IsZero(a), IsZero(b)))
    [] op = "||" -> IsZero(IsZero(Commuting("|", "integer", a, b)))
    [] op \in {"+", "*", "==", "&", "|", "^"} -> Commuting(op, t, a, b)
    [] OTHER -> Term(op, t, <<a, b>>)

Cast(to, v) ==
  CASE v.t = to -> v
    [] v.t \in Strings /\ to \in Strings -> Value(to, v.w)
    [] to = "list" -> ListOf(Parts(v))
    [] OTHER -> Opaque("cast", to, v.w)
Promoted(v, other) ==
  IF v.t = "integer" /\ other.t \in {"float"} \cup Coordinates THEN Cast("float", v) ELSE v

SameWords(l, r) == Commuting("==", "integer", Term(l.t, "part", l.w), Term(r.t, "part", r.w))
\* l op r of type t, for promoted operands and an operator that assigns nothing.
Operated(op, t, l, r) ==
  CASE op = "+" /\ t = "list" -> ListOf(Parts(l) \o Parts(r))
    [] op = "==" /\ l.t \in Coordinates \cup {"list"} -> Value(t, <<SameWords(l, r)>>)
    [] "list" \in {l.t, r.t} -> Opaque(op, t, l.w \o r.w)
    [] l.t \in Coordinates /\ op = "!=" -> Value(t, <<IsZero(SameWords(l, r))>>)
    [] {l.t, r.t} \cap Coordinates # {} -> Opaque(op, t, l.w \o r.w)
    [] OTHER -> Value(t, <<WordOperation(op, WordType(t), l.w[1], r.w[1])>>)
OperatedTyped(op, l, r) == Operated(op, ResultType(l.t, op, r.t), l, r)
Operation(op, left, right) == OperatedTyped(op, Promoted(left, right), Promoted(right, left))
UnaryOperation(op, v) ==
  CASE op = "!" -> Value(v.t, <<IsZero(v.w[1])>>)
    [] op = "-" /\ v.t \in Numeric -> Value(v.t, <<Negated(v.w[1])>>)
    [] OTHER -> Opaque(op, v.t, v.w)
One(t) == Literal(t, "1")
StepOperator(op) == IF op \in {"++x", "x++"} THEN "+" ELSE "-"

\* What a test sees of a value: a word that is zero or not.
Truth(v) ==
  CASE v.t = "integer" -> v.w[1]
    [] v.t = "key" -> Term("IsNonNullUuid", "integer", v.w)
    [] OTHER -> IsZero(Operation("==", v, Default(v.t)).w[1])
\* An event another program sees: a call of the library, a test, a print.
Event(name, words) == Term(name, "event", words)
Tested(v) == Event("test", <<Truth(v)>>)
Printed(v) == Event("print", Cast("string", v).w)
-----------------------------------------------------------------------------
(* Evaluation.  A world is [prog, glob, loc, trace]: the bodies of the     *)
(* functions, the globals, the locals and parameters of the function that  *)
(* runs, and the events so far.                                            *)
Names(sub) == {x \in DOMAIN Variables : Variables[x].sub = sub}
InitialGlobals == [x \in Names("global") |-> Initial(x)]
World(prog) == [prog |-> prog, glob |-> InitialGlobals, loc |-> <<>>, trace |-> <<>>]
Builtin(e) == e.k = "lvalue" /\ Variables[e.op].sub = "builtin"
Read(e, s) ==
  CASE Builtin(e) -> Default(Variables[e.op].t)
    [] Variables[e.op].sub = "global" -> Member(s.glob[e.op], e.m)
    [] OTHER -> Member(s.loc[e.op], e.m)
Write(e, v, s) ==
  IF Variables[e.op].sub = "global" THEN [s EXCEPT !.glob[e.op] = WithMember(@, e.m, v)]
  ELSE [s EXCEPT !.loc[e.op] = WithMember(@, e.m, v)]
Notify(s, event) == [s EXCEPT !.trace = Append(@, event)]
Done(s, v) == [s |-> s, v |-> v]

RECURSIVE Evaluate(_, _), Execute(_, _)

Evaluations(es, s) ==
  FoldLeft(LAMBDA done, e : LET o == Evaluate(e, done.s) IN Done(o.s, Append(done.v, o.v)),
           Done(s, <<>>), es)

Assign(e, v, s) ==
  LET new == Cast(Member(Initial(e.op), e.m).t, v) IN Done(Write(e, new, s), new)

Invoke(f, values, s) ==
  LET F == Functions[f]
      args == [i \in DOMAIN values |-> Cast(Variables[F.params[i]].t, values[i])]
      words == FlattenSeq([i \in DOMAIN args |-> args[i].w])
      frame == [x \in Range(F.params) |-> args[CHOOSE i \in DOMAIN args : F.params[i] = x]]
                 @@ [x \in Range(F.locals) |-> Default(Variables[x].t)]
      ran == Execute(s.prog[f], [s EXCEPT !.loc = frame])
  IN IF F.builtin
     THEN Done(Notify(s, Event(f, words)), IF F.t = "null" THEN Void ELSE Opaque(f, F.t, words))
     ELSE Done([ran.s EXCEPT !.loc = s.loc], Cast(F.t, ran.v))

\* x++, ++x, x--, --x
Stepping(e, old, s) ==
  LET done == Assign(e.kids[1], Operation(StepOperator(e.op), old, One(old.t)), s)
  IN IF e.op \in {"x++", "x--"} THEN Done(done.s, old) ELSE done

Evaluate(e, s) ==
  LET parts == Evaluations(e.kids, s)
      first == Evaluate(e.kids[1], s)
      right == Evaluate(e.kids[2], s)
      left == Evaluate(e.kids[1], right.s)
  IN CASE e.k = "const" -> Done(s, IF e.op = "-1" THEN UnaryOperation("-", One(e.t)) ELSE Literal(e.t, e.op))
       [] e.k = "lvalue" -> Done(s, Read(e, s))
       [] e.k = "paren" -> first
       [] e.k = "cast" -> Done(first.s, Cast(e.t, first.v))
       [] e.k = "unary" /\ e.op \in Increments ->
            Stepping(e, Read(e.kids[1], s), s)
       [] e.k = "unary" -> Done(first.s, UnaryOperation(e.op, first.v))
       [] e.k = "binary" /\ e.op = "=" -> Assign(e.kids[1], right.v, right.s)
       [] e.k = "binary" /\ Mutates(e.op) ->
            Assign(e.kids[1], Operation(Decouple(e.op), Read(e.kids[1], right.s), right.v), right.s)
       [] e.k = "binary" -> Done(left.s, Operation(e.op, left.v, right.v))
       [] e.k \in Coordinates ->
            Done(parts.s, Value(e.k, FlattenSeq([i \in DOMAIN parts.v |-> Cast("float", parts.v[i]).w])))
       [] e.k = "list" -> Done(parts.s, ListOf(FlattenSeq([i \in DOMAIN parts.v |-> Parts(parts.v[i])])))
       [] e.k = "call" -> Invoke(e.op, parts.v, parts.s)
       [] e.k = "print" -> Done(Notify(first.s, Printed(first.v)), Void)

\* Bodies are straight lines; a return under a condition that holds is
\* written with "nested" for its name.
AllPathsReturn(body) == \E i \in DOMAIN body : body[i].k = "return" /\ body[i].x # "nested"

\* A body up to its first return; only returned values are kept.
Execute(body, s) ==
  IF body = <<>> THEN Done(s, Void)
  ELSE LET st == Head(body)
           o == IF st.e = NoNode THEN Done(s, Void) ELSE Evaluate(st.e, s)
           next == CASE st.k = "declare" -> [o.s EXCEPT !.loc[st.x] =
                           IF st.e = NoNode THEN Default(Variables[st.x].t) ELSE Cast(Variables[st.x].t, o.v)]
                     [] st.k = "test" -> Notify(o.s, Tested(o.v))
                     [] OTHER -> o.s
       IN IF st.k = "return" THEN o ELSE Execute(Tail(body), next)

\* The whole program, from the body of `entry`.
Meaning(prog) == Execute(prog["entry"], World(prog)).s
=============================================================================
