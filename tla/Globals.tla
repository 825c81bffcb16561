------------------------------- MODULE Globals -------------------------------
(***************************************************************************)
(* The initializers of global variables, from the search for constants     *)
(* (ConstantDeterminingVisitor) through optimize() and the rules LL's      *)
(* compiler has for them (SimpleAssignableValidatingVisitor) to what the   *)
(* two compilers put into the variables.  Types and type errors are those  *)
(* of TypeChecking; a constant is a value of Expressions.                  *)
(*                                                                         *)
(* Initializers read earlier globals only: symbol resolution finds no      *)
(* other ones.  A node that was folded is [k |-> "folded"] and has the     *)
(* constant for its child.                                                 *)
(***************************************************************************)
EXTENDS TypeChecking
LOCAL INSTANCE SequencesExt
LOCAL INSTANCE TLC

CONSTANTS
  Scripts,   \* sequences of [x |-> name, init |-> expression or NoNode]
  Options    \* sets of "fold", "prune", "lso": what is optimized, the target

VARIABLES
  source,      \* the globals as written
  options,
  written,     \* the globals that functions and handlers assign to
  globals,     \* the globals as they are now
  phase,       \* "propagate", "optimize", "validate", "compile", "done" or "refused"
  at,          \* the global the visitor is at
  changed,     \* mFoldedLevel
  constants,   \* the constant value of each global's symbol
  refused,     \* the globals with E_GLOBAL_INITIALIZER_NOT_CONSTANT
  memory       \* what the program finds in each global when it starts

globalVars == <<source, options, written, globals, phase, at, changed, constants, refused, memory>>

Symbol(n) == globals[n].x
Initializer(n) == globals[n].init
InitializerOf(x) == globals[CHOOSE n \in DOMAIN globals : Symbol(n) = x].init
TypeOfName(x) == Variables[x].t

NoConstant == Value("none", <<>>)
Folded(v) == Node("folded", "", v.t, <<v>>)
GlobalName(e) == e.k = "lvalue" /\ ~Builtin(e)

-----------------------------------------------------------------------------
(* Constants *)

\* Mutant: the initial value of a variable that is assigned is no constant,
\* not even for another initializer.
ReadConstantUnwritten(e, top) ==
  LET v == IF Builtin(e) THEN Default(TypeOfName(e.op)) ELSE constants[e.op]
  IN IF v = NoConstant \/ e.op \in written \/ (e.t = "list" /\ top = "list") THEN NoConstant ELSE Member(v, e.m)

\* visit(LSLLValueExpression) and LSLLValueExpression::getConstantValue in
\* the global context.  What is a list as a whole is given no list; `top` is
\* the type of the outermost expression around.
ReadConstant(e, top) ==
  LET v == IF Builtin(e) THEN Default(TypeOfName(e.op)) ELSE constants[e.op]
  IN IF v = NoConstant \/ (e.t = "list" /\ top = "list") THEN NoConstant ELSE Member(v, e.m)

VectorOf(t, parts) ==
  Value(t, FlattenSeq([i \in DOMAIN parts |-> Cast("float", parts[i]).w]))
ListFrom(parts) == ListOf(FlattenSeq([i \in DOMAIN parts |-> Parts(parts[i])]))

\* What folds is the matter of the folding module; of the operators, those
\* named here do.
CastFolds(to, v) ==
  \/ v.t = to
  \/ {v.t, to} \subseteq Numeric \cup {"string"}
  \/ {v.t, to} \subseteq Strings
OperationFolds(op, l, r) ==
  \/ {l.t, r.t} \subseteq Numeric /\ op \in {"+", "-", "*"}
  \/ {l.t, r.t} = {"string"} /\ op = "+"

\* The value of a node whose children have the values vs.
Combined(e, vs) ==
  CASE e.k = "cast" -> Cast(e.t, vs[1])
    [] e.k = "unary" -> UnaryOperation(e.op, vs[1])
    [] e.k = "binary" -> Operation(e.op, vs[1], vs[2])
    [] e.k = "list" -> ListFrom(vs)
    [] e.k \in Coordinates -> VectorOf(e.k, vs)
Folds(e, vs) ==
  CASE e.k = "cast" -> CastFolds(e.t, vs[1])
    [] e.k = "binary" -> OperationFolds(e.op, vs[1], vs[2])
    [] e.k \in Coordinates -> \A n \in DOMAIN vs : vs[n].t \in Numeric
    [] OTHER -> e.k \in {"unary", "list"}

\* The type checker calls a read of a member that the type does not have an
\* error, but foldable: getConstantValue then returns what the whole variable
\* starts with.
WrongMember(e) == e.t = "error" /\ GlobalName(e) /\ e.m # "" /\ e.op \in DOMAIN constants

RECURSIVE ConstantOf(_, _)
ConstantOf(e, top) ==
  LET cs == [n \in DOMAIN e.kids |-> ConstantOf(e.kids[n], top)]
  IN CASE WrongMember(e) -> constants[e.op]
       [] e.t = "error" -> NoConstant
       [] e.k = "folded" -> e.kids[1]
       [] e.k = "const" -> IF e.op = "-1" THEN UnaryOperation("-", One(e.t)) ELSE Literal(e.t, e.op)
       [] e.k = "lvalue" -> ReadConstant(e, top)
       [] e.k = "paren" -> cs[1]
       [] e.k \in {"unary", "binary"} /\ Mutates(e.op) -> NoConstant
       [] (\E n \in DOMAIN cs : cs[n] = NoConstant) \/ ~Folds(e, cs) -> NoConstant
       [] OTHER -> Combined(e, cs)
Constant(e) == ConstantOf(e, e.t)

\* getConstantPrecluded: there is no constant because of an error that was
\* reported; of the parts of a list, a vector or a rotation the first that
\* is no constant decides.
RECURSIVE PrecludedIn(_, _)
PrecludedIn(e, top) ==
  LET c(n) == ConstantOf(e.kids[n], top)
      wrong(n) == e.k \in Coordinates /\ c(n).t \notin Numeric
      bad == {n \in DOMAIN e.kids : c(n) = NoConstant \/ wrong(n)}
      first == CHOOSE n \in bad : \A m \in bad : n <= m
  IN \/ e.t = "error"
     \/ /\ e.k \in {"list", "cast"} \cup Coordinates /\ bad # {}
        /\ IF c(first) # NoConstant THEN wrong(first) ELSE PrecludedIn(e.kids[first], top)
Precluded(e) == PrecludedIn(e, e.t)

\* Mutant: the constant keeps the type it has.
DeclaredUncast(x, e) == IF e.k = "none" THEN Default(TypeOfName(x)) ELSE Constant(e)

\* handleDeclaration.  It also tells the symbol whether its constant is
\* precluded, which nothing reads.
Declared(x, e) ==
  LET c == Constant(e)
  IN CASE e.k = "none" -> Default(TypeOfName(x))
       [] c = NoConstant \/ Precluded(e) -> NoConstant
       [] OTHER -> IF CanCoerce(c.t, TypeOfName(x)) THEN Cast(TypeOfName(x), c) ELSE c

Propagate ==
  /\ phase = "propagate" /\ at \in DOMAIN globals
  /\ constants' = constants @@ (Symbol(at) :> Declared(Symbol(at), Initializer(at)))
  /\ at' = at + 1
  /\ UNCHANGED <<source, options, written, globals, phase, changed, refused, memory>>

\* Was a type or a symbol complained of?
RECURSIVE HasMistake(_)
HasMistake(e) ==
  /\ e.k \notin {"none", "folded"}
  /\ Mistaken(e) \/ \E n \in DOMAIN e.kids : HasMistake(e.kids[n])
Erroneous(s) == \E n \in DOMAIN s : HasMistake(s[n].init) \/ BadDeclaration(s[n].x, s[n].init)

\* main: a script with errors is not optimized.
EndPropagate ==
  /\ phase = "propagate" /\ at \notin DOMAIN globals
  /\ phase' = IF Erroneous(globals) THEN "validate" ELSE "optimize"
  /\ at' = 1
  /\ UNCHANGED <<source, options, written, globals, changed, constants, refused, memory>>

-----------------------------------------------------------------------------
(* optimize() *)

\* visit(LSLLValueExpression): a key in a list or made a list stays a name.
FoldsRead(e, top, listed) ==
  /\ GlobalName(e) /\ TypeOfName(e.op) # "list"
  /\ ~(TypeOfName(e.op) = "key" /\ listed)
  /\ ConstantOf(e, top) # NoConstant
\* visit(LSLExpression): no new strings, lists or keys.
FoldsNode(e, top) ==
  /\ e.k \notin {"const", "folded", "lvalue"}
  /\ ConstantOf(e, top).t \notin {"none", "list", "key", "string"}

\* Children first.
RECURSIVE Simplified(_, _, _)
Simplified(e, top, listed) ==
  LET inList == listed \/ e.k = "list" \/ (e.k = "cast" /\ e.t = "list")
      topOf(n) == IF e.k = "call" THEN e.kids[n].t ELSE top
  IN IF e.k = "folded" THEN e
     ELSE IF FoldsRead(e, top, listed) \/ FoldsNode(e, top) THEN Folded(ConstantOf(e, top))
     ELSE [e EXCEPT !.kids = [n \in DOMAIN @ |-> Simplified(@[n], topOf(n), inList)]]

\* getReferences() = 1: nothing but the declaration mentions the global.
RECURSIVE Mentions(_, _)
Mentions(e, x) ==
  /\ e.k # "folded"
  /\ (e.k = "lvalue" /\ e.op = x) \/ \E n \in DOMAIN e.kids : Mentions(e.kids[n], x)
Unused(x) == x \notin written /\ ~\E n \in DOMAIN globals : Mentions(Initializer(n), x)

\* A global is visited after its initializer; either is the visitor's step.
Simplify ==
  /\ phase = "optimize" /\ at \in DOMAIN globals
  /\ LET e == Initializer(at)
         new == IF "fold" \in options THEN Simplified(e, e.t, FALSE) ELSE e
         pruned == "prune" \in options /\ Unused(Symbol(at))
     IN /\ globals' = IF pruned THEN RemoveAt(globals, at) ELSE [globals EXCEPT ![at].init = new]
        /\ at' = IF pruned THEN at ELSE at + 1
        /\ changed' = (changed \/ pruned \/ new # e)
  /\ UNCHANGED <<source, options, written, phase, constants, refused, memory>>

EndPass ==
  /\ phase = "optimize" /\ at \notin DOMAIN globals
  /\ phase' = IF changed THEN "optimize" ELSE "validate"
  /\ changed' = FALSE /\ at' = 1
  /\ UNCHANGED <<source, options, written, globals, constants, refused, memory>>

-----------------------------------------------------------------------------
(* validateGlobals() *)

\* Does the name end, name after name, at a global with an initializer?
RECURSIVE LastInitializer(_)
LastInitializer(e) ==
  IF GlobalName(e) THEN LastInitializer(InitializerOf(e.op)) ELSE e
EndsInValue(e) == LastInitializer(e).k # "none"

\* visit(LSLUnaryExpression)
MinusAllowed(e) ==
  LET x == e.kids[1] IN
  e.op = "-" /\ x.k = "lvalue" /\ (TypeOfName(x.op) = "error" \/ (Builtin(x) /\ x.t \in Numeric /\ x.op \notin {"TRUE", "FALSE"}))

\* Mutant: only the name in the list itself needs an initializer.
NameAllowedShort(e, inList) ==
  e.m = "" /\ ("lso" \in options /\ inList /\ GlobalName(e) => InitializerOf(e.op).k # "none")
\* visit(LSLLValueExpression)
NameAllowed(e, inList) ==
  e.m = "" /\ ("lso" \in options /\ inList => EndsInValue(e))

\* SimpleAssignableValidatingVisitor below the initializer
RECURSIVE ValidRValue(_, _)
ValidRValue(e, inList) ==
  CASE e.k \in {"const", "folded"} -> TRUE
    [] e.k = "list" -> \A n \in DOMAIN e.kids : ValidRValue(e.kids[n], TRUE)
    [] e.k \in Coordinates -> \A n \in DOMAIN e.kids : ValidRValue(e.kids[n], FALSE)
    [] e.k = "unary" -> MinusAllowed(e)
    [] e.k = "lvalue" -> NameAllowed(e, inList)
    [] OTHER -> FALSE

\* visit(LSLGlobalVariable)
Complains(e) ==
  IF Constant(e) = NoConstant THEN ~Precluded(e) ELSE ~ValidRValue(e, FALSE)

Validate ==
  /\ phase = "validate" /\ at \in DOMAIN globals
  /\ refused' = IF Initializer(at).k # "none" /\ Complains(Initializer(at))
                   THEN refused \cup {Symbol(at)} ELSE refused
  /\ at' = at + 1
  /\ UNCHANGED <<source, options, written, globals, phase, changed, constants, memory>>

EndValidate ==
  /\ phase = "validate" /\ at \notin DOMAIN globals
  /\ phase' = IF Erroneous(source) \/ refused # {} THEN "refused" ELSE "compile"
  /\ at' = 1
  /\ UNCHANGED <<source, options, written, globals, changed, constants, refused, memory>>

-----------------------------------------------------------------------------
(* The compilers *)

\* Mono's constructor computes each initializer from the fields before it.
RECURSIVE Computed(_)
Computed(e) ==
  LET vs == [n \in DOMAIN e.kids |-> Computed(e.kids[n])]
  IN CASE e.k \in {"const", "folded"} -> Constant(e)
       [] e.k = "lvalue" -> IF Builtin(e) THEN Default(e.t) ELSE Member(memory[e.op], e.m)
       [] OTHER -> Combined(e, vs)
Field(x, e) == IF e.k = "none" THEN Default(TypeOfName(x)) ELSE Cast(TypeOfName(x), Computed(e))

\* writePlaceholder: bytes of zero, which for a string or a list point nowhere.
Zeros(t) ==
  Value(t, [n \in 1 .. Size(t) |-> Term(IF t \in Numeric \cup Coordinates THEN "0" ELSE "nowhere", WordType(t), <<>>)])

\* Mutant: a list is the constant found before.
ListCellPropagated(e) == Constant(e)
\* Elements of a list are made from the initializers their names end at.
ListCell(e) ==
  LET cs == [n \in DOMAIN e.kids |-> Constant(LastInitializer(e.kids[n]))]
  IN IF \E n \in DOMAIN cs : cs[n] = NoConstant THEN NoConstant ELSE ListFrom(cs)

\* LSO's image has a constant for each.
Cell(x, e) ==
  CASE GlobalName(e) /\ ~EndsInValue(e) -> Zeros(TypeOfName(x))
    [] e.k = "list" -> ListCell(e)
    [] OTHER -> constants[x]

CompileGlobal ==
  /\ phase = "compile" /\ at \in DOMAIN globals
  /\ memory' = memory @@ (Symbol(at) :> IF "lso" \in options THEN Cell(Symbol(at), Initializer(at))
                                        ELSE Field(Symbol(at), Initializer(at)))
  /\ at' = at + 1
  /\ UNCHANGED <<source, options, written, globals, phase, changed, constants, refused>>

EndCompile ==
  /\ phase = "compile" /\ at \notin DOMAIN globals
  /\ phase' = "done"
  /\ UNCHANGED <<source, options, written, globals, at, changed, constants, refused, memory>>

-----------------------------------------------------------------------------
GlobalsInit ==
  /\ source \in Scripts /\ globals = source
  /\ options \in Options
  /\ written \in {{}, {source[n].x : n \in DOMAIN source}}
  /\ phase = "propagate" /\ at = 1 /\ changed = FALSE
  /\ constants = <<>> /\ refused = {} /\ memory = <<>>

GlobalsNext ==
  \/ Propagate \/ EndPropagate \/ Simplify \/ EndPass
  \/ Validate \/ EndValidate \/ CompileGlobal \/ EndCompile


-----------------------------------------------------------------------------
(* Properties *)

SourceOf(x) == source[CHOOSE n \in DOMAIN source : source[n].x = x].init
Correct == ~Erroneous(source)

\* What LL's compiler takes for an initializer: a literal, the name of a
\* variable, the opposite of a number that is a token of its language, and
\* vectors, rotations and lists of such.  For LSO a name in a list must lead
\* to an initializer.
RECURSIVE HasValue(_), Allowed(_)
HasValue(e) ==
  e.k # "none" /\ (e.k = "lvalue" /\ ~Builtin(e) => HasValue(SourceOf(e.op)))
Allowed(e) ==
  CASE e.k = "const" -> TRUE
    [] e.k = "lvalue" -> e.m = ""
    [] e.k = "unary" -> /\ e.op = "-" /\ e.t \in Numeric
                        /\ Builtin(e.kids[1]) /\ e.kids[1].op # "TRUE"
    [] e.k \in Coordinates -> \A n \in DOMAIN e.kids : Allowed(e.kids[n])
    [] e.k = "list" -> \A n \in DOMAIN e.kids :
                         Allowed(e.kids[n]) /\ ("lso" \in options => HasValue(e.kids[n]))
    [] OTHER -> FALSE
WholeList(e) == e.k = "lvalue" /\ e.t = "list"
Legal(n) == LET e == source[n].init IN
  e.k = "none" \/ (Allowed(e) /\ ~WholeList(e))

\* In a script without errors, what LL's compiler accepts is never refused,
\* whatever was folded or removed before and whether or not the program
\* assigns to the globals read (an initializer reads what they start with);
\* without folding nothing else is accepted.  The name of a list for a whole
\* initializer is refused.
RulesOfGlobals ==
  phase \in {"compile", "refused"} /\ Correct =>
    \A n \in DOMAIN source :
      /\ Legal(n) => source[n].x \notin refused
      /\ ~Legal(n) /\ options \cap {"fold", "prune"} = {} => source[n].x \in refused

\* The values globals have for one another when initializers are computed in
\* order, each cast to the type of its variable.
InOrder(s) ==
  FoldLeft(LAMBDA w, d :
             [w EXCEPT !.glob = (d.x :> IF d.init.k = "none" THEN Default(TypeOfName(d.x))
                                        ELSE Cast(TypeOfName(d.x), Evaluate(d.init, w).v)) @@ @],
           [prog |-> <<>>, glob |-> <<>>, loc |-> <<>>, trace |-> <<>>], s).glob

\* On Mono every global that is left starts with the value its initializer
\* has as written, globals computed in order; folding a read of a global
\* that was promoted or that is assigned later, or removing globals, changes
\* nothing.
MonoStartsAsWritten ==
  phase = "done" /\ "lso" \notin options =>
    \A x \in DOMAIN memory : memory[x] = InOrder(source)[x]

\* What LL's LSO compiler puts into x: zeros for a name that leads to no
\* initializer, which for a rotation is not its default and for a string or
\* list no value at all; in a list the values of the initializers that names
\* lead to, of the type they have there.
RECURSIVE Origin(_)
Origin(e) == IF e.k = "lvalue" /\ ~Builtin(e) THEN Origin(SourceOf(e.op)) ELSE e
OriginalValue(e) ==
  Evaluate(Origin(e), [prog |-> <<>>, glob |-> InOrder(source), loc |-> <<>>, trace |-> <<>>]).v
LsoInitial(x) ==
  LET e == SourceOf(x) IN
  CASE e.k = "lvalue" /\ ~HasValue(e) -> Zeros(TypeOfName(x))
    [] e.k = "list" -> ListOf(FlattenSeq([n \in DOMAIN e.kids |-> Parts(OriginalValue(e.kids[n]))]))
    [] OTHER -> InOrder(source)[x]

\* Without folding the image holds what LL's compiler would put there.
LsoFollowsNames ==
  phase = "done" /\ "lso" \in options /\ "fold" \notin options =>
    \A x \in DOMAIN memory : memory[x] = LsoInitial(x)

\* Whatever the validator accepts has a value to write, whatever was folded:
\* the LSO compiler dereferences the initializer a name in a list leads to
\* and its constant.
AlwaysWritable == \A x \in DOMAIN memory : memory[x] # NoConstant

\* Globals that were accepted start with the right value on both targets, and
\* there always is one to write.
GlobalsStartAsWritten == MonoStartsAsWritten /\ LsoFollowsNames /\ AlwaysWritable
=============================================================================
