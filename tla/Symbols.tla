-------------------------------- MODULE Symbols --------------------------------
(***************************************************************************)
(* Names in a script: SymbolResolutionVisitor walks it, opens a symbol     *)
(* table for each scope, defines what is declared and resolves what is     *)
(* used; setMangledNames then makes up new names for the printer.  Jumps   *)
(* are here as uses of labels; what else is found of them is the matter of *)
(* JumpResolution.                                                         *)
(*                                                                         *)
(* A script is arranged like the bodies of module Body, in the order of    *)
(* its text.  The kinds: "script" (node 1), "variable" and "local", whose  *)
(* children are the uses in their initializers, "function", "state",       *)
(* "handler", "param", "block", "label", and the uses "read", "call",      *)
(* "jump" and "switch".                                                    *)
(***************************************************************************)
EXTENDS Body

CONSTANTS
  Builtins,     \* records [name, type]: the symbols of the language
  NameOrder,    \* all names, as a set of strings orders them
  MangledNames  \* the first names that are made up for symbols, "_0", "_1", ... in order

\* Where the grammar lets each kind stand.
Parents ==
  [variable |-> {"script"}, function |-> {"script"}, state |-> {"script"}, handler |-> {"state"},
   param |-> {"function", "handler"}, block |-> {"function", "handler", "block"},
   local |-> {"block"}, label |-> {"block"}, jump |-> {"block"}, switch |-> {"block"},
   call |-> {"variable", "local", "block", "call"}, read |-> {"variable", "local", "block", "call"}]

\* The states are behind the other globals, parameters before the body.
Arranged(b) ==
  /\ b[1].kind = "script"
  /\ \A n \in 2 .. Len(b) : b[n].kind \in DOMAIN Parents /\ b[b[n].up].kind \in Parents[b[n].kind]
  /\ \A m, n \in 2 .. Len(b) : m < n /\ b[m].up = b[n].up =>
       (b[m].kind = "state" => b[n].kind = "state") /\ (b[m].kind = "block" => b[n].kind # "param")

ASSUME ScriptsAssumption == \A b \in Bodies : Arranged(b)

\* No two symbols of the language have one name, and none is a state or a label.
ASSUME BuiltinsAssumption ==
  /\ Builtins \subseteq [name : STRING, type : {"variable", "function", "event"}]
  /\ \A b, c \in Builtins : b.name = c.name => b = c

\* Made up names are different, none is one that is never replaced, and there
\* are enough of them for a new name of each node and the old ones to avoid.
ASSUME MangledNamesAssumption ==
  /\ MangledNames \in Seq(STRING) /\ \A b \in Bodies : Len(MangledNames) > 2 * Len(b)
  /\ \A i, j \in DOMAIN MangledNames : MangledNames[i] = MangledNames[j] => i = j
  /\ \A i \in DOMAIN MangledNames : MangledNames[i] \notin {"", "default"} \cup {b.name : b \in Builtins}

VARIABLES
  phase,       \* "prototypes", "states", "bodies", "mangle", "done"
  at,          \* the position of the visitor
  table,       \* the declarations in the symbol table of each scope
  registered,  \* LSLSymbolTableManager's _mTables
  symbol,      \* what each use has been resolved to
  collected,   \* _mCollectedLabels
  pending,     \* _mPendingJumps
  errors,      \* what is wrong and where
  seq,         \* the number of the next name to make up
  mangled      \* getMangledName of each declaration; "" when it has none

walkVars == <<body, phase, at, table, registered, symbol, collected, pending, errors>>
vars == <<walkVars, seq, mangled>>

Scopes == {n \in Node : Kind(n) \in {"script", "function", "state", "handler", "block"}}
Declarations ==
  {n \in Node : Kind(n) \in {"variable", "function", "state", "handler", "param", "local", "label"}}
Uses == {n \in Node : Kind(n) \in {"read", "call", "jump", "switch"}}

\* The type of the symbol a declaration makes or a use asks for.
Type(n) ==
  CASE Kind(n) \in {"variable", "local", "param", "read"} -> "variable"
    [] Kind(n) \in {"function", "call"} -> "function"
    [] Kind(n) \in {"state", "switch"} -> "state"
    [] Kind(n) \in {"label", "jump"} -> "label"
    [] Kind(n) = "handler" -> "event"
Sub(d) ==
  CASE Kind(d) \in {"variable", "function", "state"} -> "global"
    [] Kind(d) \in {"local", "label"} -> "local"
    [] Kind(d) = "param" -> "parameter"
    [] Kind(d) = "handler" -> "builtin"

Symbol(d) == [decl |-> d, name |-> Name(d), type |-> Type(d), sub |-> Sub(d)]
BuiltinSymbol(b) == [decl |-> 0, name |-> b.name, type |-> b.type, sub |-> "builtin"]
NoSymbol == [decl |-> 0, name |-> "", type |-> "", sub |-> ""]

-----------------------------------------------------------------------------
(* Tables. *)

Fits(type, wanted) == wanted \in {"any", type}

\* LSLSymbolTable::lookup
InTable(s, name, wanted) == {d \in table[s] : Name(d) = name /\ Fits(Type(d), wanted)}

\* LSLScript::lookupSymbol: what the language has comes first.
RootLookup(name, wanted) ==
  LET own == {b \in Builtins : b.name = name /\ Fits(b.type, wanted)}
  IN IF own # {} THEN BuiltinSymbol(CHOOSE b \in own : TRUE)
     ELSE IF InTable(1, name, wanted) # {} THEN Symbol(CHOOSE d \in InTable(1, name, wanted) : TRUE)
     ELSE NoSymbol

\* Mutant: the innermost symbol of the name, whatever it is, decides.
LookupAny(n, name, wanted) ==
  LET having == {s \in Scopes \cap (Above[n] \cup {n}) : s # 1 /\ InTable(s, name, "any") # {}}
      found == InTable(Innermost(having), name, wanted)
  IN IF having = {} THEN RootLookup(name, wanted)
     ELSE IF found = {} THEN NoSymbol
     ELSE Symbol(CHOOSE d \in found : TRUE)

\* LSLASTNode::lookupSymbol, from node n outwards.
Lookup(n, name, wanted) ==
  LET having == {s \in Scopes \cap (Above[n] \cup {n}) : s # 1 /\ InTable(s, name, wanted) # {}}
  IN IF having = {} THEN RootLookup(name, wanted)
     ELSE Symbol(CHOOSE d \in InTable(Innermost(having), name, wanted) : TRUE)

\* The scope a declaration is defined in.
ScopeOf(d) ==
  CASE Kind(d) \in {"function", "state", "variable"} -> 1
    [] OTHER -> Innermost(Above[d] \cap Scopes)

\* defineSymbol looks for what a new symbol would hide: one of its type in a
\* scope around its own, else anything of the name in the script.
Hidden(d) ==
  LET s == ScopeOf(d)
      outer == IF s = 1 THEN NoSymbol ELSE Lookup(Up(s), Name(d), Type(d))
  IN IF outer # NoSymbol THEN outer ELSE RootLookup(Name(d), "any")

\* A symbol of the language may be hidden by the handler of an event, and if
\* it is a function by what is not global.
Reserved(d) ==
  /\ Hidden(d).sub = "builtin"
  /\ Hidden(d).type = "event" => Type(d) # "event"
  /\ Hidden(d).type = "function" => Sub(d) = "global"

Clashes(d) == InTable(ScopeOf(d), Name(d), "any") # {}
DefinitionErrors(d) ==
  IF Clashes(d) THEN {<<"duplicate", d>>}
  ELSE IF Reserved(d) THEN {<<"reserved", d>>}
  ELSE {}
Define(d) ==
  /\ table' = IF Clashes(d) THEN table ELSE [table EXCEPT ![ScopeOf(d)] = @ \cup {d}]
  /\ errors' = errors \cup DefinitionErrors(d)

\* resolveSymbol for each of a set of uses; one that finds no symbol of the
\* type it wants is an error, whatever else has the name.
Resolved(us) == [u \in Uses |-> IF u \in us THEN Lookup(u, Name(u), Type(u)) ELSE symbol[u]]
Unresolved(us) == {<<"unresolved", u>> : u \in {v \in us : Lookup(v, Name(v), Type(v)) = NoSymbol}}

-----------------------------------------------------------------------------
(* visit(LSLScript): global variables and the prototypes of functions, then *)
(* the names of states, then the bodies.                                   *)

Initializer(g) == {u \in Uses : g \in Above[u]}

\* visit(LSLGlobalVariable): the initializer first.
VisitVariable(g) ==
  /\ phase = "prototypes" /\ at = In(g) /\ Kind(g) = "variable"
  /\ symbol' = Resolved(Initializer(g))
  /\ table' = IF Clashes(g) THEN table ELSE [table EXCEPT ![1] = @ \cup {g}]
  /\ errors' = errors \cup Unresolved(Initializer(g)) \cup DefinitionErrors(g)
  /\ at' = Onward(g)
  /\ UNCHANGED <<body, phase, registered, collected, pending, seq, mangled>>

Prototype(g) ==
  /\ \/ phase = "prototypes" /\ Kind(g) = "function"
     \/ phase = "states" /\ Kind(g) = "state"
  /\ at = In(g)
  /\ registered' = Append(registered, g)
  /\ Define(g)
  /\ at' = Onward(g)
  /\ UNCHANGED <<body, phase, symbol, collected, pending, seq, mangled>>

StartStates ==
  /\ phase = "prototypes" /\ \E n \in Node : at = In(n) /\ Kind(n) = "state"
  /\ phase' = "states"
  /\ UNCHANGED <<body, at, table, registered, symbol, collected, pending, errors, seq, mangled>>

StartBodies ==
  /\ phase = "states" /\ at = End
  /\ phase' = "bodies" /\ at' = Descend(1)
  /\ UNCHANGED <<body, table, registered, symbol, collected, pending, errors, seq, mangled>>

-----------------------------------------------------------------------------
(* The bodies. *)

VisitParam(n) ==
  /\ Kind(n) = "param"
  /\ Define(n)
  /\ UNCHANGED <<registered, symbol, collected, pending>>
VisitLabel(n) ==
  /\ Kind(n) = "label"
  /\ Define(n)
  /\ collected' = Append(collected, n)
  /\ UNCHANGED <<registered, symbol, pending>>
VisitJump(n) ==
  /\ Kind(n) = "jump"
  /\ pending' = Append(pending, n)
  /\ UNCHANGED <<table, registered, symbol, collected, errors>>
\* Only an event the language has can be handled.
EnterHandler(n) ==
  /\ Kind(n) = "handler"
  /\ registered' = Append(registered, n)
  /\ IF RootLookup(Name(n), "event") # NoSymbol THEN Define(n)
     ELSE errors' = errors \cup {<<"event", n>>} /\ UNCHANGED table
  /\ UNCHANGED <<symbol, collected, pending>>
EnterBlock(n) ==
  /\ Kind(n) = "block"
  /\ registered' = Append(registered, n)
  /\ UNCHANGED <<table, symbol, collected, pending, errors>>
VisitUse(n) ==
  /\ Kind(n) \in {"read", "call", "switch"}
  /\ symbol' = Resolved({n})
  /\ errors' = errors \cup Unresolved({n})
  /\ UNCHANGED <<table, registered, collected, pending>>
EnterOther(n) ==
  /\ Kind(n) \in {"script", "variable", "function", "state", "local"}
  /\ UNCHANGED <<table, registered, symbol, collected, pending, errors>>

Enter(n) ==
  /\ phase = "bodies" /\ at = In(n)
  /\ \/ VisitParam(n) \/ VisitLabel(n) \/ VisitJump(n) \/ EnterHandler(n)
     \/ EnterBlock(n) \/ VisitUse(n) \/ EnterOther(n)
  /\ at' = IF Kind(n) = "variable" THEN Out(n) ELSE Descend(n)
  /\ UNCHANGED <<body, phase, seq, mangled>>

\* visit(LSLDeclaration), after the initializer.
LeaveLocal(n) ==
  /\ Kind(n) = "local"
  /\ Define(n)
  /\ UNCHANGED <<symbol, collected, pending>>

LastLabel(name) == Innermost({l \in Node : \E i \in DOMAIN collected : collected[i] = l /\ Name(l) = name})
Jumps == {pending[i] : i \in DOMAIN pending}
\* resolvePendingJumps: what is found is replaced by the last label of its name.
JumpsResolved ==
  [u \in Uses |->
     IF u \notin Jumps \/ Resolved(Jumps)[u] = NoSymbol THEN Resolved(Jumps)[u]
     ELSE Symbol(LastLabel(Name(u)))]
LeaveFunction(n) ==
  /\ Kind(n) \in {"function", "handler"}
  /\ symbol' = JumpsResolved
  /\ errors' = errors \cup Unresolved(Jumps)
  /\ pending' = <<>> /\ collected' = <<>>
  /\ UNCHANGED table
LeaveOther(n) ==
  /\ Kind(n) \notin {"local", "function", "handler"}
  /\ UNCHANGED <<table, symbol, collected, pending, errors>>

Leave(n) ==
  /\ phase = "bodies" /\ at = Out(n) /\ n # 1
  /\ LeaveLocal(n) \/ LeaveFunction(n) \/ LeaveOther(n)
  /\ at' = Onward(n)
  /\ UNCHANGED <<body, phase, registered, seq, mangled>>

\* Only what has no errors is printed.
EndBodies ==
  /\ phase = "bodies" /\ at = End
  /\ phase' = IF errors = {} THEN "mangle" ELSE "done"
  /\ UNCHANGED <<body, at, table, registered, symbol, collected, pending, errors, seq, mangled>>

-----------------------------------------------------------------------------
(* setMangledNames *)

PlaceIn(list, x) == CHOOSE i \in DOMAIN list : list[i] = x
Renamed(d) == Type(d) # "event" /\ ~(Type(d) = "state" /\ Name(d) = "default")
Waiting == {d \in UNION {table[s] : s \in Scopes} : Renamed(d) /\ mangled[d] = ""}
\* Tables in the order they were registered, names in theirs.
Earlier(d, e) ==
  LET s == PlaceIn(registered, ScopeOf(d))  t == PlaceIn(registered, ScopeOf(e))
  IN s < t \/ (s = t /\ PlaceIn(NameOrder, Name(d)) < PlaceIn(NameOrder, Name(e)))

\* The first name made up that is not that of a symbol in the table.
FreeName(s) ==
  CHOOSE i \in seq .. Len(MangledNames) :
    /\ InTable(s, MangledNames[i], "any") = {}
    /\ \A k \in seq .. i - 1 : InTable(s, MangledNames[k], "any") # {}

\* Mutant: the numbers start again in every table.
MangleSymbolAgain(d) ==
  /\ phase = "mangle" /\ d \in Waiting /\ \A e \in Waiting : e = d \/ Earlier(d, e)
  /\ LET start == IF \E e \in table[ScopeOf(d)] : mangled[e] # "" THEN seq ELSE 1
     IN mangled' = [mangled EXCEPT ![d] = MangledNames[start]] /\ seq' = start + 1
  /\ UNCHANGED walkVars
MangleSymbol(d) ==
  /\ phase = "mangle" /\ d \in Waiting /\ \A e \in Waiting : e = d \/ Earlier(d, e)
  /\ mangled' = [mangled EXCEPT ![d] = MangledNames[FreeName(ScopeOf(d))]]
  /\ seq' = FreeName(ScopeOf(d)) + 1
  /\ UNCHANGED walkVars

EndMangling ==
  /\ phase = "mangle" /\ Waiting = {}
  /\ phase' = "done"
  /\ UNCHANGED <<body, at, table, registered, symbol, collected, pending, errors, seq, mangled>>

-----------------------------------------------------------------------------
Init ==
  /\ body \in Bodies
  /\ phase = "prototypes" /\ at = Descend(1)
  /\ table = [s \in Scopes |-> {}] /\ registered = <<1>>
  /\ symbol = [u \in Uses |-> NoSymbol]
  /\ collected = <<>> /\ pending = <<>> /\ errors = {}
  /\ seq = 1 /\ mangled = [d \in Declarations |-> ""]

Next ==
  \/ \E n \in Node : VisitVariable(n) \/ Prototype(n) \/ Enter(n) \/ Leave(n)
  \/ StartStates \/ StartBodies \/ EndBodies
  \/ \E d \in Declarations : MangleSymbol(d)
  \/ EndMangling
Spec == Init /\ [][Next]_vars

-----------------------------------------------------------------------------
(* What the names of a script mean, when node n is written names[n]. *)

FunctionOf(n) == Innermost({f \in Above[n] : Kind(f) \in {"function", "handler"}})

\* Where d can be used: in its scope; a local from the end of its
\* declaration on, a global in later initializers and in all bodies.
Visible(d, u) ==
  /\ ScopeOf(d) \in Above[u] /\ Type(d) = Type(u)
  /\ Kind(d) = "local" \/ (Kind(d) \in {"variable", "function"} /\ FunctionOf(u) = 0) => d < u /\ d \notin Above[u]
Means(u, names) == {d \in Declarations : names[d] = names[u] /\ Visible(d, u)}
InnermostOf(ds) == CHOOSE d \in ds : \A e \in ds : ScopeOf(e) <= ScopeOf(d)
BuiltinMeaning(u, names) == {b \in Builtins : b.name = names[u] /\ b.type = Type(u)}
\* The declaration a use is about.  A jump goes to the last label of the name
\* in its function, and has to see one.
Meaning(u, names) ==
  IF Means(u, names) = {} THEN BuiltinSymbol(CHOOSE b \in BuiltinMeaning(u, names) : TRUE)
  ELSE IF Kind(u) = "jump"
  THEN Symbol(Innermost({l \in Node : Kind(l) = "label" /\ names[l] = names[u] /\ FunctionOf(l) = FunctionOf(u)}))
  ELSE Symbol(InnermostOf(Means(u, names)))

\* The rules of names: every use means something, handlers are of events, no
\* scope has two declarations of a name, and the language's own names are not
\* taken, except those of its functions by what is local.
WellScoped(names) ==
  /\ \A d \in Declarations : Kind(d) = "handler" => [name |-> names[d], type |-> "event"] \in Builtins
  /\ \A u \in Uses : Means(u, names) # {} \/ BuiltinMeaning(u, names) # {}
  /\ \A d, e \in Declarations : d # e /\ ScopeOf(d) = ScopeOf(e) => names[d] # names[e]
  /\ \A d \in Declarations, b \in Builtins :
       names[d] = b.name => CASE b.type = "event" -> Type(d) = "event"
                              [] b.type = "function" -> Sub(d) # "global"
                              [] OTHER -> FALSE

Source == [n \in Node |-> Name(n)]

\* Once the walk is over, a script has errors exactly when it breaks the
\* rules, and otherwise every use has the symbol of what it means, however
\* scopes, order and hoisting hide one name behind another.
UsesMeanDeclarations ==
  phase \in {"mangle", "done"} =>
    /\ errors = {} <=> WellScoped(Source)
    /\ errors = {} => \A u \in Uses : symbol[u] = Meaning(u, Source)

\* PrettyPrintVisitor::visit(LSLIdentifier)
Chosen(s, options) ==
  \/ "locals" \in options /\ s.sub = "local"
  \/ "globals" \in options /\ s.sub # "local" /\ s.type # "function"
  \/ "funcs" \in options /\ s.type = "function"
SymbolOf(n) == IF n \in Uses THEN symbol[n] ELSE IF n \in Declarations THEN Symbol(n) ELSE NoSymbol
Printed(options) ==
  [n \in Node |-> IF SymbolOf(n).decl # 0 /\ mangled[SymbolOf(n).decl] # "" /\ Chosen(SymbolOf(n), options)
                  THEN mangled[SymbolOf(n).decl] ELSE Name(n)]
KeepsMeaning(options) ==
  /\ WellScoped(Printed(options))
  /\ \A u \in Uses : Meaning(u, Printed(options)).decl = symbol[u].decl

\* Labels of one name in a function are told apart when they are renamed,
\* and a jump to the last may not see it.
OneLabelOfName ==
  \A l, m \in Declarations :
    Kind(l) = "label" /\ Kind(m) = "label" /\ l # m /\ FunctionOf(l) = FunctionOf(m) => Name(l) # Name(m)

\* The script printed with all new names, as --obfuscate prints it, is well
\* scoped and means the same.
ObfuscationKeepsMeaning ==
  phase = "done" /\ errors = {} /\ OneLabelOfName => KeepsMeaning({"locals", "globals", "funcs"})
=============================================================================
