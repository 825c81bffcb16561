----------------------------- MODULE SymbolsProofs -----------------------------
(***************************************************************************)
(* Proofs about module Symbols, for every script: a script is accepted     *)
(* exactly when it is well scoped, then every use has been given the       *)
(* symbol of the declaration it means, and a script in which all names are *)
(* replaced means what it meant.                                           *)
(***************************************************************************)
EXTENDS Symbols, BodyProofs

-----------------------------------------------------------------------------
(* The tree of a script. *)

Functions == All("function") \cup All("handler")
InInitializer(u) == \E g \in Above[u] : Kind(g) = "variable"

LEMMA KindFacts ==
  ASSUME Ordered
  PROVE  /\ Kind(1) = "script"
         /\ \A n \in Node : n # 1 =>
              /\ Kind(n) \in {"variable", "function", "state", "handler", "param", "block", "local", "label",
                              "jump", "switch", "call", "read"}
              /\ Kind(n) \in {"variable", "function", "state"} => Kind(Up(n)) = "script"
              /\ Kind(n) = "handler" => Kind(Up(n)) = "state"
              /\ Kind(n) = "param" => Kind(Up(n)) \in {"function", "handler"}
              /\ Kind(n) = "block" => Kind(Up(n)) \in {"function", "handler", "block"}
              /\ Kind(n) \in {"local", "label", "jump", "switch"} => Kind(Up(n)) = "block"
              /\ Kind(n) = "call" => Kind(Up(n)) \in {"variable", "local", "block", "call"}
              /\ Kind(n) = "read" => Kind(Up(n)) \in {"variable", "local", "block", "call"}
<1>1. Arranged(body)
  BY ScriptsAssumption DEF Ordered
<1>2. \A n \in Node : n # 1 => Kind(n) \in DOMAIN Parents /\ Kind(Up(n)) \in Parents[Kind(n)]
  BY <1>1, OrderFacts DEF Arranged, Kind, Up, Node
<1>3. DOMAIN Parents = {"variable", "function", "state", "handler", "param", "block", "local", "label",
                        "jump", "switch", "call", "read"}
  BY DEF Parents
<1>4. /\ Parents["variable"] = {"script"} /\ Parents["function"] = {"script"} /\ Parents["state"] = {"script"}
      /\ Parents["handler"] = {"state"} /\ Parents["param"] = {"function", "handler"}
      /\ Parents["block"] = {"function", "handler", "block"}
      /\ Parents["local"] = {"block"} /\ Parents["label"] = {"block"} /\ Parents["jump"] = {"block"}
      /\ Parents["switch"] = {"block"} /\ Parents["call"] = {"variable", "local", "block", "call"}
      /\ Parents["read"] = {"variable", "local", "block", "call"}
  BY DEF Parents
<1>5. Kind(1) = "script"
  BY <1>1 DEF Arranged, Kind
<1>6. ASSUME NEW n \in Node, n # 1
      PROVE  /\ Kind(n) \in {"variable", "function", "state"} => Kind(Up(n)) = "script"
             /\ Kind(n) = "handler" => Kind(Up(n)) = "state"
             /\ Kind(n) = "param" => Kind(Up(n)) \in {"function", "handler"}
             /\ Kind(n) = "block" => Kind(Up(n)) \in {"function", "handler", "block"}
             /\ Kind(n) \in {"local", "label", "jump", "switch"} => Kind(Up(n)) = "block"
             /\ Kind(n) = "call" => Kind(Up(n)) \in {"variable", "local", "block", "call"}
             /\ Kind(n) = "read" => Kind(Up(n)) \in {"variable", "local", "block", "call"}
  BY <1>2, <1>4, <1>6
<1> QED BY <1>2, <1>3, <1>5, <1>6

\* The globals stand at the top.
LEMMA GlobalFacts ==
  ASSUME Ordered, NEW g \in Node
  PROVE  /\ Kind(g) \in {"variable", "function", "state"} =>
              g # 1 /\ Up(g) = 1 /\ Above[g] = {1} /\ g \in Children(1)
         /\ Kind(g) = "handler" => g # 1 /\ Up(Up(g)) = 1 /\ Above[g] = {1, Up(g)}
         /\ g \in Children(1) => Kind(g) \in {"variable", "function", "state"}
<1>1. ASSUME NEW n \in Node, Kind(n) = "script" PROVE n = 1
  BY <1>1, KindFacts
<1>2. Above[1] = {}
  BY AboveFacts, OrderFacts DEF Node
<1>3. ASSUME NEW n \in Node, Kind(n) \in {"variable", "function", "state"}
      PROVE  n # 1 /\ Up(n) = 1 /\ Above[n] = {1} /\ n \in Children(1)
  <2>1. n # 1 /\ Up(n) = 1
    BY <1>1, <1>3, KindFacts, OrderFacts
  <2> QED BY <1>2, <2>1, AboveUp, ChildFacts, OrderFacts
<1>4. ASSUME Kind(g) = "handler" PROVE g # 1 /\ Up(Up(g)) = 1 /\ Above[g] = {1, Up(g)}
  <2>1. g # 1 /\ Kind(Up(g)) = "state" /\ Up(g) \in Node
    BY <1>4, KindFacts, OrderFacts
  <2> QED BY <1>3, <2>1, AboveUp
<1>5. ASSUME g \in Children(1) PROVE Kind(g) \in {"variable", "function", "state"}
  <2>1. g # 1 /\ Up(g) = 1 /\ Kind(Up(g)) = "script"
    BY <1>5, KindFacts, ChildFacts, OrderFacts
  <2> QED BY <2>1, KindFacts
<1> QED BY <1>3, <1>4, <1>5

\* What is declared belongs to the node it stands in.
LEMMA ScopeIsUp ==
  ASSUME Ordered, NEW d \in Declarations
  PROVE  d \in Node /\ d # 1 /\ Up(d) \in Node /\ Up(d) \in Scopes /\ Up(d) < d /\ ScopeOf(d) = Up(d)
<1>1. d \in Node /\ Kind(d) \in {"variable", "function", "state", "handler", "param", "local", "label"}
  BY DEF Declarations
<1>2. d # 1 /\ Up(d) \in Node /\ Up(d) < d
  BY <1>1, KindFacts, OrderFacts
<1>3. Up(d) \in Scopes
  BY <1>1, <1>2, KindFacts DEF Scopes
<1>4. CASE Kind(d) \in {"variable", "function", "state"}
  BY <1>1, <1>2, <1>3, <1>4, GlobalFacts DEF ScopeOf
<1>5. CASE Kind(d) \notin {"variable", "function", "state"}
  <2>1. ScopeOf(d) = Innermost(Above[d] \cap Scopes)
    BY <1>5 DEF ScopeOf
  <2>2. Up(d) \in Above[d] \cap Scopes /\ \A a \in Above[d] \cap Scopes : a <= Up(d)
    BY <1>1, <1>2, <1>3, AboveUp
  <2>3. Above[d] \cap Scopes \subseteq Node
    BY DEF Scopes
  <2> QED BY <1>1, <1>2, <1>3, <2>1, <2>2, <2>3, InnermostGreatest
<1> QED BY <1>1, <1>2, <1>3, <1>4, <1>5

\* Functions do not nest.
LEMMA FunctionUnique ==
  ASSUME Ordered, NEW n \in Node, NEW f \in Functions, f \in Above[n]
  PROVE  FunctionOf(n) = f /\ \A g \in Functions : g \in Above[n] => g = f
<1>1. ASSUME NEW g \in Functions, NEW a \in Above[g] PROVE Kind(a) \in {"script", "state"} /\ a \in Node
  <2>1. g \in Node /\ Kind(g) \in {"function", "handler"}
    BY DEF Functions, All
  <2>2. CASE Kind(g) = "function"
    BY <1>1, <2>1, <2>2, GlobalFacts, KindFacts, OrderFacts
  <2>3. CASE Kind(g) = "handler"
    BY <1>1, <2>1, <2>3, GlobalFacts, KindFacts, OrderFacts
  <2> QED BY <2>1, <2>2, <2>3
<1>2. ASSUME NEW g \in Functions, NEW h \in Functions, g \in Above[n], h \in Above[n], g < h PROVE FALSE
  <2>1. g \in Node /\ h \in Node /\ n \in Below(g) /\ n \in Below(h)
    BY <1>2, AboveFacts
  <2>2. g \in Above[h]
    BY <1>2, <2>1, AboveComparable
  <2> QED BY <1>1, <2>2 DEF Functions, All
<1>3. ASSUME NEW g \in Functions, g \in Above[n] PROVE g = f
  <2>1. g \in Nat /\ f \in Nat
    BY <1>3, AboveFacts, OrderFacts
  <2> QED BY <1>2, <1>3, <2>1
<1>4. {a \in Above[n] : Kind(a) \in {"function", "handler"}} = {f}
  BY <1>3, AboveFacts DEF Functions, All
<1>5. f \in Node /\ f <= f
  BY AboveFacts, OrderFacts
<1>6. Innermost({f}) = f
  BY <1>5, InnermostGreatest
<1> QED BY <1>3, <1>4, <1>6 DEF FunctionOf

\* An initializer of a global is all reads and calls.
LEMMA InitializerFacts ==
  ASSUME Ordered, NEW u \in Node, InInitializer(u)
  PROVE  /\ u # 1 /\ Kind(u) \in {"read", "call"} /\ FunctionOf(u) = 0
         /\ \A a \in Above[u] : a = 1 \/ Kind(a) \in {"variable", "call"}
<1> DEFINE Fine(m) == /\ Kind(m) \in {"read", "call"}
                      /\ \A a \in Above[m] : a = 1 \/ Kind(a) \in {"variable", "call"}
           Odd == {m \in Node : InInitializer(m) /\ ~Fine(m)}
<1>1. ASSUME NEW m \in Node, InInitializer(m) PROVE m # 1
  BY <1>1, AboveFacts, OrderFacts DEF InInitializer, Node
<1>2. ASSUME NEW m \in Odd PROVE Up(m) \in Odd /\ Up(m) < m
  <2>1. m \in Node /\ m # 1 /\ Up(m) \in Node /\ Up(m) < m /\ ~Fine(m)
    BY <1>1, <1>2, OrderFacts
  <2>2. \A a : a \in Above[m] <=> a = Up(m) \/ a \in Above[Up(m)]
    BY <2>1, AboveUp
  <2>3. CASE Kind(Up(m)) = "variable"
    <3>1. Kind(m) \in {"read", "call"} /\ Above[Up(m)] = {1}
      BY <2>1, <2>3, KindFacts, GlobalFacts
    <3> QED BY <2>1, <2>2, <2>3, <3>1
  <2>4. CASE Kind(Up(m)) # "variable"
    <3>1. InInitializer(Up(m))
      BY <1>2, <2>2, <2>4 DEF InInitializer
    <3>2. ASSUME Fine(Up(m)) PROVE FALSE
      <4>1. Kind(m) \in {"read", "call"} /\ Kind(Up(m)) = "call"
        BY <2>1, <3>2, KindFacts
      <4> QED BY <2>1, <2>2, <3>2, <4>1
    <3> QED BY <2>1, <3>1, <3>2
  <2> QED BY <2>3, <2>4
<1>3. Odd = {}
  <2> SUFFICES ASSUME Odd # {} PROVE FALSE
    OBVIOUS
  <2>1. PICK m \in Odd : \A k \in Odd : m <= k
    BY LeastExists, OrderFacts
  <2> HIDE DEF Odd
  <2>2. Up(m) \in Odd /\ Up(m) < m
    BY <1>2
  <2>3. m \in Nat /\ Up(m) \in Nat
    BY <2>2, OrderFacts DEF Odd
  <2> QED BY <2>1, <2>2, <2>3
<1>4. Fine(u)
  BY <1>3
<1>5. {a \in Above[u] : Kind(a) \in {"function", "handler"}} = {}
  BY <1>4, KindFacts
<1> QED BY <1>1, <1>4, <1>5 DEF FunctionOf, Innermost

\* All that can stand in a body is in a function.
InBody(n) ==
  \/ Kind(n) \in {"param", "block", "local", "label", "jump", "switch"}
  \/ Kind(n) \in {"read", "call"} /\ ~InInitializer(n)

LEMMA BodyFunction ==
  ASSUME Ordered, NEW n \in Node, InBody(n)
  PROVE  n # 1 /\ FunctionOf(n) \in Functions /\ FunctionOf(n) \in Above[n]
<1> DEFINE Lost == {m \in Node : InBody(m) /\ ~ \E f \in Functions : f \in Above[m]}
<1>1. ASSUME NEW m \in Lost PROVE Up(m) \in Lost /\ Up(m) < m
  <2>1. m \in Node /\ m # 1 /\ Up(m) \in Node /\ Up(m) < m
    BY <1>1, KindFacts, OrderFacts DEF InBody
  <2>2. \A a : a \in Above[m] <=> a = Up(m) \/ a \in Above[Up(m)]
    BY <2>1, AboveUp
  <2>3. Kind(Up(m)) \in {"function", "handler", "block", "local", "call"}
    <3>1. Kind(m) \in {"read", "call"} => Kind(Up(m)) # "variable"
      BY <1>1, <2>2 DEF InBody, InInitializer
    <3> QED BY <1>1, <2>1, <3>1, KindFacts DEF InBody
  <2>4. Up(m) \notin Functions
    BY <1>1, <2>1, <2>2
  <2>5. InBody(Up(m))
    <3>1. Kind(Up(m)) = "call" => Kind(m) \in {"read", "call"}
      BY <1>1, <2>1, KindFacts DEF InBody
    <3>2. Kind(Up(m)) = "call" => ~InInitializer(Up(m))
      BY <1>1, <2>2, <3>1 DEF InBody, InInitializer
    <3> QED BY <2>1, <2>3, <2>4, <3>2 DEF Functions, All, InBody
  <2>6. ~ \E f \in Functions : f \in Above[Up(m)]
    BY <1>1, <2>2
  <2> QED BY <2>1, <2>5, <2>6
<1>2. Lost = {}
  <2> SUFFICES ASSUME Lost # {} PROVE FALSE
    OBVIOUS
  <2>1. PICK m \in Lost : \A k \in Lost : m <= k
    BY LeastExists, OrderFacts
  <2> HIDE DEF Lost
  <2>2. Up(m) \in Lost /\ Up(m) < m
    BY <1>1
  <2>3. m \in Nat /\ Up(m) \in Nat
    BY <2>2, OrderFacts DEF Lost
  <2> QED BY <2>1, <2>2, <2>3
<1>3. PICK f \in Functions : f \in Above[n]
  BY <1>2
<1>4. n # 1
  BY <1>3, AboveFacts, OrderFacts DEF Node
<1> QED BY <1>3, <1>4, FunctionUnique

-----------------------------------------------------------------------------
(* What has been declared and what has been resolved, by where the visitor *)
(* is.                                                                     *)

Walking == phase \in {"bodies", "mangle", "done"}
MetInBodies == IF Walking THEN Met(at) ELSE {}
LeftInBodies == IF Walking THEN Met(at) \ Inside(at) ELSE {}

Globals == All("variable") \cup All("function")
IsEvent(h) == [name |-> Name(h), type |-> "event"] \in Builtins

\* The declarations that have been defined, or clashed with one that was.
Seen ==
  (IF phase = "prototypes" THEN Globals \cap Met(at) ELSE Globals)
    \cup (CASE phase = "prototypes" -> {}
            [] phase = "states" -> All("state") \cap Met(at)
            [] OTHER -> All("state"))
    \cup ((All("param") \cup All("label")) \cap MetInBodies)
    \cup {h \in All("handler") \cap MetInBodies : IsEvent(h)}
    \cup (All("local") \cap LeftInBodies)

\* The uses that have been resolved.
Answered ==
  {u \in Uses :
     IF InInitializer(u) THEN phase = "prototypes" => u \in Met(at)
     ELSE IF Kind(u) = "jump" THEN FunctionOf(u) \in LeftInBodies
     ELSE u \in MetInBodies}

Allowed(d) ==
  \A b \in Builtins : Name(d) = b.name =>
    CASE b.type = "event" -> Type(d) = "event"
      [] b.type = "function" -> Sub(d) # "global"
      [] OTHER -> FALSE

-----------------------------------------------------------------------------
(* The invariant. *)

Where ==
  /\ body \in Bodies
  /\ phase \in {"prototypes", "states", "bodies", "mangle", "done"}
  /\ at \in Position
  /\ phase \in {"prototypes", "states"} => at = End \/ \E g \in Children(1) : at = In(g)
  /\ phase = "prototypes" => All("state") \cap Met(at) = {}
  /\ phase = "bodies" /\ at[1] # 1 => ~InInitializer(at[1])
  /\ phase \in {"mangle", "done"} => at = End
  /\ DOMAIN table = Scopes /\ DOMAIN symbol = Uses

\* The lists hold the labels and the jumps met in the function the visitor is in.
Collected == {collected[i] : i \in DOMAIN collected}
InOpenFunction(kind) == {n \in All(kind) \cap MetInBodies : FunctionOf(n) \in Inside(at)}
Lists ==
  /\ collected \in Seq(Node) /\ Collected = InOpenFunction("label")
  /\ pending \in Seq(Node) /\ Jumps = InOpenFunction("jump")

TablesExact == \A s \in Scopes : table[s] = {d \in Seen : ScopeOf(d) = s}
NamesDiffer == \A d, e \in Seen : d # e /\ ScopeOf(d) = ScopeOf(e) => Name(d) # Name(e)
NamesAllowed == \A d \in Seen : Allowed(d)
EventsExist == \A h \in All("handler") \cap MetInBodies : IsEvent(h)
UsesAnswered ==
  \A u \in Answered :
    /\ Means(u, Source) # {} \/ BuiltinMeaning(u, Source) # {}
    /\ symbol[u] = Meaning(u, Source)

RulesKept == TablesExact /\ NamesDiffer /\ NamesAllowed /\ EventsExist /\ UsesAnswered

SymbolsInv ==
  /\ Where /\ Lists
  /\ WellScoped(Source) => errors = {}
  /\ errors = {} => RulesKept

-----------------------------------------------------------------------------
(* Looking a name up in tables that hold what has been declared. *)

LEMMA SeenDeclared ==
  ASSUME Ordered
  PROVE  Seen \subseteq Declarations /\ Declarations \subseteq Node /\ 1 \in Scopes /\ Scopes \subseteq Node
BY KindFacts, OrderFacts DEF Seen, Declarations, Globals, All, MetInBodies, LeftInBodies, Scopes

LEMMA TypeFacts ==
  ASSUME Ordered
  PROVE  /\ \A d \in Declarations :
              /\ \/ Kind(d) \in {"variable", "local", "param"} /\ Type(d) = "variable"
                 \/ Kind(d) = "function" /\ Type(d) = "function"
                 \/ Kind(d) = "state" /\ Type(d) = "state"
                 \/ Kind(d) = "label" /\ Type(d) = "label"
                 \/ Kind(d) = "handler" /\ Type(d) = "event"
              /\ Kind(d) \in {"variable", "function", "state"} <=> Up(d) = 1
              /\ Sub(d) = "global" <=> Up(d) = 1
              /\ Sub(d) = "builtin" <=> Kind(d) = "handler"
         /\ \A u \in Uses :
              \/ Kind(u) = "read" /\ Type(u) = "variable"
              \/ Kind(u) = "call" /\ Type(u) = "function"
              \/ Kind(u) = "switch" /\ Type(u) = "state"
              \/ Kind(u) = "jump" /\ Type(u) = "label"
<1>1. ASSUME NEW d \in Declarations PROVE Kind(d) \in {"variable", "function", "state"} <=> Up(d) = 1
  <2>1. d \in Node /\ d # 1 /\ Kind(d) \in {"variable", "function", "state", "handler", "param", "local", "label"}
    BY ScopeIsUp DEF Declarations
  <2>2. Up(d) = 1 => d \in Children(1)
    BY <2>1, ChildFacts, OrderFacts
  <2> QED BY <2>1, <2>2, GlobalFacts, OrderFacts
<1>2. ASSUME NEW d \in Declarations
      PROVE  /\ \/ Kind(d) \in {"variable", "local", "param"} /\ Type(d) = "variable"
                \/ Kind(d) = "function" /\ Type(d) = "function"
                \/ Kind(d) = "state" /\ Type(d) = "state"
                \/ Kind(d) = "label" /\ Type(d) = "label"
                \/ Kind(d) = "handler" /\ Type(d) = "event"
             /\ Sub(d) = "global" <=> Kind(d) \in {"variable", "function", "state"}
             /\ Sub(d) = "builtin" <=> Kind(d) = "handler"
  <2>1. d \in Node /\ Kind(d) \in {"variable", "function", "state", "handler", "param", "local", "label"}
    BY DEF Declarations
  <2>2. CASE Kind(d) \in {"variable", "local", "param"}
    BY <2>2 DEF Type, Sub
  <2>3. CASE Kind(d) \in {"function", "state"}
    BY <2>3 DEF Type, Sub
  <2>4. CASE Kind(d) = "handler"
    BY <2>4 DEF Type, Sub
  <2>5. CASE Kind(d) = "label"
    BY <2>5 DEF Type, Sub
  <2> QED BY <2>1, <2>2, <2>3, <2>4, <2>5
<1>3. ASSUME NEW u \in Uses
      PROVE  \/ Kind(u) = "read" /\ Type(u) = "variable"
             \/ Kind(u) = "call" /\ Type(u) = "function"
             \/ Kind(u) = "switch" /\ Type(u) = "state"
             \/ Kind(u) = "jump" /\ Type(u) = "label"
  BY DEF Uses, Type
<1> QED BY <1>1, <1>2, <1>3

LEMMA SymbolFacts ==
  ASSUME Ordered
  PROVE  /\ \A d \in Declarations : Symbol(d) # NoSymbol
         /\ \A b : BuiltinSymbol(b) # NoSymbol
<1>1. ASSUME NEW d \in Declarations PROVE Symbol(d) # NoSymbol
  <2>1. d # 0
    BY ScopeIsUp, OrderFacts DEF Node
  <2>2. Symbol(d).decl = d /\ NoSymbol.decl = 0
    BY DEF Symbol, NoSymbol
  <2> QED BY <2>1, <2>2
<1>2. ASSUME NEW b PROVE BuiltinSymbol(b) # NoSymbol
  <2>1. BuiltinSymbol(b).sub = "builtin" /\ NoSymbol.sub = ""
    BY DEF BuiltinSymbol, NoSymbol
  <2> QED BY <2>1
<1> QED BY <1>1, <1>2

\* The tables hold what has been declared, by different names, and nothing
\* that takes a name of the language.
Tabled == Ordered /\ TablesExact /\ NamesDiffer /\ NamesAllowed

LEMMA TableFacts ==
  ASSUME Tabled, NEW s \in Scopes, NEW name, NEW wanted
  PROVE  \A d : d \in InTable(s, name, wanted) <=>
           d \in Seen /\ Up(d) = s /\ Name(d) = name /\ Fits(Type(d), wanted)
BY ScopeIsUp, SeenDeclared DEF Tabled, TablesExact, InTable

\* Whatever use sees exactly what has been declared around it is resolved to
\* what it means.
SeesDeclared(u) ==
  \A d \in Declarations : Visible(d, u) <=> d \in Seen /\ Up(d) \in Above[u] /\ Type(d) = Type(u)

LEMMA LookupMeans ==
  ASSUME Tabled, NEW u \in Uses, SeesDeclared(u)
  PROVE  LET found == Lookup(u, Name(u), Type(u)) IN
         /\ found = NoSymbol <=> Means(u, Source) = {} /\ BuiltinMeaning(u, Source) = {}
         /\ found # NoSymbol /\ Kind(u) = "jump" => Means(u, Source) # {}
         /\ found # NoSymbol /\ Kind(u) # "jump" => found = Meaning(u, Source)
<1> DEFINE N == Name(u)
           T == Type(u)
           M == Means(u, Source)
           B == BuiltinMeaning(u, Source)
           own == {b \in Builtins : b.name = N /\ Fits(b.type, T)}
           having == {s \in Scopes \cap (Above[u] \cup {u}) : s # 1 /\ InTable(s, N, T) # {}}
           found == Lookup(u, N, T)
<1>1. /\ Ordered /\ u \in Node /\ T \in {"variable", "function", "state", "label"}
      /\ (Kind(u) = "jump" <=> T = "label") /\ Kind(u) \in {"read", "call", "jump", "switch"}
  BY TypeFacts DEF Tabled, Uses
<1>2. u # 1 /\ u \notin Scopes /\ Above[u] \subseteq Node
  BY <1>1, KindFacts, AboveFacts DEF Scopes
<1>3. 1 \in Above[u]
  <2>1. 1 \in Node /\ 1 < u /\ u \in Below(1)
    BY <1>1, <1>2, OrderFacts, EndMeets DEF Met, End, Before, Node
  <2> QED BY <1>1, <2>1, AboveFacts
<1>4. \A d : d \in M <=> d \in Seen /\ Up(d) \in Above[u] /\ Type(d) = T /\ Name(d) = N
  BY <1>1, SeenDeclared DEF Means, Source, SeesDeclared
<1>5. M \subseteq Declarations /\ \A d \in M : ScopeOf(d) = Up(d) /\ Up(d) \in Scopes \cap Above[u] /\ Up(d) \in Node
  BY <1>1, <1>4, SeenDeclared, ScopeIsUp
<1>6. ASSUME NEW d \in M, NEW e \in M, Up(d) = Up(e) PROVE d = e
  BY <1>4, <1>5, <1>6 DEF Tabled, NamesDiffer
<1>7. \A s \in Scopes \cap Above[u] : InTable(s, N, T) = {d \in M : Up(d) = s}
  <2>1. \A t : Fits(t, T) <=> t = T
    BY <1>1 DEF Fits
  <2> QED BY <1>4, <2>1, TableFacts
<1>8. B = own
  BY <1>1 DEF BuiltinMeaning, Fits, Source
<1>9. having = {s \in Scopes \cap Above[u] : s # 1 /\ \E d \in M : Up(d) = s}
  BY <1>2, <1>7
<1>10. found = IF having = {} THEN RootLookup(N, T)
               ELSE Symbol(CHOOSE d \in InTable(Innermost(having), N, T) : TRUE)
  BY DEF Lookup
<1>11. Meaning(u, Source) =
         IF M = {} THEN BuiltinSymbol(CHOOSE b \in B : TRUE)
         ELSE IF Kind(u) = "jump"
         THEN Symbol(Innermost({l \in Node : Kind(l) = "label" /\ Source[l] = Source[u] /\ FunctionOf(l) = FunctionOf(u)}))
         ELSE Symbol(InnermostOf(M))
  BY DEF Meaning
<1>12. \A b \in B : b.type \in {"variable", "function", "event"} /\ b.name = N /\ b.type = T /\ b \in Builtins
  BY <1>1, BuiltinsAssumption DEF BuiltinMeaning, Source
<1> HIDE DEF M, B, own, having, found
<1>13. CASE having = {}
  <2>1. \A d \in M : Up(d) = 1
    BY <1>5, <1>9, <1>13
  <2>2. InTable(1, N, T) = M
    BY <1>1, <1>3, <1>7, <2>1, SeenDeclared
  <2>3. found = RootLookup(N, T)
    BY <1>10, <1>13
  <2>4. RootLookup(N, T) = IF own # {} THEN BuiltinSymbol(CHOOSE b \in own : TRUE)
                           ELSE IF InTable(1, N, T) # {} THEN Symbol(CHOOSE d \in InTable(1, N, T) : TRUE)
                           ELSE NoSymbol
    BY DEF RootLookup, own
  <2>5. CASE own # {}
    <3>1. found = BuiltinSymbol(CHOOSE b \in B : TRUE)
      BY <1>8, <2>3, <2>4, <2>5
    <3>2. PICK b \in B : TRUE
      BY <1>8, <2>5
    <3>3. ASSUME NEW d \in M PROVE FALSE
      <4>1. d \in Seen /\ d \in Declarations /\ Name(d) = b.name /\ Type(d) = T /\ Up(d) = 1
        BY <1>4, <1>5, <1>12, <2>1
      <4>2. (CASE b.type = "event" -> Type(d) = "event"
               [] b.type = "function" -> Sub(d) # "global"
               [] OTHER -> FALSE)
        BY <1>12, <4>1 DEF Tabled, NamesAllowed, Allowed
      <4>3. Sub(d) = "global"
        BY <1>1, <4>1, TypeFacts
      <4> QED BY <1>1, <1>12, <4>1, <4>2, <4>3
    <3>4. M = {} /\ B # {} /\ found # NoSymbol
      BY <1>1, <1>8, <2>5, <3>1, <3>3, SymbolFacts
    <3>5. T # "label"
      BY <1>12, <3>2
    <3>6. found = Meaning(u, Source)
      BY <1>11, <3>1, <3>4
    <3> QED BY <1>1, <3>4, <3>5, <3>6 DEF M, B, found
  <2>6. CASE own = {} /\ M # {}
    <3>1. PICK d \in M : TRUE
      BY <2>6
    <3>2. M = {d}
      BY <1>6, <2>1
    <3>3. found = Symbol(CHOOSE x \in M : TRUE)
      BY <2>2, <2>3, <2>4, <2>6
    <3>4. found = Symbol(d)
      BY <3>2, <3>3
    <3>5. Up(d) <= Up(d) /\ ScopeOf(d) = Up(d)
      BY <1>1, <1>5, OrderFacts
    <3>6. InnermostOf(M) = d
      BY <3>2, <3>5 DEF InnermostOf
    <3>7. found # NoSymbol
      BY <1>1, <1>5, <3>4, SymbolFacts
    <3> QED BY <1>11, <2>6, <3>4, <3>6, <3>7 DEF M, B, found
  <2>7. CASE own = {} /\ M = {}
    <3>1. found = NoSymbol
      BY <2>2, <2>3, <2>4, <2>7
    <3> QED BY <1>8, <2>7, <3>1 DEF M, B, found
  <2> QED BY <2>5, <2>6, <2>7
<1>14. CASE having # {}
  <2>1. having \subseteq Node
    BY <1>1, <1>9, SeenDeclared
  <2>2. PICK t : t = Innermost(having)
    OBVIOUS
  <2>3. t \in having /\ \A s \in having : s <= t
    BY <1>1, <1>14, <2>1, <2>2, InnermostLast
  <2>4. t \in Scopes \cap Above[u] /\ t # 1 /\ t \in Node /\ \E d \in M : Up(d) = t
    BY <1>9, <2>1, <2>3
  <2>5. PICK d \in M : Up(d) = t
    BY <2>4
  <2>6. InTable(t, N, T) = {d}
    BY <1>6, <1>7, <2>4, <2>5
  <2>7. found = Symbol(CHOOSE x \in InTable(t, N, T) : TRUE)
    BY <1>10, <1>14, <2>2
  <2>8. found = Symbol(d) /\ found # NoSymbol
    BY <1>1, <1>5, <2>6, <2>7, SymbolFacts
  <2>9. ASSUME NEW e \in M PROVE ScopeOf(e) <= ScopeOf(d)
    <3>1. Up(e) = 1 \/ Up(e) \in having
      BY <1>5, <1>9
    <3>2. Up(e) <= t
      <4>1. 1 <= t
        BY <1>1, <2>4, OrderFacts DEF Node
      <4> QED BY <2>3, <3>1, <4>1
    <3> QED BY <1>5, <2>5, <3>2
  <2>10. ASSUME NEW e \in M, \A x \in M : ScopeOf(x) <= ScopeOf(e) PROVE e = d
    <3>1. Up(e) <= t /\ t <= Up(e) /\ Up(e) \in Node
      BY <1>5, <2>5, <2>9, <2>10
    <3>2. Up(e) = t
      BY <1>1, <2>4, <3>1, OrderFacts
    <3> QED BY <1>6, <2>5, <3>2
  <2>11. InnermostOf(M) = d
    BY <2>9, <2>10 DEF InnermostOf
  <2> QED BY <1>11, <2>5, <2>8, <2>11 DEF M, B, found
<1> QED BY <1>13, <1>14

-----------------------------------------------------------------------------
(* The names of the language. *)

LEMMA RootAny ==
  ASSUME Tabled, NEW name
  PROVE  LET root == RootLookup(name, "any") IN
         /\ root.sub = "builtin" <=> \E b \in Builtins : b.name = name
         /\ \A b \in Builtins : b.name = name => root.type = b.type
<1> DEFINE own == {b \in Builtins : b.name = name /\ Fits(b.type, "any")}
           root == RootLookup(name, "any")
<1>1. Ordered /\ 1 \in Scopes /\ Seen \subseteq Declarations
  BY SeenDeclared DEF Tabled
<1>2. \A b : b \in own <=> b \in Builtins /\ b.name = name
  BY DEF Fits
<1>3. root = IF own # {} THEN BuiltinSymbol(CHOOSE b \in own : TRUE)
             ELSE IF InTable(1, name, "any") # {} THEN Symbol(CHOOSE d \in InTable(1, name, "any") : TRUE)
             ELSE NoSymbol
  BY DEF RootLookup
<1> HIDE DEF own, root
<1>4. CASE own # {}
  <2>1. PICK b \in own : root = BuiltinSymbol(b)
    BY <1>3, <1>4
  <2>2. b \in Builtins /\ b.name = name /\ \A c \in Builtins : c.name = name => c = b
    BY <1>2, <2>1, BuiltinsAssumption
  <2>3. root.sub = "builtin" /\ root.type = b.type
    BY <2>1 DEF BuiltinSymbol
  <2> QED BY <2>2, <2>3 DEF root
<1>5. CASE own = {} /\ InTable(1, name, "any") # {}
  <2>1. PICK d \in InTable(1, name, "any") : root = Symbol(d)
    BY <1>3, <1>5
  <2>2. d \in Declarations /\ Up(d) = 1
    BY <1>1, <2>1, TableFacts
  <2>3. Sub(d) = "global"
    BY <1>1, <2>2, TypeFacts
  <2>4. root.sub = "global"
    BY <2>1, <2>3 DEF Symbol
  <2> QED BY <1>2, <1>5, <2>4 DEF root
<1>6. CASE own = {} /\ InTable(1, name, "any") = {}
  <2>1. root.sub = ""
    BY <1>3, <1>6 DEF NoSymbol
  <2> QED BY <1>2, <1>6, <2>1 DEF root
<1> QED BY <1>4, <1>5, <1>6

LEMMA AllowedFacts ==
  ASSUME Ordered, NEW d \in Declarations
  PROVE  /\ ~Allowed(d) => \E b \in Builtins : b.name = Name(d)
         /\ \A b \in Builtins : b.name = Name(d) =>
              /\ b.type \in {"variable", "function", "event"}
              /\ Allowed(d) <=> \/ b.type = "event" /\ Type(d) = "event"
                                \/ b.type = "function" /\ Up(d) # 1
<1>1. ~Allowed(d) => \E b \in Builtins : b.name = Name(d)
  BY DEF Allowed
<1>2. ASSUME NEW b \in Builtins, b.name = Name(d)
      PROVE  /\ b.type \in {"variable", "function", "event"}
             /\ Allowed(d) <=> \/ b.type = "event" /\ Type(d) = "event"
                               \/ b.type = "function" /\ Up(d) # 1
  <2>1. b.type \in {"variable", "function", "event"}
    BY BuiltinsAssumption
  <2>2. \A c \in Builtins : Name(d) = c.name => c = b
    BY <1>2, BuiltinsAssumption
  <2>3. Allowed(d) <=> (CASE b.type = "event" -> Type(d) = "event"
                          [] b.type = "function" -> Sub(d) # "global"
                          [] OTHER -> FALSE)
    BY <1>2, <2>2 DEF Allowed
  <2>4. Sub(d) # "global" <=> Up(d) # 1
    BY TypeFacts
  <2>5. CASE b.type = "event"
    BY <2>3, <2>5
  <2>6. CASE b.type = "function"
    BY <2>3, <2>4, <2>6
  <2>7. CASE b.type = "variable"
    BY <2>3, <2>7
  <2> QED BY <2>1, <2>5, <2>6, <2>7
<1> QED BY <1>1, <1>2

\* A definition is refused for a name of the language exactly when that name
\* may not be taken.
LEMMA ReservedNames ==
  ASSUME Tabled, NEW d \in Declarations
  PROVE  Reserved(d) <=> ~Allowed(d)
<1> DEFINE N == Name(d)
           T == Type(d)
           s == Up(d)
           outer == IF s = 1 THEN NoSymbol ELSE Lookup(Up(s), N, T)
<1>1. Ordered /\ Seen \subseteq Declarations /\ 1 \in Scopes /\ s \in Node /\ s \in Scopes /\ ScopeOf(d) = s
  BY SeenDeclared, ScopeIsUp DEF Tabled
<1>2. Hidden(d) = IF outer # NoSymbol THEN outer ELSE RootLookup(N, "any")
  BY <1>1 DEF Hidden
<1>3. Reserved(d) <=> /\ Hidden(d).sub = "builtin"
                      /\ Hidden(d).type = "event" => T # "event"
                      /\ Hidden(d).type = "function" => s = 1
  BY <1>1, TypeFacts DEF Reserved
<1> HIDE DEF outer
<1>4. CASE outer = NoSymbol
  <2>1. PICK root : root = RootLookup(N, "any") /\ Hidden(d) = root
    BY <1>2, <1>4
  <2>2. CASE \E b \in Builtins : b.name = N
    <3>1. PICK b \in Builtins : b.name = N
      BY <2>2
    <3>2. root.sub = "builtin" /\ root.type = b.type
      BY <2>1, <3>1, RootAny
    <3>3. /\ b.type \in {"variable", "function", "event"}
          /\ Allowed(d) <=> (b.type = "event" /\ T = "event") \/ (b.type = "function" /\ s # 1)
      BY <1>1, <3>1, AllowedFacts
    <3>4. Reserved(d) <=> (b.type = "event" => T # "event") /\ (b.type = "function" => s = 1)
      BY <1>3, <2>1, <3>2
    <3> QED BY <3>3, <3>4
  <2>3. CASE ~ \E b \in Builtins : b.name = N
    <3>1. root.sub # "builtin"
      BY <2>1, <2>3, RootAny
    <3> QED BY <1>1, <1>3, <2>1, <2>3, <3>1, AllowedFacts
  <2> QED BY <2>2, <2>3
<1>5. CASE outer # NoSymbol
  <2>1. s # 1 /\ outer = Lookup(Up(s), N, T) /\ Hidden(d) = outer
    BY <1>2, <1>5 DEF outer
  <2>2. Up(s) \in Node
    BY <1>1, <2>1, OrderFacts
  <2> DEFINE having == {x \in Scopes \cap (Above[Up(s)] \cup {Up(s)}) : x # 1 /\ InTable(x, N, T) # {}}
  <2>3. outer = IF having = {} THEN RootLookup(N, T)
                ELSE Symbol(CHOOSE e \in InTable(Innermost(having), N, T) : TRUE)
    BY <2>1 DEF Lookup
  <2>4. \A x : Fits(x, T) <=> x = T
    BY <1>1, TypeFacts DEF Fits
  <2>5. T # "function" /\ (T = "event" => having = {})
    <3>1. Kind(d) \notin {"variable", "function", "state"} /\ (T = "event" => Kind(d) = "handler")
      BY <1>1, <2>1, TypeFacts
    <3>2. Kind(d) = "handler" => Up(s) = 1 /\ Above[1] = {}
      BY <1>1, ScopeIsUp, GlobalFacts, AboveFacts, OrderFacts DEF Node
    <3> QED BY <1>1, <3>1, <3>2, TypeFacts
  <2> HIDE DEF having
  <2>6. CASE having # {}
    <3>1. having \subseteq Node
      BY <1>1, SeenDeclared DEF having
    <3>2. Innermost(having) \in having
      BY <1>1, <2>6, <3>1, InnermostLast
    <3>3. PICK x \in having : outer = Symbol(CHOOSE e \in InTable(x, N, T) : TRUE)
      BY <2>3, <2>6, <3>2
    <3>4. x \in Scopes /\ x # 1 /\ InTable(x, N, T) # {}
      BY <3>3 DEF having
    <3>5. PICK e \in InTable(x, N, T) : outer = Symbol(e)
      BY <3>3, <3>4
    <3>6. e \in Seen /\ e \in Declarations /\ Up(e) = x /\ Name(e) = N /\ Type(e) = T
      BY <1>1, <2>4, <3>4, <3>5, TableFacts
    <3>7. Sub(e) # "builtin"
      BY <1>1, <2>5, <2>6, <3>6, TypeFacts
    <3>8. ~Reserved(d)
      BY <1>3, <2>1, <3>5, <3>7 DEF Symbol
    <3>9. Allowed(e)
      BY <3>6 DEF Tabled, NamesAllowed
    <3>10. ASSUME NEW b \in Builtins, b.name = N
           PROVE  (b.type = "event" /\ T = "event") \/ (b.type = "function" /\ s # 1)
      BY <1>1, <2>1, <3>6, <3>9, <3>10, AllowedFacts
    <3>11. Allowed(d)
      BY <1>1, <3>10, AllowedFacts
    <3> QED BY <3>8, <3>11
  <2>7. CASE having = {}
    <3> DEFINE own == {b \in Builtins : b.name = N /\ Fits(b.type, T)}
    <3>1. outer = IF own # {} THEN BuiltinSymbol(CHOOSE b \in own : TRUE)
                  ELSE IF InTable(1, N, T) # {} THEN Symbol(CHOOSE e \in InTable(1, N, T) : TRUE)
                  ELSE NoSymbol
      BY <2>3, <2>7 DEF RootLookup
    <3>2. \A b : b \in own <=> b \in Builtins /\ b.name = N /\ b.type = T
      BY <2>4
    <3> HIDE DEF own
    <3>3. CASE own # {}
      <4>1. PICK b \in own : outer = BuiltinSymbol(b)
        BY <3>1, <3>3
      <4>2. Hidden(d).sub = "builtin" /\ Hidden(d).type = T
        BY <2>1, <3>2, <4>1 DEF BuiltinSymbol
      <4>3. b \in Builtins /\ b.name = N /\ b.type = T
        BY <3>2, <4>1
      <4>4. Reserved(d) <=> T # "event"
        BY <1>3, <2>5, <4>2
      <4>5. Allowed(d) <=> T = "event"
        BY <1>1, <2>5, <4>3, AllowedFacts
      <4> QED BY <4>4, <4>5
    <3>4. CASE own = {}
      <4>1. PICK e \in InTable(1, N, T) : outer = Symbol(e)
        BY <1>5, <3>1, <3>4
      <4>2. e \in Seen /\ e \in Declarations /\ Up(e) = 1 /\ Name(e) = N /\ Type(e) = T
        BY <1>1, <2>4, <4>1, TableFacts
      <4>3. Sub(e) = "global" /\ T # "event"
        BY <1>1, <4>2, TypeFacts
      <4>4. ~Reserved(d)
        BY <1>3, <2>1, <4>1, <4>3 DEF Symbol
      <4>5. Allowed(e)
        BY <4>2 DEF Tabled, NamesAllowed
      <4>6. ~ \E b \in Builtins : b.name = N
        BY <1>1, <4>2, <4>3, <4>5, AllowedFacts
      <4> QED BY <1>1, <4>4, <4>6, AllowedFacts
    <3> QED BY <3>3, <3>4
  <2> QED BY <2>6, <2>7
<1> QED BY <1>4, <1>5

-----------------------------------------------------------------------------
(* When it is resolved, a use sees exactly what has been declared around it. *)

LEMMA SeenFacts ==
  ASSUME Where, NEW d \in Declarations
  PROVE  d \in Seen <=>
           \/ Kind(d) \in {"variable", "function"} /\ (phase = "prototypes" => d \in Met(at))
           \/ Kind(d) = "state" /\ phase # "prototypes" /\ (phase = "states" => d \in Met(at))
           \/ Kind(d) \in {"param", "label"} /\ d \in MetInBodies
           \/ Kind(d) = "handler" /\ d \in MetInBodies /\ IsEvent(d)
           \/ Kind(d) = "local" /\ d \in LeftInBodies
<1>1. d \in Node /\ phase \in {"prototypes", "states", "bodies", "mangle", "done"}
  BY SeenDeclared DEF Where, Declarations
<1>2. CASE phase = "prototypes"
  BY <1>1, <1>2 DEF Seen, Globals, All
<1>3. CASE phase = "states"
  BY <1>1, <1>3 DEF Seen, Globals, All
<1>4. CASE phase \in {"bodies", "mangle", "done"}
  BY <1>1, <1>4 DEF Seen, Globals, All
<1> QED BY <1>1, <1>2, <1>3, <1>4

LEMMA VisibleFacts ==
  ASSUME Ordered, NEW u \in Node, NEW d \in Declarations
  PROVE  Visible(d, u) <=>
           /\ Up(d) \in Above[u] /\ Type(d) = Type(u)
           /\ Kind(d) = "local" => d < u /\ u \notin Below(d)
           /\ Kind(d) \in {"variable", "function"} /\ FunctionOf(u) = 0 => d < u /\ u \notin Below(d)
<1>1. d \in Node /\ ScopeOf(d) = Up(d)
  BY ScopeIsUp
<1>2. d \in Above[u] <=> d < u /\ u \in Below(d)
  BY <1>1, AboveFacts
<1> QED BY <1>1, <1>2 DEF Visible

LEMMA InitializerSees ==
  ASSUME Where, phase = "prototypes", NEW g \in Node, at = In(g), Kind(g) = "variable", NEW u \in Initializer(g)
  PROVE  SeesDeclared(u)
<1>1. Ordered /\ u \in Node /\ u \in Uses /\ u \in Below(g) /\ g < u /\ g \in Above[u] /\ InInitializer(u)
  BY AboveFacts DEF Where, Ordered, Initializer, Uses, InInitializer
<1>2. /\ Kind(u) \in {"read", "call"} /\ FunctionOf(u) = 0
      /\ \A a \in Above[u] : a = 1 \/ Kind(a) \in {"variable", "call"}
  BY <1>1, InitializerFacts
<1>3. Met(at) = Before(g) /\ MetInBodies = {} /\ LeftInBodies = {}
  BY DEF Met, In, MetInBodies, LeftInBodies, Walking
<1>4. g # 1 /\ Above[g] = {1} /\ g \in Nat /\ g > 1
  BY <1>1, GlobalFacts, OrderFacts DEF Node
<1>5. ASSUME NEW d \in Declarations, Up(d) \in Above[u], Type(d) = Type(u)
      PROVE  Kind(d) \in {"variable", "function"} /\ (d < u /\ u \notin Below(d) <=> d < g)
  <2>1. d \in Node /\ d # 1 /\ Up(d) \in Scopes
    BY <1>1, ScopeIsUp
  <2>2. Up(d) = 1
    BY <1>2, <1>5, <2>1 DEF Scopes
  <2>3. Kind(d) \in {"variable", "function"}
    BY <1>1, <1>2, <1>5, <2>2, TypeFacts
  <2>4. Above[d] = {1} /\ d \in Nat /\ u \in Nat
    BY <1>1, <2>1, <2>3, GlobalFacts, OrderFacts
  <2>5. u \in Below(d) /\ d < g => FALSE
    BY <1>1, <1>4, <2>1, AboveComparable
  <2>6. g < d /\ d < u => d \in Below(g)
    BY <1>1, <2>1, BelowPrefix, <1>4, <2>4
  <2>7. d \in Below(g) /\ g < d => FALSE
    BY <1>1, <1>4, <2>1, <2>4, AboveFacts
  <2> QED BY <1>1, <1>4, <2>3, <2>4, <2>5, <2>6, <2>7
<1>6. ASSUME NEW d \in Declarations
      PROVE  Visible(d, u) <=> d \in Seen /\ Up(d) \in Above[u] /\ Type(d) = Type(u)
  <2>1. Kind(d) \in {"variable", "function"} => (d \in Seen <=> d \in Node /\ d < g)
    BY <1>3, SeenFacts DEF Before
  <2>2. d \in Node
    BY <1>1, ScopeIsUp
  <2> QED BY <1>1, <1>2, <1>5, <2>1, <2>2, VisibleFacts
<1> QED BY <1>6 DEF SeesDeclared

\* A parameter stands before all that is in the function's body.
LEMMA ParametersFirst ==
  ASSUME Ordered, NEW d \in Node, Kind(d) = "param", NEW u \in Uses, Up(d) \in Above[u]
  PROVE  d < u
<1> DEFINE f == Up(d)
<1>1. u \in Node /\ u # 1 /\ Kind(u) \in {"read", "call", "jump", "switch"}
  BY KindFacts DEF Uses
<1>2. d # 1 /\ f \in Node /\ Kind(f) \in {"function", "handler"} /\ d \in Children(f)
  BY KindFacts, OrderFacts, ChildFacts
<1>3. PICK c \in Children(f) : u \in Below(c)
  BY <1>1, ChildTowards
<1>4. c \in Node /\ c # 1 /\ Up(c) = f /\ c <= u
  BY <1>1, <1>2, <1>3, ChildFacts, BelowFacts
<1>5. Kind(c) \in {"param", "block"}
  BY <1>2, <1>4, KindFacts
<1>6. Kind(c) # "param"
  <2> SUFFICES ASSUME Kind(c) = "param" PROVE FALSE
    OBVIOUS
  <2>1. c # u /\ c < u
    BY <1>1, <1>4, OrderFacts
  <2>2. c \in Above[u]
    BY <1>1, <1>3, <1>4, <2>1, AboveFacts
  <2>3. PICK e \in Children(c) : u \in Below(e)
    BY <1>1, <2>2, ChildTowards
  <2>4. e \in Node /\ e # 1 /\ Kind(Up(e)) = "param"
    BY <1>4, <2>3, ChildFacts
  <2> QED BY <2>4, KindFacts
<1>7. ~ (c < d)
  <2>1. Arranged(body)
    BY ScriptsAssumption DEF Ordered
  <2>2. c \in 2 .. Len(body) /\ d \in 2 .. Len(body) /\ body[c].up = body[d].up
    BY <1>2, <1>4, OrderFacts DEF Node, Up
  <2>3. body[c].kind = "block" /\ body[d].kind = "param"
    BY <1>5, <1>6 DEF Kind
  <2> QED BY <2>1, <2>2, <2>3 DEF Arranged
<1>8. c # d
  BY <1>6
<1> QED BY <1>1, <1>4, <1>7, <1>8, OrderFacts

LEMMA UseSees ==
  ASSUME Where, phase = "bodies", NEW u \in Uses, at = In(u), Kind(u) # "jump"
  PROVE  SeesDeclared(u)
<1>1. Ordered /\ u \in Node /\ u # 1 /\ Kind(u) \in {"read", "call", "switch"}
  BY KindFacts DEF Where, Ordered, Uses
<1>2. ~InInitializer(u)
  BY <1>1 DEF Where, In
<1>3. FunctionOf(u) \in Functions /\ FunctionOf(u) # 0
  BY <1>1, <1>2, BodyFunction, OrderFacts DEF InBody, Functions, All, Node
<1>4. MetInBodies = Before(u) /\ LeftInBodies = Before(u) \ Above[u]
  BY <1>1, InsideIn DEF MetInBodies, LeftInBodies, Walking, Met, In
<1>5. ASSUME NEW d \in Declarations, Up(d) \in Above[u], Type(d) = Type(u)
      PROVE  d \in Seen <=> (Kind(d) = "local" => d < u /\ u \notin Below(d))
  <2>1. d \in Node
    BY <1>1, ScopeIsUp
  <2>2. Kind(d) \in {"variable", "local", "param", "function", "state"}
    BY <1>1, <1>5, TypeFacts
  <2>3. Kind(d) = "param" => d \in Seen
    BY <1>1, <1>4, <1>5, <2>1, ParametersFirst, SeenFacts DEF Before
  <2>4. Kind(d) \in {"variable", "function", "state"} => d \in Seen
    BY SeenFacts
  <2>5. Kind(d) = "local" => (d \in Seen <=> d < u /\ d \notin Above[u])
    BY <1>4, <2>1, SeenFacts DEF Before
  <2> QED BY <1>1, <2>1, <2>2, <2>3, <2>4, <2>5, AboveFacts
<1> QED BY <1>1, <1>3, <1>5, VisibleFacts DEF SeesDeclared

LEMMA JumpSees ==
  ASSUME Where, phase = "bodies", NEW f \in Functions, at = Out(f), NEW u \in Uses, Kind(u) = "jump", FunctionOf(u) = f
  PROVE  SeesDeclared(u)
<1>1. Ordered /\ f \in Node /\ u \in Node /\ u # 1 /\ Type(u) = "label"
  BY TypeFacts, KindFacts DEF Where, Ordered, Uses, Functions, All
<1>2. f \in Above[u] /\ u \in Below(f)
  BY <1>1, BodyFunction, AboveFacts DEF InBody
<1>3. Below(f) \subseteq MetInBodies
  BY DEF MetInBodies, Walking, Met, Out
<1>4. ASSUME NEW d \in Declarations, Up(d) \in Above[u], Kind(d) = "label" PROVE d \in Seen
  <2>1. d \in Node /\ d # 1 /\ Kind(Up(d)) = "block" /\ Up(d) \in Node /\ u \in Below(Up(d)) /\ d \in Children(Up(d))
    BY <1>1, <1>4, ScopeIsUp, KindFacts, AboveFacts, ChildFacts
  <2>2. Up(d) \in Below(f)
    <3>1. Up(d) # f
      BY <2>1 DEF Functions, All
    <3>2. CASE f < Up(d)
      BY <1>1, <1>2, <2>1, <3>2, AboveComparable, AboveFacts
    <3>3. CASE Up(d) < f
      <4>1. Up(d) \in Above[f]
        BY <1>1, <1>2, <2>1, <3>3, AboveComparable
      <4>2. Kind(f) \in {"function", "handler"}
        BY DEF Functions, All
      <4>3. Up(d) = 1 \/ (Kind(f) = "handler" /\ Up(d) = Up(f))
        BY <1>1, <4>1, <4>2, GlobalFacts
      <4>4. f # 1 /\ Kind(1) = "script"
        BY <1>1, <4>2, KindFacts
      <4>5. Kind(f) = "handler" => Kind(Up(f)) = "state"
        BY <1>1, <4>4, KindFacts
      <4> QED BY <2>1, <4>3, <4>4, <4>5
    <3> QED BY <1>1, <2>1, <3>1, <3>2, <3>3, OrderFacts
  <2>3. d \in Below(f)
    BY <1>1, <2>1, <2>2, ChildBelow, BelowTransitive
  <2> QED BY <1>3, <1>4, <2>3, SeenFacts
<1>5. \A d \in Declarations : Type(d) = "label" => Kind(d) = "label"
  BY <1>1, TypeFacts
<1> QED BY <1>1, <1>4, <1>5, VisibleFacts DEF SeesDeclared

-----------------------------------------------------------------------------
(* The script stays as it is. *)

LEMMA ScriptStays ==
  ASSUME body' = body
  PROVE  /\ Ordered' = Ordered /\ Node' = Node /\ Position' = Position
         /\ Scopes' = Scopes /\ Declarations' = Declarations /\ Uses' = Uses /\ Source' = Source
         /\ \A kind : All(kind)' = All(kind)
         /\ \A n : /\ Kind(n)' = Kind(n) /\ Name(n)' = Name(n) /\ Type(n)' = Type(n) /\ ScopeOf(n)' = ScopeOf(n)
                   /\ Children(n)' = Children(n) /\ FunctionOf(n)' = FunctionOf(n)
                   /\ InInitializer(n)' <=> InInitializer(n)
                   /\ IsEvent(n)' <=> IsEvent(n)
                   /\ Allowed(n)' <=> Allowed(n)
         /\ \A n, names : /\ Means(n, names)' = Means(n, names)
                          /\ BuiltinMeaning(n, names)' = BuiltinMeaning(n, names)
                          /\ Meaning(n, names)' = Meaning(n, names)
         /\ WellScoped(Source)' <=> WellScoped(Source)
<1>1. /\ Node' = Node /\ Position' = Position /\ Ordered' = Ordered
      /\ \A n : Kind(n)' = Kind(n) /\ Name(n)' = Name(n) /\ Up(n)' = Up(n)
      /\ Above' = Above /\ \A n : Children(n)' = Children(n)
  BY DEF Node, Position, Ordered, Kind, Name, Up, Above, Children
<1>2. /\ Scopes' = Scopes /\ Declarations' = Declarations /\ Uses' = Uses /\ Source' = Source
      /\ \A kind : All(kind)' = All(kind)
  BY <1>1 DEF Scopes, Declarations, Uses, Source, All
<1>3. \A n : Type(n)' = Type(n) /\ Sub(n)' = Sub(n)
  BY <1>1 DEF Type, Sub
<1>4. \A n : /\ ScopeOf(n)' = ScopeOf(n) /\ FunctionOf(n)' = FunctionOf(n)
             /\ InInitializer(n)' <=> InInitializer(n)
             /\ IsEvent(n)' <=> IsEvent(n)
  BY <1>1, <1>2 DEF ScopeOf, FunctionOf, InInitializer, IsEvent
<1>5. \A n : Allowed(n)' <=> Allowed(n)
  BY <1>1, <1>3 DEF Allowed
<1>6. \A n : Symbol(n)' = Symbol(n)
  BY <1>1, <1>3 DEF Symbol
<1>7. \A d, u : Visible(d, u)' <=> Visible(d, u)
  BY <1>1, <1>3, <1>4 DEF Visible
<1>8. \A n, names : Means(n, names)' = Means(n, names) /\ BuiltinMeaning(n, names)' = BuiltinMeaning(n, names)
  BY <1>2, <1>3, <1>7 DEF Means, BuiltinMeaning
<1>9. \A ds : InnermostOf(ds)' = InnermostOf(ds)
  BY <1>4 DEF InnermostOf
<1>10. \A n, names : Meaning(n, names)' = Meaning(n, names)
  <2>1. ASSUME NEW n, NEW names PROVE Meaning(n, names)' = Meaning(n, names)
    <3>1. {l \in Node : Kind(l) = "label" /\ names[l] = names[n] /\ FunctionOf(l) = FunctionOf(n)}'
            = {l \in Node : Kind(l) = "label" /\ names[l] = names[n] /\ FunctionOf(l) = FunctionOf(n)}
      BY <1>1, <1>4
    <3>2. Means(n, names)' = Means(n, names) /\ BuiltinMeaning(n, names)' = BuiltinMeaning(n, names) /\ Kind(n)' = Kind(n)
      BY <1>1, <1>8
    <3>3. InnermostOf(Means(n, names))' = InnermostOf(Means(n, names))
      BY <1>9, <3>2
    <3>4. \A m : Symbol(m)' = Symbol(m)
      BY <1>6
    <3>5. (CHOOSE b \in BuiltinMeaning(n, names) : TRUE)' = (CHOOSE b \in BuiltinMeaning(n, names) : TRUE)
      BY <3>2, Zenon
    <3>6. CASE Means(n, names) = {}
      BY <3>2, <3>5, <3>6 DEF Meaning, BuiltinSymbol
    <3>7. CASE Means(n, names) # {} /\ Kind(n) = "jump"
      BY <3>1, <3>2, <3>4, <3>7 DEF Meaning
    <3>8. CASE Means(n, names) # {} /\ Kind(n) # "jump"
      BY <3>2, <3>3, <3>4, <3>8 DEF Meaning
    <3> QED BY <3>6, <3>7, <3>8
  <2> QED BY <2>1
<1>11. WellScoped(Source)' <=> WellScoped(Source)
  BY <1>1, <1>2, <1>3, <1>4, <1>8 DEF WellScoped
<1> QED BY <1>1, <1>2, <1>3, <1>4, <1>5, <1>8, <1>10, <1>11

\* A step that finds fault with nothing in a well scoped script, and keeps the
\* rules when it finds no fault, keeps the invariant.
LEMMA StepKeeps ==
  ASSUME SymbolsInv, body' = body, Where', Lists', NEW wrong, errors' = errors \cup wrong,
         WellScoped(Source) /\ RulesKept => wrong = {},
         RulesKept /\ wrong = {} => RulesKept'
  PROVE  SymbolsInv'
<1>1. WellScoped(Source)' <=> WellScoped(Source)
  BY ScriptStays
<1>2. WellScoped(Source) => errors' = {}
  BY DEF SymbolsInv
<1>3. errors' = {} => RulesKept'
  BY DEF SymbolsInv
<1> QED BY <1>1, <1>2, <1>3 DEF SymbolsInv

\* The definition of one more.
LEMMA DefineKeeps ==
  ASSUME Tabled, DOMAIN table = Scopes, body' = body, NEW d \in Declarations, d \notin Seen, Seen' = Seen \cup {d},
         table' = IF Clashes(d) THEN table ELSE [table EXCEPT ![ScopeOf(d)] = @ \cup {d}]
  PROVE  /\ WellScoped(Source) => DefinitionErrors(d) = {}
         /\ DefinitionErrors(d) = {} => TablesExact' /\ NamesDiffer' /\ NamesAllowed'
<1>1. Ordered /\ ScopeOf(d) \in Scopes /\ ScopeOf(d) = Up(d) /\ Seen \subseteq Declarations /\ Declarations \subseteq Node
  BY ScopeIsUp, SeenDeclared DEF Tabled
<1>2. Clashes(d) <=> \E e \in Seen : e # d /\ ScopeOf(e) = ScopeOf(d) /\ Name(e) = Name(d)
  <2>1. \A e : e \in InTable(ScopeOf(d), Name(d), "any") <=> e \in Seen /\ Up(e) = ScopeOf(d) /\ Name(e) = Name(d)
    BY <1>1, TableFacts DEF Fits
  <2>2. \A e \in Seen : ScopeOf(e) = Up(e)
    BY <1>1, ScopeIsUp
  <2> QED BY <2>1, <2>2 DEF Clashes
<1>3. Reserved(d) <=> ~Allowed(d)
  BY ReservedNames
<1>4. DefinitionErrors(d) = {} <=> ~Clashes(d) /\ ~Reserved(d)
  BY DEF DefinitionErrors
<1>5. ASSUME WellScoped(Source) PROVE DefinitionErrors(d) = {}
  <2>1. Source[d] = Name(d) /\ \A e \in Seen : Source[e] = Name(e)
    BY <1>1 DEF Source
  <2>2. ~Clashes(d)
    BY <1>1, <1>2, <1>5, <2>1 DEF WellScoped
  <2>3. Allowed(d)
    BY <1>5, <2>1 DEF WellScoped, Allowed
  <2> QED BY <1>3, <1>4, <2>2, <2>3
<1>6. ASSUME DefinitionErrors(d) = {} PROVE TablesExact' /\ NamesDiffer' /\ NamesAllowed'
  <2>1. table' = [table EXCEPT ![ScopeOf(d)] = @ \cup {d}]
    BY <1>4, <1>6
  <2>2. \A s \in Scopes : table[s] = {e \in Seen : ScopeOf(e) = s}
    BY DEF Tabled, TablesExact
  <2>3. \A s \in Scopes : table'[s] = {e \in Seen \cup {d} : ScopeOf(e) = s}
    BY <1>1, <2>1, <2>2
  <2>4. TablesExact'
    BY <2>3, ScriptStays DEF TablesExact
  <2>5. \A e, f \in Seen \cup {d} : e # f /\ ScopeOf(e) = ScopeOf(f) => Name(e) # Name(f)
    BY <1>2, <1>4, <1>6 DEF Tabled, NamesDiffer
  <2>6. NamesDiffer'
    BY <2>5, ScriptStays DEF NamesDiffer
  <2>7. NamesAllowed'
    BY <1>3, <1>4, <1>6, ScriptStays DEF Tabled, NamesAllowed
  <2> QED BY <2>4, <2>6, <2>7
<1> QED BY <1>5, <1>6

LEMMA NothingDefined ==
  ASSUME Tabled, body' = body, Seen' = Seen, table' = table
  PROVE  TablesExact' /\ NamesDiffer' /\ NamesAllowed'
BY ScriptStays DEF Tabled, TablesExact, NamesDiffer, NamesAllowed

\* The resolution of more uses.
LEMMA AnswerKeeps ==
  ASSUME Tabled, UsesAnswered, body' = body, NEW us, us \subseteq Uses, Answered' = Answered \cup us,
         \A u \in us : SeesDeclared(u),
         \A u \in Uses \ us : symbol'[u] = symbol[u],
         \A u \in us : Lookup(u, Name(u), Type(u)) # NoSymbol =>
           \/ symbol'[u] = Lookup(u, Name(u), Type(u)) /\ Kind(u) # "jump"
           \/ symbol'[u] = Meaning(u, Source)
  PROVE  /\ WellScoped(Source) => Unresolved(us) = {}
         /\ Unresolved(us) = {} => UsesAnswered'
<1>1. \A u \in us : Lookup(u, Name(u), Type(u)) = NoSymbol <=> Means(u, Source) = {} /\ BuiltinMeaning(u, Source) = {}
  BY LookupMeans
<1>2. \A u \in us : Lookup(u, Name(u), Type(u)) # NoSymbol => symbol'[u] = Meaning(u, Source)
  BY LookupMeans
<1>3. Unresolved(us) = {} <=> \A u \in us : Lookup(u, Name(u), Type(u)) # NoSymbol
  BY DEF Unresolved
<1>4. WellScoped(Source) => Unresolved(us) = {}
  BY <1>1, <1>3 DEF WellScoped
<1>5. ASSUME Unresolved(us) = {} PROVE UsesAnswered'
  <2>1. ASSUME NEW u \in Answered \cup us
        PROVE  /\ Means(u, Source) # {} \/ BuiltinMeaning(u, Source) # {}
               /\ symbol'[u] = Meaning(u, Source)
    <3>1. CASE u \in us
      BY <1>1, <1>2, <1>3, <1>5, <3>1
    <3>2. CASE u \in Answered \ us
      <4>1. u \in Uses \ us
        BY <3>2 DEF Answered
      <4> QED BY <3>2, <4>1 DEF UsesAnswered
    <3> QED BY <2>1, <3>1, <3>2
  <2>2. \A u : /\ Means(u, Source)' = Means(u, Source) /\ BuiltinMeaning(u, Source)' = BuiltinMeaning(u, Source)
               /\ Meaning(u, Source)' = Meaning(u, Source)
    BY ScriptStays
  <2> QED BY <2>1, <2>2 DEF UsesAnswered
<1> QED BY <1>4, <1>5

-----------------------------------------------------------------------------
(* How the visitor moves. *)

LEMMA VariableBelow ==
  ASSUME Ordered, NEW g \in Node, Kind(g) = "variable"
  PROVE  /\ Below(g) = {g} \cup Initializer(g)
         /\ \A u \in Initializer(g) : u \in Uses /\ Kind(u) \in {"read", "call"} /\ InInitializer(u)
<1>1. ASSUME NEW m \in Below(g), m # g PROVE m \in Initializer(g)
  <2>1. m \in Node /\ g \in Above[m]
    BY <1>1, UpBelow, AboveFacts
  <2>2. Kind(m) \in {"read", "call"}
    BY <2>1, InitializerFacts DEF InInitializer
  <2> QED BY <2>1, <2>2 DEF Initializer, Uses
<1>2. ASSUME NEW u \in Initializer(g)
      PROVE  u \in Uses /\ Kind(u) \in {"read", "call"} /\ InInitializer(u) /\ u \in Below(g)
  <2>1. u \in Uses /\ u \in Node /\ g \in Above[u] /\ InInitializer(u)
    BY DEF Initializer, Uses, InInitializer
  <2> QED BY <2>1, InitializerFacts, AboveFacts
<1>3. g \in Below(g)
  BY SelfBelow
<1> QED BY <1>1, <1>2, <1>3

LEMMA GlobalBelow ==
  ASSUME Ordered, NEW g \in Children(1), NEW m \in Below(g), m # g
  PROVE  /\ Kind(m) \notin {"variable", "function", "state"}
         /\ m # 1 /\ (InInitializer(m) => Kind(g) = "variable")
<1>1. g \in Node /\ g # 1 /\ m \in Node /\ m # 1 /\ g \in Above[m] /\ Kind(1) = "script"
  BY ChildFacts, OrderFacts, UpBelow, AboveFacts, KindFacts
<1>2. Kind(m) \in {"variable", "function", "state"} => Above[m] = {1}
  BY <1>1, GlobalFacts
<1>3. Kind(g) \in {"variable", "function", "state"}
  BY <1>1, GlobalFacts
<1>4. InInitializer(m) => Kind(g) \in {"variable", "call"}
  BY <1>1, InitializerFacts
<1> QED BY <1>1, <1>2, <1>3, <1>4

\* What is entered last, and all that the visitor passes with it.
Passed(n) == {n} \cup (IF Kind(n) = "variable" THEN Initializer(n) ELSE {})

LEMMA EnterMoves ==
  ASSUME Where, body' = body, phase = "bodies", NEW n \in Node, at = In(n),
         at' = IF Kind(n) = "variable" THEN Out(n) ELSE Descend(n)
  PROVE  /\ at' \in Position /\ (at'[1] # 1 => ~InInitializer(at'[1]))
         /\ Met(at) = Before(n) /\ Inside(at) = Above[n]
         /\ Met(at)' = Before(n) \cup Passed(n) /\ Inside(at)' = Above[n] \cup {n}
<1>1. Ordered /\ (n # 1 => ~InInitializer(n))
  BY DEF Where, Ordered, In
<1>2. Met(at) = Before(n) /\ Inside(at) = Above[n]
  BY <1>1, InsideIn DEF Met, In
<1>3. PICK to : to = IF Kind(n) = "variable" THEN Out(n) ELSE Descend(n)
  OBVIOUS
<1>4. Met(at)' = Met(to) /\ Inside(at)' = Inside(to) /\ at' = to
  BY <1>3 DEF Met, Inside, Before, Below, Node
<1>5. CASE Kind(n) = "variable"
  <2>1. to = Out(n) /\ to \in Position /\ to[1] = n
    BY <1>3, <1>5 DEF Out, Position
  <2>2. Met(to) = Before(n) \cup Passed(n)
    BY <1>1, <1>5, <2>1, VariableBelow DEF Met, Out, Passed
  <2>3. Inside(to) = Above[n] \cup {n}
    BY <1>1, <2>1, InsideIn
  <2> QED BY <1>1, <1>2, <1>4, <2>1, <2>2, <2>3
<1>6. CASE Kind(n) # "variable"
  <2>1. to = Descend(n) /\ to \in Position /\ Met(to) = Before(n) \cup Passed(n) /\ Inside(to) = Above[n] \cup {n}
    BY <1>1, <1>2, <1>3, <1>6, DescendMeets, InsideDescend DEF Passed
  <2>2. to[1] # 1 => ~InInitializer(to[1])
    <3>1. CASE Children(n) = {}
      BY <1>1, <2>1, <3>1 DEF Descend, Out
    <3>2. CASE Children(n) # {}
      <4>1. to[1] = n + 1 /\ n + 1 \in Children(n)
        BY <1>1, <2>1, <3>2, FirstChild DEF Descend, In
      <4>2. n + 1 \in Node /\ n + 1 # 1 /\ Up(n + 1) = n
        BY <1>1, <4>1, ChildFacts
      <4>3. InInitializer(n + 1) => InInitializer(n)
        BY <1>1, <1>6, <4>2, AboveUp DEF InInitializer
      <4> QED BY <1>1, <4>1, <4>3, InitializerFacts
    <3> QED BY <3>1, <3>2
  <2> QED BY <1>2, <1>4, <2>1, <2>2
<1> QED BY <1>5, <1>6

LEMMA LeaveMoves ==
  ASSUME Where, body' = body, phase = "bodies", NEW n \in Node, n # 1, at = Out(n), at' = Onward(n)
  PROVE  /\ at' \in Position /\ (at'[1] # 1 => ~InInitializer(at'[1]))
         /\ Met(at) = Before(n) \cup Below(n) /\ Inside(at) = Above[n] \cup {n}
         /\ Met(at)' = Met(at) /\ Inside(at)' = Above[n] /\ n \notin Above[n]
<1>1. Ordered /\ ~InInitializer(n)
  BY DEF Where, Ordered, Out
<1>2. Met(at) = Before(n) \cup Below(n) /\ Inside(at) = Above[n] \cup {n}
  BY <1>1, InsideIn DEF Met, Out
<1>3. PICK to : to = Onward(n)
  OBVIOUS
<1>4. Met(at)' = Met(to) /\ Inside(at)' = Inside(to) /\ at' = to
  BY <1>3 DEF Met, Inside, Before, Below, Node
<1>5. to \in Position /\ Met(to) = Before(n) \cup Below(n)
  BY <1>1, <1>3, OnwardMeets
<1>6. n \notin Above[n] /\ Inside(to) = Above[n]
  <2>1. n \notin Above[n]
    BY <1>1, AboveFacts, OrderFacts
  <2> QED BY <1>1, <1>2, <1>3, <2>1, InsideOnward
<1>7. to[1] # 1 => ~InInitializer(to[1])
  <2>1. Up(n) \in Node /\ \A a : a \in Above[n] <=> a = Up(n) \/ a \in Above[Up(n)]
    BY <1>1, OrderFacts, AboveUp
  <2>2. CASE Follower(n) # 0
    <3>1. to = In(Follower(n))
      BY <1>3, <2>2 DEF Onward
    <3>2. \E c \in Children(Up(n)) : c > n
      BY <2>2 DEF Follower
    <3>3. Follower(n) \in Children(Up(n))
      BY <1>1, <3>2, NextSibling
    <3>4. Follower(n) \in Node /\ Follower(n) # 1 /\ Up(Follower(n)) = Up(n)
      BY <1>1, <2>1, <3>3, ChildFacts
    <3>5. \A a : a \in Above[Follower(n)] <=> a \in Above[n]
      BY <1>1, <2>1, <3>4, AboveUp
    <3> QED BY <1>1, <3>1, <3>5 DEF InInitializer, In
  <2>3. CASE Follower(n) = 0
    <3>1. to[1] = Up(n)
      BY <1>3, <2>3 DEF Onward, Out
    <3>2. ASSUME InInitializer(Up(n)) PROVE FALSE
      BY <1>1, <2>1, <3>2 DEF InInitializer
    <3> QED BY <3>1, <3>2
  <2> QED BY <2>2, <2>3
<1> QED BY <1>2, <1>4, <1>5, <1>6, <1>7

\* Entering a node declares and uses what it is.
Declares(n) ==
  IF Kind(n) \in {"param", "label"} \/ (Kind(n) = "handler" /\ IsEvent(n)) THEN {n} ELSE {}
Asks(n) == IF Kind(n) \in {"read", "call", "switch"} THEN {n} ELSE {}

LEMMA EnterEffects ==
  ASSUME Where, body' = body, phase = "bodies", phase' = phase, NEW n \in Node, at = In(n),
         at' = IF Kind(n) = "variable" THEN Out(n) ELSE Descend(n)
  PROVE  /\ Seen' = Seen \cup Declares(n)
         /\ Kind(n) \in {"param", "label", "handler"} => n \in Declarations \ Seen
         /\ Answered' = Answered \cup Asks(n) /\ Asks(n) \subseteq Uses
         /\ \A kind \in {"label", "jump"} :
              InOpenFunction(kind)' = InOpenFunction(kind) \cup (IF Kind(n) = kind THEN {n} ELSE {})
         /\ EventsExist /\ (Kind(n) = "handler" => IsEvent(n)) => EventsExist'
<1>1. /\ Ordered /\ n \in Nat /\ Node \subseteq Nat
      /\ Met(at) = Before(n) /\ Inside(at) = Above[n]
      /\ Met(at)' = Before(n) \cup Passed(n) /\ Inside(at)' = Above[n] \cup {n}
  BY EnterMoves, OrderFacts DEF Where, Ordered
<1>2. \A m : m \in Before(n) <=> m \in Node /\ m < n
  BY DEF Before
<1>3. n \notin Before(n) /\ n \notin Above[n]
  BY <1>1, <1>2, AboveFacts
<1>4. \A m \in Passed(n) : m = n \/ (Kind(m) \in {"read", "call"} /\ m \in Uses /\ InInitializer(m))
  BY <1>1, VariableBelow DEF Passed
<1>5. n \in Passed(n)
  BY DEF Passed
<1>6. /\ Walking /\ Walking'
      /\ MetInBodies = Before(n) /\ MetInBodies' = Before(n) \cup Passed(n)
      /\ LeftInBodies = Before(n) \ Above[n] /\ LeftInBodies' = (Before(n) \cup Passed(n)) \ (Above[n] \cup {n})
  BY <1>1 DEF Walking, MetInBodies, LeftInBodies
<1>7. /\ Seen = Globals \cup All("state") \cup ((All("param") \cup All("label")) \cap Before(n))
                  \cup {h \in All("handler") \cap Before(n) : IsEvent(h)}
                  \cup (All("local") \cap (Before(n) \ Above[n]))
      /\ Seen' = Globals \cup All("state") \cup ((All("param") \cup All("label")) \cap (Before(n) \cup Passed(n)))
                  \cup {h \in All("handler") \cap (Before(n) \cup Passed(n)) : IsEvent(h)}
                  \cup (All("local") \cap ((Before(n) \cup Passed(n)) \ (Above[n] \cup {n})))
  BY <1>6, ScriptStays DEF Seen, Globals
<1>8. \A m \in Passed(n) : m # n => Kind(m) \in {"read", "call"}
  BY <1>4
<1>9. Seen' = Seen \cup Declares(n)
  <2>1. \A kind \in {"param", "label", "handler", "local"} :
          All(kind) \cap (Before(n) \cup Passed(n)) = All(kind) \cap (Before(n) \cup {n})
    BY <1>5, <1>8 DEF All
  <2>2. All("local") \cap ((Before(n) \cup Passed(n)) \ (Above[n] \cup {n})) = All("local") \cap (Before(n) \ Above[n])
    BY <1>3, <1>8 DEF All
  <2>3. Seen' = Globals \cup All("state") \cup ((All("param") \cup All("label")) \cap (Before(n) \cup {n}))
                  \cup {h \in All("handler") \cap (Before(n) \cup {n}) : IsEvent(h)}
                  \cup (All("local") \cap (Before(n) \ Above[n]))
    BY <1>7, <2>1, <2>2
  <2> QED BY <1>7, <2>3 DEF Declares, All
<1>10. Kind(n) \in {"param", "label", "handler"} => n \in Declarations \ Seen
  BY <1>3, <1>7 DEF All, Globals, Declarations
<1>11. \A m \in Node : (InBody(m) => FunctionOf(m) \in Above[m] /\ FunctionOf(m) \in Functions /\ FunctionOf(m) < m)
  BY <1>1, BodyFunction, AboveFacts
<1>12. \A f \in Functions : f \notin Passed(n) \ {n}
  BY <1>8 DEF Functions, All
<1>13. Asks(n) \subseteq Uses
  BY DEF Asks, Uses
<1>14. Answered' = Answered \cup Asks(n)
  <2>1. Answered' = {u \in Uses : IF InInitializer(u) THEN TRUE
                                  ELSE IF Kind(u) = "jump" THEN FunctionOf(u) \in LeftInBodies'
                                  ELSE u \in MetInBodies'}
    BY ScriptStays DEF Answered
  <2>2. Answered = {u \in Uses : IF InInitializer(u) THEN TRUE
                                 ELSE IF Kind(u) = "jump" THEN FunctionOf(u) \in LeftInBodies
                                 ELSE u \in MetInBodies}
    BY DEF Answered
  <2>3. \A f \in Functions : f \in LeftInBodies' <=> f \in LeftInBodies
    BY <1>3, <1>6, <1>12
  <2>4. \A u \in Uses : u \in Node /\ (Kind(u) = "jump" => FunctionOf(u) \in Functions)
    BY <1>11 DEF Uses, InBody
  <2>5. \A u \in Uses : ~InInitializer(u) => (u \in MetInBodies' <=> u \in MetInBodies \/ u = n)
    BY <1>4, <1>5, <1>6
  <2>6. \A u \in Uses : u = n /\ Kind(u) # "jump" <=> u \in Asks(n)
    BY DEF Uses, Asks
  <2>7. n # 1 => ~InInitializer(n)
    BY DEF Where, In
  <2>8. \A u \in Uses : u \in Answered' <=> u \in Answered \/ u \in Asks(n)
    <3>1. ASSUME NEW u \in Uses PROVE u \in Answered' <=> u \in Answered \/ u \in Asks(n)
      <4>1. CASE InInitializer(u)
        BY <2>1, <2>2, <4>1
      <4>2. CASE ~InInitializer(u) /\ Kind(u) = "jump"
        BY <2>1, <2>2, <2>3, <2>4, <2>6, <4>2
      <4>3. CASE ~InInitializer(u) /\ Kind(u) # "jump"
        BY <2>1, <2>2, <2>5, <2>6, <4>3
      <4> QED BY <4>1, <4>2, <4>3
    <3> QED BY <3>1
  <2>9. Answered \subseteq Uses /\ Answered' \subseteq Uses
    BY <2>1, <2>2
  <2> QED BY <1>13, <2>8, <2>9
<1>15. ASSUME NEW kind \in {"label", "jump"}
       PROVE  InOpenFunction(kind)' = InOpenFunction(kind) \cup (IF Kind(n) = kind THEN {n} ELSE {})
  <2>1. InOpenFunction(kind) = {m \in All(kind) \cap Before(n) : FunctionOf(m) \in Above[n]}
    BY <1>1, <1>6 DEF InOpenFunction
  <2>2. InOpenFunction(kind)' = {m \in All(kind) \cap (Before(n) \cup Passed(n)) : FunctionOf(m) \in Above[n] \cup {n}}
    BY <1>1, <1>6, ScriptStays DEF InOpenFunction
  <2>3. \A m \in All(kind) : m \in Node /\ InBody(m) /\ Kind(m) = kind
    BY <1>15 DEF All, InBody
  <2>4. \A m \in All(kind) : m \in Passed(n) <=> m = n
    BY <1>5, <1>8, <1>15, <2>3
  <2>5. ASSUME NEW m \in All(kind), m \in Before(n) PROVE FunctionOf(m) # n
    <3>1. m < n /\ m \in Nat /\ FunctionOf(m) < m
      BY <1>1, <1>2, <1>11, <2>3, <2>5
    <3> QED BY <1>1, <3>1
  <2>6. n \in All(kind) => FunctionOf(n) \in Above[n]
    BY <1>11, <2>3
  <2>7. n \in All(kind) <=> Kind(n) = kind
    BY DEF All
  <2> QED BY <2>1, <2>2, <2>4, <2>5, <2>6, <2>7
<1>16. EventsExist /\ (Kind(n) = "handler" => IsEvent(n)) => EventsExist'
  BY <1>6, <1>8, ScriptStays DEF EventsExist, All
<1> QED BY <1>9, <1>10, <1>13, <1>14, <1>15, <1>16

\* Leaving a node declares a local and settles the jumps of a function.
LEMMA LeaveEffects ==
  ASSUME Where, body' = body, phase = "bodies", phase' = phase, NEW n \in Node, n # 1, at = Out(n), at' = Onward(n)
  PROVE  /\ Seen' = Seen \cup (IF Kind(n) = "local" THEN {n} ELSE {})
         /\ Kind(n) = "local" => n \in Declarations \ Seen
         /\ Answered' = Answered \cup {u \in Uses : Kind(u) = "jump" /\ FunctionOf(u) = n}
         /\ \A kind \in {"label", "jump"} :
              /\ n \notin Functions => InOpenFunction(kind)' = InOpenFunction(kind)
              /\ n \in Functions => /\ InOpenFunction(kind)' = {}
                                    /\ InOpenFunction(kind) = {m \in All(kind) : FunctionOf(m) = n}
         /\ EventsExist => EventsExist'
<1>1. /\ Ordered /\ n \in Nat /\ Node \subseteq Nat
      /\ Met(at) = Before(n) \cup Below(n) /\ Inside(at) = Above[n] \cup {n}
      /\ Met(at)' = Met(at) /\ Inside(at)' = Above[n] /\ n \notin Above[n]
  BY LeaveMoves, OrderFacts DEF Where, Ordered
<1>2. n \in Below(n)
  BY <1>1, SelfBelow
<1>3. /\ Walking /\ Walking'
      /\ MetInBodies = Met(at) /\ MetInBodies' = Met(at)
      /\ LeftInBodies = Met(at) \ (Above[n] \cup {n}) /\ LeftInBodies' = Met(at) \ Above[n]
  BY <1>1 DEF Walking, MetInBodies, LeftInBodies
<1>4. LeftInBodies' = LeftInBodies \cup {n} /\ n \notin LeftInBodies
  BY <1>1, <1>2, <1>3
<1>5. /\ Seen = Globals \cup All("state") \cup ((All("param") \cup All("label")) \cap Met(at))
                  \cup {h \in All("handler") \cap Met(at) : IsEvent(h)} \cup (All("local") \cap LeftInBodies)
      /\ Seen' = Globals \cup All("state") \cup ((All("param") \cup All("label")) \cap Met(at))
                  \cup {h \in All("handler") \cap Met(at) : IsEvent(h)} \cup (All("local") \cap LeftInBodies')
  BY <1>3, ScriptStays DEF Seen, Globals
<1>6. Seen' = Seen \cup (IF Kind(n) = "local" THEN {n} ELSE {})
  BY <1>4, <1>5 DEF All
<1>7. Kind(n) = "local" => n \in Declarations \ Seen
  BY <1>4, <1>5 DEF All, Globals, Declarations
<1>8. \A m \in Node : InBody(m) => FunctionOf(m) \in Above[m] /\ FunctionOf(m) \in Functions
  BY <1>1, BodyFunction
<1>9. Answered' = Answered \cup {u \in Uses : Kind(u) = "jump" /\ FunctionOf(u) = n}
  <2>1. Answered' = {u \in Uses : IF InInitializer(u) THEN TRUE
                                  ELSE IF Kind(u) = "jump" THEN FunctionOf(u) \in LeftInBodies'
                                  ELSE u \in Met(at)}
    BY <1>3, ScriptStays DEF Answered
  <2>2. Answered = {u \in Uses : IF InInitializer(u) THEN TRUE
                                 ELSE IF Kind(u) = "jump" THEN FunctionOf(u) \in LeftInBodies
                                 ELSE u \in Met(at)}
    BY <1>3 DEF Answered
  <2>3. \A u \in Uses : InInitializer(u) => Kind(u) # "jump"
    BY <1>1, InitializerFacts, KindFacts DEF Uses
  <2> QED BY <1>4, <2>1, <2>2, <2>3
<1>10. ASSUME NEW kind \in {"label", "jump"}
       PROVE  /\ n \notin Functions => InOpenFunction(kind)' = InOpenFunction(kind)
              /\ n \in Functions => /\ InOpenFunction(kind)' = {}
                                    /\ InOpenFunction(kind) = {m \in All(kind) : FunctionOf(m) = n}
  <2>1. InOpenFunction(kind) = {m \in All(kind) \cap Met(at) : FunctionOf(m) \in Above[n] \cup {n}}
    BY <1>1, <1>3 DEF InOpenFunction
  <2>2. InOpenFunction(kind)' = {m \in All(kind) \cap Met(at) : FunctionOf(m) \in Above[n]}
    BY <1>1, <1>3, ScriptStays DEF InOpenFunction
  <2>3. \A m \in All(kind) : m \in Node /\ FunctionOf(m) \in Above[m] /\ FunctionOf(m) \in Functions
    BY <1>8, <1>10 DEF All, InBody
  <2>4. n \notin Functions => InOpenFunction(kind)' = InOpenFunction(kind)
    BY <2>1, <2>2, <2>3
  <2>5. ASSUME n \in Functions
        PROVE  InOpenFunction(kind)' = {} /\ InOpenFunction(kind) = {m \in All(kind) : FunctionOf(m) = n}
    <3>1. \A f \in Functions : f \notin Above[n]
      <4>1. ASSUME NEW f \in Functions, f \in Above[n] PROVE FALSE
        <5>1. f \in Node /\ Kind(f) \in {"function", "handler"}
          BY DEF Functions, All
        <5>2. Kind(n) \in {"function", "handler"}
          BY <2>5 DEF Functions, All
        <5>3. f = 1 \/ (Kind(n) = "handler" /\ f = Up(n))
          BY <1>1, <4>1, <5>2, GlobalFacts
        <5>4. Kind(1) = "script" /\ (Kind(n) = "handler" => Kind(Up(n)) = "state")
          BY <1>1, KindFacts
        <5> QED BY <5>1, <5>3, <5>4
      <4> QED BY <4>1
    <3>2. \A m \in All(kind) : FunctionOf(m) = n => m \in Met(at)
      BY <1>1, <2>3, AboveFacts
    <3> QED BY <2>1, <2>2, <2>3, <3>1, <3>2
  <2> QED BY <2>4, <2>5
<1>11. EventsExist => EventsExist'
  BY <1>3, ScriptStays DEF EventsExist
<1> QED BY <1>6, <1>7, <1>9, <1>10, <1>11

-----------------------------------------------------------------------------
(* The steps. *)

\* A step that resolves the uses us and then defines d.
LEMMA DefineStep ==
  ASSUME SymbolsInv, body' = body, Where', Lists',
         NEW d \in Declarations, d \notin Seen, Seen' = Seen \cup {d},
         table' = IF Clashes(d) THEN table ELSE [table EXCEPT ![ScopeOf(d)] = @ \cup {d}],
         NEW us, us \subseteq Uses, Answered' = Answered \cup us,
         \A u \in us : SeesDeclared(u) /\ Kind(u) # "jump",
         \A u \in Uses : symbol'[u] = IF u \in us THEN Lookup(u, Name(u), Type(u)) ELSE symbol[u],
         errors' = errors \cup Unresolved(us) \cup DefinitionErrors(d),
         EventsExist => EventsExist'
  PROVE  SymbolsInv'
<1>1. Ordered /\ DOMAIN table = Scopes
  BY DEF SymbolsInv, Where, Ordered
<1> DEFINE wrong == Unresolved(us) \cup DefinitionErrors(d)
<1>2. errors' = errors \cup wrong
  OBVIOUS
<1>3. ASSUME RulesKept
      PROVE  /\ WellScoped(Source) => wrong = {}
             /\ wrong = {} => RulesKept'
  <2>1. Tabled /\ UsesAnswered /\ EventsExist
    BY <1>1, <1>3 DEF RulesKept, Tabled
  <2>2. /\ WellScoped(Source) => DefinitionErrors(d) = {}
        /\ DefinitionErrors(d) = {} => TablesExact' /\ NamesDiffer' /\ NamesAllowed'
    BY <1>1, <2>1, DefineKeeps
  <2>3. /\ WellScoped(Source) => Unresolved(us) = {}
        /\ Unresolved(us) = {} => UsesAnswered'
    <3>1. \A u \in Uses \ us : symbol'[u] = symbol[u]
      OBVIOUS
    <3>2. \A u \in us : symbol'[u] = Lookup(u, Name(u), Type(u)) /\ Kind(u) # "jump" /\ SeesDeclared(u)
      OBVIOUS
    <3> QED BY <2>1, <3>1, <3>2, AnswerKeeps
  <2> QED BY <2>1, <2>2, <2>3 DEF RulesKept
<1> HIDE DEF wrong
<1> QED BY <1>2, <1>3, StepKeeps

\* A step that resolves the uses us.
LEMMA AnswerStep ==
  ASSUME SymbolsInv, body' = body, Where', Lists', Seen' = Seen, table' = table,
         NEW us, us \subseteq Uses, Answered' = Answered \cup us,
         \A u \in us : SeesDeclared(u),
         \A u \in Uses \ us : symbol'[u] = symbol[u],
         \A u \in us : Lookup(u, Name(u), Type(u)) # NoSymbol =>
           \/ symbol'[u] = Lookup(u, Name(u), Type(u)) /\ Kind(u) # "jump"
           \/ symbol'[u] = Meaning(u, Source),
         errors' = errors \cup Unresolved(us),
         EventsExist => EventsExist'
  PROVE  SymbolsInv'
<1>1. Ordered
  BY DEF SymbolsInv, Where, Ordered
<1>2. ASSUME RulesKept
      PROVE  /\ WellScoped(Source) => Unresolved(us) = {}
             /\ Unresolved(us) = {} => RulesKept'
  <2>1. Tabled /\ UsesAnswered /\ EventsExist
    BY <1>1, <1>2 DEF RulesKept, Tabled
  <2>2. TablesExact' /\ NamesDiffer' /\ NamesAllowed'
    BY <2>1, NothingDefined
  <2>3. /\ WellScoped(Source) => Unresolved(us) = {}
        /\ Unresolved(us) = {} => UsesAnswered'
    BY <2>1, AnswerKeeps
  <2> QED BY <2>1, <2>2, <2>3 DEF RulesKept
<1> QED BY <1>2, StepKeeps

\* A step that leaves the tables and the symbols as they are.
LEMMA QuietStep ==
  ASSUME SymbolsInv, body' = body, Where', Lists', Seen' = Seen, Answered' = Answered,
         table' = table, symbol' = symbol, errors' = errors, EventsExist => EventsExist'
  PROVE  SymbolsInv'
<1>1. Unresolved({}) = {}
  BY DEF Unresolved
<1>2. Answered' = Answered \cup {} /\ errors' = errors \cup Unresolved({})
  BY <1>1
<1> QED BY <1>2, AnswerStep

\* The lists before the bodies, and when the labels and jumps stay those met.
LEMMA ListsStay ==
  ASSUME Lists, body' = body, collected' = collected, pending' = pending,
         \A kind \in {"label", "jump"} : InOpenFunction(kind)' = InOpenFunction(kind)
  PROVE  Lists'
BY ScriptStays DEF Lists, Collected, Jumps

LEMMA NoneOpen ==
  ASSUME body' = body, ~Walking, ~Walking'
  PROVE  /\ \A kind \in {"label", "jump"} : InOpenFunction(kind)' = InOpenFunction(kind)
         /\ MetInBodies = {} /\ LeftInBodies = {} /\ MetInBodies' = {} /\ LeftInBodies' = {}
         /\ EventsExist => EventsExist'
<1>1. MetInBodies = {} /\ MetInBodies' = {} /\ LeftInBodies = {} /\ LeftInBodies' = {}
  BY DEF MetInBodies, LeftInBodies
<1>2. \A kind : InOpenFunction(kind) = {} /\ InOpenFunction(kind)' = {}
  BY <1>1 DEF InOpenFunction
<1> QED BY <1>1, <1>2 DEF EventsExist

\* Where the visitor of the script's globals goes.
LEMMA GlobalMoves ==
  ASSUME Where, body' = body, phase \in {"prototypes", "states"}, phase' = phase,
         NEW g \in Node, at = In(g), at' = Onward(g)
  PROVE  /\ at' \in Position /\ (at' = End \/ \E h \in Children(1) : at' = In(h))
         /\ g \in Children(1) /\ g # 1
         /\ Met(at) = Before(g) /\ Met(at)' = Before(g) \cup Below(g)
         /\ phase = "prototypes" /\ Kind(g) # "state" => All("state") \cap (Before(g) \cup Below(g)) = {}
<1>1. Ordered
  BY DEF Where, Ordered
<1>2. g \in Children(1) /\ g # 1
  <2>1. at # End
    BY DEF In, End
  <2>2. PICK h \in Children(1) : at = In(h)
    BY <2>1 DEF Where
  <2>3. g = h
    BY <2>2 DEF In
  <2> QED BY <1>1, <2>2, <2>3, ChildFacts, OrderFacts
<1>3. Met(at) = Before(g)
  BY DEF Met, In
<1>4. PICK to : to = Onward(g)
  OBVIOUS
<1>5. at' = to /\ Met(at)' = Met(to)
  BY <1>4 DEF Met, Before, Below, Node
<1>6. to \in Position /\ Met(to) = Before(g) \cup Below(g)
  BY <1>1, <1>2, <1>4, OnwardMeets
<1>7. to = End \/ \E h \in Children(1) : to = In(h)
  <2>1. Up(g) = 1
    BY <1>1, <1>2, ChildFacts, OrderFacts
  <2>2. CASE Follower(g) = 0
    BY <1>4, <2>1, <2>2 DEF Onward, Out, End
  <2>3. CASE Follower(g) # 0
    <3>1. \E c \in Children(Up(g)) : c > g
      BY <2>3 DEF Follower
    <3>2. Follower(g) \in Children(Up(g))
      BY <1>1, <1>2, <3>1, NextSibling
    <3> QED BY <1>4, <2>1, <2>3, <3>2 DEF Onward
  <2> QED BY <2>2, <2>3
<1>8. ASSUME phase = "prototypes", Kind(g) # "state" PROVE All("state") \cap (Before(g) \cup Below(g)) = {}
  <2>1. All("state") \cap Before(g) = {}
    BY <1>3, <1>8 DEF Where
  <2>2. \A m \in Below(g) : Kind(m) # "state"
    BY <1>1, <1>2, <1>8, GlobalBelow
  <2> QED BY <2>1, <2>2 DEF All
<1> QED BY <1>2, <1>3, <1>5, <1>6, <1>7, <1>8

LEMMA VisitVariableStep ==
  ASSUME SymbolsInv, NEW g \in Node, VisitVariable(g)
  PROVE  SymbolsInv'
<1>1. /\ phase = "prototypes" /\ phase' = phase /\ at = In(g) /\ at' = Onward(g) /\ Kind(g) = "variable" /\ body' = body
      /\ symbol' = Resolved(Initializer(g))
      /\ table' = IF Clashes(g) THEN table ELSE [table EXCEPT ![1] = @ \cup {g}]
      /\ errors' = errors \cup Unresolved(Initializer(g)) \cup DefinitionErrors(g)
      /\ collected' = collected /\ pending' = pending
  BY DEF VisitVariable
<1>2. Where /\ Lists /\ Ordered
  BY DEF SymbolsInv, Where, Ordered
<1>3. /\ at' \in Position /\ (at' = End \/ \E h \in Children(1) : at' = In(h))
      /\ g \in Children(1) /\ Met(at) = Before(g) /\ Met(at)' = Before(g) \cup Below(g)
      /\ All("state") \cap (Before(g) \cup Below(g)) = {}
  BY <1>1, <1>2, GlobalMoves
<1>4. /\ Below(g) = {g} \cup Initializer(g)
      /\ \A u \in Initializer(g) : u \in Uses /\ Kind(u) \in {"read", "call"} /\ InInitializer(u)
  BY <1>1, <1>2, VariableBelow
<1>5. ScopeOf(g) = 1 /\ g \in Declarations
  BY <1>1 DEF ScopeOf, Declarations
<1>6. ~Walking /\ ~Walking'
  BY <1>1 DEF Walking
<1>7. /\ \A kind \in {"label", "jump"} : InOpenFunction(kind)' = InOpenFunction(kind)
      /\ MetInBodies = {} /\ LeftInBodies = {} /\ MetInBodies' = {} /\ LeftInBodies' = {}
      /\ EventsExist => EventsExist'
  BY <1>1, <1>6, NoneOpen
<1>8. Lists'
  BY <1>1, <1>2, <1>7, ListsStay
<1>9. /\ Seen = Globals \cap Before(g)
      /\ Seen' = Globals \cap (Before(g) \cup Below(g))
  BY <1>1, <1>3, <1>7, ScriptStays DEF Seen, Globals
<1>10. g \notin Before(g)
  BY <1>2, OrderFacts DEF Before
<1>11. g \notin Seen /\ Seen' = Seen \cup {g}
  <2>1. Globals \cap Below(g) = {g}
    BY <1>1, <1>4 DEF Globals, All
  <2> QED BY <1>9, <1>10, <2>1
<1>12. Answered' = Answered \cup Initializer(g)
  <2>1. Answered = {u \in Uses : InInitializer(u) /\ u \in Before(g)}
    <3>1. \A u \in Uses : ~InInitializer(u) => u \notin Answered
      BY <1>7 DEF Answered
    <3> QED BY <1>1, <1>3, <3>1 DEF Answered
  <2>2. Answered' = {u \in Uses : InInitializer(u) /\ u \in Before(g) \cup Below(g)}
    <3>1. Answered' = {u \in Uses : IF InInitializer(u) THEN phase' = "prototypes" => u \in Met(at)'
                                    ELSE IF Kind(u) = "jump" THEN FunctionOf(u) \in LeftInBodies'
                                    ELSE u \in MetInBodies'}
      BY <1>1, ScriptStays DEF Answered
    <3> QED BY <1>1, <1>3, <1>7, <3>1
  <2>3. g \notin Uses
    BY <1>1 DEF Uses
  <2> QED BY <1>4, <2>1, <2>2, <2>3
<1>13. Where'
  <2>1. DOMAIN table' = Scopes /\ DOMAIN symbol' = Uses
    BY <1>1, <1>2 DEF Where, Resolved
  <2> QED BY <1>1, <1>2, <1>3, <2>1, ScriptStays DEF Where
<1>14. \A u \in Initializer(g) : SeesDeclared(u) /\ Kind(u) # "jump"
  BY <1>1, <1>2, <1>4, InitializerSees
<1>15. \A u \in Uses : symbol'[u] = IF u \in Initializer(g) THEN Lookup(u, Name(u), Type(u)) ELSE symbol[u]
  BY <1>1 DEF Resolved
<1>16. Initializer(g) \subseteq Uses
  BY <1>4
<1> QED BY <1>1, <1>5, <1>7, <1>8, <1>11, <1>12, <1>13, <1>14, <1>15, <1>16, DefineStep

\* A definition with no use.
LEMMA PlainDefineStep ==
  ASSUME SymbolsInv, body' = body, Where', Lists',
         NEW d \in Declarations, d \notin Seen, Seen' = Seen \cup {d}, Define(d),
         Answered' = Answered, symbol' = symbol, EventsExist => EventsExist'
  PROVE  SymbolsInv'
<1>1. Unresolved({}) = {}
  BY DEF Unresolved
<1>2. /\ Answered' = Answered \cup {} /\ errors' = errors \cup Unresolved({}) \cup DefinitionErrors(d)
      /\ table' = IF Clashes(d) THEN table ELSE [table EXCEPT ![ScopeOf(d)] = @ \cup {d}]
      /\ \A u \in Uses : symbol'[u] = IF u \in {} THEN Lookup(u, Name(u), Type(u)) ELSE symbol[u]
      /\ \A u \in {} : SeesDeclared(u) /\ Kind(u) # "jump"
  BY <1>1 DEF Define
<1> QED BY <1>2, DefineStep

LEMMA DefineDomain ==
  ASSUME NEW d, Define(d), DOMAIN table = Scopes
  PROVE  DOMAIN table' = Scopes
BY DEF Define

LEMMA PrototypeStep ==
  ASSUME SymbolsInv, NEW g \in Node, Prototype(g)
  PROVE  SymbolsInv'
<1>1. /\ \/ phase = "prototypes" /\ Kind(g) = "function"
         \/ phase = "states" /\ Kind(g) = "state"
      /\ phase' = phase /\ at = In(g) /\ at' = Onward(g) /\ body' = body /\ Define(g)
      /\ symbol' = symbol /\ collected' = collected /\ pending' = pending
  BY DEF Prototype
<1>2. Where /\ Lists /\ Ordered
  BY DEF SymbolsInv, Where, Ordered
<1>3. /\ at' \in Position /\ (at' = End \/ \E h \in Children(1) : at' = In(h))
      /\ g \in Children(1) /\ Met(at) = Before(g) /\ Met(at)' = Before(g) \cup Below(g)
      /\ phase = "prototypes" => All("state") \cap (Before(g) \cup Below(g)) = {}
  BY <1>1, <1>2, GlobalMoves
<1>4. \A m \in Below(g) : m # g => Kind(m) \notin {"variable", "function", "state"} /\ ~InInitializer(m)
  BY <1>1, <1>2, <1>3, GlobalBelow
<1>5. g \in Declarations /\ g \in Below(g) /\ g \notin Before(g) /\ g \notin Uses
  BY <1>1, <1>2, SelfBelow, OrderFacts DEF Declarations, Before, Uses
<1>6. ~Walking /\ ~Walking'
  BY <1>1 DEF Walking
<1>7. /\ \A kind \in {"label", "jump"} : InOpenFunction(kind)' = InOpenFunction(kind)
      /\ MetInBodies = {} /\ LeftInBodies = {} /\ MetInBodies' = {} /\ LeftInBodies' = {}
      /\ EventsExist => EventsExist'
  BY <1>1, <1>6, NoneOpen
<1>8. Lists'
  BY <1>1, <1>2, <1>7, ListsStay
<1>9. g \notin Seen /\ Seen' = Seen \cup {g}
  <2>1. CASE phase = "prototypes"
    <3>1. Seen = Globals \cap Before(g) /\ Seen' = Globals \cap (Before(g) \cup Below(g))
      BY <1>1, <1>3, <1>7, <2>1, ScriptStays DEF Seen, Globals
    <3>2. Globals \cap Below(g) = {g}
      BY <1>1, <1>4, <1>5, <2>1 DEF Globals, All
    <3> QED BY <1>5, <3>1, <3>2
  <2>2. CASE phase = "states"
    <3>1. /\ Seen = Globals \cup (All("state") \cap Before(g))
          /\ Seen' = Globals \cup (All("state") \cap (Before(g) \cup Below(g)))
      BY <1>1, <1>3, <1>7, <2>2, ScriptStays DEF Seen, Globals
    <3>2. All("state") \cap Below(g) = {g} /\ g \notin Globals
      BY <1>1, <1>4, <1>5, <2>2 DEF All, Globals
    <3> QED BY <1>5, <3>1, <3>2
  <2> QED BY <1>1, <2>1, <2>2
<1>10. Answered' = Answered
  <2>1. \A u \in Uses : InInitializer(u) => (u \in Met(at)' <=> u \in Met(at))
    BY <1>3, <1>4, <1>5
  <2> QED BY <1>1, <1>7, <2>1, ScriptStays DEF Answered
<1>11. Where'
  <2>1. DOMAIN table' = Scopes /\ DOMAIN symbol' = Uses
    BY <1>1, <1>2, DefineDomain DEF Where
  <2> QED BY <1>1, <1>2, <1>3, <2>1, ScriptStays DEF Where
<1> QED BY <1>1, <1>5, <1>7, <1>8, <1>9, <1>10, <1>11, PlainDefineStep

\* The states are behind the other globals and what is in those.
LEMMA StatesLast ==
  ASSUME Ordered, NEW n \in Node, Kind(n) = "state"
  PROVE  /\ Globals \subseteq Before(n)
         /\ \A u \in Uses : InInitializer(u) => u \in Before(n)
<1>1. n \in Children(1) /\ n # 1 /\ Up(n) = 1 /\ Above[n] = {1} /\ n \in Nat
  BY GlobalFacts, OrderFacts
<1>2. ASSUME NEW g \in Node, Kind(g) \in {"variable", "function"} PROVE g < n
  <2>1. g # 1 /\ Up(g) = 1 /\ g \in Nat /\ g # n
    BY <1>2, GlobalFacts, OrderFacts
  <2>2. ASSUME n < g PROVE FALSE
    <3>1. Arranged(body)
      BY ScriptsAssumption DEF Ordered
    <3>2. n \in 2 .. Len(body) /\ g \in 2 .. Len(body) /\ body[n].up = body[g].up /\ body[n].kind = "state"
      BY <1>1, <2>1, OrderFacts DEF Node, Up, Kind
    <3>3. body[g].kind = "state"
      BY <2>2, <3>1, <3>2 DEF Arranged
    <3> QED BY <1>2, <3>3 DEF Kind
  <2> QED BY <1>1, <2>1, <2>2
<1>3. ASSUME NEW u \in Uses, InInitializer(u) PROVE u < n
  <2>1. u \in Node /\ u # 1
    BY KindFacts DEF Uses
  <2>2. PICK g \in Above[u] : Kind(g) = "variable"
    BY <1>3 DEF InInitializer
  <2>3. g \in Node /\ u \in Below(g) /\ g < n
    BY <1>2, <2>1, <2>2, AboveFacts
  <2>4. n \notin Below(g)
    BY <1>1, <2>2, <2>3, AboveFacts, KindFacts
  <2>5. ~(n <= u)
    BY <2>1, <2>3, <2>4, BelowPrefix, OrderFacts
  <2> QED BY <1>1, <2>1, <2>5, OrderFacts
<1> QED BY <1>2, <1>3 DEF Globals, All, Before, Uses

LEMMA StartStatesStep ==
  ASSUME SymbolsInv, StartStates
  PROVE  SymbolsInv'
<1>1. /\ phase = "prototypes" /\ phase' = "states" /\ body' = body /\ at' = at
      /\ table' = table /\ symbol' = symbol /\ collected' = collected /\ pending' = pending /\ errors' = errors
  BY DEF StartStates
<1>2. PICK n \in Node : at = In(n) /\ Kind(n) = "state"
  BY DEF StartStates
<1>3. Where /\ Lists /\ Ordered
  BY DEF SymbolsInv, Where, Ordered
<1>4. Met(at) = Before(n) /\ Met(at)' = Met(at)
  BY <1>1, <1>2 DEF Met, In, Before, Below, Node
<1>5. ~Walking /\ ~Walking'
  BY <1>1 DEF Walking
<1>6. /\ \A kind \in {"label", "jump"} : InOpenFunction(kind)' = InOpenFunction(kind)
      /\ MetInBodies = {} /\ LeftInBodies = {} /\ MetInBodies' = {} /\ LeftInBodies' = {}
      /\ EventsExist => EventsExist'
  BY <1>1, <1>5, NoneOpen
<1>7. Globals \subseteq Met(at) /\ (\A u \in Uses : InInitializer(u) => u \in Met(at))
  BY <1>2, <1>3, <1>4, StatesLast
<1>8. Seen' = Seen
  <2>1. Seen = Globals \cap Met(at)
    BY <1>1, <1>6 DEF Seen
  <2>2. Seen' = Globals \cup (All("state") \cap Met(at))
    BY <1>1, <1>4, <1>6, ScriptStays DEF Seen, Globals
  <2> QED BY <1>1, <1>3, <1>7, <2>1, <2>2 DEF Where
<1>9. Answered' = Answered
  BY <1>1, <1>6, <1>7, ScriptStays DEF Answered
<1>10. Where'
  BY <1>1, <1>3, ScriptStays DEF Where
<1>11. Lists'
  BY <1>1, <1>3, <1>6, ListsStay
<1> QED BY <1>1, <1>6, <1>8, <1>9, <1>10, <1>11, QuietStep

LEMMA StartBodiesStep ==
  ASSUME SymbolsInv, StartBodies
  PROVE  SymbolsInv'
<1>1. /\ phase = "states" /\ phase' = "bodies" /\ body' = body /\ at = End /\ at' = Descend(1)
      /\ table' = table /\ symbol' = symbol /\ collected' = collected /\ pending' = pending /\ errors' = errors
  BY DEF StartBodies
<1>2. Where /\ Lists /\ Ordered
  BY DEF SymbolsInv, Where, Ordered
<1>3. Kind(1) = "script" /\ 1 \in Node
  BY <1>2, KindFacts, OrderFacts
<1>4. PICK to : to = Descend(1)
  OBVIOUS
<1>5. at' = to /\ Met(at)' = Met(to) /\ Inside(at)' = Inside(to)
  BY <1>1, <1>4 DEF Met, Inside, Before, Below, Node
<1>6. Before(1) = {} /\ Above[1] = {}
  BY <1>2, <1>3, AboveFacts, OrderFacts DEF Before, Node
<1>7. to \in Position /\ Met(to) = {1} /\ Inside(to) = {1}
  BY <1>2, <1>3, <1>4, <1>6, DescendMeets, InsideIn, InsideDescend
<1>8. Met(at) = Node
  BY <1>1, <1>2, EndMeets
<1>9. /\ MetInBodies = {} /\ LeftInBodies = {} /\ MetInBodies' = {1} /\ LeftInBodies' = {}
  BY <1>1, <1>5, <1>7 DEF MetInBodies, LeftInBodies, Walking
<1>10. Seen' = Seen
  BY <1>1, <1>3, <1>8, <1>9, ScriptStays DEF Seen, Globals, All
<1>11. Answered' = Answered
  <2>1. 1 \notin Uses
    BY <1>3 DEF Uses
  <2> QED BY <1>1, <1>9, <2>1, ScriptStays DEF Answered
<1>12. ASSUME NEW kind \in {"label", "jump", "handler"} PROVE All(kind)' \cap MetInBodies' = {}
  <2>1. 1 \notin All(kind)
    BY <1>3, <1>12 DEF All
  <2>2. All(kind)' = All(kind)
    BY <1>1, ScriptStays
  <2> QED BY <1>9, <2>1, <2>2
<1>13. \A kind \in {"label", "jump"} : InOpenFunction(kind)' = InOpenFunction(kind)
  BY <1>9, <1>12 DEF InOpenFunction
<1>16. EventsExist => EventsExist'
  BY <1>12 DEF EventsExist
<1>14. Lists'
  BY <1>1, <1>2, <1>13, ListsStay
<1>15. Where'
  <2>1. to[1] # 1 => ~InInitializer(to[1])
    <3>1. CASE Children(1) = {}
      BY <1>4, <3>1 DEF Descend, Out
    <3>2. CASE Children(1) # {}
      <4>1. to[1] = 1 + 1 /\ 1 + 1 \in Children(1)
        BY <1>2, <1>3, <1>4, <3>2, FirstChild DEF Descend, In
      <4>2. 1 + 1 \in Node /\ Above[1 + 1] = {1}
        BY <1>2, <1>3, <4>1, ChildFacts, GlobalFacts
      <4> QED BY <1>3, <4>1, <4>2 DEF InInitializer
    <3> QED BY <3>1, <3>2
  <2> QED BY <1>1, <1>2, <1>5, <1>7, <2>1, ScriptStays DEF Where
<1> QED BY <1>1, <1>10, <1>11, <1>14, <1>15, <1>16, QuietStep

\* Where the visitor of the bodies is after it enters or leaves a node.
LEMMA WhereInBodies ==
  ASSUME Where, body' = body, phase = "bodies", phase' = phase, at' \in Position,
         at'[1] # 1 => ~InInitializer(at'[1]), DOMAIN table' = Scopes, DOMAIN symbol' = Uses
  PROVE  Where'
BY ScriptStays DEF Where

LEMMA ListGrows ==
  ASSUME NEW list \in Seq(Node), NEW n \in Node
  PROVE  /\ Append(list, n) \in Seq(Node)
         /\ {Append(list, n)[i] : i \in DOMAIN Append(list, n)} = {list[i] : i \in DOMAIN list} \cup {n}
<1>1. DOMAIN Append(list, n) = DOMAIN list \cup {Len(list) + 1} /\ Len(list) + 1 \notin DOMAIN list
  OBVIOUS
<1>2. /\ \A i \in DOMAIN list : Append(list, n)[i] = list[i]
      /\ Append(list, n)[Len(list) + 1] = n
  OBVIOUS
<1> QED BY <1>1, <1>2

\* Only an event of the language has a symbol to handle.
LEMMA HandlersEvent ==
  ASSUME Tabled, NEW h \in All("handler")
  PROVE  RootLookup(Name(h), "event") # NoSymbol <=> IsEvent(h)
<1> DEFINE own == {b \in Builtins : b.name = Name(h) /\ Fits(b.type, "event")}
<1>1. InTable(1, Name(h), "event") = {}
  <2>1. Ordered /\ 1 \in Scopes /\ Seen \subseteq Declarations
    BY SeenDeclared DEF Tabled
  <2>2. ASSUME NEW d \in InTable(1, Name(h), "event") PROVE FALSE
    <3>1. d \in Declarations /\ Up(d) = 1 /\ Type(d) = "event"
      BY <2>1, <2>2, TableFacts DEF Fits
    <3> QED BY <2>1, <3>1, TypeFacts
  <2> QED BY <2>2
<1>2. \A b \in Builtins : b = [name |-> b.name, type |-> b.type]
  BY BuiltinsAssumption
<1>3. \A b : b \in own <=> b \in Builtins /\ b.name = Name(h) /\ b.type = "event"
  BY DEF Fits
<1>4. RootLookup(Name(h), "event") = IF own # {} THEN BuiltinSymbol(CHOOSE b \in own : TRUE) ELSE NoSymbol
  BY <1>1 DEF RootLookup
<1>5. IsEvent(h) <=> own # {}
  <2>1. ASSUME NEW b \in own PROVE IsEvent(h)
    BY <1>2, <1>3, <2>1 DEF IsEvent
  <2>2. ASSUME IsEvent(h) PROVE [name |-> Name(h), type |-> "event"] \in own
    BY <1>3, <2>2 DEF IsEvent
  <2> QED BY <2>1, <2>2
<1>6. \A b : BuiltinSymbol(b) # NoSymbol
  BY SymbolFacts DEF Tabled
<1> HIDE DEF own
<1> QED BY <1>4, <1>5, <1>6

LEMMA EnterStep ==
  ASSUME SymbolsInv, NEW n \in Node, Enter(n)
  PROVE  SymbolsInv'
<1>1. /\ phase = "bodies" /\ phase' = phase /\ body' = body /\ at = In(n)
      /\ at' = IF Kind(n) = "variable" THEN Out(n) ELSE Descend(n)
      /\ \/ VisitParam(n) \/ VisitLabel(n) \/ VisitJump(n) \/ EnterHandler(n)
         \/ EnterBlock(n) \/ VisitUse(n) \/ EnterOther(n)
  BY DEF Enter
<1>2. Where /\ Lists /\ Ordered /\ DOMAIN table = Scopes /\ DOMAIN symbol = Uses
  BY DEF SymbolsInv, Where, Ordered
<1>3. at' \in Position /\ (at'[1] # 1 => ~InInitializer(at'[1]))
  BY <1>1, <1>2, EnterMoves
<1>4. /\ Seen' = Seen \cup Declares(n)
      /\ Kind(n) \in {"param", "label", "handler"} => n \in Declarations \ Seen
      /\ Answered' = Answered \cup Asks(n) /\ Asks(n) \subseteq Uses
      /\ \A kind \in {"label", "jump"} :
           InOpenFunction(kind)' = InOpenFunction(kind) \cup (IF Kind(n) = kind THEN {n} ELSE {})
      /\ EventsExist /\ (Kind(n) = "handler" => IsEvent(n)) => EventsExist'
  BY <1>1, <1>2, EnterEffects
<1>5. /\ collected \in Seq(Node) /\ Collected = InOpenFunction("label")
      /\ pending \in Seq(Node) /\ Jumps = InOpenFunction("jump")
  BY <1>2 DEF Lists
<1>6. Node' = Node
  BY <1>1, ScriptStays
<1>7. ASSUME Kind(n) \notin {"label", "jump"}, collected' = collected, pending' = pending PROVE Lists'
  BY <1>1, <1>2, <1>4, <1>7, ListsStay
<1>8. CASE VisitParam(n)
  <2>1. Kind(n) = "param" /\ Define(n) /\ symbol' = symbol /\ collected' = collected /\ pending' = pending
    BY <1>8 DEF VisitParam
  <2>2. Where'
    BY <1>1, <1>2, <1>3, <2>1, DefineDomain, WhereInBodies
  <2>3. Declares(n) = {n} /\ Asks(n) = {}
    BY <2>1 DEF Declares, Asks
  <2> QED BY <1>1, <1>4, <1>7, <2>1, <2>2, <2>3, PlainDefineStep
<1>9. CASE VisitLabel(n)
  <2>1. Kind(n) = "label" /\ Define(n) /\ symbol' = symbol /\ collected' = Append(collected, n) /\ pending' = pending
    BY <1>9 DEF VisitLabel
  <2>2. Where'
    BY <1>1, <1>2, <1>3, <2>1, DefineDomain, WhereInBodies
  <2>3. Declares(n) = {n} /\ Asks(n) = {}
    BY <2>1 DEF Declares, Asks
  <2>4. Collected' = Collected \cup {n} /\ collected' \in Seq(Node) /\ Jumps' = Jumps
    <3>1. /\ Append(collected, n) \in Seq(Node)
          /\ {Append(collected, n)[i] : i \in DOMAIN Append(collected, n)} = Collected \cup {n}
      BY <1>5, ListGrows DEF Collected
    <3>2. Collected' = {collected'[i] : i \in DOMAIN collected'} /\ Jumps' = {pending'[i] : i \in DOMAIN pending'}
      BY DEF Collected, Jumps
    <3>3. Collected' = Collected \cup {n} /\ collected' \in Seq(Node)
      BY <2>1, <3>1, <3>2, Zenon
    <3>4. Jumps' = Jumps
      BY <2>1, <3>2, Zenon DEF Jumps
    <3> QED BY <3>3, <3>4
  <2>5. Lists'
    BY <1>4, <1>5, <1>6, <2>1, <2>4 DEF Lists
  <2> QED BY <1>1, <1>4, <2>1, <2>2, <2>3, <2>5, PlainDefineStep
<1>10. CASE VisitJump(n)
  <2>1. Kind(n) = "jump" /\ pending' = Append(pending, n)
        /\ table' = table /\ symbol' = symbol /\ collected' = collected /\ errors' = errors
    BY <1>10 DEF VisitJump
  <2>2. Where'
    BY <1>1, <1>2, <1>3, <2>1, WhereInBodies
  <2>3. Declares(n) = {} /\ Asks(n) = {}
    BY <2>1 DEF Declares, Asks
  <2>4. Jumps' = Jumps \cup {n} /\ pending' \in Seq(Node) /\ Collected' = Collected
    <3>1. /\ Append(pending, n) \in Seq(Node)
          /\ {Append(pending, n)[i] : i \in DOMAIN Append(pending, n)} = Jumps \cup {n}
      BY <1>5, ListGrows DEF Jumps
    <3>2. Collected' = {collected'[i] : i \in DOMAIN collected'} /\ Jumps' = {pending'[i] : i \in DOMAIN pending'}
      BY DEF Collected, Jumps
    <3>3. Jumps' = Jumps \cup {n} /\ pending' \in Seq(Node)
      BY <2>1, <3>1, <3>2, Zenon
    <3>4. Collected' = Collected
      BY <2>1, <3>2, Zenon DEF Collected
    <3> QED BY <3>3, <3>4
  <2>5. Lists'
    BY <1>4, <1>5, <1>6, <2>1, <2>4 DEF Lists
  <2> QED BY <1>1, <1>4, <2>1, <2>2, <2>3, <2>5, QuietStep
<1>11. CASE EnterHandler(n)
  <2>1. /\ Kind(n) = "handler" /\ symbol' = symbol /\ collected' = collected /\ pending' = pending
        /\ IF RootLookup(Name(n), "event") # NoSymbol THEN Define(n)
           ELSE errors' = errors \cup {<<"event", n>>} /\ table' = table
    BY <1>11 DEF EnterHandler
  <2>2. n \in All("handler") /\ n \in Declarations /\ n \notin Seen /\ Asks(n) = {}
    BY <1>4, <2>1 DEF All, Asks
  <2>3. DOMAIN table' = Scopes
    BY <1>2, <2>1, DefineDomain
  <2>4. Where'
    BY <1>1, <1>2, <1>3, <2>1, <2>3, WhereInBodies
  <2>5. Lists'
    BY <1>7, <2>1
  <2>6. Answered' = Answered
    BY <1>4, <2>2
  <2>7. CASE RootLookup(Name(n), "event") # NoSymbol /\ IsEvent(n)
    <3>1. Define(n) /\ Seen' = Seen \cup {n} /\ (EventsExist => EventsExist')
      BY <1>4, <2>1, <2>7 DEF Declares
    <3> QED BY <1>1, <2>1, <2>2, <2>4, <2>5, <2>6, <3>1, PlainDefineStep
  <2>8. CASE ~ (RootLookup(Name(n), "event") # NoSymbol) /\ ~IsEvent(n)
    <3>1. errors' = errors \cup {<<"event", n>>} /\ {<<"event", n>>} # {}
      BY <2>1, <2>8
    <3>2. ~WellScoped(Source)
      <4>1. Source[n] = Name(n)
        BY DEF Source
      <4> QED BY <2>1, <2>2, <2>8, <4>1 DEF WellScoped, IsEvent
    <3> QED BY <1>1, <2>4, <2>5, <3>1, <3>2, StepKeeps
  <2>9. CASE ~ (RootLookup(Name(n), "event") # NoSymbol <=> IsEvent(n))
    <3>1. ~RulesKept
      BY <1>2, <2>2, <2>9, HandlersEvent DEF RulesKept, Tabled
    <3>2. errors # {} /\ ~WellScoped(Source)
      BY <3>1 DEF SymbolsInv
    <3>3. errors' # {}
      BY <2>1, <3>2 DEF Define
    <3>4. ~WellScoped(Source)'
      BY <1>1, <3>2, ScriptStays
    <3> QED BY <2>4, <2>5, <3>3, <3>4 DEF SymbolsInv
  <2> QED BY <2>7, <2>8, <2>9
<1>12. CASE EnterBlock(n) \/ EnterOther(n)
  <2>1. Kind(n) \in {"block", "script", "variable", "function", "state", "local"}
        /\ table' = table /\ symbol' = symbol /\ collected' = collected /\ pending' = pending /\ errors' = errors
    BY <1>12 DEF EnterBlock, EnterOther
  <2>2. Where'
    BY <1>1, <1>2, <1>3, <2>1, WhereInBodies
  <2>3. Declares(n) = {} /\ Asks(n) = {}
    BY <2>1 DEF Declares, Asks
  <2>4. Lists'
    BY <1>7, <2>1
  <2> QED BY <1>1, <1>4, <2>1, <2>2, <2>3, <2>4, QuietStep
<1>13. CASE VisitUse(n)
  <2>1. /\ Kind(n) \in {"read", "call", "switch"} /\ symbol' = Resolved({n}) /\ errors' = errors \cup Unresolved({n})
        /\ table' = table /\ collected' = collected /\ pending' = pending
    BY <1>13 DEF VisitUse
  <2>2. Declares(n) = {} /\ Asks(n) = {n} /\ n \in Uses
    BY <1>4, <2>1 DEF Declares, Asks
  <2>3. DOMAIN symbol' = Uses
    BY <2>1 DEF Resolved
  <2>4. Where'
    BY <1>1, <1>2, <1>3, <2>1, <2>3, WhereInBodies
  <2>5. Lists'
    BY <1>7, <2>1
  <2>6. SeesDeclared(n) /\ Kind(n) # "jump"
    BY <1>1, <1>2, <2>1, <2>2, UseSees
  <2>7. /\ symbol'[n] = Lookup(n, Name(n), Type(n))
        /\ \A u \in Uses \ {n} : symbol'[u] = symbol[u]
    BY <2>1, <2>2 DEF Resolved
  <2>8. /\ {n} \subseteq Uses /\ Seen' = Seen /\ Answered' = Answered \cup {n} /\ (EventsExist => EventsExist')
        /\ \A u \in {n} : /\ SeesDeclared(u)
                          /\ symbol'[u] = Lookup(u, Name(u), Type(u)) /\ Kind(u) # "jump"
    BY <1>4, <2>1, <2>2, <2>6, <2>7
  <2> QED BY <1>1, <2>1, <2>4, <2>5, <2>7, <2>8, AnswerStep
<1> QED BY <1>1, <1>8, <1>9, <1>10, <1>11, <1>12, <1>13

LEMMA LeaveStep ==
  ASSUME SymbolsInv, NEW n \in Node, Leave(n)
  PROVE  SymbolsInv'
<1>1. /\ phase = "bodies" /\ phase' = phase /\ body' = body /\ n # 1 /\ at = Out(n) /\ at' = Onward(n)
      /\ LeaveLocal(n) \/ LeaveFunction(n) \/ LeaveOther(n)
  BY DEF Leave
<1>2. Where /\ Lists /\ Ordered /\ DOMAIN table = Scopes /\ DOMAIN symbol = Uses
  BY DEF SymbolsInv, Where, Ordered
<1>3. at' \in Position /\ (at'[1] # 1 => ~InInitializer(at'[1]))
  BY <1>1, <1>2, LeaveMoves
<1> DEFINE settled == {u \in Uses : Kind(u) = "jump" /\ FunctionOf(u) = n}
<1>4. /\ Seen' = Seen \cup (IF Kind(n) = "local" THEN {n} ELSE {})
      /\ Kind(n) = "local" => n \in Declarations \ Seen
      /\ Answered' = Answered \cup settled
      /\ \A kind \in {"label", "jump"} :
           /\ n \notin Functions => InOpenFunction(kind)' = InOpenFunction(kind)
           /\ n \in Functions => /\ InOpenFunction(kind)' = {}
                                 /\ InOpenFunction(kind) = {m \in All(kind) : FunctionOf(m) = n}
      /\ EventsExist => EventsExist'
  BY <1>1, <1>2, LeaveEffects
<1>5. n \in Functions <=> Kind(n) \in {"function", "handler"}
  BY DEF Functions, All
<1>6. /\ n \notin Functions => settled = {}
      /\ n \in Functions => settled = InOpenFunction("jump")
  <2>1. \A u \in Uses : Kind(u) = "jump" => FunctionOf(u) \in Functions
    BY <1>2, BodyFunction DEF InBody, Uses
  <2>2. \A u : u \in All("jump") <=> u \in Uses /\ Kind(u) = "jump"
    BY DEF All, Uses
  <2> QED BY <1>4, <2>1, <2>2
<1> HIDE DEF settled
<1>7. CASE LeaveLocal(n)
  <2>1. Kind(n) = "local" /\ Define(n) /\ symbol' = symbol /\ collected' = collected /\ pending' = pending
    BY <1>7 DEF LeaveLocal
  <2>2. n \notin Functions
    BY <1>5, <2>1
  <2>3. Where'
    BY <1>1, <1>2, <1>3, <2>1, DefineDomain, WhereInBodies
  <2>4. Lists'
    BY <1>1, <1>2, <1>4, <2>1, <2>2, ListsStay
  <2>5. Seen' = Seen \cup {n} /\ n \in Declarations /\ n \notin Seen /\ Answered' = Answered
    BY <1>4, <1>6, <2>1, <2>2
  <2> QED BY <1>1, <1>4, <2>1, <2>3, <2>4, <2>5, PlainDefineStep
<1>8. CASE LeaveOther(n)
  <2>1. /\ Kind(n) \notin {"local", "function", "handler"}
        /\ table' = table /\ symbol' = symbol /\ collected' = collected /\ pending' = pending /\ errors' = errors
    BY <1>8 DEF LeaveOther
  <2>2. n \notin Functions
    BY <1>5, <2>1
  <2>3. Where'
    BY <1>1, <1>2, <1>3, <2>1, WhereInBodies
  <2>4. Lists'
    BY <1>1, <1>2, <1>4, <2>1, <2>2, ListsStay
  <2>5. Seen' = Seen /\ Answered' = Answered
    BY <1>4, <1>6, <2>1, <2>2
  <2> QED BY <1>1, <1>4, <2>1, <2>3, <2>4, <2>5, QuietStep
<1>9. CASE LeaveFunction(n)
  <2>1. /\ Kind(n) \in {"function", "handler"} /\ symbol' = JumpsResolved /\ errors' = errors \cup Unresolved(Jumps)
        /\ pending' = <<>> /\ collected' = <<>> /\ table' = table
    BY <1>9 DEF LeaveFunction
  <2>2. n \in Functions
    BY <1>5, <2>1
  <2>3. /\ Collected = {m \in All("label") : FunctionOf(m) = n} /\ Jumps = settled
        /\ \A kind \in {"label", "jump"} : InOpenFunction(kind)' = {}
    BY <1>2, <1>4, <1>6, <2>2 DEF Lists
  <2>4. DOMAIN symbol' = Uses
    BY <2>1 DEF JumpsResolved
  <2>5. Where'
    BY <1>1, <1>2, <1>3, <2>1, <2>4, WhereInBodies
  <2>6. Lists'
    BY <2>1, <2>3 DEF Lists, Collected, Jumps
  <2>7. Seen' = Seen /\ Answered' = Answered \cup Jumps
    BY <1>4, <2>1, <2>3
  <2>8. Jumps \subseteq Uses /\ \A u \in Jumps : Kind(u) = "jump" /\ FunctionOf(u) = n /\ Type(u) = "label"
    BY <1>2, <2>3, TypeFacts DEF settled
  <2>9. \A u \in Jumps : SeesDeclared(u)
    BY <1>1, <1>2, <2>2, <2>8, JumpSees
  <2>10. \A u \in Uses \ Jumps : symbol'[u] = symbol[u]
    BY <2>1 DEF JumpsResolved, Resolved
  <2>11. ASSUME NEW u \in Jumps, Lookup(u, Name(u), Type(u)) # NoSymbol, RulesKept
         PROVE  symbol'[u] = Meaning(u, Source)
    <3>1. Resolved(Jumps)[u] = Lookup(u, Name(u), Type(u))
      BY <2>8 DEF Resolved
    <3>2. symbol'[u] = Symbol(LastLabel(Name(u)))
      BY <2>1, <2>8, <2>11, <3>1 DEF JumpsResolved
    <3>3. {l \in Node : \E i \in DOMAIN collected : collected[i] = l /\ Name(l) = Name(u)}
            = {l \in Node : Kind(l) = "label" /\ Source[l] = Source[u] /\ FunctionOf(l) = FunctionOf(u)}
      <4>1. \A l : (\E i \in DOMAIN collected : collected[i] = l) <=> l \in Node /\ Kind(l) = "label" /\ FunctionOf(l) = n
        BY <2>3 DEF Collected, All
      <4>2. Source[u] = Name(u) /\ \A l \in Node : Source[l] = Name(l)
        BY <2>8 DEF Source, Uses
      <4> QED BY <2>8, <4>1, <4>2
    <3>4. Means(u, Source) # {}
      BY <1>2, <2>8, <2>9, <2>11, LookupMeans DEF RulesKept, Tabled
    <3>5. Meaning(u, Source) =
            Symbol(Innermost({l \in Node : Kind(l) = "label" /\ Source[l] = Source[u] /\ FunctionOf(l) = FunctionOf(u)}))
      BY <2>8, <3>4 DEF Meaning
    <3> QED BY <3>2, <3>3, <3>5 DEF LastLabel
  <2>12. CASE RulesKept
    BY <1>1, <1>4, <2>1, <2>5, <2>6, <2>7, <2>8, <2>9, <2>10, <2>11, <2>12, AnswerStep
  <2>13. CASE ~RulesKept
    <3>1. errors # {} /\ ~WellScoped(Source)
      BY <2>13 DEF SymbolsInv
    <3>2. errors' # {} /\ ~WellScoped(Source)'
      BY <1>1, <2>1, <3>1, ScriptStays
    <3> QED BY <2>5, <2>6, <3>2 DEF SymbolsInv
  <2> QED BY <2>12, <2>13
<1> QED BY <1>1, <1>7, <1>8, <1>9

\* What comes after the walk leaves all that was found as it is.
LEMMA AfterwardsStep ==
  ASSUME SymbolsInv, UNCHANGED walkVars
           \/ EndBodies \/ EndMangling \/ \E d \in Declarations : MangleSymbol(d)
  PROVE  SymbolsInv'
<1>1. /\ body' = body /\ at' = at /\ table' = table /\ symbol' = symbol /\ errors' = errors
      /\ collected' = collected /\ pending' = pending
      /\ \/ phase' = phase
         \/ phase \in {"bodies", "mangle"} /\ phase' \in {"mangle", "done"} /\ at = End
  <2>1. CASE EndBodies
    BY <2>1 DEF EndBodies, End, SymbolsInv, Where
  <2>2. CASE EndMangling
    BY <2>2 DEF EndMangling, SymbolsInv, Where
  <2>3. CASE UNCHANGED walkVars \/ \E d \in Declarations : MangleSymbol(d)
    BY <2>3 DEF MangleSymbol, walkVars
  <2> QED BY <2>1, <2>2, <2>3
<1>2. Where /\ Lists /\ Ordered
  BY DEF SymbolsInv, Where, Ordered
<1>3. Met(at)' = Met(at) /\ Inside(at)' = Inside(at)
  BY <1>1 DEF Met, Inside, Before, Below, Node
<1>4. Walking' = Walking /\ (phase = "prototypes" <=> phase' = "prototypes") /\ (phase = "states" <=> phase' = "states")
  BY <1>1 DEF Walking
<1>5. MetInBodies' = MetInBodies /\ LeftInBodies' = LeftInBodies
  BY <1>3, <1>4 DEF MetInBodies, LeftInBodies
<1>6. Seen' = Seen
  BY <1>1, <1>3, <1>4, <1>5, ScriptStays DEF Seen, Globals
<1>7. Answered' = Answered
  BY <1>1, <1>3, <1>4, <1>5, ScriptStays DEF Answered
<1>8. \A kind \in {"label", "jump"} : InOpenFunction(kind)' = InOpenFunction(kind)
  BY <1>1, <1>3, <1>5, ScriptStays DEF InOpenFunction
<1>9. EventsExist => EventsExist'
  BY <1>1, <1>5, ScriptStays DEF EventsExist
<1>10. Where'
  BY <1>1, <1>2, <1>3, ScriptStays DEF Where
<1>11. Lists'
  BY <1>1, <1>2, <1>8, ListsStay
<1> QED BY <1>1, <1>6, <1>7, <1>9, <1>10, <1>11, QuietStep

LEMMA SymbolsInvInit == Init => SymbolsInv
<1> SUFFICES ASSUME Init PROVE SymbolsInv
  OBVIOUS
<1>1. /\ Ordered /\ phase = "prototypes" /\ at = Descend(1) /\ table = [s \in Scopes |-> {}]
      /\ symbol = [u \in Uses |-> NoSymbol] /\ collected = <<>> /\ pending = <<>> /\ errors = {}
  BY DEF Init, Ordered
<1>2. Kind(1) = "script" /\ 1 \in Node
  BY <1>1, KindFacts, OrderFacts
<1>3. Before(1) = {}
  BY <1>1, OrderFacts DEF Before, Node
<1>4. at \in Position /\ Met(at) = {1}
  BY <1>1, <1>2, <1>3, DescendMeets
<1>5. at = End \/ \E g \in Children(1) : at = In(g)
  <2>1. CASE Children(1) = {}
    BY <1>1, <2>1 DEF Descend, Out, End
  <2>2. CASE Children(1) # {}
    <3>1. at = In(1 + 1) /\ 1 + 1 \in Children(1)
      BY <1>1, <1>2, <2>2, FirstChild DEF Descend
    <3> QED BY <3>1
  <2> QED BY <2>1, <2>2
<1>6. Where
  <2>1. All("state") \cap Met(at) = {}
    BY <1>2, <1>4 DEF All
  <2> QED BY <1>1, <1>4, <1>5, <2>1 DEF Where, Ordered
<1>7. MetInBodies = {} /\ LeftInBodies = {}
  BY <1>1 DEF MetInBodies, LeftInBodies, Walking
<1>8. Seen = {} /\ Answered = {}
  <2>1. Seen = Globals \cap {1}
    BY <1>1, <1>4, <1>7 DEF Seen
  <2>2. 1 \notin Globals /\ 1 \notin Uses
    BY <1>2 DEF Globals, All, Uses
  <2>3. Answered = {}
    BY <1>1, <1>4, <1>7, <2>2 DEF Answered
  <2> QED BY <2>1, <2>2, <2>3
<1>9. Lists
  BY <1>1, <1>7 DEF Lists, Collected, Jumps, InOpenFunction
<1>10. RulesKept
  BY <1>1, <1>7, <1>8 DEF RulesKept, TablesExact, NamesDiffer, NamesAllowed, EventsExist, UsesAnswered
<1> QED BY <1>1, <1>6, <1>9, <1>10 DEF SymbolsInv

LEMMA SymbolsInvStep == SymbolsInv /\ [Next]_vars => SymbolsInv'
<1> SUFFICES ASSUME SymbolsInv, [Next]_vars PROVE SymbolsInv'
  OBVIOUS
<1>1. ASSUME NEW n \in Node, VisitVariable(n) \/ Prototype(n) \/ Enter(n) \/ Leave(n) PROVE SymbolsInv'
  BY <1>1, VisitVariableStep, PrototypeStep, EnterStep, LeaveStep
<1>2. CASE StartStates \/ StartBodies
  BY <1>2, StartStatesStep, StartBodiesStep
<1>3. CASE EndBodies \/ EndMangling \/ \E d \in Declarations : MangleSymbol(d)
  BY <1>3, AfterwardsStep
<1>4. CASE UNCHANGED vars
  <2>1. UNCHANGED walkVars
    BY <1>4 DEF vars
  <2> QED BY <2>1, AfterwardsStep
<1> QED BY <1>1, <1>2, <1>3, <1>4 DEF Next

\* What the invariant says at the end of the walk.
LEMMA WalkOver ==
  ASSUME SymbolsInv, phase \in {"mangle", "done"}
  PROVE  UsesMeanDeclarations
<1>1. Where /\ Ordered /\ at = End
  BY DEF SymbolsInv, Where, Ordered
<1>2. Met(at) = Node /\ Inside(at) = {1} /\ 1 \in Node
  <2>1. Above[1] = {} /\ 1 \in Node
    BY <1>1, AboveFacts, OrderFacts DEF Node
  <2> QED BY <1>1, <2>1, EndMeets, InsideIn DEF End, Out
<1>3. MetInBodies = Node /\ LeftInBodies = Node \ {1}
  BY <1>2 DEF MetInBodies, LeftInBodies, Walking
<1>4. Kind(1) = "script"
  BY <1>1, KindFacts
<1>5. Answered = Uses
  <2>1. \A u \in Uses : u \in Node /\ (Kind(u) = "jump" => FunctionOf(u) \in Functions)
    BY <1>1, BodyFunction DEF InBody, Uses
  <2>2. \A f \in Functions : f \in Node \ {1}
    BY <1>4 DEF Functions, All
  <2> QED BY <1>3, <2>1, <2>2 DEF Answered
<1>6. ASSUME RulesKept PROVE WellScoped(Source)
  <2>1. \A h \in Declarations : Kind(h) = "handler" => IsEvent(h)
    BY <1>3, <1>6 DEF RulesKept, EventsExist, All, Declarations
  <2>2. \A d \in Declarations : d \in Seen
    <3>1. \A d \in Declarations : d \in Node /\ (Kind(d) = "local" => d \in Node \ {1})
      BY <1>4 DEF Declarations
    <3>2. \A d \in Declarations :
            Kind(d) \in {"variable", "function", "state", "handler", "param", "local", "label"}
      BY DEF Declarations
    <3> QED BY <1>1, <1>3, <2>1, <3>1, <3>2, SeenFacts
  <2>3. \A d \in Declarations : Source[d] = Name(d)
    BY DEF Declarations, Source
  <2>4. \A d, e \in Declarations : d # e /\ ScopeOf(d) = ScopeOf(e) => Source[d] # Source[e]
    BY <1>6, <2>2, <2>3 DEF RulesKept, NamesDiffer
  <2>5. \A d \in Declarations : Allowed(d)
    BY <1>6, <2>2 DEF RulesKept, NamesAllowed
  <2>6. \A u \in Uses : Means(u, Source) # {} \/ BuiltinMeaning(u, Source) # {}
    BY <1>5, <1>6 DEF RulesKept, UsesAnswered
  <2> QED BY <2>1, <2>3, <2>4, <2>5, <2>6 DEF WellScoped, IsEvent, Allowed
<1>7. errors = {} <=> WellScoped(Source)
  BY <1>6 DEF SymbolsInv
<1>8. errors = {} => \A u \in Uses : symbol[u] = Meaning(u, Source)
  BY <1>5 DEF SymbolsInv, RulesKept, UsesAnswered
<1> QED BY <1>7, <1>8 DEF UsesMeanDeclarations

\* The resolution of names keeps the invariant above.
THEOREM SymbolTablesAreExact == Spec => []SymbolsInv
<1>1. Init => SymbolsInv
  BY SymbolsInvInit
<1>2. SymbolsInv /\ [Next]_vars => SymbolsInv'
  BY SymbolsInvStep
<1> QED BY <1>1, <1>2, PTL DEF Spec

\* UsesMeanDeclarations for every script: SymbolResolutionVisitor refuses
\* exactly the scripts that break the rules of names, and in the others every
\* variable, call, jump and state change has the symbol of the declaration it
\* means, wherever tables, hoisting and the names of the language meet.
THEOREM NamesAreResolved == Spec => []UsesMeanDeclarations
<1>1. SymbolsInv => UsesMeanDeclarations
  BY WalkOver DEF UsesMeanDeclarations
<1> QED BY <1>1, SymbolTablesAreExact, PTL

-----------------------------------------------------------------------------
(* The invariant. *)

Used == {MangledNames[i] : i \in 1 .. seq - 1}

\* Names are made up in their order, each for one declaration or for none,
\* when a declaration has it already.
MangleInv ==
  /\ DOMAIN mangled = Declarations
  /\ seq \in Nat \ {0} /\ seq <= Len(MangledNames) + 1
  /\ phase = "mangle" => errors = {}
  /\ \A d \in Declarations : mangled[d] # "" => Renamed(d) /\ mangled[d] \in Used
  /\ \A d, e \in Declarations : d # e /\ mangled[d] # "" => mangled[d] # mangled[e]
  /\ \A i \in 1 .. seq - 1 : \E d \in Declarations : MangledNames[i] \in {mangled[d], Name(d)}
  /\ phase = "done" /\ errors = {} => \A d \in Declarations : Renamed(d) => mangled[d] # ""

NamesInv == SymbolsInv /\ MangleInv

LEMMA MangledNamesFacts ==
  /\ Len(MangledNames) \in Nat /\ DOMAIN MangledNames = 1 .. Len(MangledNames)
  /\ \A i, j \in 1 .. Len(MangledNames) : MangledNames[i] = MangledNames[j] => i = j
  /\ \A i \in 1 .. Len(MangledNames) :
       /\ MangledNames[i] # "" /\ MangledNames[i] # "default"
       /\ \A b \in Builtins : b.name # MangledNames[i]
<1>1. Len(MangledNames) \in Nat /\ DOMAIN MangledNames = 1 .. Len(MangledNames)
  <2>1. MangledNames \in Seq(STRING)
    BY MangledNamesAssumption
  <2> QED BY <2>1
<1> QED BY <1>1, MangledNamesAssumption

\* What has been defined when the walk is over without errors.
LEMMA AllSeen ==
  ASSUME SymbolsInv, phase \in {"mangle", "done"}, errors = {}
  PROVE  /\ Seen = Declarations /\ WellScoped(Source)
         /\ UNION {table[s] : s \in Scopes} = Declarations
         /\ \A d \in Declarations : table[ScopeOf(d)] \subseteq Declarations
<1>1. Where /\ Ordered /\ at = End /\ RulesKept
  BY DEF SymbolsInv, Where, Ordered
<1>2. Met(at) = Node /\ Inside(at) = {1} /\ 1 \in Node
  <2>1. Above[1] = {} /\ 1 \in Node
    BY <1>1, AboveFacts, OrderFacts DEF Node
  <2> QED BY <1>1, <2>1, EndMeets, InsideIn DEF End, Out
<1>3. MetInBodies = Node /\ LeftInBodies = Node \ {1}
  BY <1>2 DEF MetInBodies, LeftInBodies, Walking
<1>4. \A h \in Declarations : Kind(h) = "handler" => IsEvent(h)
  BY <1>1, <1>3 DEF RulesKept, EventsExist, All, Declarations
<1>5. \A d \in Declarations : d \in Node /\ d # 1 /\ ScopeOf(d) \in Scopes
  BY <1>1, ScopeIsUp
<1>6. Seen = Declarations
  <2>1. \A d \in Declarations :
          Kind(d) \in {"variable", "function", "state", "handler", "param", "local", "label"}
    BY DEF Declarations
  <2>2. \A d \in Declarations : d \in Seen
    BY <1>1, <1>3, <1>4, <1>5, <2>1, SeenFacts
  <2> QED BY <1>1, <2>2, SeenDeclared
<1>7. \A s \in Scopes : table[s] = {d \in Declarations : ScopeOf(d) = s}
  BY <1>1, <1>6 DEF RulesKept, TablesExact
<1>8. WellScoped(Source)
  BY WalkOver DEF UsesMeanDeclarations
<1> QED BY <1>5, <1>6, <1>7, <1>8

-----------------------------------------------------------------------------
(* There is always a name left. *)

LEMMA NameLeft ==
  ASSUME SymbolsInv, MangleInv, phase = "mangle", NEW d \in Declarations
  PROVE  \E i \in seq .. Len(MangledNames) : InTable(ScopeOf(d), MangledNames[i], "any") = {}
<1> DEFINE M == Len(MangledNames)
           L == Len(body)
<1> SUFFICES ASSUME \A i \in seq .. M : InTable(ScopeOf(d), MangledNames[i], "any") # {}
             PROVE  FALSE
  OBVIOUS
<1>1. /\ Ordered /\ L \in Nat \ {0} /\ M \in Nat /\ 2 * L < M
      /\ Declarations \subseteq 1 .. L /\ table[ScopeOf(d)] \subseteq Declarations
  <2>1. Ordered /\ body \in Bodies
    BY DEF SymbolsInv, Where, Ordered
  <2>2. Declarations \subseteq 1 .. L /\ L \in Nat \ {0}
    BY <2>1, OrderFacts DEF Declarations, Node
  <2>3. table[ScopeOf(d)] \subseteq Declarations
    BY AllSeen DEF MangleInv
  <2> QED BY <2>1, <2>2, <2>3, MangledNamesAssumption, MangledNamesFacts
<1>2. \A i \in 1 .. M : \E e \in Declarations : MangledNames[i] \in {mangled[e], Name(e)}
  <2>1. seq \in Nat /\ M \in Nat
    BY MangledNamesFacts DEF MangleInv
  <2>2. ASSUME NEW i \in 1 .. M, i >= seq PROVE \E e \in Declarations : MangledNames[i] = Name(e)
    <3>1. i \in seq .. M
      BY <2>2, <2>1
    <3>2. PICK e \in InTable(ScopeOf(d), MangledNames[i], "any") : TRUE
      BY <3>1
    <3> QED BY <1>1, <3>2 DEF InTable
  <2>3. ASSUME NEW i \in 1 .. M, i < seq PROVE i \in 1 .. seq - 1
    BY <2>3, <2>1
  <2>4. \A i \in 1 .. seq - 1 : \E e \in Declarations : MangledNames[i] \in {mangled[e], Name(e)}
    BY DEF MangleInv
  <2>5. \A i \in 1 .. M : i >= seq \/ i < seq
    BY <2>1
  <2> QED BY <2>2, <2>3, <2>4, <2>5
<1> DEFINE Has(i) == {e \in Declarations : mangled[e] = MangledNames[i]}
           Had(i) == {e \in Declarations : Name(e) = MangledNames[i]}
           owner == [i \in 1 .. M |-> IF Has(i) # {} THEN CHOOSE e \in Has(i) : TRUE
                                      ELSE L + (CHOOSE e \in Had(i) : TRUE)]
<1>3. ASSUME NEW i \in 1 .. M
      PROVE  \/ owner[i] \in 1 .. L /\ mangled[owner[i]] = MangledNames[i]
             \/ owner[i] - L \in 1 .. L /\ owner[i] \in L + 1 .. 2 * L /\ Name(owner[i] - L) = MangledNames[i]
  <2>1. CASE Has(i) # {}
    <3>1. owner[i] = CHOOSE e \in Has(i) : TRUE
      BY <2>1
    <3>2. owner[i] \in Has(i)
      BY <2>1, <3>1
    <3> QED BY <1>1, <3>2
  <2>2. CASE Has(i) = {}
    <3>1. Had(i) # {}
      BY <1>2, <2>2
    <3>2. PICK e \in Had(i) : owner[i] = L + e
      BY <2>2, <3>1
    <3>3. e \in 1 .. L /\ Name(e) = MangledNames[i]
      BY <1>1, <3>2
    <3>4. owner[i] - L = e
      BY <1>1, <3>2, <3>3
    <3> QED BY <1>1, <3>2, <3>3, <3>4
  <2> QED BY <2>1, <2>2
<1> HIDE DEF owner
<1>4. owner \in [1 .. M -> 1 .. 2 * L]
  <2>1. \A i \in 1 .. M : owner[i] \in 1 .. 2 * L
    BY <1>1, <1>3
  <2>2. owner = [i \in 1 .. M |-> owner[i]]
    BY DEF owner
  <2> QED BY <2>1, <2>2
<1>5. /\ IsFiniteSet(1 .. M) /\ IsFiniteSet(1 .. 2 * L)
      /\ Cardinality(1 .. 2 * L) < Cardinality(1 .. M)
  <2>1. IsFiniteSet(1 .. M) /\ Cardinality(1 .. M) = M
    <3> HIDE DEF M
    <3> QED BY <1>1, FS_Interval
  <2>2. IsFiniteSet(1 .. 2 * L) /\ Cardinality(1 .. 2 * L) = 2 * L
    <3>1. 2 * L \in Int /\ 1 \in Int /\ 1 <= 2 * L
      BY <1>1
    <3> HIDE DEF L
    <3> QED BY <3>1, FS_Interval
  <2> QED BY <1>1, <2>1, <2>2
<1>6. PICK i \in 1 .. M, j \in 1 .. M : i # j /\ owner[i] = owner[j]
  BY <1>4, <1>5, FS_PigeonHole
<1>7. MangledNames[i] = MangledNames[j]
  <2>1. ~ (owner[i] \in 1 .. L /\ owner[i] \in L + 1 .. 2 * L)
    BY <1>1
  <2> QED BY <1>3, <1>6, <2>1
<1> QED BY <1>6, <1>7, MangledNamesFacts

LEMMA FreeNameFacts ==
  ASSUME SymbolsInv, MangleInv, phase = "mangle", NEW d \in Declarations
  PROVE  LET i == FreeName(ScopeOf(d)) IN
         /\ i \in seq .. Len(MangledNames)
         /\ \A k \in seq .. i - 1 : \E e \in Declarations : Name(e) = MangledNames[k]
<1> DEFINE s == ScopeOf(d)
           Free == {i \in seq .. Len(MangledNames) : InTable(s, MangledNames[i], "any") = {}}
<1>1. seq \in Nat /\ Len(MangledNames) \in Nat
  BY MangledNamesFacts DEF MangleInv
<1>2. Free # {} /\ Free \subseteq Nat
  <2>1. \E i \in seq .. Len(MangledNames) : InTable(s, MangledNames[i], "any") = {}
    BY NameLeft
  <2>2. seq .. Len(MangledNames) \subseteq Nat
    BY <1>1
  <2> QED BY <2>1, <2>2
<1>3. PICK i \in Free : \A k \in Free : i <= k
  BY <1>2, LeastExists
<1>4. \A k \in seq .. i - 1 : InTable(s, MangledNames[k], "any") # {}
  <2>1. \A k \in seq .. i - 1 : k \in seq .. Len(MangledNames) /\ ~ (i <= k)
    BY <1>1, <1>3
  <2> QED BY <1>3, <2>1
<1>5. \E j \in seq .. Len(MangledNames) :
        /\ InTable(s, MangledNames[j], "any") = {}
        /\ \A k \in seq .. j - 1 : InTable(s, MangledNames[k], "any") # {}
  BY <1>3, <1>4
<1>6. /\ FreeName(s) \in seq .. Len(MangledNames)
      /\ \A k \in seq .. FreeName(s) - 1 : InTable(s, MangledNames[k], "any") # {}
  BY <1>5 DEF FreeName
<1>7. table[s] \subseteq Declarations
  BY AllSeen DEF MangleInv
<1> QED BY <1>6, <1>7 DEF InTable

-----------------------------------------------------------------------------
(* The steps. *)

LEMMA RenamedStays ==
  ASSUME body' = body
  PROVE  Declarations' = Declarations /\ \A d : (Renamed(d)' <=> Renamed(d)) /\ Name(d)' = Name(d)
<1>1. \A d : Name(d)' = Name(d) /\ Type(d)' = Type(d)
  BY ScriptStays
<1> QED BY <1>1, ScriptStays DEF Renamed

LEMMA MangleInvInit == Init => MangleInv
<1> SUFFICES ASSUME Init PROVE MangleInv
  OBVIOUS
<1>1. phase = "prototypes" /\ mangled = [d \in Declarations |-> ""]
  BY DEF Init
<1>2. seq = 1 /\ Len(MangledNames) \in Nat
  BY MangledNamesFacts DEF Init
<1>3. 1 .. seq - 1 = {} /\ seq \in Nat \ {0} /\ seq <= Len(MangledNames) + 1
  BY <1>2
<1> QED BY <1>1, <1>3 DEF MangleInv

\* A step that makes up no name.
LEMMA NoNewName ==
  ASSUME MangleInv, body' = body, seq' = seq, mangled' = mangled,
         phase' = "mangle" => errors' = {},
         phase' = "done" /\ errors' = {} => \A d \in Declarations : Renamed(d) => mangled[d] # ""
  PROVE  MangleInv'
<1>1. Used' = Used
  BY DEF Used
<1>2. Declarations' = Declarations /\ \A d : (Renamed(d)' <=> Renamed(d)) /\ Name(d)' = Name(d)
  BY RenamedStays
<1> QED BY <1>1, <1>2 DEF MangleInv

LEMMA WalkStep ==
  ASSUME NamesInv, (\E n \in Node : VisitVariable(n) \/ Prototype(n) \/ Enter(n) \/ Leave(n))
                     \/ StartStates \/ StartBodies \/ EndBodies
  PROVE  MangleInv'
<1>1. body' = body /\ seq' = seq /\ mangled' = mangled
  BY DEF VisitVariable, Prototype, Enter, Leave, StartStates, StartBodies, EndBodies
<1>2. (phase' = "mangle" => errors' = {}) /\ (phase' = "done" => errors' # {})
  <2>1. ASSUME NEW n \in Node, VisitVariable(n) \/ Prototype(n) \/ Enter(n) \/ Leave(n)
        PROVE  phase' \notin {"mangle", "done"}
    BY <2>1 DEF VisitVariable, Prototype, Enter, Leave
  <2>2. CASE StartStates \/ StartBodies
    BY <2>2 DEF StartStates, StartBodies
  <2>3. CASE EndBodies
    BY <2>3 DEF EndBodies
  <2> QED BY <2>1, <2>2, <2>3
<1> QED BY <1>1, <1>2, NoNewName DEF NamesInv

LEMMA EndManglingStep ==
  ASSUME NamesInv, EndMangling
  PROVE  MangleInv'
<1>1. /\ phase = "mangle" /\ Waiting = {} /\ phase' = "done"
      /\ body' = body /\ seq' = seq /\ mangled' = mangled
  BY DEF EndMangling
<1>2. UNION {table[s] : s \in Scopes} = Declarations
  BY <1>1, AllSeen DEF NamesInv, MangleInv
<1>3. \A d \in Declarations : Renamed(d) => mangled[d] # ""
  BY <1>1, <1>2 DEF Waiting
<1> QED BY <1>1, <1>3, NoNewName DEF NamesInv

LEMMA MangleSymbolStep ==
  ASSUME NamesInv, NEW d \in Declarations, MangleSymbol(d)
  PROVE  MangleInv'
<1> DEFINE i == FreeName(ScopeOf(d))
           name == MangledNames[i]
<1>1. /\ phase = "mangle" /\ d \in Waiting /\ mangled' = [mangled EXCEPT ![d] = name] /\ seq' = i + 1
      /\ body' = body /\ phase' = phase /\ errors' = errors
  BY DEF MangleSymbol, walkVars
<1>2. seq \in Nat \ {0} /\ Len(MangledNames) \in Nat
  BY MangledNamesFacts DEF NamesInv, MangleInv
<1>3. /\ SymbolsInv /\ MangleInv /\ DOMAIN mangled = Declarations
      /\ Renamed(d) /\ mangled[d] = "" /\ errors = {}
  BY <1>1 DEF NamesInv, MangleInv, Waiting
<1>4. i \in seq .. Len(MangledNames)
  BY <1>1, <1>3, FreeNameFacts
<1>5. \A k \in seq .. i - 1 : \E e \in Declarations : Name(e) = MangledNames[k]
  BY <1>1, <1>3, FreeNameFacts
<1> HIDE DEF i
<1>6. i \in Nat /\ i >= seq /\ i <= Len(MangledNames) /\ i \in 1 .. Len(MangledNames) /\ (i + 1) - 1 = i
  BY <1>2, <1>4
<1>7. /\ seq' = i + 1 /\ seq' \in Nat \ {0} /\ seq' <= Len(MangledNames) + 1 /\ 1 .. seq' - 1 = 1 .. i
      /\ 1 .. seq - 1 \subseteq 1 .. i /\ i \in 1 .. i
      /\ \A k \in 1 .. i : k \in 1 .. seq - 1 \/ k \in seq .. i - 1 \/ k = i
      /\ \A k \in 1 .. seq - 1 : k \in 1 .. Len(MangledNames) /\ k # i
  <2>1. seq' = i + 1
    BY <1>1
  <2> QED BY <1>2, <1>6, <2>1
<1>8. name # "" /\ name \notin Used
  BY <1>6, <1>7, MangledNamesFacts DEF Used
<1>9. Declarations' = Declarations /\ \A e : (Renamed(e)' <=> Renamed(e)) /\ Name(e)' = Name(e)
  BY <1>1, RenamedStays
<1>10. Used' = {MangledNames[k] : k \in 1 .. i}
  BY <1>7 DEF Used
<1>11. name \in Used' /\ Used \subseteq Used'
  BY <1>10, <1>7 DEF Used
<1>12. mangled'[d] = name /\ \A e \in Declarations : e # d => mangled'[e] = mangled[e]
  BY <1>1, <1>3
<1>13. \A e \in Declarations : mangled[e] # "" => Renamed(e) /\ mangled[e] \in Used
  BY <1>3 DEF MangleInv
<1>14. \A e \in Declarations : mangled'[e] # "" => Renamed(e) /\ mangled'[e] \in Used'
  BY <1>3, <1>11, <1>12, <1>13
<1>15. \A e, f \in Declarations : e # f /\ mangled'[e] # "" => mangled'[e] # mangled'[f]
  <2>1. ASSUME NEW e \in Declarations, NEW f \in Declarations, e # f, mangled'[e] # "", mangled'[e] = mangled'[f]
        PROVE  FALSE
    <3>1. CASE e # d /\ f # d
      BY <1>3, <1>12, <2>1, <3>1 DEF MangleInv
    <3>2. CASE e = d \/ f = d
      BY <1>8, <1>12, <1>13, <2>1, <3>2
    <3> QED BY <3>1, <3>2
  <2> QED BY <2>1
<1>16. \A k \in 1 .. i : \E e \in Declarations : MangledNames[k] \in {mangled'[e], Name(e)}
  <2>1. ASSUME NEW k \in 1 .. seq - 1 PROVE \E e \in Declarations : MangledNames[k] \in {mangled'[e], Name(e)}
    <3>1. PICK e \in Declarations : MangledNames[k] \in {mangled[e], Name(e)}
      BY <1>3 DEF MangleInv
    <3>2. MangledNames[k] # ""
      <4>1. k \in 1 .. Len(MangledNames)
        BY <1>7
      <4> QED BY <4>1, MangledNamesFacts
    <3> QED BY <1>3, <1>12, <3>1, <3>2
  <2>2. ASSUME NEW k \in seq .. i - 1 PROVE \E e \in Declarations : MangledNames[k] \in {mangled'[e], Name(e)}
    BY <1>5
  <2>3. \A k \in 1 .. i : k \in 1 .. seq - 1 \/ k \in seq .. i - 1 \/ k = i
    BY <1>7
  <2> QED BY <1>12, <2>1, <2>2, <2>3
<1>17. DOMAIN mangled' = Declarations
  BY <1>1, <1>3
<1>18. \A k \in 1 .. seq' - 1 : \E e \in Declarations' : MangledNames[k] \in {mangled'[e], Name(e)'}
  BY <1>9, <1>16, <1>7
<1>19. \A e \in Declarations' : mangled'[e] # "" => Renamed(e)' /\ mangled'[e] \in Used'
  BY <1>9, <1>14
<1> QED BY <1>1, <1>3, <1>9, <1>15, <1>17, <1>7, <1>18, <1>19 DEF MangleInv

LEMMA NamesInvStep == NamesInv /\ [Next]_vars => NamesInv'
<1> SUFFICES ASSUME NamesInv, [Next]_vars PROVE NamesInv'
  OBVIOUS
<1>1. SymbolsInv'
  BY SymbolsInvStep DEF NamesInv
<1>2. MangleInv'
  <2>1. CASE (\E n \in Node : VisitVariable(n) \/ Prototype(n) \/ Enter(n) \/ Leave(n))
               \/ StartStates \/ StartBodies \/ EndBodies
    BY <2>1, WalkStep
  <2>2. ASSUME NEW d \in Declarations, MangleSymbol(d) PROVE MangleInv'
    BY <2>2, MangleSymbolStep
  <2>3. CASE EndMangling
    BY <2>3, EndManglingStep
  <2>4. CASE UNCHANGED vars
    <3>1. UNCHANGED <<body, phase, errors, seq, mangled>>
      BY <2>4 DEF vars, walkVars
    <3> QED BY <3>1, NoNewName DEF NamesInv, MangleInv
  <2> QED BY <2>1, <2>2, <2>3, <2>4 DEF Next
<1> QED BY <1>1, <1>2 DEF NamesInv

\* The made up names are different from each other, and skip only those that
\* declarations have already.
THEOREM NewNamesDiffer == Spec => []NamesInv
<1>1. Init => NamesInv
  BY SymbolsInvInit, MangleInvInit DEF NamesInv
<1>2. NamesInv /\ [Next]_vars => NamesInv'
  BY NamesInvStep
<1> QED BY <1>1, <1>2, PTL DEF Spec

-----------------------------------------------------------------------------
(* What the new names mean. *)

Everything == {"locals", "globals", "funcs"}
NewNames == Printed(Everything)

Finished == NamesInv /\ phase = "done" /\ errors = {}

LEMMA FinishedFacts ==
  ASSUME Finished
  PROVE  /\ Ordered /\ WellScoped(Source) /\ \A u \in Uses : u \in Node /\ symbol[u] = Meaning(u, Source)
         /\ \A d \in Declarations : d \in Node /\ d # 0 /\ Source[d] = Name(d) /\ (mangled[d] # "" <=> Renamed(d))
         /\ \A d \in Declarations :
              Renamed(d) => /\ mangled[d] # "default" /\ \A b \in Builtins : b.name # mangled[d]
                            /\ \A e \in Declarations : e # d => mangled[e] # mangled[d]
<1>1. /\ SymbolsInv /\ MangleInv /\ Ordered /\ UsesMeanDeclarations /\ WellScoped(Source)
      /\ phase = "done" /\ errors = {}
  BY WalkOver, AllSeen DEF Finished, NamesInv, SymbolsInv, Where, Ordered
<1>2. \A u \in Uses : u \in Node /\ symbol[u] = Meaning(u, Source)
  BY <1>1 DEF UsesMeanDeclarations, Uses
<1>3. \A d \in Declarations : d \in Node /\ d # 0
  BY <1>1, ScopeIsUp, OrderFacts DEF Node
<1>4. \A d \in Declarations : mangled[d] # "" <=> Renamed(d)
  BY <1>1 DEF MangleInv
<1>5. \A name \in Used : name # "default" /\ \A b \in Builtins : b.name # name
  <2>1. seq \in Nat /\ Len(MangledNames) \in Nat /\ seq <= Len(MangledNames) + 1
    BY <1>1, MangledNamesFacts DEF MangleInv
  <2>2. 1 .. seq - 1 \subseteq 1 .. Len(MangledNames)
    BY <2>1
  <2> QED BY <2>2, MangledNamesFacts DEF Used
<1>6. \A d, e \in Declarations : d # e /\ mangled[d] # "" => mangled[d] # mangled[e]
  BY <1>1 DEF MangleInv
<1>7. \A d \in Declarations : mangled[d] # "" => mangled[d] \in Used
  BY <1>1 DEF MangleInv
<1>8. \A d \in Declarations : Source[d] = Name(d)
  BY <1>3 DEF Source
<1> QED BY <1>1, <1>2, <1>3, <1>4, <1>5, <1>6, <1>7, <1>8

\* All options together choose every symbol.
LEMMA NewNameFacts ==
  ASSUME Finished
  PROVE  /\ \A d \in Declarations : NewNames[d] = IF Renamed(d) THEN mangled[d] ELSE Name(d)
         /\ \A u \in Uses :
              LET d == symbol[u].decl
              IN NewNames[u] = IF d # 0 /\ mangled[d] # "" THEN mangled[d] ELSE Name(u)
<1>1. \A s : Chosen(s, Everything)
  BY DEF Chosen, Everything
<1>2. \A n \in Node :
        NewNames[n] = IF SymbolOf(n).decl # 0 /\ mangled[SymbolOf(n).decl] # ""
                      THEN mangled[SymbolOf(n).decl] ELSE Name(n)
  BY <1>1 DEF NewNames, Printed
<1>3. ASSUME NEW d \in Declarations PROVE SymbolOf(d).decl = d
  <2>1. d \notin Uses
    BY DEF Declarations, Uses
  <2> QED BY <2>1 DEF SymbolOf, Symbol
<1>4. \A u \in Uses : SymbolOf(u) = symbol[u]
  BY DEF SymbolOf
<1>5. \A d \in Declarations : NewNames[d] = IF Renamed(d) THEN mangled[d] ELSE Name(d)
  <2>1. \A d \in Declarations : d \in Node /\ d # 0 /\ (mangled[d] # "" <=> Renamed(d))
    BY FinishedFacts
  <2> QED BY <1>2, <1>3, <2>1
<1>6. ASSUME NEW u \in Uses
      PROVE  LET d == symbol[u].decl
             IN NewNames[u] = IF d # 0 /\ mangled[d] # "" THEN mangled[d] ELSE Name(u)
  <2>1. u \in Node
    BY FinishedFacts
  <2> QED BY <1>2, <1>4, <2>1
<1> QED BY <1>5, <1>6

\* What keeps its name is a handler or the state "default".
LEMMA NotRenamed ==
  ASSUME Finished, NEW d \in Declarations, ~Renamed(d)
  PROVE  \/ Kind(d) = "handler" /\ Type(d) = "event" /\ \E b \in Builtins : b.name = Name(d)
         \/ Kind(d) = "state" /\ Type(d) = "state" /\ ScopeOf(d) = 1 /\ Name(d) = "default"
<1>1. Ordered
  BY FinishedFacts
<1>2. CASE Type(d) = "event"
  <2>1. Kind(d) = "handler"
    BY <1>1, <1>2, TypeFacts
  <2>2. Source[d] = Name(d) /\ WellScoped(Source)
    BY FinishedFacts, Zenon
  <2>3. [name |-> Source[d], type |-> "event"] \in Builtins
    BY <2>1, <2>2, Zenon DEF WellScoped
  <2>4. [name |-> Name(d), type |-> "event"] \in Builtins
    BY <2>2, <2>3
  <2>5. [name |-> Name(d), type |-> "event"].name = Name(d)
    OBVIOUS
  <2> QED BY <1>2, <2>1, <2>4, <2>5
<1>3. CASE Type(d) = "state" /\ Name(d) = "default"
  <2>1. Kind(d) = "state"
    BY <1>1, <1>3, TypeFacts
  <2> QED BY <1>3, <2>1 DEF ScopeOf
<1> QED BY <1>2, <1>3 DEF Renamed

LEMMA NewNamesApart ==
  ASSUME Finished
  PROVE  /\ \A d, e \in Declarations :
              d # e /\ NewNames[d] = NewNames[e] => ~Renamed(d) /\ ~Renamed(e) /\ Name(d) = Name(e)
         /\ \A d \in Declarations, b \in Builtins : NewNames[d] = b.name => ~Renamed(d) /\ Name(d) = b.name
<1>1. ASSUME NEW d \in Declarations, NEW e \in Declarations, Renamed(d), d # e PROVE NewNames[d] # NewNames[e]
  <2>1. NewNames[d] = mangled[d]
    BY <1>1, NewNameFacts
  <2>2. CASE Renamed(e)
    BY <1>1, <2>1, <2>2, NewNameFacts, FinishedFacts
  <2>3. CASE ~Renamed(e)
    <3>1. NewNames[e] = Name(e)
      BY <2>3, NewNameFacts
    <3> QED BY <1>1, <2>1, <2>3, <3>1, NotRenamed, FinishedFacts
  <2> QED BY <2>2, <2>3
<1>2. ASSUME NEW d \in Declarations, NEW e \in Declarations, d # e, NewNames[d] = NewNames[e]
      PROVE  ~Renamed(d) /\ ~Renamed(e) /\ Name(d) = Name(e)
  <2>1. ~Renamed(d) /\ ~Renamed(e)
    BY <1>1, <1>2
  <2> QED BY <1>2, <2>1, NewNameFacts
<1>3. ASSUME NEW d \in Declarations, NEW b \in Builtins, NewNames[d] = b.name PROVE ~Renamed(d) /\ Name(d) = b.name
  <2>1. NewNames[d] = IF Renamed(d) THEN mangled[d] ELSE Name(d)
    BY NewNameFacts
  <2>2. Renamed(d) => b.name # mangled[d]
    BY FinishedFacts
  <2>3. ~Renamed(d)
    BY <1>3, <2>1, <2>2
  <2> QED BY <1>3, <2>1, <2>3
<1> QED BY <1>2, <1>3

\* The new name of a use is that of its declaration, and of no other in sight.
LEMMA OnlyTarget ==
  ASSUME Finished, NEW u \in Uses, NEW t \in Declarations,
         symbol[u].decl = t, Visible(t, u), Name(t) = Name(u)
  PROVE  NewNames[u] = NewNames[t] /\ Means(u, NewNames) = {t}
<1>1. Ordered /\ WellScoped(Source) /\ t # 0
  BY FinishedFacts
<1>2. NewNames[u] = NewNames[t]
  BY <1>1, NewNameFacts, FinishedFacts
<1>3. ASSUME NEW d \in Declarations, d # t, Visible(d, u), NewNames[d] = NewNames[t] PROVE FALSE
  <2>1. ~Renamed(d) /\ ~Renamed(t) /\ Name(d) = Name(t)
    BY <1>3, NewNamesApart
  <2>2. Type(d) = Type(u) /\ Type(t) = Type(u) /\ Type(u) # "event"
    BY <1>1, <1>3, TypeFacts DEF Visible
  <2>3. ScopeOf(d) = 1 /\ ScopeOf(t) = 1
    BY <2>1, <2>2, NotRenamed
  <2>4. Source[d] = Source[t]
    BY <2>1, FinishedFacts
  <2> QED BY <1>1, <1>3, <2>3, <2>4 DEF WellScoped
<1> QED BY <1>2, <1>3 DEF Means

LEMMA InnermostOfIn ==
  ASSUME Ordered, NEW D, D \subseteq Declarations, D # {}
  PROVE  InnermostOf(D) \in D
<1> DEFINE T == {ScopeOf(d) : d \in D}
<1>1. T \subseteq Node /\ T # {}
  BY ScopeIsUp
<1>2. PICK s \in T : \A r \in T : r <= s
  BY <1>1, GreatestNode
<1>3. PICK d \in D : \A e \in D : ScopeOf(e) <= ScopeOf(d)
  BY <1>2
<1> QED BY <1>3 DEF InnermostOf

\* A jump sees labels of its own function only.
LEMMA LabelInFunction ==
  ASSUME Ordered, NEW u \in Uses, NEW l \in Declarations, Visible(l, u), Kind(l) = "label"
  PROVE  FunctionOf(l) = FunctionOf(u)
<1>1. l \in Node /\ u \in Node /\ l # 1 /\ Up(l) \in Above[u] /\ Kind(Up(l)) = "block"
  BY ScopeIsUp, KindFacts DEF Visible, Uses
<1>2. FunctionOf(l) \in Functions /\ FunctionOf(l) \in Above[l]
  BY <1>1, BodyFunction DEF InBody
<1>3. FunctionOf(l) # Up(l)
  BY <1>1, <1>2 DEF Functions, All
<1>4. FunctionOf(l) \in Above[Up(l)]
  BY <1>1, <1>2, <1>3, AboveUp
<1>5. FunctionOf(l) \in Above[u]
  <2>1. Up(l) \in Node /\ u \in Below(Up(l)) /\ Up(l) \in Below(FunctionOf(l)) /\ FunctionOf(l) \in Node
        /\ FunctionOf(l) < Up(l) /\ Up(l) < u
    BY <1>1, <1>4, AboveFacts, OrderFacts
  <2>2. u \in Below(FunctionOf(l))
    BY <2>1, BelowTransitive
  <2>3. FunctionOf(l) < u
    BY <1>1, <2>1, OrderFacts
  <2> QED BY <1>1, <2>1, <2>2, <2>3, AboveFacts
<1> QED BY <1>1, <1>2, <1>5, FunctionUnique

\* Every use still means what it was resolved to.
LEMMA UseKeeps ==
  ASSUME Finished, OneLabelOfName, NEW u \in Uses
  PROVE  /\ Means(u, NewNames) # {} \/ BuiltinMeaning(u, NewNames) # {}
         /\ Meaning(u, NewNames).decl = symbol[u].decl
<1> DEFINE M == Means(u, Source)
<1>1. /\ Ordered /\ WellScoped(Source) /\ u \in Node /\ symbol[u] = Meaning(u, Source) /\ Source[u] = Name(u)
      /\ Declarations \subseteq Node
  BY FinishedFacts DEF Source
<1>2. M \subseteq Declarations /\ \A d \in M : Visible(d, u) /\ Name(d) = Name(u)
  BY <1>1, FinishedFacts DEF Means
<1>3. CASE M = {}
  <2>1. symbol[u].decl = 0 /\ BuiltinMeaning(u, Source) # {}
    BY <1>1, <1>3 DEF Meaning, BuiltinSymbol, WellScoped
  <2>2. NewNames[u] = Name(u)
    BY <2>1, NewNameFacts
  <2>3. BuiltinMeaning(u, NewNames) = BuiltinMeaning(u, Source)
    BY <1>1, <2>2 DEF BuiltinMeaning
  <2>4. PICK b \in Builtins : b.name = Name(u)
    BY <1>1, <2>1 DEF BuiltinMeaning
  <2>5. ASSUME NEW d \in Means(u, NewNames) PROVE FALSE
    <3>1. d \in Declarations /\ NewNames[d] = b.name /\ Visible(d, u)
      BY <2>2, <2>4, <2>5 DEF Means
    <3>2. Name(d) = Name(u)
      BY <2>4, <3>1, NewNamesApart
    <3> QED BY <1>1, <1>3, <3>1, <3>2, FinishedFacts DEF Means
  <2> QED BY <2>1, <2>3, <2>5 DEF Meaning, BuiltinSymbol
<1>4. CASE M # {} /\ Kind(u) # "jump"
  <2>1. PICK t \in M : t = InnermostOf(M)
    BY <1>1, <1>2, <1>4, InnermostOfIn
  <2>2. symbol[u].decl = t
    BY <1>1, <1>4, <2>1 DEF Meaning, Symbol
  <2>3. Means(u, NewNames) = {t}
    BY <1>2, <2>1, <2>2, OnlyTarget
  <2>4. InnermostOf({t}) = t
    BY <1>1, <1>2, <2>1, InnermostOfIn
  <2> QED BY <1>4, <2>2, <2>3, <2>4 DEF Meaning, Symbol
<1>5. CASE M # {} /\ Kind(u) = "jump"
  <2> DEFINE Labels(names) == {l \in Node : Kind(l) = "label" /\ names[l] = names[u] /\ FunctionOf(l) = FunctionOf(u)}
  <2>1. PICK t \in M : TRUE
    BY <1>5
  <2>2. t \in Declarations /\ t \in Node /\ Visible(t, u) /\ Name(t) = Name(u) /\ Kind(t) = "label"
    BY <1>1, <1>2, <1>5, <2>1, TypeFacts DEF Visible
  <2>3. FunctionOf(t) = FunctionOf(u)
    BY <1>1, <2>2, LabelInFunction
  <2>4. ASSUME NEW l \in Node, Kind(l) = "label" PROVE l \in Declarations /\ Renamed(l) /\ Source[l] = Name(l)
    <3>1. l \in Declarations
      BY <2>4 DEF Declarations
    <3> QED BY <1>1, <2>4, <3>1, TypeFacts, FinishedFacts DEF Renamed
  <2>5. Labels(Source) = {t}
    <3>1. \A l \in Labels(Source) : l = t
      BY <1>1, <2>2, <2>3, <2>4 DEF OneLabelOfName
    <3> QED BY <1>1, <2>2, <2>3, <2>4, <3>1
  <2>6. Innermost({t}) = t
    BY <1>1, <2>2, InnermostIn
  <2>7. symbol[u].decl = t
    BY <1>1, <1>5, <2>5, <2>6 DEF Meaning, Symbol
  <2>8. NewNames[u] = NewNames[t] /\ Means(u, NewNames) = {t}
    BY <2>2, <2>7, OnlyTarget
  <2>9. Labels(NewNames) = {t}
    <3>1. \A l \in Labels(NewNames) : l = t
      BY <2>2, <2>4, <2>8, NewNamesApart
    <3> QED BY <2>2, <2>3, <2>8, <3>1
  <2> QED BY <1>5, <2>6, <2>7, <2>8, <2>9 DEF Meaning, Symbol
<1> QED BY <1>3, <1>4, <1>5

LEMMA NewNamesWellScoped ==
  ASSUME Finished, OneLabelOfName
  PROVE  WellScoped(NewNames)
<1>1. WellScoped(Source) /\ Ordered
  BY FinishedFacts
<1>2. ASSUME NEW d \in Declarations, Kind(d) = "handler" PROVE [name |-> NewNames[d], type |-> "event"] \in Builtins
  <2>1. ~Renamed(d)
    BY <1>1, <1>2, TypeFacts DEF Renamed
  <2>2. NewNames[d] = Source[d]
    BY <2>1, NewNameFacts, FinishedFacts
  <2> QED BY <1>1, <1>2, <2>2 DEF WellScoped
<1>3. \A u \in Uses : Means(u, NewNames) # {} \/ BuiltinMeaning(u, NewNames) # {}
  BY UseKeeps
<1>4. ASSUME NEW d \in Declarations, NEW e \in Declarations, d # e, ScopeOf(d) = ScopeOf(e)
      PROVE  NewNames[d] # NewNames[e]
  <2>1. Name(d) # Name(e)
    BY <1>1, <1>4, FinishedFacts DEF WellScoped
  <2> QED BY <1>4, <2>1, NewNamesApart
<1>5. ASSUME NEW d \in Declarations, NEW b \in Builtins, NewNames[d] = b.name
      PROVE  Source[d] = b.name
  BY <1>5, NewNamesApart, FinishedFacts
<1> QED BY <1>1, <1>2, <1>3, <1>4, <1>5 DEF WellScoped

\* ObfuscationKeepsMeaning for every script: printed with all the names that
\* setMangledNames made up, a script keeps the rules of names, and every use
\* means the declaration it was resolved to.
THEOREM RenamingKeepsMeaning == Spec => []ObfuscationKeepsMeaning
<1>1. NamesInv => ObfuscationKeepsMeaning
  <2> SUFFICES ASSUME Finished, OneLabelOfName PROVE KeepsMeaning(Everything)
    BY DEF ObfuscationKeepsMeaning, Finished, Everything
  <2> QED BY UseKeeps, NewNamesWellScoped DEF KeepsMeaning, NewNames
<1> QED BY <1>1, NewNamesDiffer, PTL
=============================================================================
