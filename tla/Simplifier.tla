------------------------------ MODULE Simplifier ------------------------------
(***************************************************************************)
(* Reference tracking and tree simplification: recalculateReferenceData,   *)
(* propagateValues and optimize of lslmini.cc, with the visitors of        *)
(* tree_simplifier.cc and values.cc and the counting of ast.cc.            *)
(*                                                                         *)
(* A program is the sequence of its units in the order a depth-first visit *)
(* meets them, so unit u stands for the subtree first..u.  The kinds:      *)
(*   "func", "gvar", "decl"  a function, a global and a local variable;    *)
(*                           each declares the symbol of the same number   *)
(*   "handler"               an event handler                              *)
(*   "get"                   a variable read (LSLLValueExpression)         *)
(*   "set", "call"           an assignment and a call, with side effects   *)
(*   "op", "lit"             any other operator, and a constant expression *)
(* `of` is the symbol a get, set or call names; `list` says the variable   *)
(* has a type whose constants are never put in place of its reads.         *)
(***************************************************************************)
EXTENDS Naturals, Sequences, FiniteSets

CONSTANTS
  Programs,     \* the programs to try
  OptionSets,   \* the sets of optimizations to try, as in OptimizationOptions
  MaxRewrites   \* how many operators a client rebuilds before optimize()

Options == {"fold_constants", "prune_unused_locals", "prune_unused_globals",
            "prune_unused_functions"}

Declaring == {"func", "gvar", "decl"}

\* What the parser, the validator of globals and symbol resolution leave: subtrees
\* nest, constants and reads have no operands, only functions and handlers hold
\* declarations, and only of locals, the initializer of a global has no effects and
\* reads globals above it, a call names a function, and a local is read after its
\* declaration and named only where it is declared.  Functions may be above the
\* globals they name.
WellFormed(p) ==
  LET Below(u) == p[u].first .. u - 1 IN
  /\ p \in Seq([kind : Declaring \cup {"handler", "get", "set", "call", "op", "lit"},
                first : Nat \ {0}, of : Nat, list : BOOLEAN])
  /\ \A u \in DOMAIN p :
       /\ p[u].first <= u
       /\ \A v \in Below(u) : p[u].first <= p[v].first
       /\ p[u].kind \in {"lit", "get"} => p[u].first = u
       /\ p[u].kind \notin {"func", "handler"} =>
            \A v \in Below(u) : p[v].kind \notin Declaring \cup {"handler"}
       /\ p[u].kind \in {"func", "handler"} =>
            \A v \in Below(u) : p[v].kind \notin {"func", "gvar", "handler"}
       /\ p[u].kind = "gvar" =>
            \A v \in Below(u) :
              /\ p[v].kind \notin {"set", "call"}
              /\ p[v].kind = "get" => p[p[v].of].kind = "gvar" /\ p[v].of < v
       /\ p[u].kind \in {"get", "set", "call"} => p[u].of \in DOMAIN p
       /\ p[u].kind \in {"get", "set"} => p[p[u].of].kind \in {"gvar", "decl"}
       /\ p[u].kind = "call" => p[p[u].of].kind = "func"
       /\ p[u].kind = "get" => p[p[u].of].kind = "gvar" \/ p[u].of < u
       /\ p[u].kind \in {"get", "set", "call"} =>
            \A f \in DOMAIN p :
              p[f].kind \in {"func", "handler"} /\ p[u].of \in Below(f) => u \in Below(f)

ASSUME ProgramsAssumption == \A p \in Programs : WellFormed(p)

VARIABLES
  prog,      \* the program as parsed
  opts,      \* mOpts
  live,      \* the units that are in the tree
  folded,    \* the units whose place a constant expression has taken
  refs,      \* LSLSymbol::_mReferences
  asgs,      \* LSLSymbol::_mAssignments
  constant,  \* the units whose getConstantValue is not null
  rewrites,  \* how many operators the client has rebuilt
  phase,     \* the pass that runs next
  at,        \* the next unit the simplifying visitor meets
  level      \* mFoldedLevel > 0

vars == <<prog, opts, live, folded, refs, asgs, constant, rewrites, phase, at, level>>

-----------------------------------------------------------------------------
(* The program. *)

Unit == DOMAIN prog
Kind(u) == prog[u].kind
Subtree(u) == prog[u].first .. u
Inside(u) == Subtree(u) \ {u}
Children(u) == {v \in Inside(u) : \A w \in Inside(u) \ {v} : v \notin Subtree(w)}

Symbol == {u \in Unit : Kind(u) \in Declaring}

\* The symbol the identifier of a unit refers to; 0 when it has none.
Names(u) ==
  CASE Kind(u) \in Declaring -> u
    [] Kind(u) \in {"get", "set", "call"}   -> prog[u].of
    [] OTHER -> 0

Mentions(s, S) == {u \in S : Names(u) = s}
Writes(s, S) == {u \in S : Kind(u) = "set" /\ Names(u) = s}

\* Mutant: no call from within a function is counted.
RecursiveAnyCall(u) ==
  Kind(u) = "call" /\ \E f \in Unit : Kind(f) = "func" /\ u \in Inside(f)

\* A mention that NodeReferenceUpdatingVisitor skips: a function's own name
\* within it.
Recursive(u) ==
  \E f \in Unit : Kind(f) = "func" /\ u \in Inside(f) /\ Names(u) = f

-----------------------------------------------------------------------------
(* recalculateReferenceData and propagateValues. *)

\* Mutant: assignments are not counted.
RecalculateReferences ==
  /\ phase = "recalculate"
  /\ refs' = [s \in Symbol |-> Cardinality({u \in Mentions(s, live) : ~Recursive(u)})]
  /\ asgs' = [s \in Symbol |-> 0]
  /\ phase' = "propagate"
  /\ UNCHANGED <<prog, opts, live, folded, constant, rewrites, at, level>>

Recalculate ==
  /\ phase = "recalculate"
  /\ refs' = [s \in Symbol |-> Cardinality({u \in Mentions(s, live) : ~Recursive(u)})]
  /\ asgs' = [s \in Symbol |-> Cardinality(Writes(s, live))]
  /\ phase' = "propagate"
  /\ UNCHANGED <<prog, opts, live, folded, constant, rewrites, at, level>>

\* Is u in the initializer of a global (_mInGlobalContext)?
InGlobals(u) == \E g \in Unit : Kind(g) = "gvar" /\ u \in Inside(g)

\* ConstantDeterminingVisitor.  A variable has the constant its initializer
\* has, or the default of its type; reading it is constant when it is never
\* assigned or when the read initializes a global, and a list is read as a
\* constant only under an operator that makes something else of it.
ConstantGiven(constantAt, u) ==
  CASE Kind(u) = "lit" \/ u \in folded -> TRUE
    [] Kind(u) \in {"op", "gvar", "decl"} ->
         \A c \in Children(u) \cap live : constantAt[c]
    [] Kind(u) = "get" ->
         /\ asgs[Names(u)] = 0 \/ InGlobals(u)
         /\ prog[Names(u)].list => \E w \in Unit : Kind(w) = "op" /\ u \in Children(w)
         /\ constantAt[Names(u)]
    [] OTHER -> FALSE

\* The visitor meets operands before operators and declarations before reads.
IsConstant ==
  LET constantAt[u \in Unit] == ConstantGiven(constantAt, u) IN constantAt

Propagate ==
  /\ phase = "propagate"
  /\ constant' = {u \in live : IsConstant[u]}
  /\ phase' = "rewrite"
  /\ UNCHANGED <<prog, opts, live, folded, refs, asgs, rewrites, at, level>>

-----------------------------------------------------------------------------
(* Counting while the tree changes: adjustSymbolReferences. *)

\* removeReference and removeAssignment stop at 0.
Minus(n, k) == IF k > n THEN 0 ELSE n - k

\* Mutant: assignments are never taken off.
DecrementReferences(S) ==
  /\ refs' = [s \in Symbol |-> Minus(refs[s], Cardinality(Mentions(s, S)))]
  /\ asgs' = asgs

Decrement(S) ==
  /\ refs' = [s \in Symbol |-> Minus(refs[s], Cardinality(Mentions(s, S)))]
  /\ asgs' = [s \in Symbol |-> Minus(asgs[s], Cardinality(Writes(s, S)))]

\* What is taken out and put back is counted twice, recursive mentions
\* included: takeChild takes the counts off, the constructor's pushChild adds
\* them, and replaceNode adds them again.
TakenAndReplaced(n, k) == Minus(n, k) + 2 * k

\* A client takes the operands of an operator, builds a new one around them,
\* puts it in the old one's place and propagates values anew.
Rebuild(u) ==
  /\ phase = "rewrite" /\ rewrites < MaxRewrites
  /\ u \in live /\ Kind(u) = "op"
  /\ LET taken == Inside(u) \cap live IN
       /\ refs' = [s \in Symbol |-> TakenAndReplaced(refs[s], Cardinality(Mentions(s, taken)))]
       /\ asgs' = [s \in Symbol |-> TakenAndReplaced(asgs[s], Cardinality(Writes(s, taken)))]
  /\ rewrites' = rewrites + 1
  /\ phase' = "propagate"
  /\ UNCHANGED <<prog, opts, live, folded, constant, at, level>>

-----------------------------------------------------------------------------
(* optimize: one pass of TreeSimplifyingVisitor after another. *)

StartPass ==
  /\ phase = "rewrite" \/ (phase = "optimize" /\ at > Len(prog) /\ level)
  /\ phase' = "optimize"
  /\ at' = 1
  /\ level' = FALSE
  /\ UNCHANGED <<prog, opts, live, folded, refs, asgs, constant, rewrites>>

\* Mutant: one pass is enough.
EndAfterAnyPass ==
  /\ phase = "optimize" /\ at > Len(prog)
  /\ phase' = "done"
  /\ UNCHANGED <<prog, opts, live, folded, refs, asgs, constant, rewrites, at, level>>

EndOptimize ==
  /\ phase = "optimize" /\ at > Len(prog) /\ ~level
  /\ phase' = "done"
  /\ UNCHANGED <<prog, opts, live, folded, refs, asgs, constant, rewrites, at, level>>

\* handleGlobal: a function or a global that only its declaration mentions.
UnusedGlobal(u) ==
  /\ \/ Kind(u) = "func" /\ "prune_unused_functions" \in opts
     \/ Kind(u) = "gvar" /\ "prune_unused_globals" \in opts
  /\ refs[u] = 1

\* Mutant: whatever initializes it.
UnusedLocalAnyInitializer(u) ==
  /\ Kind(u) = "decl" /\ "prune_unused_locals" \in opts
  /\ refs[u] = 1 /\ asgs[u] = 0

\* visit(LSLDeclaration): besides, its initializer has no effect.
UnusedLocal(u) ==
  /\ Kind(u) = "decl" /\ "prune_unused_locals" \in opts
  /\ refs[u] = 1 /\ asgs[u] = 0
  /\ Children(u) \cap live \subseteq constant

\* Mutant: a constant expression is folded again.
FoldableAgain(u) ==
  /\ Kind(u) \in {"op", "get"} /\ "fold_constants" \in opts
  /\ u \in constant
  /\ Kind(u) = "get" => ~prog[Names(u)].list

\* visit(LSLExpression) and visit(LSLLValueExpression).
Foldable(u) ==
  /\ Kind(u) \in {"op", "get"} /\ u \notin folded /\ "fold_constants" \in opts
  /\ u \in constant
  /\ Kind(u) = "get" => ~prog[Names(u)].list

\* Mutant: what a constant replaced is taken off again.
PruneTwice(u) ==
  /\ UnusedGlobal(u) \/ UnusedLocal(u)
  /\ Decrement(Subtree(u) \cap live)
  /\ live' = live \ Subtree(u)
  /\ level' = TRUE
  /\ UNCHANGED folded

\* removeChild takes the whole subtree out.
Prune(u) ==
  /\ UnusedGlobal(u) \/ UnusedLocal(u)
  /\ Decrement(Subtree(u) \cap (live \ folded))
  /\ live' = live \ Subtree(u)
  /\ level' = TRUE
  /\ UNCHANGED folded

\* replaceNode puts a new constant expression where u was.
Fold(u) ==
  /\ Foldable(u)
  /\ Decrement(Subtree(u) \cap (live \ folded))
  /\ live' = live \ Inside(u)
  /\ folded' = folded \cup {u}
  /\ level' = TRUE

Keep(u) ==
  /\ ~UnusedGlobal(u) /\ ~UnusedLocal(u) /\ ~Foldable(u)
  /\ UNCHANGED <<live, folded, refs, asgs, level>>

\* The visitor meets the units of the tree children first; what an earlier
\* visit took out is not met.
Visit ==
  /\ phase = "optimize" /\ at <= Len(prog)
  /\ IF at \in live
     THEN Prune(at) \/ Fold(at) \/ Keep(at)
     ELSE UNCHANGED <<live, folded, refs, asgs, level>>
  /\ at' = at + 1
  /\ UNCHANGED <<prog, opts, constant, rewrites, phase>>

-----------------------------------------------------------------------------
Init ==
  /\ prog \in Programs
  /\ opts \in OptionSets
  /\ live = DOMAIN prog
  /\ folded = {}
  /\ refs = [s \in Symbol |-> 0]
  /\ asgs = [s \in Symbol |-> 0]
  /\ constant = {}
  /\ rewrites = 0
  /\ phase = "recalculate"
  /\ at = 1
  /\ level = FALSE

Next ==
  \/ Recalculate
  \/ Propagate
  \/ \E u \in Unit : Rebuild(u)
  \/ StartPass
  \/ Visit
  \/ EndOptimize

Spec == Init /\ [][Next]_vars /\ WF_vars(Next)

-----------------------------------------------------------------------------
(* Correctness. *)

\* What the tree still mentions: a folded unit mentions nothing.
Present == live \ folded
Uses(s) == {u \in Mentions(s, Present) : ~Recursive(u)}

\* The counters never fall under what is in the tree, although a removed
\* function takes off its recursive mentions, which were never added.
CountsCover ==
  phase # "recalculate" =>
    \A s \in Symbol \cap live :
      refs[s] >= Cardinality(Uses(s)) /\ asgs[s] >= Cardinality(Writes(s, Present))

\* Left to itself the optimizer keeps them exact, pass after pass.
CountsExact ==
  phase # "recalculate" /\ rewrites = 0 =>
    \A s \in Symbol \cap live :
      refs[s] = Cardinality(Uses(s)) /\ asgs[s] = Cardinality(Writes(s, Present))

\* Never too low, since what is pruned must be unused, and exact as long as
\* only the optimizer changes the tree.
CountsHold == CountsCover /\ CountsExact

\* Pruning and folding never take away a declaration something in the tree
\* still names.
NothingDangles ==
  \A u \in Present : Names(u) # 0 => Names(u) \in live

\* A read becomes a constant only when nothing can change the variable before
\* it: it is assigned nowhere in the program, or the read initializes a global.
FoldedReadsAreFixed ==
  \A u \in folded : Kind(u) = "get" => Writes(Names(u), Unit) = {} \/ InGlobals(u)

\* A call or an assignment leaves the tree only with a whole function that
\* nothing calls: no side effect of what remains is lost.
EffectsStay ==
  [][\A u \in live \ live' : Kind(u) \in {"call", "set"} =>
       \E f \in live \ live' : Kind(f) = "func" /\ u \in Inside(f)]_vars

\* optimize() returns: a pass that changes something leaves less to change.
Terminates == <>(phase = "done")

\* What the loop is for: when it ends, no enabled optimization applies to
\* anything, however long the chains of declarations that became unused.
NothingLeft ==
  phase = "done" /\ rewrites = 0 =>
    \A u \in Present :
      /\ Kind(u) = "func" /\ "prune_unused_functions" \in opts => Uses(u) # {u}
      /\ Kind(u) = "gvar" /\ "prune_unused_globals" \in opts => Uses(u) # {u}
      /\ Kind(u) = "decl" /\ "prune_unused_locals" \in opts =>
           Uses(u) # {u} \/ ~(Children(u) \cap live \subseteq constant)
      /\ ~Foldable(u)
=============================================================================
