----------------------------- MODULE LsoCodeProofs -----------------------------
(***************************************************************************)
(* Proofs about module LsoCode, for every body: the code that is emitted   *)
(* is well formed, so that jumps go to instructions and nothing is left on *)
(* the stack.                                                              *)
(***************************************************************************)
EXTENDS ExecutionProofs, SequenceTheorems

-----------------------------------------------------------------------------
(* Code. *)

JumpOps == {"jump", "jumpif", "jumpnif"}
Consumers == {"pop", "store", "jumpif", "jumpnif"}
Ops == JumpOps \cup Consumers \cup Visible \cup {"operand"}
Text == Seq([op : Ops, arg : Int])

Producer(cell) == cell.op = "eval" /\ HasValue(cell.arg)

\* A value on the stack that the next instruction is to take.
Awaited(text) == Len(text) > 0 /\ Producer(text[Len(text)])

\* An instruction starts at q, or the text ends there, with an empty stack.
Starts(text, q) ==
  /\ q \in 0 .. Len(text)
  /\ q < Len(text) => text[q + 1].op # "operand"
  /\ q > 0 => ~Producer(text[q])

\* A jump is followed by its operand, which leads to such a place, and values
\* are taken at once by what takes values.
Laid(text) ==
  \A c \in 1 .. Len(text) :
    /\ text[c].op \in JumpOps => c < Len(text) /\ text[c + 1].op = "operand"
    /\ text[c].op = "operand" =>
         c > 1 /\ text[c - 1].op \in JumpOps /\ Starts(text, c + text[c].arg)
    /\ text[c].op \in Consumers <=> c > 1 /\ Producer(text[c - 1])

AtOperand(text, q) == q \in 1 .. Len(text) - 1 /\ text[q + 1].op = "operand"

\* What of a text stays as it grows and is patched.
Kept(s, t) ==
  /\ \A q : Starts(s, q) => Starts(t, q)
  /\ \A q : AtOperand(s, q) => AtOperand(t, q)

LEMMA KeptTransitive ==
  ASSUME NEW s, NEW t, NEW u, Kept(s, t), Kept(t, u)
  PROVE  Kept(s, u)
BY DEF Kept

\* One cell more.
LEMMA Lengthened ==
  ASSUME NEW s \in Text, NEW x \in [op : Ops, arg : Int]
  PROVE  /\ s \o <<x>> \in Text /\ Len(s \o <<x>>) = Len(s) + 1
         /\ \A c \in 1 .. Len(s) : (s \o <<x>>)[c] = s[c]
         /\ (s \o <<x>>)[Len(s) + 1] = x
BY DEF Text

LEMMA AppendedCell ==
  ASSUME NEW s \in Text, Laid(s), NEW op \in Ops \ (JumpOps \cup {"operand"}), NEW arg \in Int,
         op \in Consumers <=> Awaited(s)
  PROVE  LET t == s \o <<Cell(op, arg)>> IN
         /\ t \in Text /\ Laid(t) /\ Kept(s, t) /\ Len(t) = Len(s) + 1
         /\ Awaited(t) <=> (op = "eval" /\ HasValue(arg))
<1> DEFINE x == Cell(op, arg)
           t == s \o <<x>>
<1>1. x \in [op : Ops, arg : Int] /\ x.op = op /\ x.arg = arg
  BY DEF Cell
<1>2. /\ t \in Text /\ Len(t) = Len(s) + 1 /\ t[Len(s) + 1] = x
      /\ \A c \in 1 .. Len(s) : t[c] = s[c]
  BY <1>1, Lengthened
<1>3. Len(s) \in Nat
  BY DEF Text
<1> HIDE DEF x, t
<1>4. Kept(s, t)
  BY <1>1, <1>2, <1>3, SMTT(20) DEF Kept, Starts, AtOperand
<1>5. Awaited(t) <=> (op = "eval" /\ HasValue(arg))
  BY <1>1, <1>2, <1>3 DEF Awaited, Producer
<1>6. ASSUME NEW c \in 1 .. Len(t)
      PROVE  /\ t[c].op \in JumpOps => c < Len(t) /\ t[c + 1].op = "operand"
             /\ t[c].op = "operand" =>
                  c > 1 /\ t[c - 1].op \in JumpOps /\ Starts(t, c + t[c].arg)
             /\ t[c].op \in Consumers <=> (c > 1 /\ Producer(t[c - 1]))
  <2>1. CASE c \in 1 .. Len(s)
    <3>1. t[c] = s[c] /\ (c > 1 => t[c - 1] = s[c - 1] /\ c - 1 \in 1 .. Len(s))
      BY <1>2, <1>3, <2>1
    <3>2. c < Len(s) => t[c + 1] = s[c + 1]
      BY <1>2, <1>3, <2>1
    <3>3. Starts(s, c + s[c].arg) => Starts(t, c + t[c].arg)
      BY <1>4, <3>1 DEF Kept
    <3> QED BY <1>2, <1>3, <2>1, <3>1, <3>2, <3>3 DEF Laid
  <2>2. CASE c = Len(s) + 1
    <3>1. t[c].op = op /\ op \notin JumpOps \cup {"operand"}
      BY <1>1, <1>2, <2>2
    <3>2. c > 1 => t[c - 1] = s[Len(s)]
      BY <1>2, <1>3, <2>2
    <3>3. c > 1 <=> Len(s) > 0
      BY <1>3, <2>2
    <3> QED BY <3>1, <3>2, <3>3 DEF Awaited
  <2> QED BY <1>2, <1>3, <2>1, <2>2
<1>7. Laid(t)
  BY <1>6 DEF Laid
<1> QED BY <1>2, <1>4, <1>5, <1>7 DEF t, x

LEMMA Joined ==
  ASSUME NEW S, NEW s \in Seq(S), NEW t \in Seq(S)
  PROVE  /\ s \o t \in Seq(S) /\ Len(s \o t) = Len(s) + Len(t)
         /\ \A c \in 1 .. Len(s) : (s \o t)[c] = s[c]
         /\ \A c \in 1 .. Len(t) : (s \o t)[Len(s) + c] = t[c]
OBVIOUS

\* A jump more, forward with its operand still to be patched or to where an
\* instruction starts.
LEMMA AppendedJump ==
  ASSUME NEW s \in Text, Laid(s), NEW op \in JumpOps, NEW arg \in Int,
         op \in Consumers <=> Awaited(s), arg = 0 \/ Starts(s, Len(s) + 2 + arg)
  PROVE  LET t == s \o <<Cell(op, 0), Cell("operand", arg)>> IN
         /\ t \in Text /\ Laid(t) /\ Kept(s, t) /\ Len(t) = Len(s) + 2
         /\ ~Awaited(t) /\ AtOperand(t, Len(s) + 1)
<1> DEFINE x == Cell(op, 0)
           y == Cell("operand", arg)
           t == s \o <<x, y>>
<1>1. x \in [op : Ops, arg : Int] /\ x.op = op /\ y \in [op : Ops, arg : Int] /\ y.op = "operand" /\ y.arg = arg
  BY DEF Cell, Ops
<1>2. t \in Text /\ Len(t) = Len(s) + 2 /\ t[Len(s) + 1] = x /\ t[Len(s) + 2] = y
      /\ \A c \in 1 .. Len(s) : t[c] = s[c]
  <2> DEFINE two == <<x, y>>
  <2> HIDE DEF x, y
  <2>1. two \in Text
    BY <1>1 DEF Text
  <2>2. Len(two) = 2 /\ two[1] = x /\ two[2] = y
    OBVIOUS
  <2> HIDE DEF two
  <2>3. /\ s \o two \in Text /\ Len(s \o two) = Len(s) + 2
        /\ \A c \in 1 .. Len(s) : (s \o two)[c] = s[c]
        /\ \A c \in 1 .. 2 : (s \o two)[Len(s) + c] = two[c]
    <3> DEFINE S == [op : Ops, arg : Int]
    <3>1. s \in Seq(S) /\ two \in Seq(S) /\ Text = Seq(S)
      BY <2>1 DEF Text
    <3> HIDE DEF S
    <3>2. /\ s \o two \in Seq(S) /\ Len(s \o two) = Len(s) + Len(two)
          /\ \A c \in 1 .. Len(s) : (s \o two)[c] = s[c]
          /\ \A c \in 1 .. Len(two) : (s \o two)[Len(s) + c] = two[c]
      BY <3>1, Joined
    <3> QED BY <2>2, <3>1, <3>2
  <2> QED BY <2>2, <2>3 DEF two
<1>3. Len(s) \in Nat /\ "operand" \notin JumpOps \cup Consumers /\ op # "operand" /\ op # "eval"
  BY DEF Text, JumpOps, Consumers
<1> HIDE DEF x, y, t
<1>4. Kept(s, t)
  <2>1. t[Len(s) + 1].op # "operand"
    BY <1>1, <1>2, <1>3
  <2>2. ASSUME NEW q, Starts(s, q) PROVE Starts(t, q)
    <3>1. q \in 0 .. Len(s) /\ q \in 0 .. Len(t)
      BY <1>2, <1>3, <2>2 DEF Starts
    <3>2. q > 0 => t[q] = s[q]
      BY <1>2, <1>3, <3>1
    <3>3. q < Len(s) => t[q + 1] = s[q + 1]
      BY <1>2, <1>3, <3>1
    <3>4. q >= Len(s) => q = Len(s)
      BY <1>3, <3>1
    <3> QED BY <1>3, <2>1, <2>2, <3>1, <3>2, <3>3, <3>4 DEF Starts
  <2>3. ASSUME NEW q, AtOperand(s, q) PROVE AtOperand(t, q)
    BY <1>2, <1>3, <2>3 DEF AtOperand
  <2> QED BY <2>2, <2>3 DEF Kept
<1>5. ~Awaited(t)
  BY <1>1, <1>2, <1>3 DEF Awaited, Producer
<1>6. AtOperand(t, Len(s) + 1)
  BY <1>1, <1>2, <1>3 DEF AtOperand
<1>7. Starts(t, Len(s) + 2 + arg)
  <2>1. CASE arg = 0
    BY <1>1, <1>2, <1>3, <2>1 DEF Starts, Producer
  <2>2. CASE Starts(s, Len(s) + 2 + arg)
    BY <1>4, <2>2 DEF Kept
  <2> QED BY <2>1, <2>2
<1>8. ASSUME NEW c \in 1 .. Len(t)
      PROVE  /\ t[c].op \in JumpOps => c < Len(t) /\ t[c + 1].op = "operand"
             /\ t[c].op = "operand" =>
                  c > 1 /\ t[c - 1].op \in JumpOps /\ Starts(t, c + t[c].arg)
             /\ t[c].op \in Consumers <=> (c > 1 /\ Producer(t[c - 1]))
  <2>1. CASE c \in 1 .. Len(s)
    <3>1. t[c] = s[c] /\ (c > 1 => t[c - 1] = s[c - 1] /\ c - 1 \in 1 .. Len(s))
      BY <1>2, <1>3, <2>1
    <3>2. c < Len(s) => t[c + 1] = s[c + 1]
      BY <1>2, <1>3, <2>1
    <3>3. Starts(s, c + s[c].arg) => Starts(t, c + t[c].arg)
      BY <1>4, <3>1 DEF Kept
    <3> QED BY <1>2, <1>3, <2>1, <3>1, <3>2, <3>3 DEF Laid
  <2>2. CASE c = Len(s) + 1
    <3>1. t[c].op = op /\ t[c + 1].op = "operand" /\ c < Len(t) /\ t[c].op # "operand"
      BY <1>1, <1>2, <1>3, <2>2
    <3>2. c > 1 => t[c - 1] = s[Len(s)]
      BY <1>2, <1>3, <2>2
    <3>3. c > 1 <=> Len(s) > 0
      BY <1>3, <2>2
    <3> QED BY <3>1, <3>2, <3>3 DEF Awaited
  <2>3. CASE c = Len(s) + 2
    <3>1. t[c].op = "operand" /\ t[c].arg = arg /\ t[c - 1].op = op /\ c > 1
      BY <1>1, <1>2, <1>3, <2>3
    <3>2. ~Producer(t[c - 1])
      BY <1>3, <3>1 DEF Producer
    <3> QED BY <1>3, <1>7, <2>3, <3>1, <3>2
  <2> QED BY <1>2, <1>3, <2>1, <2>2, <2>3
<1>9. Laid(t)
  BY <1>8 DEF Laid
<1> QED BY <1>2, <1>4, <1>5, <1>6, <1>9 DEF t, x, y

LEMMA BackwardJump ==
  ASSUME NEW s \in Text, Laid(s), NEW op \in JumpOps, op \in Consumers <=> Awaited(s),
         NEW to, Starts(s, to)
  PROVE  LET t == JumpBack(s, op, to) IN
         t \in Text /\ Laid(t) /\ Kept(s, t) /\ Len(t) = Len(s) + 2 /\ ~Awaited(t)
<1> DEFINE arg == Operand(Len(s) + 1, to)
<1>1. arg \in Int /\ Len(s) + 2 + arg = to
  BY DEF Operand, Starts, Text
<1> HIDE DEF arg
<1>2. Starts(s, Len(s) + 2 + arg)
  BY <1>1
<1> QED BY <1>1, <1>2, AppendedJump DEF JumpBack, arg

\* Any of the operands patched, to where instructions start.
LEMMA Repatched ==
  ASSUME NEW s \in Text, Laid(s), NEW t \in Text, Len(t) = Len(s),
         \A c \in 1 .. Len(s) :
           \/ t[c] = s[c]
           \/ s[c].op = "operand" /\ t[c].op = "operand" /\ Starts(s, c + t[c].arg)
  PROVE  Laid(t) /\ Kept(s, t) /\ (Awaited(t) <=> Awaited(s))
<1>1. Len(s) \in Nat
  BY DEF Text
<1>2. \A c \in 1 .. Len(s) : t[c].op = s[c].op /\ (Producer(t[c]) <=> Producer(s[c]))
  BY DEF Producer
<1>3. Kept(s, t)
  BY <1>1, <1>2 DEF Kept, Starts, AtOperand
<1>4. Awaited(t) <=> Awaited(s)
  BY <1>1, <1>2 DEF Awaited
<1>5. ASSUME NEW c \in 1 .. Len(t)
      PROVE  /\ t[c].op \in JumpOps => c < Len(t) /\ t[c + 1].op = "operand"
             /\ t[c].op = "operand" =>
                  c > 1 /\ t[c - 1].op \in JumpOps /\ Starts(t, c + t[c].arg)
             /\ t[c].op \in Consumers <=> (c > 1 /\ Producer(t[c - 1]))
  <2>1. t[c].op = "operand" => Starts(s, c + t[c].arg)
    BY DEF Laid
  <2>2. t[c].op = "operand" => Starts(t, c + t[c].arg)
    BY <1>3, <2>1 DEF Kept
  <2>3. c \in 1 .. Len(s) /\ (c > 1 => c - 1 \in 1 .. Len(s)) /\ (c < Len(s) => c + 1 \in 1 .. Len(s))
    BY <1>1
  <2>4. /\ s[c].op \in JumpOps => c < Len(s) /\ s[c + 1].op = "operand"
        /\ s[c].op = "operand" => c > 1 /\ s[c - 1].op \in JumpOps
        /\ s[c].op \in Consumers <=> (c > 1 /\ Producer(s[c - 1]))
    BY <2>3 DEF Laid
  <2> QED BY <1>2, <2>2, <2>3, <2>4
<1>6. Laid(t)
  BY <1>5 DEF Laid
<1> QED BY <1>3, <1>4, <1>6

LEMMA PatchedOnce ==
  ASSUME NEW s \in Text, Laid(s), NEW p, AtOperand(s, p), NEW to, Starts(s, to)
  PROVE  LET t == Patched(s, p, to) IN
         t \in Text /\ Laid(t) /\ Kept(s, t) /\ Len(t) = Len(s) /\ (Awaited(t) <=> Awaited(s))
<1> DEFINE arg == Operand(p, to)
           x == Cell("operand", arg)
           t == Patched(s, p, to)
<1>1. Len(s) \in Nat /\ p \in 1 .. Len(s) - 1 /\ s[p + 1].op = "operand"
  BY DEF Text, AtOperand
<1>2. arg \in Int /\ p + 1 + arg = to
  BY <1>1 DEF Operand, Starts
<1>3. x \in [op : Ops, arg : Int] /\ x.op = "operand" /\ x.arg = arg
  BY <1>2 DEF Cell, Ops
<1>4. t = [s EXCEPT ![p + 1] = x]
  BY DEF Patched
<1> HIDE DEF arg, x, t
<1>5. t \in Text /\ Len(t) = Len(s) /\ t[p + 1] = x /\ \A c \in 1 .. Len(s) : c # p + 1 => t[c] = s[c]
  <2>1. p + 1 \in 1 .. Len(s)
    BY <1>1
  <2> QED BY <1>3, <1>4, <2>1 DEF Text
<1>6. ASSUME NEW c \in 1 .. Len(s)
      PROVE  \/ t[c] = s[c]
             \/ s[c].op = "operand" /\ t[c].op = "operand" /\ Starts(s, c + t[c].arg)
  BY <1>1, <1>2, <1>3, <1>5
<1>7. Laid(t) /\ Kept(s, t) /\ (Awaited(t) <=> Awaited(s))
  BY <1>5, <1>6, Repatched
<1> QED BY <1>5, <1>7 DEF t

-----------------------------------------------------------------------------
(* Bodies the compiler is given. *)

LEMMA EmittableFacts ==
  ASSUME Ordered, NEW n \in Node
  PROVE  /\ Kind(1) = "block" /\ Kind(n) \in Kinds
         /\ Kind(n) \in {"jump", "state"} => Children(n) = {}
         /\ Kind(n) \in {"jump", "label"} => Name(n) \in Names
         /\ Kind(n) = "decl" => Children(n) # {}
         /\ n # 1 /\ Kind(Up(n)) = "decl" => Kind(n) = "expr" /\ HasValue(n) /\ Children(Up(n)) = {n}
         /\ n # 1 /\ Condition(n) => HasValue(n)
<1> DEFINE place == [if |-> 1, while |-> 1, do |-> 2, for |-> 2]
<1>1. Emittable(body)
  BY EmittableAssumption DEF Ordered
<1>2. /\ Kind(1) = "block" /\ Kind(n) \in Kinds
      /\ Kind(n) \in {"jump", "state"} => Children(n) = {}
      /\ Kind(n) \in {"jump", "label"} => Name(n) \in Names
  BY <1>1 DEF Emittable, Kind, Node, Children, Name
<1>3. ASSUME NEW d \in Node, Kind(d) = "decl" PROVE \E c \in Node : Children(d) = {c}
  BY <1>1, <1>3 DEF Emittable, Kind, Node, Children
<1>4. ASSUME n # 1
      PROVE  /\ Kind(Up(n)) = "decl" => Kind(n) = "expr" /\ Name(n) # "void"
             /\ Kind(Up(n)) \in Loops \cup {"if"} /\ Place(n) = place[Kind(Up(n))] => Name(n) # "void"
  <2>1. n \in 2 .. Len(body)
    BY <1>4, OrderFacts DEF Node
  <2> QED BY <1>1, <2>1, Zenon DEF Emittable, Kind, Up, Name, Place
<1>5. ASSUME n # 1, Kind(Up(n)) = "decl" PROVE Children(Up(n)) = {n}
  <2>1. Up(n) \in Node /\ n \in Children(Up(n))
    BY <1>5, OrderFacts, ChildFacts
  <2> QED BY <1>3, <1>5, <2>1
<1>6. n # 1 /\ Condition(n) => HasValue(n)
  BY <1>4 DEF Condition, HasValue
<1> QED BY <1>2, <1>3, <1>4, <1>5, <1>6 DEF HasValue

\* The places of the parts of a statement.
LEMMA PlacesOfParts ==
  ASSUME Ordered, NEW n \in Node, n # 1
  PROVE  /\ Kind(Up(n)) = "for" => Place(n) \in 1 .. 4
         /\ Kind(Up(n)) \in {"while", "do"} => Place(n) \in 1 .. 2
         /\ Kind(Up(n)) = "if" => Place(n) \in 1 .. (IF TwoWay(Up(n)) THEN 3 ELSE 2)
<1> DEFINE p == Up(n)
           parts == [if |-> {2, 3}, while |-> {2}, do |-> {2}, for |-> {4}, return |-> {0}]
<1>1. p \in Node /\ n \in Children(p)
  BY OrderFacts, ChildFacts
<1>2. Shaped(body)
  BY BodiesAssumption DEF Ordered
<1>3. ASSUME Kind(p) \in {"if", "while", "do", "for"}
      PROVE  \E k \in parts[Kind(p)] : Cardinality(Children(p)) = k /\ Place(n) \in 1 .. k
  <2>1. PICK k \in parts[Kind(p)] : /\ Cardinality(Children(p)) = k
                                    /\ {Place(c) : c \in Children(p)} = 1 .. k
    BY <1>1, <1>2, <1>3, Zenon DEF Shaped, Kind, Node, Children, Place, Loops
  <2> QED BY <1>1, <2>1
<1> HIDE DEF p
<1>4. Kind(p) = "for" => Place(n) \in 1 .. 4
  BY <1>3
<1>5. Kind(p) \in {"while", "do"} => Place(n) \in 1 .. 2
  BY <1>3
<1>6. Kind(p) = "if" => Place(n) \in 1 .. (IF TwoWay(p) THEN 3 ELSE 2)
  BY <1>3 DEF TwoWay
<1> QED BY <1>4, <1>5, <1>6 DEF p

-----------------------------------------------------------------------------
(* The order in which code is emitted. *)

LEMMA NextToEmitFacts ==
  ASSUME Ordered, NEW n \in Node, n # 1
  PROVE  \/ /\ NextToEmit(n) = Out(Up(n))
            /\ Kind(Up(n)) = "for" => Place(n) = 3
            /\ Kind(Up(n)) # "for" => \A c \in Children(Up(n)) : ~ (c > n)
         \/ \E s \in Children(Up(n)) :
              /\ NextToEmit(n) = In(s)
              /\ Kind(Up(n)) = "for" => \/ Place(n) = 1 /\ Place(s) = 2
                                        \/ Place(n) = 2 /\ Place(s) = 4
                                        \/ Place(n) = 4 /\ Place(s) = 3
              /\ Kind(Up(n)) # "for" => s = Follower(n) /\ s > n /\ Place(s) = Place(n) + 1
<1> DEFINE p == Up(n)
<1>1. p \in Node /\ n \in Children(p)
  BY OrderFacts, ChildFacts
<1>2. CASE Kind(p) = "for"
  <2>1. ASSUME NEW i \in {1, 2, 3, 4}
        PROVE  Child(p, i) \in Children(p) /\ Place(Child(p, i)) = i
    <3>1. i \in {1, 2} \/ i \in {3, 4}
      BY <2>1
    <3> QED BY <1>1, <1>2, <3>1, PartsOfStatement DEF Loops
  <2>2. Place(n) \in {1, 2, 3, 4}
    BY <1>2, PlacesOfParts
  <2>3. CASE Place(n) = 1
    <3>1. NextToEmit(n) = In(Child(p, 2))
      BY <1>2, <2>3 DEF NextToEmit
    <3> QED BY <1>2, <2>1, <2>3, <3>1
  <2>4. CASE Place(n) = 2
    <3>1. NextToEmit(n) = In(Child(p, 4))
      BY <1>2, <2>4 DEF NextToEmit
    <3> QED BY <1>2, <2>1, <2>4, <3>1
  <2>5. CASE Place(n) = 3
    <3>1. NextToEmit(n) = Out(p)
      BY <1>2, <2>5 DEF NextToEmit
    <3> QED BY <1>2, <2>5, <3>1
  <2>6. CASE Place(n) = 4
    <3>1. NextToEmit(n) = In(Child(p, 3))
      BY <1>2, <2>6 DEF NextToEmit
    <3> QED BY <1>2, <2>1, <2>6, <3>1
  <2> QED BY <2>2, <2>3, <2>4, <2>5, <2>6
<1>3. CASE Kind(p) # "for"
  <2>1. NextToEmit(n) = Onward(n)
    BY <1>3 DEF NextToEmit
  <2>2. CASE \E c \in Children(p) : c > n
    <3>1. /\ Follower(n) \in Children(p) /\ Follower(n) > n /\ Place(Follower(n)) = Place(n) + 1
          /\ Follower(n) \in Node
      BY <1>1, <2>2, NextSibling, ChildFacts
    <3>2. Onward(n) = In(Follower(n))
      BY <3>1, OrderFacts DEF Onward, Node
    <3> QED BY <1>3, <2>1, <3>1, <3>2
  <2>3. CASE \A c \in Children(p) : ~ (c > n)
    <3>1. Onward(n) = Out(p)
      BY <2>3 DEF Onward, Follower
    <3> QED BY <1>3, <2>1, <2>3, <3>1
  <2> QED BY <2>2, <2>3
<1> QED BY <1>2, <1>3

\* The parts in front of which the code is that jumps over them.
WithHole(k) ==
  \/ Kind(Up(k)) \in {"if", "while"} /\ Place(k) # 1
  \/ Kind(Up(k)) = "for" /\ Place(k) \in {3, 4}

\* At q there is a value to be taken.
Pending(q) == q[2] = "out" /\ (Kind(q[1]) = "decl" \/ (Kind(q[1]) = "expr" /\ HasValue(q[1])))

\* The holes of what the visitor is inside of at q are there to be patched.
HolesOpen(q, text, holes, pastElses) ==
  \A k \in Node : k # 1 /\ q[1] \in Below(k) =>
    /\ WithHole(k) => AtOperand(text, holes[Up(k)])
    /\ IsBranch(k, 3) => AtOperand(text, pastElses[Up(k)])

\* What is emitted when the visitor is at q, and what the compiler remembers.
Emitted(q, text, tops, holes, pastElses, jumps, labelsAt) ==
  /\ q \in Position /\ text \in Text /\ Laid(text)
  /\ Awaited(text) <=> Pending(q)
  /\ \A n \in Node : Starts(text, tops[n])
  /\ \A l \in Names : Starts(text, labelsAt[l]) /\ (jumps[l] # 0 => AtOperand(text, jumps[l]))
  /\ DOMAIN tops = Node /\ DOMAIN holes = Node /\ DOMAIN pastElses = Node
  /\ DOMAIN jumps = Names /\ DOMAIN labelsAt = Names
  /\ HolesOpen(q, text, holes, pastElses)

Emission == Emitted(emitAt, code, top, hole, pastElse, jumpMap, labelMap)

\* From a node to its child, to a sibling or out to its parent, the holes around
\* stay.
LEMMA StillInside ==
  ASSUME Ordered, NEW n \in Node, NEW s \in Node,
         \/ s = n
         \/ n # 1 /\ s = Up(n)
         \/ s # 1 /\ Up(s) = n
         \/ n # 1 /\ s # 1 /\ Up(s) = Up(n),
         NEW k \in Node, s \in Below(k), s # k \/ s = n \/ (n # 1 /\ s = Up(n))
  PROVE  n \in Below(k)
<1>1. CASE s = n
  BY <1>1
<1>2. CASE n # 1 /\ s = Up(n)
  <2>1. n \in Children(s)
    BY <1>2, ChildFacts
  <2> QED BY <2>1, ChildBelow, BelowTransitive
<1>3. CASE s # 1 /\ s # k /\ Up(s) = n
  BY <1>3, UpBelow
<1>4. CASE n # 1 /\ s # 1 /\ s # k /\ Up(s) = Up(n)
  <2>1. Up(n) \in Below(k) /\ Up(n) \in Node
    BY <1>4, UpBelow, OrderFacts
  <2>2. n \in Children(Up(n))
    BY <1>4, ChildFacts, OrderFacts
  <2> QED BY <2>1, <2>2, ChildBelow, BelowTransitive
<1>5. CASE s = k /\ s # n /\ ~ (n # 1 /\ s = Up(n))
  BY <1>5
<1> QED BY <1>1, <1>2, <1>3, <1>4, <1>5

\* What opening a node appends.
LEMMA OpeningText ==
  ASSUME Ordered, NEW n \in Node, code \in Text, Laid(code), ~Awaited(code)
  PROVE  LET t == code \o Opening(n) IN
         /\ t \in Text /\ Laid(t) /\ Kept(code, t)
         /\ Awaited(t) <=> (Kind(n) = "expr" /\ HasValue(n))
         /\ Kind(n) = "jump" => AtOperand(t, Len(code) + 1)
<1>0. n \in Int
  BY OrderFacts
<1>1. CASE Kind(n) = "expr"
  <2>1. Opening(n) = <<Cell("eval", n)>>
    BY <1>1 DEF Opening
  <2>2. "eval" \in Ops \ (JumpOps \cup {"operand"}) /\ "eval" \notin Consumers
    BY DEF Ops, JumpOps, Consumers, Visible
  <2> QED BY <1>0, <1>1, <2>1, <2>2, AppendedCell
<1>2. CASE Kind(n) = "jump"
  <2>1. Opening(n) = <<Cell("jump", 0), Cell("operand", 0)>>
    BY <1>2 DEF Opening, Hole
  <2>2. "jump" \in JumpOps /\ "jump" \notin Consumers
    BY DEF JumpOps, Consumers
  <2> QED BY <1>2, <2>1, <2>2, AppendedJump
<1>3. CASE Kind(n) \in {"return", "state"}
  <2>1. Opening(n) = <<Cell(Kind(n), n)>>
    BY <1>3 DEF Opening
  <2>2. Kind(n) \in Ops \ (JumpOps \cup {"operand"}) /\ Kind(n) \notin Consumers
    BY <1>3 DEF Ops, JumpOps, Consumers, Visible
  <2> QED BY <1>0, <1>3, <2>1, <2>2, AppendedCell
<1>4. CASE Kind(n) \notin {"expr", "jump", "return", "state"}
  <2>1. Opening(n) = <<>>
    BY <1>4 DEF Opening
  <2>2. code \o <<>> = code
    BY DEF Text
  <2>3. Kept(code, code)
    BY DEF Kept
  <2> QED BY <1>4, <2>1, <2>2, <2>3
<1> QED BY <1>1, <1>2, <1>3, <1>4

\* What is emitted behind a node that is not a condition.
LEMMA WithText ==
  ASSUME Ordered, NEW n \in Node, n # 1, ~Condition(n), code \in Text, Laid(code),
         Awaited(code) <=> Pending(Out(n))
  PROVE  LET t == With(n) IN
         /\ t \in Text /\ Laid(t) /\ Kept(code, t)
         /\ Awaited(t) <=> Kind(Up(n)) = "decl"
<1>0. n \in Int
  BY OrderFacts
<1>1. Awaited(code) <=> (Kind(n) = "decl" \/ (Kind(n) = "expr" /\ HasValue(n)))
  BY DEF Pending, Out
<1>2. Kind(Up(n)) = "decl" => Kind(n) = "expr" /\ HasValue(n)
  BY EmittableFacts
<1>3. CASE Discarded(n)
  <2>1. With(n) = code \o <<Cell("pop", 0)>> /\ Kind(Up(n)) # "decl" /\ Kind(n) = "expr" /\ HasValue(n)
    BY <1>3 DEF With, Discarded
  <2>2. "pop" \in Ops \ (JumpOps \cup {"operand"}) /\ "pop" \in Consumers /\ "pop" # "eval"
    BY DEF Ops, JumpOps, Consumers
  <2> QED BY <1>1, <2>1, <2>2, AppendedCell
<1>4. CASE ~Discarded(n) /\ Kind(n) = "decl"
  <2>1. With(n) = code \o <<Cell("store", n)>>
    BY <1>4 DEF With
  <2>2. "store" \in Ops \ (JumpOps \cup {"operand"}) /\ "store" \in Consumers /\ "store" # "eval"
    BY DEF Ops, JumpOps, Consumers
  <2> QED BY <1>0, <1>1, <1>2, <1>4, <2>1, <2>2, AppendedCell
<1>5. CASE ~Discarded(n) /\ Kind(n) # "decl"
  <2>1. With(n) = code
    <3>1. With(n) = code \o <<>>
      BY <1>5 DEF With
    <3> QED BY <3>1 DEF Text
  <2>2. Kept(code, code)
    BY DEF Kept
  <2>3. Awaited(code) <=> Kind(Up(n)) = "decl"
    BY <1>1, <1>2, <1>5 DEF Discarded
  <2> QED BY <2>1, <2>2, <2>3
<1> QED BY <1>3, <1>4, <1>5

\* What closing a node emits, and that the holes it needs are there.
LEMMA ClosingText ==
  ASSUME Ordered, Emission, NEW n \in Node, Close(n)
  PROVE  /\ code' \in Text /\ Laid(code') /\ Kept(code, code')
         /\ Awaited(code') <=> Kind(Up(n)) = "decl"
         /\ DOMAIN hole' = Node /\ DOMAIN pastElse' = Node
         /\ \A p \in Node : AtOperand(code, hole[p]) => AtOperand(code', hole'[p])
         /\ \A p \in Node : AtOperand(code, pastElse[p]) => AtOperand(code', pastElse'[p])
         /\ Condition(n) /\ Kind(Up(n)) # "do" => AtOperand(code', hole'[Up(n)])
         /\ IsBranch(n, 2) => AtOperand(code', pastElse'[Up(n)])
<1> DEFINE p == Up(n)
<1>1. n # 1 /\ emitAt = Out(n) /\ p \in Node
  BY OrderFacts DEF Close
<1>2. /\ code \in Text /\ Laid(code) /\ (Awaited(code) <=> Pending(Out(n)))
      /\ DOMAIN hole = Node /\ DOMAIN pastElse = Node /\ Starts(code, top[p])
      /\ HolesOpen(Out(n), code, hole, pastElse)
  BY <1>1 DEF Emission, Emitted
<1>3. /\ WithHole(n) => AtOperand(code, hole[p])
      /\ IsBranch(n, 3) => AtOperand(code, pastElse[p])
  <2>1. n \in Below(n) /\ Out(n)[1] = n
    BY SelfBelow DEF Out
  <2> QED BY <1>1, <1>2, <2>1 DEF HolesOpen
<1>4. /\ Condition(n) => /\ Kind(p) \in {"if", "while", "do", "for"} /\ Kind(n) = "expr" /\ HasValue(n)
                         /\ Awaited(code)
      /\ Kind(p) = "decl" => ~Condition(n)
  BY <1>1, <1>2, ConditionFacts, EmittableFacts DEF Condition, Loops, Pending, Out
<1>5. ~Condition(n) => /\ With(n) \in Text /\ Laid(With(n)) /\ Kept(code, With(n))
                       /\ Awaited(With(n)) <=> Kind(p) = "decl"
  BY <1>1, <1>2, WithText
<1>6. {"jumpif", "jumpnif"} \subseteq JumpOps \cap Consumers /\ "jump" \in JumpOps /\ "jump" \notin Consumers
  BY DEF JumpOps, Consumers
<1>7. TwoWay(p) => Kind(p) = "if"
  BY DEF TwoWay
<1>8. Kind(p) = "if" /\ Place(n) # 1 => ~Condition(n)
  BY DEF Condition
<1>9. Len(code) \in Nat
  BY <1>2 DEF Text
<1> HIDE DEF p
<1>10. CASE CloseCondition(n)
  <2>1. code' = code \o <<Cell("jumpnif", 0), Cell("operand", 0)>> /\ Condition(n) /\ Kind(p) # "do"
    BY <1>10 DEF CloseCondition, Hole, p
  <2>2. hole' = [hole EXCEPT ![p] = Len(code) + 1] /\ pastElse' = pastElse
    BY <1>10 DEF CloseCondition, p
  <2>3. /\ code' \in Text /\ Laid(code') /\ Kept(code, code') /\ ~Awaited(code')
        /\ AtOperand(code', Len(code) + 1)
    BY <1>2, <1>4, <1>6, <2>1, AppendedJump
  <2>4. ~IsBranch(n, 2)
    BY <1>1, <1>7, <1>8, <2>1 DEF IsBranch, p
  <2> QED BY <1>1, <1>2, <1>4, <2>1, <2>2, <2>3, <2>4 DEF Kept, p
<1>11. CASE CloseDoCondition(n)
  <2>1. /\ code' = JumpBack(code, "jumpif", top[p]) /\ Condition(n) /\ Kind(p) = "do"
        /\ hole' = hole /\ pastElse' = pastElse
    BY <1>11 DEF CloseDoCondition, p
  <2>2. code' \in Text /\ Laid(code') /\ Kept(code, code') /\ ~Awaited(code')
    BY <1>2, <1>4, <1>6, <2>1, BackwardJump
  <2>3. ~IsBranch(n, 2)
    BY <1>7, <2>1 DEF IsBranch, p
  <2> QED BY <1>2, <1>4, <2>1, <2>2, <2>3 DEF Kept, p
<1>12. CASE CloseTrueBranch(n)
  <2> DEFINE s == With(n)
             t == s \o <<Cell("jump", 0), Cell("operand", 0)>>
  <2>1. IsBranch(n, 2) /\ Place(n) = 2 /\ Kind(p) = "if"
    BY <1>7, <1>12 DEF CloseTrueBranch, IsBranch, p
  <2>2. /\ code' = Patched(t, hole[p], Len(t)) /\ hole' = hole
        /\ pastElse' = [pastElse EXCEPT ![p] = Len(t) - 1]
    BY <1>12 DEF CloseTrueBranch, Hole, p
  <2>3. ~Condition(n) /\ Kind(p) # "decl" /\ AtOperand(code, hole[p])
    BY <1>3, <1>8, <2>1 DEF WithHole, p
  <2>4. s \in Text /\ Laid(s) /\ Kept(code, s) /\ ~Awaited(s)
    BY <1>5, <2>3
  <2> HIDE DEF s
  <2>5. /\ t \in Text /\ Laid(t) /\ Kept(s, t) /\ ~Awaited(t) /\ AtOperand(t, Len(s) + 1)
        /\ Len(t) = Len(s) + 2
    BY <1>6, <2>4, AppendedJump
  <2>6. Len(s) \in Nat
    BY <2>4 DEF Text
  <2> HIDE DEF t
  <2>7. Starts(t, Len(t)) /\ AtOperand(t, hole[p]) /\ Kept(code, t)
    BY <2>3, <2>4, <2>5, <2>6, KeptTransitive DEF Starts, Awaited, Kept
  <2>8. code' \in Text /\ Laid(code') /\ Kept(t, code') /\ ~Awaited(code')
    BY <2>2, <2>5, <2>7, PatchedOnce
  <2>9. Kept(code, code') /\ AtOperand(code', Len(t) - 1)
    <3>1. Len(t) - 1 = Len(s) + 1
      BY <2>5, <2>6
    <3> QED BY <2>5, <2>7, <2>8, <3>1, KeptTransitive DEF Kept
  <2> QED BY <1>1, <1>2, <2>2, <2>3, <2>8, <2>9 DEF Kept, p
<1>13. CASE CloseFalseBranch(n)
  <2> DEFINE t == With(n)
  <2>1. IsBranch(n, 3) /\ Place(n) = 3 /\ Kind(p) = "if"
    BY <1>7, <1>13 DEF CloseFalseBranch, IsBranch, p
  <2>2. code' = Patched(t, pastElse[p], Len(t)) /\ hole' = hole /\ pastElse' = pastElse
    BY <1>13 DEF CloseFalseBranch, p
  <2>3. ~Condition(n) /\ Kind(p) # "decl" /\ AtOperand(code, pastElse[p]) /\ ~IsBranch(n, 2)
    BY <1>3, <1>8, <2>1 DEF IsBranch
  <2>4. t \in Text /\ Laid(t) /\ Kept(code, t) /\ ~Awaited(t)
    BY <1>5, <2>3
  <2> HIDE DEF t
  <2>5. Starts(t, Len(t)) /\ AtOperand(t, pastElse[p])
    BY <2>3, <2>4 DEF Starts, Awaited, Kept, Text
  <2>6. code' \in Text /\ Laid(code') /\ Kept(t, code') /\ ~Awaited(code')
    BY <2>2, <2>4, <2>5, PatchedOnce
  <2>7. Kept(code, code')
    BY <2>4, <2>6, KeptTransitive
  <2> QED BY <1>1, <1>2, <2>2, <2>3, <2>6, <2>7 DEF Kept, p
<1>14. CASE CloseOnlyBranch(n)
  <2> DEFINE t == With(n)
  <2>1. Place(n) = 2 /\ Kind(p) = "if" /\ ~TwoWay(p)
    BY <1>14 DEF CloseOnlyBranch, p
  <2>2. code' = Patched(t, hole[p], Len(t)) /\ hole' = hole /\ pastElse' = pastElse
    BY <1>14 DEF CloseOnlyBranch, p
  <2>3. ~Condition(n) /\ Kind(p) # "decl" /\ AtOperand(code, hole[p]) /\ ~IsBranch(n, 2)
    BY <1>3, <1>8, <2>1 DEF IsBranch, WithHole, p
  <2>4. t \in Text /\ Laid(t) /\ Kept(code, t) /\ ~Awaited(t)
    BY <1>5, <2>3
  <2> HIDE DEF t
  <2>5. Starts(t, Len(t)) /\ AtOperand(t, hole[p])
    BY <2>3, <2>4 DEF Starts, Awaited, Kept, Text
  <2>6. code' \in Text /\ Laid(code') /\ Kept(t, code') /\ ~Awaited(code')
    BY <2>2, <2>4, <2>5, PatchedOnce
  <2>7. Kept(code, code')
    BY <2>4, <2>6, KeptTransitive
  <2> QED BY <1>1, <1>2, <2>2, <2>3, <2>6, <2>7 DEF Kept, p
<1>15. CASE CloseLoop(n)
  <2> DEFINE s == With(n)
             t == JumpBack(s, "jump", top[p])
  <2>1. (Kind(p) = "while" /\ Place(n) = 2) \/ (Kind(p) = "for" /\ Place(n) = 3)
    BY <1>15 DEF CloseLoop, LastOfLoop, p
  <2>2. code' = Patched(t, hole[p], Len(t)) /\ hole' = hole /\ pastElse' = pastElse
    BY <1>15 DEF CloseLoop, p
  <2>3. ~Condition(n) /\ Kind(p) # "decl" /\ AtOperand(code, hole[p]) /\ ~IsBranch(n, 2)
    <3>1. ~Condition(n)
      BY <2>1 DEF Condition, p
    <3>2. WithHole(n)
      BY <2>1 DEF WithHole, p
    <3> QED BY <1>3, <1>7, <2>1, <3>1, <3>2 DEF IsBranch, p
  <2>4. s \in Text /\ Laid(s) /\ Kept(code, s) /\ ~Awaited(s)
    BY <1>5, <2>3
  <2> HIDE DEF s
  <2>5. Starts(s, top[p])
    BY <1>2, <2>4 DEF Kept, p
  <2>6. t \in Text /\ Laid(t) /\ Kept(s, t) /\ ~Awaited(t)
    BY <1>6, <2>4, <2>5, BackwardJump
  <2> HIDE DEF t
  <2>7. Starts(t, Len(t)) /\ AtOperand(t, hole[p]) /\ Kept(code, t)
    BY <2>3, <2>4, <2>6, KeptTransitive DEF Starts, Awaited, Kept, Text
  <2>8. code' \in Text /\ Laid(code') /\ Kept(t, code') /\ ~Awaited(code')
    BY <2>2, <2>6, <2>7, PatchedOnce
  <2>9. Kept(code, code')
    BY <2>7, <2>8, KeptTransitive
  <2> QED BY <1>1, <1>2, <2>2, <2>3, <2>8, <2>9 DEF Kept, p
<1>16. CASE CloseOther(n)
  <2>1. code' = With(n) /\ ~Condition(n) /\ hole' = hole /\ pastElse' = pastElse
    BY <1>16 DEF CloseOther
  <2>2. ~IsBranch(n, 2)
    BY <1>7, <1>16 DEF CloseOther, IsBranch, p
  <2> QED BY <1>2, <1>5, <2>1, <2>2 DEF Kept, p
<1> QED BY <1>10, <1>11, <1>12, <1>13, <1>14, <1>15, <1>16 DEF Close

LEMMA FirstPlace ==
  ASSUME Ordered, NEW n \in Node, Children(n) # {}
  PROVE  Place(n + 1) = 1
<1>1. n + 1 \in Children(n)
  BY FirstChild
<1>2. \A d \in Children(n) : d >= n + 1
  BY ChildFacts, OrderFacts
<1>3. {d \in Children(n) : d <= n + 1} = {n + 1}
  BY <1>1, <1>2, ChildFacts, OrderFacts
<1>4. Place(n + 1) = Cardinality({d \in Children(n) : d <= n + 1})
  BY <1>1, PlaceFacts
<1> QED BY <1>3, <1>4, FS_Singleton

\* The holes stay open on the way to a node that is met inside the same ones.
LEMMA HolesStay ==
  ASSUME Ordered, NEW n \in Node, NEW q, NEW s \in Node, q[1] = n,
         \/ s = n
         \/ n # 1 /\ s = Up(n)
         \/ s # 1 /\ Up(s) = n
         \/ n # 1 /\ s # 1 /\ Up(s) = Up(n),
         NEW text, NEW holes, NEW pastElses, HolesOpen(q, text, holes, pastElses),
         NEW to, to[1] = s, NEW textAfter, NEW holesAfter, NEW pastElsesAfter,
         \A p \in Node : AtOperand(text, holes[p]) => AtOperand(textAfter, holesAfter[p]),
         \A p \in Node : AtOperand(text, pastElses[p]) => AtOperand(textAfter, pastElsesAfter[p]),
         \/ s = n
         \/ n # 1 /\ s = Up(n)
         \/ /\ WithHole(s) => AtOperand(textAfter, holesAfter[Up(s)])
            /\ IsBranch(s, 3) => AtOperand(textAfter, pastElsesAfter[Up(s)])
  PROVE  HolesOpen(to, textAfter, holesAfter, pastElsesAfter)
<1> SUFFICES ASSUME NEW k \in Node, k # 1, s \in Below(k)
             PROVE  /\ WithHole(k) => AtOperand(textAfter, holesAfter[Up(k)])
                    /\ IsBranch(k, 3) => AtOperand(textAfter, pastElsesAfter[Up(k)])
  BY DEF HolesOpen
<1>1. CASE s # k \/ s = n \/ (n # 1 /\ s = Up(n))
  <2>1. n \in Below(k)
    BY <1>1, StillInside
  <2>2. Up(k) \in Node
    BY OrderFacts
  <2> QED BY <2>1, <2>2 DEF HolesOpen
<1>2. CASE s = k /\ s # n /\ ~ (n # 1 /\ s = Up(n))
  BY <1>2
<1> QED BY <1>1, <1>2

LEMMA OpenEmits ==
  ASSUME Ordered, Emission, NEW n \in Node, Open(n)
  PROVE  Emitted(emitAt', code', top', hole', pastElse', jumpMap', labelMap')
<1>1. /\ emitAt = In(n) /\ code' = code \o Opening(n) /\ emitAt' = Descend(n)
      /\ hole' = hole /\ pastElse' = pastElse
  BY DEF Open
<1>2. /\ code \in Text /\ Laid(code) /\ DOMAIN hole = Node /\ DOMAIN pastElse = Node
      /\ DOMAIN top = Node /\ DOMAIN jumpMap = Names /\ DOMAIN labelMap = Names
      /\ HolesOpen(In(n), code, hole, pastElse) /\ ~Awaited(code)
      /\ \A m \in Node : Starts(code, top[m])
      /\ \A l \in Names : Starts(code, labelMap[l]) /\ (jumpMap[l] # 0 => AtOperand(code, jumpMap[l]))
  BY <1>1 DEF Emission, Emitted, Pending, In
<1>3. /\ code' \in Text /\ Laid(code') /\ Kept(code, code')
      /\ Awaited(code') <=> (Kind(n) = "expr" /\ HasValue(n))
      /\ Kind(n) = "jump" => AtOperand(code', Len(code) + 1)
  BY <1>1, <1>2, OpeningText
<1>4. Starts(code', Len(code))
  <2>1. code \in Text /\ ~Awaited(code)
    BY <1>2
  <2>2. Starts(code, Len(code))
    BY <2>1 DEF Starts, Awaited, Text
  <2> QED BY <1>3, <2>2 DEF Kept
<1>5. DOMAIN top' = Node /\ \A m \in Node : Starts(code', top'[m])
  <2>1. PICK x : top' = [top EXCEPT ![x] = Len(code)] \/ top' = top
    BY DEF Open
  <2>2. ASSUME NEW m \in Node PROVE top'[m] = top[m] \/ top'[m] = Len(code)
    BY <1>2, <2>1
  <2> QED BY <1>2, <1>3, <1>4, <2>1, <2>2 DEF Kept
<1>6. DOMAIN labelMap' = Names /\ \A l \in Names : Starts(code', labelMap'[l])
  <2>1. PICK x : labelMap' = [labelMap EXCEPT ![x] = Len(code)] \/ labelMap' = labelMap
    BY DEF Open
  <2>2. ASSUME NEW l \in Names PROVE labelMap'[l] = labelMap[l] \/ labelMap'[l] = Len(code)
    BY <1>2, <2>1
  <2> QED BY <1>2, <1>3, <1>4, <2>1, <2>2 DEF Kept
<1>7. DOMAIN jumpMap' = Names /\ \A l \in Names : jumpMap'[l] # 0 => AtOperand(code', jumpMap'[l])
  <2>1. CASE Kind(n) = "jump"
    <3>1. jumpMap' = [jumpMap EXCEPT ![Name(n)] = Len(code) + 1]
      BY <2>1 DEF Open
    <3>2. ASSUME NEW l \in Names PROVE jumpMap'[l] = jumpMap[l] \/ jumpMap'[l] = Len(code) + 1
      BY <1>2, <3>1
    <3> QED BY <1>2, <1>3, <2>1, <3>1, <3>2 DEF Kept
  <2>2. CASE Kind(n) # "jump"
    <3>1. jumpMap' = jumpMap
      BY <2>2 DEF Open
    <3> QED BY <1>2, <1>3, <3>1 DEF Kept
  <2> QED BY <2>1, <2>2
<1>8. /\ emitAt' \in Position
      /\ Awaited(code') <=> Pending(emitAt')
      /\ HolesOpen(emitAt', code', hole', pastElse')
  <2>1. \A p \in Node : /\ AtOperand(code, hole[p]) => AtOperand(code', hole'[p])
                        /\ AtOperand(code, pastElse[p]) => AtOperand(code', pastElse'[p])
    BY <1>1, <1>3 DEF Kept
  <2>2. CASE Children(n) # {}
    <3>1. PICK c \in Children(n) : emitAt' = In(c) /\ Place(c) = 1
      <4>1. n + 1 \in Children(n) /\ Child(n, 1) = n + 1
        BY <2>2, FirstChild
      <4>2. Place(n + 1) = 1
        BY <4>1, FirstPlace
      <4> QED BY <1>1, <2>2, <4>1, <4>2 DEF Descend
    <3>2. c \in Node /\ c # 1 /\ Up(c) = n
      BY ChildFacts
    <3>3. Kind(n) # "expr"
      BY <2>2, PlainFacts
    <3>4. ~WithHole(c) /\ ~IsBranch(c, 3)
      BY <3>1 DEF WithHole, IsBranch
    <3>5. HolesOpen(emitAt', code', hole', pastElse')
      <4>1. In(n)[1] = n /\ emitAt'[1] = c
        BY <3>1 DEF In
      <4> QED BY <1>2, <2>1, <3>2, <3>4, <4>1, HolesStay
    <3> QED BY <1>3, <3>1, <3>2, <3>3, <3>5 DEF Pending, Position, In
  <2>3. CASE Children(n) = {}
    <3>1. emitAt' = Out(n)
      BY <1>1, <2>3 DEF Descend
    <3>2. Kind(n) # "decl"
      BY <2>3, EmittableFacts
    <3>3. HolesOpen(emitAt', code', hole', pastElse')
      <4>1. In(n)[1] = n /\ emitAt'[1] = n
        BY <3>1 DEF In, Out
      <4> QED BY <1>2, <2>1, <4>1, HolesStay
    <3> QED BY <1>3, <3>1, <3>2, <3>3 DEF Pending, Position, Out
  <2> QED BY <2>2, <2>3
<1> QED BY <1>1, <1>2, <1>3, <1>5, <1>6, <1>7, <1>8 DEF Emitted


LEMMA CloseEmits ==
  ASSUME Ordered, Emission, NEW n \in Node, Close(n)
  PROVE  Emitted(emitAt', code', top', hole', pastElse', jumpMap', labelMap')
<1> DEFINE p == Up(n)
<1>1. /\ n # 1 /\ emitAt = Out(n) /\ emitAt' = NextToEmit(n)
      /\ top' = top /\ jumpMap' = jumpMap /\ labelMap' = labelMap
  BY DEF Close
<1>2. p \in Node /\ n \in Children(p)
  BY <1>1, OrderFacts, ChildFacts
<1>3. /\ HolesOpen(Out(n), code, hole, pastElse)
      /\ DOMAIN top = Node /\ DOMAIN jumpMap = Names /\ DOMAIN labelMap = Names
      /\ \A m \in Node : Starts(code, top[m])
      /\ \A l \in Names : Starts(code, labelMap[l]) /\ (jumpMap[l] # 0 => AtOperand(code, jumpMap[l]))
  BY <1>1 DEF Emission, Emitted
<1>4. /\ code' \in Text /\ Laid(code') /\ Kept(code, code')
      /\ Awaited(code') <=> Kind(p) = "decl"
      /\ DOMAIN hole' = Node /\ DOMAIN pastElse' = Node
      /\ \A m \in Node : AtOperand(code, hole[m]) => AtOperand(code', hole'[m])
      /\ \A m \in Node : AtOperand(code, pastElse[m]) => AtOperand(code', pastElse'[m])
      /\ Condition(n) /\ Kind(p) # "do" => AtOperand(code', hole'[p])
      /\ IsBranch(n, 2) => AtOperand(code', pastElse'[p])
  BY ClosingText
<1>5. WithHole(n) => AtOperand(code', hole'[p])
  <2>1. n \in Below(n) /\ Out(n)[1] = n
    BY SelfBelow DEF Out
  <2>2. WithHole(n) => AtOperand(code, hole[p])
    BY <1>1, <1>3, <2>1 DEF HolesOpen
  <2> QED BY <1>2, <1>4, <2>2
<1>6. /\ emitAt' \in Position
      /\ Awaited(code') <=> Pending(emitAt')
      /\ HolesOpen(emitAt', code', hole', pastElse')
  <2>1. CASE emitAt' = Out(p)
    <3>1. HolesOpen(emitAt', code', hole', pastElse')
      <4>1. Out(n)[1] = n /\ emitAt'[1] = p
        BY <2>1 DEF Out
      <4> QED BY <1>1, <1>2, <1>3, <1>4, <4>1, HolesStay
    <3>2. Kind(p) # "expr"
      BY <1>2, PlainFacts
    <3> QED BY <1>2, <1>4, <2>1, <3>1, <3>2 DEF Pending, Position, Out
  <2>2. CASE emitAt' # Out(p)
    <3>1. PICK s \in Children(p) :
            /\ emitAt' = In(s)
            /\ Kind(p) = "for" => \/ Place(n) = 1 /\ Place(s) = 2
                                  \/ Place(n) = 2 /\ Place(s) = 4
                                  \/ Place(n) = 4 /\ Place(s) = 3
            /\ Kind(p) # "for" => s > n /\ Place(s) = Place(n) + 1
      BY <1>1, <2>2, NextToEmitFacts
    <3>2. s \in Node /\ s # 1 /\ Up(s) = p
      BY <1>2, <3>1, ChildFacts
    <3>3. Kind(p) # "decl"
      <4> SUFFICES ASSUME Kind(p) = "decl" PROVE FALSE
        OBVIOUS
      <4>1. Children(p) = {n}
        BY <1>1, EmittableFacts
      <4>2. s = n /\ s > n /\ n \in Int
        BY <3>1, <4>1, OrderFacts
      <4> QED BY <4>2
    <3>4. Place(n) \in Nat
      BY <1>2, PlaceFacts
    <3>5. WithHole(s) => AtOperand(code', hole'[p])
      <4>1. CASE Kind(p) \in {"if", "while"} /\ Place(n) = 1
        <5>1. Condition(n)
          BY <1>1, <4>1 DEF Condition, Loops
        <5> QED BY <1>4, <4>1, <5>1
      <4>2. CASE Kind(p) \in {"if", "while"} /\ Place(n) # 1
        BY <1>5, <4>2 DEF WithHole
      <4>3. CASE Kind(p) = "for" /\ Place(n) = 2
        <5>1. Condition(n)
          BY <1>1, <4>3 DEF Condition, Loops
        <5> QED BY <1>4, <4>3, <5>1
      <4>4. CASE Kind(p) = "for" /\ Place(n) = 4
        BY <1>5, <4>4 DEF WithHole
      <4>5. CASE Kind(p) = "for" /\ Place(n) = 1
        BY <3>1, <3>2, <4>5 DEF WithHole
      <4>6. CASE Kind(p) \notin {"if", "while", "for"}
        BY <3>2, <4>6 DEF WithHole
      <4> QED BY <3>1, <4>1, <4>2, <4>3, <4>4, <4>5, <4>6
    <3>6. IsBranch(s, 3) => AtOperand(code', pastElse'[p])
      <4> SUFFICES ASSUME IsBranch(s, 3) PROVE AtOperand(code', pastElse'[p])
        OBVIOUS
      <4>1. TwoWay(p) /\ Place(s) = 3
        BY <3>2 DEF IsBranch
      <4>2. Kind(p) # "for"
        BY <4>1 DEF TwoWay
      <4>3. Place(n) = 2
        BY <3>1, <3>4, <4>1, <4>2
      <4> QED BY <1>1, <1>4, <4>1, <4>3 DEF IsBranch
    <3>7. HolesOpen(emitAt', code', hole', pastElse')
      <4>1. Out(n)[1] = n /\ emitAt'[1] = s
        BY <3>1 DEF In, Out
      <4> QED BY <1>1, <1>3, <1>4, <3>2, <3>5, <3>6, <4>1, HolesStay
    <3> QED BY <1>4, <3>1, <3>2, <3>3, <3>7 DEF Pending, Position, In
  <2> QED BY <2>1, <2>2
<1>7. /\ \A m \in Node : Starts(code', top'[m])
      /\ \A l \in Names : Starts(code', labelMap'[l]) /\ (jumpMap'[l] # 0 => AtOperand(code', jumpMap'[l]))
  BY <1>1, <1>3, <1>4 DEF Kept
<1> QED BY <1>1, <1>3, <1>4, <1>6, <1>7 DEF Emitted


-----------------------------------------------------------------------------
(* The code when it is done, and the machine in it. *)

Settled ==
  /\ code \in Text /\ Laid(code) /\ ~Awaited(code)

\* The machine is at an instruction, with on its stack what the instruction
\* before it has left there.
Standing ==
  /\ ip \in 0 .. Len(code)
  /\ ip < Len(code) => code[ip + 1].op # "operand"
  /\ depth = IF ip > 0 /\ Producer(code[ip]) THEN 1 ELSE 0

CodeInv ==
  /\ Ordered
  /\ stage \in {"passes", "emit", "machine"}
  /\ stage # "machine" => Emission /\ ip = 0 /\ depth = 0
  /\ stage = "machine" => Settled /\ Standing

LEMMA FinishSettles ==
  ASSUME Ordered, Emission, Finish
  PROVE  code' \in Text /\ Laid(code') /\ ~Awaited(code')
<1> DEFINE operands == {jumpMap[l] : l \in Names} \ {0}
           LabelOf(p) == CHOOSE l \in Names : jumpMap[l] = p
           text == [c \in DOMAIN code |->
                      IF c - 1 \in operands
                      THEN Cell("operand", Operand(c - 1, labelMap[LabelOf(c - 1)])) ELSE code[c]]
<1>1. emitAt = End /\ code' = IF allReturn THEN text ELSE Append(text, Cell("return", 1))
  BY DEF Finish
<1>2. /\ code \in Text /\ Laid(code)
      /\ \A l \in Names : Starts(code, labelMap[l]) /\ (jumpMap[l] # 0 => AtOperand(code, jumpMap[l]))
  BY DEF Emission, Emitted
<1>3. ~Awaited(code)
  <2>1. Kind(1) = "block"
    BY EmittableFacts, OrderFacts
  <2>2. ~Pending(End)
    BY <2>1 DEF Pending, End
  <2> QED BY <1>1, <2>2 DEF Emission, Emitted
<1>4. Len(code) \in Nat /\ DOMAIN code = 1 .. Len(code) /\ \A c \in 1 .. Len(code) : code[c] \in [op : Ops, arg : Int]
  <2> DEFINE S == [op : Ops, arg : Int]
  <2>1. code \in Seq(S)
    BY <1>2 DEF Text
  <2> HIDE DEF S
  <2>2. Len(code) \in Nat /\ DOMAIN code = 1 .. Len(code) /\ \A c \in 1 .. Len(code) : code[c] \in S
    BY <2>1
  <2> QED BY <2>2 DEF S
<1>5. ASSUME NEW c \in 1 .. Len(code)
      PROVE  /\ text[c] \in [op : Ops, arg : Int]
             /\ \/ text[c] = code[c]
                \/ code[c].op = "operand" /\ text[c].op = "operand" /\ Starts(code, c + text[c].arg)
  <2>1. CASE c - 1 \in operands
    <3> DEFINE l == LabelOf(c - 1)
    <3>1. l \in Names /\ jumpMap[l] = c - 1 /\ c - 1 # 0
      BY <2>1
    <3>2. text[c] = Cell("operand", Operand(c - 1, labelMap[l]))
      BY <1>4, <2>1
    <3> HIDE DEF l, text
    <3>3. Starts(code, labelMap[l]) /\ AtOperand(code, c - 1)
      BY <1>2, <3>1
    <3>4. labelMap[l] \in Int
      BY <3>3 DEF Starts
    <3>5. Operand(c - 1, labelMap[l]) \in Int /\ c + Operand(c - 1, labelMap[l]) = labelMap[l]
      BY <3>4 DEF Operand
    <3>6. text[c].op = "operand" /\ text[c].arg = Operand(c - 1, labelMap[l])
      BY <3>2 DEF Cell
    <3>7. text[c] \in [op : Ops, arg : Int]
      BY <3>2, <3>5 DEF Cell, Ops
    <3>8. code[c].op = "operand"
      BY <3>3 DEF AtOperand
    <3> QED BY <3>3, <3>5, <3>6, <3>7, <3>8
  <2>2. CASE c - 1 \notin operands
    <3>1. text[c] = code[c]
      BY <1>4, <2>2
    <3> HIDE DEF text
    <3> QED BY <1>4, <3>1
  <2> QED BY <2>1, <2>2
<1>6. text \in Text /\ Len(text) = Len(code)
  <2>1. DOMAIN text = 1 .. Len(code)
    BY <1>4
  <2> DEFINE S == [op : Ops, arg : Int]
  <2>2. text \in [1 .. Len(code) -> S]
    BY <1>4, <1>5
  <2> HIDE DEF S, text
  <2>3. text \in Seq(S) /\ Len(text) = Len(code)
    BY <1>4, <2>2
  <2> QED BY <2>3 DEF Text, S
<1> HIDE DEF operands, LabelOf, text
<1>7. Laid(text) /\ ~Awaited(text)
  BY <1>2, <1>3, <1>5, <1>6, Repatched
<1>8. CASE allReturn
  BY <1>1, <1>6, <1>7, <1>8
<1>9. CASE ~allReturn
  <2>1. code' = text \o <<Cell("return", 1)>>
    <3>1. code' = Append(text, Cell("return", 1))
      BY <1>1, <1>9
    <3>2. \A S : \A s \in Seq(S), x \in S : Append(s, x) = s \o <<x>>
      OBVIOUS
    <3>3. Cell("return", 1) \in [op : Ops, arg : Int]
      BY DEF Cell, Ops, Visible
    <3> QED BY <1>6, <3>1, <3>2, <3>3 DEF Text
  <2>2. "return" \in Ops \ (JumpOps \cup {"operand"}) /\ "return" \notin Consumers /\ "return" # "eval"
    BY DEF Ops, JumpOps, Consumers, Visible
  <2> QED BY <1>6, <1>7, <2>1, <2>2, AppendedCell
<1> QED BY <1>8, <1>9


\* What the operand of a jump says, of code that is laid.
LEMMA JumpTarget ==
  ASSUME code \in Text, Laid(code), NEW p \in 0 .. Len(code) - 1, At(p).op \in JumpOps
  PROVE  /\ p + 2 \in 0 .. Len(code) /\ At(p + 1).op = "operand"
         /\ Starts(code, Destined(p))
<1>1. Len(code) \in Nat /\ p + 1 \in 1 .. Len(code)
  BY DEF Text
<1>2. code[p + 1].op \in JumpOps
  BY DEF At
<1>3. p + 1 < Len(code) /\ code[p + 1 + 1].op = "operand"
  BY <1>1, <1>2 DEF Laid
<1>4. p + 2 \in 1 .. Len(code) /\ p + 1 + 1 = p + 2
  BY <1>1, <1>3
<1>5. Starts(code, p + 2 + code[p + 2].arg)
  BY <1>3, <1>4 DEF Laid
<1> QED BY <1>1, <1>3, <1>4, <1>5 DEF Destined, At

LEMMA OperandBehindJump ==
  ASSUME NEW s \in Text, Laid(s), NEW q \in 1 .. Len(s) - 1, s[q + 1].op = "operand"
  PROVE  s[q].op \in JumpOps
<1> DEFINE c == q + 1
<1>1. c \in 1 .. Len(s) /\ c - 1 = q
  BY DEF Text
<1>2. s[c].op = "operand"
  OBVIOUS
<1> HIDE DEF c
<1>3. s[c - 1].op \in JumpOps
  BY <1>1, <1>2 DEF Laid
<1> QED BY <1>1, <1>3

LEMMA TakenAtOnce ==
  ASSUME NEW s \in Text, Laid(s), NEW q \in 1 .. Len(s) - 1
  PROVE  s[q + 1].op \in Consumers <=> Producer(s[q])
<1> DEFINE c == q + 1
<1>1. c \in 1 .. Len(s) /\ c - 1 = q /\ c > 1
  BY DEF Text
<1> HIDE DEF c
<1>2. s[c].op \in Consumers <=> c > 1 /\ Producer(s[c - 1])
  BY <1>1 DEF Laid
<1>3. s[c].op \in Consumers <=> Producer(s[q])
  BY <1>1, <1>2
<1> QED BY <1>3 DEF c

LEMMA CellType ==
  ASSUME NEW s \in Text, NEW c \in 1 .. Len(s)
  PROVE  s[c].op \in Ops /\ s[c].arg \in Int
<1> DEFINE S == [op : Ops, arg : Int]
<1>1. s \in Seq(S)
  BY DEF Text
<1> HIDE DEF S
<1>2. s[c] \in S
  BY <1>1
<1> QED BY <1>2 DEF S

\* One step of the machine.
LEMMA ExecuteStands ==
  ASSUME Settled, Standing, Execute
  PROVE  Standing'
<1> DEFINE x == code[ip + 1]
<1>1. code \in Text /\ Laid(code) /\ code' = code
  BY DEF Settled, Execute, emitVars
<1>0. \A c : Producer(c)' <=> Producer(c)
  <2>1. body' = body
    BY DEF Execute, execVars, jumpVars
  <2> QED BY <2>1 DEF Producer, HasValue, Name
<1>2. Len(code) \in Nat /\ ip \in 0 .. Len(code) - 1 /\ ip + 1 \in 1 .. Len(code)
  BY <1>1 DEF Text, Execute
<1>3. At(ip) = x /\ x.op \notin {"return", "state", "operand"} /\ x.op \in Ops
  <2>1. x.op \in Ops
    BY <1>1, <1>2, CellType
  <2> QED BY <1>2, <2>1 DEF At, Execute, Standing
<1>4. x.op \in Consumers <=> depth = 1
  <2>1. x.op \in Consumers <=> (ip + 1 > 1 /\ Producer(code[ip + 1 - 1]))
    BY <1>1, <1>2 DEF Laid
  <2>2. ip + 1 - 1 = ip /\ (ip + 1 > 1 <=> ip > 0)
    BY <1>2
  <2> QED BY <2>1, <2>2 DEF Standing
<1>5. depth \in {0, 1}
  BY DEF Standing
<1>6. depth' = CASE x.op = "eval" /\ HasValue(x.arg) -> depth + 1
                 [] x.op \in {"store", "pop", "jumpif", "jumpnif"} -> depth - 1
                 [] OTHER -> depth
  BY <1>3 DEF Execute
<1>7. depth' = IF Producer(x) THEN 1 ELSE 0
  <2>1. CASE x.op \in Consumers
    BY <1>4, <1>6, <2>1 DEF Consumers, Producer
  <2>2. CASE x.op \notin Consumers
    <3>1. depth = 0
      BY <1>4, <1>5, <2>2
    <3> QED BY <1>6, <2>2, <3>1 DEF Consumers, Producer
  <2> QED BY <2>1, <2>2
<1> HIDE DEF x
<1>8. ASSUME ip' \in 0 .. Len(code), ip' < Len(code) => code[ip' + 1].op # "operand",
             IF ip' > 0 /\ Producer(code[ip']) THEN Producer(x) ELSE ~Producer(x)
      PROVE  Standing'
  <2>1. depth' = IF ip' > 0 /\ Producer(code[ip']) THEN 1 ELSE 0
    BY <1>7, <1>8
  <2>2. (ip > 0 /\ Producer(code[ip]))' <=> (ip' > 0 /\ Producer(code[ip']))
    BY <1>0, <1>1
  <2> QED BY <1>1, <1>8, <2>1, <2>2 DEF Standing
<1>9. ASSUME x.op \in JumpOps PROVE Starts(code, Destined(ip)) /\ Starts(code, ip + 2)
  <2>1. /\ ip + 2 \in 0 .. Len(code) /\ code[ip + 2].op = "operand"
        /\ Starts(code, Destined(ip))
    <3>1. At(ip).op \in JumpOps /\ At(ip + 1) = code[ip + 2]
      BY <1>2, <1>3, <1>9 DEF At
    <3> QED BY <1>1, <1>2, <3>1, JumpTarget
  <2>2. ~Producer(code[ip + 2])
    BY <2>1 DEF Producer
  <2>3. ip + 2 < Len(code) => code[ip + 2 + 1].op # "operand"
    <3> SUFFICES ASSUME ip + 2 < Len(code), code[ip + 2 + 1].op = "operand" PROVE FALSE
      OBVIOUS
    <3>1. ip + 2 \in 1 .. Len(code) - 1
      BY <1>2
    <3>2. code[ip + 2].op \in JumpOps
      BY <1>1, <3>1, OperandBehindJump
    <3> QED BY <2>1, <3>2 DEF JumpOps
  <2> QED BY <2>1, <2>2, <2>3 DEF Starts
<1>10. CASE x.op \in JumpOps
  <2>1. ip' = Destined(ip) \/ ip' = ip + 2
    <3>1. x.op \notin Visible /\ ip' = Skip(ip, value)
      BY <1>3, <1>10 DEF Execute, JumpOps, Visible
    <3> QED BY <1>3, <1>10, <3>1 DEF Skip, JumpOps
  <2>2. Starts(code, ip')
    BY <1>9, <1>10, <2>1
  <2> QED BY <1>8, <1>10, <2>2 DEF Starts, Producer, JumpOps
<1>11. CASE x.op \notin JumpOps
  <2>1. ip' = ip + 1
    BY <1>3, <1>11 DEF Execute, Skip, JumpOps
  <2>2. ip + 1 < Len(code) => code[ip + 1 + 1].op # "operand"
    <3> SUFFICES ASSUME ip + 1 < Len(code), code[ip + 1 + 1].op = "operand" PROVE FALSE
      OBVIOUS
    <3>1. ip + 1 \in 1 .. Len(code) - 1
      BY <1>2
    <3>2. code[ip + 1].op \in JumpOps
      BY <1>1, <3>1, OperandBehindJump
    <3> QED BY <1>11, <3>2 DEF x
  <2>3. code[ip'] = x /\ ip' > 0 /\ ip' \in 0 .. Len(code)
    BY <1>2, <2>1 DEF x
  <2> QED BY <1>8, <2>1, <2>2, <2>3
<1> QED BY <1>10, <1>11


\* What is said of the emission is said of the body, which never changes.
LEMMA EmissionStays ==
  ASSUME body' = body,
         Emitted(emitAt', code', top', hole', pastElse', jumpMap', labelMap')
  PROVE  Emission'
<1>1. /\ Node' = Node /\ Position' = Position
      /\ \A n : Children(n)' = Children(n) /\ Kind(n)' = Kind(n) /\ Up(n)' = Up(n) /\ Name(n)' = Name(n)
      /\ \A n : Place(n)' = Place(n) /\ Below(n)' = Below(n)
  BY DEF Node, Position, Children, Kind, Up, Name, Place, Below
<1>2. /\ \A n : (HasValue(n)' <=> HasValue(n)) /\ (TwoWay(n)' <=> TwoWay(n))
      /\ \A n, k : IsBranch(n, k)' <=> IsBranch(n, k)
      /\ \A n : WithHole(n)' <=> WithHole(n)
  BY <1>1 DEF HasValue, TwoWay, IsBranch, WithHole
<1>3. \A c : Producer(c)' <=> Producer(c)
  BY <1>2 DEF Producer
<1>4. \A text, q : Starts(text, q)' <=> Starts(text, q)
  BY <1>3 DEF Starts
<1>5. \A text : (Laid(text)' <=> Laid(text)) /\ (Awaited(text)' <=> Awaited(text))
  BY <1>3, <1>4 DEF Laid, Awaited
<1>6. \A q : Pending(q)' <=> Pending(q)
  BY <1>1, <1>2 DEF Pending
<1>7. \A q, text, holes, pastElses : HolesOpen(q, text, holes, pastElses)' <=> HolesOpen(q, text, holes, pastElses)
  BY <1>1, <1>2 DEF HolesOpen
<1>8. \A q, text, tops, holes, pastElses, jumps, labelsAt :
        Emitted(q, text, tops, holes, pastElses, jumps, labelsAt)'
          <=> Emitted(q, text, tops, holes, pastElses, jumps, labelsAt)
  BY <1>1, <1>4, <1>5, <1>6, <1>7 DEF Emitted
<1> QED BY <1>8 DEF Emission

LEMMA CodeInvInit == LsoInit => CodeInv
<1> SUFFICES ASSUME LsoInit PROVE CodeInv
  OBVIOUS
<1>1. Ordered /\ emitAt = Begin /\ code = <<>>
  BY DEF LsoInit, ExecInit, JumpInit, Ordered
<1>2. code \in Text /\ Len(code) = 0 /\ Laid(code) /\ ~Awaited(code) /\ Starts(code, 0)
  BY <1>1 DEF Text, Laid, Awaited, Starts
<1>3. ~Pending(Begin) /\ Begin \in Position
  BY <1>1, OrderFacts DEF Pending, Begin, Position
<1>4. HolesOpen(Begin, code, hole, pastElse)
  <2> SUFFICES ASSUME NEW k \in Node, k # 1, 1 \in Below(k) PROVE FALSE
    BY DEF HolesOpen, Begin
  <2>1. k <= 1 /\ k \in Nat /\ k >= 1
    BY <1>1, OrderFacts DEF Below, Contains, Node
  <2> QED BY <2>1
<1>5. Emission
  BY <1>1, <1>2, <1>3, <1>4 DEF LsoInit, Emission, Emitted
<1> QED BY <1>1, <1>5 DEF LsoInit, CodeInv

LEMMA CodeInvStep == CodeInv /\ [LsoNext]_lsoVars => CodeInv'
<1> SUFFICES ASSUME CodeInv, [LsoNext]_lsoVars PROVE CodeInv'
  OBVIOUS
<1>1. body' = body
  BY DEF LsoNext, Passes, StartEmitting, Open, Close, Finish, Execute, lsoVars, execVars, jumpVars,
         ExecNext, Resolve, StartTypes, CheckNode, EndTypes, CheckReturns, EndReturns, Run,
         Resolution, Enter, Leave, LeaveBody, ResolveJump, CheckDuplicates, ClassifyJump, EndResolution
<1>2. Ordered /\ Ordered'
  BY <1>1 DEF CodeInv, Ordered
<1>3. /\ \A c : Producer(c)' <=> Producer(c)
      /\ \A text, q : Starts(text, q)' <=> Starts(text, q)
      /\ \A text : (Laid(text)' <=> Laid(text)) /\ (Awaited(text)' <=> Awaited(text))
  <2>1. \A c : Producer(c)' <=> Producer(c)
    BY <1>1 DEF Producer, HasValue, Name
  <2>2. \A text, q : Starts(text, q)' <=> Starts(text, q)
    BY <2>1 DEF Starts
  <2> QED BY <2>1, <2>2 DEF Laid, Awaited
<1>4. ASSUME stage # "machine", stage' # "machine", stage' \in {"passes", "emit"},
             ip' = ip, depth' = depth,
             Emitted(emitAt', code', top', hole', pastElse', jumpMap', labelMap')
      PROVE  CodeInv'
  BY <1>1, <1>2, <1>4, EmissionStays DEF CodeInv
<1>5. CASE UNCHANGED emitVars /\ UNCHANGED machineVars /\ stage # "machine" /\ stage' \in {"passes", "emit"}
  <2>1. Emitted(emitAt', code', top', hole', pastElse', jumpMap', labelMap')
    BY <1>5 DEF emitVars, CodeInv, Emission
  <2> QED BY <1>4, <1>5, <2>1 DEF machineVars
<1>6. CASE Passes \/ StartEmitting
  BY <1>5, <1>6 DEF Passes, StartEmitting
<1>7. ASSUME NEW n \in Node, Open(n) PROVE CodeInv'
  <2>1. Emission /\ stage # "machine" /\ stage' = stage /\ ip' = ip /\ depth' = depth /\ stage = "emit"
    BY <1>7 DEF Open, CodeInv, machineVars
  <2>2. Emitted(emitAt', code', top', hole', pastElse', jumpMap', labelMap')
    BY <1>2, <1>7, <2>1, OpenEmits
  <2> QED BY <1>4, <2>1, <2>2
<1>8. ASSUME NEW n \in Node, Close(n) PROVE CodeInv'
  <2>1. Emission /\ stage # "machine" /\ stage' = stage /\ ip' = ip /\ depth' = depth /\ stage = "emit"
    BY <1>8 DEF Close, CodeInv, machineVars
  <2>2. Emitted(emitAt', code', top', hole', pastElse', jumpMap', labelMap')
    BY <1>2, <1>8, <2>1, CloseEmits
  <2> QED BY <1>4, <2>1, <2>2
<1>9. CASE Finish
  <2>1. stage = "emit" /\ stage' = "machine" /\ ip' = ip /\ depth' = depth
    BY <1>9 DEF Finish, machineVars
  <2>2. Emission /\ ip = 0 /\ depth = 0
    BY <2>1 DEF CodeInv
  <2>3. code' \in Text /\ Laid(code') /\ ~Awaited(code')
    BY <1>2, <1>9, <2>2, FinishSettles
  <2>4. Settled'
    BY <1>3, <2>3 DEF Settled
  <2>5. Standing'
    <3>1. Len(code') \in Nat
      BY <2>3 DEF Text
    <3>2. 0 < Len(code') => code'[1].op # "operand"
      <4> SUFFICES ASSUME 0 < Len(code'), code'[1].op = "operand" PROVE FALSE
        OBVIOUS
      <4>1. 1 \in 1 .. Len(code')
        BY <3>1
      <4> QED BY <2>3, <4>1 DEF Laid
    <3>3. ip' = 0 /\ depth' = 0
      BY <2>1, <2>2
    <3> QED BY <3>1, <3>2, <3>3 DEF Standing
  <2> QED BY <1>2, <2>1, <2>4, <2>5 DEF CodeInv
<1>10. CASE Execute
  <2>1. stage = "machine" /\ stage' = "machine" /\ code' = code
    BY <1>10 DEF Execute, emitVars
  <2>2. Settled /\ Standing
    BY <2>1 DEF CodeInv
  <2>3. Standing'
    BY <1>10, <2>2, ExecuteStands
  <2>4. Settled'
    BY <1>3, <2>1, <2>2 DEF Settled
  <2> QED BY <1>2, <2>1, <2>3, <2>4 DEF CodeInv
<1>11. CASE UNCHANGED lsoVars
  <2>1. UNCHANGED emitVars /\ UNCHANGED machineVars /\ stage' = stage
    BY <1>11 DEF lsoVars
  <2>2. CASE stage = "machine"
    <3>1. Settled' /\ Standing'
      <4>1. Settled /\ Standing
        BY <2>2 DEF CodeInv
      <4>2. code' = code /\ ip' = ip /\ depth' = depth
        BY <2>1 DEF emitVars, machineVars
      <4> QED BY <1>3, <4>1, <4>2 DEF Settled, Standing
    <3> QED BY <1>2, <2>1, <2>2, <3>1 DEF CodeInv
  <2>3. CASE stage # "machine"
    BY <1>5, <2>1, <2>3 DEF CodeInv
  <2> QED BY <2>2, <2>3
<1> QED BY <1>6, <1>7, <1>8, <1>9, <1>10, <1>11 DEF LsoNext

\* Of every body: in the code the compiler is done with every jump, the ones to
\* a label that another jump goes to included, leads to an instruction or to
\* the end of the code.
THEOREM JumpsGoToInstructions == LsoSpec => []JumpsLand
<1>1. CodeInv => JumpsLand
  <2> SUFFICES ASSUME Settled, NEW p \in 0 .. Len(code) - 1, At(p).op \in JumpOps
               PROVE  /\ Destined(p) \in 0 .. Len(code)
                      /\ Destined(p) < Len(code) => At(Destined(p)).op # "operand"
    BY DEF CodeInv, JumpsLand, JumpOps
  <2>1. Starts(code, Destined(p))
    BY JumpTarget DEF Settled
  <2> QED BY <2>1 DEF Starts, At
<1> QED BY <1>1, CodeInvInit, CodeInvStep, PTL DEF LsoSpec

\* Of every body and every way through its code: the machine never has more
\* than one value on its stack above the locals, and none where it returns.
THEOREM NothingIsLeftOnTheStack == LsoSpec => []StackClean
<1>1. CodeInv => StackClean
  <2> SUFFICES ASSUME Settled, Standing
               PROVE  /\ depth \in 0 .. 1
                      /\ ip < Len(code) /\ At(ip).op \in {"return", "state"} => depth = 0
    BY DEF CodeInv, StackClean
  <2>1. ASSUME ip < Len(code), At(ip).op \in {"return", "state"} PROVE depth = 0
    <3>1. code[ip + 1].op \in {"return", "state"}
      BY <2>1 DEF At
    <3>2. code[ip + 1].op \notin Consumers
      BY <3>1 DEF Consumers
    <3>3. code \in Text /\ Laid(code) /\ Len(code) \in Nat
      BY DEF Settled, Text
    <3>4. ip > 0 => ip \in 1 .. Len(code) - 1
      BY <2>1, <3>3 DEF Standing
    <3>5. ~ (ip > 0 /\ Producer(code[ip]))
      BY <3>2, <3>3, <3>4, TakenAtOnce
    <3> QED BY <3>5 DEF Standing
  <2> QED BY <2>1 DEF Standing
<1> QED BY <1>1, CodeInvInit, CodeInvStep, PTL DEF LsoSpec
=============================================================================
