------------------------------- MODULE Folding -------------------------------
(***************************************************************************)
(* Constant folding (TailslideOperationBehavior) and the visitor that      *)
(* decides which expressions have a constant value                         *)
(* (ConstantDeterminingVisitor).                                           *)
(*                                                                         *)
(* An expression is folded from the inside out: `cur` is the constant the  *)
(* innermost part has been folded to and `typ` the type the checker gave   *)
(* that part; each step wraps one more operator, cast, variable, member or *)
(* vector around it.  A constant is [t |-> type, v |-> value]: an integer  *)
(* of Width bits, a float as an exact fraction <<n, d>>, a vector or a     *)
(* rotation as a tuple of fractions, a string or key as a sequence of      *)
(* pieces of text (an integer for its numeral), a list as a sequence of    *)
(* constants.  Rounding, infinities and NaN are left out.                  *)
(***************************************************************************)
EXTENDS Types, Integers, Sequences, FiniteSetsExt
LOCAL INSTANCE Bitwise

CONSTANTS
  Width,       \* bits of an integer
  Operands,    \* the constants a program may write
  CreateHeap,  \* the values of the option that lets folding make strings
  MaxFolds     \* bound on the operators around the innermost constant

VARIABLES cur, typ, create, written, last, folds
vars == <<cur, typ, create, written, last, folds>>

None == [t |-> "none", v |-> <<>>]
Const(t, v) == [t |-> t, v |-> v]
IntConst(n) == Const("integer", n)

-----------------------------------------------------------------------------
(* Integers: C++'s int.  Overflow and shifts by the width or more are      *)
(* undefined, the result is any integer.                                   *)
IntMin == -(2 ^ (Width - 1))
IntMax == 2 ^ (Width - 1) - 1
AnyInt == IntMin .. IntMax
Wrap(n) == ((n - IntMin) % 2 ^ Width) + IntMin
Unsigned(n) == n % 2 ^ Width
Exactly(n) == IF n \in AnyInt THEN {n} ELSE AnyInt
Bool(b) == IF b THEN 1 ELSE 0
Magnitude(n) == IF n < 0 THEN -n ELSE n
Truncate(n, d) == IF (n < 0) = (d < 0) THEN Magnitude(n) \div Magnitude(d)
                  ELSE -(Magnitude(n) \div Magnitude(d))

\* Mutant: the remainder takes the sign of the divisor.
IntegerResultsFloored(op, a, b) ==
  CASE op = "/" -> IF b = 0 THEN {} ELSE IF b = -1 THEN {Wrap(-a)} ELSE {Truncate(a, b)}
    [] op = "%" -> IF b = 0 THEN {} ELSE {a - b * (IF b < 0 THEN (-a) \div (-b) ELSE a \div b)}
    [] OTHER -> {}

\* What both sides of a comparison or an equality fold to, numbers given as
\* a and b of the same kind; the empty set stands for no constant.
IntegerResults(op, a, b) ==
  CASE op = "+" -> Exactly(a + b)
    [] op = "-" -> Exactly(a - b)
    [] op = "*" -> Exactly(a * b)
    [] op = "/" -> IF b = 0 THEN {} ELSE IF b = -1 THEN {Wrap(-a)} ELSE {Truncate(a, b)}
    [] op = "%" -> IF b = 0 THEN {} ELSE IF b \in {-1, 1} THEN {0} ELSE {a - b * Truncate(a, b)}
    [] op = "&" -> {Wrap(Unsigned(a) & Unsigned(b))}
    [] op = "|" -> {Wrap(Unsigned(a) | Unsigned(b))}
    [] op = "^" -> {Wrap(Unsigned(a) ^^ Unsigned(b))}
    [] op = "<<" -> IF b \in 0 .. Width - 1 THEN {Wrap(a * 2 ^ b)} ELSE AnyInt
    [] op = ">>" -> IF b \in 0 .. Width - 1 THEN {a \div 2 ^ b} ELSE AnyInt
    [] op = "<" -> {Bool(a < b)}
    [] op = ">" -> {Bool(a > b)}
    [] op = "&&" -> {Bool(a # 0 /\ b # 0)}
    [] op = "||" -> {Bool(a # 0 \/ b # 0)}
    [] op = "==" -> {Bool(a = b)}
    [] op = "!=" -> {Bool(a # b)}
    [] OTHER -> {}

IntegerNegations(op, a) ==
  CASE op = "!" -> {Bool(a = 0)}
    [] op = "~" -> {-a - 1}
    [] op = "-" -> Exactly(-a)
    [] OTHER -> {}

-----------------------------------------------------------------------------
(* Fractions for floats *)
Reduced(n, d) ==
  LET common == {k \in 1 .. Magnitude(d) : n % k = 0 /\ d % k = 0}
      g == IF d < 0 THEN -Max(common) ELSE Max(common)
  IN <<n \div g, d \div g>>
Whole(n) == <<n, 1>>
Plus(p, q) == Reduced(p[1] * q[2] + q[1] * p[2], p[2] * q[2])
Times(p, q) == Reduced(p[1] * q[1], p[2] * q[2])
Over(p, q) == Reduced(p[1] * q[2], p[2] * q[1])
Opposite(p) == <<-p[1], p[2]>>
Minus(p, q) == Plus(p, Opposite(q))
Less(p, q) == p[1] * q[2] < q[1] * p[2]

FloatConst(q) == Const("float", q)
AsFloat(c) == IF c.t = "integer" THEN Whole(c.v) ELSE c.v

\* Mutant: an integer beside a float is compared in a type too narrow for its
\* last bit.
IntegerBesideFloatNarrow(op, n, q) ==
  LET p == Whole(n)  narrow == Whole(2 * (n \div 2)) IN
  CASE op = "+" -> {FloatConst(Plus(p, q))}
    [] op = "-" -> {FloatConst(Minus(p, q))}
    [] op = "*" -> {FloatConst(Times(p, q))}
    [] op = "/" /\ q[1] # 0 -> {FloatConst(Over(p, q))}
    [] op = ">" -> {IntConst(Bool(Less(q, narrow)))}
    [] op = "<" -> {IntConst(Bool(Less(narrow, q)))}
    [] op = "==" -> {IntConst(Bool(narrow = q))}
    [] op = "!=" -> {IntConst(Bool(narrow # q))}
    [] OTHER -> {}

\* An integer on the left of a float: >= and <= are not folded.
IntegerBesideFloat(op, n, q) ==
  CASE op = "+" -> {FloatConst(Plus(Whole(n), q))}
    [] op = "-" -> {FloatConst(Minus(Whole(n), q))}
    [] op = "*" -> {FloatConst(Times(Whole(n), q))}
    [] op = "/" /\ q[1] # 0 -> {FloatConst(Over(Whole(n), q))}
    [] op = ">" -> {IntConst(Bool(Less(q, Whole(n))))}
    [] op = "<" -> {IntConst(Bool(Less(Whole(n), q)))}
    [] op = "==" -> {IntConst(Bool(Whole(n) = q))}
    [] op = "!=" -> {IntConst(Bool(Whole(n) # q))}
    [] OTHER -> {}

\* A float on the left of an integer: && and || are folded, though the
\* checker lets neither through.
FloatBesideInteger(op, q, n) ==
  CASE op = "+" -> {FloatConst(Plus(q, Whole(n)))}
    [] op = "-" -> {FloatConst(Minus(q, Whole(n)))}
    [] op = "*" -> {FloatConst(Times(q, Whole(n)))}
    [] op = "/" /\ n # 0 -> {FloatConst(Over(q, Whole(n)))}
    [] op = ">" -> {IntConst(Bool(Less(Whole(n), q)))}
    [] op = "<" -> {IntConst(Bool(Less(q, Whole(n))))}
    [] op = ">=" -> {IntConst(Bool(~Less(q, Whole(n))))}
    [] op = "<=" -> {IntConst(Bool(~Less(Whole(n), q)))}
    [] op = "&&" -> {IntConst(Bool(q[1] # 0 /\ n # 0))}
    [] op = "||" -> {IntConst(Bool(q[1] # 0 \/ n # 0))}
    [] op = "==" -> {IntConst(Bool(q = Whole(n)))}
    [] op = "!=" -> {IntConst(Bool(q # Whole(n)))}
    [] OTHER -> {}

\* Mutant: >= of two floats is the same test as >.
FloatBesideFloatStrict(op, p, q) ==
  CASE op = "+" -> {FloatConst(Plus(p, q))}
    [] op = "-" -> {FloatConst(Minus(p, q))}
    [] op = "*" -> {FloatConst(Times(p, q))}
    [] op = "/" /\ q[1] # 0 -> {FloatConst(Over(p, q))}
    [] op \in {">", ">="} -> {IntConst(Bool(Less(q, p)))}
    [] op = "<" -> {IntConst(Bool(Less(p, q)))}
    [] op = "<=" -> {IntConst(Bool(~Less(q, p)))}
    [] op = "==" -> {IntConst(Bool(p = q))}
    [] op = "!=" -> {IntConst(Bool(p # q))}
    [] OTHER -> {}

FloatBesideFloat(op, p, q) ==
  CASE op = "+" -> {FloatConst(Plus(p, q))}
    [] op = "-" -> {FloatConst(Minus(p, q))}
    [] op = "*" -> {FloatConst(Times(p, q))}
    [] op = "/" /\ q[1] # 0 -> {FloatConst(Over(p, q))}
    [] op = ">" -> {IntConst(Bool(Less(q, p)))}
    [] op = "<" -> {IntConst(Bool(Less(p, q)))}
    [] op = ">=" -> {IntConst(Bool(~Less(p, q)))}
    [] op = "<=" -> {IntConst(Bool(~Less(q, p)))}
    [] op = "==" -> {IntConst(Bool(p = q))}
    [] op = "!=" -> {IntConst(Bool(p # q))}
    [] OTHER -> {}
-----------------------------------------------------------------------------
(* Vectors and rotations: tuples of fractions *)
Each(F(_), v) == [i \in DOMAIN v |-> F(v[i])]
Sums(v, w) == [i \in DOMAIN v |-> Plus(v[i], w[i])]
Differences(v, w) == [i \in DOMAIN v |-> Minus(v[i], w[i])]
\* The fraction the code computes for the product of two vectors.
Product(v, w) == Plus(Plus(Times(v[1], w[3]), Times(v[2], w[2])), Times(v[3], w[1]))
Cross(v, w) ==
  <<Minus(Times(v[2], w[3]), Times(v[3], w[2])),
    Minus(Times(v[3], w[1]), Times(v[1], w[3])),
    Minus(Times(v[1], w[2]), Times(v[2], w[1]))>>

VectorResults(op, v, w) ==
  CASE op = "+" -> {Const("vector", Sums(v, w))}
    [] op = "-" -> {Const("vector", Differences(v, w))}
    [] op = "*" -> {FloatConst(Product(v, w))}
    [] op = "%" -> {Const("vector", Cross(v, w))}
    [] OTHER -> {}

\* Mutant: the quotients of a vector by an integer are cut to whole numbers.
VectorByIntegerTruncating(op, v, n) ==
  CASE op = "*" -> {Const("vector", [i \in DOMAIN v |-> Times(v[i], Whole(n))])}
    [] op = "/" /\ n # 0 ->
         {Const("vector", [i \in DOMAIN v |-> Whole(Truncate(v[i][1], v[i][2] * n))])}
    [] OTHER -> {}

VectorByInteger(op, v, n) ==
  CASE op = "*" -> {Const("vector", [i \in DOMAIN v |-> Times(v[i], Whole(n))])}
    [] op = "/" /\ n # 0 -> {Const("vector", [i \in DOMAIN v |-> Over(v[i], Whole(n))])}
    [] OTHER -> {}

VectorByFloat(op, v, q) ==
  CASE op = "*" -> {Const("vector", [i \in DOMAIN v |-> Times(v[i], q)])}
    [] op = "/" /\ q[1] # 0 -> {Const("vector", [i \in DOMAIN v |-> Over(v[i], q)])}
    [] OTHER -> {}

\* Vectors or rotations that are equal or not by their components.
EqualityResults(op, v, w) ==
  CASE op = "==" -> {IntConst(Bool(v = w))}
    [] op = "!=" -> {IntConst(Bool(v # w))}
    [] OTHER -> {}

-----------------------------------------------------------------------------
(* Strings, keys and lists *)

\* Mutant: strings are joined without leave to create heap values.
StringBesideStringCreating(op, s, t) ==
  CASE op = "+" -> {Const("string", s \o t)}
    [] op = "==" -> {IntConst(Bool(s = t))}
    [] op = "!=" -> {IntConst(Bool(s # t))}
    [] OTHER -> {}

StringBesideString(op, s, t) ==
  CASE op = "+" /\ create -> {Const("string", s \o t)}
    [] op = "==" -> {IntConst(Bool(s = t))}
    [] op = "!=" -> {IntConst(Bool(s # t))}
    [] OTHER -> {}

StringBesideKey(op, s, k) ==
  CASE op = "==" -> {IntConst(Bool(s = k))}
    [] op = "!=" -> {IntConst(Bool(s # k))}
    [] OTHER -> {}

\* Mutant: a key is equal when strcmp says that it differs.
KeyBesideTextComparing(op, k, s) ==
  IF op \in Equalities THEN {IntConst(Bool(k # s))} ELSE {}

\* A key on the left of a string or a key.
KeyBesideText(op, k, s) ==
  CASE op = "==" -> {IntConst(Bool(k = s))}
    [] op = "!=" -> {IntConst(Bool(k # s))}
    [] OTHER -> {}

\* Mutant: the inequality of lists compares the elements, their equality the lengths.
ListResultsDeep(op, v, w) ==
  CASE op = "==" -> {IntConst(Bool(Len(v) = Len(w)))}
    [] op = "!=" -> {IntConst(Bool(v # w))}
    [] OTHER -> {}

\* The inequality of two lists is the difference of their lengths.
ListResults(op, v, w) ==
  CASE op = "==" -> {IntConst(Bool(Len(v) = Len(w)))}
    [] op = "!=" -> {IntConst(Len(v) - Len(w))}
    [] OTHER -> {}

\* operation, for two operands: what the code may fold l op r to.
BinaryResults(op, l, r) ==
  CASE l.t = "integer" /\ r.t = "integer" -> {IntConst(n) : n \in IntegerResults(op, l.v, r.v)}
    [] l.t = "integer" /\ r.t = "float" -> IntegerBesideFloat(op, l.v, r.v)
    [] l.t = "float" /\ r.t = "integer" -> FloatBesideInteger(op, l.v, r.v)
    [] l.t = "float" /\ r.t = "float" -> FloatBesideFloat(op, l.v, r.v)
    [] l.t = "string" /\ r.t = "string" -> StringBesideString(op, l.v, r.v)
    [] l.t = "string" /\ r.t = "key" -> StringBesideKey(op, l.v, r.v)
    [] l.t = "key" /\ r.t \in Strings -> KeyBesideText(op, l.v, r.v)
    [] l.t = "list" /\ r.t = "list" -> ListResults(op, l.v, r.v)
    [] l.t = "vector" /\ r.t = "integer" -> VectorByInteger(op, l.v, r.v)
    [] l.t = "vector" /\ r.t = "float" -> VectorByFloat(op, l.v, r.v)
    [] l.t = "vector" /\ r.t = "vector" ->
         VectorResults(op, l.v, r.v) \cup EqualityResults(op, l.v, r.v)
    [] l.t = "rotation" /\ r.t = "rotation" ->
         (IF op = "-" THEN {Const("rotation", Differences(l.v, r.v))} ELSE {})
           \cup EqualityResults(op, l.v, r.v)
    [] OTHER -> {}

UnaryResults(op, c) ==
  CASE c.t = "integer" -> {IntConst(n) : n \in IntegerNegations(op, c.v)}
    [] op = "-" /\ c.t = "float" -> {FloatConst(Opposite(c.v))}
    [] op = "-" /\ c.t \in Coordinates -> {Const(c.t, Each(Opposite, c.v))}
    [] OTHER -> {}

-----------------------------------------------------------------------------
(* Casts.  The piece <<t, q>> is the text of the number q of type t; a     *)
(* number is read from the numeral a string starts with, and is zero when  *)
(* it starts with none.                                                    *)
Text(x) == <<"text", x>>
Leading(s) == IF s = <<>> \/ Head(s)[1] = "text" THEN Whole(0) ELSE Head(s)[2]
\* Numerals that run into each other are left out.
Legible(s) == \A i \in 1 .. Len(s) - 1 : s[i][1] = "text" \/ s[i + 1][1] = "text"

\* Mutant: a float is converted without a look at its range.
ToIntegerUnchecked(q) == Truncate(q[1], q[2])

\* An x86 conversion: what is out of range becomes the smallest integer.
ToInteger(q) ==
  IF q[1] >= IntMin * q[2] /\ q[1] < (IntMax + 1) * q[2] THEN Truncate(q[1], q[2]) ELSE IntMin

CastResults(to, c) ==
  CASE c.t = to -> {c}
    [] ~create /\ (to = "list" \/ (to = "string" /\ c.t # "key")) -> {}
    [] c.t \in Strings /\ to \in Strings -> {Const(to, c.v)}
    [] c.t = "string" /\ to = "integer" ->
         {IntConst(Wrap(Truncate(Leading(c.v)[1], Leading(c.v)[2])))}
    [] c.t = "string" /\ to = "float" -> {FloatConst(Leading(c.v))}
    [] c.t = "integer" /\ to = "float" -> {FloatConst(Whole(c.v))}
    [] c.t = "float" /\ to = "integer" -> {IntConst(ToInteger(c.v))}
    [] c.t \in Numeric /\ to = "string" -> {Const("string", <<<<c.t, AsFloat(c)>>>>)}
    [] OTHER -> {}

DefaultValue(t) ==
  CASE t = "integer" -> IntConst(0)
    [] t = "float" -> Const(t, Whole(0))
    [] t \in Strings \cup {"list"} -> Const(t, <<>>)
    [] t = "vector" -> Const(t, <<Whole(0), Whole(0), Whole(0)>>)
    [] t = "rotation" -> Const(t, <<Whole(0), Whole(0), Whole(0), Whole(1)>>)
-----------------------------------------------------------------------------
(* The visitor.  The strings a constant holds: *)
StringsOf(c) ==
  IF c.t \in Strings THEN {c.v}
  ELSE IF c.t = "list" THEN {e.v : e \in {c.v[i] : i \in {j \in DOMAIN c.v : c.v[j].t \in Strings}}}
  ELSE {}

NoOperation == [op |-> "none", l |-> None, r |-> None]
Outcomes(results) == IF results = {} THEN {None} ELSE results

\* One more node around the expression, of the given type and constant value.
Around(t, results) ==
  /\ cur' \in Outcomes(results)
  /\ typ' = t
  /\ folds' = folds + 1
  /\ UNCHANGED create

\* A literal, or a variable declared without a value.
Init ==
  /\ create \in CreateHeap
  /\ \E c \in Operands \cup {DefaultValue(t) : t \in ValueTypes} :
       cur = c /\ typ = c.t /\ written = StringsOf(c)
  /\ last = NoOperation
  /\ folds = 0

\* visit(LSLExpression).  The value of an expression that assigns is never
\* asked for.
FoldUnary(op) ==
  /\ ResultType(typ, op, "none") # "none" /\ ~Mutates(op)
  /\ Around(ResultType(typ, op, "none"), UnaryResults(op, cur))
  /\ last' = NoOperation
  /\ UNCHANGED written

FoldBinary(op, l, r, other) ==
  /\ ResultType(l.t, op, r.t) # "none" /\ ~Mutates(op)
  /\ Around(ResultType(l.t, op, r.t), BinaryResults(op, l, r))
  /\ last' = [op |-> op, l |-> l, r |-> r]
  /\ written' = written \cup StringsOf(other)

\* visit(LSLTypecastExpression)
FoldCast(t) ==
  /\ CastLegal(typ, t)
  /\ typ = "string" /\ t \in Numeric => Legible(cur.v)
  /\ Around(t, CastResults(t, cur))
  /\ last' = NoOperation
  /\ UNCHANGED written

\* Mutant: an initial value is kept as it is, without the promotion.
DeclareUncast(t) ==
  /\ CanCoerce(typ, t)
  /\ Around(t, {cur})
  /\ last' = NoOperation
  /\ UNCHANGED written

\* handleDeclaration, and a read of the variable it declares
Declare(t) ==
  /\ CanCoerce(typ, t)
  /\ Around(t, IF cur.t # t THEN CastResults(t, cur) ELSE {cur})
  /\ last' = NoOperation
  /\ UNCHANGED written

\* visit(LSLLValueExpression) of a variable's member
ReadMember(i) ==
  /\ typ \in Coordinates /\ i \in DOMAIN cur.v
  /\ Around("float", {FloatConst(cur.v[i])})
  /\ last' = NoOperation
  /\ UNCHANGED written

\* visit(LSLVectorExpression), visit(LSLQuaternionExpression)
MakeCoordinates(t, others) ==
  /\ CanCoerce(typ, "float") /\ \A i \in DOMAIN others : CanCoerce(others[i].t, "float")
  /\ Around(t, {Const(t, [i \in DOMAIN others |-> IF i = 1 THEN AsFloat(cur) ELSE AsFloat(others[i])])})
  /\ last' = NoOperation
  /\ UNCHANGED written

\* visit(LSLListExpression)
MakeList(other) ==
  /\ typ # "list" /\ other.t # "list"
  /\ Around("list", {Const("list", <<cur, other>>)})
  /\ last' = NoOperation
  /\ written' = written \cup StringsOf(other)

Numbers == {c \in Operands : c.t \in Numeric}

Next ==
  /\ cur # None /\ folds < MaxFolds
  /\ \/ \E op \in UnaryOps : FoldUnary(op)
     \/ \E op \in BinaryOps, other \in Operands : FoldBinary(op, cur, other, other)
     \/ \E op \in BinaryOps, other \in Operands : FoldBinary(op, other, cur, other)
     \/ \E t \in ValueTypes : FoldCast(t) \/ Declare(t)
     \/ \E i \in 1 .. 4 : ReadMember(i)
     \/ \E y, z \in Numbers : MakeCoordinates("vector", <<y, y, z>>)
     \/ \E y, z \in Numbers : MakeCoordinates("rotation", <<y, y, z, y>>)
     \/ \E other \in Operands : MakeList(other)

Spec == Init /\ [][Next]_vars

-----------------------------------------------------------------------------
(* Properties *)

WellFormed(c) ==
  CASE c.t = "integer" -> c.v \in AnyInt
    [] c.t = "float" -> c.v \in Int \X (Nat \ {0})
    [] c.t \in Strings -> \A i \in DOMAIN c.v : Len(c.v[i]) = 2
    [] c.t = "vector" -> Len(c.v) = 3
    [] c.t = "rotation" -> Len(c.v) = 4
    [] c.t = "list" -> \A i \in DOMAIN c.v : c.v[i].t \in ValueTypes \ {"list"}
    [] OTHER -> c = None

\* An expression is replaced by a constant of the type the checker gave it:
\* the operators of operations.cc and the rows of OPERATOR_RESULTS, two
\* tables written apart, agree, and a variable never takes a constant of
\* another type than its own, so the code generators choose the same
\* instructions with and without folding.  The constant is one of the
\* language; an integer fits those of the target, whatever was divided,
\* shifted or cast.
FoldKeepsType ==
  cur # None =>
    /\ cur.t = typ
    /\ WellFormed(cur)
    /\ cur.t = "list" => \A i \in DOMAIN cur.v : WellFormed(cur.v[i])

\* Without leave to create heap values folding makes no string that the
\* program does not hold already.
NoNewStrings == ~create => StringsOf(cur) \subseteq written

\* Dividing and taking the remainder of the same integers agree, the
\* smallest integer divided by -1 included, and neither is folded for zero.
DivisionLaw ==
  LET l == last.l  r == last.r IN
  last.op \in {"/", "%"} /\ l.t = "integer" /\ r.t = "integer" =>
    LET quotients == IntegerResults("/", l.v, r.v)
        remainders == IntegerResults("%", l.v, r.v)
    IN IF r.v = 0 THEN quotients = {} /\ remainders = {}
       ELSE /\ quotients # {} /\ remainders # {}
            /\ \A q \in quotients, m \in remainders :
                 /\ Wrap(q * r.v + m) = l.v
                 /\ Magnitude(m) < Magnitude(r.v)
                 /\ m # 0 => (m < 0) = (l.v < 0)

\* Whenever == is folded != is, one is true exactly when the other is not,
\* and neither depends on the order of its operands: for numbers of two
\* types, strings beside keys, and lists, whose != is no comparison.
EqualityLaw ==
  last.op \in Equalities =>
    LET equal(a, b) == {c.v # 0 : c \in BinaryResults("==", a, b)}
        unequal(a, b) == {c.v # 0 : c \in BinaryResults("!=", a, b)}
    IN /\ equal(last.l, last.r) = {~b : b \in unequal(last.l, last.r)}
       /\ equal(last.l, last.r) = equal(last.r, last.l)

\* The laws of the operators: of division, and of == and !=.
OperatorLaws == DivisionLaw /\ EqualityLaw

Promoted(c) == IF c.t = "integer" THEN FloatConst(Whole(c.v)) ELSE c

\* Folding an integer beside a float, vector or rotation gives what folding
\* gives after the promotion to float the Mono compiler inserts, if it gives
\* anything: a case with an integer and the one without are written apart.
FoldsAsPromoted ==
  LET results == BinaryResults(last.op, last.l, last.r) IN
  last.op # "none" /\ {last.l.t, last.r.t} \cap ({"float"} \cup Coordinates) # {} /\ results # {} =>
    results = BinaryResults(last.op, Promoted(last.l), Promoted(last.r))

\* The comparisons folded for integers, for floats and for either beside the
\* other are those of one order: one of <, == and > holds, turning the
\* operands around turns < into > and keeps ==, <= and >= are what > and <
\* are not, and a number of either type between two others compares with both
\* as they do with each other.
OneOrder ==
  LET holds(op, a, b) == BinaryResults(op, a, b) = {IntConst(1)}
      gives(op, a, b) == BinaryResults(op, a, b) # {}
  IN last.op \in Comparisons \cup Equalities /\ {last.l.t, last.r.t} \subseteq Numeric =>
       LET l == last.l  r == last.r IN
       /\ Cardinality({op \in {"<", "==", ">"} : holds(op, l, r)}) = 1
       /\ holds("<", l, r) = holds(">", r, l) /\ holds("==", l, r) = holds("==", r, l)
       /\ gives("<=", l, r) => holds("<=", l, r) = ~holds(">", l, r)
       /\ gives(">=", l, r) => holds(">=", l, r) = ~holds("<", l, r)
       /\ \A m \in Numbers, op \in {"<", "==", ">"} :
            holds(op, l, m) /\ holds(op, m, r) => holds(op, l, r)

\* Where a float or a vector takes part, adding what was subtracted and
\* multiplying by what was divided by gives the promoted operand again; only
\* a zero is not divided by, whatever its type.
Undone ==
  LET l == last.l  r == last.r
      results == BinaryResults(last.op, l, r)
      back(op) == \A c \in results : BinaryResults(op, c, r) = {Promoted(l)}
  IN {l.t, r.t} \cap {"float", "vector"} # {} =>
       /\ last.op = "-" /\ results # {} => back("+")
       /\ last.op = "/" /\ l.t \in Numeric \cup {"vector"} /\ r.t \in Numeric =>
            /\ (results = {}) = (AsFloat(r)[1] = 0)
            /\ back("*")

\* The laws of numbers of two types, over the case the code has for each pair.
MixedNumberLaws == FoldsAsPromoted /\ OneOrder /\ Undone

Dot(v, w) == Plus(Plus(Times(v[1], w[1]), Times(v[2], w[2])), Times(v[3], w[3]))
Vectors == last.l.t = "vector" /\ last.r.t = "vector"

\* The product of two vectors is their dot product, as the operator table
\* says of it.
VectorProductIsDot ==
  last.op = "*" /\ Vectors =>
    BinaryResults("*", last.l, last.r) = {FloatConst(Dot(last.l.v, last.r.v))}
=============================================================================
