------------------------------ MODULE MCFolding ------------------------------
(***************************************************************************)
(* Integers of four bits with the borders of their range, floats within    *)
(* and out of it, one text and its key, a numeral, vectors of small whole  *)
(* numbers that no two of their components share, and lists.               *)
(***************************************************************************)
EXTENDS Folding

Vector(x, y, z) == Const("vector", <<Whole(x), Whole(y), Whole(z)>>)

MCOperands ==
  {IntConst(n) : n \in {-8, -3, -1, 0, 2}}
    \cup {Const("float", q) : q \in {<<0, 1>>, <<3, 2>>, <<-9, 1>>}}
    \cup {Const("string", <<Text("a")>>), Const("key", <<Text("a")>>), Const("key", <<Text("b")>>),
          Const("string", <<<<"integer", Whole(2)>>>>)}
    \cup {Vector(1, 2, 3), Vector(2, 0, -1)}
    \cup {Const("rotation", <<Whole(1), Whole(0), Whole(2), Whole(1)>>)}
    \cup {Const("list", <<Const("string", <<Text("b")>>), IntConst(2)>>)}
=============================================================================
