------------------------------ MODULE MCPrinting ------------------------------
(***************************************************************************)
(* All expressions of a few tokens over a variable, a variable that is the *)
(* constant -1 unless it is assigned, a number, operators of six           *)
(* precedences, casts and brackets; by themselves, as a coordinate of a    *)
(* vector, of a vector in one, and after a comparison of vectors.          *)
(***************************************************************************)
EXTENDS Printing

MCIdentifiers == {"x", "n"}
MCValue == [v \in {"n"} |-> 0 - 1]
Words ==
  {"x", "n", "-", "!", "--", "=", "==", ">", "*", "(float)", "(", ")", "<", ",", "f("}
MCTokens == {Word(w) : w \in Words} \cup {Number(1, "float")}

X == Word("x")
Comma == Word(",")
Open == Word("<")
Three == <<X, Comma, X, Comma, X>>
MCBeginnings ==
  {[tokens |-> <<>>, room |-> 6],
   [tokens |-> <<Open, X, Comma, X, Comma>>, room |-> 6],
   [tokens |-> <<Open, X, Comma, X, Comma, Open, X, Comma, X, Comma>>, room |-> 4],
   [tokens |-> <<Open, Open>> \o Three \o <<Word(">"), Word("=="), Open>> \o Three
                 \o <<Word(">"), Comma, X, Comma>>, room |-> 4]}
=============================================================================
