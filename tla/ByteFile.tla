------------------------------- MODULE ByteFile -------------------------------
(***************************************************************************)
(* What a BitStream promises: a file of bytes with a cursor.  Writing      *)
(* replaces or adds bytes at the cursor and nowhere else; nothing is said  *)
(* of the bytes that come with an extension.                               *)
(***************************************************************************)
EXTENDS Naturals, Sequences

VARIABLES content, cursor

file == <<content, cursor>>

\* The first n bytes stay what they were.
Keeps(n) == \A i \in 1 .. n : content'[i] = content[i]

Write ==
  \E n \in 1 .. Len(content') - cursor :
    /\ cursor' = cursor + n
    /\ Len(content') = IF cursor + n > Len(content) THEN cursor + n ELSE Len(content)
    /\ Keeps(cursor)
    /\ \A i \in cursor + n + 1 .. Len(content) : content'[i] = content[i]

Seek ==
  /\ cursor' \in 0 .. Len(content')
  /\ Len(content') >= Len(content)
  /\ Keeps(Len(content))

Truncate ==
  /\ Len(content') < Len(content)
  /\ Keeps(Len(content'))
  /\ cursor' = IF cursor < Len(content') THEN cursor ELSE Len(content')

Insert ==
  \E n \in 1 .. Len(content') :
    /\ Len(content') = Len(content) + n
    /\ Keeps(cursor)
    /\ \A i \in cursor + 1 .. Len(content) : content'[i + n] = content[i]
    /\ cursor' = cursor

Delete ==
  \E n \in 1 .. Len(content) :
    /\ Len(content) = Len(content') + n
    /\ Keeps(cursor)
    /\ \A i \in cursor + 1 .. Len(content') : content'[i] = content[i + n]
    /\ cursor' = cursor

\* Another stream on the same bytes writes to them.
Share == Len(content') = Len(content) /\ cursor' = cursor

Init == content = <<>> /\ cursor = 0
Next == Write \/ Seek \/ Truncate \/ Insert \/ Delete \/ Share
Spec == Init /\ [][Next]_file
=============================================================================
