------------------------------ MODULE ByteStream ------------------------------
(***************************************************************************)
(* The operations of class BitStream (bitstream.hh) as operators on its    *)
(* fields: `pos`, `size`, and `data`, the allocated buffer, of which       *)
(* _mAllocSize is the length.  The empty buffer is the null pointer: no    *)
(* operation here leaves a buffer of no bytes.  A written value is its     *)
(* bytes, already in the order the stream's endianness gives them.         *)
(***************************************************************************)
EXTENDS Naturals, Sequences

CONSTANTS
  Byte,        \* what a byte can be
  Zero,        \* what a cleared byte is
  MinRealloc   \* MIN_REALLOC

ASSUME ByteAssumption == Zero \in Byte
ASSUME MinReallocAssumption == MinRealloc \in Nat

Larger(a, b) == IF a > b THEN a ELSE b
Smaller(a, b) == IF a < b THEN a ELSE b

NewStream == [pos |-> 0, size |-> 0, data |-> <<>>]

\* The bytes of the stream; the buffer may hold more.
Contents(s) == [i \in 1 .. s.size |-> s.data[i]]

\* preAlloc: n more bytes, cleared.
Extended(data, n) ==
  [i \in 1 .. Len(data) + n |-> IF i <= Len(data) THEN data[i] ELSE Zero]

\* Mutant: room only for MIN_REALLOC more bytes.
ResizeByStep(s, n) ==
  IF s.data = <<>> THEN [s EXCEPT !.size = n, !.data = Extended(<<>>, n)]
  ELSE [s EXCEPT !.size = n, !.pos = Smaller(n, s.pos),
                 !.data = IF n <= Len(s.data) THEN s.data ELSE Extended(s.data, MinRealloc)]

\* resize: a buffer that is large enough is kept, with the bytes in it.
Resize(s, n) ==
  IF s.data = <<>> THEN [s EXCEPT !.size = n, !.data = Extended(<<>>, n)]
  ELSE [s EXCEPT !.size = n, !.pos = Smaller(n, s.pos),
                 !.data = IF n <= Len(s.data) THEN s.data
                          ELSE Extended(s.data, Larger(MinRealloc, n - s.size))]

\* Mutant: whether the end is beyond the size or not.
GrownAlways(s, end) == Resize(s, end)

Grown(s, end) == IF end > s.size THEN Resize(s, end) ELSE s

\* Mutant: from the first byte of the buffer.
OverwrittenFromStart(data, p, b) ==
  [i \in 1 .. Len(data) |-> IF i \in 1 .. Len(b) THEN b[i] ELSE data[i]]

\* The buffer with its bytes after the first p overwritten by those of b.
Overwritten(data, p, b) ==
  [i \in 1 .. Len(data) |-> IF i \in p + 1 .. p + Len(b) THEN b[i - p] ELSE data[i]]

\* operator<<, writeRawData and writeBitStream.
Write(s, b) ==
  IF b = <<>> THEN s
  ELSE LET g == Grown(s, s.pos + Len(b))
       IN [g EXCEPT !.data = Overwritten(g.data, g.pos, b), !.pos = g.pos + Len(b)]

\* moveTo that may allocate: one byte more than the cursor needs.
MoveAllocating(s, p) ==
  IF p > s.size THEN [Resize(s, p + 1) EXCEPT !.pos = p] ELSE [s EXCEPT !.pos = p]

\* moveTo that may not: past the end it moves nothing.
MoveTo(s, p) == IF p > s.size THEN s ELSE [s EXCEPT !.pos = p]

\* makeSpace: what follows the cursor moves up, and the gap is cleared.
MakeSpace(s, n) ==
  LET g == Resize(s, s.size + n)
  IN IF n > 0 /\ s.pos < s.size
     THEN [g EXCEPT !.data = [i \in 1 .. Len(g.data) |->
             IF i \in s.pos + 1 .. s.pos + n THEN Zero
             ELSE IF i \in s.pos + n + 1 .. s.size + n THEN s.data[i - n] ELSE g.data[i]]]
     ELSE g

\* removeSpace: what follows the removed bytes moves down over them.
RemoveSpace(s, n) ==
  Resize([s EXCEPT !.data = [i \in 1 .. Len(s.data) |->
            IF i \in s.pos + 1 .. s.size - n THEN s.data[i + n] ELSE s.data[i]]],
         s.size - n)
=============================================================================
