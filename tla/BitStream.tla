------------------------------- MODULE BitStream -------------------------------
(***************************************************************************)
(* A BitStream in use (bitstream.hh): every order of its operations, with  *)
(* nested ScopedBitStreamSeek objects, and a second stream that            *)
(* duplicate() or makeView() made of it.                                   *)
(*                                                                         *)
(* A client does not use a view once its stream has another buffer, and    *)
(* does not shrink a stream while a ScopedBitStreamSeek on it lives.       *)
(***************************************************************************)
EXTENDS ByteStream

CONSTANTS
  Endianness,   \* the orders of the bytes of a value
  MaxSize,      \* how long the client lets the stream become
  MaxSeeks      \* how many ScopedBitStreamSeeks it nests

ASSUME EndiannessAssumption == "big" \in Endianness
ASSUME BoundAssumption == MaxSize \in Nat /\ MaxSeeks \in Nat

VARIABLES
  stream,   \* the fields of the stream
  endian,   \* its _mEndianness
  seeks,    \* the _mOldPos of the ScopedBitStreamSeeks that live
  other     \* the second stream: kind, fields, endian

vars == <<stream, endian, seeks, other>>

NoOther == [kind |-> "none", fields |-> NewStream, endian |-> "big"]

Bytes == UNION {[1 .. n -> Byte] : n \in 1 .. 2}

\* The second stream when the first has become s.  A copy shares nothing with
\* it and is not followed further; a view goes on while the buffer is the same.
After(s) ==
  IF other.kind = "view" /\ Len(s.data) = Len(stream.data)
  THEN [other EXCEPT !.fields.data = s.data] ELSE NoOther

Becomes(s) ==
  /\ s.size <= MaxSize
  /\ stream' = s
  /\ other' = After(s)
  /\ UNCHANGED endian

Put == \E b \in Bytes : Becomes(Write(stream, b)) /\ UNCHANGED seeks
Move == \E p \in 0 .. MaxSize : Becomes(MoveTo(stream, p)) /\ UNCHANGED seeks
Skip == \E p \in 0 .. MaxSize : Becomes(MoveAllocating(stream, p)) /\ UNCHANGED seeks
Make == \E n \in 0 .. MaxSize : Becomes(MakeSpace(stream, n)) /\ UNCHANGED seeks

Shrink ==
  /\ seeks = <<>>
  /\ \/ \E n \in 0 .. MaxSize : Becomes(Resize(stream, n))
     \/ \E n \in 0 .. stream.size - stream.pos : Becomes(RemoveSpace(stream, n))
  /\ UNCHANGED seeks

\* ScopedBitStreamSeek, made and destroyed.
OpenSeek ==
  /\ Len(seeks) < MaxSeeks
  /\ seeks' = Append(seeks, stream.pos)
  /\ \E p \in 0 .. MaxSize : Becomes(MoveTo(stream, p)) \/ Becomes(MoveAllocating(stream, p))

\* Mutant: the scope that was opened first is left first.
CloseFirstSeek ==
  /\ seeks # <<>>
  /\ seeks' = SubSeq(seeks, 1, Len(seeks) - 1)
  /\ Becomes(MoveTo(stream, Head(seeks)))

CloseSeek ==
  /\ seeks # <<>>
  /\ seeks' = SubSeq(seeks, 1, Len(seeks) - 1)
  /\ Becomes(MoveTo(stream, seeks[Len(seeks)]))

\* makeView: the same buffer, from its start, in the default byte order.
MakeView ==
  /\ other' = [kind |-> "view", endian |-> "big",
               fields |-> [pos |-> 0, size |-> stream.size, data |-> stream.data]]
  /\ UNCHANGED <<stream, endian, seeks>>

\* duplicate: a buffer of its own, in the default byte order.
CopyOf(s) ==
  LET made == Grown([pos |-> 0, size |-> 0, data |-> Extended(<<>>, MinRealloc)], s.size)
  IN [made EXCEPT !.data = Overwritten(made.data, 0, Contents(s))]

Duplicate ==
  /\ other' = [kind |-> "copy", endian |-> "big", fields |-> MoveTo(CopyOf(stream), stream.pos)]
  /\ UNCHANGED <<stream, endian, seeks>>

\* operator<< on a view: only an attempt to make it longer is refused.
PutInView ==
  /\ other.kind = "view"
  /\ \E b \in Bytes :
       /\ other.fields.pos + Len(b) <= other.fields.size
       /\ other' = [other EXCEPT !.fields = Write(other.fields, b)]
       /\ stream' = [stream EXCEPT !.data = other'.fields.data]
  /\ UNCHANGED <<endian, seeks>>

Init ==
  /\ stream = NewStream
  /\ endian \in Endianness
  /\ seeks = <<>>
  /\ other = NoOther

Next ==
  \/ Put \/ Move \/ Skip \/ Make \/ Shrink
  \/ OpenSeek \/ CloseSeek
  \/ MakeView \/ Duplicate \/ PutInView

Spec == Init /\ [][Next]_vars

-----------------------------------------------------------------------------
(* Correctness. *)

Streams == [pos : Nat, size : Nat, data : Seq(Byte)]

\* The cursor is in the stream and the stream in its buffer: no operation
\* copies to or from bytes that are not allocated.
Within(s) == s.pos <= s.size /\ s.size <= Len(s.data)

StreamTypeOK ==
  /\ stream \in Streams /\ Within(stream)
  /\ endian \in Endianness
  /\ seeks \in Seq(Nat)
  /\ other \in [kind : {"none", "view", "copy"}, fields : Streams, endian : Endianness]
  /\ Within(other.fields)

\* Where a ScopedBitStreamSeek will go back to is still in the stream.
SeeksInStream == \A i \in 1 .. Len(seeks) : seeks[i] <= stream.size

\* However the stream grew and was moved in the scope, inner scopes included,
\* its end puts the cursor back where it was.
SeeksReturn == [][Len(seeks') < Len(seeks) => stream'.pos = seeks[Len(seeks)]]_vars

\* Growing, shrinking and reusing the buffer never disturb a byte an operation
\* is not about.
File == INSTANCE ByteFile WITH content <- Contents(stream), cursor <- stream.pos
ImplementsFile == File!Spec
=============================================================================
