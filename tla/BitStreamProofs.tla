---------------------------- MODULE BitStreamProofs ----------------------------
(***************************************************************************)
(* Proofs about module BitStream, for every set of bytes, every step the   *)
(* buffer grows by and every bound on the client.                          *)
(***************************************************************************)
EXTENDS BitStream, SequenceTheorems, TLAPS

-----------------------------------------------------------------------------
(* What the operations of ByteStream do to a stream within its buffer. *)

\* More memory leaves the bytes that are there.
LEMMA ExtendedFacts ==
  ASSUME NEW d \in Seq(Byte), NEW n \in Nat
  PROVE  /\ Extended(d, n) \in Seq(Byte)
         /\ Len(Extended(d, n)) = Len(d) + n
         /\ \A i \in 1 .. Len(d) : Extended(d, n)[i] = d[i]
<1>1. \A i \in 1 .. Len(d) + n : i <= Len(d) => d[i] \in Byte
  OBVIOUS
<1>2. Extended(d, n) \in [1 .. Len(d) + n -> Byte]
  BY <1>1, ByteAssumption DEF Extended
<1>3. Len(d) + n \in Nat
  OBVIOUS
<1> QED BY <1>2, <1>3 DEF Extended

\* Copying over a part of the buffer leaves the rest.
LEMMA OverwrittenFacts ==
  ASSUME NEW d \in Seq(Byte), NEW p \in Nat, NEW b \in Seq(Byte)
  PROVE  /\ Overwritten(d, p, b) \in Seq(Byte)
         /\ Len(Overwritten(d, p, b)) = Len(d)
         /\ \A i \in 1 .. Len(d) :
              i \notin p + 1 .. p + Len(b) => Overwritten(d, p, b)[i] = d[i]
<1>1. \A i \in 1 .. Len(d) : i \in p + 1 .. p + Len(b) => b[i - p] \in Byte
  OBVIOUS
<1>2. Overwritten(d, p, b) \in [1 .. Len(d) -> Byte]
  BY <1>1 DEF Overwritten
<1> QED BY <1>2 DEF Overwritten

\* resize: the new size, a cursor no further than it, and every byte of the
\* buffer where it was.
LEMMA ResizeFacts ==
  ASSUME NEW s \in Streams, Within(s), NEW n \in Nat
  PROVE  /\ Resize(s, n) \in Streams /\ Within(Resize(s, n))
         /\ Resize(s, n).size = n
         /\ Resize(s, n).pos = Smaller(n, s.pos)
         /\ Len(s.data) <= Len(Resize(s, n).data)
         /\ \A i \in 1 .. Len(s.data) : Resize(s, n).data[i] = s.data[i]
<1>1. CASE s.data = <<>>
  <2>1. s.pos = 0 /\ s.size = 0
    BY <1>1 DEF Streams, Within
  <2>2. <<>> \in Seq(Byte) /\ Len(<<>>) = 0 /\ Len(<<>>) + n = n
    OBVIOUS
  <2> DEFINE d == Extended(<<>>, n)
  <2>3. d \in Seq(Byte) /\ Len(d) = Len(<<>>) + n
    BY <2>2, ExtendedFacts
  <2>4. Resize(s, n) = [s EXCEPT !.size = n, !.data = d]
    BY <1>1 DEF Resize
  <2> HIDE DEF d
  <2>5. Resize(s, n) = [pos |-> 0, size |-> n, data |-> d]
    BY <2>1, <2>4 DEF Streams
  <2> QED BY <1>1, <2>1, <2>2, <2>3, <2>5 DEF Streams, Within, Smaller
<1>2. CASE s.data # <<>> /\ n <= Len(s.data)
  <2>1. Resize(s, n) = [pos |-> Smaller(n, s.pos), size |-> n, data |-> s.data]
    BY <1>2 DEF Resize, Streams
  <2> QED BY <1>2, <2>1 DEF Streams, Within, Smaller
<1>3. CASE s.data # <<>> /\ n > Len(s.data)
  <2> DEFINE k == Larger(MinRealloc, n - s.size)
             d == Extended(s.data, k)
  <2>1. s.size \in Nat /\ s.pos \in Nat /\ s.data \in Seq(Byte) /\ Len(s.data) \in Nat
    BY DEF Streams
  <2>2. k \in Nat /\ Len(s.data) + k >= n
    BY <1>3, <2>1, MinReallocAssumption DEF Within, Larger
  <2>3. ~(n <= Len(s.data))
    BY <1>3, <2>1
  <2>4. Resize(s, n) = [pos |-> Smaller(n, s.pos), size |-> n, data |-> d]
    BY <1>3, <2>3 DEF Resize, Streams
  <2> HIDE DEF k
  <2>5. d \in Seq(Byte) /\ Len(d) = Len(s.data) + k /\ \A i \in 1 .. Len(s.data) : d[i] = s.data[i]
    BY <2>1, <2>2, ExtendedFacts
  <2> HIDE DEF d
  <2> QED BY <2>1, <2>2, <2>4, <2>5 DEF Streams, Within, Smaller
<1> QED BY <1>1, <1>2, <1>3 DEF Streams

\* Growing for what is to be written up to `end`: the cursor stays.
LEMMA GrownFacts ==
  ASSUME NEW s \in Streams, Within(s), NEW end \in Nat
  PROVE  /\ Grown(s, end) \in Streams /\ Within(Grown(s, end))
         /\ Grown(s, end).size = Larger(end, s.size)
         /\ Grown(s, end).pos = s.pos
         /\ Len(s.data) <= Len(Grown(s, end).data)
         /\ \A i \in 1 .. Len(s.data) : Grown(s, end).data[i] = s.data[i]
<1>1. CASE end > s.size
  BY <1>1, ResizeFacts DEF Grown, Larger, Smaller, Streams, Within
<1>2. CASE ~(end > s.size)
  BY <1>2 DEF Grown, Larger, Streams, Within
<1> QED BY <1>1, <1>2

\* Writing: the cursor is after the bytes, and nothing outside them changes.
LEMMA WriteFacts ==
  ASSUME NEW s \in Streams, Within(s), NEW b \in Seq(Byte)
  PROVE  /\ Write(s, b) \in Streams /\ Within(Write(s, b))
         /\ Write(s, b).size = Larger(s.pos + Len(b), s.size)
         /\ Write(s, b).pos = s.pos + Len(b)
         /\ Len(s.data) <= Len(Write(s, b).data)
         /\ \A i \in 1 .. Len(s.data) :
              i \notin s.pos + 1 .. s.pos + Len(b) => Write(s, b).data[i] = s.data[i]
<1>1. CASE b = <<>>
  BY <1>1 DEF Write, Larger, Streams, Within
<1>2. CASE b # <<>>
  <2> DEFINE g == Grown(s, s.pos + Len(b))
  <2>1. s.pos + Len(b) \in Nat /\ s.pos \in Nat
    BY DEF Streams
  <2>2. /\ g \in Streams /\ Within(g) /\ g.size = Larger(s.pos + Len(b), s.size) /\ g.pos = s.pos
        /\ Len(s.data) <= Len(g.data) /\ \A i \in 1 .. Len(s.data) : g.data[i] = s.data[i]
    BY <2>1, GrownFacts
  <2>3. g.data \in Seq(Byte)
    BY <2>2 DEF Streams
  <2> DEFINE o == Overwritten(g.data, g.pos, b)
  <2>4. /\ o \in Seq(Byte) /\ Len(o) = Len(g.data)
        /\ \A i \in 1 .. Len(g.data) : i \notin g.pos + 1 .. g.pos + Len(b) => o[i] = g.data[i]
    BY <2>1, <2>2, <2>3, OverwrittenFacts
  <2>5. Write(s, b) = [g EXCEPT !.data = o, !.pos = g.pos + Len(b)]
    BY <1>2 DEF Write
  <2>6. s.data \in Seq(Byte) /\ s.size \in Nat
    BY DEF Streams
  <2> HIDE DEF g, o
  <2>7. Write(s, b) = [pos |-> s.pos + Len(b), size |-> g.size, data |-> o]
    BY <2>2, <2>5 DEF Streams
  <2>8. Write(s, b) \in Streams
    BY <2>1, <2>2, <2>4, <2>7 DEF Streams
  <2>9. Within(Write(s, b))
    BY <2>1, <2>2, <2>4, <2>6, <2>7 DEF Within, Larger
  <2> QED BY <2>1, <2>2, <2>4, <2>6, <2>7, <2>8, <2>9
<1> QED BY <1>1, <1>2

\* Moving: where it may allocate the cursor gets where it is sent, where it may
\* not it is moved only to a place the stream has.
LEMMA MoveFacts ==
  ASSUME NEW s \in Streams, Within(s), NEW p \in Nat
  PROVE  /\ MoveTo(s, p) \in Streams /\ Within(MoveTo(s, p))
         /\ MoveTo(s, p).size = s.size
         /\ p <= s.size => MoveTo(s, p).pos = p
         /\ MoveAllocating(s, p) \in Streams /\ Within(MoveAllocating(s, p))
         /\ MoveAllocating(s, p).size >= s.size
         /\ MoveAllocating(s, p).pos = p
<1>1. s.size \in Nat /\ s.pos \in Nat
  BY DEF Streams
<1>2. CASE p > s.size
  <2> DEFINE g == Resize(s, p + 1)
  <2>1. g \in Streams /\ Within(g) /\ g.size = p + 1
    BY ResizeFacts
  <2>2. MoveAllocating(s, p) = [g EXCEPT !.pos = p] /\ MoveTo(s, p) = s
    BY <1>2 DEF MoveAllocating, MoveTo
  <2> HIDE DEF g
  <2> QED BY <1>1, <1>2, <2>1, <2>2 DEF Streams, Within
<1>3. CASE p <= s.size
  BY <1>1, <1>3 DEF MoveAllocating, MoveTo, Streams, Within
<1> QED BY <1>1, <1>2, <1>3

\* Making room: the cursor stays.
LEMMA MakeSpaceFacts ==
  ASSUME NEW s \in Streams, Within(s), NEW n \in Nat
  PROVE  /\ MakeSpace(s, n) \in Streams /\ Within(MakeSpace(s, n))
         /\ MakeSpace(s, n).size = s.size + n
<1> DEFINE g == Resize(s, s.size + n)
           moved == [i \in 1 .. Len(g.data) |->
             IF i \in s.pos + 1 .. s.pos + n THEN Zero
             ELSE IF i \in s.pos + n + 1 .. s.size + n THEN s.data[i - n] ELSE g.data[i]]
<1>1. s.size \in Nat /\ s.pos \in Nat /\ s.data \in Seq(Byte) /\ s.size <= Len(s.data)
  BY DEF Streams, Within
<1>2. g \in Streams /\ Within(g) /\ g.size = s.size + n
  BY <1>1, ResizeFacts
<1>3. g.data \in Seq(Byte)
  BY <1>2 DEF Streams
<1>4. MakeSpace(s, n) = IF n > 0 /\ s.pos < s.size THEN [g EXCEPT !.data = moved] ELSE g
  BY DEF MakeSpace
<1>5. moved \in Seq(Byte) /\ Len(moved) = Len(g.data)
  <2> HIDE DEF g
  <2>1. \A i \in 1 .. Len(g.data) : moved[i] \in Byte
    <3>1. \A i \in s.pos + n + 1 .. s.size + n : s.data[i - n] \in Byte
      BY <1>1
    <3>2. \A i \in 1 .. Len(g.data) : g.data[i] \in Byte
      BY <1>3
    <3> QED BY <3>1, <3>2, ByteAssumption
  <2>2. moved \in [1 .. Len(g.data) -> Byte]
    BY <2>1
  <2> HIDE DEF moved
  <2> QED BY <1>3, <2>2
<1> HIDE DEF g, moved
<1> QED BY <1>2, <1>4, <1>5 DEF Streams, Within

\* Removing no more than what follows the cursor.
LEMMA RemoveSpaceFacts ==
  ASSUME NEW s \in Streams, Within(s), NEW n \in 0 .. s.size - s.pos
  PROVE  RemoveSpace(s, n) \in Streams /\ Within(RemoveSpace(s, n))
<1> DEFINE moved == [i \in 1 .. Len(s.data) |->
             IF i \in s.pos + 1 .. s.size - n THEN s.data[i + n] ELSE s.data[i]]
           m == [s EXCEPT !.data = moved]
<1>1. s.size \in Nat /\ s.pos \in Nat /\ s.data \in Seq(Byte) /\ s.size <= Len(s.data)
  BY DEF Streams, Within
<1>2. moved \in [1 .. Len(s.data) -> Byte]
  BY <1>1
<1>3. moved \in Seq(Byte) /\ Len(moved) = Len(s.data)
  <2> HIDE DEF moved
  <2> QED BY <1>1, <1>2
<1>4. m \in Streams /\ Within(m)
  <2> HIDE DEF moved
  <2> QED BY <1>3 DEF Streams, Within
<1>5. s.size - n \in Nat
  BY <1>1
<1>6. RemoveSpace(s, n) = Resize(m, s.size - n)
  BY DEF RemoveSpace
<1> HIDE DEF m
<1> QED BY <1>4, <1>5, <1>6, ResizeFacts

\* A copy is a stream of its own.
LEMMA CopyFacts ==
  ASSUME NEW s \in Streams, Within(s)
  PROVE  CopyOf(s) \in Streams /\ Within(CopyOf(s))
<1> DEFINE d == Extended(<<>>, MinRealloc)
           empty == [pos |-> 0, size |-> 0, data |-> d]
           made == Grown(empty, s.size)
           o == Overwritten(made.data, 0, Contents(s))
<1>1. s.size \in Nat /\ s.data \in Seq(Byte) /\ s.size <= Len(s.data)
  BY DEF Streams, Within
<1>2. Contents(s) \in Seq(Byte)
  <2>1. Contents(s) \in [1 .. s.size -> Byte]
    BY <1>1 DEF Contents
  <2> QED BY <1>1, <2>1
<1>3. d \in Seq(Byte) /\ Len(d) \in Nat
  <2>1. <<>> \in Seq(Byte)
    OBVIOUS
  <2>2. d \in Seq(Byte)
    BY <2>1, MinReallocAssumption, ExtendedFacts
  <2> HIDE DEF d
  <2> QED BY <2>2
<1>4. empty \in Streams /\ Within(empty)
  <2> HIDE DEF d
  <2> QED BY <1>3 DEF Streams, Within
<1>5. made \in Streams /\ Within(made)
  <2> HIDE DEF empty
  <2> QED BY <1>1, <1>4, GrownFacts
<1>6. CopyOf(s) = [made EXCEPT !.data = o]
  BY DEF CopyOf
<1> HIDE DEF made
<1>7. o \in Seq(Byte) /\ Len(o) = Len(made.data)
  <2>1. made.data \in Seq(Byte)
    BY <1>5 DEF Streams
  <2> QED BY <1>2, <2>1, OverwrittenFacts
<1> HIDE DEF o
<1> QED BY <1>5, <1>6, <1>7 DEF Streams, Within

-----------------------------------------------------------------------------
(* The inductive invariant.  A write through a view must leave the stream  *)
(* within its buffer, so it has to say that the buffers are the same.      *)

ViewShares == other.kind = "view" => other.fields.data = stream.data

Inv == StreamTypeOK /\ ViewShares /\ SeeksInStream

LEMMA InitInv == Init => Inv
<1> SUFFICES ASSUME Init PROVE Inv
  OBVIOUS
<1>1. NewStream \in Streams /\ Within(NewStream)
  BY DEF NewStream, Streams, Within
<1> QED BY <1>1, EndiannessAssumption DEF Init, Inv, StreamTypeOK, ViewShares, SeeksInStream, NoOther

\* What every step that sets the stream's fields to s has in common.
LEMMA BecomesFacts ==
  ASSUME Inv, NEW s \in Streams, Within(s), Becomes(s)
  PROVE  /\ stream' \in Streams /\ Within(stream') /\ stream' = s
         /\ endian' \in Endianness
         /\ other' \in [kind : {"none", "view", "copy"}, fields : Streams, endian : Endianness]
         /\ Within(other'.fields)
         /\ ViewShares'
<1>1. stream' = s /\ endian' = endian /\ other' = After(s)
  BY DEF Becomes
<1>2. CASE other.kind = "view" /\ Len(s.data) = Len(stream.data)
  <2>1. other' = [other EXCEPT !.fields.data = s.data]
    BY <1>1, <1>2 DEF After
  <2>2. other.fields \in Streams /\ Within(other.fields) /\ other.fields.data = stream.data
    BY <1>2 DEF Inv, StreamTypeOK, ViewShares
  <2>3. other'.fields = [other.fields EXCEPT !.data = s.data]
    BY <2>1 DEF Inv, StreamTypeOK
  <2>4. other'.fields \in Streams /\ Within(other'.fields) /\ other'.fields.data = s.data
    BY <1>2, <2>2, <2>3 DEF Streams, Within
  <2> QED BY <1>1, <2>1, <2>4 DEF Inv, StreamTypeOK, ViewShares
<1>3. CASE ~(other.kind = "view" /\ Len(s.data) = Len(stream.data))
  <2>1. other' = NoOther
    BY <1>1, <1>3 DEF After
  <2>2. NewStream \in Streams /\ Within(NewStream)
    BY DEF NewStream, Streams, Within
  <2> QED BY <1>1, <2>1, <2>2, EndiannessAssumption DEF Inv, StreamTypeOK, ViewShares, NoOther
<1> QED BY <1>2, <1>3

\* A step that makes the stream no shorter and leaves the seeks alone.
LEMMA GrowthKeepsInv ==
  ASSUME Inv, NEW s \in Streams, Within(s), Becomes(s), s.size >= stream.size,
         UNCHANGED seeks
  PROVE  Inv'
<1>1. stream.size \in Nat /\ s.size \in Nat
  BY DEF Inv, StreamTypeOK, Streams
<1>2. SeeksInStream'
  BY <1>1, BecomesFacts DEF Inv, StreamTypeOK, SeeksInStream
<1> QED BY <1>2, BecomesFacts DEF Inv, StreamTypeOK

\* The places a cursor is sent to are numbers, and so are the cursors.
LEMMA Numbers ==
  ASSUME Inv
  PROVE  /\ stream \in Streams /\ Within(stream) /\ stream.size \in Nat /\ stream.pos \in Nat
         /\ 0 .. MaxSize \subseteq Nat
         /\ Bytes \subseteq Seq(Byte)
<1>1. 0 .. MaxSize \subseteq Nat
  BY BoundAssumption
<1>2. Bytes \subseteq Seq(Byte)
  <2>1. \A n \in 1 .. 2 : [1 .. n -> Byte] \subseteq Seq(Byte)
    OBVIOUS
  <2> QED BY <2>1 DEF Bytes
<1>3. stream \in Streams /\ Within(stream)
  BY DEF Inv, StreamTypeOK
<1> QED BY <1>1, <1>2, <1>3 DEF Streams

LEMMA OpenSeekInv == Inv /\ OpenSeek => Inv'
<1> SUFFICES ASSUME Inv, OpenSeek PROVE Inv'
  OBVIOUS
<1>1. PICK p \in 0 .. MaxSize : Becomes(MoveTo(stream, p)) \/ Becomes(MoveAllocating(stream, p))
  BY DEF OpenSeek
<1>2. PICK s : /\ s \in Streams /\ Within(s) /\ s.size >= stream.size /\ Becomes(s)
  <2>1. p \in Nat /\ stream \in Streams /\ Within(stream) /\ stream.size \in Nat
    BY Numbers
  <2>2. /\ MoveTo(stream, p) \in Streams /\ Within(MoveTo(stream, p))
        /\ MoveTo(stream, p).size >= stream.size
    BY <2>1, MoveFacts
  <2>3. /\ MoveAllocating(stream, p) \in Streams /\ Within(MoveAllocating(stream, p))
        /\ MoveAllocating(stream, p).size >= stream.size
    BY <2>1, MoveFacts
  <2> QED BY <1>1, <2>2, <2>3
<1>3. seeks' = Append(seeks, stream.pos) /\ seeks \in Seq(Nat)
  BY DEF OpenSeek, Inv, StreamTypeOK
<1>4. seeks' \in Seq(Nat) /\ \A i \in 1 .. Len(seeks') : seeks'[i] <= stream.size
  <2>1. stream.pos <= stream.size
    BY Numbers DEF Within
  <2> QED BY <1>3, <2>1, Numbers DEF Inv, SeeksInStream
<1>5. stream'.size \in Nat /\ stream'.size >= stream.size
  BY <1>2, BecomesFacts DEF Streams
<1>6. SeeksInStream'
  BY <1>4, <1>5, Numbers DEF SeeksInStream
<1> QED BY <1>2, <1>4, <1>6, BecomesFacts DEF Inv, StreamTypeOK

LEMMA CloseSeekInv == Inv /\ CloseSeek => Inv'
<1> SUFFICES ASSUME Inv, CloseSeek PROVE Inv'
  OBVIOUS
<1> DEFINE p == seeks[Len(seeks)]
<1>1. /\ seeks \in Seq(Nat) /\ Len(seeks) \in Nat \ {0}
      /\ seeks' = SubSeq(seeks, 1, Len(seeks) - 1) /\ Becomes(MoveTo(stream, p))
  BY DEF CloseSeek, Inv, StreamTypeOK
<1>2. p \in Nat
  BY <1>1
<1>3. MoveTo(stream, p) \in Streams /\ Within(MoveTo(stream, p)) /\ MoveTo(stream, p).size = stream.size
  BY <1>2, Numbers, MoveFacts
<1>4. /\ seeks' \in Seq(Nat) /\ Len(seeks') = Len(seeks) - 1
      /\ \A i \in 1 .. Len(seeks') : seeks'[i] = seeks[i]
  <2> DEFINE n == Len(seeks) - 1
  <2>1. n \in Nat /\ \A i \in 1 .. n : seeks[i] \in Nat
    BY <1>1
  <2>2. /\ SubSeq(seeks, 1, n) \in Seq(Nat) /\ Len(SubSeq(seeks, 1, n)) = IF 1 <= n THEN n - 1 + 1 ELSE 0
        /\ \A i \in 1 .. n - 1 + 1 : SubSeq(seeks, 1, n)[i] = seeks[1 + i - 1]
    BY <2>1, SubSeqProperties
  <2>3. n - 1 + 1 = n /\ \A i \in 1 .. n : 1 + i - 1 = i
    BY <2>1
  <2>4. Len(SubSeq(seeks, 1, n)) = n
    BY <2>1, <2>2
  <2>5. seeks' = SubSeq(seeks, 1, n)
    BY <1>1
  <2> HIDE DEF n
  <2>6. seeks' \in Seq(Nat) /\ Len(seeks') = n /\ \A i \in 1 .. Len(seeks') : seeks'[i] = seeks[i]
    BY <2>1, <2>2, <2>3, <2>4, <2>5
  <2> QED BY <2>6 DEF n
<1>5. stream' = MoveTo(stream, p)
  BY <1>1 DEF Becomes
<1>6. SeeksInStream'
  <2>1. stream'.size = stream.size
    BY <1>3, <1>5
  <2>2. \A i \in 1 .. Len(seeks') : i \in 1 .. Len(seeks) /\ seeks'[i] = seeks[i]
    BY <1>1, <1>4
  <2> QED BY <2>1, <2>2 DEF SeeksInStream, Inv
<1> QED BY <1>1, <1>3, <1>4, <1>6, BecomesFacts DEF Inv, StreamTypeOK

\* A write through a view stays in the bytes both streams have.
LEMMA PutInViewInv == Inv /\ PutInView => Inv'
<1> SUFFICES ASSUME Inv, PutInView PROVE Inv'
  OBVIOUS
<1> DEFINE f == other.fields
<1>1. PICK b \in Bytes :
        /\ f.pos + Len(b) <= f.size
        /\ other' = [other EXCEPT !.fields = Write(f, b)]
        /\ stream' = [stream EXCEPT !.data = other'.fields.data]
  BY DEF PutInView
<1>2. f \in Streams /\ Within(f) /\ f.data = stream.data /\ b \in Seq(Byte)
  BY Numbers DEF PutInView, Inv, StreamTypeOK, ViewShares
<1>3. Write(f, b) \in Streams /\ Within(Write(f, b))
  BY <1>2, WriteFacts
<1>4. Len(Write(f, b).data) = Len(f.data)
  <2>1. CASE b = <<>>
    BY <2>1 DEF Write
  <2>2. CASE b # <<>>
    <3>1. Grown(f, f.pos + Len(b)) = f
      BY <1>1, <1>2 DEF Grown, Streams
    <3>2. f.data \in Seq(Byte) /\ f.pos \in Nat
      BY <1>2 DEF Streams
    <3>3. Write(f, b) = [f EXCEPT !.data = Overwritten(f.data, f.pos, b), !.pos = f.pos + Len(b)]
      BY <2>2, <3>1 DEF Write
    <3>4. Write(f, b).data = Overwritten(f.data, f.pos, b)
      BY <1>2, <3>3 DEF Streams
    <3> QED BY <1>2, <3>2, <3>4, OverwrittenFacts
  <2> QED BY <2>1, <2>2
<1>5. other'.fields = Write(f, b) /\ other'.kind = "view" /\ other'.endian = other.endian
  BY <1>1 DEF PutInView, Inv, StreamTypeOK
<1>6. other' \in [kind : {"none", "view", "copy"}, fields : Streams, endian : Endianness]
  BY <1>1, <1>3 DEF Inv, StreamTypeOK
<1>7. Write(f, b).data \in Seq(Byte)
  BY <1>3 DEF Streams
<1>8. /\ stream' \in Streams /\ stream'.data = Write(f, b).data
      /\ stream'.size = stream.size /\ stream'.pos = stream.pos
  <2> DEFINE d == Write(f, b).data
  <2>1. stream' = [stream EXCEPT !.data = d]
    BY <1>1, <1>5
  <2> HIDE DEF d
  <2>2. d \in Seq(Byte)
    BY <1>7 DEF d
  <2>3. /\ stream' \in Streams /\ stream'.data = d
        /\ stream'.size = stream.size /\ stream'.pos = stream.pos
    BY <2>1, <2>2, Numbers DEF Streams
  <2> QED BY <2>3 DEF d
<1>9. Within(stream')
  BY <1>2, <1>4, <1>8, Numbers DEF Within
<1>10. endian' = endian /\ seeks' = seeks
  BY DEF PutInView
<1>11. StreamTypeOK' /\ SeeksInStream'
  BY <1>3, <1>5, <1>6, <1>8, <1>9, <1>10 DEF Inv, StreamTypeOK, SeeksInStream
<1>12. ViewShares'
  BY <1>5, <1>8 DEF ViewShares
<1> QED BY <1>11, <1>12 DEF Inv

LEMMA StepInv == Inv /\ [Next]_vars => Inv'
<1> SUFFICES ASSUME Inv, [Next]_vars PROVE Inv'
  OBVIOUS
<1> USE Numbers
<1>1. CASE Put
  <2>1. PICK b \in Bytes : Becomes(Write(stream, b)) /\ UNCHANGED seeks
    BY <1>1 DEF Put
  <2>2. b \in Seq(Byte)
    OBVIOUS
  <2>3. /\ Write(stream, b) \in Streams /\ Within(Write(stream, b))
        /\ Write(stream, b).size >= stream.size
    BY <2>2, WriteFacts DEF Larger
  <2> QED BY <2>1, <2>3, GrowthKeepsInv
<1>2. CASE Move
  <2>1. PICK p \in 0 .. MaxSize : Becomes(MoveTo(stream, p)) /\ UNCHANGED seeks
    BY <1>2 DEF Move
  <2>2. /\ MoveTo(stream, p) \in Streams /\ Within(MoveTo(stream, p))
        /\ MoveTo(stream, p).size >= stream.size
    <3>1. /\ MoveTo(stream, p) \in Streams /\ Within(MoveTo(stream, p))
          /\ MoveTo(stream, p).size = stream.size
      BY MoveFacts
    <3>2. stream.size \in Nat
      BY Numbers
    <3> HIDE Numbers
    <3> QED BY <3>1, <3>2
  <2> QED BY <2>1, <2>2, GrowthKeepsInv
<1>3. CASE Skip
  <2>1. PICK p \in 0 .. MaxSize : Becomes(MoveAllocating(stream, p)) /\ UNCHANGED seeks
    BY <1>3 DEF Skip
  <2> QED BY <2>1, MoveFacts, GrowthKeepsInv
<1>4. CASE Make
  <2>1. PICK n \in 0 .. MaxSize : Becomes(MakeSpace(stream, n)) /\ UNCHANGED seeks
    BY <1>4 DEF Make
  <2>2. MakeSpace(stream, n).size = stream.size + n
    BY MakeSpaceFacts
  <2> QED BY <2>1, <2>2, MakeSpaceFacts, GrowthKeepsInv
<1>5. CASE Shrink
  <2>1. PICK s : s \in Streams /\ Within(s) /\ Becomes(s)
    <3>1. CASE \E n \in 0 .. MaxSize : Becomes(Resize(stream, n))
      BY <3>1, ResizeFacts
    <3>2. CASE \E n \in 0 .. stream.size - stream.pos : Becomes(RemoveSpace(stream, n))
      BY <3>2, RemoveSpaceFacts
    <3> QED BY <1>5, <3>1, <3>2 DEF Shrink
  <2>2. seeks = <<>> /\ seeks' = seeks
    BY <1>5 DEF Shrink
  <2> QED BY <2>1, <2>2, BecomesFacts DEF Inv, StreamTypeOK, SeeksInStream
<1>6. CASE MakeView
  <2>1. /\ other' = [kind |-> "view", endian |-> "big",
                     fields |-> [pos |-> 0, size |-> stream.size, data |-> stream.data]]
        /\ UNCHANGED <<stream, endian, seeks>>
    BY <1>6 DEF MakeView
  <2> QED BY <2>1, EndiannessAssumption DEF Inv, StreamTypeOK, ViewShares, SeeksInStream, Streams, Within
<1>7. CASE Duplicate
  <2> DEFINE c == MoveTo(CopyOf(stream), stream.pos)
  <2>1. c \in Streams /\ Within(c)
    BY CopyFacts, MoveFacts
  <2>2. other' = [kind |-> "copy", endian |-> "big", fields |-> c] /\ UNCHANGED <<stream, endian, seeks>>
    BY <1>7 DEF Duplicate
  <2> HIDE DEF c
  <2> QED BY <2>1, <2>2, EndiannessAssumption DEF Inv, StreamTypeOK, ViewShares, SeeksInStream
<1>8. CASE UNCHANGED vars
  BY <1>8 DEF vars, Inv, StreamTypeOK, ViewShares, SeeksInStream
<1> QED BY <1>1, <1>2, <1>3, <1>4, <1>5, <1>6, <1>7, <1>8,
           OpenSeekInv, CloseSeekInv, PutInViewInv DEF Next

\* The invariant holds of every client of a BitStream.
THEOREM InvariantHolds == Spec => []Inv
<1> QED BY InitInv, StepInv, PTL DEF Spec

\* No operation reaches outside the allocated bytes: the cursor stays in the
\* stream and the stream in its buffer.
THEOREM TypeCorrect == Spec => []StreamTypeOK
<1>1. Inv => StreamTypeOK
  BY DEF Inv
<1> QED BY <1>1, InvariantHolds, PTL

\* Where a ScopedBitStreamSeek will go back to is still in the stream.
THEOREM SeeksStay == Spec => []SeeksInStream
<1>1. Inv => SeeksInStream
  BY DEF Inv
<1> QED BY <1>1, InvariantHolds, PTL

\* The end of a ScopedBitStreamSeek puts the cursor back, whatever happened to
\* the stream in its scope.
THEOREM SeeksAlwaysReturn == Spec => SeeksReturn
<1>1. Inv /\ [Next]_vars => [Len(seeks') < Len(seeks) => stream'.pos = seeks[Len(seeks)]]_vars
  <2> SUFFICES ASSUME Inv, Next, Len(seeks') < Len(seeks)
               PROVE  stream'.pos = seeks[Len(seeks)]
    OBVIOUS
  <2>1. seeks \in Seq(Nat) /\ Len(seeks) \in Nat
    BY DEF Inv, StreamTypeOK
  <2>2. CASE CloseSeek
    <3>1. Len(seeks) \in 1 .. Len(seeks) /\ stream' = MoveTo(stream, seeks[Len(seeks)])
      BY <2>1, <2>2 DEF CloseSeek, Becomes
    <3>2. seeks[Len(seeks)] \in Nat /\ seeks[Len(seeks)] <= stream.size
      BY <2>1, <3>1 DEF Inv, SeeksInStream
    <3> QED BY <3>1, <3>2, Numbers, MoveFacts
  <2>3. CASE OpenSeek
    BY <2>1, <2>3 DEF OpenSeek, Inv, StreamTypeOK
  <2>4. CASE UNCHANGED seeks
    BY <2>1, <2>4
  <2> QED BY <2>2, <2>3, <2>4 DEF Next, Put, Move, Skip, Make, Shrink, MakeView, Duplicate, PutInView
<1> QED BY <1>1, InvariantHolds, PTL DEF Spec, SeeksReturn

-----------------------------------------------------------------------------
(* The refinement: every step of a stream is one of a file, or none. *)

\* The bytes of a stream are its file's.
LEMMA ContentsFacts ==
  ASSUME NEW s \in Streams, Within(s)
  PROVE  /\ Contents(s) \in Seq(Byte)
         /\ Len(Contents(s)) = s.size
         /\ \A i \in 1 .. s.size : i \in 1 .. Len(s.data) /\ Contents(s)[i] = s.data[i]
<1>1. s.size \in Nat /\ s.data \in Seq(Byte) /\ s.size <= Len(s.data)
  BY DEF Streams, Within
<1>2. Contents(s) \in [1 .. s.size -> Byte]
  BY <1>1 DEF Contents
<1>3. \A i \in 1 .. s.size : i \in 1 .. Len(s.data) /\ Contents(s)[i] = s.data[i]
  BY <1>1 DEF Contents
<1> QED BY <1>1, <1>2, <1>3

\* Moving keeps all bytes.
LEMMA MoveKeeps ==
  ASSUME NEW s \in Streams, Within(s), NEW p \in Nat
  PROVE  /\ MoveTo(s, p).size >= s.size
         /\ \A i \in 1 .. s.size : MoveTo(s, p).data[i] = s.data[i]
         /\ MoveAllocating(s, p).size >= s.size
         /\ \A i \in 1 .. s.size : MoveAllocating(s, p).data[i] = s.data[i]
<1>1. s.size \in Nat /\ s.data \in Seq(Byte) /\ s.size <= Len(s.data)
  BY DEF Streams, Within
<1>2. \A i \in 1 .. s.size : i \in 1 .. Len(s.data)
  BY <1>1
<1>3. CASE p > s.size
  <2> DEFINE g == Resize(s, p + 1)
  <2>1. g \in Streams /\ g.size = p + 1 /\ \A i \in 1 .. Len(s.data) : g.data[i] = s.data[i]
    BY ResizeFacts
  <2>2. MoveAllocating(s, p) = [g EXCEPT !.pos = p] /\ MoveTo(s, p) = s
    BY <1>3 DEF MoveAllocating, MoveTo
  <2> HIDE DEF g
  <2>3. MoveAllocating(s, p).size = p + 1 /\ MoveAllocating(s, p).data = g.data
    BY <2>1, <2>2 DEF Streams
  <2> QED BY <1>1, <1>2, <1>3, <2>1, <2>2, <2>3
<1>4. CASE p <= s.size
  <2>1. /\ MoveTo(s, p) = [s EXCEPT !.pos = p]
        /\ MoveAllocating(s, p) = [s EXCEPT !.pos = p]
    BY <1>1, <1>4 DEF MoveTo, MoveAllocating
  <2> QED BY <1>1, <2>1 DEF Streams
<1> QED BY <1>1, <1>3, <1>4

\* A stream that grows or stays, and keeps its bytes, is a file after Seek.
LEMMA SeekStep ==
  ASSUME NEW s \in Streams, Within(s), stream' = s, stream \in Streams, Within(stream),
         s.size >= stream.size,
         \A i \in 1 .. stream.size : s.data[i] = stream.data[i]
  PROVE  File!Seek
<1>1. /\ Len(Contents(stream)) = stream.size
      /\ \A i \in 1 .. stream.size : Contents(stream)[i] = stream.data[i]
  BY ContentsFacts
<1>2. /\ Len(Contents(s)) = s.size
      /\ \A i \in 1 .. s.size : Contents(s)[i] = s.data[i]
  BY ContentsFacts
<1>3. Contents(stream)' = Contents(s)
  BY DEF Contents
<1>4. s.size \in Nat /\ stream.size \in Nat /\ s.pos \in 0 .. s.size
  BY DEF Streams, Within
<1>5. \A i \in 1 .. Len(Contents(stream)) : Contents(s)[i] = Contents(stream)[i]
  BY <1>1, <1>2, <1>4
<1> QED BY <1>1, <1>2, <1>3, <1>4, <1>5 DEF File!Seek, File!Keeps

\* Writing at least a byte replaces or adds what is behind the cursor.
LEMMA WriteStep ==
  ASSUME stream \in Streams, Within(stream), NEW b \in Seq(Byte), Len(b) > 0,
         stream' = Write(stream, b)
  PROVE  File!Write
<1> DEFINE s == Write(stream, b)
<1>1. /\ s \in Streams /\ Within(s) /\ s.size = Larger(stream.pos + Len(b), stream.size)
      /\ s.pos = stream.pos + Len(b)
      /\ \A i \in 1 .. Len(stream.data) :
           i \notin stream.pos + 1 .. stream.pos + Len(b) => s.data[i] = stream.data[i]
  BY WriteFacts
<1>2. stream' = s
  OBVIOUS
<1> HIDE DEF s
<1>3. /\ Len(Contents(stream)) = stream.size
      /\ \A i \in 1 .. stream.size : i \in 1 .. Len(stream.data) /\ Contents(stream)[i] = stream.data[i]
  BY ContentsFacts
<1>4. /\ Len(Contents(s)) = s.size
      /\ \A i \in 1 .. s.size : Contents(s)[i] = s.data[i]
  BY <1>1, ContentsFacts
<1>5. Contents(stream)' = Contents(s) /\ stream'.pos = s.pos
  BY <1>2 DEF Contents
<1>6. stream.size \in Nat /\ stream.pos \in Nat /\ stream.pos <= stream.size /\ Len(b) \in Nat
  BY DEF Streams, Within
<1>7. s.size \in Nat /\ s.size >= stream.size /\ s.size >= stream.pos + Len(b)
  BY <1>1, <1>6 DEF Larger
<1>8. Len(b) \in 1 .. Len(Contents(s)) - stream.pos
  BY <1>4, <1>6, <1>7
<1>9. /\ s.pos = stream.pos + Len(b)
      /\ Len(Contents(s)) = IF stream.pos + Len(b) > Len(Contents(stream))
                            THEN stream.pos + Len(b) ELSE Len(Contents(stream))
  BY <1>1, <1>3, <1>4 DEF Larger
<1>10. \A i \in 1 .. stream.size :
         i \notin stream.pos + 1 .. stream.pos + Len(b) => Contents(s)[i] = Contents(stream)[i]
  BY <1>1, <1>3, <1>4, <1>6, <1>7
<1>11. \A i \in 1 .. stream.pos : Contents(s)[i] = Contents(stream)[i]
  BY <1>6, <1>10
<1>12. \A i \in stream.pos + Len(b) + 1 .. stream.size : Contents(s)[i] = Contents(stream)[i]
  BY <1>6, <1>10
<1> QED BY <1>3, <1>5, <1>8, <1>9, <1>11, <1>12 DEF File!Write, File!Keeps

\* Making room moves what is behind the cursor up.
LEMMA MakeStep ==
  ASSUME stream \in Streams, Within(stream), NEW n \in Nat, n > 0,
         stream' = MakeSpace(stream, n)
  PROVE  File!Insert
<1> DEFINE s == MakeSpace(stream, n)
           g == Resize(stream, stream.size + n)
           moved == [i \in 1 .. Len(g.data) |->
             IF i \in stream.pos + 1 .. stream.pos + n THEN Zero
             ELSE IF i \in stream.pos + n + 1 .. stream.size + n THEN stream.data[i - n]
             ELSE g.data[i]]
<1>1. /\ stream.size \in Nat /\ stream.pos \in Nat /\ stream.pos <= stream.size
      /\ stream.data \in Seq(Byte) /\ stream.size <= Len(stream.data)
  BY DEF Streams, Within
<1>2. /\ g \in Streams /\ Within(g) /\ g.size = stream.size + n
      /\ g.pos = Smaller(stream.size + n, stream.pos)
      /\ \A i \in 1 .. Len(stream.data) : g.data[i] = stream.data[i]
  BY <1>1, ResizeFacts
<1>3. s \in Streams /\ Within(s) /\ s.size = stream.size + n
  BY MakeSpaceFacts
<1>4. s = IF n > 0 /\ stream.pos < stream.size THEN [g EXCEPT !.data = moved] ELSE g
  BY DEF MakeSpace
<1>5. stream' = s
  OBVIOUS
<1>6. g.pos = stream.pos /\ g.data \in Seq(Byte) /\ stream.size + n <= Len(g.data)
  BY <1>1, <1>2 DEF Smaller, Streams, Within
<1> HIDE DEF g, s
<1>7. \A i \in 1 .. stream.size + n : i \in 1 .. Len(g.data)
  BY <1>1, <1>6
<1>8. /\ \A i \in 1 .. stream.pos : moved[i] = stream.data[i]
      /\ \A i \in stream.pos + 1 .. stream.size : moved[i + n] = stream.data[i]
  <2>1. ASSUME NEW i \in 1 .. stream.pos PROVE moved[i] = stream.data[i]
    <3>1. i \in 1 .. Len(g.data) /\ i \in 1 .. Len(stream.data)
      BY <1>1, <1>7
    <3>2. i \notin stream.pos + 1 .. stream.pos + n /\ i \notin stream.pos + n + 1 .. stream.size + n
      BY <1>1
    <3> QED BY <1>2, <3>1, <3>2
  <2>2. ASSUME NEW i \in stream.pos + 1 .. stream.size PROVE moved[i + n] = stream.data[i]
    <3>1. i + n \in 1 .. Len(g.data) /\ (i + n) - n = i
      BY <1>1, <1>7
    <3>2. i + n \notin stream.pos + 1 .. stream.pos + n /\ i + n \in stream.pos + n + 1 .. stream.size + n
      BY <1>1
    <3> QED BY <3>1, <3>2
  <2> QED BY <2>1, <2>2
<1> HIDE DEF moved
<1>9. /\ s.pos = stream.pos
      /\ \A i \in 1 .. stream.pos : s.data[i] = stream.data[i]
      /\ \A i \in stream.pos + 1 .. stream.size : s.data[i + n] = stream.data[i]
  <2>1. CASE stream.pos < stream.size
    <3>1. s.pos = g.pos /\ s.data = moved
      BY <1>2, <1>4, <2>1 DEF Streams
    <3> QED BY <1>6, <1>8, <3>1
  <2>2. CASE stream.pos = stream.size
    <3>1. s = g /\ \A i \in 1 .. stream.pos : i \in 1 .. Len(stream.data)
      BY <1>1, <1>4, <2>2
    <3> QED BY <1>1, <1>2, <1>6, <2>2, <3>1
  <2> QED BY <1>1, <2>1, <2>2
<1>10. /\ Len(Contents(stream)) = stream.size
       /\ \A i \in 1 .. stream.size : Contents(stream)[i] = stream.data[i]
  BY ContentsFacts
<1>11. /\ Len(Contents(s)) = stream.size + n
       /\ \A i \in 1 .. stream.size + n : Contents(s)[i] = s.data[i]
  BY <1>3, ContentsFacts
<1>12. Contents(stream)' = Contents(s) /\ stream'.pos = stream.pos
  BY <1>5, <1>9 DEF Contents
<1>13. \A i \in 1 .. stream.pos : Contents(s)[i] = Contents(stream)[i]
  BY <1>1, <1>9, <1>10, <1>11
<1>14. \A i \in stream.pos + 1 .. stream.size : Contents(s)[i + n] = Contents(stream)[i]
  <2>1. \A i \in stream.pos + 1 .. stream.size : i \in 1 .. stream.size /\ i + n \in 1 .. stream.size + n
    BY <1>1
  <2> QED BY <1>9, <1>10, <1>11, <2>1
<1>15. n \in 1 .. Len(Contents(s)) /\ Len(Contents(s)) = Len(Contents(stream)) + n
  BY <1>1, <1>10, <1>11
<1> QED BY <1>10, <1>12, <1>13, <1>14, <1>15 DEF File!Insert, File!Keeps

\* Shrinking takes bytes from the end.
LEMMA TruncateStep ==
  ASSUME stream \in Streams, Within(stream), NEW n \in Nat, n < stream.size,
         stream' = Resize(stream, n)
  PROVE  File!Truncate
<1> DEFINE s == Resize(stream, n)
<1>1. /\ s \in Streams /\ Within(s) /\ s.size = n /\ s.pos = Smaller(n, stream.pos)
      /\ \A i \in 1 .. Len(stream.data) : s.data[i] = stream.data[i]
  BY ResizeFacts
<1>2. stream' = s
  OBVIOUS
<1> HIDE DEF s
<1>3. /\ Len(Contents(stream)) = stream.size
      /\ \A i \in 1 .. stream.size : i \in 1 .. Len(stream.data) /\ Contents(stream)[i] = stream.data[i]
  BY ContentsFacts
<1>4. Len(Contents(s)) = n /\ \A i \in 1 .. n : Contents(s)[i] = s.data[i]
  BY <1>1, ContentsFacts
<1>5. Contents(stream)' = Contents(s) /\ stream'.pos = s.pos
  BY <1>2 DEF Contents
<1>6. stream.size \in Nat /\ stream.pos \in Nat
  BY DEF Streams
<1>7. \A i \in 1 .. n : Contents(s)[i] = Contents(stream)[i]
  BY <1>1, <1>3, <1>4, <1>6
<1>8. s.pos = IF stream.pos < n THEN stream.pos ELSE n
  BY <1>1, <1>6 DEF Smaller
<1> QED BY <1>3, <1>4, <1>5, <1>7, <1>8 DEF File!Truncate, File!Keeps

\* Removing moves what is behind the removed bytes down.
LEMMA RemoveStep ==
  ASSUME stream \in Streams, Within(stream), NEW n \in 0 .. stream.size - stream.pos, n > 0,
         stream' = RemoveSpace(stream, n)
  PROVE  File!Delete
<1> DEFINE s == RemoveSpace(stream, n)
           moved == [i \in 1 .. Len(stream.data) |->
             IF i \in stream.pos + 1 .. stream.size - n THEN stream.data[i + n] ELSE stream.data[i]]
           m == [stream EXCEPT !.data = moved]
<1>1. /\ stream.size \in Nat /\ stream.pos \in Nat /\ stream.pos <= stream.size
      /\ stream.data \in Seq(Byte) /\ stream.size <= Len(stream.data)
  BY DEF Streams, Within
<1>2. moved \in [1 .. Len(stream.data) -> Byte]
  BY <1>1
<1>3. /\ \A i \in 1 .. stream.pos : moved[i] = stream.data[i]
      /\ \A i \in stream.pos + 1 .. stream.size - n : moved[i] = stream.data[i + n]
  BY <1>1
<1>4. moved \in Seq(Byte) /\ Len(moved) = Len(stream.data)
  <2> HIDE DEF moved
  <2> QED BY <1>1, <1>2
<1>5. /\ m \in Streams /\ Within(m) /\ m.data = moved
      /\ m.pos = stream.pos /\ m.size = stream.size
  <2> HIDE DEF moved
  <2> QED BY <1>4 DEF Streams, Within
<1>6. s = Resize(m, stream.size - n) /\ stream.size - n \in Nat
  BY <1>1 DEF RemoveSpace
<1>7. stream' = s
  OBVIOUS
<1> HIDE DEF moved, m, s
<1>8. /\ s \in Streams /\ Within(s) /\ s.size = stream.size - n
      /\ s.pos = Smaller(stream.size - n, stream.pos)
      /\ \A i \in 1 .. Len(moved) : s.data[i] = moved[i]
  BY <1>5, <1>6, ResizeFacts
<1>9. s.pos = stream.pos
  BY <1>1, <1>8 DEF Smaller
<1>10. /\ Len(Contents(stream)) = stream.size
       /\ \A i \in 1 .. stream.size : Contents(stream)[i] = stream.data[i]
  BY ContentsFacts
<1>11. /\ Len(Contents(s)) = stream.size - n
       /\ \A i \in 1 .. stream.size - n : Contents(s)[i] = s.data[i]
  BY <1>8, ContentsFacts
<1>12. Contents(stream)' = Contents(s) /\ stream'.pos = stream.pos
  BY <1>7, <1>9 DEF Contents
<1>13. \A i \in 1 .. stream.size - n : i \in 1 .. Len(moved) /\ i \in 1 .. stream.size /\ i + n \in 1 .. stream.size
  BY <1>1, <1>4
<1>14. \A i \in 1 .. stream.pos : i \in 1 .. stream.size - n
  BY <1>1
<1>15. \A i \in stream.pos + 1 .. stream.size - n : i \in 1 .. stream.size - n
  BY <1>1
<1>16. \A i \in 1 .. stream.pos : Contents(s)[i] = Contents(stream)[i]
  BY <1>3, <1>8, <1>10, <1>11, <1>13, <1>14
<1>17. \A i \in stream.pos + 1 .. stream.size - n : Contents(s)[i] = Contents(stream)[i + n]
  BY <1>3, <1>8, <1>10, <1>11, <1>13, <1>15
<1>18. n \in 1 .. Len(Contents(stream)) /\ Len(Contents(stream)) = Len(Contents(s)) + n
  BY <1>1, <1>10, <1>11
<1> QED BY <1>10, <1>11, <1>12, <1>16, <1>17, <1>18 DEF File!Delete, File!Keeps

\* A write through a view keeps the size and the cursor.
LEMMA ShareStep == Inv /\ PutInView => File!Share
<1> SUFFICES ASSUME Inv, PutInView PROVE File!Share
  OBVIOUS
<1>1. PICK d : stream' = [stream EXCEPT !.data = d]
  BY DEF PutInView
<1>2. stream'.size = stream.size /\ stream'.pos = stream.pos
  BY <1>1, Numbers DEF Streams
<1>3. stream' \in Streams /\ Within(stream')
  BY PutInViewInv DEF Inv, StreamTypeOK
<1>4. Len(Contents(stream)) = stream.size
  BY Numbers, ContentsFacts
<1>5. Len(Contents(stream')) = stream'.size
  BY <1>3, ContentsFacts
<1>6. Contents(stream)' = Contents(stream')
  BY DEF Contents
<1> QED BY <1>2, <1>4, <1>5, <1>6 DEF File!Share

\* Every way to move the cursor, a seek's beginning and end included.
LEMMA MoveSteps ==
  ASSUME Inv, NEW p \in Nat,
         stream' = MoveTo(stream, p) \/ stream' = MoveAllocating(stream, p)
  PROVE  File!Seek
<1>1. CASE stream' = MoveTo(stream, p)
  <2> DEFINE s == MoveTo(stream, p)
  <2>1. /\ s \in Streams /\ Within(s) /\ s.size >= stream.size
        /\ \A i \in 1 .. stream.size : s.data[i] = stream.data[i]
    BY Numbers, MoveFacts, MoveKeeps
  <2>2. stream' = s
    BY <1>1
  <2> HIDE DEF s
  <2> QED BY <2>1, <2>2, Numbers, SeekStep
<1>2. CASE stream' = MoveAllocating(stream, p)
  <2> DEFINE s == MoveAllocating(stream, p)
  <2>1. /\ s \in Streams /\ Within(s) /\ s.size >= stream.size
        /\ \A i \in 1 .. stream.size : s.data[i] = stream.data[i]
    BY Numbers, MoveFacts, MoveKeeps
  <2>2. stream' = s
    BY <1>2
  <2> HIDE DEF s
  <2> QED BY <2>1, <2>2, Numbers, SeekStep
<1> QED BY <1>1, <1>2

\* resize makes the file longer or cuts it off.
LEMMA ResizeSteps ==
  ASSUME Inv, NEW n \in Nat, stream' = Resize(stream, n)
  PROVE  File!Seek \/ File!Truncate
<1>1. CASE n < stream.size
  BY <1>1, Numbers, TruncateStep
<1>2. CASE n >= stream.size
  <2> DEFINE s == Resize(stream, n)
  <2>1. /\ s \in Streams /\ Within(s) /\ s.size = n
        /\ \A i \in 1 .. Len(stream.data) : s.data[i] = stream.data[i]
    BY Numbers, ResizeFacts
  <2>2. stream' = s
    OBVIOUS
  <2> HIDE DEF s
  <2>3. \A i \in 1 .. stream.size : i \in 1 .. Len(stream.data)
    BY Numbers, ContentsFacts
  <2> QED BY <1>2, <2>1, <2>2, <2>3, Numbers, SeekStep
<1> QED BY <1>1, <1>2, Numbers

\* makeSpace and removeSpace of nothing are resizes to the size there is.
LEMMA NoSpace ==
  ASSUME Inv
  PROVE  /\ MakeSpace(stream, 0) = Resize(stream, stream.size)
         /\ RemoveSpace(stream, 0) = Resize(stream, stream.size)
<1>1. /\ stream.size \in Nat /\ stream.data \in Seq(Byte) /\ stream \in Streams
  BY Numbers DEF Streams
<1>2. MakeSpace(stream, 0) = Resize(stream, stream.size)
  BY <1>1 DEF MakeSpace
<1>3. RemoveSpace(stream, 0) = Resize(stream, stream.size)
  <2> DEFINE moved == [i \in 1 .. Len(stream.data) |->
               IF i \in stream.pos + 1 .. stream.size - 0 THEN stream.data[i + 0] ELSE stream.data[i]]
             m == [stream EXCEPT !.data = moved]
  <2>1. moved = stream.data
    <3>1. \A i \in 1 .. Len(stream.data) : moved[i] = stream.data[i]
      OBVIOUS
    <3>2. moved = [i \in 1 .. Len(stream.data) |-> stream.data[i]]
      BY <3>1
    <3> HIDE DEF moved
    <3> QED BY <1>1, <3>2
  <2> HIDE DEF moved
  <2>2. m = stream
    BY <1>1, <2>1 DEF Streams
  <2>3. RemoveSpace(stream, 0) = Resize(m, stream.size - 0)
    BY DEF RemoveSpace, moved
  <2> HIDE DEF m
  <2> QED BY <1>1, <2>2, <2>3
<1> QED BY <1>2, <1>3

LEMMA StepImplements == Inv /\ [Next]_vars => [File!Next]_File!file
<1> SUFFICES ASSUME Inv, [Next]_vars PROVE [File!Next]_File!file
  OBVIOUS
<1> USE DEF File!Next
<1>1. CASE Put
  <2>1. PICK b \in Bytes : stream' = Write(stream, b)
    BY <1>1 DEF Put, Becomes
  <2>2. b \in Seq(Byte) /\ Len(b) > 0
    <3>1. PICK n \in 1 .. 2 : b \in [1 .. n -> Byte]
      BY DEF Bytes
    <3>2. b \in Seq(Byte) /\ Len(b) = n
      BY <3>1
    <3> QED BY <3>2
  <2> QED BY <2>1, <2>2, Numbers, WriteStep
<1>2. CASE Move
  BY <1>2, Numbers, MoveSteps DEF Move, Becomes
<1>3. CASE Skip
  BY <1>3, Numbers, MoveSteps DEF Skip, Becomes
<1>4. CASE Make
  <2>1. PICK n \in 0 .. MaxSize : stream' = MakeSpace(stream, n)
    BY <1>4 DEF Make, Becomes
  <2>2. n \in Nat
    BY Numbers
  <2>3. CASE n > 0
    BY <2>1, <2>2, <2>3, Numbers, MakeStep
  <2>4. CASE n = 0
    BY <2>1, <2>4, Numbers, NoSpace, ResizeSteps
  <2> QED BY <2>2, <2>3, <2>4
<1>5. CASE Shrink
  <2>1. CASE \E n \in 0 .. MaxSize : Becomes(Resize(stream, n))
    BY <2>1, Numbers, ResizeSteps DEF Becomes
  <2>2. CASE \E n \in 0 .. stream.size - stream.pos : Becomes(RemoveSpace(stream, n))
    <3>1. PICK n \in 0 .. stream.size - stream.pos : stream' = RemoveSpace(stream, n)
      BY <2>2 DEF Becomes
    <3>2. CASE n > 0
      BY <3>1, <3>2, Numbers, RemoveStep
    <3>3. CASE n = 0
      BY <3>1, <3>3, Numbers, NoSpace, ResizeSteps
    <3>4. n = 0 \/ n > 0
      BY Numbers
    <3> QED BY <3>2, <3>3, <3>4
  <2> QED BY <1>5, <2>1, <2>2 DEF Shrink
<1>6. CASE OpenSeek
  BY <1>6, Numbers, MoveSteps DEF OpenSeek, Becomes
<1>7. CASE CloseSeek
  <2>1. stream' = MoveTo(stream, seeks[Len(seeks)])
    BY <1>7 DEF CloseSeek, Becomes
  <2>2. seeks[Len(seeks)] \in Nat
    BY <1>7 DEF CloseSeek, Inv, StreamTypeOK
  <2> QED BY <2>1, <2>2, MoveSteps
<1>8. CASE PutInView
  BY <1>8, ShareStep
<1>9. CASE UNCHANGED stream
  BY <1>9 DEF File!file, Contents
<1> QED BY <1>1, <1>2, <1>3, <1>4, <1>5, <1>6, <1>7, <1>8, <1>9
        DEF Next, vars, MakeView, Duplicate

LEMMA InitImplements == Init => File!Init
<1> SUFFICES ASSUME Init PROVE File!Init
  OBVIOUS
<1>1. NewStream \in Streams /\ Within(NewStream) /\ stream = NewStream
  BY DEF Init, NewStream, Streams, Within
<1>2. Contents(stream) \in Seq(Byte) /\ Len(Contents(stream)) = 0 /\ stream.pos = 0
  BY <1>1, ContentsFacts DEF NewStream
<1> QED BY <1>2 DEF File!Init

\* A BitStream, whatever its buffer does, is a file with a cursor: growing,
\* shrinking and reusing the buffer disturb no byte an operation is not about.
THEOREM StreamImplementsFile == Spec => ImplementsFile
<1> QED BY InitImplements, StepImplements, InvariantHolds, PTL DEF Spec, ImplementsFile, File!Spec

=============================================================================
