----------------------------- MODULE FramingProofs -----------------------------
(***************************************************************************)
(* Theorems of Buffer and Framing, for buffers, chunks and messages of any *)
(* size: the byte stream survives the buffer, the buffer stays small, and  *)
(* the messages that come out are those that were sent.  And of Cipher,    *)
(* through which a message goes before it is framed and after it is taken  *)
(* out: a short one is the same behind it.                                 *)
(***************************************************************************)
EXTENDS Framing, Cipher, SequenceTheorems, TLAPS

-------------------------------------------------------------------------------
(* Buffer *)

\* A function on 1 .. n is a sequence.
LEMMA FunctionSeq ==
  ASSUME NEW S, NEW n \in Nat, NEW f \in [1 .. n -> S]
  PROVE  f \in Seq(S) /\ Len(f) = n
<1>1. f \in Seq(S)
  BY SeqDef
<1>2. DOMAIN f = 1 .. Len(f) /\ DOMAIN f = 1 .. n /\ Len(f) \in Nat
  BY <1>1, LenProperties
<1>3. Len(f) = n
  BY <1>2
<1> QED
  BY <1>1, <1>3

LEMMA BufferFields ==
  ASSUME NEW b, IsBuffer(b)
  PROVE  /\ b.size \in Nat /\ b.rd \in Nat /\ b.wr \in Nat
         /\ b.cell \in [0 .. b.size - 1 -> Byte]
         /\ Prepend \in Nat /\ Prepend <= b.rd /\ b.rd <= b.wr /\ b.wr <= b.size
         /\ readableBytes(b) = b.wr - b.rd /\ readableBytes(b) \in Nat
  BY BufferAssumption DEF IsBuffer, readableBytes

LEMMA BufferContents ==
  ASSUME NEW b, IsBuffer(b)
  PROVE  /\ Contents(b) \in Seq(Byte) /\ Len(Contents(b)) = readableBytes(b)
         /\ \A i \in 1 .. readableBytes(b) : Contents(b)[i] = b.cell[b.rd + i - 1]
<1>1. \A i \in 1 .. readableBytes(b) : b.cell[b.rd + i - 1] \in Byte
  <2> TAKE i \in 1 .. readableBytes(b)
  <2>1. b.rd + i - 1 \in 0 .. b.size - 1
    BY BufferFields
  <2> QED
    BY <2>1, BufferFields
<1>2. Contents(b) \in [1 .. readableBytes(b) -> Byte]
  BY <1>1 DEF Contents
<1> QED
  BY <1>2, FunctionSeq, BufferFields DEF Contents

LEMMA NewIsBuffer ==
  IsBuffer(NewBuffer) /\ Contents(NewBuffer) = <<>> /\ readableBytes(NewBuffer) = 0
<1>1. IsBuffer(NewBuffer)
  BY BufferAssumption DEF IsBuffer, NewBuffer, Buf
<1>2. readableBytes(NewBuffer) = 0
  BY BufferAssumption DEF NewBuffer, Buf, readableBytes
<1>3. Contents(NewBuffer) \in Seq(Byte) /\ Len(Contents(NewBuffer)) = 0
  BY <1>1, <1>2, BufferContents
<1> QED
  BY <1>1, <1>2, <1>3, EmptySeq

\* retrieve drops what is in front.
LEMMA RetrieveProperties ==
  ASSUME NEW b, IsBuffer(b), NEW n \in Nat, n <= readableBytes(b)
  PROVE  /\ IsBuffer(retrieve(b, n)) /\ retrieve(b, n).size = b.size
         /\ readableBytes(retrieve(b, n)) = readableBytes(b) - n
         /\ \A i \in 1 .. readableBytes(b) - n :
               Contents(retrieve(b, n))[i] = Contents(b)[n + i]
<1>1. CASE n < readableBytes(b)
  <2> DEFINE c == Buf(b.size, b.cell, b.rd + n, b.wr)
  <2>1. c.size = b.size /\ c.cell = b.cell /\ c.rd = b.rd + n /\ c.wr = b.wr
    BY DEF Buf
  <2>2. retrieve(b, n) = c
    BY <1>1 DEF retrieve
  <2>3. IsBuffer(c)
    BY <1>1, BufferFields DEF IsBuffer, Buf
  <2> HIDE DEF c
  <2>4. readableBytes(c) = readableBytes(b) - n
    BY <2>1, BufferFields DEF readableBytes
  <2>5. \A i \in 1 .. readableBytes(b) - n : Contents(c)[i] = Contents(b)[n + i]
    <3> TAKE i \in 1 .. readableBytes(b) - n
    <3>1. Contents(c)[i] = c.cell[c.rd + i - 1]
      BY <2>3, <2>4, BufferContents
    <3>2. n + i \in 1 .. readableBytes(b)
      BY BufferFields
    <3>3. Contents(b)[n + i] = b.cell[b.rd + (n + i) - 1]
      BY <3>2, BufferContents
    <3>4. b.rd + (n + i) - 1 = (b.rd + n) + i - 1
      BY BufferFields
    <3> QED
      BY <2>1, <3>1, <3>3, <3>4
  <2> QED
    BY <2>1, <2>2, <2>3, <2>4, <2>5
<1>2. CASE ~(n < readableBytes(b))
  <2>1. n = readableBytes(b)
    BY <1>2, BufferFields
  <2>2. retrieve(b, n) = Buf(b.size, b.cell, Prepend, Prepend)
    BY <1>2 DEF retrieve, retrieveAll
  <2>3. IsBuffer(retrieve(b, n)) /\ retrieve(b, n).size = b.size
    BY <2>2, BufferFields DEF IsBuffer, Buf
  <2>4. readableBytes(retrieve(b, n)) = 0
    BY <2>2, BufferAssumption DEF readableBytes, Buf
  <2> QED
    BY <2>1, <2>3, <2>4, BufferFields
<1> QED
  BY <1>1, <1>2

\* A buffer whose contents are those of b, wherever they are.
SameContents(c, b) ==
    /\ IsBuffer(c) /\ readableBytes(c) = readableBytes(b)
    /\ \A i \in 1 .. readableBytes(b) : c.cell[c.rd + i - 1] = b.cell[b.rd + i - 1]

LEMMA GrowProperties ==
  ASSUME NEW b, IsBuffer(b), NEW size \in Nat, size >= b.size
  PROVE  SameContents(Grow(b, size), b) /\ Grow(b, size).size = size /\ Grow(b, size).wr = b.wr
<1> DEFINE c == Grow(b, size)
<1>1. c.size = size /\ c.rd = b.rd /\ c.wr = b.wr
  BY DEF Grow, Buf
<1>2. c.cell = [i \in 0 .. size - 1 |-> IF i < b.size THEN b.cell[i] ELSE Zero]
  BY DEF Grow, Buf
<1>3. c = Buf(c.size, c.cell, c.rd, c.wr)
  BY DEF Grow, Buf
<1> HIDE DEF c
<1>4. c.cell \in [0 .. size - 1 -> Byte]
  <2>1. ASSUME NEW i \in 0 .. size - 1
        PROVE  (IF i < b.size THEN b.cell[i] ELSE Zero) \in Byte
    <3>1. CASE i < b.size
      <4>1. i \in 0 .. b.size - 1
        BY <3>1, BufferFields
      <4> QED
        BY <3>1, <4>1, BufferFields
    <3>2. CASE ~(i < b.size)
      BY <3>2, BufferAssumption
    <3> QED
      BY <3>1, <3>2
  <2> QED
    BY <1>2, <2>1
<1>5. IsBuffer(c)
  BY <1>1, <1>3, <1>4, BufferFields DEF IsBuffer
<1>6. \A i \in 1 .. readableBytes(b) : c.cell[c.rd + i - 1] = b.cell[b.rd + i - 1]
  <2> TAKE i \in 1 .. readableBytes(b)
  <2>0. /\ i \in Nat /\ 1 <= i /\ i <= b.wr - b.rd
        /\ b.size \in Nat /\ b.rd \in Nat /\ b.wr \in Nat /\ b.wr <= b.size
    BY BufferFields
  <2>1. b.rd + i - 1 \in 0 .. size - 1 /\ b.rd + i - 1 < b.size
    BY <2>0
  <2> QED
    BY <1>1, <1>2, <2>1
<1>7. readableBytes(c) = readableBytes(b)
  BY <1>1 DEF readableBytes
<1> QED
  BY <1>1, <1>5, <1>6, <1>7 DEF SameContents, c

LEMMA MoveDownProperties ==
  ASSUME NEW b, IsBuffer(b)
  PROVE  /\ SameContents(MoveDown(b), b) /\ MoveDown(b).size = b.size
         /\ MoveDown(b).wr = Prepend + readableBytes(b)
<1> DEFINE c == MoveDown(b)
           end == Prepend + readableBytes(b)
<1>1. c.size = b.size /\ c.rd = Prepend /\ c.wr = end
  BY DEF MoveDown, Buf
<1>2. c.cell = [i \in 0 .. b.size - 1 |->
                  IF i >= Prepend /\ i < end THEN b.cell[b.rd + i - Prepend] ELSE b.cell[i]]
  BY DEF MoveDown, Buf
<1>3. c = Buf(c.size, c.cell, c.rd, c.wr)
  BY DEF MoveDown, Buf
<1>4. end \in Nat /\ Prepend <= end /\ end <= b.size
  BY BufferFields
<1> HIDE DEF c
<1>5. c.cell \in [0 .. b.size - 1 -> Byte]
  <2>1. ASSUME NEW i \in 0 .. b.size - 1, i >= Prepend, i < end
        PROVE  b.cell[b.rd + i - Prepend] \in Byte
    <3>1. b.rd + i - Prepend \in 0 .. b.size - 1
      BY <2>1, BufferFields
    <3> QED
      BY <3>1, BufferFields
  <2> QED
    BY <1>2, <2>1, BufferFields
<1>6. IsBuffer(c)
  BY <1>1, <1>3, <1>4, <1>5, BufferFields DEF IsBuffer
<1>7. \A i \in 1 .. readableBytes(b) : c.cell[c.rd + i - 1] = b.cell[b.rd + i - 1]
  <2> TAKE i \in 1 .. readableBytes(b)
  <2>1. /\ Prepend + i - 1 \in 0 .. b.size - 1
        /\ Prepend + i - 1 >= Prepend /\ Prepend + i - 1 < end
        /\ b.rd + (Prepend + i - 1) - Prepend = b.rd + i - 1
    BY BufferFields
  <2> QED
    BY <1>1, <1>2, <2>1
<1>8. readableBytes(c) = readableBytes(b)
  BY <1>1, BufferFields DEF readableBytes
<1> QED
  BY <1>1, <1>6, <1>7, <1>8 DEF SameContents, c

\* There is room for n cells, and the vector grows only if there was none in the whole of it.
LEMMA EnsureProperties ==
  ASSUME NEW b, IsBuffer(b), NEW n \in Nat
  PROVE  /\ SameContents(ensureWritable(b, n), b)
         /\ ensureWritable(b, n).wr + n <= ensureWritable(b, n).size
         /\ \/ ensureWritable(b, n).size = b.size
            \/ ensureWritable(b, n).size < readableBytes(b) + 2 * n + Prepend
<1> USE BufferFields
<1>1. CASE b.size - b.wr >= n
  <2>1. ensureWritable(b, n) = b
    BY <1>1 DEF ensureWritable, writableBytes
  <2> QED
    BY <1>1, <2>1 DEF SameContents
<1>2. CASE b.size - b.wr < n /\ b.rd + (b.size - b.wr) < n + Prepend
  <2>1. ensureWritable(b, n) = Grow(b, b.wr + n)
    BY <1>2 DEF ensureWritable, makeSpace, writableBytes, prependabelBytes
  <2>2. b.wr + n \in Nat /\ b.wr + n >= b.size
    BY <1>2
  <2>3. b.wr + n < readableBytes(b) + 2 * n + Prepend
    BY <1>2
  <2> QED
    BY <2>1, <2>2, <2>3, GrowProperties
<1>3. CASE b.size - b.wr < n /\ ~(b.rd + (b.size - b.wr) < n + Prepend)
  <2>1. ensureWritable(b, n) = MoveDown(b)
    BY <1>3 DEF ensureWritable, makeSpace, writableBytes, prependabelBytes
  <2>2. Prepend + readableBytes(b) + n <= b.size
    BY <1>3
  <2> QED
    BY <2>1, <2>2, MoveDownProperties
<1> QED
  BY <1>1, <1>2, <1>3

LEMMA PutProperties ==
  ASSUME NEW b, IsBuffer(b), NEW data \in Seq(Byte), b.wr + Len(data) <= b.size
  PROVE  /\ IsBuffer(Put(b, data)) /\ Put(b, data).size = b.size
         /\ readableBytes(Put(b, data)) = readableBytes(b) + Len(data)
         /\ \A i \in 1 .. readableBytes(b) + Len(data) :
               Put(b, data).cell[Put(b, data).rd + i - 1] =
                   IF i <= readableBytes(b) THEN b.cell[b.rd + i - 1] ELSE data[i - readableBytes(b)]
<1> DEFINE c == Put(b, data)
           end == b.wr + Len(data)
<1> USE BufferFields
<1>1. c.size = b.size /\ c.rd = b.rd /\ c.wr = end
  BY DEF Put, Buf
<1>2. c.cell = [i \in 0 .. b.size - 1 |->
                  IF i >= b.wr /\ i < end THEN data[i - b.wr + 1] ELSE b.cell[i]]
  BY DEF Put, Buf
<1>3. c = Buf(c.size, c.cell, c.rd, c.wr)
  BY DEF Put, Buf
<1>4. end \in Nat /\ Len(data) \in Nat /\ end <= b.size
  BY LenProperties
<1> HIDE DEF c
<1>5. c.cell \in [0 .. b.size - 1 -> Byte]
  <2>1. ASSUME NEW i \in 0 .. b.size - 1, i >= b.wr, i < end
        PROVE  data[i - b.wr + 1] \in Byte
    <3>1. i - b.wr + 1 \in 1 .. Len(data)
      BY <1>4, <2>1
    <3> QED
      BY <3>1, ElementOfSeq
  <2> QED
    BY <1>2, <2>1
<1>6. IsBuffer(c)
  BY <1>1, <1>3, <1>4, <1>5 DEF IsBuffer
<1>7. readableBytes(c) = readableBytes(b) + Len(data)
  BY <1>1, <1>4 DEF readableBytes
<1>8. \A i \in 1 .. readableBytes(b) + Len(data) :
         c.cell[c.rd + i - 1] =
             IF i <= readableBytes(b) THEN b.cell[b.rd + i - 1] ELSE data[i - readableBytes(b)]
  <2> TAKE i \in 1 .. readableBytes(b) + Len(data)
  <2>0. /\ i \in Nat /\ 1 <= i /\ i <= (b.wr - b.rd) + Len(data)
        /\ b.size \in Nat /\ b.rd \in Nat /\ b.wr \in Nat /\ Len(data) \in Nat
        /\ b.wr + Len(data) <= b.size
    BY <1>4
  <2>1. b.rd + i - 1 \in 0 .. b.size - 1
    <3> HIDE BufferFields
    <3> QED
      BY <2>0
  <2>2. (b.rd + i - 1 >= b.wr /\ b.rd + i - 1 < end) <=> ~(i <= readableBytes(b))
    BY <1>4
  <2>3. (b.rd + i - 1) - b.wr + 1 = i - readableBytes(b)
    BY <1>4
  <2> QED
    BY <1>1, <1>2, <2>1, <2>2, <2>3
<1> QED
  BY <1>1, <1>6, <1>7, <1>8 DEF c

\* write puts the data behind the contents.
LEMMA WriteProperties ==
  ASSUME NEW b, IsBuffer(b), NEW data \in Seq(Byte)
  PROVE  /\ IsBuffer(write(b, data))
         /\ Contents(write(b, data)) = Contents(b) \o data
         /\ readableBytes(write(b, data)) = readableBytes(b) + Len(data)
         /\ \/ write(b, data).size = b.size
            \/ write(b, data).size < readableBytes(b) + 2 * Len(data) + Prepend
<1>0. Len(data) \in Nat /\ readableBytes(b) \in Nat
  BY LenProperties, BufferFields
<1>1. CASE data = <<>>
  <2>1. write(b, data) = b /\ Len(data) = 0
    BY <1>1 DEF write
  <2> QED
    BY <1>0, <1>1, <2>1, BufferContents, ConcatEmptySeq
<1>2. CASE data # <<>>
  <2> DEFINE c == ensureWritable(b, Len(data))
             d == Put(c, data)
  <2>1. write(b, data) = d
    BY <1>2 DEF write
  <2>2. /\ SameContents(c, b) /\ c.wr + Len(data) <= c.size
        /\ c.size = b.size \/ c.size < readableBytes(b) + 2 * Len(data) + Prepend
    BY <1>0, EnsureProperties
  <2> HIDE DEF c
  <2>3. /\ IsBuffer(d) /\ d.size = c.size
        /\ readableBytes(d) = readableBytes(b) + Len(data)
        /\ \A i \in 1 .. readableBytes(b) + Len(data) :
              d.cell[d.rd + i - 1] =
                  IF i <= readableBytes(b) THEN c.cell[c.rd + i - 1] ELSE data[i - readableBytes(b)]
    BY <2>2, PutProperties DEF SameContents
  <2> HIDE DEF d
  <2>4. \A i \in 1 .. readableBytes(b) + Len(data) :
           Contents(d)[i] = IF i <= readableBytes(b) THEN Contents(b)[i] ELSE data[i - readableBytes(b)]
    BY <1>0, <2>2, <2>3, BufferContents DEF SameContents
  <2>5. /\ Contents(b) \in Seq(Byte) /\ Len(Contents(b)) = readableBytes(b)
        /\ Contents(d) \in Seq(Byte) /\ Len(Contents(d)) = readableBytes(b) + Len(data)
    BY <2>3, BufferContents
  <2>6. Contents(d) = Contents(b) \o data
    <3> DEFINE e == Contents(b)
               f == e \o data
    <3> HIDE DEF e, f
    <3>0. e \in Seq(Byte) /\ Len(e) = readableBytes(b)
      BY <2>5 DEF e
    <3>a. /\ f \in Seq(Byte) /\ Len(f) = Len(e) + Len(data)
          /\ \A i \in 1 .. Len(e) + Len(data) :
                f[i] = IF i <= Len(e) THEN e[i] ELSE data[i - Len(e)]
      BY <3>0, ConcatProperties DEF f
    <3>1. /\ f \in Seq(Byte) /\ Len(f) = readableBytes(b) + Len(data)
          /\ \A i \in 1 .. readableBytes(b) + Len(data) :
                f[i] = IF i <= readableBytes(b) THEN Contents(b)[i] ELSE data[i - readableBytes(b)]
      BY <3>0, <3>a DEF e
    <3> QED
      BY <2>4, <2>5, <3>1, SeqEqual DEF e, f
  <2> QED
    BY <2>1, <2>2, <2>3, <2>6
<1> QED
  BY <1>1, <1>2

-------------------------------------------------------------------------------
(* Sequences of bytes *)

LEMMA BytesAssociate ==
  \A s, t, u \in Seq(Byte) : (s \o t) \o u = s \o (t \o u)
BY ConcatAssociative

\* A sequence is its first n elements and the others.
LEMMA Split ==
  ASSUME NEW S, NEW s \in Seq(S), NEW n \in 0 .. Len(s)
  PROVE  /\ SubSeq(s, 1, n) \in Seq(S) /\ Len(SubSeq(s, 1, n)) = n
         /\ SubSeq(s, n + 1, Len(s)) \in Seq(S) /\ Len(SubSeq(s, n + 1, Len(s))) = Len(s) - n
         /\ \A i \in 1 .. Len(s) - n : SubSeq(s, n + 1, Len(s))[i] = s[n + i]
         /\ SubSeq(s, 1, n) \o SubSeq(s, n + 1, Len(s)) = s
<1>1. Len(s) \in Nat /\ n \in Nat /\ n <= Len(s)
  BY LenProperties
<1>2. \A i \in 1 .. n : s[i] \in S
  BY <1>1, ElementOfSeq
<1>3. \A i \in n + 1 .. Len(s) : s[i] \in S
  BY <1>1, ElementOfSeq
<1>4. SubSeq(s, 1, n) \in Seq(S) /\ Len(SubSeq(s, 1, n)) = n
  BY <1>1, <1>2, SubSeqProperties
<1>5. /\ SubSeq(s, n + 1, Len(s)) \in Seq(S)
      /\ Len(SubSeq(s, n + 1, Len(s))) = IF n + 1 <= Len(s) THEN Len(s) - (n + 1) + 1 ELSE 0
      /\ \A i \in 1 .. Len(s) - (n + 1) + 1 : SubSeq(s, n + 1, Len(s))[i] = s[(n + 1) + i - 1]
  BY <1>1, <1>3, SubSeqProperties
<1>6. \A i \in 1 .. Len(s) - n : (n + 1) + i - 1 = n + i /\ i \in 1 .. Len(s) - (n + 1) + 1
  BY <1>1
<1>7. SubSeq(s, 1, n) \o SubSeq(s, n + 1, Len(s)) = SubSeq(s, 1, Len(s))
  <2>1. 1 \in 1 .. Len(s) + 1 /\ n \in 1 - 1 .. Len(s) /\ Len(s) \in n .. Len(s)
    BY <1>1
  <2> QED
    BY <2>1, ConcatAdjacentSubSeq
<1>8. Len(SubSeq(s, n + 1, Len(s))) = Len(s) - n
  BY <1>1, <1>5
<1>9. \A i \in 1 .. Len(s) - n : SubSeq(s, n + 1, Len(s))[i] = s[n + i]
  BY <1>5, <1>6
<1> QED
  BY <1>4, <1>5, <1>7, <1>8, <1>9, SubSeqFull

\* The bytes stand in s after the first p.
Stands(s, p, bytes) ==
    p + Len(bytes) <= Len(s) /\ \A k \in 1 .. Len(bytes) : s[p + k] = bytes[k]

\* What stands in a stream stands there when more is sent.
LEMMA StandsBefore ==
  ASSUME NEW S, NEW s \in Seq(S), NEW t \in Seq(S), NEW b \in Seq(S), NEW p \in Nat,
         Stands(s, p, b)
  PROVE  Stands(s \o t, p, b)
<1>1. Len(s) \in Nat /\ Len(t) \in Nat /\ Len(b) \in Nat /\ p + Len(b) <= Len(s)
  BY LenProperties DEF Stands
<1>2. Len(s \o t) = Len(s) + Len(t)
  BY ConcatProperties
<1>3. ASSUME NEW k \in 1 .. Len(b)
      PROVE  (s \o t)[p + k] = b[k]
  <2>1. p + k \in 1 .. Len(s) + Len(t) /\ p + k <= Len(s)
    BY <1>1
  <2>2. (s \o t)[p + k] = s[p + k]
    BY <2>1, ConcatProperties
  <2> QED
    BY <2>2 DEF Stands
<1> QED
  BY <1>1, <1>2, <1>3 DEF Stands

\* What stands in t stands behind s in s \o t.
LEMMA StandsBehind ==
  ASSUME NEW S, NEW s \in Seq(S), NEW t \in Seq(S), NEW b \in Seq(S), NEW p \in Nat,
         Stands(t, p, b)
  PROVE  Stands(s \o t, Len(s) + p, b)
<1>1. Len(s) \in Nat /\ Len(t) \in Nat /\ Len(b) \in Nat /\ p + Len(b) <= Len(t)
  BY LenProperties DEF Stands
<1>2. Len(s \o t) = Len(s) + Len(t)
  BY ConcatProperties
<1>3. ASSUME NEW k \in 1 .. Len(b)
      PROVE  (s \o t)[(Len(s) + p) + k] = b[k]
  <2>1. /\ (Len(s) + p) + k \in 1 .. Len(s) + Len(t) /\ ~((Len(s) + p) + k <= Len(s))
        /\ ((Len(s) + p) + k) - Len(s) = p + k
    BY <1>1
  <2>2. (s \o t)[(Len(s) + p) + k] = t[p + k]
    BY <2>1, ConcatProperties
  <2> QED
    BY <2>2 DEF Stands
<1> QED
  BY <1>1, <1>2, <1>3 DEF Stands

LEMMA StandsItself ==
  ASSUME NEW S, NEW s \in Seq(S)
  PROVE  Stands(s, 0, s)
BY LenProperties DEF Stands

\* What stands in t, with something before and behind t, can be read in t.
LEMMA StandsInside ==
  ASSUME NEW S, NEW s \in Seq(S), NEW t \in Seq(S), NEW u \in Seq(S), NEW b \in Seq(S),
         NEW p \in Nat, p + Len(b) <= Len(t), Stands((s \o t) \o u, Len(s) + p, b)
  PROVE  SubSeq(t, p + 1, p + Len(b)) = b
<1> DEFINE m == p + 1
           n == p + Len(b)
<1>1. /\ Len(s) \in Nat /\ Len(t) \in Nat /\ Len(u) \in Nat /\ Len(b) \in Nat
      /\ m \in Int /\ n \in Int
  BY LenProperties
<1>2. s \o t \in Seq(S) /\ Len(s \o t) = Len(s) + Len(t)
  BY ConcatProperties
<1>3. ASSUME NEW k \in 1 .. Len(b)
      PROVE  t[p + k] = b[k]
  <2> DEFINE i == (Len(s) + p) + k
  <2>1. /\ i \in 1 .. Len(s) + Len(t) /\ ~(i <= Len(s)) /\ i - Len(s) = p + k
        /\ i \in 1 .. (Len(s) + Len(t)) + Len(u) /\ i <= Len(s) + Len(t)
    BY <1>1
  <2>2. ((s \o t) \o u)[i] = b[k]
    BY DEF Stands
  <2> HIDE DEF i
  <2>3. ((s \o t) \o u)[i] = (s \o t)[i]
    BY <1>2, <2>1, ConcatProperties
  <2>4. (s \o t)[i] = t[p + k]
    BY <2>1, ConcatProperties
  <2> QED
    BY <2>2, <2>3, <2>4
<1>4. \A i \in m .. n : t[i] \in S
  BY <1>1, ElementOfSeq
<1>5. m + Len(b) - 1 = n /\ n - m + 1 = Len(b) /\ (m <= n <=> Len(b) # 0)
  BY <1>1
<1>6. /\ SubSeq(t, m, n) \in Seq(S)
      /\ Len(SubSeq(t, m, n)) = IF m <= n THEN n - m + 1 ELSE 0
      /\ \A i \in 1 .. n - m + 1 : SubSeq(t, m, n)[i] = t[m + i - 1]
  <2> HIDE DEF m, n
  <2> QED
    BY <1>1, <1>4, SubSeqProperties
<1>7. Len(SubSeq(t, m, n)) = Len(b)
  <2> HIDE DEF m, n
  <2> QED
    BY <1>1, <1>5, <1>6
<1>8. \A i \in 1 .. Len(b) : SubSeq(t, m, n)[i] = b[i]
  <2> TAKE i \in 1 .. Len(b)
  <2>1. m + i - 1 = p + i
    BY <1>1
  <2> HIDE DEF m, n
  <2> QED
    BY <1>3, <1>5, <1>6, <2>1
<1> QED
  BY <1>6, <1>7, <1>8, SeqEqual

-------------------------------------------------------------------------------
(* The stream and the buffer *)

FramingTypes ==
    /\ wire \in Seq(Byte) /\ eaten \in Seq(Byte) /\ stream \in Seq(Byte)
    /\ IsBuffer(readBuf)
    /\ pc \in {"wait", "loop"}
    /\ closed \in BOOLEAN /\ spoiled \in BOOLEAN
    /\ sent \in Seq(Payloads) /\ out \in Seq(Seq(Byte))

\* A message is one of bytes that the server accepts, and its length can be read back.
LEMMA PayloadProperties ==
  ASSUME NEW payload \in Payloads
  PROVE  /\ payload \in Seq(Byte) /\ Len(payload) \in 1 .. MaxLen
         /\ BytesOf(Len(payload)) \in Seq(Byte) /\ Len(BytesOf(Len(payload))) = IntSize
         /\ IntOf(BytesOf(Len(payload))) = Len(payload)
<1>1. payload \in Seq(Byte) /\ Len(payload) \in 1 .. MaxLen
  BY FramingAssumption
<1>2. /\ BytesOf(Len(payload)) \in [1 .. IntSize -> Byte]
      /\ IntOf(BytesOf(Len(payload))) = Len(payload)
  BY <1>1, FramingAssumption
<1> QED
  BY <1>1, <1>2, FramingAssumption, FunctionSeq

LEMMA BadLenProperties ==
  ASSUME NEW n \in BadLens
  PROVE  /\ BytesOf(n) \in Seq(Byte) /\ Len(BytesOf(n)) = IntSize
         /\ IntOf(BytesOf(n)) = n /\ n \in Int /\ ~(n > 0 /\ n <= MaxLen)
<1>1. BytesOf(n) \in [1 .. IntSize -> Byte] /\ IntOf(BytesOf(n)) = n
  BY FramingAssumption
<1>2. n \in Int /\ ~(n > 0 /\ n <= MaxLen)
  BY FramingAssumption
<1> QED
  BY <1>1, <1>2, FramingAssumption, FunctionSeq

\* readInt returns an int.
LEMMA MsgLenProperties ==
  ASSUME FramingTypes, HasLength
  PROVE  /\ MsgLen \in Int /\ Contents(readBuf) \in Seq(Byte)
         /\ Len(Contents(readBuf)) = readableBytes(readBuf)
         /\ readableBytes(readBuf) \in Nat /\ IntSize < readableBytes(readBuf)
<1> DEFINE c == Contents(readBuf)
<1>1. /\ c \in Seq(Byte) /\ Len(c) = readableBytes(readBuf)
      /\ readableBytes(readBuf) \in Nat
  BY BufferContents, BufferFields DEF FramingTypes
<1>2. IntSize \in Nat /\ IntSize < Len(c)
  BY <1>1, FramingAssumption DEF HasLength
<1>3. SubSeq(c, 1, IntSize) \in Seq(Byte) /\ Len(SubSeq(c, 1, IntSize)) = IntSize
  <2> HIDE DEF c
  <2>1. IntSize \in 0 .. Len(c)
    BY <1>1, <1>2
  <2> QED
    BY <1>1, <2>1, Split
<1>4. SubSeq(c, 1, IntSize) \in [1 .. IntSize -> Byte]
  BY <1>3, LenProperties
<1>5. IntOf(SubSeq(c, 1, IntSize)) \in Int
  BY <1>4, FramingAssumption
<1> QED
  BY <1>1, <1>2, <1>5 DEF MsgLen

\* What TakeMessage does to the buffer: the length and the message are gone from it, and
\* nothing else is.
LEMMA TakeProperties ==
  ASSUME FramingTypes, HasLength, LengthOK, Whole
  PROVE  LET c    == Contents(readBuf)
             size == IntSize + MsgLen
             b    == retrieve(retrieve(readBuf, IntSize), MsgLen)
         IN  /\ c \in Seq(Byte) /\ Len(c) = readableBytes(readBuf)
             /\ size \in 0 .. Len(c) /\ MsgLen \in 1 .. MaxLen
             /\ IsBuffer(b) /\ b.size = readBuf.size
             /\ Contents(b) = SubSeq(c, size + 1, Len(c))
<1> DEFINE c    == Contents(readBuf)
           R    == readableBytes(readBuf)
           size == IntSize + MsgLen
           a    == retrieve(readBuf, IntSize)
           b    == retrieve(a, MsgLen)
<1>1. /\ MsgLen \in Int /\ c \in Seq(Byte) /\ Len(c) = R /\ R \in Nat /\ IntSize < R
      /\ IsBuffer(readBuf)
  BY MsgLenProperties DEF FramingTypes
<1>2. /\ IntSize \in Nat /\ MaxLen \in Nat /\ MsgLen > 0 /\ MsgLen <= MaxLen
      /\ R >= MsgLen + IntSize
  BY FramingAssumption DEF LengthOK, Whole
<1> HIDE DEF R, c
<1>3. /\ IsBuffer(a) /\ a.size = readBuf.size /\ readableBytes(a) = R - IntSize
      /\ \A i \in 1 .. R - IntSize : Contents(a)[i] = c[IntSize + i]
  BY <1>1, <1>2, RetrieveProperties DEF R, c
<1> HIDE DEF a
<1>4. MsgLen \in Nat /\ MsgLen <= readableBytes(a)
  BY <1>1, <1>2, <1>3
<1>5. /\ IsBuffer(b) /\ b.size = a.size /\ readableBytes(b) = (R - IntSize) - MsgLen
      /\ \A i \in 1 .. (R - IntSize) - MsgLen : Contents(b)[i] = Contents(a)[MsgLen + i]
  BY <1>3, <1>4, RetrieveProperties
<1> HIDE DEF b
<1>6. size \in 0 .. Len(c) /\ Len(c) - size = (R - IntSize) - MsgLen
  BY <1>1, <1>2
<1>7. /\ Contents(b) \in Seq(Byte) /\ Len(Contents(b)) = (R - IntSize) - MsgLen
  BY <1>5, BufferContents
<1>8. ASSUME NEW i \in 1 .. (R - IntSize) - MsgLen
      PROVE  Contents(b)[i] = c[size + i]
  <2>1. MsgLen + i \in 1 .. R - IntSize /\ IntSize + (MsgLen + i) = size + i
    BY <1>1, <1>2
  <2> QED
    BY <1>3, <1>5, <2>1
<1>9. /\ SubSeq(c, size + 1, Len(c)) \in Seq(Byte)
      /\ Len(SubSeq(c, size + 1, Len(c))) = Len(c) - size
      /\ \A i \in 1 .. Len(c) - size : SubSeq(c, size + 1, Len(c))[i] = c[size + i]
  <2> HIDE DEF size
  <2> QED
    BY <1>1, <1>6, Split
<1>10. Contents(b) = SubSeq(c, size + 1, Len(c))
  <2> HIDE DEF size
  <2> QED
    BY <1>6, <1>7, <1>8, <1>9, SeqEqual
<1> QED
  BY <1>1, <1>2, <1>3, <1>5, <1>6, <1>10 DEF a, b, c, R

\* The state of the stream before and after the buffer.
StreamInv == FramingTypes /\ StreamKept

LEMMA StreamInit == FramingInit => StreamInv
<1> SUFFICES ASSUME FramingInit PROVE StreamInv
  OBVIOUS
<1>1. FramingTypes
  BY NewIsBuffer, EmptySeq DEF FramingInit, FramingTypes
<1>2. Contents(readBuf) = <<>> /\ eaten = <<>> /\ wire = <<>> /\ stream = <<>>
  BY NewIsBuffer DEF FramingInit
<1>3. (<<>> \o <<>>) \o <<>> = <<>>
  BY EmptySeq, ConcatEmptySeq
<1> QED
  BY <1>1, <1>2, <1>3 DEF StreamInv, StreamKept

\* More is sent.
LEMMA EmitStep ==
  ASSUME StreamInv, NEW bytes \in Seq(Byte), Emit(bytes), UNCHANGED <<readBuf, eaten>>
  PROVE  wire' \in Seq(Byte) /\ stream' \in Seq(Byte) /\ StreamKept'
<1> DEFINE c == Contents(readBuf)
<1>1. /\ wire \in Seq(Byte) /\ stream \in Seq(Byte) /\ eaten \in Seq(Byte) /\ c \in Seq(Byte)
      /\ (eaten \o c) \o wire = stream
  BY BufferContents DEF StreamInv, FramingTypes, StreamKept
<1>2. wire' = wire \o bytes /\ stream' = stream \o bytes
  BY DEF Emit
<1>3. readBuf' = readBuf /\ eaten' = eaten
  OBVIOUS
<1> HIDE DEF c
<1>4. eaten \o c \in Seq(Byte)
  BY <1>1, ConcatProperties
<1>5. ((eaten \o c) \o wire) \o bytes = (eaten \o c) \o (wire \o bytes)
  BY <1>1, <1>4, BytesAssociate
<1> QED
  BY <1>1, <1>2, <1>3, <1>5, ConcatProperties DEF StreamKept, c

\* A chunk arrives.
LEMMA ReceiveStep ==
  ASSUME StreamInv, NEW n \in 1 .. MaxChunk, Receive(n)
  PROVE  /\ StreamInv'
         /\ \/ readBuf'.size = readBuf.size
            \/ readBuf'.size < readableBytes(readBuf) + 2 * n + Prepend
<1> DEFINE c     == Contents(readBuf)
           chunk == SubSeq(wire, 1, n)
           rest  == SubSeq(wire, n + 1, Len(wire))
<1>1. /\ wire \in Seq(Byte) /\ stream \in Seq(Byte) /\ eaten \in Seq(Byte) /\ c \in Seq(Byte)
      /\ (eaten \o c) \o wire = stream /\ IsBuffer(readBuf)
  BY BufferContents DEF StreamInv, FramingTypes, StreamKept
<1>2. /\ readBuf' = write(readBuf, chunk) /\ wire' = rest
      /\ eaten' = eaten /\ stream' = stream /\ pc' = "loop"
      /\ UNCHANGED <<closed, sent, spoiled, out>> /\ n <= Len(wire)
  BY DEF Receive
<1>3. n \in 0 .. Len(wire)
  BY <1>1, <1>2, LenProperties, FramingAssumption
<1>4. /\ chunk \in Seq(Byte) /\ Len(chunk) = n /\ rest \in Seq(Byte)
      /\ chunk \o rest = wire
  BY <1>1, <1>3, Split
<1> HIDE DEF c, chunk, rest
<1>5. /\ IsBuffer(readBuf') /\ Contents(readBuf') = c \o chunk
      /\ \/ readBuf'.size = readBuf.size
         \/ readBuf'.size < readableBytes(readBuf) + 2 * n + Prepend
  BY <1>1, <1>2, <1>4, WriteProperties DEF c
<1>6. (eaten \o c) \o chunk = eaten \o (c \o chunk)
  <2>1. eaten \in Seq(Byte) /\ c \in Seq(Byte) /\ chunk \in Seq(Byte)
    BY <1>1, <1>4
  <2> QED
    BY <2>1, BytesAssociate
<1>7. ((eaten \o c) \o chunk) \o rest = (eaten \o c) \o (chunk \o rest)
  <2>1. eaten \o c \in Seq(Byte)
    BY <1>1, ConcatProperties
  <2> QED
    BY <1>4, <2>1, BytesAssociate
<1>8. StreamKept'
  BY <1>1, <1>2, <1>4, <1>5, <1>6, <1>7 DEF StreamKept
<1>9. FramingTypes'
  BY <1>1, <1>2, <1>4, <1>5 DEF StreamInv, FramingTypes
<1> QED
  BY <1>5, <1>8, <1>9 DEF StreamInv

\* A message is taken out.
LEMMA TakeStep ==
  ASSUME StreamInv, TakeMessage
  PROVE  StreamInv' /\ readBuf'.size = readBuf.size
<1> DEFINE c     == Contents(readBuf)
           size  == IntSize + MsgLen
           front == SubSeq(c, 1, size)
           back  == SubSeq(c, size + 1, Len(c))
           body  == SubSeq(c, IntSize + 1, size)
<1>1. FramingTypes /\ HasLength /\ LengthOK /\ Whole
  BY DEF StreamInv, TakeMessage
<1>2. /\ c \in Seq(Byte) /\ size \in 0 .. Len(c) /\ MsgLen \in 1 .. MaxLen
      /\ IsBuffer(readBuf') /\ readBuf'.size = readBuf.size /\ Contents(readBuf') = back
  BY <1>1, TakeProperties DEF TakeMessage
<1>3. /\ wire \in Seq(Byte) /\ stream \in Seq(Byte) /\ eaten \in Seq(Byte)
      /\ (eaten \o c) \o wire = stream
  BY <1>1 DEF StreamInv, FramingTypes, StreamKept
<1>4. /\ out' = Append(out, body) /\ eaten' = eaten \o front
      /\ UNCHANGED <<wire, pc, closed, sent, spoiled, stream>>
  BY DEF TakeMessage
<1>5. body \in Seq(Byte)
  <2>1. \A i \in IntSize + 1 .. size : c[i] \in Byte
    BY <1>2, ElementOfSeq, LenProperties, FramingAssumption
  <2>2. IntSize + 1 \in Int /\ size \in Int
    BY <1>2, FramingAssumption
  <2> HIDE DEF size, c
  <2> QED
    BY <2>1, <2>2, SubSeqProperties
<1> HIDE DEF body
<1>6. front \in Seq(Byte) /\ back \in Seq(Byte) /\ front \o back = c
  <2> HIDE DEF size, c
  <2> QED
    BY <1>2, Split
<1> HIDE DEF c, front, back
<1>7. (eaten \o front) \o back = eaten \o (front \o back)
  BY <1>3, <1>6, BytesAssociate
<1>8. StreamKept'
  BY <1>2, <1>3, <1>4, <1>6, <1>7 DEF StreamKept
<1>9. eaten' \in Seq(Byte)
  BY <1>3, <1>4, <1>6, ConcatProperties
<1>10. out' \in Seq(Seq(Byte))
  BY <1>1, <1>4, <1>5, AppendProperties DEF FramingTypes
<1>11. FramingTypes'
  BY <1>1, <1>2, <1>4, <1>9, <1>10 DEF FramingTypes
<1> QED
  BY <1>2, <1>8, <1>11 DEF StreamInv

LEMMA StreamStep ==
  ASSUME StreamInv, [FramingNext]_framingVars
  PROVE  StreamInv'
<1>1. ASSUME NEW payload \in Payloads, PeerSend(payload)
      PROVE  StreamInv'
  <2>1. BytesOf(Len(payload)) \o payload \in Seq(Byte)
    BY PayloadProperties, ConcatProperties
  <2>2. /\ Emit(BytesOf(Len(payload)) \o payload) /\ sent' = Append(sent, payload)
        /\ UNCHANGED <<readBuf, pc, closed, spoiled, out, eaten>>
    BY <1>1 DEF PeerSend
  <2>3. wire' \in Seq(Byte) /\ stream' \in Seq(Byte) /\ StreamKept'
    BY <2>1, <2>2, EmitStep
  <2>4. sent' \in Seq(Payloads)
    BY <2>2, AppendProperties DEF StreamInv, FramingTypes
  <2> QED
    BY <2>2, <2>3, <2>4 DEF StreamInv, FramingTypes
<1>2. ASSUME NEW n \in BadLens, NEW byte \in Byte, PeerSendBad(n, byte)
      PROVE  StreamInv'
  <2>1. Append(BytesOf(n), byte) \in Seq(Byte)
    BY BadLenProperties, AppendProperties
  <2>2. /\ Emit(Append(BytesOf(n), byte)) /\ spoiled' = TRUE
        /\ UNCHANGED <<readBuf, pc, closed, sent, out, eaten>>
    BY <1>2 DEF PeerSendBad
  <2>3. wire' \in Seq(Byte) /\ stream' \in Seq(Byte) /\ StreamKept'
    BY <2>1, <2>2, EmitStep
  <2> QED
    BY <2>2, <2>3 DEF StreamInv, FramingTypes
<1>3. ASSUME NEW n \in 1 .. MaxChunk, Receive(n)
      PROVE  StreamInv'
  BY <1>3, ReceiveStep
<1>4. CASE TakeMessage
  BY <1>4, TakeStep
<1>5. CASE Malformed
  BY <1>5 DEF Malformed, StreamInv, FramingTypes, StreamKept
<1>6. CASE LeaveLoop
  BY <1>6 DEF LeaveLoop, StreamInv, FramingTypes, StreamKept
<1>7. CASE UNCHANGED framingVars
  BY <1>7 DEF framingVars, StreamInv, FramingTypes, StreamKept
<1> QED
  BY <1>1, <1>2, <1>3, <1>4, <1>5, <1>6, <1>7 DEF FramingNext

\* Between any two steps of OnRecvCompelet the buffer is well formed and its bytes are the
\* next ones of the stream.
THEOREM StreamInvariant == FramingSpec => []StreamInv
<1>1. StreamInv /\ [FramingNext]_framingVars => StreamInv'
  BY StreamStep
<1> QED
  BY StreamInit, <1>1, PTL DEF FramingSpec

\* CConnectionChannel::OnRecvCompelet and Buffer, for chunks, messages and a buffer of any
\* size: not a byte of the stream is lost, doubled or moved, whether the buffer grows,
\* moves its contents down or starts again from its reserve.
THEOREM StreamKeptHolds == FramingSpec => []StreamKept
<1>1. StreamInv => StreamKept
  BY DEF StreamInv
<1> QED
  BY StreamInvariant, <1>1, PTL

-------------------------------------------------------------------------------
(* The size of the buffer *)

LEMMA LargestSizeBounds ==
  /\ LargestSize \in Nat
  /\ Prepend + InitSize <= LargestSize
  /\ Prepend + 2 * MaxChunk + IntSize + MaxLen <= LargestSize
<1> DEFINE a == Prepend + InitSize
           b == Prepend + 2 * MaxChunk + IntSize + MaxLen
<1>1. a \in Nat /\ b \in Nat
  BY BufferAssumption, FramingAssumption
<1>2. LargestSize = CHOOSE x \in {a, b} : \A y \in {a, b} : x >= y
  BY DEF LargestSize, Max
<1> HIDE DEF a, b
<1>3. \E x \in {a, b} : \A y \in {a, b} : x >= y
  BY <1>1
<1>4. LargestSize \in {a, b} /\ \A y \in {a, b} : LargestSize >= y
  BY <1>2, <1>3
<1>5. LargestSize \in Nat /\ a <= LargestSize /\ b <= LargestSize
  BY <1>1, <1>4
<1> QED
  BY <1>5 DEF a, b

\* The buffer is small because no WSARecv is posted while a whole message is in it.
SizeInv == StreamInv /\ WaitsForMore /\ readBuf.size <= LargestSize

LEMMA SizeStep ==
  ASSUME SizeInv, [FramingNext]_framingVars
  PROVE  SizeInv'
<1>1. StreamInv'
  BY StreamStep DEF SizeInv
<1>2. ASSUME readBuf' = readBuf, pc' = pc, closed' = closed
      PROVE  SizeInv'
  BY <1>1, <1>2 DEF SizeInv, WaitsForMore
<1>3. ASSUME NEW n \in 1 .. MaxChunk, Receive(n)
      PROVE  SizeInv'
  <2>1. pc' = "loop" /\ readableBytes(readBuf) < IntSize + MaxLen
    BY <1>3 DEF Receive, SizeInv, WaitsForMore
  <2>2. \/ readBuf'.size = readBuf.size
        \/ readBuf'.size < readableBytes(readBuf) + 2 * n + Prepend
    BY <1>3, ReceiveStep DEF SizeInv
  <2>3. readBuf'.size \in Nat /\ readBuf.size \in Nat /\ readableBytes(readBuf) \in Nat
    BY <1>1, BufferFields DEF SizeInv, StreamInv, FramingTypes
  <2>4. readBuf'.size <= LargestSize
    BY <2>1, <2>2, <2>3, LargestSizeBounds, BufferAssumption, FramingAssumption DEF SizeInv
  <2> QED
    BY <1>1, <2>1, <2>4 DEF SizeInv, WaitsForMore
<1>4. CASE TakeMessage
  <2>1. readBuf'.size = readBuf.size /\ pc' = "loop"
    BY <1>4, TakeStep DEF SizeInv, TakeMessage
  <2> QED
    BY <1>1, <2>1 DEF SizeInv, WaitsForMore
<1>5. CASE Malformed
  BY <1>1, <1>5 DEF Malformed, SizeInv, WaitsForMore
<1>6. CASE LeaveLoop
  <2>1. FramingTypes
    BY DEF SizeInv, StreamInv
  <2>2. readBuf' = readBuf /\ (HasLength => LengthOK /\ ~Whole)
    BY <1>6 DEF LeaveLoop
  <2>3. readableBytes(readBuf) \in Nat /\ IntSize \in Nat /\ MaxLen \in Nat \ {0}
    BY <2>1, BufferFields, FramingAssumption DEF FramingTypes
  <2>4. CASE HasLength
    <3>1. MsgLen \in Int /\ MsgLen <= MaxLen /\ ~(readableBytes(readBuf) >= MsgLen + IntSize)
      BY <2>1, <2>2, <2>4, MsgLenProperties DEF LengthOK, Whole
    <3>2. readableBytes(readBuf) < IntSize + MaxLen
      BY <2>3, <3>1
    <3> QED
      BY <1>1, <2>2, <3>2 DEF SizeInv, WaitsForMore
  <2>5. CASE ~HasLength
    <3>1. readableBytes(readBuf) < IntSize + MaxLen
      BY <2>3, <2>5 DEF HasLength
    <3> QED
      BY <1>1, <2>2, <3>1 DEF SizeInv, WaitsForMore
  <2> QED
    BY <2>4, <2>5
<1>7. ASSUME NEW payload \in Payloads, PeerSend(payload)
      PROVE  SizeInv'
  BY <1>2, <1>7 DEF PeerSend
<1>8. ASSUME NEW n \in BadLens, NEW byte \in Byte, PeerSendBad(n, byte)
      PROVE  SizeInv'
  BY <1>2, <1>8 DEF PeerSendBad
<1>9. CASE UNCHANGED framingVars
  BY <1>2, <1>9 DEF framingVars
<1> QED
  BY <1>3, <1>4, <1>5, <1>6, <1>7, <1>8, <1>9 DEF FramingNext

\* What the loop leaves in the buffer is less than a message, which bounds its growth.
THEOREM SizeInvariant == FramingSpec => []SizeInv
<1>1. FramingInit => SizeInv
  <2> SUFFICES ASSUME FramingInit PROVE SizeInv
    OBVIOUS
  <2>1. readBuf = NewBuffer /\ readBuf.size = Prepend + InitSize
    BY DEF FramingInit, NewBuffer, Buf
  <2>2. readableBytes(readBuf) < IntSize + MaxLen
    BY <2>1, NewIsBuffer, FramingAssumption
  <2> QED
    BY <2>1, <2>2, StreamInit, LargestSizeBounds DEF SizeInv, WaitsForMore
<1>2. SizeInv /\ [FramingNext]_framingVars => SizeInv'
  BY SizeStep
<1> QED
  BY <1>1, <1>2, PTL DEF FramingSpec

\* The indexes of _readBuffer stay in order inside its vector, and the vector stays
\* below LargestSize, whatever the peer sends and however it is cut.
THEOREM BufferBoundedHolds == FramingSpec => []BufferBounded
<1>1. SizeInv => BufferBounded
  BY DEF SizeInv, StreamInv, FramingTypes, BufferBounded
<1> QED
  BY SizeInvariant, <1>1, PTL

-------------------------------------------------------------------------------
(* The messages *)

\* The stream is the messages sent, one behind the other: message i ends at pos[i].
Laid(pos) ==
    /\ pos[0] = 0
    /\ \A i \in 1 .. Len(sent) :
          /\ pos[i] = pos[i - 1] + IntSize + Len(sent[i])
          /\ Stands(stream, pos[i - 1], BytesOf(Len(sent[i])))
          /\ Stands(stream, pos[i - 1] + IntSize, sent[i])

\* Behind them comes a length that is refused, and a byte, or nothing.
Ended(pos) ==
    /\ ~spoiled => Len(stream) = pos[Len(sent)]
    /\ spoiled =>
          /\ Len(stream) = pos[Len(sent)] + IntSize + 1
          /\ \E n \in BadLens : Stands(stream, pos[Len(sent)], BytesOf(n))

\* What was taken out of the buffer are the first messages, each of them whole.
Taken(pos) ==
    /\ Len(out) <= Len(sent)
    /\ \A i \in 1 .. Len(out) : out[i] = sent[i]
    /\ Len(eaten) = pos[Len(out)]

Parsed ==
    \E pos \in [0 .. Len(sent) -> 0 .. Len(stream)] : Laid(pos) /\ Ended(pos) /\ Taken(pos)

\* Only a refused length closes the socket, and it comes after all messages.
ClosedLast == closed => spoiled /\ Len(out) = Len(sent)

\* What the loop leaves in the buffer does not begin with a whole message.
LoopDone == pc = "wait" /\ ~closed => (HasLength => LengthOK /\ ~Whole)

MessageInv == StreamInv /\ Parsed /\ ClosedLast /\ LoopDone

\* What stands in the stream behind the bytes that were taken out, and has arrived, is in
\* the buffer.
LEMMA InBuffer ==
  ASSUME StreamInv, NEW p \in Nat, NEW b \in Seq(Byte), p + Len(b) <= readableBytes(readBuf),
         Stands(stream, Len(eaten) + p, b)
  PROVE  SubSeq(Contents(readBuf), p + 1, p + Len(b)) = b
<1> DEFINE c == Contents(readBuf)
<1>1. /\ eaten \in Seq(Byte) /\ c \in Seq(Byte) /\ wire \in Seq(Byte)
      /\ Len(c) = readableBytes(readBuf) /\ (eaten \o c) \o wire = stream
  BY BufferContents DEF StreamInv, FramingTypes, StreamKept
<1> HIDE DEF c
<1>2. p + Len(b) <= Len(c) /\ Stands((eaten \o c) \o wire, Len(eaten) + p, b)
  BY <1>1
<1>3. SubSeq(c, p + 1, p + Len(b)) = b
  BY <1>1, <1>2, StandsInside
<1> QED
  BY <1>3 DEF c

LEMMA StreamLength ==
  ASSUME StreamInv
  PROVE  /\ Len(stream) = Len(eaten) + readableBytes(readBuf) + Len(wire)
         /\ Len(stream) \in Nat /\ Len(eaten) \in Nat /\ Len(wire) \in Nat
         /\ readableBytes(readBuf) \in Nat
         /\ Len(sent) \in Nat /\ Len(out) \in Nat
<1>1. /\ eaten \in Seq(Byte) /\ Contents(readBuf) \in Seq(Byte) /\ wire \in Seq(Byte)
      /\ stream \in Seq(Byte)
      /\ Len(Contents(readBuf)) = readableBytes(readBuf)
      /\ (eaten \o Contents(readBuf)) \o wire = stream
      /\ readableBytes(readBuf) \in Nat
  BY BufferContents, BufferFields DEF StreamInv, FramingTypes, StreamKept
<1>2. /\ eaten \o Contents(readBuf) \in Seq(Byte)
      /\ Len(eaten \o Contents(readBuf)) = Len(eaten) + Len(Contents(readBuf))
  BY <1>1, ConcatProperties
<1>3. Len((eaten \o Contents(readBuf)) \o wire) = Len(eaten \o Contents(readBuf)) + Len(wire)
  BY <1>1, <1>2, ConcatProperties
<1>4. Len(sent) \in Nat /\ Len(out) \in Nat
  BY LenProperties DEF StreamInv, FramingTypes
<1> QED
  BY <1>1, <1>2, <1>3, <1>4, LenProperties

\* The length that readInt finds: that of the next message, if there is one, and else one
\* that is refused.
LEMMA NextLength ==
  ASSUME StreamInv, HasLength,
         NEW pos \in [0 .. Len(sent) -> 0 .. Len(stream)],
         Laid(pos), Ended(pos), Taken(pos)
  PROVE  /\ Len(out) < Len(sent) =>
               /\ MsgLen = Len(sent[Len(out) + 1]) /\ LengthOK
         /\ ~(Len(out) < Len(sent)) => spoiled /\ ~LengthOK
<1> DEFINE j == Len(out)
<1>1. /\ FramingTypes /\ IntSize \in Nat /\ IntSize < readableBytes(readBuf)
      /\ readableBytes(readBuf) \in Nat
  BY MsgLenProperties, FramingAssumption DEF StreamInv
<1>2. /\ j \in Nat /\ Len(sent) \in Nat /\ j <= Len(sent) /\ Len(eaten) = pos[j]
      /\ Len(eaten) \in Nat /\ Len(stream) \in Nat /\ Len(wire) \in Nat
      /\ Len(stream) = Len(eaten) + readableBytes(readBuf) + Len(wire)
  BY StreamLength DEF Taken
<1> HIDE DEF j
<1>3. ASSUME NEW b \in Seq(Byte), Len(b) = IntSize, Stands(stream, Len(eaten), b)
      PROVE  MsgLen = IntOf(b)
  <2>1. Len(eaten) + 0 = Len(eaten) /\ 0 + 1 = 1 /\ 0 + Len(b) = IntSize /\ 0 \in Nat
        /\ 0 + Len(b) <= readableBytes(readBuf)
    BY <1>1, <1>2, <1>3
  <2>2. Stands(stream, Len(eaten) + 0, b)
    BY <1>3, <2>1
  <2>3. SubSeq(Contents(readBuf), 0 + 1, 0 + Len(b)) = b
    BY <1>3, <2>1, <2>2, InBuffer
  <2> QED
    BY <2>1, <2>3 DEF MsgLen
<1>4. ASSUME j < Len(sent)
      PROVE  MsgLen = Len(sent[j + 1]) /\ LengthOK
  <2>1. j + 1 \in 1 .. Len(sent) /\ (j + 1) - 1 = j
    BY <1>2, <1>4
  <2>2. sent[j + 1] \in Payloads
    BY <1>1, <2>1, ElementOfSeq DEF FramingTypes
  <2>3. Stands(stream, pos[j], BytesOf(Len(sent[j + 1])))
    BY <2>1 DEF Laid
  <2>4. MsgLen = IntOf(BytesOf(Len(sent[j + 1])))
    BY <1>2, <1>3, <2>2, <2>3, PayloadProperties
  <2>5. MsgLen = Len(sent[j + 1]) /\ MsgLen \in 1 .. MaxLen
    BY <2>2, <2>4, PayloadProperties
  <2> QED
    BY <2>5, FramingAssumption DEF LengthOK
<1>5. ASSUME ~(j < Len(sent))
      PROVE  spoiled /\ ~LengthOK
  <2>1. j = Len(sent)
    BY <1>2, <1>5
  <2>2. Len(stream) # pos[Len(sent)]
    BY <1>1, <1>2, <2>1
  <2>3. spoiled
    BY <2>2 DEF Ended
  <2>4. PICK n \in BadLens : Stands(stream, pos[Len(sent)], BytesOf(n))
    BY <2>3 DEF Ended
  <2>5. MsgLen = IntOf(BytesOf(n))
    BY <1>2, <1>3, <2>1, <2>4, BadLenProperties
  <2> QED
    BY <2>3, <2>5, BadLenProperties DEF LengthOK
<1> QED
  BY <1>4, <1>5 DEF j

LEMMA MessageInit == FramingInit => MessageInv
<1> SUFFICES ASSUME FramingInit PROVE MessageInv
  OBVIOUS
<1>1. /\ sent = <<>> /\ out = <<>> /\ eaten = <<>> /\ stream = <<>>
      /\ spoiled = FALSE /\ closed = FALSE /\ readBuf = NewBuffer
      /\ Len(<<>>) = 0
  BY EmptySeq DEF FramingInit
<1> DEFINE pos == [i \in 0 .. Len(sent) |-> 0]
<1>2. pos \in [0 .. Len(sent) -> 0 .. Len(stream)] /\ pos[0] = 0
  BY <1>1
<1> HIDE DEF pos
<1>3. Laid(pos) /\ Ended(pos) /\ Taken(pos)
  BY <1>1, <1>2 DEF Laid, Ended, Taken
<1>4. Parsed
  BY <1>2, <1>3 DEF Parsed
<1>5. ~HasLength
  BY <1>1, NewIsBuffer, FramingAssumption DEF HasLength
<1> QED
  BY <1>1, <1>4, <1>5, StreamInit DEF MessageInv, ClosedLast, LoopDone

\* What stands in the stream stands there after more is sent, and so do the messages.
LEMMA LaidStep ==
  ASSUME StreamInv, NEW bytes \in Seq(Byte), stream' = stream \o bytes,
         NEW pos \in [0 .. Len(sent) -> 0 .. Len(stream)], Laid(pos)
  PROVE  /\ Len(stream') \in Nat /\ Len(stream') = Len(stream) + Len(bytes)
         /\ \A i \in 0 .. Len(sent) : pos[i] \in 0 .. Len(stream')
         /\ \A i \in 1 .. Len(sent) :
               /\ pos[i - 1] \in 0 .. Len(stream) /\ pos[i] \in 0 .. Len(stream)
               /\ sent[i] \in Payloads
               /\ pos[i] = pos[i - 1] + IntSize + Len(sent[i])
               /\ Stands(stream', pos[i - 1], BytesOf(Len(sent[i])))
               /\ Stands(stream', pos[i - 1] + IntSize, sent[i])
<1>1. /\ stream \in Seq(Byte) /\ Len(sent) \in Nat /\ Len(stream) \in Nat /\ Len(bytes) \in Nat
      /\ sent \in Seq(Payloads)
  BY StreamLength, LenProperties DEF StreamInv, FramingTypes
<1>2. Len(stream') = Len(stream) + Len(bytes)
  BY <1>1, ConcatProperties
<1>3. ASSUME NEW i \in 0 .. Len(sent)
      PROVE  pos[i] \in 0 .. Len(stream')
  <2>1. pos[i] \in 0 .. Len(stream)
    OBVIOUS
  <2> QED
    BY <1>1, <1>2, <2>1
<1>4. ASSUME NEW i \in 1 .. Len(sent)
      PROVE  /\ pos[i - 1] \in 0 .. Len(stream) /\ pos[i] \in 0 .. Len(stream)
             /\ sent[i] \in Payloads
             /\ pos[i] = pos[i - 1] + IntSize + Len(sent[i])
             /\ Stands(stream', pos[i - 1], BytesOf(Len(sent[i])))
             /\ Stands(stream', pos[i - 1] + IntSize, sent[i])
  <2>1. i - 1 \in 0 .. Len(sent) /\ i \in 0 .. Len(sent)
    BY <1>1
  <2>2. pos[i - 1] \in 0 .. Len(stream) /\ pos[i] \in 0 .. Len(stream)
    BY <2>1
  <2>3. pos[i - 1] \in Nat /\ pos[i - 1] + IntSize \in Nat
    BY <1>1, <2>2, FramingAssumption
  <2>4. sent[i] \in Payloads
    BY <1>1, ElementOfSeq
  <2>5. /\ pos[i] = pos[i - 1] + IntSize + Len(sent[i])
        /\ Stands(stream, pos[i - 1], BytesOf(Len(sent[i])))
        /\ Stands(stream, pos[i - 1] + IntSize, sent[i])
    BY DEF Laid
  <2>6. sent[i] \in Seq(Byte) /\ BytesOf(Len(sent[i])) \in Seq(Byte)
    BY <2>4, PayloadProperties
  <2>7. Stands(stream', pos[i - 1], BytesOf(Len(sent[i])))
    BY <1>1, <2>3, <2>5, <2>6, StandsBefore
  <2>8. Stands(stream', pos[i - 1] + IntSize, sent[i])
    BY <1>1, <2>3, <2>5, <2>6, StandsBefore
  <2> QED
    BY <2>2, <2>4, <2>5, <2>7, <2>8
<1> QED
  BY <1>1, <1>2, <1>3, <1>4

\* A message more is laid at the end of the stream.
LEMMA SendParsed ==
  ASSUME StreamInv, Parsed, NEW payload \in Payloads, PeerSend(payload)
  PROVE  Parsed'
<1> DEFINE bytes == BytesOf(Len(payload)) \o payload
           L     == Len(sent)
<1>1. /\ ~spoiled /\ stream' = stream \o bytes /\ sent' = Append(sent, payload)
      /\ spoiled' = spoiled /\ out' = out /\ eaten' = eaten
  BY DEF PeerSend, Emit
<1>2. PICK pos \in [0 .. L -> 0 .. Len(stream)] : Laid(pos) /\ Ended(pos) /\ Taken(pos)
  BY DEF Parsed
<1>3. /\ BytesOf(Len(payload)) \in Seq(Byte) /\ payload \in Seq(Byte) /\ bytes \in Seq(Byte)
      /\ Len(BytesOf(Len(payload))) = IntSize /\ IntSize \in Nat
      /\ Len(payload) \in Nat /\ Len(bytes) = IntSize + Len(payload)
  BY PayloadProperties, ConcatProperties, FramingAssumption
<1>4. /\ Stands(bytes, 0, BytesOf(Len(payload)))
      /\ Stands(bytes, IntSize, payload)
  <2>1. Stands(BytesOf(Len(payload)), 0, BytesOf(Len(payload))) /\ Stands(payload, 0, payload)
    BY <1>3, StandsItself
  <2>2. Stands(bytes, 0, BytesOf(Len(payload)))
    BY <1>3, <2>1, StandsBefore
  <2>3. Stands(bytes, Len(BytesOf(Len(payload))) + 0, payload)
    BY <1>3, <2>1, StandsBehind
  <2>4. Len(BytesOf(Len(payload))) + 0 = IntSize
    BY <1>3
  <2> QED
    BY <2>2, <2>3, <2>4
<1> HIDE DEF bytes
<1>5. /\ L \in Nat /\ Len(stream) \in Nat /\ stream \in Seq(Byte) /\ sent \in Seq(Payloads)
      /\ Len(out) \in Nat /\ Len(out) <= L /\ Len(stream) = pos[L]
  BY <1>1, <1>2, StreamLength DEF StreamInv, FramingTypes, Ended, Taken
<1>6. /\ Len(sent') = L + 1 /\ sent'[L + 1] = payload
      /\ \A i \in 1 .. L : sent'[i] = sent[i]
  BY <1>1, <1>5, AppendProperties
<1> HIDE DEF L
<1>7. /\ Len(stream') \in Nat /\ Len(stream') = Len(stream) + Len(bytes)
      /\ \A i \in 0 .. L : pos[i] \in 0 .. Len(stream')
      /\ \A i \in 1 .. L :
            /\ pos[i - 1] \in 0 .. Len(stream) /\ pos[i] \in 0 .. Len(stream)
            /\ sent[i] \in Payloads
            /\ pos[i] = pos[i - 1] + IntSize + Len(sent[i])
            /\ Stands(stream', pos[i - 1], BytesOf(Len(sent[i])))
            /\ Stands(stream', pos[i - 1] + IntSize, sent[i])
  BY <1>1, <1>2, <1>3, LaidStep DEF L
<1>8. /\ Stands(stream', Len(stream), BytesOf(Len(payload)))
      /\ Stands(stream', Len(stream) + IntSize, payload)
  <2>1. Stands(stream \o bytes, Len(stream) + 0, BytesOf(Len(payload)))
    BY <1>3, <1>4, <1>5, StandsBehind
  <2>2. Stands(stream \o bytes, Len(stream) + IntSize, payload)
    BY <1>3, <1>4, <1>5, StandsBehind
  <2>3. Len(stream) + 0 = Len(stream)
    BY <1>5
  <2> QED
    BY <1>1, <2>1, <2>2, <2>3
<1>9. PICK new \in [0 .. L + 1 -> 0 .. Len(stream')] :
          new[L + 1] = Len(stream') /\ \A i \in 0 .. L : new[i] = pos[i]
  <2> DEFINE f == [i \in 0 .. L + 1 |-> IF i = L + 1 THEN Len(stream') ELSE pos[i]]
  <2>1. f \in [0 .. L + 1 -> 0 .. Len(stream')]
    BY <1>5, <1>7
  <2>2. f[L + 1] = Len(stream') /\ \A i \in 0 .. L : f[i] = pos[i]
    BY <1>5
  <2> HIDE DEF f
  <2> QED
    BY <2>1, <2>2
<1>11. ASSUME NEW i \in 1 .. L + 1
       PROVE  /\ new[i] = new[i - 1] + IntSize + Len(sent'[i])
              /\ Stands(stream', new[i - 1], BytesOf(Len(sent'[i])))
              /\ Stands(stream', new[i - 1] + IntSize, sent'[i])
  <2>1. CASE i = L + 1
    <3>1. new[i] = Len(stream') /\ new[i - 1] = Len(stream) /\ sent'[i] = payload
      <4>1. i - 1 = L /\ L \in 0 .. L
        BY <1>5, <2>1
      <4> QED
        BY <1>5, <1>6, <1>9, <2>1, <4>1
    <3> QED
      BY <1>3, <1>5, <1>7, <1>8, <3>1
  <2>2. CASE i # L + 1
    <3>1. i \in 1 .. L /\ i \in 0 .. L /\ i - 1 \in 0 .. L
      BY <1>5, <2>2
    <3> QED
      BY <1>6, <1>7, <1>9, <3>1
  <2> QED
    BY <2>1, <2>2
<1>12. 0 \in 0 .. L /\ Len(out) \in 0 .. L /\ \A i \in 1 .. Len(out) : i \in 1 .. L
  BY <1>5
<1>13. Laid(new)'
  <2>1. new[0] = 0
    BY <1>2, <1>9, <1>12 DEF Laid
  <2> QED
    BY <1>6, <1>11, <2>1 DEF Laid
<1>14. Ended(new)'
  BY <1>1, <1>6, <1>9 DEF Ended
<1>15. Taken(new)'
  <2>1. Len(out) <= L + 1
    BY <1>5
  <2> QED
    BY <1>1, <1>2, <1>6, <1>9, <1>12, <2>1 DEF Taken, L
<1> QED
  BY <1>6, <1>9, <1>13, <1>14, <1>15 DEF Parsed

\* A length that is refused is laid at the end of the stream, with the byte after it.
LEMMA SendBadParsed ==
  ASSUME StreamInv, Parsed, NEW n \in BadLens, NEW byte \in Byte, PeerSendBad(n, byte)
  PROVE  Parsed'
<1> DEFINE bytes == Append(BytesOf(n), byte)
           L     == Len(sent)
<1>1. /\ ~spoiled /\ stream' = stream \o bytes /\ sent' = sent
      /\ spoiled' = TRUE /\ out' = out /\ eaten' = eaten
  BY DEF PeerSendBad, Emit
<1>2. PICK pos \in [0 .. L -> 0 .. Len(stream)] : Laid(pos) /\ Ended(pos) /\ Taken(pos)
  BY DEF Parsed
<1>3. /\ BytesOf(n) \in Seq(Byte) /\ Len(BytesOf(n)) = IntSize /\ IntSize \in Nat
      /\ bytes \in Seq(Byte) /\ Len(bytes) = IntSize + 1
      /\ \A i \in 1 .. IntSize : bytes[i] = BytesOf(n)[i]
  BY BadLenProperties, AppendProperties, FramingAssumption
<1>4. Stands(bytes, 0, BytesOf(n))
  <2> HIDE DEF bytes
  <2>1. \A i \in 1 .. IntSize : 0 + i = i
    OBVIOUS
  <2> QED
    BY <1>3, <2>1 DEF Stands
<1> HIDE DEF bytes
<1>5. /\ L \in Nat /\ Len(stream) \in Nat /\ stream \in Seq(Byte)
      /\ Len(out) \in Nat /\ Len(out) <= L /\ Len(stream) = pos[L]
  BY <1>1, <1>2, StreamLength DEF StreamInv, FramingTypes, Ended, Taken
<1> HIDE DEF L
<1>6. /\ Len(stream') \in Nat /\ Len(stream') = Len(stream) + Len(bytes)
      /\ \A i \in 0 .. L : pos[i] \in 0 .. Len(stream')
      /\ \A i \in 1 .. L :
            /\ pos[i - 1] \in 0 .. Len(stream) /\ pos[i] \in 0 .. Len(stream)
            /\ sent[i] \in Payloads
            /\ pos[i] = pos[i - 1] + IntSize + Len(sent[i])
            /\ Stands(stream', pos[i - 1], BytesOf(Len(sent[i])))
            /\ Stands(stream', pos[i - 1] + IntSize, sent[i])
  BY <1>1, <1>2, <1>3, LaidStep DEF L
<1>7. Stands(stream', pos[L], BytesOf(n))
  <2>1. Stands(stream \o bytes, Len(stream) + 0, BytesOf(n))
    BY <1>3, <1>4, <1>5, StandsBehind
  <2>2. Len(stream) + 0 = pos[L]
    BY <1>5
  <2> QED
    BY <1>1, <2>1, <2>2
<1>8. pos \in [0 .. L -> 0 .. Len(stream')]
  BY <1>2, <1>6
<1>9. Laid(pos)'
  BY <1>1, <1>2, <1>6 DEF Laid, L
<1>10. Ended(pos)'
  <2>1. Len(stream') = pos[L] + IntSize + 1
    BY <1>3, <1>5, <1>6
  <2> QED
    BY <1>1, <1>7, <2>1 DEF Ended, L
<1>11. Taken(pos)'
  BY <1>1, <1>2 DEF Taken, L
<1> QED
  BY <1>1, <1>8, <1>9, <1>10, <1>11 DEF Parsed, L

\* The message taken out is the next one, and the whole of it.
LEMMA TakeParsed ==
  ASSUME StreamInv, Parsed, TakeMessage
  PROVE  Parsed' /\ Len(out') = Len(out) + 1 /\ Len(out) < Len(sent)
<1> DEFINE c    == Contents(readBuf)
           size == IntSize + MsgLen
           j    == Len(out)
<1>1. FramingTypes /\ HasLength /\ LengthOK /\ Whole
  BY DEF StreamInv, TakeMessage
<1>2. PICK pos \in [0 .. Len(sent) -> 0 .. Len(stream)] :
         Laid(pos) /\ Ended(pos) /\ Taken(pos)
  BY DEF Parsed
<1>3. j < Len(sent) /\ MsgLen = Len(sent[j + 1])
  BY <1>1, <1>2, NextLength
<1>4. /\ j \in Nat /\ Len(sent) \in Nat /\ j + 1 \in 1 .. Len(sent) /\ (j + 1) - 1 = j
      /\ j + 1 \in 0 .. Len(sent) /\ j \in 0 .. Len(sent)
  BY <1>3, StreamLength
<1>5. /\ out' = Append(out, SubSeq(c, IntSize + 1, size))
      /\ eaten' = eaten \o SubSeq(c, 1, size)
      /\ sent' = sent /\ stream' = stream /\ spoiled' = spoiled
  BY DEF TakeMessage
<1>6. /\ c \in Seq(Byte) /\ size \in 0 .. Len(c) /\ Len(c) = readableBytes(readBuf)
      /\ MsgLen \in 1 .. MaxLen /\ IntSize \in Nat
  BY <1>1, TakeProperties, FramingAssumption
<1>7. SubSeq(c, 1, size) \in Seq(Byte) /\ Len(SubSeq(c, 1, size)) = size
  <2> HIDE DEF c, size
  <2> QED
    BY <1>6, Split
<1>8. Len(eaten') = Len(eaten) + size
  BY <1>1, <1>5, <1>7, ConcatProperties DEF FramingTypes
<1>9. sent[j + 1] \in Payloads /\ sent[j + 1] \in Seq(Byte)
  <2>1. sent[j + 1] \in Payloads
    BY <1>1, <1>4, ElementOfSeq DEF FramingTypes
  <2> QED
    BY <2>1, PayloadProperties
<1>10. SubSeq(c, IntSize + 1, size) = sent[j + 1]
  <2>1. Stands(stream, pos[j] + IntSize, sent[j + 1]) /\ Len(eaten) = pos[j]
    BY <1>2, <1>4 DEF Laid, Taken
  <2>2. IntSize + Len(sent[j + 1]) = size /\ size <= readableBytes(readBuf)
    BY <1>3, <1>6
  <2>3. SubSeq(Contents(readBuf), IntSize + 1, IntSize + Len(sent[j + 1])) = sent[j + 1]
    BY <1>6, <1>9, <2>1, <2>2, InBuffer
  <2> QED
    BY <2>2, <2>3
<1> HIDE DEF c
<1>11. /\ Len(out') = j + 1 /\ out'[j + 1] = sent[j + 1]
       /\ \A i \in 1 .. j : out'[i] = out[i]
  <2>1. out' = Append(out, sent[j + 1])
    BY <1>5, <1>10
  <2>2. out \in Seq(Seq(Byte)) /\ sent[j + 1] \in Seq(Byte)
    BY <1>1, <1>9 DEF FramingTypes
  <2> QED
    BY <2>1, <2>2, AppendProperties
<1>12. Len(eaten') = pos[j + 1]
  <2>1. pos[j + 1] = pos[j] + IntSize + Len(sent[j + 1]) /\ Len(eaten) = pos[j]
    BY <1>2, <1>4 DEF Laid, Taken
  <2>2. pos[j] \in Nat
    BY <1>2, <1>4, StreamLength
  <2> QED
    BY <1>3, <1>6, <1>8, <2>1, <2>2
<1>13. Laid(pos)' /\ Ended(pos)'
  BY <1>2, <1>5 DEF Laid, Ended
<1>14. Taken(pos)'
  <2>1. ASSUME NEW i \in 1 .. j + 1
        PROVE  out'[i] = sent[i]
    <3>1. CASE i = j + 1
      BY <1>11, <3>1
    <3>2. CASE i # j + 1
      <4>1. i \in 1 .. j
        BY <1>4, <3>2
      <4> QED
        BY <1>2, <1>11, <4>1 DEF Taken
    <3> QED
      BY <3>1, <3>2
  <2>2. j + 1 <= Len(sent)
    BY <1>4
  <2> QED
    BY <1>5, <1>11, <1>12, <2>1, <2>2 DEF Taken
<1>15. Parsed'
  BY <1>5, <1>13, <1>14 DEF Parsed
<1> QED
  BY <1>3, <1>11, <1>15

LEMMA MessageStep ==
  ASSUME MessageInv, [FramingNext]_framingVars
  PROVE  MessageInv'
<1>0. StreamInv /\ StreamInv' /\ Parsed /\ ClosedLast /\ LoopDone /\ FramingTypes
  BY StreamStep DEF MessageInv, StreamInv
<1>1. ASSUME UNCHANGED <<sent, stream, spoiled, out, eaten>>
      PROVE  Parsed'
  BY <1>0, <1>1 DEF Parsed, Laid, Ended, Taken
<1>2. ASSUME NEW payload \in Payloads, PeerSend(payload)
      PROVE  MessageInv'
  <2>1. Parsed'
    BY <1>0, <1>2, SendParsed
  <2>2. UNCHANGED <<readBuf, pc, closed>> /\ ~spoiled
    BY <1>2 DEF PeerSend
  <2>3. ClosedLast' /\ LoopDone'
    BY <1>0, <2>2 DEF ClosedLast, LoopDone, HasLength, LengthOK, Whole, MsgLen
  <2> QED
    BY <1>0, <2>1, <2>3 DEF MessageInv
<1>3. ASSUME NEW n \in BadLens, NEW byte \in Byte, PeerSendBad(n, byte)
      PROVE  MessageInv'
  <2>1. Parsed'
    BY <1>0, <1>3, SendBadParsed
  <2>2. UNCHANGED <<readBuf, pc, closed>> /\ ~spoiled
    BY <1>3 DEF PeerSendBad
  <2>3. ClosedLast' /\ LoopDone'
    BY <1>0, <2>2 DEF ClosedLast, LoopDone, HasLength, LengthOK, Whole, MsgLen
  <2> QED
    BY <1>0, <2>1, <2>3 DEF MessageInv
<1>4. ASSUME NEW n \in 1 .. MaxChunk, Receive(n)
      PROVE  MessageInv'
  <2>1. pc' = "loop" /\ UNCHANGED <<closed, sent, spoiled, out, eaten, stream>>
    BY <1>4 DEF Receive
  <2>2. ClosedLast' /\ LoopDone'
    BY <1>0, <2>1 DEF ClosedLast, LoopDone
  <2> QED
    BY <1>0, <1>1, <2>1, <2>2 DEF MessageInv
<1>5. CASE TakeMessage
  <2>1. Parsed' /\ Len(out) < Len(sent) /\ Len(out) \in Nat /\ Len(sent) \in Nat
    BY <1>0, <1>5, TakeParsed, StreamLength
  <2>2. pc' = "loop" /\ closed' = closed
    BY <1>5 DEF TakeMessage
  <2>3. ~closed
    BY <1>0, <2>1 DEF ClosedLast
  <2> QED
    BY <1>0, <2>1, <2>2, <2>3 DEF MessageInv, ClosedLast, LoopDone
<1>6. CASE Malformed
  <2>1. HasLength /\ ~LengthOK /\ closed' = TRUE /\ UNCHANGED <<sent, spoiled, out, eaten, stream>>
    BY <1>6 DEF Malformed
  <2>2. PICK pos \in [0 .. Len(sent) -> 0 .. Len(stream)] :
           Laid(pos) /\ Ended(pos) /\ Taken(pos)
    BY <1>0 DEF Parsed
  <2>3. ~(Len(out) < Len(sent)) /\ spoiled
    BY <1>0, <2>1, <2>2, NextLength
  <2>4. Len(out) = Len(sent)
    BY <1>0, <2>2, <2>3, StreamLength DEF Taken
  <2> QED
    BY <1>0, <1>1, <2>1, <2>3, <2>4 DEF MessageInv, ClosedLast, LoopDone
<1>7. CASE LeaveLoop
  <2>1. /\ HasLength => LengthOK /\ ~Whole
        /\ UNCHANGED <<readBuf, closed, sent, spoiled, out, eaten, stream>>
    BY <1>7 DEF LeaveLoop
  <2>2. ClosedLast' /\ LoopDone'
    BY <1>0, <2>1 DEF ClosedLast, LoopDone, HasLength, LengthOK, Whole, MsgLen
  <2> QED
    BY <1>0, <1>1, <2>1, <2>2 DEF MessageInv
<1>8. CASE UNCHANGED framingVars
  <2>1. UNCHANGED <<readBuf, pc, closed, sent, spoiled, out, eaten, stream>>
    BY <1>8 DEF framingVars
  <2>2. ClosedLast' /\ LoopDone'
    BY <1>0, <2>1 DEF ClosedLast, LoopDone, HasLength, LengthOK, Whole, MsgLen
  <2> QED
    BY <1>0, <1>1, <2>1, <2>2 DEF MessageInv
<1> QED
  BY <1>2, <1>3, <1>4, <1>5, <1>6, <1>7, <1>8 DEF FramingNext

\* When all has arrived and the loop is done, nothing is left but what cannot be a message.
LEMMA AllInserted ==
  ASSUME MessageInv, pc = "wait", wire = <<>>
  PROVE  Len(out) = Len(sent) /\ closed = spoiled
<1>0. /\ StreamInv /\ Parsed /\ ClosedLast /\ LoopDone
      /\ FramingTypes /\ closed \in BOOLEAN /\ spoiled \in BOOLEAN
  BY DEF MessageInv, StreamInv, FramingTypes
<1>1. PICK pos \in [0 .. Len(sent) -> 0 .. Len(stream)] :
         Laid(pos) /\ Ended(pos) /\ Taken(pos)
  BY <1>0 DEF Parsed
<1>2. CASE closed
  BY <1>0, <1>2 DEF ClosedLast
<1>3. CASE ~closed
  <2>1. HasLength => LengthOK /\ ~Whole
    BY <1>0, <1>3 DEF LoopDone
  <2>2. /\ Len(stream) = Len(eaten) + readableBytes(readBuf)
        /\ Len(eaten) = pos[Len(out)] /\ Len(out) <= Len(sent)
        /\ readableBytes(readBuf) \in Nat /\ Len(eaten) \in Nat /\ Len(stream) \in Nat
        /\ Len(out) \in Nat /\ Len(sent) \in Nat /\ IntSize \in Nat
    BY <1>0, <1>1, StreamLength, EmptySeq, FramingAssumption DEF Taken
  <2>3. Len(out) = Len(sent)
    <3> SUFFICES ASSUME Len(out) < Len(sent) PROVE FALSE
      BY <2>2
    <3> DEFINE j == Len(out)
    <3>1. /\ j + 1 \in 1 .. Len(sent) /\ (j + 1) - 1 = j
          /\ j + 1 \in 0 .. Len(sent) /\ j \in 0 .. Len(sent)
      BY <2>2
    <3>2. /\ pos[j + 1] = pos[j] + IntSize + Len(sent[j + 1])
          /\ pos[j + 1] \in 0 .. Len(stream)
      BY <1>1, <3>1 DEF Laid
    <3>3. sent[j + 1] \in Payloads
      BY <1>0, <3>1, ElementOfSeq DEF FramingTypes
    <3>4. Len(sent[j + 1]) \in Nat /\ Len(sent[j + 1]) > 0
      BY <3>3, PayloadProperties
    <3>5. readableBytes(readBuf) >= IntSize + Len(sent[j + 1])
      BY <2>2, <3>2, <3>4
    <3>6. HasLength
      BY <2>2, <3>4, <3>5 DEF HasLength
    <3>7. MsgLen = Len(sent[j + 1])
      BY <1>0, <1>1, <3>6, NextLength
    <3>8. Whole
      BY <2>2, <3>4, <3>5, <3>7 DEF Whole
    <3> QED
      BY <2>1, <3>6, <3>8
  <2>4. ~spoiled
    <3> SUFFICES ASSUME spoiled PROVE FALSE
      OBVIOUS
    <3>1. Len(stream) = Len(eaten) + IntSize + 1
      BY <1>1, <2>2, <2>3 DEF Ended
    <3>2. HasLength
      BY <2>2, <3>1 DEF HasLength
    <3>3. ~(Len(out) < Len(sent))
      BY <2>2, <2>3
    <3>4. ~LengthOK
      BY <1>0, <1>1, <3>2, <3>3, NextLength
    <3> QED
      BY <2>1, <3>2, <3>4
  <2> QED
    BY <1>0, <1>3, <2>3, <2>4
<1> QED
  BY <1>2, <1>3

\* What was taken out of the buffer is the messages inserted, in their frames, and the loop
\* stops only where no whole message is left.
THEOREM MessageInvariant == FramingSpec => []MessageInv
<1>1. MessageInv /\ [FramingNext]_framingVars => MessageInv'
  BY MessageStep
<1> QED
  BY MessageInit, <1>1, PTL DEF FramingSpec

\* A sequence of bytes of another one's beginning is its prefix.
LEMMA PrefixOf ==
  ASSUME NEW S, NEW s \in Seq(S), NEW t \in Seq(S), Len(s) <= Len(t),
         \A i \in 1 .. Len(s) : s[i] = t[i]
  PROVE  IsPrefix(s, t) /\ (Len(s) = Len(t) => s = t)
<1>1. Len(s) \in Nat /\ Len(t) \in Nat /\ Len(s) \in 0 .. Len(t)
  BY LenProperties
<1>2. SubSeq(s, 1, Len(s)) = s
  BY SubSeqFull
<1>3. /\ SubSeq(t, 1, Len(s)) \in Seq(S) /\ Len(SubSeq(t, 1, Len(s))) = Len(s)
  BY <1>1, Split
<1>4. ASSUME NEW i \in 1 .. Len(s)
      PROVE  SubSeq(t, 1, Len(s))[i] = t[i]
  <2>1. \A k \in 1 .. Len(s) : t[k] \in S
    BY <1>1, ElementOfSeq
  <2>2. \A k \in 1 .. Len(s) - 1 + 1 : SubSeq(t, 1, Len(s))[k] = t[1 + k - 1]
    BY <1>1, <2>1, SubSeqProperties
  <2>3. i \in 1 .. Len(s) - 1 + 1 /\ 1 + i - 1 = i
    BY <1>1
  <2> QED
    BY <2>2, <2>3
<1>5. SubSeq(t, 1, Len(s)) = s
  BY <1>3, <1>4, SeqEqual
<1>6. Len(s) = Len(t) => s = t
  BY SeqEqual
<1> QED
  BY <1>1, <1>2, <1>5, <1>6 DEF IsPrefix

\* OnRecvCompelet inserts the messages sent, each of them once and in their order, for
\* every payload, every way to cut the stream and every number of messages; and when
\* everything has arrived, none is left in the buffer, and the socket is closed if and
\* only if a malformed length came.
THEOREM MessagesInOrderHolds == FramingSpec => []MessagesInOrder
<1>1. MessageInv => MessagesInOrder
  <2> SUFFICES ASSUME MessageInv PROVE MessagesInOrder
    OBVIOUS
  <2>1. StreamInv /\ FramingTypes
    BY DEF MessageInv, StreamInv
  <2>2. PICK pos \in [0 .. Len(sent) -> 0 .. Len(stream)] :
           Laid(pos) /\ Ended(pos) /\ Taken(pos)
    BY DEF MessageInv, Parsed
  <2>3. sent \in Seq(Seq(Byte)) /\ out \in Seq(Seq(Byte))
    <3>1. Payloads \subseteq Seq(Byte)
      BY FramingAssumption
    <3> QED
      BY <2>1, <3>1, SeqMonotonic DEF FramingTypes
  <2>4. Len(out) <= Len(sent) /\ \A i \in 1 .. Len(out) : out[i] = sent[i]
    BY <2>2 DEF Taken
  <2>5. IsPrefix(out, sent) /\ (Len(out) = Len(sent) => out = sent)
    BY <2>3, <2>4, PrefixOf
  <2>6. pc = "wait" /\ wire = <<>> => Len(out) = Len(sent) /\ closed = spoiled
    BY AllInserted
  <2> QED
    BY <2>5, <2>6 DEF MessagesInOrder
<1> QED
  BY MessageInvariant, <1>1, PTL

-------------------------------------------------------------------------------
(* Cipher: sequences of cells *)

\* Whatever its elements are.
IsSeq(s) == Len(s) \in Nat /\ s = [i \in 1 .. Len(s) |-> s[i]]

LEMMA FunctionIsSeq ==
  ASSUME NEW n \in Nat, NEW f, f = [i \in 1 .. n |-> f[i]]
  PROVE  IsSeq(f) /\ Len(f) = n
<1> DEFINE S == {f[i] : i \in 1 .. n}
<1>1. f \in [1 .. n -> S]
  <2>1. \A i \in 1 .. n : f[i] \in S
    OBVIOUS
  <2> HIDE DEF S
  <2> QED
    BY <2>1
<1> HIDE DEF S
<1>2. f \in Seq(S)
  BY <1>1
<1>3. Len(f) = n
  BY <1>1, <1>2
<1> QED
  BY <1>3 DEF IsSeq

LEMMA SeqIsSeq ==
  ASSUME NEW S, NEW s \in Seq(S)
  PROVE  IsSeq(s)
<1>1. Len(s) \in Nat /\ s \in [1 .. Len(s) -> S]
  BY LenProperties
<1>2. s = [i \in 1 .. Len(s) |-> s[i]]
  BY <1>1
<1> QED
  BY <1>1, <1>2 DEF IsSeq

LEMMA IsSeqEqual ==
  ASSUME NEW s, NEW t, IsSeq(s), IsSeq(t), Len(s) = Len(t),
         \A i \in 1 .. Len(s) : s[i] = t[i]
  PROVE  s = t
BY DEF IsSeq

\* A part of a sequence.
LEMMA PartOf ==
  ASSUME NEW s, IsSeq(s), NEW a \in Nat, NEW n \in Nat, a + n <= Len(s)
  PROVE  LET p == SubSeq(s, a + 1, a + n) IN
            IsSeq(p) /\ Len(p) = n /\ \A i \in 1 .. n : p[i] = s[a + i]
<1> DEFINE p == SubSeq(s, a + 1, a + n)
           q == [i \in 1 .. n |-> s[a + i]]
<1>1. p = q
  <2>1. p = [i \in 1 .. ((1 + (a + n)) - (a + 1)) |-> s[(i + (a + 1)) - 1]]
    OBVIOUS
  <2> HIDE DEF p
  <2>2. (1 + (a + n)) - (a + 1) = n
    OBVIOUS
  <2>3. \A i \in 1 .. n : (i + (a + 1)) - 1 = a + i
    OBVIOUS
  <2> QED
    BY <2>1, <2>2, <2>3
<1>2. \A i \in 1 .. n : q[i] = s[a + i]
  OBVIOUS
<1>3. q = [i \in 1 .. n |-> q[i]]
  OBVIOUS
<1> HIDE DEF p, q
<1>4. IsSeq(q) /\ Len(q) = n
  BY <1>3, FunctionIsSeq
<1> QED
  BY <1>1, <1>2, <1>4 DEF p

-------------------------------------------------------------------------------
(* What Send puts together *)

\* The length and the bytes of a message of n bytes.
Plain(n) == LenCells(n) \o Message(n)

LEMMA PlainCells ==
  ASSUME NEW n \in Nat
  PROVE  /\ IsSeq(LenCells(n)) /\ Len(LenCells(n)) = LenSize
         /\ IsSeq(Message(n)) /\ Len(Message(n)) = n
         /\ IsSeq(Plain(n)) /\ Len(Plain(n)) = LenSize + n
         /\ \A i \in 1 .. LenSize : Plain(n)[i] = LenCells(n)[i]
         /\ \A i \in 1 .. n : Plain(n)[LenSize + i] = Message(n)[i]
<1> DEFINE s == LenCells(n)
           t == Message(n)
           u == s \o t
           S == {s[i] : i \in 1 .. LenSize} \cup {t[i] : i \in 1 .. n}
<1>1. LenSize \in Nat
  BY CipherAssumption
<1>2. s = [i \in 1 .. LenSize |-> s[i]] /\ t = [i \in 1 .. n |-> t[i]]
  BY DEF LenCells, Message
<1> HIDE DEF s, t
<1>3. IsSeq(s) /\ Len(s) = LenSize /\ IsSeq(t) /\ Len(t) = n
  BY <1>1, <1>2, FunctionIsSeq
<1>4. s \in Seq(S) /\ t \in Seq(S)
  <2>1. (\A i \in 1 .. LenSize : s[i] \in S) /\ \A i \in 1 .. n : t[i] \in S
    OBVIOUS
  <2> HIDE DEF S
  <2>2. s \in [1 .. LenSize -> S] /\ t \in [1 .. n -> S]
    BY <1>2, <2>1
  <2> QED
    BY <1>1, <2>2
<1> HIDE DEF S
<1>5. /\ u \in Seq(S) /\ Len(u) = Len(s) + Len(t)
      /\ \A i \in 1 .. Len(s) + Len(t) : u[i] = IF i <= Len(s) THEN s[i] ELSE t[i - Len(s)]
  BY <1>4, ConcatProperties
<1> HIDE DEF u
<1>6. IsSeq(u) /\ Len(u) = LenSize + n
  BY <1>3, <1>5, SeqIsSeq
<1>7. \A i \in 1 .. LenSize : u[i] = s[i]
  BY <1>1, <1>3, <1>5
<1>8. ASSUME NEW i \in 1 .. n
      PROVE  u[LenSize + i] = t[i]
  <2>1. /\ LenSize + i \in 1 .. Len(s) + Len(t) /\ ~(LenSize + i <= Len(s))
        /\ (LenSize + i) - Len(s) = i
    BY <1>1, <1>3
  <2> QED
    BY <1>5, <2>1
<1> QED
  BY <1>3, <1>6, <1>7, <1>8 DEF s, t, u, Plain

\* The cells of a length tell it.
LEMMA LenCellsTell ==
  ASSUME NEW m \in Nat, NEW n \in Nat, LenCells(m) = LenCells(n)
  PROVE  m = n
<1>1. 1 \in 1 .. LenSize
  BY CipherAssumption
<1>2. LenCells(m)[1] = <<"len", m, 1>> /\ LenCells(n)[1] = <<"len", n, 1>>
  BY <1>1 DEF LenCells
<1>3. <<"len", m, 1>>[2] = <<"len", n, 1>>[2]
  BY <1>2
<1> QED
  BY <1>3

\* Decrypting is the inverse of encrypting.
LEMMA DecryptsEncrypted ==
  ASSUME NEW block
  PROVE  AES_decrypt(AES_encrypt(block)) = block
<1> DEFINE c == AES_encrypt(block)
<1>1. 1 \in 1 .. AesLen
  BY CipherAssumption
<1>2. c[1] = <<"aes", block, 1>>
  BY <1>1 DEF AES_encrypt
<1>3. c[1][1] = "aes" /\ c[1][2] = block
  BY <1>2
<1> HIDE DEF c
<1>4. c = AES_encrypt(c[1][2])
  BY <1>3 DEF c
<1>5. AES_decrypt(c) = block
  BY <1>3, <1>4 DEF AES_decrypt
<1> QED
  BY <1>5 DEF c

LEMMA ZeroCells ==
  ASSUME NEW n \in Nat
  PROVE  IsSeq(Zeros(n)) /\ Len(Zeros(n)) = n
<1> DEFINE z == Zeros(n)
<1>1. z = [i \in 1 .. n |-> z[i]]
  BY DEF Zeros
<1> HIDE DEF z
<1>2. IsSeq(z) /\ Len(z) = n
  BY <1>1, FunctionIsSeq
<1> QED
  BY <1>2 DEF z

-------------------------------------------------------------------------------
(* A round of either loop *)

\* What the round adds and what it leaves, when there is room for its block.
LEMMA RoundKeeps ==
  ASSUME IsSeq(outBuffer), NEW block, Round(block), Advance \in Nat,
         Advance + AesLen <= Len(outBuffer), ~outside
  PROVE  /\ IsSeq(outBuffer') /\ Len(outBuffer') = Len(outBuffer) /\ ~outside'
         /\ \A i \in 1 .. AesLen : outBuffer'[Advance + i] = block[i]
         /\ \A i \in 1 .. Advance : outBuffer'[i] = outBuffer[i]
<1> DEFINE a == Advance
           o == outBuffer
           p == outBuffer'
<1>1. AesLen \in Nat /\ AesLen # 0
  BY CipherAssumption
<1>2. p = [i \in 1 .. Len(o) |-> IF i > a /\ i <= a + AesLen THEN block[i - a] ELSE o[i]]
  BY DEF Round, PutBlock
<1>3. outside' = (outside \/ a + AesLen > Len(o))
  BY DEF Round
<1>4. a \in Nat /\ a + AesLen <= Len(o) /\ IsSeq(o) /\ Len(o) \in Nat
  BY DEF IsSeq
<1> HIDE DEF a, o, p
<1>5. p = [i \in 1 .. Len(o) |-> p[i]]
  BY <1>2
<1>6. IsSeq(p) /\ Len(p) = Len(o)
  BY <1>4, <1>5, FunctionIsSeq
<1>7. ~(a + AesLen > Len(o))
  BY <1>1, <1>4
<1>8. ~outside'
  BY <1>3, <1>7
<1>9. ASSUME NEW i \in 1 .. AesLen
      PROVE  p[a + i] = block[i]
  <2>1. /\ a + i \in 1 .. Len(o) /\ a + i > a /\ a + i <= a + AesLen /\ (a + i) - a = i
    BY <1>1, <1>4
  <2> QED
    BY <1>2, <2>1
<1>10. ASSUME NEW i \in 1 .. a
       PROVE  p[i] = o[i]
  <2>1. i \in 1 .. Len(o) /\ ~(i > a)
    BY <1>1, <1>4
  <2> QED
    BY <1>2, <2>1
<1> QED
  BY <1>6, <1>8, <1>9, <1>10 DEF a, o, p

-------------------------------------------------------------------------------
(* A short message arrives *)

First(m)  == BlockAt(Plain(m), 0)
Second(m) == BlockAt(Plain(m), AesLen)

Holds(cells, at, block) == \A i \in 1 .. AesLen : cells[at + i] = block[i]

\* Of at most two rounds, those of outLen are done.
Rounds(total, block1, block2) ==
    /\ \/ outLen = 0 /\ offset = 0
       \/ outLen = AesLen /\ offset = 0
       \/ outLen = 2 * AesLen /\ offset = AesLen
    /\ outLen < total + AesLen
    /\ IsSeq(outBuffer) /\ ~outside
    /\ outLen >= AesLen => Holds(outBuffer, 0, block1)
    /\ outLen = 2 * AesLen => Holds(outBuffer, AesLen, block2)

Encrypting(m) ==
    /\ stage = "Encrypter" /\ inBuffer = Plain(m)
    /\ Len(outBuffer) = LenSize + m + AesLen - 1
    /\ Rounds(LenSize + m, AES_encrypt(First(m)), AES_encrypt(Second(m)))

Decrypting(m) ==
    /\ stage = "Decrypter" /\ IsSeq(inBuffer)
    /\ Len(inBuffer) = AesLen \/ Len(inBuffer) = 2 * AesLen
    /\ LenSize + m <= Len(inBuffer)
    /\ Holds(inBuffer, 0, AES_encrypt(First(m)))
    /\ Len(inBuffer) = 2 * AesLen => Holds(inBuffer, AesLen, AES_encrypt(Second(m)))
    /\ Len(outBuffer) = Len(inBuffer)
    /\ Rounds(Len(inBuffer), First(m), Second(m))

Short(m) == LenSize + m <= 2 * AesLen

Sent(m) ==
    /\ stage # "send" /\ msg = Message(m)
    /\ Short(m) => \/ Encrypting(m) \/ Decrypting(m)
                   \/ stage = "received" /\ ~outside /\ received = msg

CipherInv ==
    \/ stage = "send" /\ ~outside
    \/ \E m \in MsgLens : Sent(m)

LEMMA Sizes ==
  /\ AesLen \in Nat /\ AesLen > 0 /\ LenSize \in Nat /\ LenSize > 0
  /\ \A m \in MsgLens : m \in Nat /\ m > 0
BY CipherAssumption

\* A round of a loop that has room for it and the right block.
LEMMA RoundsKept ==
  ASSUME NEW total \in Nat, NEW block1, NEW block2, NEW block, Round(block),
         Rounds(total, block1, block2), total = Len(inBuffer), total <= 2 * AesLen,
         outLen < total => outLen + AesLen <= Len(outBuffer),
         outLen = 0 => block = block1, outLen = AesLen => block = block2
  PROVE  Rounds(total, block1, block2)' /\ Len(outBuffer') = Len(outBuffer)
<1>1. AesLen \in Nat /\ AesLen > 0
  BY Sizes
<1>2. outLen < Len(inBuffer) /\ offset' = Advance /\ outLen' = outLen + AesLen
  BY DEF Round
<1>3. \/ outLen = 0 /\ offset = 0 /\ Advance = 0
      \/ outLen = AesLen /\ offset = 0 /\ Advance = AesLen
  BY <1>1, <1>2 DEF Rounds, Advance
<1>4. Advance \in Nat /\ Advance = outLen /\ Advance + AesLen <= Len(outBuffer)
  BY <1>1, <1>2, <1>3
<1>5. IsSeq(outBuffer) /\ ~outside
  BY DEF Rounds
<1>6. /\ IsSeq(outBuffer') /\ Len(outBuffer') = Len(outBuffer) /\ ~outside'
      /\ \A i \in 1 .. AesLen : outBuffer'[Advance + i] = block[i]
      /\ \A i \in 1 .. Advance : outBuffer'[i] = outBuffer[i]
  BY <1>4, <1>5, RoundKeeps
<1>7. CASE outLen = 0
  <2>1. Advance = 0 /\ block = block1 /\ outLen' = AesLen /\ offset' = 0
    BY <1>1, <1>2, <1>3, <1>7
  <2>2. Holds(outBuffer', 0, block1)
    BY <1>6, <2>1 DEF Holds
  <2>3. AesLen # 2 * AesLen /\ AesLen < total + AesLen
    BY <1>1, <1>2, <1>7
  <2> QED
    BY <1>6, <2>1, <2>2, <2>3 DEF Rounds
<1>8. CASE outLen = AesLen
  <2>1. Advance = AesLen /\ block = block2 /\ outLen' = 2 * AesLen /\ offset' = AesLen
    BY <1>1, <1>2, <1>3, <1>8
  <2>2. Holds(outBuffer', AesLen, block2)
    BY <1>6, <2>1 DEF Holds
  <2>3. Holds(outBuffer, 0, block1)
    BY <1>1, <1>8 DEF Rounds
  <2>4. Holds(outBuffer', 0, block1)
    <3>1. ASSUME NEW i \in 1 .. AesLen
          PROVE  outBuffer'[0 + i] = block1[i]
      <4>1. outBuffer'[i] = outBuffer[i] /\ 0 + i = i
        BY <1>1, <1>6, <2>1
      <4> QED
        BY <2>3, <4>1 DEF Holds
    <3> QED
      BY <3>1 DEF Holds
  <2>5. 2 * AesLen < total + AesLen
    BY <1>1, <1>2, <1>8
  <2> QED
    BY <1>6, <2>1, <2>2, <2>4, <2>5 DEF Rounds
<1> QED
  BY <1>3, <1>6, <1>7, <1>8

\* A block that holds an encrypted one is it.
LEMMA HeldBlock ==
  ASSUME NEW cells, IsSeq(cells), NEW at \in Nat, at + AesLen <= Len(cells), NEW block,
         Holds(cells, at, AES_encrypt(block))
  PROVE  BlockAt(cells, at) = AES_encrypt(block)
<1> DEFINE e == AES_encrypt(block)
           b == BlockAt(cells, at)
<1>1. AesLen \in Nat
  BY Sizes
<1>2. e = [i \in 1 .. AesLen |-> e[i]]
  BY DEF AES_encrypt
<1>3. b = [i \in 1 .. AesLen |-> IF at + i <= Len(cells) THEN cells[at + i] ELSE <<"any">>]
  BY DEF BlockAt
<1>4. \A i \in 1 .. AesLen : cells[at + i] = e[i]
  BY DEF Holds
<1> HIDE DEF e, b
<1>5. \A i \in 1 .. AesLen : at + i <= Len(cells)
  BY <1>1 DEF IsSeq
<1>6. b = [i \in 1 .. AesLen |-> e[i]]
  BY <1>3, <1>4, <1>5
<1> QED
  BY <1>2, <1>6 DEF e, b

LEMMA SendStep ==
  ASSUME NEW m \in MsgLens, ~outside, Send(m)
  PROVE  Sent(m)'
<1>1. /\ AesLen \in Nat /\ AesLen > 0 /\ LenSize \in Nat /\ m \in Nat /\ m > 0
  BY Sizes
<1>2. /\ stage' = "Encrypter" /\ msg' = Message(m) /\ inBuffer' = Plain(m)
      /\ outBuffer' = Zeros(LenSize + m + AesLen - 1) /\ offset' = 0 /\ outLen' = 0
      /\ outside' = outside
  BY DEF Send, Plain
<1>3. LenSize + m + AesLen - 1 \in Nat
  BY <1>1
<1>4. IsSeq(outBuffer') /\ Len(outBuffer') = LenSize + m + AesLen - 1
  BY <1>2, <1>3, ZeroCells
<1>5. 0 < LenSize + m + AesLen /\ ~(0 >= AesLen) /\ 0 # 2 * AesLen
  BY <1>1
<1>6. Rounds(LenSize + m, AES_encrypt(First(m)), AES_encrypt(Second(m)))'
  BY <1>2, <1>4, <1>5 DEF Rounds
<1>7. Encrypting(m)'
  BY <1>2, <1>4, <1>6 DEF Encrypting
<1> QED
  BY <1>2, <1>7 DEF Sent

LEMMA EncrypterStep ==
  ASSUME NEW m \in MsgLens, Sent(m), Encrypter
  PROVE  Sent(m)'
<1>1. /\ AesLen \in Nat /\ AesLen > 0 /\ LenSize \in Nat /\ m \in Nat
  BY Sizes
<1>2. /\ stage = "Encrypter" /\ Round(AES_encrypt(InBlock))
      /\ UNCHANGED <<stage, msg, inBuffer, received>>
  BY DEF Encrypter, Round
<1>3. CASE Short(m)
  <2>1. Encrypting(m)
    BY <1>2, <1>3 DEF Sent, Decrypting
  <2>2. LenSize + m \in Nat /\ LenSize + m = Len(inBuffer) /\ LenSize + m <= 2 * AesLen
    BY <1>1, <1>3, <2>1, PlainCells DEF Encrypting, Short
  <2>3. outLen < LenSize + m => outLen + AesLen <= Len(outBuffer)
    BY <1>1, <2>1 DEF Encrypting, Rounds
  <2>4. /\ outLen = 0 => AES_encrypt(InBlock) = AES_encrypt(First(m))
        /\ outLen = AesLen => AES_encrypt(InBlock) = AES_encrypt(Second(m))
    <3>1. /\ outLen = 0 => Advance = 0
          /\ outLen = AesLen => Advance = AesLen
      BY <1>1, <2>1 DEF Encrypting, Rounds, Advance
    <3> QED
      BY <2>1, <3>1 DEF InBlock, First, Second, Encrypting
  <2>5. /\ Rounds(LenSize + m, AES_encrypt(First(m)), AES_encrypt(Second(m)))'
        /\ Len(outBuffer') = Len(outBuffer)
    BY <1>2, <2>1, <2>2, <2>3, <2>4, RoundsKept DEF Encrypting
  <2>6. Encrypting(m)'
    BY <1>2, <2>1, <2>5 DEF Encrypting
  <2> QED
    BY <1>2, <2>6 DEF Sent
<1> QED
  BY <1>2, <1>3 DEF Sent

\* All the blocks that were encrypted are sent, and no others.
LEMMA DeliverStep ==
  ASSUME NEW m \in MsgLens, Sent(m), Deliver
  PROVE  Sent(m)'
<1>1. /\ AesLen \in Nat /\ AesLen > 0 /\ LenSize \in Nat /\ LenSize > 0 /\ m \in Nat /\ m > 0
  BY Sizes
<1>2. /\ stage = "Encrypter" /\ outLen >= Len(inBuffer) /\ stage' = "Decrypter"
      /\ inBuffer' = SubSeq(outBuffer, 1, outLen) /\ outBuffer' = Zeros(outLen)
      /\ offset' = 0 /\ outLen' = 0 /\ UNCHANGED <<msg, outside>>
  BY DEF Deliver
<1>3. CASE Short(m)
  <2>1. Encrypting(m)
    BY <1>2, <1>3 DEF Sent, Decrypting
  <2>2. LenSize + m = Len(inBuffer)
    BY <1>1, <2>1, PlainCells DEF Encrypting
  <2>3. outLen = AesLen \/ outLen = 2 * AesLen
    BY <1>1, <1>2, <2>1, <2>2 DEF Encrypting, Rounds
  <2>4. outLen \in Nat /\ outLen <= Len(outBuffer) /\ IsSeq(outBuffer) /\ ~outside
    BY <1>1, <2>1, <2>3 DEF Encrypting, Rounds
  <2>5. /\ IsSeq(inBuffer') /\ Len(inBuffer') = outLen
        /\ \A i \in 1 .. outLen : inBuffer'[i] = outBuffer[i]
    <3> DEFINE o == outBuffer
               n == outLen
    <3>1. IsSeq(o) /\ n \in Nat /\ 0 \in Nat /\ 0 + n <= Len(o) /\ 0 + n = n /\ 0 + 1 = 1
      BY <2>4
    <3> HIDE DEF o, n
    <3> DEFINE q == SubSeq(o, 0 + 1, 0 + n)
    <3>2. IsSeq(q) /\ Len(q) = n /\ \A i \in 1 .. n : q[i] = o[0 + i]
      BY <3>1, PartOf
    <3>3. \A i \in 1 .. n : 0 + i = i
      BY <3>1
    <3>4. inBuffer' = q
      BY <1>2, <3>1 DEF o, n
    <3> HIDE DEF q
    <3> QED
      BY <3>2, <3>3, <3>4 DEF o, n
  <2>6. /\ Holds(outBuffer, 0, AES_encrypt(First(m)))
        /\ outLen = 2 * AesLen => Holds(outBuffer, AesLen, AES_encrypt(Second(m)))
    BY <1>1, <2>1, <2>3 DEF Encrypting, Rounds
  <2>7. Holds(inBuffer', 0, AES_encrypt(First(m)))
    <3>1. \A i \in 1 .. AesLen : 0 + i \in 1 .. outLen
      BY <1>1, <2>3
    <3> QED
      BY <2>5, <2>6, <3>1 DEF Holds
  <2>8. ASSUME outLen = 2 * AesLen
        PROVE  Holds(inBuffer', AesLen, AES_encrypt(Second(m)))
    <3>1. \A i \in 1 .. AesLen : AesLen + i \in 1 .. outLen
      BY <1>1, <2>8
    <3> QED
      BY <2>5, <2>6, <2>8, <3>1 DEF Holds
  <2>9. IsSeq(outBuffer') /\ Len(outBuffer') = outLen
    BY <1>2, <2>4, ZeroCells
  <2>10. 0 < outLen + AesLen /\ ~(0 >= AesLen) /\ 0 # 2 * AesLen /\ LenSize + m <= outLen
    BY <1>1, <1>2, <2>2, <2>3
  <2>11. Rounds(Len(inBuffer), First(m), Second(m))'
    BY <1>2, <2>4, <2>5, <2>9, <2>10 DEF Rounds
  <2>12. Decrypting(m)'
    BY <1>2, <2>3, <2>5, <2>7, <2>8, <2>9, <2>10, <2>11 DEF Decrypting
  <2> QED
    BY <1>2, <2>12 DEF Sent
<1> QED
  BY <1>2, <1>3 DEF Sent

LEMMA DecrypterStep ==
  ASSUME NEW m \in MsgLens, Sent(m), Decrypter
  PROVE  Sent(m)'
<1>1. /\ AesLen \in Nat /\ AesLen > 0 /\ LenSize \in Nat /\ m \in Nat
  BY Sizes
<1>2. /\ stage = "Decrypter" /\ Round(AES_decrypt(InBlock))
      /\ UNCHANGED <<stage, msg, inBuffer, received>>
  BY DEF Decrypter, Round
<1>3. CASE Short(m)
  <2>1. Decrypting(m)
    BY <1>2, <1>3 DEF Sent, Encrypting
  <2>2. /\ Len(inBuffer) \in Nat /\ Len(inBuffer) <= 2 * AesLen /\ IsSeq(inBuffer)
        /\ Len(inBuffer) = AesLen \/ Len(inBuffer) = 2 * AesLen
    BY <1>1, <2>1 DEF Decrypting
  <2>3. outLen < Len(inBuffer) => outLen + AesLen <= Len(outBuffer)
    BY <1>1, <2>1 DEF Decrypting, Rounds
  <2>4. outLen < Len(inBuffer)
    BY <1>2 DEF Round
  <2>5. ASSUME outLen = 0
        PROVE  AES_decrypt(InBlock) = First(m)
    <3>1. Advance = 0
      BY <1>1, <2>1, <2>5 DEF Decrypting, Rounds, Advance
    <3>2. 0 + AesLen <= Len(inBuffer)
      BY <1>1, <2>2
    <3>3. BlockAt(inBuffer, 0) = AES_encrypt(First(m))
      BY <2>1, <2>2, <3>2, HeldBlock DEF Decrypting
    <3> QED
      BY <3>1, <3>3, DecryptsEncrypted DEF InBlock
  <2>6. ASSUME outLen = AesLen
        PROVE  AES_decrypt(InBlock) = Second(m)
    <3>1. Advance = AesLen
      BY <1>1, <2>1, <2>6 DEF Decrypting, Rounds, Advance
    <3>2. AesLen + AesLen <= Len(inBuffer) /\ Len(inBuffer) = 2 * AesLen
      BY <1>1, <2>2, <2>4, <2>6
    <3>3. BlockAt(inBuffer, AesLen) = AES_encrypt(Second(m))
      BY <1>1, <2>1, <2>2, <3>2, HeldBlock DEF Decrypting
    <3> QED
      BY <3>1, <3>3, DecryptsEncrypted DEF InBlock
  <2>7. /\ Rounds(Len(inBuffer), First(m), Second(m))'
        /\ Len(outBuffer') = Len(outBuffer)
    <3> DEFINE total == Len(inBuffer)
    <3>1. Rounds(total, First(m), Second(m))
      BY <2>1 DEF Decrypting
    <3>2. PICK n \in Nat : n = total
      BY <2>2
    <3>3. /\ Rounds(n, First(m), Second(m)) /\ n = Len(inBuffer) /\ n <= 2 * AesLen
          /\ outLen < n => outLen + AesLen <= Len(outBuffer)
      BY <2>2, <2>3, <3>1, <3>2
    <3>4. Rounds(n, First(m), Second(m))' /\ Len(outBuffer') = Len(outBuffer)
      BY <1>2, <2>5, <2>6, <3>3, RoundsKept
    <3>5. n = Len(inBuffer')
      BY <1>2, <3>3
    <3> QED
      BY <3>4, <3>5 DEF Rounds
  <2>8. Decrypting(m)'
    BY <1>2, <2>1, <2>7 DEF Decrypting
  <2> QED
    BY <1>2, <2>8 DEF Sent
<1> QED
  BY <1>2, <1>3 DEF Sent

LEMMA OnRecvStep ==
  ASSUME NEW m \in MsgLens, Sent(m), OnRecv
  PROVE  Sent(m)'
<1>1. /\ AesLen \in Nat /\ AesLen > 0 /\ LenSize \in Nat /\ LenSize > 0 /\ m \in Nat /\ m > 0
  BY Sizes
<1>2. /\ stage = "Decrypter" /\ outLen >= Len(inBuffer) /\ stage' = "received"
      /\ received' = SubSeq(outBuffer, LenSize + 1, LenSize + IntAt(outBuffer))
      /\ UNCHANGED <<msg, outside>>
  BY DEF OnRecv
<1>3. CASE Short(m)
  <2>1. Decrypting(m)
    BY <1>2, <1>3 DEF Sent, Encrypting
  <2>2. /\ IsSeq(outBuffer) /\ ~outside /\ LenSize + m <= Len(outBuffer)
        /\ Len(outBuffer) = AesLen \/ Len(outBuffer) = 2 * AesLen
        /\ Holds(outBuffer, 0, First(m))
        /\ Len(outBuffer) = 2 * AesLen => Holds(outBuffer, AesLen, Second(m))
    BY <1>1, <1>2, <2>1 DEF Decrypting, Rounds
  <2> DEFINE p == Plain(m)
             o == outBuffer
  <2>3. IsSeq(p) /\ Len(p) = LenSize + m
    BY <1>1, PlainCells
  <2>4. ASSUME NEW i \in 1 .. LenSize + m
        PROVE  o[i] = p[i]
    <3>1. CASE i <= AesLen
      <4>1. First(m)[i] = IF 0 + i <= Len(p) THEN p[0 + i] ELSE <<"any">>
        BY <1>1, <3>1 DEF First, BlockAt
      <4>2. o[0 + i] = First(m)[i]
        BY <1>1, <2>2, <3>1 DEF Holds
      <4> QED
        BY <1>1, <2>3, <4>1, <4>2
    <3>2. CASE ~(i <= AesLen)
      <4> DEFINE k == i - AesLen
      <4>1. k \in 1 .. AesLen /\ AesLen + k = i /\ Len(o) = 2 * AesLen
        BY <1>1, <2>2, <3>2
      <4> HIDE DEF k
      <4>2. Second(m)[k] = IF AesLen + k <= Len(p) THEN p[AesLen + k] ELSE <<"any">>
        BY <4>1 DEF Second, BlockAt
      <4>3. o[AesLen + k] = Second(m)[k]
        BY <2>2, <4>1 DEF Holds
      <4> QED
        BY <1>1, <2>3, <4>1, <4>2, <4>3
    <3> QED
      BY <3>1, <3>2
  <2> HIDE DEF p, o
  <2>5. IsSeq(o) /\ LenSize + m <= Len(o)
    BY <2>2 DEF o
  <2>6. SubSeq(o, 1, LenSize) = LenCells(m)
    <3> DEFINE q == SubSeq(o, 0 + 1, 0 + LenSize)
    <3>1. 0 \in Nat /\ 0 + LenSize <= Len(o)
      BY <1>1, <2>5 DEF IsSeq
    <3>2. IsSeq(q) /\ Len(q) = LenSize /\ \A i \in 1 .. LenSize : q[i] = o[0 + i]
      BY <1>1, <2>5, <3>1, PartOf
    <3>3. \A i \in 1 .. LenSize : o[0 + i] = p[i]
      BY <1>1, <2>4
    <3>4. \A i \in 1 .. LenSize : p[i] = LenCells(m)[i]
      BY <1>1, PlainCells DEF p
    <3>5. IsSeq(LenCells(m)) /\ Len(LenCells(m)) = LenSize
      BY <1>1, PlainCells
    <3>6. q = SubSeq(o, 1, LenSize)
      BY <1>1
    <3> HIDE DEF q
    <3>7. q = LenCells(m)
      BY <3>2, <3>3, <3>4, <3>5, IsSeqEqual
    <3> QED
      BY <3>6, <3>7
  <2>7. IntAt(o) = m
    <3>1. \A n \in MsgLens : SubSeq(o, 1, LenSize) = LenCells(n) => n = m
      BY <1>1, <2>6, Sizes, LenCellsTell
    <3> QED
      BY <2>6, <3>1 DEF IntAt
  <2>8. SubSeq(o, LenSize + 1, LenSize + m) = Message(m)
    <3> DEFINE q == SubSeq(o, LenSize + 1, LenSize + m)
    <3>1. IsSeq(q) /\ Len(q) = m /\ \A i \in 1 .. m : q[i] = o[LenSize + i]
      BY <1>1, <2>5, PartOf
    <3> HIDE DEF q
    <3>2. \A i \in 1 .. m : o[LenSize + i] = p[LenSize + i]
      BY <1>1, <2>4
    <3>3. \A i \in 1 .. m : p[LenSize + i] = Message(m)[i]
      BY <1>1, PlainCells DEF p
    <3>4. IsSeq(Message(m)) /\ Len(Message(m)) = m
      BY <1>1, PlainCells
    <3>5. q = Message(m)
      BY <3>1, <3>2, <3>3, <3>4, IsSeqEqual
    <3> QED
      BY <3>5 DEF q
  <2>9. received' = Message(m)
    BY <1>2, <2>7, <2>8 DEF o
  <2> QED
    BY <1>2, <2>2, <2>9 DEF Sent
<1> QED
  BY <1>2, <1>3 DEF Sent

\* Whatever the sizes, a message that fits in two blocks is at each stage what Encrypter and
\* Decrypter make of it block by block.
THEOREM CipherInvariant == CipherSpec => []CipherInv
<1>1. CipherInit => CipherInv
  BY DEF CipherInit, CipherInv
<1>2. CipherInv /\ [CipherNext]_cipherVars => CipherInv'
  <2> SUFFICES ASSUME CipherInv, [CipherNext]_cipherVars
               PROVE  CipherInv'
    OBVIOUS
  <2>1. CASE \E m \in MsgLens : Send(m)
    <3>1. PICK m \in MsgLens : Send(m)
      BY <2>1
    <3>2. ~outside
      BY <3>1 DEF CipherInv, Sent, Send
    <3> QED
      BY <3>1, <3>2, SendStep DEF CipherInv
  <2>2. CASE Encrypter \/ Deliver \/ Decrypter \/ OnRecv
    <3>1. stage # "send"
      BY <2>2 DEF Encrypter, Deliver, Decrypter, OnRecv
    <3>2. PICK m \in MsgLens : Sent(m)
      BY <3>1 DEF CipherInv
    <3>3. Sent(m)'
      BY <2>2, <3>2, EncrypterStep, DeliverStep, DecrypterStep, OnRecvStep
    <3> QED
      BY <3>3 DEF CipherInv
  <2>3. CASE UNCHANGED cipherVars
    BY <2>3 DEF cipherVars, CipherInv, Sent, Encrypting, Decrypting, Rounds
  <2> QED
    BY <2>1, <2>2, <2>3 DEF CipherNext
<1> QED
  BY <1>1, <1>2, PTL DEF CipherSpec

\* A message that fits in two blocks with its length is received as it was sent, and no
\* block is written outside its buffer, for every size of a block and of a length.
THEOREM ShortArrivesHolds == CipherSpec => []ShortArrives
<1>1. CipherInv => ShortArrives
  <2> SUFFICES ASSUME CipherInv, LenSize + Len(msg) <= 2 * AesLen
               PROVE  ~outside /\ (stage = "received" => received = msg)
    BY DEF ShortArrives
  <2>1. CASE stage = "send" /\ ~outside
    BY <2>1
  <2>2. CASE \E m \in MsgLens : Sent(m)
    <3>1. PICK m \in MsgLens : Sent(m)
      BY <2>2
    <3>2. Len(msg) = m
      BY <3>1, Sizes, PlainCells DEF Sent
    <3>3. Short(m)
      BY <3>2 DEF Short
    <3> QED
      BY <3>1, <3>3 DEF Sent, Encrypting, Decrypting, Rounds
  <2> QED
    BY <2>1, <2>2 DEF CipherInv
<1> QED
  BY <1>1, CipherInvariant, PTL

===============================================================================
