-------------------------------- MODULE Buffer --------------------------------
(***************************************************************************)
(* The class Buffer of Common/Buffer.h as operators on a value: a vector   *)
(* of cells with a read index and a write index.  The cells between them   *)
(* are the contents.  write() makes room by growing the vector or by       *)
(* moving the contents down; retrieve() drops cells from the front.        *)
(***************************************************************************)
EXTENDS Integers, Sequences

CONSTANTS Byte,        \* the values of a cell
          Zero,        \* the value of a cell that resize() adds
          Prepend,     \* KBufferPrependSize
          InitSize     \* KBufferInitSize

ASSUME BufferAssumption ==
    /\ Zero \in Byte
    /\ Prepend \in Nat
    /\ InitSize \in Nat \ {0}

Buf(size, cell, rd, wr) == [size |-> size, cell |-> cell, rd |-> rd, wr |-> wr]

\* The indexes stay in the vector, in their order.
IsBuffer(b) ==
    /\ b = Buf(b.size, b.cell, b.rd, b.wr)
    /\ b.size \in Nat /\ b.rd \in Nat /\ b.wr \in Nat
    /\ b.cell \in [0 .. b.size - 1 -> Byte]
    /\ Prepend <= b.rd /\ b.rd <= b.wr /\ b.wr <= b.size

NewBuffer ==
    Buf(Prepend + InitSize, [i \in 0 .. Prepend + InitSize - 1 |-> Zero],
        Prepend, Prepend)

writableBytes(b)    == b.size - b.wr
readableBytes(b)    == b.wr - b.rd
prependabelBytes(b) == b.rd

\* What a reader finds, oldest first.
Contents(b) == [i \in 1 .. readableBytes(b) |-> b.cell[b.rd + i - 1]]

retrieveAll(b) == Buf(b.size, b.cell, Prepend, Prepend)

retrieve(b, n) ==
    IF n < readableBytes(b)
    THEN Buf(b.size, b.cell, b.rd + n, b.wr)
    ELSE retrieveAll(b)

\* _buffer.resize(size) to more cells.
Grow(b, size) ==
    Buf(size, [i \in 0 .. size - 1 |-> IF i < b.size THEN b.cell[i] ELSE Zero],
        b.rd, b.wr)

\* Mutant: the indexes move and the cells do not.
MutMoveDown(b) == Buf(b.size, b.cell, Prepend, Prepend + readableBytes(b))

\* std::copy of the contents to the place after the reserve.
MoveDown(b) ==
    LET end == Prepend + readableBytes(b)
    IN Buf(b.size,
           [i \in 0 .. b.size - 1 |->
               IF i >= Prepend /\ i < end THEN b.cell[b.rd + i - Prepend] ELSE b.cell[i]],
           Prepend, end)

\* Mutant: the place before the contents is never used again.
MutMakeSpace(b, n) == Grow(b, b.wr + n)

makeSpace(b, n) ==
    IF prependabelBytes(b) + writableBytes(b) < n + Prepend
    THEN Grow(b, b.wr + n)
    ELSE MoveDown(b)

ensureWritable(b, n) == IF writableBytes(b) < n THEN makeSpace(b, n) ELSE b

\* std::copy(data, data + nLen, beginWrite()).
Put(b, data) ==
    LET end == b.wr + Len(data)
    IN Buf(b.size,
           [i \in 0 .. b.size - 1 |->
               IF i >= b.wr /\ i < end THEN data[i - b.wr + 1] ELSE b.cell[i]],
           b.rd, end)

write(b, data) ==
    IF data = <<>> THEN b ELSE Put(ensureWritable(b, Len(data)), data)
===============================================================================
