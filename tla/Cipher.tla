-------------------------------- MODULE Cipher --------------------------------
(***************************************************************************)
(* How a message is encrypted and decrypted on its way from Send of one    *)
(* side to OnRecv of the other: COpensslEncrypter of the server and        *)
(* COpensslEncrypter_Client have the same two loops.                       *)
(*                                                                         *)
(* The length and the bytes are put together and encrypted block by block  *)
(* into a second buffer, framed, received, decrypted block by block into a *)
(* third, and taken apart.  The pointers of the loops advance by what was  *)
(* encrypted so far and not by a block, so from the third block on they    *)
(* leave the places where the blocks are sent from and expected.           *)
(*                                                                         *)
(* A cell is one byte.  The cipher is a bijection on blocks: a cell of the *)
(* ciphertext says which block it comes from.  How the bytes are framed    *)
(* and received in pieces is in Framing.                                   *)
(***************************************************************************)
EXTENDS Naturals, Sequences, SequencesExt

CONSTANTS AesLen,       \* AES_ENCRY_LEN
          LenSize,      \* sizeof(int)
          MsgLens       \* lengths of the messages sent

ASSUME CipherAssumption ==
    /\ AesLen \in Nat \ {0} /\ LenSize \in Nat \ {0}
    /\ MsgLens \subseteq Nat \ {0}

VARIABLES
    stage,       \* where the message is
    msg,         \* the bytes that Send was given
    inBuffer,    \* what the loop reads, from inBuffer on
    outBuffer,   \* what it writes, from outBuffer on to the end of the vector
    offset,      \* of pInBufferBegin and pOutBufferBegin
    outLen,      \* outLen
    outside,     \* history: a block was written that does not fit in its vector
    received     \* what OnRecv was given

cipherVars == <<stage, msg, inBuffer, outBuffer, offset, outLen, outside, received>>

Zeros(n) == [i \in 1 .. n |-> <<"zero">>]
LenCells(n) == [i \in 1 .. LenSize |-> <<"len", n, i>>]
Message(n) == [i \in 1 .. n |-> <<"byte", i>>]

\* The cells of a block at an offset; what is behind the buffer is anything.
BlockAt(cells, at) ==
    [i \in 1 .. AesLen |-> IF at + i <= Len(cells) THEN cells[at + i] ELSE <<"any">>]

AES_encrypt(block) == [i \in 1 .. AesLen |-> <<"aes", block, i>>]
AES_decrypt(block) ==
    IF block[1][1] = "aes" /\ block = AES_encrypt(block[1][2])
    THEN block[1][2]
    ELSE [i \in 1 .. AesLen |-> <<"any">>]

PutBlock(cells, at, block) ==
    [i \in 1 .. Len(cells) |->
        IF i > at /\ i <= at + AesLen THEN block[i - at] ELSE cells[i]]

CipherInit ==
    /\ stage = "send" /\ msg = <<>>
    /\ inBuffer = <<>> /\ outBuffer = <<>> /\ offset = 0 /\ outLen = 0
    /\ outside = FALSE /\ received = <<>>

-------------------------------------------------------------------------------
\* Send puts length and bytes together, and makes room for them and 15 bytes more.
Send(n) ==
    /\ stage = "send"
    /\ msg' = Message(n)
    /\ inBuffer' = LenCells(n) \o Message(n)
    /\ outBuffer' = Zeros(LenSize + n + AesLen - 1)
    /\ offset' = 0 /\ outLen' = 0
    /\ stage' = "Encrypter"
    /\ UNCHANGED <<outside, received>>

\* Mutant: the output starts anew behind the first block.
MutAdvance == offset + AesLen + outLen

\* pInBufferBegin += outLen; pOutBufferBegin += outLen
Advance == offset + outLen

\* The block that the next round reads.
InBlock == BlockAt(inBuffer, Advance)

\* One round of either loop, which makes outBlock of it.
Round(outBlock) ==
    /\ outLen < Len(inBuffer)
    /\ offset' = Advance
    /\ outBuffer' = PutBlock(outBuffer, Advance, outBlock)
    /\ outside' = (outside \/ Advance + AesLen > Len(outBuffer))
    /\ outLen' = outLen + AesLen
    /\ UNCHANGED <<stage, msg, inBuffer, received>>

Encrypter == stage = "Encrypter" /\ Round(AES_encrypt(InBlock))

\* The first outLen cells are sent, framed, received and handed to InsertMsg, whose buffer
\* has room for just as many.
Deliver ==
    /\ stage = "Encrypter" /\ outLen >= Len(inBuffer)
    /\ inBuffer' = SubSeq(outBuffer, 1, outLen)
    /\ outBuffer' = Zeros(outLen)
    /\ offset' = 0 /\ outLen' = 0
    /\ stage' = "Decrypter"
    /\ UNCHANGED <<msg, outside, received>>

Decrypter == stage = "Decrypter" /\ Round(AES_decrypt(InBlock))

\* What readInt makes of the first cells.
IntAt(cells) ==
    IF \E n \in MsgLens : SubSeq(cells, 1, LenSize) = LenCells(n)
    THEN CHOOSE n \in MsgLens : SubSeq(cells, 1, LenSize) = LenCells(n)
    ELSE 0

\* InsertMsg's check of the length reads a buffer whose write index has not moved, so it
\* sees 0 and passes everything.  OnRecv is given the length and the bytes behind it.
OnRecv ==
    /\ stage = "Decrypter" /\ outLen >= Len(inBuffer)
    /\ received' = SubSeq(outBuffer, LenSize + 1, LenSize + IntAt(outBuffer))
    /\ stage' = "received"
    /\ UNCHANGED <<msg, inBuffer, outBuffer, offset, outLen, outside>>

CipherNext == (\E n \in MsgLens : Send(n)) \/ Encrypter \/ Deliver \/ Decrypter \/ OnRecv

CipherSpec == CipherInit /\ [][CipherNext]_cipherVars

-------------------------------------------------------------------------------
(* Properties *)

\* A message that fits in two blocks with its length arrives as it was sent, and no block
\* is written outside its buffer, whether or not it fills the last block.  (A longer one
\* arrives with its third block lost, and writes behind the vector.)
ShortArrives ==
    LenSize + Len(msg) <= 2 * AesLen =>
        ~outside /\ (stage = "received" => received = msg)
===============================================================================
