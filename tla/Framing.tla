-------------------------------- MODULE Framing --------------------------------
(***************************************************************************)
(* CConnectionChannel::OnRecvCompelet, which ServerSocket and the client   *)
(* share: a byte stream, cut into chunks wherever a WSARecv happens to     *)
(* complete, is put together in _readBuffer and cut into messages.         *)
(*                                                                         *)
(* On the wire a message is its length followed by that many bytes.  A     *)
(* length that is not positive, or exceeds MSG_BUFF_LEN, makes the server  *)
(* close the socket.                                                       *)
(***************************************************************************)
EXTENDS Buffer, SequencesExt

CONSTANTS IntSize,     \* sizeof(int)
          MaxLen,      \* MSG_BUFF_LEN
          MaxChunk,    \* bytes of one WSARecv, the writable part of its buffer
          MaxSent,     \* bound: messages of the peer
          Payloads,    \* the payloads a peer may send
          BadLens,     \* lengths a peer may send that the server does not accept
          IntOf(_),    \* the int that IntSize bytes stand for
          BytesOf(_)   \* the IntSize bytes of an int

ASSUME FramingAssumption ==
    /\ IntSize \in Nat \ {0} /\ MaxLen \in Nat \ {0} /\ MaxChunk \in Nat \ {0}
    /\ MaxSent \in Nat
    /\ Payloads \subseteq Seq(Byte)
    /\ \A p \in Payloads : Len(p) \in 1 .. MaxLen
    /\ BadLens \subseteq Int /\ \A n \in BadLens : n <= 0 \/ n > MaxLen
    /\ \A n \in (1 .. MaxLen) \cup BadLens :
          /\ BytesOf(n) \in [1 .. IntSize -> Byte]
          /\ IntOf(BytesOf(n)) = n
    /\ \A bytes \in [1 .. IntSize -> Byte] : IntOf(bytes) \in Int

VARIABLES
    wire,       \* sent by the peer and not yet received: bytes
    readBuf,    \* _readBuffer: IsBuffer says what it is
    pc,         \* "wait" for a completion, or in the "loop" of OnRecvCompelet
    closed,     \* the socket was closed for a malformed message
    sent,       \* history: the payloads the peer has sent
    spoiled,    \* history: the peer has sent a malformed message
    out,        \* history: the payloads handed to InsertMsg
    eaten,      \* history: the bytes retrieved from _readBuffer
    stream      \* history: every byte the peer has sent

framingVars == <<wire, readBuf, pc, closed, sent, spoiled, out, eaten, stream>>

FramingInit ==
    /\ wire = <<>> /\ readBuf = NewBuffer /\ pc = "wait" /\ closed = FALSE
    /\ sent = <<>> /\ spoiled = FALSE /\ out = <<>> /\ eaten = <<>> /\ stream = <<>>

\* The peer sends bytes.
Emit(bytes) ==
    /\ wire' = wire \o bytes
    /\ stream' = stream \o bytes

\* The peer sends a well-formed message.
PeerSend(payload) ==
    /\ ~spoiled /\ Len(sent) < MaxSent
    /\ Emit(BytesOf(Len(payload)) \o payload)
    /\ sent' = Append(sent, payload)
    /\ UNCHANGED <<readBuf, pc, closed, spoiled, out, eaten>>

\* The peer sends a malformed length, and one byte after it.
PeerSendBad(n, byte) ==
    /\ ~spoiled
    /\ Emit(Append(BytesOf(n), byte))
    /\ spoiled' = TRUE
    /\ UNCHANGED <<readBuf, pc, closed, sent, out, eaten>>

\* A WSARecv completes with the next n bytes.  It is posted again only after
\* OnRecvCompelet has returned, and fails once the socket is closed.
Receive(n) ==
    /\ pc = "wait" /\ ~closed
    /\ n <= Len(wire) /\ n <= MaxChunk
    /\ readBuf' = write(readBuf, SubSeq(wire, 1, n))
    /\ wire' = SubSeq(wire, n + 1, Len(wire))
    /\ pc' = "loop"
    /\ UNCHANGED <<closed, sent, spoiled, out, eaten, stream>>

\* readInt, which is asked only when the buffer holds more than a length.
HasLength == readableBytes(readBuf) > IntSize
MsgLen    == IntOf(SubSeq(Contents(readBuf), 1, IntSize))
LengthOK  == MsgLen > 0 /\ MsgLen <= MaxLen

\* Mutant: a message that ends with the buffer is left there.
MutWhole == readableBytes(readBuf) > MsgLen + IntSize

Whole == readableBytes(readBuf) >= MsgLen + IntSize

\* A whole message is taken out and inserted.
TakeMessage ==
    /\ pc = "loop" /\ HasLength /\ LengthOK /\ Whole
    /\ out' = Append(out, SubSeq(Contents(readBuf), IntSize + 1, IntSize + MsgLen))
    /\ eaten' = eaten \o SubSeq(Contents(readBuf), 1, IntSize + MsgLen)
    /\ readBuf' = retrieve(retrieve(readBuf, IntSize), MsgLen)
    /\ UNCHANGED <<wire, pc, closed, sent, spoiled, stream>>

\* The length is refused: the socket is closed and the loop left.
Malformed ==
    /\ pc = "loop" /\ HasLength /\ ~LengthOK
    /\ closed' = TRUE
    /\ pc' = "wait"
    /\ UNCHANGED <<wire, readBuf, sent, spoiled, out, eaten, stream>>

\* Nothing whole is left.
LeaveLoop ==
    /\ pc = "loop"
    /\ HasLength => LengthOK /\ ~Whole
    /\ pc' = "wait"
    /\ UNCHANGED <<wire, readBuf, closed, sent, spoiled, out, eaten, stream>>

FramingNext ==
    \/ \E payload \in Payloads : PeerSend(payload)
    \/ \E n \in BadLens, byte \in Byte : PeerSendBad(n, byte)
    \/ \E n \in 1 .. MaxChunk : Receive(n)
    \/ TakeMessage \/ Malformed \/ LeaveLoop

FramingSpec == FramingInit /\ [][FramingNext]_framingVars

-------------------------------------------------------------------------------
(* Properties *)

\* Not a byte of the stream is lost, doubled or moved by the buffer: what was taken out
\* of it, what is in it and what has not arrived are the stream.
StreamKept == eaten \o Contents(readBuf) \o wire = stream

\* The messages inserted are the messages sent, in order, however the stream was cut; and
\* once everything has arrived, every message was inserted, and a malformed one after
\* them has closed the socket.
MessagesInOrder ==
    /\ IsPrefix(out, sent)
    /\ pc = "wait" /\ wire = <<>> => out = sent /\ closed = spoiled

\* What keeps the buffer small: a WSARecv is posted only when no whole message is left.
WaitsForMore ==
    pc = "wait" /\ ~closed => readableBytes(readBuf) < IntSize + MaxLen

\* The peer cannot make the buffer grow beyond a fixed size, however it cuts what it
\* sends, although makeSpace grows the vector and never shrinks it.
LargestSize == Max({Prepend + InitSize, Prepend + 2 * MaxChunk + IntSize + MaxLen})

\* The indexes of the buffer stay in order and inside the vector, so that no cell outside
\* it is read or written, and the vector stays small.
BufferBounded == IsBuffer(readBuf) /\ readBuf.size <= LargestSize
===============================================================================
