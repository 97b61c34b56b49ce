--------------------------------- MODULE Wire ---------------------------------
(***************************************************************************)
(* What becomes of a message on its way between a client and a listener.   *)
(* A client's Package comes in a masked frame: readSocketMsg of            *)
(* Server/NUPool.cpp takes the frame apart, parses the Package and hands   *)
(* its data to a listener; GameServer::sendMsg goes the other way.         *)
(***************************************************************************)
EXTENDS Frames, Messages

\* What the bits of weight w of two bytes add to the bytes' exclusive or.
Differing(a, b, w) == IF (a \div w) % 2 = (b \div w) % 2 THEN 0 ELSE w
Xor(a, b) == Differing(a, b, 1) + Differing(a, b, 2) + Differing(a, b, 4) + Differing(a, b, 8)
               + Differing(a, b, 16) + Differing(a, b, 32) + Differing(a, b, 64) + Differing(a, b, 128)

-----------------------------------------------------------------------------
(* From a client. *)

\* A client's frame, and what it holds.
ClientFrame(opcode, mask, payload) ==
  ClientHeader(opcode, 0, Len(payload)) \o mask
    \o [i \in 1..Len(payload) |-> Xor(payload[i], mask[((i - 1) % 4) + 1])]

\* The thread's buffer after a read: the bytes, and behind them what an earlier read
\* of the batch has left, then 0.
Byte(buffer, i) == IF i <= Len(buffer) THEN buffer[i] ELSE 0
Overwritten(stale, data) == data \o SubSeq(stale, Len(data) + 1, Len(stale))

\* deCodeInPackage: the payload, and a 0 behind it if it is a text.  The mask begins
\* with its first byte at payload byte first.
PayloadFrom(buffer, d, first) ==
  [i \in 1..d.size |->
     Xor(Byte(buffer, d.start + i), Byte(buffer, d.mask + ((i - first) % 4) + 1))]
    \o IF d.zero THEN <<0>> ELSE <<>>

PayloadFromFrame(buffer, d) == PayloadFrom(buffer, d, 1 - d.start)  \* mutant: counts from the header
Payload(buffer, d) == PayloadFrom(buffer, d, 1)

\* What becomes of a Package: a message for a listener, or, for a number below 1000, the
\* end of the connection.
Handed(package) ==
  IF package.msgID < 1000 THEN [kind |-> "condemned"]
  ELSE [kind |-> "message", msgID |-> package.msgID, msgData |-> package.msgData]

\* What one read gives of the first n bytes of a frame.
OneRead(frame, n) == SubSeq(frame, 1, IF n > MaxRecv THEN MaxRecv ELSE n)

\* readSocketMsg after a read of data; what an overrun of the buffers does is unknown.
Received(data, stale) ==
  LET buffer == Overwritten(stale, data)
      d == DeCoded([i \in 1..10 |-> Byte(buffer, i)], Len(data))
  IN IF d.kind = "payload" THEN Handed(Parse("Package", Payload(buffer, d)))
     ELSE [kind |-> d.kind]

-----------------------------------------------------------------------------
(* To a client. *)

Serialized(name, m) == Written(name, m, "array")

\* sendMsg: the bytes it writes.  A message that is too long gets the length -1, with
\* which write() is called all the same: what that sends is outside the model.
Framed(pack) == IF EnCoded(Len(pack)) = -1 THEN <<>> ELSE OutHeader(Len(pack), BinaryFrame) \o pack
SendMsg(msgID, data) == Framed(Serialized("Package", [msgID |-> msgID, msgData |-> data]))

\* A client takes the first frame apart and parses the Package in it.
PartOf(bytes, r) == SubSeq(bytes, r.start + 1, r.start + r.size)
ClientTakes(bytes) == Parse("Package", PartOf(bytes, ClientReads(bytes)))

=============================================================================
