-------------------------------- MODULE Frames --------------------------------
(***************************************************************************)
(* The WebSocket frames of Server/NUPool.cpp: enCodeOutPackage writes the  *)
(* header of a frame for a client, readHeader and deCodeInPackage take     *)
(* apart what a client sends.  A header is a sequence of bytes; where the  *)
(* payload lies is a place in the receive buffer, counted from 0.  That    *)
(* buffer, and the one the payload is copied to, have room for MaxRecv     *)
(* bytes; nothing in the code compares a size with that.                   *)
(* The client's side is RFC 6455, and external.                            *)
(***************************************************************************)
EXTENDS Naturals, Integers, Sequences

TextFrame   == 1
BinaryFrame == 2
OpCodes     == {0, TextFrame, BinaryFrame, 8, 9, 10}  \* what readHeader calls no error

MaxRecv == 10240  \* MAX_RECV_SIZE: what one read gives at most, and the room of both buffers

-----------------------------------------------------------------------------
(* The server to a client. *)

\* The header for size bytes; up to 125 the size takes one byte.
OutHeader(size, opcode) ==
  IF size <= 125 THEN <<128 + opcode, size>>
                 ELSE <<128 + opcode, 126, size \div 256, size % 256>>

\* What enCodeOutPackage returns: the length of the frame, or -1.
EnCoded(size) == IF size > 32767 THEN -1 ELSE Len(OutHeader(size, BinaryFrame)) + size

\* The bytes sendMsg allocates for it.
Allocated(size) == size + 5

\* A client's view of a header: where the payload starts, how long it is.
ClientReads(h) ==
  IF h[2] <= 125 THEN [start |-> 2, size |-> h[2]]
  ELSE IF h[2] = 126 THEN [start |-> 4, size |-> h[3] * 256 + h[4]]
  ELSE [start |-> 10, size |-> 0]

-----------------------------------------------------------------------------
(* A client to the server. *)

\* The byte of n that counts w.
SizeByte(n, w) == (n \div w) % 256

\* The header of a masked frame of high * 2^32 + size bytes, up to the mask.
ClientHeader(opcode, high, size) ==
  IF high = 0 /\ size <= 125 THEN <<128 + opcode, 128 + size>>
  ELSE IF high = 0 /\ size <= 65535 THEN <<128 + opcode, 254, size \div 256, size % 256>>
  ELSE <<128 + opcode, 255,
         SizeByte(high, 16777216), SizeByte(high, 65536), SizeByte(high, 256), SizeByte(high, 1),
         SizeByte(size, 16777216), SizeByte(size, 65536), SizeByte(size, 256), SizeByte(size, 1)>>

\* What readHeader makes of it.  A header that says neither text nor data is given up
\* after the opcode, and what is left out stays 0.  The eight bytes of a long size are
\* not turned round: of the number the first four, in the order of the machine, stay.
Sized(opcode, header, payload, mask) ==
  [opcode |-> opcode, header_size |-> header, payload_size |-> payload, mask_offset |-> mask]

InHeaderAt(h, medium) ==
  LET opcode == h[1] % 16
      size == h[2] % 128
  IN IF opcode \notin {TextFrame, BinaryFrame} THEN Sized(opcode, 0, 0, 0)
     ELSE IF size <= 125 THEN Sized(opcode, 6, size, 2)
     ELSE IF size = 126 THEN Sized(opcode, 8, h[3] * 256 + h[4], medium)
     ELSE Sized(opcode, 0, h[3] + 256 * (h[4] + 256 * (h[5] + 256 * h[6])), 10)

InHeaderAt2(h) == InHeaderAt(h, 2)  \* mutant: the mask where it is in a short frame
InHeader(h) == InHeaderAt(h, 4)

\* What deCodeInPackage and readSocketMsg hand to the parser after a read of got bytes:
\* nothing; or size bytes from start on, the i-th unmasked with the byte mask + i % 4,
\* and a 0 behind the last of a text frame.  If the header tells more than fits, the
\* copy runs over the end of the buffers, and nothing is known of what comes then.
Nowhere == [kind |-> "nothing", start |-> 0, size |-> 0, mask |-> 0, zero |-> FALSE]
Overrun == [Nowhere EXCEPT !.kind = "overrun"]

DeCoded(h, got) ==
  LET header == InHeader(h) IN
  IF header.opcode \notin OpCodes \/ got < header.header_size + 1 THEN Nowhere
  ELSE IF header.mask_offset + 4 + header.payload_size > MaxRecv THEN Overrun
  ELSE [kind |-> "payload", start |-> header.mask_offset + 4, size |-> header.payload_size,
        mask |-> header.mask_offset, zero |-> header.opcode = TextFrame]

-----------------------------------------------------------------------------
(* What the two directions promise. *)

Bytes == 0..255

\* A client reads the frame of a message of size bytes as what it is, and sendMsg has
\* room for it, at every size enCodeOutPackage takes.
SentExactly(size) ==
  LET h == OutHeader(size, BinaryFrame) IN
  /\ ClientReads(h) = [start |-> Len(h), size |-> size]
  /\ EnCoded(size) = Len(h) + size
  /\ EnCoded(size) <= Allocated(size)
  /\ \A i \in 1..Len(h) : h[i] \in Bytes

\* What one read gives of a frame with header h, and what the server makes of it.
FirstRead(h, high, size) ==
  IF high > 0 \/ Len(h) + 4 + size > MaxRecv THEN MaxRecv ELSE Len(h) + 4 + size
TakenFor(opcode, high, size) ==
  LET h == ClientHeader(opcode, high, size) IN DeCoded(h, FirstRead(h, high, size))

\* The largest payload for which frame and buffer agree.
Largest == MaxRecv - 8

\* The server finds payload and mask of a data frame where they are.
ReceivedExactly(opcode, size) ==
  LET h == ClientHeader(opcode, 0, size) IN
  TakenFor(opcode, 0, size) =
    [kind |-> "payload", start |-> Len(h) + 4, size |-> size, mask |-> Len(h),
     zero |-> opcode = TextFrame]

\* A ping, a close or the rest of a message in several frames is an empty package,
\* whatever it holds.
ReceivedEmpty(opcode, high, size) ==
  LET d == TakenFor(opcode, high, size) IN d.kind = "payload" /\ d.size = 0

\* The first four of the eight bytes of a size, the wrong way round.
Turned(high) == 16777216 * SizeByte(high, 1) + 65536 * SizeByte(high, 256) + 256 * SizeByte(high, 65536)
                  + SizeByte(high, 16777216)

\* A data frame of more than 65535 bytes is as long as those four bytes say: empty below
\* 2^32; else it overruns the buffer or is cut to a few bytes.
ReceivedTurned(opcode, high, size) ==
  LET d == TakenFor(opcode, high, size) IN
  IF 14 + Turned(high) > MaxRecv THEN d = Overrun ELSE d.kind = "payload" /\ d.size = Turned(high)

=============================================================================
