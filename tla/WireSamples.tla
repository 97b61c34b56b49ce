------------------------------ MODULE WireSamples ------------------------------
(***************************************************************************)
(* A sample of a codec, and what the messages, the frames and a Package in *)
(* a frame promise of one that is theirs.  Kept apart from the codecs that *)
(* are recursive, as all of it holds for every sample (WireProofs).        *)
(***************************************************************************)
EXTENDS Wire

VARIABLE sample  \* a record; its field codec says what kind of sample it is

Of(codec) == sample.codec = codec

-----------------------------------------------------------------------------
(* Frames. *)

\* What comes of a frame of high * 2^32 + size bytes, the other way only of short ones.
Exact(opcode, high, size) ==
  /\ high = 0 => IF size <= 32767 THEN SentExactly(size) ELSE EnCoded(size) = -1
  /\ CASE opcode \notin {TextFrame, BinaryFrame}       -> ReceivedEmpty(opcode, high, size)
       [] OTHER -> CASE high > 0 \/ size > 65535         -> ReceivedTurned(opcode, high, size)
                     [] high = 0 /\ size = 0             -> TakenFor(opcode, 0, 0) = Nowhere
                     [] high = 0 /\ size \in 1..Largest  -> ReceivedExactly(opcode, size)
                     [] OTHER                            -> TakenFor(opcode, 0, size) = Overrun

\* What becomes of a frame, at every size.  Every client reads what the server sends as
\* what it is.  The server takes a text or data frame for what it is up to the 10232
\* bytes of payload that fit into its buffer with the header; a longer one overruns the
\* buffers, or is read by four bytes of its size the wrong way round, below 2^32 as an
\* empty package.  An empty frame is nothing, a frame of any other kind an empty package.
FrameExact == Of("frame") => Exact(sample.opcode, sample.high, sample.size)

-----------------------------------------------------------------------------
(* Messages. *)

TextsReadable(name, m) == \A f \in DOMAIN m : KindOf(name, f) = "string" => Utf8(m[f])

Readable(name, m) ==
  /\ TextsReadable(name, m)
  /\ \A f \in DOMAIN m : KindOf(name, f) = "UserInfo" =>
       \A i \in 1..Len(m[f]) : TextsReadable("UserInfo", m[f][i])

\* What the five methods of a message promise of m, with other after it and strange
\* before it.
Agreeing(name, m, other, strange) ==
  LET bytes == Written(name, m, "stream")
      read == Parsed(name, Cleared(name), strange \o bytes)
      readable == Readable(name, m)
  IN /\ Serialized(name, m) = bytes
     /\ ByteSize(name, m) = Len(bytes)
     /\ (read.status = "ended") = readable
     /\ readable => read.rest = <<>> /\ read.msg = m
     /\ readable /\ Readable(name, other) =>
          Parse(name, bytes \o Serialized(name, other)) = Merged(name, m, other)

\* The five methods protoc writes for a message agree: both versions write the same
\* bytes, as many as ByteSize says; reading them gives the message back, whatever fields
\* of a later version come before, unless a text is no UTF-8, which is written but not
\* read; and reading two messages one behind the other is MergeFrom.
MessageRoundTrip ==
  Of("message") => Agreeing(sample.name, sample.msg, sample.other, sample.strange)

-----------------------------------------------------------------------------
(* Packages. *)

\* What r, the outcome of n of the size bytes of a frame with Package p, has to be.
Delivers(p, size, n, r) ==
  LET head == size - Len(p.msgData)
  IN /\ n = size => r = Handed(p)
     /\ n >= head /\ p.msgID >= 1000 =>
          /\ r.kind = "message" /\ r.msgID = p.msgID
          /\ Len(r.msgData) = Len(p.msgData)
          /\ \A i \in 1..(n - head) : r.msgData[i] = p.msgData[i]

\* A Package whose frame fits the receive buffer and arrives as a whole is handed to its
\* listener as it was sent, whatever mask it comes under and whatever is in the buffer, or
\* ends the connection if its number is below 1000.  Of one that is cut behind its own
\* header the number, the length and all that has arrived are right; what is missing is
\* filled up with what was in the buffer.  One that does not fit overruns the buffers
\* as soon as a byte of its data has arrived.  The other way every client gets what sendMsg was given.
PackageDelivered ==
  Of("package") =>
    LET p == sample.package
        frame == ClientFrame(sample.opcode, sample.mask, Serialized("Package", p))
        n == IF sample.cut <= Len(frame) THEN Len(frame) - sample.cut ELSE 0
    IN /\ \E r \in {Received(OneRead(frame, n), sample.stale)} :
            IF Len(frame) <= MaxRecv THEN Delivers(p, Len(frame), n, r)
            ELSE n > Len(frame) - Len(p.msgData) => r = [kind |-> "overrun"]
       /\ ClientTakes(SendMsg(p.msgID, p.msgData)) = p

=============================================================================
