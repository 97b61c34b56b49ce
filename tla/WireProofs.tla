------------------------------ MODULE WireProofs ------------------------------
(***************************************************************************)
(* What Frames, Messages and Wire promise, for every size of a frame, every *)
(* message and every Package, and not only the samples a run tries.        *)
(*                                                                         *)
(* The frames come first; they are arithmetic.  For the messages, the      *)
(* parser's loop is followed round by round (Loop): each round takes bytes *)
(* away, so there is a last one; a round over a field that was written     *)
(* does to the message what MergeFrom does (FieldRight), so that what is   *)
(* left after the first i fields is the message with those merged into it  *)
(* (Chain, InfoIsRead, MessageIsRead).  For a Package in a frame, header,  *)
(* mask and payload are found where they lie in the buffer (Lies, Held),   *)
(* unmasking is undone byte by byte (XorIs), and what is read is the       *)
(* Package, or one of the same number and length (Filled).                 *)
(***************************************************************************)
EXTENDS WireSamples, TLAPS, WellFoundedInduction, SequenceTheorems

-----------------------------------------------------------------------------
(* Frames. *)


\* Two bytes hold any size below 2^16, the high one first.
LEMMA TwoBytes ==
  \A size \in Nat : size <= 65535 =>
    /\ size \div 256 \in 0..255 /\ size % 256 \in 0..255
    /\ (size \div 256) * 256 + (size % 256) = size
  BY SMT

\* Every message enCodeOutPackage accepts (up to 32767 bytes) is framed as RFC 6455
\* has it, and fits into what sendMsg allocates.
THEOREM SentFrames ==
  ASSUME NEW size \in Nat, size <= 32767
  PROVE  SentExactly(size)
<1> size <= 65535
  OBVIOUS
<1> DEFINE h == OutHeader(size, BinaryFrame)
<1>1. CASE size <= 125
  <2>1. h = <<130, size>>
    BY <1>1 DEF OutHeader, BinaryFrame
  <2>2. /\ Len(h) = 2 /\ h[1] = 130 /\ h[2] = size
    BY <2>1
  <2> HIDE DEF h
  <2>3. ClientReads(h) = [start |-> 2, size |-> size]
    BY <1>1, <2>2 DEF ClientReads
  <2>4. EnCoded(size) = 2 + size
    BY <2>2 DEF EnCoded, h
  <2>5. \A i \in 1..Len(h) : h[i] \in Bytes
    <3>1. 130 \in Bytes /\ size \in Bytes
      BY <1>1 DEF Bytes
    <3>2. 1..Len(h) = {1, 2}
      BY <2>2
    <3>3. h[1] \in Bytes /\ h[2] \in Bytes
      BY <2>2, <3>1
    <3>4. \A i \in {1, 2} : h[i] \in Bytes
      BY <3>3
    <3>5. QED
      BY <3>2, <3>4
  <2>6. QED
    BY <2>2, <2>3, <2>4, <2>5 DEF SentExactly, Allocated, h
<1>2. CASE size > 125
  <2>1. h = <<130, 126, size \div 256, size % 256>>
    BY <1>2 DEF OutHeader, BinaryFrame
  <2>2. /\ Len(h) = 4 /\ h[1] = 130 /\ h[2] = 126
        /\ h[3] = size \div 256 /\ h[4] = size % 256
    BY <2>1
  <2> HIDE DEF h
  <2>3. ClientReads(h) = [start |-> 4, size |-> size]
    <3>1. (size \div 256) * 256 + (size % 256) = size
      BY TwoBytes
    <3>2. h[3] * 256 + h[4] = size
      BY <2>2, <3>1
    <3>3. QED
      BY <2>2, <3>2 DEF ClientReads
  <2>4. EnCoded(size) = 4 + size
    BY <2>2 DEF EnCoded, h
  <2>5. \A i \in 1..Len(h) : h[i] \in Bytes
    <3>1. 130 \in Bytes /\ 126 \in Bytes /\ size \div 256 \in Bytes /\ size % 256 \in Bytes
      BY TwoBytes DEF Bytes
    <3>2. 1..Len(h) = {1, 2, 3, 4}
      BY <2>2
    <3>3. h[1] \in Bytes /\ h[2] \in Bytes /\ h[3] \in Bytes /\ h[4] \in Bytes
      BY <2>2, <3>1
    <3>4. \A i \in {1, 2, 3, 4} : h[i] \in Bytes
      BY <3>3
    <3>5. QED
      BY <3>2, <3>4
  <2>6. QED
    BY <2>2, <2>3, <2>4, <2>5 DEF SentExactly, Allocated, h
<1>3. QED
  BY <1>1, <1>2

\* What holds of a frame's first read.
LEMMA FirstReadIs ==
  ASSUME NEW h, Len(h) \in 2..10, NEW high \in Nat, NEW size \in Nat
  PROVE  /\ FirstRead(h, high, size) \in Nat /\ FirstRead(h, high, size) >= 6
         /\ high > 0 => FirstRead(h, high, size) = MaxRecv
         /\ high = 0 /\ size > 0 => FirstRead(h, high, size) >= Len(h) + 5
         /\ high = 0 /\ size = 0 => FirstRead(h, high, size) = Len(h) + 4
<1>1. PICK k \in 2..10 : k = Len(h)
  OBVIOUS
<1>2. PICK f : f = FirstRead(h, high, size)
  OBVIOUS
<1>3. f = IF high > 0 \/ k + 4 + size > MaxRecv THEN MaxRecv ELSE k + 4 + size
  BY <1>1, <1>2, Zenon DEF FirstRead
<1>4. /\ f \in Nat /\ f >= 6
      /\ high > 0 => f = MaxRecv
      /\ high = 0 /\ size > 0 => f >= k + 5
      /\ high = 0 /\ size = 0 => f = k + 4
  BY <1>3, SMT DEF MaxRecv
<1> QED
  BY <1>1, <1>2, <1>4, Zenon

\* The place of a payload in a frame, or that the buffers do not hold it.
Placed(h, opcode, size) ==
  [kind |-> "payload", start |-> Len(h) + 4, size |-> size, mask |-> Len(h),
   zero |-> opcode = TextFrame]
Found(h, opcode, size) ==
  IF Len(h) + 4 + size > MaxRecv THEN Overrun ELSE Placed(h, opcode, size)

\* The sizes that take one or two bytes, the length of their header, and the two kinds of
\* header that tell them as they are.
Short(size) == size \in Nat /\ 0 < size /\ size <= 65535
Headed(h, size) == Len(h) = IF size <= 125 THEN 2 ELSE 4
SizedHeader(g, opcode, size) ==
  \/ g[1] % 16 = opcode /\ g[2] % 128 = size /\ size <= 125
  \/ g[1] % 16 = opcode /\ g[2] % 128 = 126 /\ g[3] * 256 + g[4] = size /\ size > 125

\* Bytes g that tell the size of a payload as the header h does, got bytes having arrived.
Told(g, got, h, opcode, size) ==
  /\ opcode \in {TextFrame, BinaryFrame} /\ size \in Nat
  /\ Headed(h, size) /\ SizedHeader(g, opcode, size)
  /\ got \in Nat /\ got >= Len(h) + 5

\* Once a byte of the payload is there, a data frame of such a header is found.
IsFound(g, got, h, opcode, size) == DeCoded(g, got) = Found(h, opcode, size)

LEMMA FoundIs ==
  ASSUME NEW g, NEW got, NEW h, NEW opcode, NEW size, Told(g, got, h, opcode, size)
  PROVE  IsFound(g, got, h, opcode, size)
<1> SUFFICES DeCoded(g, got) = Found(h, opcode, size)
  BY Zenon DEF IsFound
<1> USE DEF Headed, Told
<1>0. opcode \in {1, 2} /\ opcode \in OpCodes
  BY DEF TextFrame, BinaryFrame, OpCodes
<1>1. InHeader(g) = Sized(opcode, Len(h) + 4, size, Len(h))
  <2>1. CASE size <= 125
    <3>1. g[1] % 16 = opcode /\ g[2] % 128 = size /\ Len(h) = 2
      BY <2>1 DEF SizedHeader
    <3>2. InHeader(g) = Sized(opcode, 6, size, 2)
      BY <1>0, <2>1, <3>1 DEF InHeader, InHeaderAt, TextFrame, BinaryFrame
    <3> QED
      BY <3>1, <3>2
  <2>2. CASE ~(size <= 125)
    <3>1. g[1] % 16 = opcode /\ g[2] % 128 = 126 /\ g[3] * 256 + g[4] = size /\ Len(h) = 4
      BY <2>2 DEF SizedHeader
    <3>2. InHeader(g) = Sized(opcode, 8, size, 4)
      BY <1>0, <3>1 DEF InHeader, InHeaderAt, TextFrame, BinaryFrame
    <3> QED
      BY <3>1, <3>2
  <2> QED
    BY <2>1, <2>2
<1>2. Len(h) \in {2, 4}
  OBVIOUS
<1>3. ~(got < (Len(h) + 4) + 1)
  BY <1>2
<1>4. DeCoded(g, got) =
        IF Len(h) + 4 + size > MaxRecv THEN Overrun
        ELSE [kind |-> "payload", start |-> Len(h) + 4, size |-> size, mask |-> Len(h),
              zero |-> opcode = TextFrame]
  BY <1>0, <1>1, <1>2, <1>3 DEF DeCoded, Sized
<1> QED
  BY <1>4 DEF Found, Placed

\* The header of a data frame of up to 65535 bytes tells its size.
LEMMA HeaderTells ==
  ASSUME NEW opcode \in {TextFrame, BinaryFrame}, NEW size \in Nat, size <= 65535,
         NEW h, h = ClientHeader(opcode, 0, size)
  PROVE  SizedHeader(h, opcode, size) /\ Headed(h, size)
<1> USE DEF Headed
<1>0. opcode \in {1, 2}
  BY DEF TextFrame, BinaryFrame
<1>1. CASE size <= 125
  <2>1. h = <<128 + opcode, 128 + size>>
    BY <1>1 DEF ClientHeader
  <2>2. Len(h) = 2 /\ h[1] % 16 = opcode /\ h[2] % 128 = size
    BY <1>0, <1>1, <2>1
  <2> QED
    BY <1>1, <2>2 DEF SizedHeader
<1>2. CASE size > 125
  <2>1. h = <<128 + opcode, 254, size \div 256, size % 256>>
    BY <1>2 DEF ClientHeader
  <2>2. Len(h) = 4 /\ h[1] % 16 = opcode /\ h[2] % 128 = 126
        /\ h[3] = size \div 256 /\ h[4] = size % 256
    BY <1>0, <2>1
  <2>3. h[3] * 256 + h[4] = size
    <3>1. (size \div 256) * 256 + (size % 256) = size
      BY TwoBytes
    <3> QED
      BY <2>2, <3>1
  <2> QED
    BY <1>2, <2>2, <2>3 DEF SizedHeader
<1> QED
  BY <1>1, <1>2

\* A text or data frame of 1 to 65535 bytes is taken apart where RFC 6455 has its parts
\* if the receive buffers hold it, and overruns them if they do not.
THEOREM ReceivedFrames ==
  ASSUME NEW opcode \in {TextFrame, BinaryFrame}, NEW size \in Nat, Short(size)
  PROVE  IF size <= Largest THEN ReceivedExactly(opcode, size)
         ELSE TakenFor(opcode, 0, size) = Overrun
<1>1. PICK h : h = ClientHeader(opcode, 0, size)
  OBVIOUS
<1>2. SizedHeader(h, opcode, size) /\ Headed(h, size)
  BY <1>1, HeaderTells, SMT DEF Short
<1>3. PICK got \in Nat : got = FirstRead(h, 0, size) /\ got >= Len(h) + 5
  <2>1. Len(h) \in 2..10 /\ 0 \in Nat /\ size > 0
    BY <1>2, SMT DEF Headed, Short
  <2> QED
    BY <2>1, FirstReadIs, SMT
<1>4. TakenFor(opcode, 0, size) = Found(h, opcode, size)
  <2>1. DeCoded(h, got) = Found(h, opcode, size)
    <3>1. Told(h, got, h, opcode, size)
      BY <1>2, <1>3 DEF Told
    <3>2. IsFound(h, got, h, opcode, size)
      BY <3>1, FoundIs, Zenon
    <3> QED
      BY <3>2, Zenon DEF IsFound
  <2> QED
    BY <1>1, <1>3, <2>1, Zenon DEF TakenFor
<1>5. (Len(h) + 4 + size > MaxRecv) <=> ~(size <= Largest)
  BY <1>2, SMT DEF MaxRecv, Largest, Headed, Short
<1>6. Placed(h, opcode, size) =
        [kind |-> "payload", start |-> Len(h) + 4, size |-> size, mask |-> Len(h),
         zero |-> opcode = TextFrame]
  BY Zenon DEF Placed
<1> QED
  BY <1>1, <1>4, <1>5, <1>6, Zenon DEF Found, ReceivedExactly

\* The sizes that take all eight bytes.
Long(high, size) == high > 0 \/ size > 65535

\* Of the size of a longer data frame the server takes four of the eight bytes, the wrong
\* way round: with a size below 2^32 it is an empty package, whose message number 0
\* condemns the connection; else the copy overruns the buffers, or is cut.
THEOREM LongFrames ==
  \A opcode \in {TextFrame, BinaryFrame}, high \in Nat, size \in Nat :
    Long(high, size) =>
      /\ ReceivedTurned(opcode, high, size)
      /\ high = 0 => ReceivedEmpty(opcode, 0, size)
<1> SUFFICES ASSUME NEW opcode \in {1, 2}, NEW high \in Nat, NEW size \in Nat,
                    Long(high, size)
             PROVE  /\ ReceivedTurned(opcode, high, size)
                    /\ high = 0 => ReceivedEmpty(opcode, 0, size)
  BY DEF TextFrame, BinaryFrame
<1>a. PICK a \in 0..255 : a = SizeByte(high, 16777216)
  BY SMT DEF SizeByte
<1>b. PICK b \in 0..255 : b = SizeByte(high, 65536)
  BY SMT DEF SizeByte
<1>c. PICK c \in 0..255 : c = SizeByte(high, 256)
  BY SMT DEF SizeByte
<1>d. PICK d \in 0..255 : d = SizeByte(high, 1)
  BY SMT DEF SizeByte
<1>2. PICK h : h = ClientHeader(opcode, high, size)
  OBVIOUS
<1>3. /\ Len(h) = 10 /\ h[1] = 128 + opcode /\ h[2] = 255
      /\ h[3] = a /\ h[4] = b /\ h[5] = c /\ h[6] = d
  BY <1>a, <1>b, <1>c, <1>d, <1>2, SMT DEF ClientHeader, Long
<1>4. PICK turned \in Nat : /\ turned = a + 256 * (b + 256 * (c + 256 * d))
                            /\ turned = Turned(high)
  <2>1. Turned(high) = 16777216 * d + 65536 * c + 256 * b + a
    BY <1>a, <1>b, <1>c, <1>d, SMT DEF Turned
  <2>2. 16777216 * d + 65536 * c + 256 * b + a = a + 256 * (b + 256 * (c + 256 * d))
    BY SMT
  <2>3. a + 256 * (b + 256 * (c + 256 * d)) \in Nat
    BY SMT
  <2> QED
    BY <2>1, <2>2, <2>3
<1>5. InHeader(h) = Sized(opcode, 0, turned, 10)
  <2>1. h[1] % 16 = opcode /\ h[2] % 128 = 127
    BY <1>3
  <2> QED
    BY <1>3, <1>4, <2>1 DEF InHeader, InHeaderAt, TextFrame, BinaryFrame
<1>6. PICK got \in Nat : got = FirstRead(h, high, size) /\ got >= 6
  <2>1. Len(h) \in 2..10
    BY <1>3, SMT
  <2>2. FirstRead(h, high, size) \in Nat /\ FirstRead(h, high, size) >= 6
    BY <2>1, FirstReadIs, Zenon
  <2> QED
    BY <2>2, Zenon
<1>7. TakenFor(opcode, high, size) =
        IF 14 + turned > MaxRecv THEN Overrun
        ELSE [kind |-> "payload", start |-> 14, size |-> turned, mask |-> 10, zero |-> opcode = 1]
  <2>1. opcode \in OpCodes /\ ~(got < 0 + 1)
    BY <1>6 DEF OpCodes, TextFrame, BinaryFrame
  <2>2. TakenFor(opcode, high, size) = DeCoded(h, got)
    BY <1>2, <1>6 DEF TakenFor
  <2> QED
    BY <1>5, <2>1, <2>2 DEF DeCoded, Sized, TextFrame
<1>8. ReceivedTurned(opcode, high, size)
  BY <1>4, <1>7 DEF ReceivedTurned
<1>9. ASSUME high = 0 PROVE ReceivedEmpty(opcode, 0, size)
  <2>1. turned = 0
    BY <1>4, <1>9, SMT DEF Turned, SizeByte
  <2> QED
    BY <1>7, <1>9, <2>1, SMT DEF ReceivedEmpty, MaxRecv
<1> QED
  BY <1>8, <1>9

\* A frame that is no data frame is given up behind its opcode.
LEMMA ControlFrames ==
  ASSUME NEW opcode \in OpCodes \ {TextFrame, BinaryFrame}, NEW high \in Nat, NEW size \in Nat
  PROVE  ReceivedEmpty(opcode, high, size)
<1> opcode \in {0, 8, 9, 10} /\ opcode \notin {1, 2}
  BY DEF OpCodes, TextFrame, BinaryFrame
<1>1. PICK h : h = ClientHeader(opcode, high, size)
  OBVIOUS
<1>2. Len(h) \in {2, 4, 10} /\ h[1] = 128 + opcode
  BY <1>1 DEF ClientHeader
<1>3. InHeader(h) = Sized(opcode, 0, 0, 0)
  <2>1. h[1] % 16 = opcode
    BY <1>2
  <2> QED
    BY <2>1 DEF InHeader, InHeaderAt, TextFrame, BinaryFrame
<1>4. PICK got \in Nat : got = FirstRead(h, high, size) /\ got >= 6
  <2>1. Len(h) \in 2..10
    BY <1>2, SMT
  <2>2. FirstRead(h, high, size) \in Nat /\ FirstRead(h, high, size) >= 6
    BY <2>1, FirstReadIs, Zenon
  <2> QED
    BY <2>2, Zenon
<1>5. TakenFor(opcode, high, size)
        = [kind |-> "payload", start |-> 4, size |-> 0, mask |-> 0, zero |-> opcode = TextFrame]
  <2>1. TakenFor(opcode, high, size) = DeCoded(h, got)
    BY <1>1, <1>4 DEF TakenFor
  <2> QED
    BY <1>3, <1>4, <2>1 DEF DeCoded, Sized, MaxRecv
<1> QED
  BY <1>5 DEF ReceivedEmpty

\* Of a data frame without a payload too few bytes arrive to be looked at.
LEMMA EmptyFrames ==
  ASSUME NEW opcode \in {TextFrame, BinaryFrame}
  PROVE  TakenFor(opcode, 0, 0) = Nowhere
<1> opcode \in {1, 2}
  BY DEF TextFrame, BinaryFrame
<1>1. PICK h : h = ClientHeader(opcode, 0, 0)
  OBVIOUS
<1>2. Len(h) = 2 /\ h[1] % 16 = opcode /\ h[2] % 128 = 0
  <2>1. h = <<128 + opcode, 128>>
    BY <1>1 DEF ClientHeader
  <2> QED
    BY <2>1
<1>3. InHeader(h) = Sized(opcode, 6, 0, 2)
  BY <1>2 DEF InHeader, InHeaderAt, TextFrame, BinaryFrame
<1>4. FirstRead(h, 0, 0) = 6
  <2>1. Len(h) \in 2..10 /\ 0 \in Nat
    BY <1>2
  <2>2. FirstRead(h, 0, 0) = Len(h) + 4
    BY <2>1, FirstReadIs
  <2> QED
    BY <1>2, <2>2
<1>5. DeCoded(h, 6) = Nowhere
  BY <1>3 DEF DeCoded, Sized
<1> QED
  BY <1>1, <1>4, <1>5 DEF TakenFor

\* The receive buffers hold more than any header and mask.
LEMMA BufferIs ==
  MaxRecv \in Nat /\ MaxRecv >= 14
  BY SMT DEF MaxRecv

\* The largest payload the receive buffers hold is a size of two bytes.
LEMMA LargestIs ==
  Largest \in Nat /\ Largest <= 65535
  BY SMT DEF Largest, MaxRecv

\* What becomes of a frame, case by case.
LEMMA EveryFrame ==
  ASSUME NEW opcode \in OpCodes, NEW high \in Nat, NEW size \in Nat
  PROVE  Exact(opcode, high, size)
<1>1. IF size <= 32767 THEN SentExactly(size) ELSE EnCoded(size) = -1
  BY SentFrames DEF EnCoded
<1>2. CASE opcode \notin {TextFrame, BinaryFrame}
  <2>1. ReceivedEmpty(opcode, high, size)
    BY <1>2, ControlFrames
  <2> QED
    BY <1>1, <1>2, <2>1 DEF Exact
<1>3. CASE opcode \in {TextFrame, BinaryFrame} /\ (high > 0 \/ size > 65535)
  <2>1. ReceivedTurned(opcode, high, size)
    BY <1>3, LongFrames DEF Long
  <2>2. ~(high = 0 /\ size = 0) /\ ~(high = 0 /\ size \in 1..Largest)
    BY <1>3, LargestIs, SMT
  <2> QED
    BY <1>1, <1>3, <2>1, <2>2 DEF Exact
<1>4. CASE opcode \in {TextFrame, BinaryFrame} /\ high = 0 /\ size = 0
  <2>1. TakenFor(opcode, 0, 0) = Nowhere
    BY <1>4, EmptyFrames
  <2>2. ~(high > 0 \/ size > 65535) /\ ~(size \in 1..Largest)
    BY <1>4
  <2> QED
    BY <1>1, <1>4, <2>1, <2>2 DEF Exact
<1>5. CASE opcode \in {TextFrame, BinaryFrame} /\ high = 0 /\ Short(size)
  <2>1. IF size <= Largest THEN ReceivedExactly(opcode, size)
        ELSE TakenFor(opcode, 0, size) = Overrun
    BY <1>5, ReceivedFrames
  <2>2. ~(high > 0 \/ size > 65535) /\ ~(high = 0 /\ size = 0)
    BY <1>5, SMT DEF Short
  <2>3. size \in 1..Largest <=> size <= Largest
    BY <1>5, LargestIs, SMT DEF Short
  <2> QED
    BY <1>1, <1>5, <2>1, <2>2, <2>3 DEF Exact
<1> QED
  BY <1>2, <1>3, <1>4, <1>5, SMT DEF Short

\* What the run of the codecs tries at some sizes holds at every one, and for every
\* opcode readHeader knows: a frame arrives as what it is if the receive buffers hold it,
\* and else what is told of it holds: an overrun, an empty package or nothing.
THEOREM FramesAreExact ==
  (Of("frame") => /\ sample.high \in Nat /\ sample.size \in Nat
                  /\ sample.opcode \in OpCodes) => FrameExact
  BY EveryFrame DEF FrameExact, Of

-----------------------------------------------------------------------------
(* Numbers. *)

\* What holds of 0, and of k + 1 whenever of k, holds of every number.
LEMMA Induction ==
  ASSUME NEW S, 0 \in S, \A k \in Nat : k \in S => k + 1 \in S
  PROVE  \A k \in Nat : k \in S
<1> DEFINE T == {k \in Nat : k \notin S}
           R == OpToRel(<, Nat)
<1> SUFFICES ASSUME T # {} PROVE FALSE
  OBVIOUS
<1>a. R = {p \in Nat \X Nat : p[1] < p[2]}
  BY DEF OpToRel
<1>0. IsWellFoundedOn(R, Nat)
  BY NatLessThanWellFounded, Zenon
<1> HIDE DEF R
<1>1. PICK m \in T : \A k \in T : ~(<<k, m>> \in R)
  BY <1>0, WFMin, Zenon
<1>2. m \in Nat /\ m # 0 /\ m - 1 \in Nat /\ m - 1 < m /\ (m - 1) + 1 = m
  OBVIOUS
<1>3. m - 1 \in T
  BY <1>2
<1>4. <<m - 1, m>> \in R
  BY <1>2, <1>a
<1> QED
  BY <1>1, <1>3, <1>4

Int32s == {n \in Int : -2147483648 <= n /\ n <= 2147483647}

\* A number splits into its low seven bits and the rest.
LEMMA LowHigh ==
  \A x \in Int : \E a \in 0..127, y \in Int : x = a + 128 * y
<1> TAKE x \in Int
<1>1. x % 128 \in 0..127 /\ x \div 128 \in Int /\ x = (x % 128) + 128 * (x \div 128)
  BY SMT
<1> QED
  BY <1>1

\* An int32 is the sum of what its groups are worth.
LEMMA Groups ==
  ASSUME NEW n \in Int32s
  PROVE  LET g(i) == IF i <= VarintSize(n) THEN Group(n, i) ELSE 0
             top == g(5) % 16
         IN /\ VarintSize(n) \in 1..10
            /\ \A i \in 1..10 : Group(n, i) \in 0..127
            /\ g(1) + 128 * g(2) + 16384 * g(3) + 2097152 * g(4)
                 + 268435456 * (IF top >= 8 THEN top - 16 ELSE top) = n
<1> n \in Int
  BY SMT DEF Int32s
<1>1. Weight[1] = 1 /\ Weight[2] = 128 /\ Weight[3] = 16384 /\ Weight[4] = 2097152 /\ Weight[5] = 268435456
  BY SMT DEF Weight
<1>2. VarintSize(n) \in 1..10
  BY SMT DEF VarintSize
<1>3. \A i \in 1..10 : Group(n, i) \in 0..127
  <2>1. \A w \in {1, 128, 16384, 2097152, 268435456} : (n \div w) % 128 \in 0..127
    BY SMT
  <2>2. \A i \in 1..5 : Weight[i] \in {1, 128, 16384, 2097152, 268435456}
    BY SMT DEF Weight
  <2> QED
    BY <2>1, <2>2, SMT DEF Group
<1> DEFINE g(i) == IF i <= VarintSize(n) THEN Group(n, i) ELSE 0
           top == g(5) % 16
<1>4. n < 0 => VarintSize(n) = 10
  BY SMT DEF VarintSize
<1>5. n >= 0 => VarintSize(n) = IF n <= 127 THEN 1 ELSE IF n <= 16383 THEN 2 ELSE IF n <= 2097151 THEN 3
                   ELSE IF n <= 268435455 THEN 4 ELSE 5
  BY SMT DEF VarintSize
<1>6. /\ Group(n, 1) = n % 128 /\ Group(n, 2) = (n \div 128) % 128
      /\ Group(n, 3) = (n \div 16384) % 128 /\ Group(n, 4) = (n \div 2097152) % 128
      /\ Group(n, 5) = (n \div 268435456) % 128
  BY <1>1, SMT DEF Group
<1>7. /\ g(1) = n % 128 /\ g(2) = (n \div 128) % 128
      /\ g(3) = (n \div 16384) % 128 /\ g(4) = (n \div 2097152) % 128
      /\ g(5) = (n \div 268435456) % 128
  BY <1>4, <1>5, <1>6, SMT DEF Int32s
<1>8. PICK a \in 0..127, x \in Int : n = a + 128 * x
  BY LowHigh
<1>9. PICK b \in 0..127, y \in Int : x = b + 128 * y
  BY LowHigh
<1>c. PICK c \in 0..127, z \in Int : y = c + 128 * z
  BY LowHigh
<1>d. PICK d \in 0..127, q \in Int : z = d + 128 * q
  BY LowHigh
<1>e. n \div 128 = x
  BY <1>8, SMT
<1>f. n \div 16384 = y
  BY <1>8, <1>9, SMT
<1>g. n \div 2097152 = z
  BY <1>8, <1>9, <1>c, SMT
<1>h. x % 128 = b /\ y % 128 = c /\ z % 128 = d
  BY <1>9, <1>c, <1>d, SMT
<1>9a. n = a + 128 * b + 16384 * c + 2097152 * d + 268435456 * q
  BY <1>8, <1>9, <1>c, <1>d, SMT
<1>9b. -8 <= q /\ q <= 7
  BY <1>9a, SMT DEF Int32s
<1>10. g(1) = a
  BY <1>7, <1>9a, <1>9b, SMT
<1>11. g(2) = b
  BY <1>7, <1>e, <1>f, <1>g, <1>h, SMT
<1>12. g(3) = c
  BY <1>7, <1>e, <1>f, <1>g, <1>h, SMT
<1>13. g(4) = d
  BY <1>7, <1>e, <1>f, <1>g, <1>h, SMT
<1>14. n \div 268435456 = q
  BY <1>9a, <1>9b, SMT
<1>15. (IF top >= 8 THEN top - 16 ELSE top) = q
  <2>1. q % 128 = IF q >= 0 THEN q ELSE q + 128
    BY <1>9b, SMT
  <2>2. (q % 128) % 16 = IF q >= 0 THEN q ELSE q + 16
    BY <1>9b, <2>1, SMT
  <2> QED
    BY <1>7, <1>14, <1>9b, <2>2, SMT
<1> HIDE DEF g, top
<1>16. g(1) + 128 * g(2) + 16384 * g(3) + 2097152 * g(4)
                 + 268435456 * (IF top >= 8 THEN top - 16 ELSE top) = n
  BY <1>9a, <1>10, <1>11, <1>12, <1>13, <1>15, SMT
<1> QED
  BY <1>2, <1>3, <1>16, SMT DEF g, top

-----------------------------------------------------------------------------
(* Varints. *)

\* A byte is a number from 0 to 255.
LEMMA BytesAreInt == \A x \in Bytes : x \in Int /\ 0 <= x /\ x <= 255
BY SMT DEF Bytes

\* The minimum of a set is the element below which there is none.
LEMMA MinIs ==
  ASSUME NEW S, S \subseteq Int, NEW n \in S, \A y \in S : n <= y
  PROVE  Min(S) = n
<1>1. Min(S) \in S /\ \A y \in S : Min(S) <= y
  BY Zenon DEF Min
<1> DEFINE m == Min(S)
<1> HIDE DEF m
<1>2. m \in Int /\ n \in Int /\ m <= n /\ n <= m
  BY <1>1 DEF m
<1>3. m = n
  BY <1>2
<1> QED
  BY <1>3 DEF m

\* What follows s in s \o t is t.
LEMMA Behind ==
  ASSUME NEW S, NEW s \in Seq(S), NEW t \in Seq(S)
  PROVE  /\ s \o t \in Seq(S) /\ Len(s \o t) = Len(s) + Len(t)
         /\ Take(s \o t, Len(s)) = s
         /\ SubSeq(s \o t, 1, Len(s)) = s
         /\ From(s \o t, Len(s) + 1) = t
         /\ \A i \in 1..Len(s) : (s \o t)[i] = s[i]
<1> DEFINE b == s \o t
<1>1. /\ b \in Seq(S) /\ Len(b) = Len(s) + Len(t)
      /\ \A i \in 1..(Len(s) + Len(t)) : b[i] = IF i <= Len(s) THEN s[i] ELSE t[i - Len(s)]
  BY ConcatProperties
<1>2. Len(s) \in Nat /\ Len(t) \in Nat
  OBVIOUS
<1> HIDE DEF b
<1>3. SubSeq(b, 1, Len(s)) = s
  <2>1. \A i \in 1..Len(s) : b[i] = s[i] /\ s[i] \in S
    BY <1>1, <1>2
  <2>2. /\ SubSeq(b, 1, Len(s)) \in Seq(S)
        /\ Len(SubSeq(b, 1, Len(s))) = Len(s)
        /\ \A i \in 1..Len(s) : SubSeq(b, 1, Len(s))[i] = s[i]
    BY <1>1, <1>2, <2>1
  <2> QED
    BY <2>2, SeqEqual
<1>4. From(b, Len(s) + 1) = t
  <2>1. \A i \in (Len(s) + 1)..Len(b) : b[i] = t[i - Len(s)] /\ b[i] \in S
    BY <1>1, <1>2
  <2>2. /\ From(b, Len(s) + 1) \in Seq(S)
        /\ Len(From(b, Len(s) + 1)) = Len(t)
        /\ \A i \in 1..Len(t) : From(b, Len(s) + 1)[i] = t[i]
    BY <1>1, <1>2, <2>1, SMTT(20) DEF From
  <2> QED
    BY <2>2, SeqEqual
<1>5. Take(b, Len(s)) = s
  <2>1. (IF Len(s) <= Len(b) THEN Len(s) ELSE Len(b)) = Len(s)
    BY <1>1, <1>2
  <2> QED
    BY <1>3, <2>1 DEF Take
<1> QED
  BY <1>1, <1>2, <1>3, <1>4, <1>5 DEF b

\* Reading from bytes leaves bytes.
LEMMA FromIsBytes ==
  ASSUME NEW S, NEW b \in Seq(S), NEW n \in Int, n >= 1
  PROVE  /\ From(b, n) \in Seq(S)
         /\ Len(From(b, n)) = IF n <= Len(b) THEN Len(b) - n + 1 ELSE 0
BY DEF From

\* What is left of a sequence after some of it is taken is shorter, if it was there.
LEMMA TakeIsBytes ==
  ASSUME NEW S, NEW b \in Seq(S), NEW n \in Int
  PROVE  /\ Take(b, n) \in Seq(S)
BY DEF Take

\* An int32 is written in 1 to 10 bytes, all but the last with the high bit.
LEMMA VarintIsBytes ==
  ASSUME NEW n \in Int32s
  PROVE  /\ Varint(n) \in Seq(Bytes)
         /\ Len(Varint(n)) = VarintSize(n) /\ VarintSize(n) \in 1..10
         /\ \A i \in 1..VarintSize(n) :
              /\ Varint(n)[i] = IF i = 10 THEN 1 ELSE Group(n, i) + (IF i < VarintSize(n) THEN 128 ELSE 0)
              /\ Varint(n)[i] >= 128 <=> i < VarintSize(n)
              /\ i # 10 => Varint(n)[i] % 128 = Group(n, i)
<1>1. VarintSize(n) \in 1..10 /\ \A i \in 1..10 : Group(n, i) \in 0..127
  BY Groups, SMT
<1>2. \A i \in 1..VarintSize(n) :
        /\ Varint(n)[i] = IF i = 10 THEN 1 ELSE Group(n, i) + (IF i < VarintSize(n) THEN 128 ELSE 0)
  BY <1>1 DEF Varint
<1>3. \A i \in 1..VarintSize(n) : i \in 1..10 /\ i <= VarintSize(n) /\ VarintSize(n) <= 10
  BY <1>1
<1>4. \A g \in 0..127 : g \in Bytes /\ g + 128 \in Bytes /\ (g + 128) % 128 = g /\ g % 128 = g /\ g < 128 /\ g + 128 >= 128
  BY SMT DEF Bytes
<1>5. 1 \in Bytes
  BY DEF Bytes
<1>6. ASSUME NEW i \in 1..VarintSize(n)
      PROVE  /\ Varint(n)[i] \in Bytes
             /\ Varint(n)[i] >= 128 <=> i < VarintSize(n)
             /\ i # 10 => Varint(n)[i] % 128 = Group(n, i)
  <2> i \in 1..10 /\ Group(n, i) \in 0..127 /\ i <= VarintSize(n) /\ VarintSize(n) <= 10 /\ VarintSize(n) \in Int
    BY <1>1, <1>3
  <2>1. CASE i = 10
    BY <1>2, <1>5, <2>1
  <2>2. CASE i # 10 /\ i < VarintSize(n)
    BY <1>2, <1>4, <2>2
  <2>3. CASE i # 10 /\ i = VarintSize(n)
    BY <1>2, <1>4, <2>3
  <2> QED
    BY <2>1, <2>2, <2>3
<1>7. Len(Varint(n)) = VarintSize(n) /\ Varint(n) \in Seq(Bytes)
  <2>1. Varint(n) = [i \in 1..VarintSize(n) |-> Varint(n)[i]]
    BY DEF Varint
  <2> DEFINE v == Varint(n)
  <2> HIDE DEF v
  <2>2. v \in [1..VarintSize(n) -> Bytes]
    BY <1>6, <2>1 DEF v
  <2>3. v \in Seq(Bytes) /\ Len(v) = VarintSize(n)
    BY <1>1, <2>2
  <2> QED
    BY <2>3 DEF v
<1> QED
  BY <1>1, <1>2, <1>6, <1>7

\* An int32 is read as it was written, whatever follows.
THEOREM VarintIsRead ==
  ASSUME NEW n \in Int32s, NEW rest \in Seq(Bytes)
  PROVE  ReadVarint(Varint(n) \o rest) = [ok |-> TRUE, value |-> n, rest |-> rest]
<1> DEFINE v == Varint(n)
           size == VarintSize(n)
           b == v \o rest
<1>1. /\ v \in Seq(Bytes)
      /\ Len(v) = size /\ size \in 1..10
      /\ \A i \in 1..size :
           /\ v[i] >= 128 <=> i < size
           /\ i # 10 => v[i] % 128 = Group(n, i)
  BY VarintIsBytes
<1>2. /\ b \in Seq(Bytes) /\ Len(b) = size + Len(rest)
      /\ SubSeq(b, 1, size) = v /\ From(b, size + 1) = rest
      /\ \A i \in 1..size : b[i] = v[i]
  <2> HIDE DEF v
  <2> QED BY <1>1, Behind
<1> HIDE DEF v, size, b
<1>3. Ends(b) \subseteq Int /\ size \in Ends(b) /\ \A i \in Ends(b) : size <= i
  <2>1. \A i \in 1..size : b[i] \in Int
    <3>1. \A i \in 1..size : v[i] \in Bytes
      BY <1>1, ElementOfSeq
    <3> QED
      BY <1>1, <1>2, <3>1, BytesAreInt
  <2>2. b[size] < 128
    BY <1>1, <1>2, <2>1
  <2>3. \A i \in 1..Len(b) : i < size => b[i] >= 128 /\ b[i] \in Int
    BY <1>1, <1>2, <2>1
  <2>4. Len(rest) \in Nat
    OBVIOUS
  <2> QED
    BY <1>1, <1>2, <2>2, <2>3, <2>4 DEF Ends
<1>4. Min(Ends(b)) = size
  BY <1>3, MinIs
<1>5. Int32(v) = n
  <2> DEFINE g(i) == IF i <= VarintSize(n) THEN Group(n, i) ELSE 0
             top == g(5) % 16
             h(i) == IF i <= Len(v) THEN v[i] % 128 ELSE 0
             hop == h(5) % 16
  <2>1. g(1) + 128 * g(2) + 16384 * g(3) + 2097152 * g(4)
                 + 268435456 * (IF top >= 8 THEN top - 16 ELSE top) = n
    BY Groups, SMT
  <2>2. h(1) = g(1) /\ h(2) = g(2) /\ h(3) = g(3) /\ h(4) = g(4) /\ h(5) = g(5)
    BY <1>1 DEF size
  <2>3. Int32(v) = h(1) + 128 * h(2) + 16384 * h(3) + 2097152 * h(4)
                 + 268435456 * (IF hop >= 8 THEN hop - 16 ELSE hop)
    BY SMT DEF Int32
  <2> HIDE DEF g, h
  <2> QED
    BY <2>1, <2>2, <2>3, SMT
<1>6. Ends(b) # {}
  BY <1>3
<1>7. ReadVarint(b) = [ok |-> TRUE, value |-> Int32(v), rest |-> rest]
  BY <1>2, <1>4, <1>6 DEF ReadVarint
<1> QED
  BY <1>5, <1>7 DEF b, v

\* Reading a number takes at least a byte, or fails.
LEMMA ReadVarintIs ==
  ASSUME NEW b \in Seq(Bytes)
  PROVE  /\ ReadVarint(b).ok \in BOOLEAN
         /\ ReadVarint(b).rest \in Seq(Bytes)
         /\ ReadVarint(b).value \in Int
         /\ ReadVarint(b).ok => Len(ReadVarint(b).rest) < Len(b)
         /\ Len(ReadVarint(b).rest) <= Len(b)
         /\ b = <<>> => ~ReadVarint(b).ok
<1>1. CASE Ends(b) = {}
  BY <1>1 DEF ReadVarint
<1>2. CASE Ends(b) # {}
  <2> DEFINE n == Min(Ends(b))
  <2>1. n \in Ends(b)
    <3>1. Ends(b) \subseteq Nat
      BY DEF Ends
    <3>2. \E x \in Ends(b) : \A y \in Ends(b) : x <= y
      <4> DEFINE T == {k \in Nat : \A j \in Nat : j <= k => j \notin Ends(b)}
      <4>1. SUFFICES ASSUME ~\E x \in Ends(b) : \A y \in Ends(b) : x <= y
                     PROVE  FALSE
        OBVIOUS
      <4>2. 0 \in T
        BY DEF Ends
      <4>3. ASSUME NEW k \in Nat, k \in T
            PROVE  k + 1 \in T
        <5>1. k + 1 \notin Ends(b)
          <6>1. \A y \in Ends(b) : k + 1 <= y
            BY <3>1, <4>3
          <6> QED
            BY <4>1, <6>1
        <5> QED
          BY <4>3, <5>1
      <4> HIDE DEF T
      <4>4. \A k \in Nat : k \in T
        BY <4>2, <4>3, Induction
      <4> QED
        BY <1>2, <3>1, <4>4 DEF T
    <3> QED
      BY <3>2, Zenon DEF Min
  <2> HIDE DEF n
  <2>2. n \in 1..Len(b)
    BY <2>1 DEF Ends
  <2>3. From(b, n + 1) \in Seq(Bytes) /\ Len(From(b, n + 1)) < Len(b)
    <3>1. n \in Int /\ n + 1 \in Int /\ n + 1 >= 1 /\ n <= Len(b) /\ n >= 1 /\ Len(b) \in Nat
      BY <2>2
    <3>2. /\ From(b, n + 1) \in Seq(Bytes)
          /\ Len(From(b, n + 1)) = IF n + 1 <= Len(b) THEN Len(b) - (n + 1) + 1 ELSE 0
      BY <3>1, FromIsBytes
    <3> QED
      BY <3>1, <3>2
  <2>4. Int32(SubSeq(b, 1, n)) \in Int
    <3>1. SubSeq(b, 1, n) \in Seq(Bytes)
      BY <2>2
    <3> DEFINE v == SubSeq(b, 1, n)
               h(i) == IF i <= Len(v) THEN v[i] % 128 ELSE 0
               hop == h(5) % 16
    <3> HIDE DEF v
    <3>2. \A i \in 1..5 : h(i) \in Int
      <4>1. \A i \in 1..5 : i <= Len(v) => v[i] \in Bytes
        BY <3>1, ElementOfSeq DEF v
      <4>2. \A i \in 1..5 : i <= Len(v) => v[i] \in Int
        BY <4>1, BytesAreInt
      <4> QED
        BY <4>2
    <3>3. Int32(v) = h(1) + 128 * h(2) + 16384 * h(3) + 2097152 * h(4)
                 + 268435456 * (IF hop >= 8 THEN hop - 16 ELSE hop)
      BY SMT DEF Int32
    <3>4. h(1) \in Int /\ h(2) \in Int /\ h(3) \in Int /\ h(4) \in Int /\ h(5) \in Int
      BY <3>2
    <3> HIDE DEF h
    <3>5. hop \in Int
      BY <3>4
    <3> HIDE DEF hop
    <3>6. (IF hop >= 8 THEN hop - 16 ELSE hop) \in Int
      BY <3>5
    <3>7. Int32(v) \in Int
      <4> DEFINE e == IF hop >= 8 THEN hop - 16 ELSE hop
                 Sum(x1, x2, x3, x4, x5) == x1 + 128 * x2 + 16384 * x3 + 2097152 * x4 + 268435456 * x5
      <4>2. Int32(v) = Sum(h(1), h(2), h(3), h(4), e) /\ e \in Int
        BY <3>3, <3>6, SMT
      <4> HIDE DEF e
      <4>1. \A x1, x2, x3, x4, x5 \in Int :
              Sum(x1, x2, x3, x4, x5) \in Int
        BY SMT
      <4> HIDE DEF Sum
      <4> QED
        BY <3>4, <4>1, <4>2, SMT
    <3> QED
      BY <3>7 DEF v
  <2>5. b # <<>>
    BY <2>2
  <2> QED
    BY <1>2, <2>2, <2>3, <2>4, <2>5 DEF ReadVarint, n
<1> QED
  BY <1>1, <1>2

-----------------------------------------------------------------------------
(* The tables of the messages. *)

\* The kinds of a field.
Kinds == {"int32", "bool", "string", "bytes", "UserInfo"}

\* Of every row of the parser's table there is one in the tables of the other methods:
\* the tag the parser knows is that of the number and the kind that are written, has one
\* byte, ends no loop and is no other field's, and MergeFrom takes over every field.
TablesAgree(name) ==
  LET R == Reads[name]
      Z == Sizes[name]
  IN /\ Len(R) \in Nat /\ DOMAIN R = 1..Len(R)
     /\ Len(Z) = Len(R)
     /\ \A i \in 1..Len(R) :
          /\ R[i][3] \in Kinds
          /\ R[i][3] = "UserInfo" => name # "UserInfo" /\ R[i][2] = "userinfo"
          /\ R[i][1] \in 8..127 /\ R[i][1] % 8 # 4
          /\ Z[i] = <<1, R[i][2], R[i][3]>>
     /\ \A i, j \in 1..Len(R) : i # j => R[i][1] # R[j][1] /\ R[i][2] # R[j][2]
     /\ \A version \in {"stream", "array"} :
          LET W == Writes[name][version]
          IN /\ Len(W) = Len(R)
             /\ \A i \in 1..Len(R) :
                  /\ W[i][2] = R[i][2] /\ W[i][3] = R[i][3]
                  /\ W[i][1] * 8 + WireType(W[i][3]) = R[i][1]
     /\ Merges[name] = {R[i][2] : i \in 1..Len(R)}

\* The five methods of a Package have the same fields.
LEMMA Package_Tables == TablesAgree("Package")
<1>1. Reads["Package"] = <<<<8, "msgID", "int32">>, <<18, "msgData", "bytes">>>>
  BY DEF Reads, Package_Reads, BytesOf, IntOf
<1>2. Sizes["Package"] = <<<<1, "msgID", "int32">>, <<1, "msgData", "bytes">>>>
  BY DEF Sizes, Package_Sizes, BytesOf, IntOf
<1>3. \A version \in {"stream", "array"} :
        Writes["Package"][version] = <<<<1, "msgID", "int32">>, <<2, "msgData", "bytes">>>>
  BY DEF Writes, Package_Writes, BytesOf, IntOf
<1>4. Merges["Package"] = {"msgID", "msgData"}
  BY DEF Merges, Package_Merges
<1> QED
  BY <1>1, <1>2, <1>3, <1>4 DEF TablesAgree, Kinds, WireType

\* So have those of a HeatBeat,
LEMMA HeatBeat_Tables == TablesAgree("HeatBeat")
<1>1. Reads["HeatBeat"] = <<<<8, "second", "int32">>>>
  BY DEF Reads, HeatBeat_Reads, IntOf
<1>2. Sizes["HeatBeat"] = <<<<1, "second", "int32">>>>
  BY DEF Sizes, HeatBeat_Sizes, IntOf
<1>3. \A version \in {"stream", "array"} :
        Writes["HeatBeat"][version] = <<<<1, "second", "int32">>>>
  BY DEF Writes, HeatBeat_Writes, IntOf
<1>4. Merges["HeatBeat"] = {"second"}
  BY DEF Merges, HeatBeat_Merges
<1> QED
  BY <1>1, <1>2, <1>3, <1>4 DEF TablesAgree, Kinds, WireType

\* of a Mail_LC,
LEMMA Mail_LC_Tables == TablesAgree("Mail_LC")
<1>1. Reads["Mail_LC"] = <<<<10, "fromName", "string">>, <<18, "time", "string">>, <<26, "detail", "string">>>>
  BY DEF Reads, Mail_LC_Reads, TextOf
<1>2. Sizes["Mail_LC"] = <<<<1, "fromName", "string">>, <<1, "time", "string">>, <<1, "detail", "string">>>>
  BY DEF Sizes, Mail_LC_Sizes, TextOf
<1>3. \A version \in {"stream", "array"} :
        Writes["Mail_LC"][version] = <<<<1, "fromName", "string">>, <<2, "time", "string">>,
                                       <<3, "detail", "string">>>>
  BY DEF Writes, Mail_LC_Writes, TextOf
<1>4. Merges["Mail_LC"] = {"fromName", "time", "detail"}
  BY DEF Merges, Mail_LC_Merges
<1> QED
  BY <1>1, <1>2, <1>3, <1>4 DEF TablesAgree, Kinds, WireType

\* of a UserLogin_CL,
LEMMA UserLogin_CL_Tables == TablesAgree("UserLogin_CL")
<1>1. Reads["UserLogin_CL"] = <<<<10, "token", "string">>>>
  BY DEF Reads, UserLogin_CL_Reads, TextOf
<1>2. Sizes["UserLogin_CL"] = <<<<1, "token", "string">>>>
  BY DEF Sizes, UserLogin_CL_Sizes, TextOf
<1>3. \A version \in {"stream", "array"} :
        Writes["UserLogin_CL"][version] = <<<<1, "token", "string">>>>
  BY DEF Writes, UserLogin_CL_Writes, TextOf
<1>4. Merges["UserLogin_CL"] = {"token"}
  BY DEF Merges, UserLogin_CL_Merges
<1> QED
  BY <1>1, <1>2, <1>3, <1>4 DEF TablesAgree, Kinds, WireType

\* of a UserLogin_LC, the only one with a message in it,
LEMMA UserLogin_LC_Tables == TablesAgree("UserLogin_LC")
<1>1. Reads["UserLogin_LC"] = <<<<10, "userinfo", "UserInfo">>>>
  BY DEF Reads, UserLogin_LC_Reads, InfoOf
<1>2. Sizes["UserLogin_LC"] = <<<<1, "userinfo", "UserInfo">>>>
  BY DEF Sizes, UserLogin_LC_Sizes, InfoOf
<1>3. \A version \in {"stream", "array"} :
        Writes["UserLogin_LC"][version] = <<<<1, "userinfo", "UserInfo">>>>
  BY DEF Writes, UserLogin_LC_Writes, InfoOf
<1>4. Merges["UserLogin_LC"] = {"userinfo"}
  BY DEF Merges, UserLogin_LC_Merges
<1> QED
  BY <1>1, <1>2, <1>3, <1>4 DEF TablesAgree, Kinds, WireType

\* of an EnterHall_CL,
LEMMA EnterHall_CL_Tables == TablesAgree("EnterHall_CL")
<1>1. Reads["EnterHall_CL"] = <<>>
  BY DEF Reads, EnterHall_CL_Reads
<1>2. Sizes["EnterHall_CL"] = <<>>
  BY DEF Sizes, EnterHall_CL_Sizes
<1>3. \A version \in {"stream", "array"} :
        Writes["EnterHall_CL"][version] = <<>>
  BY DEF Writes, EnterHall_CL_Writes
<1>4. Merges["EnterHall_CL"] = {}
  BY DEF Merges, EnterHall_CL_Merges
<1> QED
  BY <1>1, <1>2, <1>3, <1>4 DEF TablesAgree, Kinds, WireType

\* of a ReturnHall_CL,
LEMMA ReturnHall_CL_Tables == TablesAgree("ReturnHall_CL")
<1>1. Reads["ReturnHall_CL"] = <<<<10, "token", "string">>>>
  BY DEF Reads, ReturnHall_CL_Reads, TextOf
<1>2. Sizes["ReturnHall_CL"] = <<<<1, "token", "string">>>>
  BY DEF Sizes, ReturnHall_CL_Sizes, TextOf
<1>3. \A version \in {"stream", "array"} :
        Writes["ReturnHall_CL"][version] = <<<<1, "token", "string">>>>
  BY DEF Writes, ReturnHall_CL_Writes, TextOf
<1>4. Merges["ReturnHall_CL"] = {"token"}
  BY DEF Merges, ReturnHall_CL_Merges
<1> QED
  BY <1>1, <1>2, <1>3, <1>4 DEF TablesAgree, Kinds, WireType

\* of a FreshUserInfo_LC,
LEMMA FreshUserInfo_LC_Tables == TablesAgree("FreshUserInfo_LC")
<1>1. Reads["FreshUserInfo_LC"] = <<<<10, "userinfo", "UserInfo">>>>
  BY DEF Reads, FreshUserInfo_LC_Reads, InfoOf
<1>2. Sizes["FreshUserInfo_LC"] = <<<<1, "userinfo", "UserInfo">>>>
  BY DEF Sizes, FreshUserInfo_LC_Sizes, InfoOf
<1>3. \A version \in {"stream", "array"} :
        Writes["FreshUserInfo_LC"][version] = <<<<1, "userinfo", "UserInfo">>>>
  BY DEF Writes, FreshUserInfo_LC_Writes, InfoOf
<1>4. Merges["FreshUserInfo_LC"] = {"userinfo"}
  BY DEF Merges, FreshUserInfo_LC_Merges
<1> QED
  BY <1>1, <1>2, <1>3, <1>4 DEF TablesAgree, Kinds, WireType

\* of a FreshUserGoods,
LEMMA FreshUserGoods_Tables == TablesAgree("FreshUserGoods")
<1>1. Reads["FreshUserGoods"] = <<<<8, "coins", "int32">>, <<16, "diamonds", "int32">>>>
  BY DEF Reads, FreshUserGoods_Reads, IntOf
<1>2. Sizes["FreshUserGoods"] = <<<<1, "coins", "int32">>, <<1, "diamonds", "int32">>>>
  BY DEF Sizes, FreshUserGoods_Sizes, IntOf
<1>3. \A version \in {"stream", "array"} :
        Writes["FreshUserGoods"][version] = <<<<1, "coins", "int32">>, <<2, "diamonds", "int32">>>>
  BY DEF Writes, FreshUserGoods_Writes, IntOf
<1>4. Merges["FreshUserGoods"] = {"coins", "diamonds"}
  BY DEF Merges, FreshUserGoods_Merges
<1> QED
  BY <1>1, <1>2, <1>3, <1>4 DEF TablesAgree, Kinds, WireType

\* and of a UserInfo.
LEMMA UserInfo_Tables == TablesAgree("UserInfo")
<1> DEFINE R == Reads["UserInfo"]
           Z == Sizes["UserInfo"]
           W(version) == Writes["UserInfo"][version]
<1>1. R = <<<<8, "id", "int32">>, <<18, "name", "string">>, <<24, "sex", "int32">>,
            <<32, "coin", "int32">>, <<40, "diamond", "int32">>, <<50, "headURL", "string">>,
            <<56, "isTemp", "bool">>>>
  BY DEF Reads, UserInfo_Reads, IntOf, TextOf, BoolOf
<1>2. Z = <<<<1, "id", "int32">>, <<1, "name", "string">>, <<1, "sex", "int32">>, <<1, "coin", "int32">>,
            <<1, "diamond", "int32">>, <<1, "headURL", "string">>, <<1, "isTemp", "bool">>>>
  BY DEF Sizes, UserInfo_Sizes, IntOf, TextOf, BoolOf
<1>3. \A version \in {"stream", "array"} :
        W(version) = <<<<1, "id", "int32">>, <<2, "name", "string">>, <<3, "sex", "int32">>,
                       <<4, "coin", "int32">>, <<5, "diamond", "int32">>, <<6, "headURL", "string">>,
                       <<7, "isTemp", "bool">>>>
  BY DEF Writes, UserInfo_ToStream, UserInfo_ToArray, IntOf, TextOf, BoolOf
<1>4. Merges["UserInfo"] = {"id", "name", "sex", "coin", "diamond", "headURL", "isTemp"}
  BY DEF Merges, UserInfo_Merges
<1> HIDE DEF R, Z, W
<1>5. Len(R) = 7 /\ 1..Len(R) = {1, 2, 3, 4, 5, 6, 7}
  BY <1>1
<1>6. /\ R[1] = <<8, "id", "int32">> /\ R[2] = <<18, "name", "string">>
      /\ R[3] = <<24, "sex", "int32">> /\ R[4] = <<32, "coin", "int32">>
      /\ R[5] = <<40, "diamond", "int32">> /\ R[6] = <<50, "headURL", "string">>
      /\ R[7] = <<56, "isTemp", "bool">>
  BY <1>1
<1>7. \A i \in 1..7 : R[i][3] \in Kinds
  BY <1>6 DEF Kinds
<1>8. DOMAIN R = 1..7
  BY <1>1
<1>9. \A i \in 1..7 : R[i][3] # "UserInfo" /\ R[i][1] \in 8..127 /\ R[i][1] % 8 # 4
  BY <1>6
<1>10. Len(Z) = 7 /\ \A i \in 1..7 : Z[i] = <<1, R[i][2], R[i][3]>>
  BY <1>2, <1>6
<1>11. \A i, j \in 1..7 : i # j => R[i][1] # R[j][1]
  BY <1>6
<1>12. \A i, j \in 1..7 : i # j => R[i][2] # R[j][2]
  BY <1>6
<1>13. ASSUME NEW version \in {"stream", "array"}
       PROVE  /\ Len(W(version)) = 7
              /\ \A i \in 1..7 :
                   /\ W(version)[i][2] = R[i][2] /\ W(version)[i][3] = R[i][3]
                   /\ W(version)[i][1] * 8 + WireType(W(version)[i][3]) = R[i][1]
  <2> DEFINE V == W(version)
  <2>1. V = <<<<1, "id", "int32">>, <<2, "name", "string">>, <<3, "sex", "int32">>,
              <<4, "coin", "int32">>, <<5, "diamond", "int32">>, <<6, "headURL", "string">>,
              <<7, "isTemp", "bool">>>>
    BY <1>3
  <2> HIDE DEF V
  <2>2. \A i \in 1..7 : V[i][2] = R[i][2] /\ V[i][3] = R[i][3]
    BY <1>6, <2>1
  <2>3. \A i \in 1..7 : V[i][1] * 8 + WireType(V[i][3]) = R[i][1]
    BY <1>6, <2>1 DEF WireType
  <2> QED
    BY <2>1, <2>2, <2>3 DEF V
<1>14. Merges["UserInfo"] = {R[i][2] : i \in 1..7}
  BY <1>4, <1>6
<1>15. Len(R) = 7
  BY <1>5
<1>16. /\ Len(R) \in Nat /\ DOMAIN R = 1..Len(R) /\ Len(Z) = Len(R)
       /\ Merges["UserInfo"] = {R[i][2] : i \in 1..Len(R)}
  BY <1>8, <1>10, <1>14, <1>15
<1>17. \A i \in 1..Len(R) :
         /\ R[i][3] \in Kinds
         /\ R[i][3] = "UserInfo" => FALSE
         /\ R[i][1] \in 8..127 /\ R[i][1] % 8 # 4
         /\ Z[i] = <<1, R[i][2], R[i][3]>>
  BY <1>7, <1>9, <1>10, <1>15
<1>18. \A i, j \in 1..Len(R) : i # j => R[i][1] # R[j][1] /\ R[i][2] # R[j][2]
  BY <1>11, <1>12, <1>15
<1>19. \A version \in {"stream", "array"} :
         /\ Len(W(version)) = Len(R)
         /\ \A i \in 1..Len(R) :
              /\ W(version)[i][2] = R[i][2] /\ W(version)[i][3] = R[i][3]
              /\ W(version)[i][1] * 8 + WireType(W(version)[i][3]) = R[i][1]
  BY <1>13, <1>15
<1> QED
  BY <1>16, <1>17, <1>18, <1>19, Zenon DEF TablesAgree, R, Z, W

\* The tables of the five methods of GameHall.pb.cc agree for every message: what the
\* parser looks for is what both writers write and ByteSize counts, and MergeFrom takes it over.
THEOREM TablesOfMessages == \A name \in Names : TablesAgree(name)
<1>1. Names = {"Package", "HeatBeat", "Mail_LC", "UserLogin_CL", "UserInfo", "UserLogin_LC",
               "EnterHall_CL", "ReturnHall_CL", "FreshUserInfo_LC", "FreshUserGoods"}
  BY DEF Names, Reads
<1> QED
  BY <1>1, Package_Tables, HeatBeat_Tables, Mail_LC_Tables, UserLogin_CL_Tables, UserInfo_Tables,
     UserLogin_LC_Tables, EnterHall_CL_Tables, ReturnHall_CL_Tables, FreshUserInfo_LC_Tables,
     FreshUserGoods_Tables

-----------------------------------------------------------------------------
(* One round of the parser. *)

\* The two writers of a message: to a stream and to an array.
Versions == {"stream", "array"}

\* What follows from the tables about a row of the parser's.
LEMMA Rows ==
  ASSUME NEW name \in Names
  PROVE  LET R == Reads[name]
         IN /\ Len(R) \in Nat
            /\ FieldsOf(name) = {R[i][2] : i \in 1..Len(R)}
            /\ Merges[name] = FieldsOf(name)
            /\ \A i \in 1..Len(R) :
                 /\ KindOf(name, R[i][2]) = R[i][3]
                 /\ R[i][3] \in Kinds
                 /\ R[i][3] = "UserInfo" => name # "UserInfo" /\ R[i][2] = "userinfo"
                 /\ {r \in ToSet(R) : r[1] = R[i][1]} = {R[i]}
                 /\ R[i][1] \in 8..127 /\ R[i][1] % 8 # 4
                 /\ R[i][2] \in FieldsOf(name)
            /\ \A i, j \in 1..Len(R) : i # j => R[i][2] # R[j][2]
<1> DEFINE R == Reads[name]
<1>1. TablesAgree(name)
  BY TablesOfMessages
<1>2. /\ Len(R) \in Nat /\ DOMAIN R = 1..Len(R)
      /\ Merges[name] = {R[i][2] : i \in 1..Len(R)}
  BY <1>1 DEF TablesAgree
<1>3. \A i \in 1..Len(R) :
        /\ R[i][3] \in Kinds
        /\ R[i][3] = "UserInfo" => name # "UserInfo" /\ R[i][2] = "userinfo"
        /\ R[i][1] \in 8..127 /\ R[i][1] % 8 # 4
  BY <1>1 DEF TablesAgree
<1>4. \A i, j \in 1..Len(R) : i # j => R[i][1] # R[j][1] /\ R[i][2] # R[j][2]
  BY <1>1 DEF TablesAgree
<1>5. ToSet(R) = {R[i] : i \in 1..Len(R)}
  BY <1>2 DEF ToSet
<1>6. FieldsOf(name) = {r[2] : r \in ToSet(R)}
  BY DEF FieldsOf
<1> HIDE DEF R
<1>7. FieldsOf(name) = {R[i][2] : i \in 1..Len(R)}
  BY <1>5, <1>6
<1>8. ASSUME NEW i \in 1..Len(R)
      PROVE  /\ KindOf(name, R[i][2]) = R[i][3]
             /\ {r \in ToSet(R) : r[1] = R[i][1]} = {R[i]}
  <2>1. {r \in ToSet(R) : r[1] = R[i][1]} = {R[i]}
    BY <1>4, <1>5
  <2> DEFINE row == CHOOSE r \in ToSet(R) : r[2] = R[i][2]
  <2>2. row \in ToSet(R) /\ row[2] = R[i][2]
    BY <1>5
  <2>3. row = R[i]
    BY <1>4, <1>5, <2>2
  <2>4. KindOf(name, R[i][2]) = row[3]
    BY DEF KindOf, R
  <2> QED
    BY <2>1, <2>3, <2>4
<1> QED
  BY <1>2, <1>3, <1>4, <1>7, <1>8 DEF R

\* A tag of a known field is one byte.
LEMMA TagSize == \A tag \in 0..127 : VarintSize(tag) = 1
<1> TAKE tag \in 0..127
<1> tag \in Int /\ 0 <= tag /\ tag < 128
  OBVIOUS
<1> QED
  BY SMT DEF VarintSize

\* Every size of a text is an int32.
LEMMA SmallInt == \A n \in Nat : n <= 2147483647 => n \in Int32s
BY SMT DEF Int32s

\* So is every tag.
LEMMA TagIsInt32 == \A tag \in 0..127 : tag \in Int32s
BY SmallInt, SMT

\* A known tag: its field is read.
LEMMA RoundOfKnown ==
  ASSUME NEW name \in Names, NEW i \in 1..Len(Reads[name]),
         NEW m, NEW inner, NEW b \in Seq(Bytes)
  PROVE  RoundOf(name, Reading(m, Varint(Reads[name][i][1]) \o b), inner)
           = FieldRead(m, Reads[name][i][2], Reads[name][i][3], b, inner)
<1> DEFINE R == Reads[name]
           row == R[i]
           s == Reading(m, Varint(row[1]) \o b)
           t == ReadVarint(s.rest)
           known == {r \in ToSet(R) : r[1] = t.value}
<1>1. known = {row} \/ t.value # row[1]
  BY Rows
<1>2. row[1] \in 8..127 /\ row[1] % 8 # 4 /\ row[1] \in Int32s
  <2>1. row[1] \in 8..127 /\ row[1] % 8 # 4
    BY Rows
  <2>2. row[1] \in 0..127
    BY <2>1
  <2> QED
    BY <2>1, <2>2, TagIsInt32
<1>3. s.rest = Varint(row[1]) \o b /\ s.msg = m /\ s.status = "reading"
  BY DEF Reading
<1> HIDE DEF s
<1>4. t = [ok |-> TRUE, value |-> row[1], rest |-> b]
  BY <1>2, <1>3, VarintIsRead
<1>5. t.ok /\ t.value = row[1] /\ t.rest = b /\ t.value # 0 /\ t.value % 8 # 4
  <2>1. t.ok /\ t.value = row[1] /\ t.rest = b
    <3> HIDE DEF t
    <3> QED BY <1>4
  <2>2. row[1] # 0
    <3>1. \A x \in 8..127 : x # 0
      OBVIOUS
    <3> QED
      BY <1>2, <3>1, Zenon
  <2> QED
    BY <1>2, <2>1, <2>2
<1>6. known # {} /\ (CHOOSE r \in known : TRUE) = row
  BY <1>1, <1>5
<1>7. RoundOf(name, s, inner) =
        FieldRead(s.msg, (CHOOSE r \in known : TRUE)[2], (CHOOSE r \in known : TRUE)[3], t.rest, inner)
  <2> HIDE DEF t
  <2> QED
    BY <1>3, <1>5, <1>6 DEF RoundOf, t
<1> QED
  BY <1>3, <1>5, <1>6, <1>7 DEF s

\* A tag that ends no loop and no row has: its field is skipped.
Strays(name, tag) ==
  tag \in Int32s /\ tag # 0 /\ tag % 8 # 4 /\ \A r \in ToSet(Reads[name]) : r[1] # tag

\* What the field at the start of b takes is skipped, up to rest.
Skips(tag, b, rest) == b \in Seq(Bytes) /\ Skipped(tag, b).ok /\ Skipped(tag, b).rest = rest

\* A round of the parser over a field it does not know leaves the message alone.
LEMMA RoundOfUnknown ==
  ASSUME NEW name, NEW tag, Strays(name, tag),
         NEW m, NEW inner, NEW b, NEW rest, Skips(tag, b, rest)
  PROVE  RoundOf(name, Reading(m, Varint(tag) \o b), inner) = Reading(m, rest)
<1> DEFINE s == Reading(m, Varint(tag) \o b)
           t == ReadVarint(s.rest)
           known == {r \in ToSet(Reads[name]) : r[1] = t.value}
<1>1. tag \in Int32s /\ tag # 0 /\ tag % 8 # 4 /\ \A r \in ToSet(Reads[name]) : r[1] # tag
  BY DEF Strays
<1>2. b \in Seq(Bytes) /\ Skipped(tag, b).ok /\ Skipped(tag, b).rest = rest
  BY DEF Skips
<1>3. s.rest = Varint(tag) \o b /\ s.msg = m /\ s.status = "reading"
  BY DEF Reading
<1> HIDE DEF s
<1>4. t = [ok |-> TRUE, value |-> tag, rest |-> b]
  BY <1>1, <1>2, <1>3, VarintIsRead
<1>5. t.ok /\ t.value = tag /\ t.rest = b /\ t.value # 0 /\ t.value % 8 # 4
  BY <1>1, <1>4
<1>6. known = {}
  BY <1>1, <1>5
<1> HIDE DEF t
<1>7. RoundOf(name, s, inner) =
        IF Skipped(t.value, t.rest).ok THEN Reading(s.msg, Skipped(t.value, t.rest).rest) ELSE Failed(s.msg)
  BY <1>3, <1>5, <1>6 DEF RoundOf, t
<1> QED
  BY <1>2, <1>3, <1>5, <1>7 DEF s

\* What a round makes of a state that is reading: it takes a byte or more, or is the last.
Follows(s, b) ==
  \/ s.status = "reading" /\ s = Reading(s.msg, s.rest) /\ s.rest \in Seq(Bytes) /\ Len(s.rest) < Len(b)
  \/ s.status \in {"ended", "failed"}

\* What the states of the parser say.
LEMMA StatusOf ==
  ASSUME NEW m, NEW b
  PROVE  /\ Reading(m, b).status = "reading" /\ Reading(m, b).msg = m /\ Reading(m, b).rest = b
         /\ Ended(m, b).status = "ended" /\ Ended(m, b).msg = m /\ Ended(m, b).rest = b
         /\ Failed(m).status = "failed" /\ Failed(m).msg = m
BY DEF Reading, Ended, Failed

\* Reading a field fails or goes on with no more bytes than there were.
LEMMA FieldReadFollows ==
  ASSUME NEW m, NEW f, NEW kind, NEW b \in Seq(Bytes), NEW inner
  PROVE  Follows(FieldRead(m, f, kind, b, inner), b)
<1> DEFINE v == ReadVarint(b)
           rest == From(v.rest, v.value + 1)
<1>1. /\ v.ok \in BOOLEAN /\ v.rest \in Seq(Bytes) /\ v.value \in Int
      /\ v.ok => Len(v.rest) < Len(b)
  BY ReadVarintIs
<1>2. v.value >= 0 => rest \in Seq(Bytes) /\ Len(rest) <= Len(v.rest)
  <2> HIDE DEF v
  <2>1. ASSUME v.value >= 0
        PROVE  rest \in Seq(Bytes) /\ Len(rest) <= Len(v.rest)
    <3>1. v.value + 1 \in Int /\ v.value + 1 >= 1
      BY <1>1, <2>1
    <3>2. /\ rest \in Seq(Bytes)
          /\ Len(rest) = IF v.value + 1 <= Len(v.rest) THEN Len(v.rest) - (v.value + 1) + 1 ELSE 0
      BY <1>1, <3>1, FromIsBytes
    <3>3. Len(v.rest) \in Nat
      BY <1>1
    <3> QED
      BY <1>1, <2>1, <3>2, <3>3
  <2> QED
    BY <2>1
<1>3. ASSUME NEW x, NEW right, NEW r \in Seq(Bytes), Len(r) < Len(b)
      PROVE  Follows(Taken(m, f, x, right, r), b)
  BY <1>3, StatusOf DEF Follows, Taken
<1>4. Follows(Failed(m), b)
  BY StatusOf DEF Follows
<1>5. CASE ~v.ok
  BY <1>4, <1>5 DEF FieldRead
<1>6. CASE v.ok /\ kind = "int32"
  <2>1. FieldRead(m, f, kind, b, inner) = Taken(m, f, v.value, TRUE, v.rest)
    <3> HIDE DEF v
    <3> QED BY <1>6 DEF FieldRead, v
  <2> QED BY <1>1, <1>3, <1>6, <2>1
<1>7. CASE v.ok /\ kind = "bool"
  <2>1. FieldRead(m, f, kind, b, inner) = Taken(m, f, v.value # 0, TRUE, v.rest)
    <3> HIDE DEF v
    <3> QED BY <1>7 DEF FieldRead, v
  <2> QED BY <1>1, <1>3, <1>7, <2>1
<1>8. CASE v.ok /\ kind \notin {"int32", "bool"} /\ v.value < 0
  <2>1. FieldRead(m, f, kind, b, inner) = Failed(m)
    <3> HIDE DEF v
    <3> QED BY <1>8 DEF FieldRead, v
  <2> QED BY <1>4, <2>1
<1>9. CASE v.ok /\ kind \notin {"int32", "bool"} /\ ~(v.value < 0)
  <2>1. \E x, right : FieldRead(m, f, kind, b, inner) = Taken(m, f, x, right, rest)
    <3> HIDE DEF v
    <3> QED BY <1>9 DEF FieldRead, v
  <2>2. Len(rest) < Len(b) /\ rest \in Seq(Bytes)
    <3>1. Len(rest) \in Int /\ Len(v.rest) \in Int /\ Len(b) \in Int
      BY <1>1, <1>2, <1>9
    <3> QED
      BY <1>1, <1>2, <1>9, <3>1
  <2> HIDE DEF rest
  <2> QED BY <1>3, <2>1, <2>2
<1> QED
  BY <1>1, <1>5, <1>6, <1>7, <1>8, <1>9

\* So does skipping one.
LEMMA SkippedFollows ==
  ASSUME NEW tag \in Int, NEW b \in Seq(Bytes), Skipped(tag, b).ok
  PROVE  Skipped(tag, b).rest \in Seq(Bytes) /\ Len(Skipped(tag, b).rest) <= Len(b)
<1> DEFINE v == ReadVarint(b)
<1>1. /\ v.ok \in BOOLEAN /\ v.rest \in Seq(Bytes) /\ v.value \in Int
      /\ Len(v.rest) <= Len(b)
  BY ReadVarintIs
<1>2. ASSUME NEW a \in Seq(Bytes), NEW n \in Int, n >= 1
      PROVE  From(a, n) \in Seq(Bytes) /\ Len(From(a, n)) <= Len(a)
  <2>1. From(a, n) \in Seq(Bytes) /\ Len(From(a, n)) = IF n <= Len(a) THEN Len(a) - n + 1 ELSE 0
    BY <1>2, FromIsBytes
  <2>2. Len(a) \in Nat
    OBVIOUS
  <2> QED BY <1>2, <2>1, <2>2
<1> HIDE DEF v
<1>3. CASE tag % 8 = 0
  <2>1. Skipped(tag, b) = [ok |-> v.ok, rest |-> v.rest]
    BY <1>3 DEF Skipped, v
  <2> QED BY <1>1, <2>1
<1>4. CASE tag % 8 = 1
  <2>1. Skipped(tag, b) = [ok |-> Len(b) >= 8, rest |-> From(b, 8 + 1)]
    BY <1>4 DEF Skipped
  <2>2. From(b, 8 + 1) \in Seq(Bytes) /\ Len(From(b, 8 + 1)) <= Len(b)
    BY <1>2
  <2> QED BY <2>1, <2>2
<1>5. CASE tag % 8 = 2
  <2>1. Skipped(tag, b) = [ok |-> v.ok /\ v.value \in 0..Len(v.rest), rest |-> From(v.rest, v.value + 1)]
    BY <1>5 DEF Skipped, v
  <2>2. v.value \in 0..Len(v.rest)
    <3> DEFINE right == v.ok /\ v.value \in 0..Len(v.rest)
               rest == From(v.rest, v.value + 1)
    <3>1. Skipped(tag, b) = [ok |-> right, rest |-> rest]
      BY <2>1, Zenon
    <3> HIDE DEF right, rest
    <3>2. right
      BY <3>1
    <3> QED
      BY <3>2 DEF right
  <2>3. v.value + 1 \in Int /\ v.value + 1 >= 1
    BY <1>1, <2>2
  <2>4. From(v.rest, v.value + 1) \in Seq(Bytes) /\ Len(From(v.rest, v.value + 1)) <= Len(v.rest)
    BY <1>1, <1>2, <2>3
  <2>5. Len(From(v.rest, v.value + 1)) \in Nat /\ Len(v.rest) \in Nat /\ Len(b) \in Nat
    BY <1>1, <2>4
  <2> QED BY <1>1, <2>1, <2>4, <2>5
<1>6. CASE tag % 8 = 5
  <2>1. Skipped(tag, b) = [ok |-> Len(b) >= 4, rest |-> From(b, 4 + 1)]
    BY <1>6 DEF Skipped
  <2>2. From(b, 4 + 1) \in Seq(Bytes) /\ Len(From(b, 4 + 1)) <= Len(b)
    BY <1>2
  <2> QED BY <2>1, <2>2
<1>7. CASE tag % 8 \notin {0, 1, 2, 5}
  <2>1. Skipped(tag, b) = [ok |-> FALSE, rest |-> b]
    BY <1>7 DEF Skipped
  <2> QED BY <2>1
<1> QED
  BY <1>3, <1>4, <1>5, <1>6, <1>7

\* A round of the parser ends, fails, or takes bytes away.
LEMMA RoundFollows ==
  ASSUME NEW name, NEW m, NEW inner, NEW b \in Seq(Bytes)
  PROVE  Follows(RoundOf(name, Reading(m, b), inner), b)
<1> DEFINE s == Reading(m, b)
           t == ReadVarint(s.rest)
           known == {r \in ToSet(Reads[name]) : r[1] = t.value}
           other == Skipped(t.value, t.rest)
<1>1. s.rest = b /\ s.msg = m /\ s.status = "reading"
  BY DEF Reading
<1> HIDE DEF s
<1>2. t.ok \in BOOLEAN /\ t.rest \in Seq(Bytes) /\ t.value \in Int /\ (t.ok => Len(t.rest) < Len(b))
  BY <1>1, ReadVarintIs
<1> HIDE DEF t
<1>3. CASE ~t.ok \/ t.value = 0 \/ t.value % 8 = 4
  <2>1. RoundOf(name, s, inner) = Ended(s.msg, s.rest)
    BY <1>1, <1>3 DEF RoundOf, t
  <2> QED BY <2>1, StatusOf DEF Follows, s
<1>4. CASE ~(~t.ok \/ t.value = 0 \/ t.value % 8 = 4) /\ known # {}
  <2>1. \E f, kind : RoundOf(name, s, inner) = FieldRead(s.msg, f, kind, t.rest, inner)
    BY <1>1, <1>4 DEF RoundOf, t
  <2>2. PICK f, kind : RoundOf(name, s, inner) = FieldRead(s.msg, f, kind, t.rest, inner)
    BY <2>1
  <2>3. Follows(RoundOf(name, s, inner), t.rest)
    BY <1>2, <2>2, FieldReadFollows
  <2>4. t.ok /\ Len(t.rest) < Len(b) /\ Len(t.rest) \in Int /\ Len(b) \in Int
    BY <1>2, <1>4
  <2> DEFINE r == RoundOf(name, s, inner)
  <2> HIDE DEF r
  <2>5. r.status = "reading" => Len(r.rest) \in Int
    BY <2>3 DEF Follows, r
  <2> QED BY <2>3, <2>4, <2>5 DEF Follows, r, s
<1>5. CASE ~(~t.ok \/ t.value = 0 \/ t.value % 8 = 4) /\ known = {}
  <2>1. RoundOf(name, s, inner) = IF other.ok THEN Reading(s.msg, other.rest) ELSE Failed(s.msg)
    BY <1>1, <1>5 DEF RoundOf, t
  <2>2. CASE other.ok
    <3>1. other.rest \in Seq(Bytes) /\ Len(other.rest) <= Len(t.rest)
      BY <1>2, <2>2, SkippedFollows
    <3>2. t.ok /\ Len(t.rest) < Len(b) /\ Len(t.rest) \in Int /\ Len(b) \in Int /\ Len(other.rest) \in Int
      BY <1>2, <1>5, <3>1
    <3>3. Len(other.rest) < Len(b)
      BY <3>1, <3>2
    <3> HIDE DEF other
    <3> QED BY <2>1, <2>2, <3>1, <3>3, StatusOf DEF Follows, s
  <2>3. CASE ~other.ok
    BY <2>1, <2>3, StatusOf DEF Follows, s
  <2> QED BY <2>2, <2>3
<1> QED
  BY <1>3, <1>4, <1>5

\* A loop that is over stays so.
LEMMA RoundOver ==
  ASSUME NEW name, NEW s, NEW inner, s.status # "reading"
  PROVE  RoundOf(name, s, inner) = s
BY DEF RoundOf

-----------------------------------------------------------------------------
(* The parser's loop. *)

\* f is what the parser's loop goes through, from m and the bytes b on.
Loop(f, name, m, b) ==
  f = [k \in 0..(Len(b) + 1) |-> IF k = 0 THEN Reading(m, b) ELSE Round(name, f[k - 1])]

\* The parser's loop can be followed from any message and any bytes on.
LEMMA LoopExists ==
  ASSUME NEW name, NEW m, NEW b \in Seq(Bytes)
  PROVE  \E f : Loop(f, name, m, b)
<1> DEFINE Def(f, n) == f = [k \in 0..n |-> IF k = 0 THEN Reading(m, b) ELSE Round(name, f[k - 1])]
           S == {n \in Nat : \E f : Def(f, n)}
<1>1. 0 \in S
  <2> DEFINE f == [k \in 0..0 |-> Reading(m, b)]
  <2>1. f = [k \in 0..0 |-> IF k = 0 THEN Reading(m, b) ELSE Round(name, f[k - 1])]
    OBVIOUS
  <2>2. \E h : Def(h, 0)
    BY <2>1
  <2> QED
    BY <2>2
<1>2. ASSUME NEW n \in Nat, n \in S
      PROVE  n + 1 \in S
  <2>1. PICK f : Def(f, n)
    BY <1>2
  <2> DEFINE g == [k \in 0..(n + 1) |-> IF k = n + 1 THEN Round(name, f[n]) ELSE f[k]]
  <2>2. ASSUME NEW k \in 0..(n + 1)
        PROVE  g[k] = IF k = 0 THEN Reading(m, b) ELSE Round(name, g[k - 1])
    <3>1. CASE k = n + 1
      <4>1. g[k] = Round(name, f[n]) /\ g[n] = f[n] /\ k - 1 = n /\ k # 0
        BY <3>1
      <4> QED
        BY <4>1
    <3>2. CASE k # n + 1
      <4>1. k \in 0..n /\ g[k] = f[k]
        BY <3>2
      <4>2. f[k] = IF k = 0 THEN Reading(m, b) ELSE Round(name, f[k - 1])
        BY <2>1, <4>1
      <4>3. k # 0 => k - 1 \in 0..(n + 1) /\ k - 1 # n + 1 /\ g[k - 1] = f[k - 1]
        BY <4>1
      <4> QED
        BY <4>1, <4>2, <4>3
    <3> QED
      BY <3>1, <3>2
  <2>3. g = [k \in 0..(n + 1) |-> IF k = 0 THEN Reading(m, b) ELSE Round(name, g[k - 1])]
    BY <2>2
  <2>4. \E h : Def(h, n + 1)
    BY <2>3
  <2> QED
    BY <2>4
<1> HIDE DEF S
<1>3. Len(b) + 1 \in S
  BY <1>1, <1>2, Induction
<1> QED
  BY <1>3 DEF S, Loop

\* There is one way to follow it.
LEMMA LoopUnique ==
  ASSUME NEW name, NEW m, NEW b \in Seq(Bytes),
         NEW f, Loop(f, name, m, b), NEW g, Loop(g, name, m, b)
  PROVE  f = g
<1> DEFINE n == Len(b) + 1
           S == {k \in Nat : k <= n => f[k] = g[k]}
<1>1. n \in Nat
  OBVIOUS
<1>2. \A k \in 0..n : /\ f[k] = IF k = 0 THEN Reading(m, b) ELSE Round(name, f[k - 1])
                      /\ g[k] = IF k = 0 THEN Reading(m, b) ELSE Round(name, g[k - 1])
  BY DEF Loop
<1>2a. f = [k \in 0..n |-> f[k]] /\ g = [k \in 0..n |-> g[k]]
  BY DEF Loop
<1> HIDE DEF n
<1>3. 0 \in S
  BY <1>1, <1>2
<1>4. ASSUME NEW k \in Nat, k \in S
      PROVE  k + 1 \in S
  <2>1. CASE k + 1 <= n
    <3>1. f[k] = g[k] /\ k + 1 \in 0..n /\ k + 1 # 0 /\ (k + 1) - 1 = k
      BY <1>1, <1>4, <2>1
    <3> QED
      BY <1>2, <3>1
  <2>2. CASE ~(k + 1 <= n)
    BY <2>2
  <2> QED
    BY <2>1, <2>2
<1> HIDE DEF S
<1>5. \A k \in Nat : k \in S
  BY <1>3, <1>4, Induction
<1>6. \A k \in 0..n : f[k] = g[k]
  BY <1>1, <1>5 DEF S
<1> QED
  BY <1>2a, <1>6

\* What the loop ends in is what the parser returns.
LEMMA ParsedIs ==
  ASSUME NEW name, NEW m, NEW b \in Seq(Bytes), NEW f, Loop(f, name, m, b)
  PROVE  Parsed(name, m, b) = f[CHOOSE k \in 0..(Len(b) + 1) : f[k].status # "reading"]
<1> DEFINE g == CHOOSE g : g = [k \in 0..(Len(b) + 1) |->
                    IF k = 0 THEN Reading(m, b) ELSE Round(name, g[k - 1])]
<1>1. Parsed(name, m, b) = g[CHOOSE k \in 0..(Len(b) + 1) : g[k].status # "reading"]
  BY DEF Parsed
<1>2. \E h : h = [k \in 0..(Len(b) + 1) |-> IF k = 0 THEN Reading(m, b) ELSE Round(name, h[k - 1])]
  BY DEF Loop
<1>3. Loop(g, name, m, b)
  BY <1>2 DEF Loop
<1> HIDE DEF g
<1>4. f = g
  BY <1>3, LoopUnique
<1> QED
  BY <1>1, <1>4

\* Where the loop is after k rounds from b.
At(s, k, b) ==
  \/ s.status = "reading" /\ s = Reading(s.msg, s.rest)
     /\ s.rest \in Seq(Bytes) /\ Len(s.rest) + k <= Len(b)
  \/ s.status \in {"ended", "failed"}

\* It starts with all the bytes.
LEMMA LoopStart ==
  ASSUME NEW name, NEW m, NEW b \in Seq(Bytes), NEW f, Loop(f, name, m, b)
  PROVE  f[0] = Reading(m, b)
<1> 0 \in 0..(Len(b) + 1)
  OBVIOUS
<1> QED
  BY DEF Loop

\* It goes on with a round.
LEMMA LoopStep ==
  ASSUME NEW name, NEW m, NEW b \in Seq(Bytes), NEW f, Loop(f, name, m, b)
  PROVE  \A k \in 0..Len(b) : f[k + 1] = Round(name, f[k])
<1> TAKE k \in 0..Len(b)
<1> k + 1 \in 0..(Len(b) + 1) /\ k + 1 # 0 /\ (k + 1) - 1 = k
  OBVIOUS
<1> QED
  BY DEF Loop

\* It reads less and less.
LEMMA LoopIsAt ==
  ASSUME NEW name, NEW m, NEW b \in Seq(Bytes), NEW f, Loop(f, name, m, b)
  PROVE  \A k \in 0..(Len(b) + 1) : At(f[k], k, b)
<1> DEFINE n == Len(b) + 1
           S == {k \in Nat : k <= n => At(f[k], k, b)}
<1>1. n \in Nat /\ Len(b) \in Nat
  OBVIOUS
<1>4. 0 \in S
  <2>1. f[0] = Reading(m, b) /\ Len(b) + 0 <= Len(b)
    BY <1>1, LoopStart
  <2> QED
    BY <2>1, StatusOf DEF At
<1>5. ASSUME NEW k \in Nat, k \in S
      PROVE  k + 1 \in S
  <2>1. CASE k + 1 <= n
    <3>1. At(f[k], k, b) /\ k \in 0..Len(b)
      BY <1>1, <1>5, <2>1
    <3>2. f[k + 1] = Round(name, f[k])
      BY <3>1, LoopStep
    <3>3. CASE f[k].status = "reading"
      <4> DEFINE mk == f[k].msg
                 bk == f[k].rest
                 s == f[k + 1]
      <4>1. f[k] = Reading(mk, bk) /\ bk \in Seq(Bytes) /\ Len(bk) + k <= Len(b)
        BY <3>1, <3>3 DEF At
      <4>2. \E inner : s = RoundOf(name, f[k], inner)
        BY <3>2 DEF Round
      <4> HIDE DEF mk, bk
      <4>3. Follows(s, bk)
        BY <4>1, <4>2, RoundFollows
      <4> HIDE DEF s
      <4>4. Len(bk) \in Nat
        BY <4>1
      <4>5. ASSUME s.status = "reading"
            PROVE  At(s, k + 1, b)
        <5>1. s.rest \in Seq(Bytes) /\ Len(s.rest) < Len(bk) /\ s = Reading(s.msg, s.rest)
          BY <4>3, <4>5 DEF Follows
        <5>2. Len(s.rest) \in Nat
          BY <5>1
        <5>3. \A x, y, z, w \in Nat : x < y /\ y + z <= w => x + (z + 1) <= w
          OBVIOUS
        <5>4. Len(s.rest) + (k + 1) <= Len(b)
          BY <1>1, <4>1, <4>4, <5>1, <5>2, <5>3, Zenon
        <5> QED
          BY <4>5, <5>1, <5>4 DEF At
      <4>6. At(s, k + 1, b)
        BY <4>3, <4>5, Zenon DEF Follows, At
      <4> QED
        BY <4>6 DEF s
    <3>4. CASE f[k].status # "reading"
      <4>1. f[k + 1] = f[k]
        BY <3>2, <3>4, RoundOver DEF Round
      <4>2. f[k].status \in {"ended", "failed"}
        BY <3>1, <3>4 DEF At
      <4> QED
        BY <4>1, <4>2 DEF At
    <3> QED
      BY <3>3, <3>4
  <2>2. CASE ~(k + 1 <= n)
    BY <2>2
  <2> QED
    BY <2>1, <2>2
<1> HIDE DEF S
<1>6. \A k \in Nat : k \in S
  BY <1>4, <1>5, Induction
<1> QED
  BY <1>1, <1>6 DEF S

\* It has ended when there has been a round for every byte, and one more.
LEMMA LoopEnds ==
  ASSUME NEW name, NEW m, NEW b \in Seq(Bytes), NEW f, Loop(f, name, m, b)
  PROVE  f[Len(b) + 1].status \in {"ended", "failed"}
<1> DEFINE n == Len(b) + 1
           s == f[n]
<1>1. n \in 0..n /\ Len(b) \in Nat
  OBVIOUS
<1>2. At(s, n, b)
  BY <1>1, LoopIsAt
<1> HIDE DEF s
<1>3. ASSUME s.rest \in Seq(Bytes), Len(s.rest) + n <= Len(b)
      PROVE  FALSE
  <2>1. Len(s.rest) \in Nat
    BY <1>3
  <2>2. \A x \in Nat, y \in Nat : ~(x + (y + 1) <= y)
    OBVIOUS
  <2> QED
    BY <1>1, <1>3, <2>1, <2>2, Zenon
<1>4. s.status \in {"ended", "failed"}
  BY <1>2, <1>3, Zenon DEF At
<1> QED
  BY <1>4 DEF s

\* It stays where it has ended.
LEMMA LoopStays ==
  ASSUME NEW name, NEW m, NEW b \in Seq(Bytes), NEW f, Loop(f, name, m, b),
         NEW k \in 0..(Len(b) + 1), f[k].status # "reading"
  PROVE  f[Len(b) + 1] = f[k]
<1> DEFINE n == Len(b) + 1
           T == {j \in Nat : k + j <= n => f[k + j] = f[k]}
<1>1. n \in Nat /\ Len(b) \in Nat
  OBVIOUS
<1>2. 0 \in T
  <2>1. k + 0 = k
    BY <1>1
  <2> QED
    BY <2>1
<1>3. ASSUME NEW j \in Nat, j \in T
      PROVE  j + 1 \in T
  <2>1. CASE k + (j + 1) <= n
    <3>1. f[k + j] = f[k] /\ k + j \in 0..Len(b) /\ k + (j + 1) = (k + j) + 1
      BY <1>1, <1>3, <2>1
    <3>2. f[k + (j + 1)] = Round(name, f[k])
      <4>1. f[(k + j) + 1] = Round(name, f[k + j])
        BY <3>1, LoopStep
      <4> QED
        BY <3>1, <4>1
    <3>3. Round(name, f[k]) = f[k]
      BY RoundOver DEF Round
    <3> QED
      BY <3>2, <3>3
  <2>2. CASE ~(k + (j + 1) <= n)
    BY <2>2
  <2> QED
    BY <2>1, <2>2
<1> HIDE DEF T
<1>4. n - k \in Nat /\ k + (n - k) = n
  BY <1>1
<1>5. n - k \in T
  BY <1>2, <1>3, <1>4, Induction
<1>6. n - k \in T => (k + (n - k) <= n => f[k + (n - k)] = f[k])
  BY DEF T
<1> QED
  BY <1>1, <1>4, <1>5, <1>6

\* Parsed is what it ends with.
LEMMA ParsedIsLast ==
  ASSUME NEW name, NEW m, NEW b \in Seq(Bytes), NEW f, Loop(f, name, m, b)
  PROVE  Parsed(name, m, b) = f[Len(b) + 1]
<1> DEFINE K == CHOOSE k \in 0..(Len(b) + 1) : f[k].status # "reading"
<1>1. Len(b) + 1 \in 0..(Len(b) + 1) /\ f[Len(b) + 1].status # "reading"
  <2>1. Len(b) + 1 \in 0..(Len(b) + 1)
    OBVIOUS
  <2>2. f[Len(b) + 1].status \in {"ended", "failed"}
    BY LoopEnds
  <2> QED
    BY <2>1, <2>2
<1>2. K \in 0..(Len(b) + 1) /\ f[K].status # "reading"
  BY <1>1
<1>3. Parsed(name, m, b) = f[K]
  BY ParsedIs
<1> HIDE DEF K
<1> QED
  BY <1>2, <1>3, LoopStays

\* The parser goes on from where its first round leaves off.
LEMMA ParsedUnfolds ==
  ASSUME NEW name, NEW m, NEW b \in Seq(Bytes)
  PROVE  LET s == Round(name, Reading(m, b))
         IN /\ s.status # "reading" => Parsed(name, m, b) = s
            /\ s.status = "reading" => Parsed(name, m, b) = Parsed(name, s.msg, s.rest)
<1> DEFINE s == Round(name, Reading(m, b))
<1>1. PICK f : Loop(f, name, m, b)
  BY LoopExists
<1>2. Parsed(name, m, b) = f[Len(b) + 1]
  BY <1>1, ParsedIsLast
<1>3. Len(b) \in Nat /\ f[1] = s /\ 1 \in 0..(Len(b) + 1)
  <2>1. Len(b) \in Nat /\ 0 \in 0..Len(b) /\ 0 + 1 = 1 /\ 1 \in 0..(Len(b) + 1)
    OBVIOUS
  <2>2. f[0] = Reading(m, b) /\ f[0 + 1] = Round(name, f[0])
    BY <1>1, <2>1, LoopStart, LoopStep
  <2> QED
    BY <2>1, <2>2
<1> HIDE DEF s
<1>4. ASSUME s.status # "reading"
      PROVE  Parsed(name, m, b) = s
  <2>1. f[Len(b) + 1] = f[1]
    <3>1. f[1].status # "reading"
      BY <1>3, <1>4
    <3> QED
      <4>1. \A k \in 0..(Len(b) + 1) : f[k].status # "reading" => f[Len(b) + 1] = f[k]
        BY <1>1, LoopStays
      <4> QED
        BY <1>3, <3>1, <4>1
  <2> QED
    BY <1>2, <1>3, <2>1
<1>5. ASSUME s.status = "reading"
      PROVE  Parsed(name, m, b) = Parsed(name, s.msg, s.rest)
  <2>1. s = Reading(s.msg, s.rest) /\ s.rest \in Seq(Bytes) /\ Len(s.rest) + 1 <= Len(b)
    BY <1>1, <1>3, <1>5, LoopIsAt DEF At
  <2>2. PICK g : Loop(g, name, s.msg, s.rest)
    BY <2>1, LoopExists
  <2> DEFINE c == s.rest
             n == Len(c) + 1
             S == {k \in Nat : k <= n => f[k + 1] = g[k]}
  <2>3. c \in Seq(Bytes) /\ Len(c) \in Nat /\ n + 1 \in 0..(Len(b) + 1) /\ n \in Nat
    BY <1>3, <2>1
  <2>4. /\ g[0] = s /\ (\A k \in 0..Len(c) : g[k + 1] = Round(name, g[k]))
        /\ g[n].status \in {"ended", "failed"}
    BY <2>1, <2>2, LoopStart, LoopStep, LoopEnds DEF c
  <2>5. \A k \in 0..Len(b) : f[k + 1] = Round(name, f[k])
    BY <1>1, LoopStep
  <2> HIDE DEF c
  <2>6. 0 \in S
    BY <1>3, <2>4
  <2>7. ASSUME NEW k \in Nat, k \in S
        PROVE  k + 1 \in S
    <3>1. CASE k + 1 <= n
      <4>1. f[k + 1] = g[k] /\ k \in 0..Len(c) /\ k + 1 \in 0..Len(b)
        BY <1>3, <2>3, <2>7, <3>1
      <4> QED
        BY <2>4, <2>5, <4>1
    <3>2. CASE ~(k + 1 <= n)
      BY <3>2
    <3> QED
      BY <3>1, <3>2
  <2> HIDE DEF S
  <2>8. n \in S
    BY <2>3, <2>6, <2>7, Induction
  <2>9. f[n + 1] = g[n]
    BY <2>3, <2>8 DEF S
  <2>10. f[Len(b) + 1] = f[n + 1]
    <3>1. f[n + 1].status # "reading"
      BY <2>4, <2>9
    <3> HIDE DEF n
    <3> QED
      BY <1>1, <2>3, <3>1, LoopStays
  <2>11. Parsed(name, s.msg, s.rest) = g[n]
    BY <2>1, <2>2, ParsedIsLast DEF c
  <2> QED
    BY <1>2, <2>9, <2>10, <2>11
<1> QED
  BY <1>4, <1>5 DEF s

-----------------------------------------------------------------------------
(* Values. *)

\* F is what has been joined of n sequences, after each of them.
Joins(F, S, n, seqs) ==
  /\ F[0] = <<>> /\ FlattenSeq(seqs) = F[n]
  /\ \A k \in 0..n : F[k] \in Seq(S)
  /\ \A k \in 0..(n - 1) : F[k + 1] = F[k] \o seqs[k + 1]

\* FlattenSeq joins the sequences one after the other.
LEMMA Joined ==
  ASSUME NEW S, NEW n \in Nat, NEW seqs \in [1..n -> Seq(S)]
  PROVE  \E F : Joins(F, S, n, seqs)
<1>1. Len(seqs) = n
  OBVIOUS
<1>2. CASE n = 0
  <2>1. FlattenSeq(seqs) = seqs
    BY <1>1, <1>2 DEF FlattenSeq
  <2>2. seqs = <<>>
    BY <1>2
  <2> DEFINE F == [k \in 0..0 |-> <<>>]
  <2>3. F[0] = <<>> /\ FlattenSeq(seqs) = F[n] /\ (\A k \in 0..n : F[k] \in Seq(S)) /\ 0..(n - 1) = {}
    BY <1>2, <2>1, <2>2
  <2>4. Joins(F, S, n, seqs)
    BY <1>2, <2>3 DEF Joins
  <2> QED
    BY <2>4
<1>3. CASE n # 0
  <2> DEFINE Def(f, j) == f = [i \in 1..j |-> IF i = 1 THEN seqs[i] ELSE f[i - 1] \o seqs[i]]
             T == {j \in Nat : j = 0 \/ \E f : Def(f, j)}
  <2>1. 0 \in T
    OBVIOUS
  <2>2. ASSUME NEW j \in Nat, j \in T
        PROVE  j + 1 \in T
    <3>1. PICK f : j = 0 \/ Def(f, j)
      BY <2>2
    <3> DEFINE g == [i \in 1..(j + 1) |->
                       IF i = 1 THEN seqs[1] ELSE IF i = j + 1 THEN f[j] \o seqs[j + 1] ELSE f[i]]
    <3>2. j # 0 => f[1] = seqs[1]
      <4>1. SUFFICES ASSUME j # 0 PROVE f[1] = seqs[1]
        OBVIOUS
      <4>2. 1 \in 1..j
        BY <4>1
      <4>3. Def(f, j)
        BY <3>1, <4>1, Zenon
      <4> QED
        BY <4>2, <4>3
    <3>3. ASSUME NEW i \in 1..(j + 1)
          PROVE  g[i] = IF i = 1 THEN seqs[i] ELSE g[i - 1] \o seqs[i]
      <4>1. CASE i = 1
        BY <4>1
      <4>2. CASE i # 1 /\ i = j + 1
        <5>1. j # 0 /\ i - 1 = j /\ j \in 1..(j + 1) /\ j # j + 1
          BY <4>2
        <5>2. g[i] = f[j] \o seqs[j + 1] /\ g[j] = f[j]
          BY <3>2, <4>2, <5>1
        <5> QED
          BY <4>2, <5>1, <5>2
      <4>3. CASE i # 1 /\ i # j + 1
        <5>1. i \in 1..j /\ j # 0 /\ g[i] = f[i]
          BY <4>3
        <5>2. f[i] = f[i - 1] \o seqs[i]
          BY <3>1, <4>3, <5>1
        <5>3. i - 1 \in 1..(j + 1) /\ i - 1 # j + 1 /\ g[i - 1] = f[i - 1]
          BY <3>2, <4>3, <5>1
        <5> QED
          BY <4>3, <5>1, <5>2, <5>3
      <4> QED
        BY <4>1, <4>2, <4>3
    <3>4. g = [i \in 1..(j + 1) |-> IF i = 1 THEN seqs[i] ELSE g[i - 1] \o seqs[i]]
      BY <3>3
    <3>5. \E h : Def(h, j + 1)
      BY <3>4
    <3> HIDE DEF Def
    <3> QED
      BY <3>5
  <2> HIDE DEF T
  <2>3. n \in T
    BY <2>1, <2>2, Induction
  <2>4. \E f : Def(f, n)
    BY <1>3, <2>3 DEF T
  <2> DEFINE flatten == CHOOSE f : f = [i \in 1..n |-> IF i = 1 THEN seqs[i] ELSE f[i - 1] \o seqs[i]]
  <2>5. FlattenSeq(seqs) = flatten[n]
    BY <1>1, <1>3 DEF FlattenSeq
  <2>6. Def(flatten, n)
    BY <2>4
  <2> HIDE DEF flatten
  <2>7. \A i \in 1..n : flatten[i] = IF i = 1 THEN seqs[i] ELSE flatten[i - 1] \o seqs[i]
    BY <2>6
  <2> DEFINE F == [k \in 0..n |-> IF k = 0 THEN <<>> ELSE flatten[k]]
  <2>8. F[0] = <<>> /\ FlattenSeq(seqs) = F[n] /\ \A k \in 1..n : F[k] = flatten[k]
    BY <1>3, <2>5
  <2> HIDE DEF F
  <2>9. \A k \in 0..(n - 1) : F[k + 1] = F[k] \o seqs[k + 1]
    <3> TAKE k \in 0..(n - 1)
    <3>1. k + 1 \in 1..n /\ (k + 1) - 1 = k
      OBVIOUS
    <3>2. CASE k = 0
      <4>1. seqs[1] \in Seq(S)
        BY <3>1, <3>2
      <4>2. <<>> \o seqs[1] = seqs[1]
        BY <4>1, ConcatEmptySeq
      <4>3. F[1] = seqs[1]
        BY <2>7, <2>8, <3>1, <3>2
      <4> QED
        BY <2>8, <3>2, <4>2, <4>3
    <3>3. CASE k # 0
      <4>1. k \in 1..n /\ k + 1 # 1
        BY <3>1, <3>3
      <4> QED
        BY <2>7, <2>8, <3>1, <4>1
    <3> QED
      BY <3>2, <3>3
  <2> DEFINE U == {k \in Nat : k <= n => F[k] \in Seq(S)}
  <2>10. 0 \in U
    <3>1. <<>> \in Seq(S)
      OBVIOUS
    <3> QED
      BY <2>8, <3>1
  <2>11. ASSUME NEW k \in Nat, k \in U
         PROVE  k + 1 \in U
    <3>1. CASE k + 1 <= n
      <4>1. k \in 0..(n - 1) /\ F[k] \in Seq(S) /\ seqs[k + 1] \in Seq(S)
        BY <2>11, <3>1
      <4>2. F[k + 1] = F[k] \o seqs[k + 1]
        BY <2>9, <4>1
      <4>3. F[k + 1] \in Seq(S)
        BY <4>1, <4>2, ConcatProperties
      <4> QED
        BY <4>3
    <3>2. CASE ~(k + 1 <= n)
      BY <3>2
    <3> QED
      BY <3>1, <3>2
  <2> HIDE DEF U
  <2>12. \A k \in Nat : k \in U
    BY <2>10, <2>11, Induction
  <2>13. \A k \in 0..n : F[k] \in Seq(S)
    BY <2>12 DEF U
  <2>14. Joins(F, S, n, seqs)
    BY <2>8, <2>9, <2>13 DEF Joins
  <2> QED
    BY <2>14
<1> QED
  BY <1>2, <1>3

-----------------------------------------------------------------------------
\* A text the library takes, and a value of a field of the kind that is no message.
Texts == {t \in Seq(Bytes) : Len(t) <= 2147483647}
IsPlain(kind, v) ==
  /\ kind = "int32" => v \in Int32s
  /\ kind = "bool" => v \in BOOLEAN
  /\ kind \in {"string", "bytes"} => v \in Texts

\* The values that are not written.
LEMMA DefaultIs ==
  /\ Default("int32") = 0 /\ Default("bool") = FALSE
  /\ Default("string") = <<>> /\ Default("bytes") = <<>> /\ Default("UserInfo") = <<>>
<1>1. "int32" # "bool" /\ "int32" # "string" /\ "int32" # "bytes" /\ "int32" # "UserInfo"
      /\ "bool" # "string" /\ "bool" # "bytes" /\ "bool" # "UserInfo"
  OBVIOUS
<1> QED
  BY <1>1 DEF Default

\* The length of a text is written as an int32.
LEMMA TextLen ==
  ASSUME NEW t \in Texts
  PROVE  t \in Seq(Bytes) /\ Len(t) \in Nat /\ Len(t) \in Int32s
<1>1. t \in Seq(Bytes) /\ Len(t) <= 2147483647
  BY SMT DEF Texts
<1>2. Len(t) \in Nat
  BY <1>1
<1> QED
  BY <1>1, <1>2, SmallInt, SMT

\* A text with its length before it.
LEMMA PrefixedIs ==
  ASSUME NEW t \in Texts
  PROVE  /\ Prefixed(t) \in Seq(Bytes)
         /\ Len(Prefixed(t)) = VarintSize(Len(t)) + Len(t)
         /\ \A b \in Seq(Bytes) :
              Prefixed(t) \o b = Varint(Len(t)) \o (t \o b)
<1>1. t \in Seq(Bytes) /\ Len(t) \in Nat /\ Len(t) \in Int32s
  BY TextLen
<1> DEFINE v == Varint(Len(t))
<1>2. v \in Seq(Bytes) /\ Len(v) = VarintSize(Len(t))
  BY <1>1, VarintIsBytes
<1> HIDE DEF v
<1>3. v \o t \in Seq(Bytes) /\ Len(v \o t) = VarintSize(Len(t)) + Len(t)
  BY <1>1, <1>2, ConcatProperties
<1>4. \A b \in Seq(Bytes) : (v \o t) \o b = v \o (t \o b)
  BY <1>1, <1>2, ConcatAssociative
<1> QED
  BY <1>3, <1>4 DEF Prefixed, v

\* TRUE is written as one byte.
LEMMA OneIs == Varint(1) = <<1>> /\ 1 \in Int32s
<1>1. 1 \in Int32s
  BY SmallInt, SMT
<1>2. VarintSize(1) = 1
  BY TagSize
<1>3. Weight[1] = 1
  BY DEF Weight
<1>4. Group(1, 1) = 1
  BY <1>3, SMT DEF Group
<1>5. Varint(1) = [i \in 1..1 |-> IF i = 10 THEN 1 ELSE Group(1, i) + IF i < 1 THEN 128 ELSE 0]
  BY <1>2 DEF Varint
<1>6. \A i \in 1..1 : (IF i = 10 THEN 1 ELSE Group(1, i) + IF i < 1 THEN 128 ELSE 0) = 1
  BY <1>4
<1> HIDE DEF Varint
<1>7. Varint(1) = [i \in 1..1 |-> 1]
  BY <1>5, <1>6
<1> QED
  BY <1>1, <1>7

\* The bytes of a plain field are as many as the size method says.
LEMMA PlainIs ==
  ASSUME NEW kind \in Kinds \ {"UserInfo"}, NEW v, IsPlain(kind, v), v # Default(kind)
  PROVE  Plain(kind, v) \in Seq(Bytes) /\ Len(Plain(kind, v)) = PlainSize(kind, v)
<1>1. CASE kind = "int32"
  <2>1. v \in Int32s /\ Plain(kind, v) = Varint(v) /\ PlainSize(kind, v) = VarintSize(v)
    BY <1>1 DEF IsPlain, Plain, PlainSize
  <2> QED
    BY <2>1, VarintIsBytes
<1>2. CASE kind = "bool"
  <2>1. Plain(kind, v) = <<1>> /\ PlainSize(kind, v) = 1
    BY <1>2 DEF Plain, PlainSize
  <2>2. 1 \in Bytes
    BY DEF Bytes
  <2> QED
    BY <2>1, <2>2
<1>3. CASE kind \in {"string", "bytes"}
  <2>1. v \in Texts /\ Plain(kind, v) = Prefixed(v) /\ PlainSize(kind, v) = VarintSize(Len(v)) + Len(v)
    BY <1>3 DEF IsPlain, Plain, PlainSize, PrefixedSize
  <2> QED
    BY <2>1, PrefixedIs
<1> QED
  BY <1>1, <1>2, <1>3 DEF Kinds

\* What reading the value v of field f ends in.
PlainTaken(m, f, kind, v, b) ==
  IF kind = "string" => Utf8(v) THEN Reading([m EXCEPT ![f] = v], b)
                                ELSE Failed([m EXCEPT ![f] = v])

\* A plain field is read as it was written, unless it is a text that is no UTF-8.
LEMMA PlainIsRead ==
  ASSUME NEW kind \in Kinds \ {"UserInfo"}, NEW v, IsPlain(kind, v), v # Default(kind),
         NEW m, NEW f, NEW b \in Seq(Bytes), NEW inner
  PROVE  FieldRead(m, f, kind, Plain(kind, v) \o b, inner) =
           PlainTaken(m, f, kind, v, b)
<1> SUFFICES FieldRead(m, f, kind, Plain(kind, v) \o b, inner) =
           IF kind = "string" => Utf8(v) THEN Reading([m EXCEPT ![f] = v], b)
                                         ELSE Failed([m EXCEPT ![f] = v])
  BY DEF PlainTaken
<1> DEFINE bytes == Plain(kind, v) \o b
           t == ReadVarint(bytes)
<1>1. CASE kind = "int32"
  <2>1. v \in Int32s /\ Plain(kind, v) = Varint(v)
    BY <1>1 DEF IsPlain, Plain
  <2>2. t = [ok |-> TRUE, value |-> v, rest |-> b]
    BY <2>1, VarintIsRead
  <2> HIDE DEF bytes
  <2>3. t.ok /\ t.value = v /\ t.rest = b
    BY <2>2
  <2>4. FieldRead(m, f, kind, bytes, inner) = Taken(m, f, t.value, TRUE, t.rest)
    <3> HIDE DEF t
    <3> QED BY <1>1, <2>3 DEF FieldRead, t
  <2> QED
    BY <1>1, <2>3, <2>4 DEF Taken, bytes
<1>2. CASE kind = "bool"
  <2>1. v = TRUE /\ bytes = Varint(1) \o b /\ 1 \in Int32s
    BY <1>2, OneIs, DefaultIs DEF IsPlain, Plain
  <2>2. t = [ok |-> TRUE, value |-> 1, rest |-> b]
    BY <2>1, VarintIsRead
  <2> HIDE DEF bytes
  <2>3. t.ok /\ t.value = 1 /\ t.rest = b
    BY <2>2
  <2>4. FieldRead(m, f, kind, bytes, inner) = Taken(m, f, t.value # 0, TRUE, t.rest)
    <3> HIDE DEF t
    <3> QED BY <1>2, <2>3 DEF FieldRead, t
  <2>5. (t.value # 0) = v
    <3>1. t.value # 0
      BY <2>3
    <3> QED
      BY <2>1, <3>1, Zenon
  <2> QED
    BY <1>2, <2>3, <2>4, <2>5 DEF Taken, bytes
<1>3. CASE kind \in {"string", "bytes"}
  <2>1. v \in Texts /\ bytes = Varint(Len(v)) \o (v \o b)
    BY <1>3, PrefixedIs DEF IsPlain, Plain
  <2>2. v \in Seq(Bytes) /\ Len(v) \in Nat /\ Len(v) \in Int32s /\ v \o b \in Seq(Bytes)
    BY <2>1, TextLen, ConcatProperties
  <2>3. t = [ok |-> TRUE, value |-> Len(v), rest |-> v \o b]
    BY <2>1, <2>2, VarintIsRead
  <2> HIDE DEF bytes
  <2>4. t.ok /\ t.value = Len(v) /\ t.rest = v \o b
    BY <2>3
  <2>5. Take(v \o b, Len(v)) = v /\ From(v \o b, Len(v) + 1) = b
    BY <2>2, Behind
  <2>6. ~(t.value < 0)
    BY <2>2, <2>4
  <2>7. FieldRead(m, f, kind, bytes, inner) =
          Taken(m, f, Take(t.rest, t.value),
                Len(Take(t.rest, t.value)) = t.value /\ (kind = "string" => Utf8(Take(t.rest, t.value))),
                From(t.rest, t.value + 1))
    <3> HIDE DEF t
    <3> QED BY <1>3, <2>4, <2>6 DEF FieldRead, t
  <2>8. FieldRead(m, f, kind, bytes, inner) =
          Taken(m, f, v, Len(v) = Len(v) /\ (kind = "string" => Utf8(v)), b)
    BY <2>4, <2>5, <2>7
  <2> QED
    BY <2>8 DEF Taken, bytes
<1> QED
  BY <1>1, <1>2, <1>3 DEF Kinds

\* What the parser makes of a message within another.
InnerTaken(m, f, inner, b) ==
  Taken(m, f, <<inner.msg>>, inner.status = "ended" /\ inner.rest = <<>>, b)

\* A message within the message is what its own parser makes of its bytes.
LEMMA InnerIsRead ==
  ASSUME NEW w \in Texts, NEW m, NEW f, NEW b \in Seq(Bytes), NEW inner
  PROVE  FieldRead(m, f, "UserInfo", Prefixed(w) \o b, inner) =
           InnerTaken(m, f, inner, b)
<1> DEFINE bytes == Prefixed(w) \o b
           t == ReadVarint(bytes)
<1>1. bytes = Varint(Len(w)) \o (w \o b)
  BY PrefixedIs
<1>2. w \in Seq(Bytes) /\ Len(w) \in Nat /\ Len(w) \in Int32s /\ w \o b \in Seq(Bytes)
  BY TextLen, ConcatProperties
<1>3. t = [ok |-> TRUE, value |-> Len(w), rest |-> w \o b]
  BY <1>1, <1>2, VarintIsRead
<1> HIDE DEF bytes
<1>4. t.ok /\ t.value = Len(w) /\ t.rest = w \o b
  BY <1>3
<1>5. From(w \o b, Len(w) + 1) = b
  BY <1>2, Behind
<1>6. ~(t.value < 0)
  BY <1>2, <1>4
<1>7. FieldRead(m, f, "UserInfo", bytes, inner) =
        Taken(m, f, <<inner.msg>>, inner.status = "ended" /\ inner.rest = <<>>, From(t.rest, t.value + 1))
  <2> HIDE DEF t
  <2> QED BY <1>4, <1>6 DEF FieldRead, t
<1> QED
  BY <1>4, <1>5, <1>7 DEF bytes, InnerTaken

\* A message within another is read from the bytes its length says, and no others.
LEMMA InnerIs ==
  ASSUME NEW w \in Texts, NEW tag \in Int32s, NEW v, NEW b \in Seq(Bytes)
  PROVE  InfoRead(v, Varint(tag) \o (Prefixed(w) \o b)) = InfoParsed(InfoIn(v), w)
<1>1. Prefixed(w) \o b = Varint(Len(w)) \o (w \o b) /\ Prefixed(w) \in Seq(Bytes)
  BY PrefixedIs
<1>2. w \in Seq(Bytes) /\ Len(w) \in Nat /\ Len(w) \in Int32s /\ w \o b \in Seq(Bytes)
  BY TextLen, ConcatProperties
<1>3. Prefixed(w) \o b \in Seq(Bytes)
  BY <1>1, ConcatProperties
<1>4. ReadVarint(Varint(tag) \o (Prefixed(w) \o b)).rest = Prefixed(w) \o b
  <2>1. ReadVarint(Varint(tag) \o (Prefixed(w) \o b)) = [ok |-> TRUE, value |-> tag, rest |-> Prefixed(w) \o b]
    BY <1>3, VarintIsRead
  <2> QED
    BY <2>1
<1>5. ReadVarint(Prefixed(w) \o b) = [ok |-> TRUE, value |-> Len(w), rest |-> w \o b]
  BY <1>1, <1>2, VarintIsRead
<1>6. Take(w \o b, Len(w)) = w
  BY <1>2, Behind
<1> QED
  BY <1>4, <1>5, <1>6 DEF InfoRead

-----------------------------------------------------------------------------
(* What is written, and how much. *)

\* Total adds the sizes up one after the other.
LEMMA Summed ==
  ASSUME NEW n \in Nat, NEW sizes \in [1..n -> Nat]
  PROVE  \E F : /\ F[0] = 0 /\ Total(sizes) = F[n]
                /\ \A k \in 0..(n - 1) : F[k + 1] = F[k] + sizes[k + 1]
<1>1. Len(sizes) = n
  OBVIOUS
<1> DEFINE Def(f, j) == f = [k \in 0..j |-> IF k = 0 THEN 0 ELSE f[k - 1] + sizes[k]]
           S == {j \in Nat : \E f : Def(f, j)}
<1>2. 0 \in S
  <2> DEFINE f == [k \in 0..0 |-> 0]
  <2>1. f = [k \in 0..0 |-> IF k = 0 THEN 0 ELSE f[k - 1] + sizes[k]]
    OBVIOUS
  <2>2. \E h : Def(h, 0)
    BY <2>1
  <2> QED
    BY <2>2
<1>3. ASSUME NEW j \in Nat, j \in S
      PROVE  j + 1 \in S
  <2>1. PICK f : Def(f, j)
    BY <1>3
  <2> DEFINE g == [k \in 0..(j + 1) |-> IF k = j + 1 THEN f[j] + sizes[j + 1] ELSE f[k]]
  <2>2. ASSUME NEW k \in 0..(j + 1)
        PROVE  g[k] = IF k = 0 THEN 0 ELSE g[k - 1] + sizes[k]
    <3>1. CASE k = j + 1
      <4>1. k - 1 = j /\ k # 0 /\ j \in 0..(j + 1) /\ j # j + 1
        BY <3>1
      <4>2. g[k] = f[j] + sizes[j + 1] /\ g[j] = f[j]
        BY <3>1, <4>1
      <4> QED
        BY <3>1, <4>1, <4>2
    <3>2. CASE k # j + 1
      <4>1. k \in 0..j /\ g[k] = f[k]
        BY <3>2
      <4>2. f[k] = IF k = 0 THEN 0 ELSE f[k - 1] + sizes[k]
        BY <2>1, <4>1
      <4>3. k # 0 => k - 1 \in 0..(j + 1) /\ k - 1 # j + 1 /\ g[k - 1] = f[k - 1]
        BY <4>1
      <4> QED
        BY <4>1, <4>2, <4>3
    <3> QED
      BY <3>1, <3>2
  <2>3. g = [k \in 0..(j + 1) |-> IF k = 0 THEN 0 ELSE g[k - 1] + sizes[k]]
    BY <2>2
  <2>4. \E h : Def(h, j + 1)
    BY <2>3
  <2> QED
    BY <2>4, SMTT(20)
<1> HIDE DEF S
<1>4. n \in S
  BY <1>2, <1>3, Induction
<1>5. \E f : Def(f, n)
  BY <1>4 DEF S
<1> DEFINE F == CHOOSE f : f = [k \in 0..n |-> IF k = 0 THEN 0 ELSE f[k - 1] + sizes[k]]
<1>6. Total(sizes) = F[n]
  BY <1>1 DEF Total
<1>7. Def(F, n)
  BY <1>5
<1> HIDE DEF F
<1>8. \A k \in 0..n : F[k] = IF k = 0 THEN 0 ELSE F[k - 1] + sizes[k]
  BY <1>7
<1>9. F[0] = 0
  BY <1>8
<1>10. \A k \in 0..(n - 1) : F[k + 1] = F[k] + sizes[k + 1]
  <2> TAKE k \in 0..(n - 1)
  <2>1. k + 1 \in 0..n /\ k + 1 # 0 /\ (k + 1) - 1 = k
    OBVIOUS
  <2> QED
    BY <1>8, <2>1
<1> QED
  BY <1>6, <1>9, <1>10

\* What is joined is as long as its parts are together.
LEMMA JoinedLen ==
  ASSUME NEW S, NEW n \in Nat, NEW seqs \in [1..n -> Seq(S)],
         NEW sizes \in [1..n -> Nat], \A i \in 1..n : sizes[i] = Len(seqs[i])
  PROVE  /\ FlattenSeq(seqs) \in Seq(S)
         /\ Len(FlattenSeq(seqs)) = Total(sizes)
<1>0. PICK F : Joins(F, S, n, seqs)
  BY Joined
<1>1. /\ F[0] = <<>> /\ FlattenSeq(seqs) = F[n]
      /\ \A k \in 0..n : F[k] \in Seq(S)
      /\ \A k \in 0..(n - 1) : F[k + 1] = F[k] \o seqs[k + 1]
  BY <1>0 DEF Joins
<1>2. PICK G : /\ G[0] = 0 /\ Total(sizes) = G[n]
               /\ \A k \in 0..(n - 1) : G[k + 1] = G[k] + sizes[k + 1]
  BY Summed
<1> DEFINE T == {k \in Nat : k <= n => Len(F[k]) = G[k]}
<1>3. 0 \in T
  BY <1>1, <1>2
<1>4. ASSUME NEW k \in Nat, k \in T
      PROVE  k + 1 \in T
  <2>1. CASE k + 1 <= n
    <3>1. k \in 0..(n - 1) /\ k \in 0..n /\ k + 1 \in 1..n /\ Len(F[k]) = G[k]
      BY <1>4, <2>1
    <3>2. F[k + 1] = F[k] \o seqs[k + 1] /\ G[k + 1] = G[k] + sizes[k + 1]
      BY <1>1, <1>2, <3>1
    <3>3. F[k] \in Seq(S) /\ seqs[k + 1] \in Seq(S) /\ sizes[k + 1] = Len(seqs[k + 1])
      BY <1>1, <3>1
    <3>4. Len(F[k + 1]) = Len(F[k]) + Len(seqs[k + 1])
      BY <3>2, <3>3, ConcatProperties
    <3>5. Len(F[k + 1]) = G[k + 1]
      BY <3>1, <3>2, <3>3, <3>4
    <3> QED
      BY <3>5
  <2>2. CASE ~(k + 1 <= n)
    BY <2>2
  <2> QED
    BY <2>1, <2>2
<1> HIDE DEF T
<1>5. n \in T
  BY <1>3, <1>4, Induction
<1>6. Len(F[n]) = G[n]
  BY <1>5 DEF T
<1>7. F[n] \in Seq(S)
  BY <1>1
<1> QED
  BY <1>1, <1>2, <1>6, <1>7

-----------------------------------------------------------------------------
\* A message as the server or a client may have it: the fields have values of their
\* kinds, and a text or a message within it has no more bytes than its length can say.
HasFields(name, m) == m = [f \in FieldsOf(name) |-> m[f]]
IsInfo(u) ==
  /\ HasFields("UserInfo", u)
  /\ \A f \in FieldsOf("UserInfo") : IsPlain(KindOf("UserInfo", f), u[f])
IsInner(v) ==
  v = <<>> \/ \E u : v = <<u>> /\ IsInfo(u) /\ Len(InfoWritten(u, "array")) <= 2147483647
IsValue(kind, v) == IF kind = "UserInfo" THEN IsInner(v) ELSE IsPlain(kind, v)
IsMessage(name, m) ==
  /\ HasFields(name, m)
  /\ \A f \in FieldsOf(name) : IsValue(KindOf(name, f), m[f])

\* The bytes of the i-th field of m, whichever version writes them.
Field(name, m, i) ==
  LET row == Reads[name][i]
  IN IF m[row[2]] = Default(row[3]) THEN <<>>
     ELSE Varint(row[1]) \o FieldBytes(row[3], m[row[2]], "array")
Fields(name, m) == [i \in 1..Len(Reads[name]) |-> Field(name, m, i)]

\* UserInfo is one of the messages.
LEMMA InfoIsName == "UserInfo" \in Names
BY DEF Names, Reads

\* Both writers join the fields, if they write the values alike.
LEMMA RowsWritten ==
  ASSUME NEW name \in Names, NEW m, NEW version \in Versions,
         \A i \in 1..Len(Reads[name]) :
           FieldBytes(Reads[name][i][3], m[Reads[name][i][2]], version)
             = FieldBytes(Reads[name][i][3], m[Reads[name][i][2]], "array")
  PROVE  Written(name, m, version) = FlattenSeq(Fields(name, m))
<1> DEFINE R == Reads[name]
           W == Writes[name][version]
<1>1. TablesAgree(name)
  BY TablesOfMessages
<1>2. Len(W) = Len(R) /\ \A i \in 1..Len(R) :
        /\ W[i][2] = R[i][2] /\ W[i][3] = R[i][3]
        /\ W[i][1] * 8 + WireType(W[i][3]) = R[i][1]
  BY <1>1 DEF TablesAgree, Versions
<1> HIDE DEF W
<1>3. ASSUME NEW i \in 1..Len(R)
      PROVE  Tagged(W[i], m, FieldBytes(W[i][3], m[W[i][2]], version)) = Field(name, m, i)
  BY <1>2 DEF Tagged, Field
<1>4. [i \in 1..Len(W) |-> Tagged(W[i], m, FieldBytes(W[i][3], m[W[i][2]], version))] = Fields(name, m)
  BY <1>2, <1>3 DEF Fields
<1> QED
  BY <1>4 DEF Written, W

\* They do, of a UserInfo.
LEMMA InfoWrittenIs ==
  ASSUME NEW u, NEW version \in Versions
  PROVE  InfoWritten(u, version) = FlattenSeq(Fields("UserInfo", u))
<1> DEFINE R == Reads["UserInfo"]
           W == Writes["UserInfo"][version]
<1>1. TablesAgree("UserInfo")
  BY TablesOfMessages, InfoIsName
<1>2. Len(W) = Len(R) /\ \A i \in 1..Len(R) :
        /\ W[i][2] = R[i][2] /\ W[i][3] = R[i][3]
        /\ W[i][1] * 8 + WireType(W[i][3]) = R[i][1]
        /\ R[i][3] # "UserInfo"
  BY <1>1 DEF TablesAgree, Versions
<1> HIDE DEF W
<1>3. ASSUME NEW i \in 1..Len(R)
      PROVE  Tagged(W[i], u, Plain(W[i][3], u[W[i][2]])) = Field("UserInfo", u, i)
  BY <1>2 DEF Tagged, Field, FieldBytes
<1>4. [i \in 1..Len(W) |-> Tagged(W[i], u, Plain(W[i][3], u[W[i][2]]))] = Fields("UserInfo", u)
  BY <1>2, <1>3 DEF Fields
<1> QED
  BY <1>4 DEF InfoWritten, W

\* Both versions write the same.
LEMMA WrittenIs ==
  ASSUME NEW name \in Names, NEW m, NEW version \in Versions
  PROVE  Written(name, m, version) = FlattenSeq(Fields(name, m))
<1>1. ASSUME NEW kind, NEW v
      PROVE  FieldBytes(kind, v, version) = FieldBytes(kind, v, "array")
  <2>1. InfoWritten(v[1], version) = InfoWritten(v[1], "array")
    BY InfoWrittenIs DEF Versions
  <2> QED
    BY <2>1 DEF FieldBytes
<1> QED
  BY <1>1, RowsWritten

\* The parts of a message are bytes, and as many as the size method says.
LEMMA FieldIs ==
  ASSUME NEW name \in Names, NEW m, NEW i \in 1..Len(Reads[name]),
         m[Reads[name][i][2]] = Default(Reads[name][i][3]) \/
           /\ FieldBytes(Reads[name][i][3], m[Reads[name][i][2]], "array") \in Seq(Bytes)
           /\ Len(FieldBytes(Reads[name][i][3], m[Reads[name][i][2]], "array"))
                = FieldSize(Reads[name][i][3], m[Reads[name][i][2]])
  PROVE  /\ Field(name, m, i) \in Seq(Bytes)
         /\ Len(Field(name, m, i)) = TaggedSize(Sizes[name][i], m,
              FieldSize(Reads[name][i][3], m[Reads[name][i][2]]))
<1> DEFINE row == Reads[name][i]
           v == m[row[2]]
           c == FieldBytes(row[3], v, "array")
           size == FieldSize(row[3], v)
<1>1. Sizes[name][i] = <<1, row[2], row[3]>> /\ row[1] \in 8..127
  BY TablesOfMessages DEF TablesAgree
<1>2. TaggedSize(Sizes[name][i], m, size) = IF v = Default(row[3]) THEN 0 ELSE 1 + size
  BY <1>1 DEF TaggedSize
<1>3. Field(name, m, i) = IF v = Default(row[3]) THEN <<>> ELSE Varint(row[1]) \o c
  BY DEF Field
<1>4. row[1] \in 0..127
  BY <1>1
<1>5. Varint(row[1]) \in Seq(Bytes) /\ Len(Varint(row[1])) = 1
  <2>1. row[1] \in Int32s /\ VarintSize(row[1]) = 1
    BY <1>4, TagIsInt32, TagSize
  <2> QED
    BY <2>1, VarintIsBytes
<1>6. v = Default(row[3]) \/ (c \in Seq(Bytes) /\ Len(c) = size)
  OBVIOUS
<1> HIDE DEF row, v, c, size
<1>7. CASE v = Default(row[3])
  <2>1. <<>> \in Seq(Bytes) /\ Len(<<>>) = 0
    OBVIOUS
  <2> QED
    BY <1>2, <1>3, <1>7, <2>1 DEF row, v, c, size
<1>8. CASE ~(v = Default(row[3]))
  <2>1. Varint(row[1]) \o c \in Seq(Bytes) /\ Len(Varint(row[1]) \o c) = 1 + size
    <3> DEFINE t == Varint(row[1])
    <3>1. t \in Seq(Bytes) /\ Len(t) = 1 /\ c \in Seq(Bytes) /\ Len(c) = size
      BY <1>5, <1>6, <1>8
    <3> HIDE DEF t
    <3>2. t \o c \in Seq(Bytes) /\ Len(t \o c) = 1 + size
      BY <3>1, ConcatProperties, ZenonT(30)
    <3> QED
      BY <3>2 DEF t
  <2> QED
    BY <1>2, <1>3, <1>8, <2>1 DEF row, v, c, size
<1> QED
  BY <1>7, <1>8

\* A user's data takes as many bytes as InfoByteSize says.
LEMMA InfoSize ==
  ASSUME NEW u, IsInfo(u)
  PROVE  /\ FlattenSeq(Fields("UserInfo", u)) \in Seq(Bytes)
         /\ Len(FlattenSeq(Fields("UserInfo", u))) = InfoByteSize(u)
         /\ Fields("UserInfo", u) \in [1..Len(Reads["UserInfo"]) -> Seq(Bytes)]
<1> DEFINE R == Reads["UserInfo"]
           Z == Sizes["UserInfo"]
           sizes == [i \in 1..Len(Z) |-> TaggedSize(Z[i], u, PlainSize(Z[i][3], u[Z[i][2]]))]
<1>1. Len(R) \in Nat /\ Len(Z) = Len(R) /\ \A i \in 1..Len(R) : Z[i] = <<1, R[i][2], R[i][3]>>
  BY TablesOfMessages, InfoIsName DEF TablesAgree
<1>2. ASSUME NEW i \in 1..Len(R)
      PROVE  /\ Field("UserInfo", u, i) \in Seq(Bytes)
             /\ Len(Field("UserInfo", u, i)) = sizes[i]
  <2> DEFINE kind == R[i][3]
             v == u[R[i][2]]
  <2>1. /\ kind \in Kinds \ {"UserInfo"} /\ R[i][2] \in FieldsOf("UserInfo")
        /\ KindOf("UserInfo", R[i][2]) = kind
    BY InfoIsName, Rows
  <2>2. IsPlain(kind, v)
    BY <2>1 DEF IsInfo
  <2>3. v # Default(kind) => Plain(kind, v) \in Seq(Bytes) /\ Len(Plain(kind, v)) = PlainSize(kind, v)
    <3> HIDE DEF kind, v
    <3> QED BY <2>1, <2>2, PlainIs
  <2>4. FieldBytes(kind, v, "array") = Plain(kind, v) /\ FieldSize(kind, v) = PlainSize(kind, v)
    BY <2>1 DEF FieldBytes, FieldSize
  <2>5. sizes[i] = TaggedSize(Z[i], u, PlainSize(kind, v))
    BY <1>1
  <2> HIDE DEF sizes
  <2> QED
    BY <2>3, <2>4, <2>5, InfoIsName, FieldIs
<1>3. Fields("UserInfo", u) \in [1..Len(R) -> Seq(Bytes)]
  BY <1>2 DEF Fields
<1>4. \A i \in 1..Len(R) : sizes[i] = Len(Fields("UserInfo", u)[i])
  BY <1>2 DEF Fields
<1>5. sizes \in [1..Len(R) -> Nat]
  <2>1. \A i \in 1..Len(R) : sizes[i] \in Nat
    <3> TAKE i \in 1..Len(R)
    <3> HIDE DEF sizes
    <3>1. Len(Field("UserInfo", u, i)) \in Nat
      BY <1>2
    <3> QED
      BY <1>2, <3>1
  <2>2. sizes = [i \in 1..Len(R) |-> sizes[i]]
    BY <1>1
  <2> HIDE DEF sizes
  <2> QED
    BY <2>1, <2>2
<1>6. InfoByteSize(u) = Total(sizes)
  BY DEF InfoByteSize
<1> HIDE DEF sizes
<1>7. /\ FlattenSeq(Fields("UserInfo", u)) \in Seq(Bytes)
      /\ Len(FlattenSeq(Fields("UserInfo", u))) = Total(sizes)
  BY <1>1, <1>3, <1>4, <1>5, JoinedLen
<1> QED
  BY <1>3, <1>6, <1>7

\* The bytes of an inner message.
LEMMA InnerBytes ==
  ASSUME NEW v, IsInner(v), v # <<>>
  PROVE  /\ v = <<v[1]>> /\ IsInfo(v[1])
         /\ InfoWritten(v[1], "array") = FlattenSeq(Fields("UserInfo", v[1]))
         /\ InfoWritten(v[1], "array") \in Texts
         /\ Len(InfoWritten(v[1], "array")) = InfoByteSize(v[1])
<1>1. PICK u : v = <<u>> /\ IsInfo(u) /\ Len(InfoWritten(u, "array")) <= 2147483647
  BY SMT DEF IsInner
<1>2. v[1] = u
  BY <1>1, SMT
<1>3. InfoWritten(u, "array") = FlattenSeq(Fields("UserInfo", u))
  BY InfoWrittenIs DEF Versions
<1>4. InfoWritten(u, "array") \in Seq(Bytes) /\ Len(InfoWritten(u, "array")) = InfoByteSize(u)
  BY <1>1, <1>3, InfoSize, SMT
<1> QED
  BY <1>1, <1>2, <1>3, <1>4, SMT DEF Texts

\* FieldSize counts the bytes of a value.
LEMMA ValueBytes ==
  ASSUME NEW kind \in Kinds, NEW v, IsValue(kind, v), v # Default(kind)
  PROVE  /\ FieldBytes(kind, v, "array") \in Seq(Bytes)
         /\ Len(FieldBytes(kind, v, "array")) = FieldSize(kind, v)
<1>1. CASE kind = "UserInfo"
  <2>1. v # <<>> /\ IsInner(v)
    BY <1>1, DefaultIs DEF IsValue
  <2> DEFINE w == InfoWritten(v[1], "array")
  <2>2. w \in Texts /\ Len(w) = InfoByteSize(v[1])
    BY <2>1, InnerBytes
  <2>3. FieldBytes(kind, v, "array") = Prefixed(w) /\ FieldSize(kind, v) = VarintSize(Len(w)) + Len(w)
    BY <1>1, <2>2 DEF FieldBytes, FieldSize, PrefixedSize
  <2> HIDE DEF w
  <2> QED
    BY <2>2, <2>3, PrefixedIs
<1>2. CASE kind # "UserInfo"
  <2>1. IsPlain(kind, v) /\ FieldBytes(kind, v, "array") = Plain(kind, v) /\ FieldSize(kind, v) = PlainSize(kind, v)
    BY <1>2 DEF IsValue, FieldBytes, FieldSize
  <2> QED
    BY <1>2, <2>1, PlainIs
<1> QED
  BY <1>1, <1>2

\* A message takes as many bytes as its size method says.
THEOREM BytesCounted ==
  ASSUME NEW name \in Names, NEW m, IsMessage(name, m), NEW version \in Versions
  PROVE  /\ Written(name, m, version) \in Seq(Bytes)
         /\ Len(Written(name, m, version)) = ByteSize(name, m)
         /\ Fields(name, m) \in [1..Len(Reads[name]) -> Seq(Bytes)]
<1> DEFINE R == Reads[name]
           Z == Sizes[name]
           sizes == [i \in 1..Len(Z) |-> TaggedSize(Z[i], m, FieldSize(Z[i][3], m[Z[i][2]]))]
<1>1. Len(R) \in Nat /\ Len(Z) = Len(R) /\ \A i \in 1..Len(R) : Z[i] = <<1, R[i][2], R[i][3]>>
  BY TablesOfMessages DEF TablesAgree
<1>2. ASSUME NEW i \in 1..Len(R)
      PROVE  /\ Field(name, m, i) \in Seq(Bytes)
             /\ Len(Field(name, m, i)) = sizes[i]
  <2> DEFINE kind == R[i][3]
             v == m[R[i][2]]
  <2>1. /\ kind \in Kinds /\ R[i][2] \in FieldsOf(name) /\ KindOf(name, R[i][2]) = kind
    BY Rows
  <2>2. IsValue(kind, v)
    BY <2>1 DEF IsMessage
  <2>3. v # Default(kind) => /\ FieldBytes(kind, v, "array") \in Seq(Bytes)
                             /\ Len(FieldBytes(kind, v, "array")) = FieldSize(kind, v)
    <3> HIDE DEF kind, v
    <3> QED BY <2>1, <2>2, ValueBytes
  <2>5. sizes[i] = TaggedSize(Z[i], m, FieldSize(kind, v))
    BY <1>1
  <2> HIDE DEF sizes
  <2> QED
    BY <2>3, <2>5, FieldIs
<1>3. Fields(name, m) \in [1..Len(R) -> Seq(Bytes)]
  BY <1>2 DEF Fields
<1>4. \A i \in 1..Len(R) : sizes[i] = Len(Fields(name, m)[i])
  BY <1>2 DEF Fields
<1>5. sizes \in [1..Len(R) -> Nat]
  <2>1. \A i \in 1..Len(R) : sizes[i] \in Nat
    <3> TAKE i \in 1..Len(R)
    <3> HIDE DEF sizes
    <3>1. Len(Field(name, m, i)) \in Nat
      BY <1>2
    <3> QED
      BY <1>2, <3>1
  <2>2. sizes = [i \in 1..Len(R) |-> sizes[i]]
    BY <1>1
  <2> HIDE DEF sizes
  <2> QED
    BY <2>1, <2>2
<1>6. ByteSize(name, m) = Total(sizes)
  BY DEF ByteSize
<1> HIDE DEF sizes
<1>7. /\ FlattenSeq(Fields(name, m)) \in Seq(Bytes)
      /\ Len(FlattenSeq(Fields(name, m))) = Total(sizes)
  BY <1>1, <1>3, <1>4, <1>5, JoinedLen
<1>8. Written(name, m, version) = FlattenSeq(Fields(name, m))
  BY WrittenIs
<1> QED
  BY <1>3, <1>6, <1>7, <1>8

-----------------------------------------------------------------------------
(* MergeFrom. *)

\* A value is readable if the texts in it are.
ValueReadable(kind, v) ==
  /\ kind = "string" => Utf8(v)
  /\ kind = "UserInfo" => \A i \in 1..Len(v) : TextsReadable("UserInfo", v[i])

\* The rows' fields are the message's.
RowsReadable(name, m) ==
  \A i \in 1..Len(Reads[name]) : ValueReadable(Reads[name][i][3], m[Reads[name][i][2]])

\* A message is readable if every field is.
LEMMA ReadableIs ==
  ASSUME NEW name \in Names, NEW m, IsMessage(name, m)
  PROVE  Readable(name, m) <=> RowsReadable(name, m)
<1> DEFINE R == Reads[name]
<1>1. DOMAIN m = FieldsOf(name)
  BY DEF IsMessage, HasFields
<1>2. FieldsOf(name) = {R[i][2] : i \in 1..Len(R)}
  BY Rows
<1>3. \A i \in 1..Len(R) : KindOf(name, R[i][2]) = R[i][3]
  BY Rows
<1>4. Readable(name, m) <=> \A f \in FieldsOf(name) : ValueReadable(KindOf(name, f), m[f])
  BY <1>1, Zenon DEF Readable, TextsReadable, ValueReadable
<1>5. ASSUME \A f \in FieldsOf(name) : ValueReadable(KindOf(name, f), m[f])
      PROVE  RowsReadable(name, m)
  <2>1. SUFFICES ASSUME NEW i \in 1..Len(R)
                 PROVE  ValueReadable(R[i][3], m[R[i][2]])
    BY DEF RowsReadable
  <2>2. R[i][2] \in FieldsOf(name)
    BY <1>2
  <2> QED
    BY <1>3, <1>5, <2>2
<1>6. ASSUME RowsReadable(name, m)
      PROVE  \A f \in FieldsOf(name) : ValueReadable(KindOf(name, f), m[f])
  <2> TAKE f \in FieldsOf(name)
  <2>1. PICK i \in 1..Len(R) : f = R[i][2]
    BY <1>2
  <2>2. ValueReadable(R[i][3], m[R[i][2]])
    BY <1>6 DEF RowsReadable
  <2> QED
    BY <1>3, <2>1, <2>2
<1> QED
  BY <1>4, <1>5, <1>6

\* MergeFrom gives a message its fields and no others.
LEMMA MergedFunction ==
  ASSUME NEW name, NEW m0, HasFields(name, m0), NEW m
  PROVE  Merged(name, m0, m) = [f \in FieldsOf(name) |-> Merged(name, m0, m)[f]]
<1>1. DOMAIN m0 = FieldsOf(name)
  BY DEF HasFields
<1> QED
  BY <1>1 DEF Merged

\* It leaves alone what the other has not,
LEMMA MergedDefault ==
  ASSUME NEW name \in Names, NEW m0, HasFields(name, m0), NEW m,
         NEW f \in FieldsOf(name), m[f] = Default(KindOf(name, f))
  PROVE  Merged(name, m0, m)[f] = m0[f]
<1>1. DOMAIN m0 = FieldsOf(name)
  BY DEF HasFields
<1> QED
  BY <1>1 DEF Merged, Kept

\* takes over what it has,
LEMMA MergedPlain ==
  ASSUME NEW name \in Names, NEW m0, HasFields(name, m0), NEW m,
         NEW f \in FieldsOf(name), m[f] # Default(KindOf(name, f)),
         KindOf(name, f) # "UserInfo"
  PROVE  Merged(name, m0, m)[f] = m[f]
<1>1. Merges[name] = FieldsOf(name) /\ DOMAIN m0 = FieldsOf(name)
  BY Rows DEF HasFields
<1> QED
  BY <1>1 DEF Merged, Kept

\* and merges the message within.
LEMMA MergedInner ==
  ASSUME NEW name \in Names, NEW m0, HasFields(name, m0), NEW m,
         NEW f \in FieldsOf(name), m[f] # Default(KindOf(name, f)),
         KindOf(name, f) = "UserInfo"
  PROVE  Merged(name, m0, m)[f] = <<InfoMerged(InfoIn(m0[f]), m[f][1])>>
<1>1. Merges[name] = FieldsOf(name) /\ DOMAIN m0 = FieldsOf(name)
  BY Rows DEF HasFields
<1> QED
  BY <1>1 DEF Merged, Kept

\* The message within is merged like any other.
LEMMA InfoMergedIs ==
  ASSUME NEW u0, HasFields("UserInfo", u0), NEW u
  PROVE  InfoMerged(u0, u) = Merged("UserInfo", u0, u)
<1>1. \A f \in FieldsOf("UserInfo") : KindOf("UserInfo", f) # "UserInfo"
  <2> TAKE f \in FieldsOf("UserInfo")
  <2>1. PICK i \in 1..Len(Reads["UserInfo"]) : f = Reads["UserInfo"][i][2]
    BY Rows, InfoIsName
  <2>2. KindOf("UserInfo", f) = Reads["UserInfo"][i][3] /\ Reads["UserInfo"][i][3] # "UserInfo"
    BY <2>1, Rows, InfoIsName
  <2> QED
    BY <2>2
<1>2. DOMAIN u0 = FieldsOf("UserInfo")
  BY DEF HasFields
<1> QED
  BY <1>1, <1>2 DEF InfoMerged, Merged

\* Field i of m, read into any message that has in it what m0 has.
FieldRight(name, m0, m, i) ==
  LET f == Reads[name][i][2]
      kind == Reads[name][i][3]
  IN \A mm : \A b \in Seq(Bytes) : mm[f] = m0[f] =>
       LET s == Round(name, Reading(mm, Field(name, m, i) \o b))
       IN IF ValueReadable(kind, m[f])
            THEN s = Reading([mm EXCEPT ![f] = Merged(name, m0, m)[f]], b)
            ELSE s.status = "failed"

\* What is not written is readable.
LEMMA DefaultReadable ==
  ASSUME NEW kind \in Kinds
  PROVE  ValueReadable(kind, Default(kind))
<1>1. Utf8(<<>>)
  BY DEF Utf8
<1>2. Len(<<>>) = 0 /\ 1..Len(<<>>) = {}
  OBVIOUS
<1> QED
  BY <1>1, <1>2, DefaultIs DEF ValueReadable

\* Where each field is read as it should be, the message is.
LEMMA Chain ==
  ASSUME NEW name \in Names, NEW m0, HasFields(name, m0),
         NEW m, IsMessage(name, m),
         \A i \in 1..Len(Reads[name]) :
           m[Reads[name][i][2]] # Default(Reads[name][i][3]) => FieldRight(name, m0, m, i),
         NEW b \in Seq(Bytes)
  PROVE  LET p == Parsed(name, m0, FlattenSeq(Fields(name, m)) \o b)
         IN IF Readable(name, m) THEN p = Parsed(name, Merged(name, m0, m), b) ELSE p.status = "failed"
<1> DEFINE R == Reads[name]
           n == Len(R)
           x(k) == Field(name, m, k)
           new(f) == Merged(name, m0, m)[f]
           M(k) == [f \in FieldsOf(name) |-> IF \E i \in 1..k : R[i][2] = f THEN new(f) ELSE m0[f]]
           good(i) == ValueReadable(R[i][3], m[R[i][2]])
           Good(k) == \A i \in 1..k : good(i)
<1>1. n \in Nat /\ Fields(name, m) \in [1..n -> Seq(Bytes)]
  <2>1. "array" \in Versions
    BY DEF Versions
  <2> QED
    BY <2>1, Rows, BytesCounted
<1>2. PICK F : Joins(F, Bytes, n, Fields(name, m))
  BY <1>1, Joined
<1>3. /\ F[0] = <<>> /\ FlattenSeq(Fields(name, m)) = F[n]
      /\ \A k \in 0..n : F[k] \in Seq(Bytes)
      /\ \A k \in 0..(n - 1) : F[k + 1] = F[k] \o Fields(name, m)[k + 1]
  BY <1>2 DEF Joins
<1>w. ASSUME NEW g \in FieldsOf(name), m[g] = Default(KindOf(name, g))
       PROVE  new(g) = m0[g]
  BY <1>w, MergedDefault
<1> DEFINE Right(k, c) == LET p == Parsed(name, m0, F[k] \o c)
                          IN IF Good(k) THEN p = Parsed(name, M(k), c) ELSE p.status = "failed"
           S == {k \in Nat : k <= n => \A c \in Seq(Bytes) : Right(k, c)}
<1> HIDE DEF Right
<1>4. 0 \in S
  <2> SUFFICES ASSUME NEW c \in Seq(Bytes) PROVE Right(0, c)
    OBVIOUS
  <2>1. F[0] \o c = c
    BY <1>3, ConcatEmptySeq
  <2>2. 1..0 = {}
    OBVIOUS
  <2>3. M(0) = m0 /\ Good(0)
    BY <2>2 DEF HasFields
  <2> QED
    BY <2>1, <2>3 DEF Right
<1>5. ASSUME NEW k \in Nat, k \in S
      PROVE  k + 1 \in S
  <2> SUFFICES ASSUME k + 1 <= n, NEW c \in Seq(Bytes)
               PROVE  Right(k + 1, c)
    OBVIOUS
  <2> DEFINE j == k + 1
             f == R[j][2]
             kind == R[j][3]
  <2>0. SUFFICES Right(j, c)
    OBVIOUS
  <2>1. k \in 0..(n - 1) /\ k \in 0..n /\ j \in 1..n /\ 1..j = (1..k) \cup {j} /\ j \notin 1..k
    BY <1>1
  <2>2. x(j) \in Seq(Bytes) /\ F[k] \in Seq(Bytes) /\ F[j] = F[k] \o x(j)
    BY <1>1, <1>3, <2>1 DEF Fields
  <2>3. x(j) \o c \in Seq(Bytes) /\ F[j] \o c = F[k] \o (x(j) \o c)
    <3> DEFINE X == x(j)
               A == F[k]
    <3>1. X \in Seq(Bytes) /\ A \in Seq(Bytes) /\ F[j] = A \o X
      BY <2>2
    <3> HIDE DEF X, A
    <3>2. X \o c \in Seq(Bytes) /\ (A \o X) \o c = A \o (X \o c)
      BY <3>1, ConcatProperties, ConcatAssociative, SMTT(20)
    <3> HIDE DEF j
    <3> QED BY <3>1, <3>2 DEF X, A
  <2>4. Right(k, x(j) \o c)
    <3>1. \A d \in Seq(Bytes) : Right(k, d)
      BY <1>1, <1>5, <2>1
    <3> HIDE DEF x, j
    <3> QED
      BY <2>3, <3>1
  <2>5. Good(j) <=> Good(k) /\ good(j)
    <3> HIDE DEF j, good
    <3> QED BY <2>1
  <2>6. f \in FieldsOf(name) /\ kind \in Kinds /\ KindOf(name, f) = kind
    BY <2>1, Rows
  <2>7. M(j) = [M(k) EXCEPT ![f] = new(f)]
    <3>1. ASSUME NEW g \in FieldsOf(name)
          PROVE  M(j)[g] = IF g = f THEN new(f) ELSE M(k)[g]
      <4> HIDE DEF j, new
      <4> QED BY <2>1
    <3> HIDE DEF j, new
    <3> QED BY <3>1, <2>6, ZenonT(30)
  <2>8. M(k)[f] = m0[f]
    <3>1. \A i \in 1..k : R[i][2] # f
      <4>1. \A i \in 1..k : i \in 1..n /\ i # j
        BY <2>1
      <4>2. \A i \in 1..n : i # j => R[i][2] # R[j][2]
        BY <2>1, Rows
      <4> QED
        BY <4>1, <4>2
    <3> HIDE DEF j, f
    <3> QED BY <2>6, <3>1
  <2>9. CASE ~Good(k)
    <3> HIDE DEF Good, M, x, j
    <3> QED BY <2>3, <2>4, <2>5, <2>9 DEF Right
  <2>10. CASE Good(k) /\ m[f] = Default(kind)
    <3>1. x(j) = <<>>
      BY <2>10 DEF Field
    <3>2. x(j) \o c = c
      BY <3>1, ConcatEmptySeq
    <3>3. new(f) = m0[f]
      <4> HIDE DEF new, kind
      <4> QED BY <1>w, <2>6, <2>10
    <3>4. M(j) = M(k)
      <4>1. M(k) = [M(k) EXCEPT ![f] = M(k)[f]]
        OBVIOUS
      <4> HIDE DEF M, j, new
      <4> QED BY <2>7, <2>8, <3>3, <4>1
    <3>5. good(j)
      BY <2>6, <2>10, DefaultReadable
    <3> HIDE DEF Good, good, M, x, j
    <3> QED BY <2>3, <2>4, <2>5, <2>10, <3>2, <3>4, <3>5 DEF Right
  <2>11. CASE Good(k) /\ m[f] # Default(kind)
    <3> DEFINE y == x(j) \o c
               s == Round(name, Reading(M(k), y))
    <3>1. FieldRight(name, m0, m, j)
      BY <2>1, <2>11
    <3>2. IF good(j) THEN s = Reading([M(k) EXCEPT ![f] = new(f)], c) ELSE s.status = "failed"
      <4> HIDE DEF M
      <4> QED BY <2>8, <3>1 DEF FieldRight
    <3>3. /\ s.status # "reading" => Parsed(name, M(k), y) = s
          /\ s.status = "reading" => Parsed(name, M(k), y) = Parsed(name, s.msg, s.rest)
      <4> HIDE DEF M, y
      <4> QED BY <2>3, ParsedUnfolds DEF y
    <3>4. Parsed(name, m0, F[j] \o c) = Parsed(name, M(k), y)
      <4> HIDE DEF M, Good, j, x
      <4> QED BY <2>3, <2>4, <2>11 DEF Right
    <3>5. CASE good(j)
      <4>1. s = Reading(M(j), c)
        <5> HIDE DEF M, y, s, new, j
        <5> QED BY <2>7, <3>2, <3>5
      <4>2. s.status = "reading" /\ s.msg = M(j) /\ s.rest = c
        <5> HIDE DEF s, M
        <5> QED BY <4>1, StatusOf
      <4>3. Good(j)
        BY <2>5, <2>11, <3>5, Zenon
      <4> HIDE DEF s, M, j, y, Good
      <4> QED BY <3>3, <3>4, <4>2, <4>3 DEF Right
    <3>6. CASE ~good(j)
      <4>1. s.status = "failed"
        <5> HIDE DEF M, y, s, new, j, good
        <5> QED BY <3>2, <3>6
      <4>2. ~Good(j)
        BY <2>5, <3>6, Zenon
      <4> HIDE DEF s, M, j, y, Good
      <4> QED BY <3>3, <3>4, <4>1, <4>2 DEF Right
    <3> QED
      BY <3>5, <3>6
  <2> HIDE DEF Good, j
  <2> QED
    BY <2>9, <2>10, <2>11, Zenon
<1> HIDE DEF S
<1>6. n \in S
  BY <1>1, <1>4, <1>5, Induction
<1>7. Right(n, b)
  BY <1>1, <1>6 DEF S
<1>8. M(n) = Merged(name, m0, m)
  <2>1. \A f \in FieldsOf(name) : \E i \in 1..n : R[i][2] = f
    BY Rows
  <2>2. Merged(name, m0, m) = [f \in FieldsOf(name) |-> new(f)]
    BY MergedFunction
  <2> HIDE DEF new, n
  <2> QED BY <2>1, <2>2
<1>9. Good(n) <=> Readable(name, m)
  <2>1. Good(n) <=> RowsReadable(name, m)
    BY Zenon DEF RowsReadable
  <2> HIDE DEF Good
  <2> QED
    BY <2>1, ReadableIs
<1> HIDE DEF Good, M
<1> QED
  BY <1>3, <1>7, <1>8, <1>9 DEF Right

-----------------------------------------------------------------------------
(* The message within another. *)

\* The message within another is read like any other message.
LEMMA InfoRoundIs ==
  ASSUME NEW s
  PROVE  InfoRound(s) = Round("UserInfo", s)
<1> DEFINE inner == InfoRead(s.msg.userinfo, s.rest)
           t == ReadVarint(s.rest)
           known == {r \in ToSet(Reads["UserInfo"]) : r[1] = t.value}
           row == CHOOSE r \in known : TRUE
<1>1. \A r \in ToSet(Reads["UserInfo"]) : r[3] # "UserInfo"
  <2>1. TablesAgree("UserInfo")
    BY UserInfo_Tables
  <2> QED
    BY <2>1 DEF TablesAgree, ToSet
<1>2. known # {} => row[3] # "UserInfo"
  BY <1>1
<1>3. known # {} => FieldRead(s.msg, row[2], row[3], t.rest, s) = FieldRead(s.msg, row[2], row[3], t.rest, inner)
  <2> HIDE DEF known, row, inner
  <2> QED
    BY <1>2 DEF FieldRead
<1>4. RoundOf("UserInfo", s, s) = RoundOf("UserInfo", s, inner)
  <2> HIDE DEF inner
  <2> QED
    BY <1>3, Zenon DEF RoundOf, known, row, t
<1> QED
  BY <1>4, Zenon DEF InfoRound, Round, inner

\* The message within is parsed like any other.
LEMMA InfoParsedIs ==
  ASSUME NEW m, NEW b \in Seq(Bytes)
  PROVE  InfoParsed(m, b) = Parsed("UserInfo", m, b)
<1> DEFINE g == CHOOSE g : g = [k \in 0..(Len(b) + 1) |->
                    IF k = 0 THEN Reading(m, b) ELSE InfoRound(g[k - 1])]
<1>1. InfoParsed(m, b) = g[CHOOSE k \in 0..(Len(b) + 1) : g[k].status # "reading"]
  BY DEF InfoParsed
<1>2. PICK f : Loop(f, "UserInfo", m, b)
  BY LoopExists
<1>3. f = [k \in 0..(Len(b) + 1) |-> IF k = 0 THEN Reading(m, b) ELSE InfoRound(f[k - 1])]
  BY <1>2, InfoRoundIs DEF Loop
<1>4. g = [k \in 0..(Len(b) + 1) |-> IF k = 0 THEN Reading(m, b) ELSE InfoRound(g[k - 1])]
  BY <1>3
<1> HIDE DEF g
<1>5. Loop(g, "UserInfo", m, b)
  BY <1>4, InfoRoundIs DEF Loop
<1> QED
  BY <1>1, <1>5, ParsedIs

-----------------------------------------------------------------------------
(* Reading what was written. *)

\* No bytes are read as the message there was.
LEMMA ParsedNothing ==
  ASSUME NEW name, NEW m
  PROVE  Parsed(name, m, <<>>) = Ended(m, <<>>)
<1> DEFINE s == Reading(m, <<>>)
           r == Round(name, s)
<1>1. <<>> \in Seq(Bytes)
  OBVIOUS
<1>2. s.status = "reading" /\ s.msg = m /\ s.rest = <<>>
  BY StatusOf
<1>3. ~ReadVarint(s.rest).ok
  BY <1>1, <1>2, ReadVarintIs
<1>4. r = Ended(m, <<>>)
  <2> HIDE DEF s
  <2> QED
    BY <1>2, <1>3 DEF Round, RoundOf
<1>5. r.status # "reading"
  <2> HIDE DEF r
  <2> QED
    BY <1>4, StatusOf
<1> QED
  BY <1>1, <1>4, <1>5, ParsedUnfolds

\* Row i of the parser's table.
Row(name, i, tag, f, kind) ==
  i \in 1..Len(Reads[name]) /\ Reads[name][i][1] = tag /\ Reads[name][i][2] = f /\ Reads[name][i][3] = kind

\* What a row of the parser's table says.
LEMMA RowIs ==
  ASSUME NEW name \in Names, NEW i, NEW tag, NEW f, NEW kind, Row(name, i, tag, f, kind)
  PROVE  /\ tag \in Int32s /\ Varint(tag) \in Seq(Bytes)
         /\ f \in FieldsOf(name) /\ KindOf(name, f) = kind /\ kind \in Kinds
         /\ kind = "UserInfo" => f = "userinfo"
<1>1. tag \in 8..127 /\ f \in FieldsOf(name) /\ KindOf(name, f) = kind /\ kind \in Kinds
      /\ (kind = "UserInfo" => f = "userinfo")
  BY Rows DEF Row
<1>2. tag \in 0..127
  BY <1>1
<1> QED
  BY <1>1, <1>2, TagIsInt32, VarintIsBytes

\* The bytes r are s and then t.
Before(s, t, r) == s \in Seq(Bytes) /\ t \in Seq(Bytes) /\ r = s \o t

\* A round reads the message within another, should the field be one.
LEMMA RoundIs ==
  ASSUME NEW name, NEW m, NEW b
  PROVE  Round(name, Reading(m, b)) = RoundOf(name, Reading(m, b), InfoRead(m.userinfo, b))
<1>1. Reading(m, b).msg = m /\ Reading(m, b).rest = b
  BY DEF Reading
<1> QED
  BY <1>1 DEF Round

\* A round over a known tag reads that tag's field.
LEMMA RowRead ==
  ASSUME NEW name \in Names, NEW i, NEW tag, NEW f, NEW kind, Row(name, i, tag, f, kind),
         NEW m, NEW inner, NEW c, NEW d, Before(Varint(tag), c, d)
  PROVE  RoundOf(name, Reading(m, d), inner) = FieldRead(m, f, kind, c, inner)
<1>1. d = Varint(tag) \o c /\ c \in Seq(Bytes)
  BY DEF Before
<1>2. \A e \in Seq(Bytes) : RoundOf(name, Reading(m, Varint(tag) \o e), inner) = FieldRead(m, f, kind, e, inner)
  BY RoundOfKnown DEF Row
<1> QED
  BY <1>1, <1>2

\* In front of a field, what the round does is the reading of its value.
LEMMA RoundOfRow ==
  ASSUME NEW name \in Names, NEW i, NEW tag, NEW f, NEW kind, Row(name, i, tag, f, kind),
         NEW m, NEW c, NEW d, Before(Varint(tag), c, d)
  PROVE  Round(name, Reading(m, d)) = FieldRead(m, f, kind, c, InfoRead(m.userinfo, d))
BY RoundIs, RowRead

\* The field of the row is written, as its tag and the bytes w of its value.
Bears(name, i, tag, f, kind, m, w) ==
  /\ Row(name, i, tag, f, kind)
  /\ m[f] # Default(kind)
  /\ w \in Seq(Bytes) /\ w = FieldBytes(kind, m[f], "array")

\* A field that is written is its tag and its value.
LEMMA FieldSplits ==
  ASSUME NEW name \in Names, NEW i, NEW tag, NEW f, NEW kind, NEW m, NEW w,
         Bears(name, i, tag, f, kind, m, w), NEW b \in Seq(Bytes), NEW d, d = Field(name, m, i) \o b
  PROVE  \E c : Before(w, b, c) /\ Before(Varint(tag), c, d)
<1>1. PICK v \in Seq(Bytes) : v = Varint(tag)
  BY RowIs DEF Bears
<1>2. Field(name, m, i) = v \o w /\ w \in Seq(Bytes)
  BY <1>1 DEF Field, Row, Bears
<1>3. (v \o w) \o b = v \o (w \o b) /\ w \o b \in Seq(Bytes)
  BY <1>2, ConcatAssociative, ConcatProperties
<1>4. PICK c \in Seq(Bytes) : c = w \o b
  BY <1>3
<1>5. Before(w, b, c) /\ Before(v, c, d)
  BY <1>2, <1>3, <1>4 DEF Before
<1> QED
  BY <1>1, <1>5

\* x is what is left to read when field i of m comes first and b then.
Leads(name, m, i, b, x) == b \in Seq(Bytes) /\ x = Field(name, m, i) \o b

\* A round over it reads the value.
LEMMA RoundOfField ==
  ASSUME NEW name \in Names, NEW i, NEW tag, NEW f, NEW kind, NEW m, NEW w,
         Bears(name, i, tag, f, kind, m, w), NEW mm, NEW b, NEW x, Leads(name, m, i, b, x)
  PROVE  \E c : /\ Before(w, b, c) /\ Before(Varint(tag), c, x)
                /\ Round(name, Reading(mm, x)) = FieldRead(mm, f, kind, c, InfoRead(mm.userinfo, x))
<1>1. PICK c : Before(w, b, c) /\ Before(Varint(tag), c, x)
  BY FieldSplits DEF Leads
<1>2. Row(name, i, tag, f, kind)
  BY DEF Bears
<1>3. Round(name, Reading(mm, x)) = FieldRead(mm, f, kind, c, InfoRead(mm.userinfo, x))
  BY <1>1, <1>2, RoundOfRow
<1> QED
  BY <1>1, <1>3

\* A value of a plain kind is read as it was written.
LEMMA PlainBefore ==
  ASSUME NEW kind \in Kinds \ {"UserInfo"}, NEW v, IsPlain(kind, v), v # Default(kind),
         NEW m, NEW f, NEW b, NEW c, Before(Plain(kind, v), b, c), NEW inner
  PROVE  FieldRead(m, f, kind, c, inner) = PlainTaken(m, f, kind, v, b)
<1>1. b \in Seq(Bytes) /\ c = Plain(kind, v) \o b
  BY DEF Before
<1>2. \A e \in Seq(Bytes) : FieldRead(m, f, kind, Plain(kind, v) \o e, inner) = PlainTaken(m, f, kind, v, e)
  BY PlainIsRead
<1> QED
  BY <1>1, <1>2

\* A message within another is parsed from its own bytes.
LEMMA InnerBefore ==
  ASSUME NEW w \in Texts, NEW tag \in Int32s, NEW b, NEW c, Before(Prefixed(w), b, c),
         NEW d, Before(Varint(tag), c, d)
  PROVE  /\ \A m, f, inner : FieldRead(m, f, "UserInfo", c, inner) =
               InnerTaken(m, f, inner, b)
         /\ \A v : InfoRead(v, d) = InfoParsed(InfoIn(v), w)
<1>1. b \in Seq(Bytes) /\ c = Prefixed(w) \o b /\ d = Varint(tag) \o (Prefixed(w) \o b)
  BY DEF Before
<1>2. \A m, f, inner : FieldRead(m, f, "UserInfo", Prefixed(w) \o b, inner) =
               InnerTaken(m, f, inner, b)
  BY <1>1, InnerIsRead
<1>3. \A v : InfoRead(v, Varint(tag) \o (Prefixed(w) \o b)) = InfoParsed(InfoIn(v), w)
  BY <1>1, InnerIs
<1> QED
  BY <1>1, <1>2, <1>3, Zenon

\* A field of a plain kind is read as MergeFrom takes it over.
LEMMA PlainRight ==
  ASSUME NEW name \in Names, NEW i \in 1..Len(Reads[name]),
         NEW m0, HasFields(name, m0), NEW m,
         Reads[name][i][3] # "UserInfo",
         IsPlain(Reads[name][i][3], m[Reads[name][i][2]]),
         m[Reads[name][i][2]] # Default(Reads[name][i][3])
  PROVE  FieldRight(name, m0, m, i)
<1>1. PICK tag, f, kind : Row(name, i, tag, f, kind)
  BY DEF Row
<1>2. f = Reads[name][i][2] /\ kind = Reads[name][i][3]
  BY <1>1 DEF Row
<1>3. PICK v : v = m[f]
  OBVIOUS
<1>4. f \in FieldsOf(name) /\ KindOf(name, f) = kind /\ kind \in Kinds \ {"UserInfo"}
  BY <1>1, <1>2, RowIs
<1>5. IsPlain(kind, v) /\ v # Default(kind)
  BY <1>2, <1>3
<1>6. PICK w \in Seq(Bytes) : w = Plain(kind, v)
  BY <1>4, <1>5, PlainIs
<1>7. w = FieldBytes(kind, v, "array")
  BY <1>4, <1>6 DEF FieldBytes
<1>8. Merged(name, m0, m)[f] = v
  BY <1>3, <1>4, <1>5, MergedPlain
<1>9. ValueReadable(kind, v) <=> (kind = "string" => Utf8(v))
  BY <1>4 DEF ValueReadable
<1>10. ASSUME NEW mm, NEW b, NEW x, Leads(name, m, i, b, x)
       PROVE  LET s == Round(name, Reading(mm, x))
              IN IF ValueReadable(kind, v) THEN s = Reading([mm EXCEPT ![f] = v], b)
                                           ELSE s.status = "failed"
  <2>0. Bears(name, i, tag, f, kind, m, w)
    BY <1>1, <1>3, <1>5, <1>7 DEF Bears
  <2>1. PICK c : /\ Before(w, b, c)
                 /\ Round(name, Reading(mm, x)) = FieldRead(mm, f, kind, c, InfoRead(mm.userinfo, x))
    BY <1>10, <2>0, RoundOfField
  <2>2. PICK s : s = Round(name, Reading(mm, x))
    OBVIOUS
  <2>3. s = PlainTaken(mm, f, kind, v, b)
    BY <1>4, <1>5, <1>6, <2>1, <2>2, PlainBefore
  <2>4. CASE kind = "string" => Utf8(v)
    BY <1>9, <2>2, <2>3, <2>4 DEF PlainTaken
  <2>5. CASE ~(kind = "string" => Utf8(v))
    BY <1>9, <2>2, <2>3, <2>5 DEF PlainTaken, Failed
  <2> QED
    BY <2>4, <2>5
<1>11. \A mm : \A b \in Seq(Bytes) : \A x : x = Field(name, m, i) \o b =>
         LET s == Round(name, Reading(mm, x))
         IN IF ValueReadable(kind, m[f]) THEN s = Reading([mm EXCEPT ![f] = Merged(name, m0, m)[f]], b)
                                         ELSE s.status = "failed"
  BY <1>3, <1>8, <1>10 DEF Leads
<1> QED
  BY <1>2, <1>11 DEF FieldRight

\* The message within another, whatever it is merged into.
LEMMA InfoIsRead ==
  ASSUME NEW u, IsInfo(u), NEW u0, HasFields("UserInfo", u0)
  PROVE  LET p == InfoParsed(u0, InfoWritten(u, "array"))
         IN IF TextsReadable("UserInfo", u) THEN p = Ended(InfoMerged(u0, u), <<>>)
                                            ELSE p.status = "failed"
<1> DEFINE R == Reads["UserInfo"]
           w == FlattenSeq(Fields("UserInfo", u))
           p == Parsed("UserInfo", u0, w \o <<>>)
<1>1. \A i \in 1..Len(R) : /\ R[i][3] # "UserInfo" /\ R[i][2] \in FieldsOf("UserInfo")
                           /\ KindOf("UserInfo", R[i][2]) = R[i][3]
  BY Rows, InfoIsName
<1>2. \A f \in FieldsOf("UserInfo") : KindOf("UserInfo", f) # "UserInfo"
  <2> TAKE f \in FieldsOf("UserInfo")
  <2>1. PICK i \in 1..Len(R) : f = R[i][2]
    BY Rows, InfoIsName
  <2> QED
    BY <1>1, <2>1
<1>3. IsMessage("UserInfo", u)
  BY <1>2 DEF IsInfo, IsMessage, IsValue
<1>4. ASSUME NEW i \in 1..Len(R), u[R[i][2]] # Default(R[i][3])
      PROVE  FieldRight("UserInfo", u0, u, i)
  <2>1. IsPlain(R[i][3], u[R[i][2]])
    BY <1>1 DEF IsInfo
  <2> QED
    BY <1>1, <1>4, <2>1, InfoIsName, PlainRight
<1>5. <<>> \in Seq(Bytes)
  OBVIOUS
<1>6. IF Readable("UserInfo", u) THEN p = Parsed("UserInfo", Merged("UserInfo", u0, u), <<>>)
                                 ELSE p.status = "failed"
  BY <1>3, <1>4, <1>5, InfoIsName, Chain
<1>7. DOMAIN u = FieldsOf("UserInfo")
  BY DEF IsInfo, HasFields
<1>8. Readable("UserInfo", u) <=> TextsReadable("UserInfo", u)
  BY <1>2, <1>7, Zenon DEF Readable
<1>9. w \in Seq(Bytes)
  <2>1. "array" \in Versions
    BY DEF Versions
  <2> QED
    BY <1>3, <2>1, InfoIsName, BytesCounted, WrittenIs
<1>10. InfoWritten(u, "array") = w /\ w \o <<>> = w
  <2>1. "array" \in Versions
    BY DEF Versions
  <2>2. InfoWritten(u, "array") = w
    BY <2>1, InfoWrittenIs
  <2> HIDE DEF w
  <2> QED
    BY <1>9, <2>2, ConcatEmptySeq
<1>11. p = InfoParsed(u0, InfoWritten(u, "array"))
  <2> HIDE DEF w
  <2> QED
    BY <1>9, <1>10, InfoParsedIs DEF p
<1> HIDE DEF p
<1> QED
  BY <1>6, <1>8, <1>11, ParsedNothing, InfoMergedIs

\* A message the parser may merge into.
Takes(name, m) ==
  /\ HasFields(name, m)
  /\ \A f \in FieldsOf(name) :
       KindOf(name, f) = "UserInfo" => HasFields("UserInfo", InfoIn(m[f]))

\* So is a message within another.
LEMMA InnerRight ==
  ASSUME NEW name \in Names, NEW i \in 1..Len(Reads[name]),
         NEW m0, Takes(name, m0), NEW m,
         Reads[name][i][3] = "UserInfo",
         IsInner(m[Reads[name][i][2]]),
         m[Reads[name][i][2]] # Default(Reads[name][i][3])
  PROVE  FieldRight(name, m0, m, i)
<1>1. PICK tag, f, kind : Row(name, i, tag, f, kind)
  BY DEF Row
<1>2. f = Reads[name][i][2] /\ kind = Reads[name][i][3] /\ tag = Reads[name][i][1]
  BY <1>1 DEF Row
<1>3. PICK v : v = m[f]
  OBVIOUS
<1>4. f \in FieldsOf(name) /\ KindOf(name, f) = "UserInfo" /\ kind = "UserInfo" /\ f = "userinfo"
  BY <1>1, <1>2, RowIs
<1>5. IsInner(v) /\ v # <<>>
  BY <1>1, <1>2, <1>3, <1>4, DefaultIs
<1>6. PICK u : u = v[1]
  OBVIOUS
<1>7. PICK w \in Texts : w = InfoWritten(u, "array")
  BY <1>5, <1>6, InnerBytes
<1>8. IsInfo(u) /\ v = <<u>>
  BY <1>5, <1>6, InnerBytes
<1>9. PICK u0 : u0 = InfoIn(m0[f])
  OBVIOUS
<1>10. PICK p : p = InfoParsed(u0, w)
  OBVIOUS
<1>11. HasFields("UserInfo", u0) /\ HasFields(name, m0)
  BY <1>4, <1>9 DEF Takes
<1>12. IF TextsReadable("UserInfo", u) THEN p = Ended(InfoMerged(u0, u), <<>>) ELSE p.status = "failed"
  BY <1>7, <1>8, <1>10, <1>11, InfoIsRead
<1>13. Merged(name, m0, m)[f] = <<InfoMerged(u0, u)>>
  BY <1>1, <1>3, <1>4, <1>5, <1>6, <1>9, <1>11, DefaultIs, MergedInner
<1>14. ValueReadable(kind, v) <=> TextsReadable("UserInfo", u)
  <2>1. Len(v) = 1 /\ 1..1 = {1} /\ v[1] = u
    BY <1>8
  <2> QED
    BY <1>4, <2>1 DEF ValueReadable
<1>15. PICK W \in Seq(Bytes) : W = Prefixed(w)
  BY <1>7, PrefixedIs
<1>16. W = FieldBytes(kind, v, "array")
  BY <1>4, <1>6, <1>7, <1>15 DEF FieldBytes
<1>17. tag \in Int32s
  BY <1>1, RowIs
<1>18. ASSUME NEW mm, mm[f] = m0[f], NEW b, NEW x, Leads(name, m, i, b, x)
       PROVE  Round(name, Reading(mm, x)) =
                InnerTaken(mm, f, p, b)
  <2>0. Bears(name, i, tag, f, kind, m, W)
    BY <1>1, <1>3, <1>4, <1>5, <1>16, DefaultIs DEF Bears
  <2>1. PICK c : /\ Before(W, b, c) /\ Before(Varint(tag), c, x)
                 /\ Round(name, Reading(mm, x)) = FieldRead(mm, f, kind, c, InfoRead(mm.userinfo, x))
    BY <1>18, <2>0, RoundOfField
  <2>2. mm.userinfo = m0[f]
    BY <1>4, <1>18
  <2>3. InfoRead(m0[f], x) = InfoParsed(InfoIn(m0[f]), w)
    BY <1>7, <1>15, <1>17, <2>1, InnerBefore
  <2>4. \A inner : FieldRead(mm, f, "UserInfo", c, inner) = InnerTaken(mm, f, inner, b)
    BY <1>7, <1>15, <1>17, <2>1, InnerBefore
  <2>5. InfoRead(mm.userinfo, x) = p
    BY <1>9, <1>10, <2>2, <2>3
  <2> QED
    BY <1>4, <2>1, <2>4, <2>5
<1>19. ASSUME NEW mm, mm[f] = m0[f], NEW b, NEW x, Leads(name, m, i, b, x)
       PROVE  LET s == Round(name, Reading(mm, x))
              IN IF ValueReadable(kind, v)
                   THEN s = Reading([mm EXCEPT ![f] = <<InfoMerged(u0, u)>>], b)
                   ELSE s.status = "failed"
  <2>1. PICK s : s = Round(name, Reading(mm, x))
    OBVIOUS
  <2>2. s = Taken(mm, f, <<p.msg>>, p.status = "ended" /\ p.rest = <<>>, b)
    BY <1>18, <1>19, <2>1 DEF InnerTaken
  <2>3. CASE TextsReadable("UserInfo", u)
    <3>1. p.status = "ended" /\ p.rest = <<>> /\ p.msg = InfoMerged(u0, u)
      BY <1>12, <2>3, StatusOf
    <3> QED
      BY <1>14, <2>1, <2>2, <2>3, <3>1 DEF Taken
  <2>4. CASE ~TextsReadable("UserInfo", u)
    <3>1. p.status # "ended"
      BY <1>12, <2>4
    <3> QED
      BY <1>14, <2>1, <2>2, <2>4, <3>1, StatusOf DEF Taken
  <2> QED
    BY <2>3, <2>4
<1>20. \A mm : \A b \in Seq(Bytes) : \A x : mm[f] = m0[f] /\ x = Field(name, m, i) \o b =>
         LET s == Round(name, Reading(mm, x))
         IN IF ValueReadable(kind, m[f]) THEN s = Reading([mm EXCEPT ![f] = Merged(name, m0, m)[f]], b)
                                         ELSE s.status = "failed"
  BY <1>3, <1>13, <1>19 DEF Leads
<1> QED
  BY <1>2, <1>20 DEF FieldRight

\* A message is read as it was written, whatever follows and whatever it is merged into,
\* unless a text in it is no UTF-8.
THEOREM MessageIsRead ==
  ASSUME NEW name \in Names, NEW m0, Takes(name, m0),
         NEW m, IsMessage(name, m), NEW b \in Seq(Bytes)
  PROVE  LET p == Parsed(name, m0, FlattenSeq(Fields(name, m)) \o b)
         IN IF Readable(name, m) THEN p = Parsed(name, Merged(name, m0, m), b) ELSE p.status = "failed"
<1> DEFINE R == Reads[name]
<1>1. HasFields(name, m0)
  BY DEF Takes
<1>2. ASSUME NEW i \in 1..Len(R), m[R[i][2]] # Default(R[i][3])
      PROVE  FieldRight(name, m0, m, i)
  <2>1. R[i][2] \in FieldsOf(name) /\ KindOf(name, R[i][2]) = R[i][3]
    BY Rows
  <2>2. IsValue(R[i][3], m[R[i][2]])
    BY <2>1 DEF IsMessage
  <2>3. CASE R[i][3] = "UserInfo"
    BY <1>2, <2>2, <2>3, InnerRight DEF IsValue
  <2>4. CASE R[i][3] # "UserInfo"
    BY <1>1, <1>2, <2>2, <2>4, PlainRight DEF IsValue
  <2> QED
    BY <2>3, <2>4
<1> QED
  BY <1>1, <1>2, Chain

-----------------------------------------------------------------------------
(* Fields of a later version. *)

\* A message just made takes up any other, and becomes it.
LEMMA ClearedIs ==
  ASSUME NEW name \in Names
  PROVE  /\ HasFields(name, Cleared(name))
         /\ \A f \in FieldsOf(name) : Cleared(name)[f] = Default(KindOf(name, f))
BY DEF HasFields, Cleared

\* Where there is no message within yet, it is read into a new one.
LEMMA InfoOfNone == HasFields("UserInfo", InfoIn(<<>>)) /\ InfoIn(<<>>) = Cleared("UserInfo")
BY InfoIsName, ClearedIs DEF InfoIn

\* A new message can be read into,
LEMMA TakesCleared ==
  ASSUME NEW name \in Names
  PROVE  Takes(name, Cleared(name))
<1>1. ASSUME NEW f \in FieldsOf(name), KindOf(name, f) = "UserInfo"
      PROVE  HasFields("UserInfo", InfoIn(Cleared(name)[f]))
  BY <1>1, ClearedIs, DefaultIs, InfoOfNone
<1> QED
  BY <1>1, ClearedIs DEF Takes

\* and so can any other.
LEMMA TakesMessage ==
  ASSUME NEW name \in Names, NEW m, IsMessage(name, m)
  PROVE  Takes(name, m)
<1>1. ASSUME NEW f \in FieldsOf(name), KindOf(name, f) = "UserInfo"
      PROVE  HasFields("UserInfo", InfoIn(m[f]))
  <2>1. IsInner(m[f])
    BY <1>1, Zenon DEF IsMessage, IsValue
  <2>2. CASE m[f] = <<>>
    BY <2>2, InfoOfNone
  <2>3. CASE m[f] # <<>>
    <3>1. IsInfo(m[f][1])
      BY <2>1, <2>3, InnerBytes
    <3> QED
      BY <2>3, <3>1 DEF InfoIn, IsInfo
  <2> QED
    BY <2>2, <2>3
<1>2. HasFields(name, m)
  BY Zenon DEF IsMessage
<1> QED
  BY <1>1, <1>2 DEF Takes

\* A UserInfo merged into a new one is that UserInfo.
LEMMA MergedInfoIs ==
  ASSUME NEW u, IsInfo(u)
  PROVE  InfoMerged(Cleared("UserInfo"), u) = u
<1>1. HasFields("UserInfo", u) /\ HasFields("UserInfo", Cleared("UserInfo"))
  BY InfoIsName, ClearedIs DEF IsInfo
<1>2. Merges["UserInfo"] = FieldsOf("UserInfo")
  BY Rows, InfoIsName
<1>3. DOMAIN Cleared("UserInfo") = FieldsOf("UserInfo")
  BY DEF Cleared
<1>4. InfoMerged(Cleared("UserInfo"), u) =
        [f \in FieldsOf("UserInfo") |->
           IF Kept("UserInfo", f, u) THEN Cleared("UserInfo")[f] ELSE u[f]]
  BY <1>3 DEF InfoMerged
<1>5. \A f \in FieldsOf("UserInfo") : Kept("UserInfo", f, u) => Cleared("UserInfo")[f] = u[f]
  BY <1>2, InfoIsName, ClearedIs DEF Kept
<1> QED
  BY <1>1, <1>4, <1>5 DEF HasFields

\* A message merged into a new one is that message.
LEMMA MergedIs ==
  ASSUME NEW name \in Names, NEW m, IsMessage(name, m)
  PROVE  Merged(name, Cleared(name), m) = m
<1> DEFINE M == Merged(name, Cleared(name), m)
<1>1. HasFields(name, Cleared(name))
  BY ClearedIs
<1>2. ASSUME NEW f \in FieldsOf(name)
      PROVE  M[f] = m[f]
  <2>1. CASE m[f] = Default(KindOf(name, f))
    BY <1>1, <2>1, ClearedIs, MergedDefault
  <2>2. CASE m[f] # Default(KindOf(name, f)) /\ KindOf(name, f) # "UserInfo"
    BY <1>1, <2>2, MergedPlain
  <2>3. CASE m[f] # Default(KindOf(name, f)) /\ KindOf(name, f) = "UserInfo"
    <3>1. IsInner(m[f]) /\ m[f] # <<>>
      <4>1. IsInner(m[f])
        BY <2>3, Zenon DEF IsMessage, IsValue
      <4> QED
        BY <2>3, <4>1, DefaultIs
    <3>2. m[f] = <<m[f][1]>> /\ IsInfo(m[f][1])
      BY <3>1, InnerBytes
    <3>3. Cleared(name)[f] = <<>>
      BY <2>3, ClearedIs, DefaultIs
    <3>4. M[f] = <<InfoMerged(InfoIn(Cleared(name)[f]), m[f][1])>>
      BY <1>1, <2>3, MergedInner
    <3>5. InfoIn(Cleared(name)[f]) = Cleared("UserInfo")
      BY <3>3, InfoOfNone
    <3>6. InfoMerged(Cleared("UserInfo"), m[f][1]) = m[f][1]
      BY <3>2, MergedInfoIs
    <3> HIDE DEF M
    <3> QED
      BY <3>2, <3>4, <3>5, <3>6
  <2> QED
    BY <2>1, <2>2, <2>3
<1>3. M = [f \in FieldsOf(name) |-> M[f]]
  BY <1>1, MergedFunction
<1>4. m = [f \in FieldsOf(name) |-> m[f]]
  BY DEF IsMessage, HasFields
<1> HIDE DEF M
<1>5. M = m
  BY <1>2, <1>3, <1>4
<1> QED
  BY <1>5 DEF M

-----------------------------------------------------------------------------
\* A field no method of the message knows: a number, eight bytes, a text or four bytes
\* behind a tag of its own.
UnknownField(name, x) ==
  \E tag \in Int32s :
    /\ tag # 0 /\ \A r \in ToSet(Reads[name]) : r[1] # tag
    /\ \/ tag % 8 = 0 /\ \E n \in Int32s : x = Varint(tag) \o Varint(n)
       \/ tag % 8 = 1 /\ \E t \in Seq(Bytes) : Len(t) = 8 /\ x = Varint(tag) \o t
       \/ tag % 8 = 2 /\ \E t \in Texts : x = Varint(tag) \o Prefixed(t)
       \/ tag % 8 = 5 /\ \E t \in Seq(Bytes) : Len(t) = 4 /\ x = Varint(tag) \o t

\* Fields of a later version of the message, one behind the other.
UnknownFields(name, strange) ==
  \E n \in Nat : \E xs \in [1..n -> Seq(Bytes)] :
    (\A i \in 1..n : UnknownField(name, xs[i])) /\ strange = FlattenSeq(xs)

\* What is behind the tag is skipped, whatever follows.
Passes(tag, t) ==
  t \in Seq(Bytes) /\ \A b \in Seq(Bytes) : Skipped(tag, t \o b).ok /\ Skipped(tag, t \o b).rest = b

\* An unknown number is skipped,
LEMMA NumberSkipped ==
  ASSUME NEW tag \in Int32s, tag % 8 = 0, NEW n \in Int32s
  PROVE  Passes(tag, Varint(n))
<1>1. Varint(n) \in Seq(Bytes)
  BY VarintIsBytes
<1>2. ASSUME NEW b \in Seq(Bytes)
      PROVE  Skipped(tag, Varint(n) \o b).ok /\ Skipped(tag, Varint(n) \o b).rest = b
  <2>1. PICK y : y = Varint(n) \o b
    OBVIOUS
  <2>2. PICK v : v = ReadVarint(y)
    OBVIOUS
  <2>3. v = [ok |-> TRUE, value |-> n, rest |-> b]
    BY <2>1, <2>2, VarintIsRead
  <2>4. v.ok /\ v.rest = b
    BY <2>3
  <2>5. Skipped(tag, y) = [ok |-> v.ok, rest |-> v.rest]
    BY <2>2 DEF Skipped
  <2> QED
    BY <2>1, <2>4, <2>5
<1> QED
  BY <1>1, <1>2 DEF Passes

\* and one of a fixed size,
LEMMA FixedSkipped ==
  ASSUME NEW tag \in Int32s, NEW t \in Seq(Bytes),
         (tag % 8 = 1 /\ Len(t) = 8) \/ (tag % 8 = 5 /\ Len(t) = 4)
  PROVE  Passes(tag, t)
<1>1. ASSUME NEW b \in Seq(Bytes)
      PROVE  Skipped(tag, t \o b).ok /\ Skipped(tag, t \o b).rest = b
  <2>1. PICK y \in Seq(Bytes) : y = t \o b
    BY ConcatProperties
  <2>2. Len(y) = Len(t) + Len(b) /\ From(y, Len(t) + 1) = b
    BY <2>1, Behind
  <2>3. Skipped(tag, y) = [ok |-> Len(y) >= Len(t), rest |-> From(y, Len(t) + 1)]
    <3>1. CASE tag % 8 = 1 /\ Len(t) = 8
      BY <3>1 DEF Skipped
    <3>2. CASE tag % 8 = 5 /\ Len(t) = 4
      BY <3>2 DEF Skipped
    <3> QED
      BY <3>1, <3>2
  <2>4. (Len(y) >= Len(t)) = TRUE
    BY <2>2
  <2>5. Skipped(tag, y) = [ok |-> TRUE, rest |-> b]
    BY <2>2, <2>3, <2>4, Zenon
  <2>6. Skipped(tag, y).ok /\ Skipped(tag, y).rest = b
    BY <2>5
  <2> QED
    BY <2>1, <2>6, Zenon
<1> QED
  BY <1>1 DEF Passes

\* and a text.
LEMMA TextSkipped ==
  ASSUME NEW tag \in Int32s, tag % 8 = 2, NEW t \in Texts
  PROVE  Passes(tag, Prefixed(t))
<1>1. Prefixed(t) \in Seq(Bytes)
  BY PrefixedIs
<1>2. ASSUME NEW b \in Seq(Bytes)
      PROVE  Skipped(tag, Prefixed(t) \o b).ok /\ Skipped(tag, Prefixed(t) \o b).rest = b
  <2>1. t \in Seq(Bytes) /\ Len(t) \in Nat /\ Len(t) \in Int32s
    BY TextLen
  <2>2. PICK c \in Seq(Bytes) : c = t \o b
    BY <2>1, ConcatProperties
  <2>3. PICK y : y = Prefixed(t) \o b
    OBVIOUS
  <2>4. y = Varint(Len(t)) \o c
    BY <2>2, <2>3, PrefixedIs
  <2>5. PICK v : v = ReadVarint(y)
    OBVIOUS
  <2>6. v = [ok |-> TRUE, value |-> Len(t), rest |-> c]
    BY <2>1, <2>4, <2>5, VarintIsRead
  <2>7. v.ok = TRUE /\ v.value = Len(t) /\ v.rest = c
    BY <2>6
  <2>8. From(c, Len(t) + 1) = b /\ Len(c) = Len(t) + Len(b)
    BY <2>1, <2>2, Behind
  <2>9. Skipped(tag, y) = [ok |-> v.ok /\ v.value \in 0..Len(v.rest), rest |-> From(v.rest, v.value + 1)]
    BY <2>5 DEF Skipped
  <2>10. (v.ok /\ v.value \in 0..Len(v.rest)) = TRUE
    <3>1. Len(t) \in 0..(Len(t) + Len(b))
      BY <2>1
    <3> QED
      BY <2>7, <2>8, <3>1
  <2>11. From(v.rest, v.value + 1) = b
    BY <2>7, <2>8
  <2>12. Skipped(tag, y) = [ok |-> TRUE, rest |-> b]
    BY <2>9, <2>10, <2>11, Zenon
  <2>13. Skipped(tag, y).ok /\ Skipped(tag, y).rest = b
    BY <2>12
  <2> QED
    BY <2>3, <2>13, Zenon
<1> QED
  BY <1>1, <1>2 DEF Passes

\* A round over an unknown field takes it away.
LEMMA UnknownRound ==
  ASSUME NEW name, NEW tag, Strays(name, tag), NEW t, Passes(tag, t),
         NEW m, NEW b, NEW c, Before(t, b, c), NEW y, Before(Varint(tag), c, y)
  PROVE  Round(name, Reading(m, y)) = Reading(m, b)
<1>1. c \in Seq(Bytes) /\ y = Varint(tag) \o c /\ b \in Seq(Bytes) /\ c = t \o b
  BY DEF Before
<1>2. Skips(tag, c, b)
  BY <1>1 DEF Passes, Skips
<1>3. \A inner : RoundOf(name, Reading(m, Varint(tag) \o c), inner) = Reading(m, b)
  BY <1>2, RoundOfUnknown
<1> QED
  BY <1>1, <1>2, <1>3, RoundIs

\* So does the parser.
LEMMA UnknownSkipped ==
  ASSUME NEW name \in Names, NEW m, NEW x, UnknownField(name, x), NEW b \in Seq(Bytes)
  PROVE  x \in Seq(Bytes) /\ Parsed(name, m, x \o b) = Parsed(name, m, b)
<1>1. PICK tag \in Int32s :
        /\ tag # 0 /\ \A r \in ToSet(Reads[name]) : r[1] # tag
        /\ \/ tag % 8 = 0 /\ \E n \in Int32s : x = Varint(tag) \o Varint(n)
           \/ tag % 8 = 1 /\ \E t \in Seq(Bytes) : Len(t) = 8 /\ x = Varint(tag) \o t
           \/ tag % 8 = 2 /\ \E t \in Texts : x = Varint(tag) \o Prefixed(t)
           \/ tag % 8 = 5 /\ \E t \in Seq(Bytes) : Len(t) = 4 /\ x = Varint(tag) \o t
  BY DEF UnknownField
<1>2. tag % 8 # 4
  BY <1>1
<1>3. \E t : x = Varint(tag) \o t /\ Passes(tag, t)
  BY <1>1, NumberSkipped, FixedSkipped, TextSkipped, Zenon
<1>4. PICK t : x = Varint(tag) \o t /\ Passes(tag, t)
  BY <1>3
<1>5. t \in Seq(Bytes)
  BY <1>4 DEF Passes
<1>6. PICK v \in Seq(Bytes) : v = Varint(tag)
  BY VarintIsBytes
<1>7. PICK c \in Seq(Bytes) : c = t \o b
  BY <1>5, ConcatProperties
<1>8. x \in Seq(Bytes) /\ x \o b = v \o c /\ v \o c \in Seq(Bytes)
  BY <1>4, <1>5, <1>6, <1>7, ConcatProperties, ConcatAssociative
<1>9. PICK y \in Seq(Bytes) : y = v \o c
  BY <1>8
<1>10. Strays(name, tag) /\ Before(t, b, c) /\ Before(Varint(tag), c, y)
  BY <1>1, <1>2, <1>5, <1>6, <1>7, <1>9 DEF Strays, Before
<1>11. Round(name, Reading(m, y)) = Reading(m, b)
  BY <1>4, <1>10, UnknownRound
<1>12. Parsed(name, m, y) = Parsed(name, m, b)
  <2>1. PICK s : s = Round(name, Reading(m, y))
    OBVIOUS
  <2>2. s.status = "reading" /\ s.msg = m /\ s.rest = b
    BY <1>11, <2>1, StatusOf
  <2> QED
    BY <2>1, <2>2, ParsedUnfolds
<1> QED
  BY <1>8, <1>9, <1>12

\* Bytes can be joined in any order.
LEMMA Associates ==
  ASSUME NEW a \in Seq(Bytes), NEW b \in Seq(Bytes), NEW c \in Seq(Bytes)
  PROVE  (a \o b) \o c = a \o (b \o c)
BY ConcatAssociative

\* Any number of unknown fields before a message is as none.
LEMMA StrangeSkipped ==
  ASSUME NEW name \in Names, NEW m, NEW strange, UnknownFields(name, strange), NEW b \in Seq(Bytes)
  PROVE  strange \in Seq(Bytes) /\ Parsed(name, m, strange \o b) = Parsed(name, m, b)
<1>1. PICK n \in Nat : \E xs \in [1..n -> Seq(Bytes)] :
        (\A i \in 1..n : UnknownField(name, xs[i])) /\ strange = FlattenSeq(xs)
  BY DEF UnknownFields
<1>2. PICK xs \in [1..n -> Seq(Bytes)] :
        (\A i \in 1..n : UnknownField(name, xs[i])) /\ strange = FlattenSeq(xs)
  BY <1>1
<1>3. PICK F : Joins(F, Bytes, n, xs)
  BY <1>2, Joined
<1>4. /\ F[0] = <<>> /\ strange = F[n]
      /\ \A k \in 0..n : F[k] \in Seq(Bytes)
      /\ \A k \in 0..(n - 1) : F[k + 1] = F[k] \o xs[k + 1]
  BY <1>2, <1>3 DEF Joins
<1> DEFINE Over(k, c) == Parsed(name, m, F[k] \o c) = Parsed(name, m, c)
           S == {k \in Nat : k <= n => \A c \in Seq(Bytes) : Over(k, c)}
<1>5. 0 \in S
  BY <1>4, ConcatEmptySeq
<1>6. ASSUME NEW k \in Nat, k \in S
      PROVE  k + 1 \in S
  <2> SUFFICES ASSUME k + 1 <= n, NEW c \in Seq(Bytes)
               PROVE  Over(k + 1, c)
    OBVIOUS
  <2>1. k \in 0..(n - 1) /\ k \in 0..n /\ k + 1 \in 1..n /\ k <= n
    OBVIOUS
  <2>2. PICK x \in Seq(Bytes) : x = xs[k + 1]
    BY <1>2, <2>1
  <2>3. PICK A \in Seq(Bytes) : A = F[k]
    BY <1>4, <2>1
  <2>4. PICK d \in Seq(Bytes) : d = x \o c
    BY ConcatProperties
  <2>5. F[k + 1] \o c = A \o d
    <3>1. F[k + 1] = A \o x
      BY <1>4, <2>1, <2>2, <2>3
    <3>2. (A \o x) \o c = A \o (x \o c)
      BY Associates
    <3> QED
      BY <2>4, <3>1, <3>2, Zenon
  <2>6. Parsed(name, m, A \o d) = Parsed(name, m, d)
    BY <1>6, <2>1, <2>3
  <2>7. UnknownField(name, x)
    BY <1>2, <2>1, <2>2
  <2>8. Parsed(name, m, x \o c) = Parsed(name, m, c)
    BY <2>7, UnknownSkipped
  <2> QED
    BY <2>4, <2>5, <2>6, <2>8
<1> HIDE DEF Over, S
<1>7. n \in S
  BY <1>5, <1>6, Induction
<1>8. Over(n, b)
  BY <1>7 DEF S
<1>9. strange \in Seq(Bytes)
  BY <1>4
<1> QED
  BY <1>4, <1>8, <1>9 DEF Over

-----------------------------------------------------------------------------
(* The five methods agree. *)

\* A message of which nothing is left to read is what it was when it was written.
LEMMA WholeIsRead ==
  ASSUME NEW name \in Names, NEW m0, Takes(name, m0), NEW m, IsMessage(name, m)
  PROVE  LET p == Parsed(name, m0, FlattenSeq(Fields(name, m)))
         IN IF Readable(name, m) THEN p = Ended(Merged(name, m0, m), <<>>) ELSE p.status = "failed"
<1>1. PICK w : w = FlattenSeq(Fields(name, m))
  OBVIOUS
<1>2. w \in Seq(Bytes)
  <2>1. "array" \in Versions
    BY DEF Versions
  <2> QED
    BY <1>1, <2>1, BytesCounted, WrittenIs
<1>3. w \o <<>> = w /\ <<>> \in Seq(Bytes)
  BY <1>2, ConcatEmptySeq
<1>4. LET p == Parsed(name, m0, w)
      IN IF Readable(name, m) THEN p = Parsed(name, Merged(name, m0, m), <<>>) ELSE p.status = "failed"
  BY <1>1, <1>3, MessageIsRead
<1> QED
  BY <1>1, <1>4, ParsedNothing

\* The methods of every message agree, whatever its fields hold.
THEOREM MessagesAgree ==
  ASSUME NEW name \in Names, NEW m, IsMessage(name, m), NEW other, IsMessage(name, other),
         NEW strange, UnknownFields(name, strange)
  PROVE  Agreeing(name, m, other, strange)
<1>1. PICK bytes : bytes = FlattenSeq(Fields(name, m))
  OBVIOUS
<1>2. PICK more : more = FlattenSeq(Fields(name, other))
  OBVIOUS
<1>3. "stream" \in Versions /\ "array" \in Versions
  BY DEF Versions
<1>4. Written(name, m, "stream") = bytes /\ Serialized(name, m) = bytes /\ Serialized(name, other) = more
  BY <1>1, <1>2, <1>3, WrittenIs DEF Serialized
<1>5. bytes \in Seq(Bytes) /\ more \in Seq(Bytes) /\ ByteSize(name, m) = Len(bytes)
  <2>1. Written(name, m, "array") = bytes /\ Written(name, other, "array") = more
    BY <1>4 DEF Serialized
  <2> QED
    BY <1>3, <2>1, BytesCounted
<1>6. PICK read : read = Parsed(name, Cleared(name), strange \o bytes)
  OBVIOUS
<1>7. read = Parsed(name, Cleared(name), bytes)
  BY <1>5, <1>6, StrangeSkipped
<1>8. IF Readable(name, m) THEN read = Ended(m, <<>>) ELSE read.status = "failed"
  BY <1>1, <1>7, TakesCleared, MergedIs, WholeIsRead
<1>9. /\ Readable(name, m) => read.status = "ended" /\ read.rest = <<>> /\ read.msg = m
      /\ ~Readable(name, m) => read.status = "failed"
  BY <1>8, StatusOf
<1>10. ASSUME Readable(name, m), Readable(name, other)
       PROVE  Parse(name, bytes \o more) = Merged(name, m, other)
  <2>1. Parsed(name, Cleared(name), bytes \o more) = Parsed(name, m, more)
    BY <1>1, <1>5, <1>10, TakesCleared, MergedIs, MessageIsRead
  <2>2. Parsed(name, m, more) = Ended(Merged(name, m, other), <<>>)
    BY <1>2, <1>10, TakesMessage, WholeIsRead
  <2>3. Parsed(name, Cleared(name), bytes \o more).msg = Merged(name, m, other)
    BY <2>1, <2>2, StatusOf
  <2> QED
    BY <2>3, Zenon DEF Parse
<1>11. (read.status = "ended") = Readable(name, m)
  <2>1. Readable(name, m) \in BOOLEAN
    BY DEF Readable
  <2>2. read.status = "ended" <=> Readable(name, m)
    BY <1>9
  <2> QED
    BY <2>1, <2>2
<1> QED
  BY <1>4, <1>5, <1>6, <1>9, <1>10, <1>11, Zenon DEF Agreeing

\* The sample of a run's message is one of the program's.
MessageSample ==
  Of("message") =>
    /\ sample.name \in Names
    /\ IsMessage(sample.name, sample.msg) /\ IsMessage(sample.name, sample.other)
    /\ UnknownFields(sample.name, sample.strange)

\* MessageRoundTrip holds of every message with every message behind it and every list of
\* unknown fields before it, not only those a run tries.
THEOREM MessagesRoundTrip == MessageSample => MessageRoundTrip
BY MessagesAgree, Zenon DEF MessageSample, MessageRoundTrip

-----------------------------------------------------------------------------
(* Masks. *)

\* What eight bits are worth.
Worth(x0, x1, x2, x3, x4, x5, x6, x7) ==
  x0 + 2 * x1 + 4 * x2 + 8 * x3 + 16 * x4 + 32 * x5 + 64 * x6 + 128 * x7

\* A number below 256 has the bits it is made of,
LEMMA BitsOf ==
  ASSUME NEW x0 \in 0..1, NEW x1 \in 0..1, NEW x2 \in 0..1, NEW x3 \in 0..1,
         NEW x4 \in 0..1, NEW x5 \in 0..1, NEW x6 \in 0..1, NEW x7 \in 0..1,
         NEW x, x = Worth(x0, x1, x2, x3, x4, x5, x6, x7)
  PROVE  /\ x \in Bytes
         /\ (x \div 1) % 2 = x0 /\ (x \div 2) % 2 = x1 /\ (x \div 4) % 2 = x2 /\ (x \div 8) % 2 = x3
         /\ (x \div 16) % 2 = x4 /\ (x \div 32) % 2 = x5 /\ (x \div 64) % 2 = x6 /\ (x \div 128) % 2 = x7
BY SMT DEF Worth, Bytes

\* and is made of the bits it has.
LEMMA BitsAre ==
  ASSUME NEW a \in Bytes
  PROVE  a = Worth((a \div 1) % 2, (a \div 2) % 2, (a \div 4) % 2, (a \div 8) % 2,
                   (a \div 16) % 2, (a \div 32) % 2, (a \div 64) % 2, (a \div 128) % 2)
BY SMT DEF Worth, Bytes

\* Masking a byte gives a byte, and masking it again with the same one gives it back.
LEMMA XorIs ==
  ASSUME NEW a \in Bytes, NEW b \in Bytes
  PROVE  Xor(a, b) \in Bytes /\ Xor(Xor(a, b), b) = a
<1> DEFINE D(y, w) == Differing(a, b, w)
           x(w) == IF (a \div w) % 2 = (b \div w) % 2 THEN 0 ELSE 1
<1>1. a \in Int /\ b \in Int
  BY BytesAreInt
<1>2. \A w \in {1, 2, 4, 8, 16, 32, 64, 128} : x(w) \in 0..1 /\ Differing(a, b, w) = w * x(w)
  BY <1>1, SMT DEF Differing
<1> HIDE DEF x
<1>3. PICK X : X = Xor(a, b)
  OBVIOUS
<1>4. X = Worth(x(1), x(2), x(4), x(8), x(16), x(32), x(64), x(128))
  BY <1>2, <1>3, SMT DEF Xor, Worth
<1>5. X \in Bytes /\ (X \div 1) % 2 = x(1) /\ (X \div 2) % 2 = x(2) /\ (X \div 4) % 2 = x(4) /\ (X \div 8) % 2 = x(8)
         /\ (X \div 16) % 2 = x(16) /\ (X \div 32) % 2 = x(32) /\ (X \div 64) % 2 = x(64) /\ (X \div 128) % 2 = x(128)
  <2>1. x(1) \in 0..1 /\ x(2) \in 0..1 /\ x(4) \in 0..1 /\ x(8) \in 0..1 /\ x(16) \in 0..1 /\ x(32) \in 0..1
        /\ x(64) \in 0..1 /\ x(128) \in 0..1
    BY <1>2, SMT
  <2> QED
    BY <1>4, <2>1, BitsOf, SMT
<1>6. \A w \in {1, 2, 4, 8, 16, 32, 64, 128} : Differing(X, b, w) = w * ((a \div w) % 2)
  <2>1. \A w \in {1, 2, 4, 8, 16, 32, 64, 128} : (X \div w) % 2 = x(w)
    BY <1>5, SMT
  <2>2. \A w \in {1, 2, 4, 8, 16, 32, 64, 128} : (a \div w) % 2 \in 0..1 /\ (b \div w) % 2 \in 0..1
    BY <1>1, SMT
  <2> QED
    BY <2>1, <2>2, SMT DEF Differing, x
<1>7. Xor(X, b) = a
  <2> DEFINE y(w) == (a \div w) % 2
  <2>1. /\ Differing(X, b, 1) = y(1) /\ Differing(X, b, 2) = 2 * y(2)
        /\ Differing(X, b, 4) = 4 * y(4) /\ Differing(X, b, 8) = 8 * y(8)
        /\ Differing(X, b, 16) = 16 * y(16) /\ Differing(X, b, 32) = 32 * y(32)
        /\ Differing(X, b, 64) = 64 * y(64) /\ Differing(X, b, 128) = 128 * y(128)
    BY <1>1, <1>6, SMT
  <2>2. a = y(1) + 2 * y(2) + 4 * y(4) + 8 * y(8) + 16 * y(16) + 32 * y(32) + 64 * y(64) + 128 * y(128)
    BY BitsAre, SMT DEF Worth
  <2>3. Xor(X, b) = Differing(X, b, 1) + Differing(X, b, 2) + Differing(X, b, 4) + Differing(X, b, 8)
          + Differing(X, b, 16) + Differing(X, b, 32) + Differing(X, b, 64) + Differing(X, b, 128)
    BY SMT DEF Xor
  <2> HIDE DEF y
  <2> QED
    BY <2>1, <2>2, <2>3, Zenon
<1> QED
  BY <1>3, <1>5, <1>7

-----------------------------------------------------------------------------
(* Headers and Packages. *)

\* Two bytes, and four.
LEMMA TwoAreBytes ==
  ASSUME NEW a \in Bytes, NEW b \in Bytes
  PROVE  << a, b >> \in Seq(Bytes)
  BY SMT

LEMMA FourAreBytes ==
  ASSUME NEW a \in Bytes, NEW b \in Bytes, NEW c \in Bytes, NEW d \in Bytes
  PROVE  << a, b, c, d >> \in Seq(Bytes)
  BY SMT

\* The header of a data frame with a short size is two or four bytes.
LEMMA HeaderIs ==
  ASSUME NEW opcode \in {TextFrame, BinaryFrame}, NEW size, Short(size),
         NEW h, h = ClientHeader(opcode, 0, size)
  PROVE  h \in Seq(Bytes) /\ Len(h) \in {2, 4}
<1>0. opcode \in {1, 2} /\ size \in Nat
  BY SMT DEF TextFrame, BinaryFrame, Short
<1>1. CASE size <= 125
  <2>1. h = <<128 + opcode, 128 + size>>
    BY <1>0, <1>1, SMT DEF ClientHeader
  <2>2. 128 + opcode \in Bytes /\ 128 + size \in Bytes
    BY <1>0, <1>1, SMT DEF Bytes
  <2>3. h \in Seq(Bytes)
    BY <2>1, <2>2, TwoAreBytes, Zenon
  <2>4. Len(h) = 2
    BY <2>1, SMT
  <2> QED
    BY <2>3, <2>4
<1>2. CASE ~(size <= 125)
  <2>1. h = <<128 + opcode, 254, size \div 256, size % 256>>
    BY <1>0, <1>2, SMT DEF ClientHeader, Short
  <2>2. size \div 256 \in 0..255 /\ size % 256 \in 0..255
    <3>1. size <= 65535
      BY SMT DEF Short
    <3> QED
      BY <1>0, <3>1, TwoBytes
  <2>3. 128 + opcode \in Bytes /\ 254 \in Bytes /\ size \div 256 \in Bytes /\ size % 256 \in Bytes
    BY <1>0, <2>2, SMT DEF Bytes
  <2>4. h \in Seq(Bytes)
    <3>1. PICK a, b, c, d : a = 128 + opcode /\ b = 254 /\ c = size \div 256 /\ d = size % 256
      BY Zenon
    <3>2. a \in Bytes /\ b \in Bytes /\ c \in Bytes /\ d \in Bytes
      BY <2>3, <3>1
    <3>3. h = << a, b, c, d >>
      BY <2>1, <3>1
    <3> QED
      BY <3>2, <3>3, FourAreBytes, Zenon
  <2>5. Len(h) = 4
    BY <2>1, SMT
  <2> QED
    BY <2>4, <2>5
<1> QED
  BY <1>1, <1>2

\* The header of a client's data frame, what begins
\* with a header, and a read that has a byte of the payload.
Heads(h, opcode, size) ==
  h \in Seq(Bytes) /\ Len(h) \in {2, 4} /\ h = ClientHeader(opcode, 0, size) /\ opcode \in {TextFrame, BinaryFrame}

Starts(g, h) == \A i \in 1..Len(h) : g[i] = h[i]
Enough(n, h) == n \in Nat /\ n >= Len(h) + 5

\* The header of a data frame with a short size is read from its own bytes alone.
LEMMA HeaderIsRead ==
  ASSUME NEW h, NEW opcode, NEW size, Heads(h, opcode, size), Short(size),
         NEW g, Starts(g, h), NEW got, Enough(got, h)
  PROVE  DeCoded(g, got) = Found(h, opcode, size)
<1>1. opcode \in {TextFrame, BinaryFrame} /\ h = ClientHeader(opcode, 0, size)
  BY DEF Heads
<1>2. size \in Nat /\ size <= 65535
  BY SMT DEF Short
<1>3. got \in Nat /\ got >= Len(h) + 5
  BY DEF Enough
<1>4. SizedHeader(h, opcode, size) /\ Headed(h, size)
  BY <1>1, <1>2, HeaderTells
<1>5. SizedHeader(g, opcode, size)
  <2>1. CASE size <= 125
    <3>1. g[1] = h[1] /\ g[2] = h[2]
      BY <1>4, <2>1 DEF Starts, Headed
    <3> QED
      BY <1>2, <1>4, <2>1, <3>1 DEF SizedHeader
  <2>2. CASE ~(size <= 125)
    <3>1. g[1] = h[1] /\ g[2] = h[2] /\ g[3] = h[3] /\ g[4] = h[4]
      BY <1>4, <2>2 DEF Starts, Headed
    <3> QED
      BY <1>2, <1>4, <2>2, <3>1 DEF SizedHeader
  <2> QED
    BY <2>1, <2>2
<1>6. Told(g, got, h, opcode, size)
  BY <1>1, <1>2, <1>3, <1>4, <1>5 DEF Told
<1>7. IsFound(g, got, h, opcode, size)
  BY <1>6, FoundIs, Zenon
<1> QED
  BY <1>7, Zenon DEF IsFound

\* What a client's Package is when it is written: what has its length in it, and its data.
LEMMA PackageFields ==
  /\ Len(Reads["Package"]) = 2
  /\ Reads["Package"][1] = <<8, "msgID", "int32">> /\ Reads["Package"][2] = <<18, "msgData", "bytes">>
  /\ "Package" \in Names
  /\ FieldsOf("Package") = {"msgID", "msgData"}
  /\ KindOf("Package", "msgID") = "int32" /\ KindOf("Package", "msgData") = "bytes"
<1>1. Reads["Package"] = <<<<8, "msgID", "int32">>, <<18, "msgData", "bytes">>>>
  BY DEF Reads, Package_Reads, IntOf, BytesOf
<1>2. "Package" \in Names
  BY DEF Names, Reads
<1>3. /\ Len(Reads["Package"]) = 2
      /\ Reads["Package"][1] = <<8, "msgID", "int32">> /\ Reads["Package"][2] = <<18, "msgData", "bytes">>
  BY <1>1
<1>4. /\ FieldsOf("Package") = {Reads["Package"][i][2] : i \in 1..2}
      /\ \A i \in 1..2 : KindOf("Package", Reads["Package"][i][2]) = Reads["Package"][i][3]
  BY <1>2, <1>3, Rows
<1> QED
  BY <1>2, <1>3, <1>4

\* A number and a text are a Package,
LEMMA PackageIs ==
  ASSUME NEW n \in Int32s, NEW data \in Texts
  PROVE  IsMessage("Package", [msgID |-> n, msgData |-> data])
<1> DEFINE p == [msgID |-> n, msgData |-> data]
<1>1. DOMAIN p = {"msgID", "msgData"} /\ p.msgID = n /\ p.msgData = data
  OBVIOUS
<1>2. p = [f \in {"msgID", "msgData"} |-> p[f]]
  OBVIOUS
<1>3. IsValue("int32", n) /\ IsValue("bytes", data)
  BY DEF IsValue, IsPlain
<1> HIDE DEF p
<1> QED
  BY <1>1, <1>2, <1>3, PackageFields DEF IsMessage, HasFields, p

\* and a Package is no more than that.
LEMMA PackageHas ==
  ASSUME NEW p, IsMessage("Package", p)
  PROVE  /\ p.msgID \in Int32s /\ p.msgData \in Texts
         /\ p = [msgID |-> p.msgID, msgData |-> p.msgData]
<1>1. p = [f \in {"msgID", "msgData"} |-> p[f]]
  BY PackageFields DEF IsMessage, HasFields
<1>2. p.msgID \in Int32s /\ p.msgData \in Texts
  BY PackageFields DEF IsMessage, IsValue, IsPlain
<1> QED
  BY <1>1, <1>2

-----------------------------------------------------------------------------
(* A Package read as it was written. *)

\* Two sequences joined.
LEMMA TwoJoined ==
  ASSUME NEW xs \in [1..2 -> Seq(Bytes)]
  PROVE  FlattenSeq(xs) = xs[1] \o xs[2] /\ xs[1] \in Seq(Bytes) /\ xs[2] \in Seq(Bytes)
<1>1. PICK F : Joins(F, Bytes, 2, xs)
  BY Joined
<1>2. F[0] = <<>> /\ FlattenSeq(xs) = F[2] /\ \A k \in 0..1 : F[k + 1] = F[k] \o xs[k + 1]
  <2>1. 2 - 1 = 1
    OBVIOUS
  <2> QED
    BY <1>1, <2>1, Zenon DEF Joins
<1>3. F[0 + 1] = F[0] \o xs[0 + 1] /\ F[1 + 1] = F[1] \o xs[1 + 1]
  <2>1. 0 \in 0..1 /\ 1 \in 0..1
    OBVIOUS
  <2> QED
    BY <1>2, <2>1, Zenon
<1>4. 0 + 1 = 1 /\ 1 + 1 = 2 /\ xs[1] \in Seq(Bytes) /\ xs[2] \in Seq(Bytes)
  OBVIOUS
<1>5. F[1] = <<>> \o xs[1] /\ F[2] = F[1] \o xs[2]
  BY <1>2, <1>3, <1>4, Zenon
<1>6. <<>> \o xs[1] = xs[1]
  BY <1>4, ConcatEmptySeq
<1> QED
  BY <1>2, <1>4, <1>5, <1>6, Zenon

\* x, y and u joined in either order.
Associated(x, y, u) == (x \o y) \o u = x \o (y \o u)

\* What a Package's bytes end with is its data.
LEMMA PackageEnds ==
  ASSUME NEW n \in Int32s, NEW k \in Nat, k \in Int32s
  PROVE  \E pre \in Seq(Bytes) :
           /\ n # 0 => Len(pre) > 0
           /\ \A data \in Seq(Bytes) : Len(data) = k =>
                Serialized("Package", [msgID |-> n, msgData |-> data]) = pre \o data
<1>0. /\ <<>> \in Seq(Bytes)
      /\ \A x, y \in Seq(Bytes) : x \o y \in Seq(Bytes)
      /\ \A x, y \in Seq(Bytes) : \A u \in Seq(Bytes) : Associated(x, y, u)
  <2>1. \A x, y \in Seq(Bytes) : x \o y \in Seq(Bytes)
    BY ConcatProperties
  <2>2. \A x, y, u \in Seq(Bytes) : Associated(x, y, u)
    BY Associates DEF Associated
  <2> QED
    BY <2>1, <2>2, EmptySeq
<1>1. 8 \in Int32s /\ 18 \in Int32s
  BY SmallInt, SMT
<1>2. PICK v8 \in Seq(Bytes) : v8 = Varint(8) /\ Len(v8) > 0
  <2>1. Varint(8) \in Seq(Bytes) /\ Len(Varint(8)) \in 1..10
    BY <1>1, VarintIsBytes, ZenonT(30)
  <2>2. PICK m \in 1..10 : m = Len(Varint(8))
    BY <2>1
  <2>3. Len(Varint(8)) > 0
    BY <2>2
  <2> QED
    BY <2>1, <2>3, Zenon
<1>3. PICK vn \in Seq(Bytes) : vn = Varint(n)
  BY VarintIsBytes
<1>4. PICK v18 \in Seq(Bytes) : v18 = Varint(18)
  BY <1>1, VarintIsBytes
<1>5. PICK vk \in Seq(Bytes) : vk = Varint(k)
  BY VarintIsBytes
<1>6. PICK a \in Seq(Bytes) : a = IF n = 0 THEN <<>> ELSE v8 \o vn
  <2>1. v8 \o vn \in Seq(Bytes) /\ <<>> \in Seq(Bytes)
    BY <1>0
  <2> QED
    BY <2>1, Zenon
<1>7. PICK c \in Seq(Bytes) : c = IF k = 0 THEN <<>> ELSE v18 \o vk
  <2>1. v18 \o vk \in Seq(Bytes) /\ <<>> \in Seq(Bytes)
    BY <1>0
  <2> QED
    BY <2>1, Zenon
<1>8. n # 0 => Len(a) > 0
  <2>1. Len(v8 \o vn) = Len(v8) + Len(vn) /\ Len(vn) \in Nat
    BY ConcatProperties
  <2> QED
    BY <1>2, <1>6, <2>1
<1>9. PICK pre \in Seq(Bytes) : pre = a \o c /\ Len(pre) = Len(a) + Len(c)
  BY ConcatProperties
<1>10. n # 0 => Len(pre) > 0
  BY <1>8, <1>9
<1>11. ASSUME NEW data \in Seq(Bytes), Len(data) = k
       PROVE  Serialized("Package", [msgID |-> n, msgData |-> data]) = pre \o data
  <2>1. PICK p : p = [msgID |-> n, msgData |-> data]
    OBVIOUS
  <2>2. p["msgID"] = n /\ p["msgData"] = data
    BY <2>1
  <2>3. Field("Package", p, 1) = a
    <3>1. Field("Package", p, 1) = IF n = 0 THEN <<>> ELSE Varint(8) \o Varint(n)
      BY <2>2, PackageFields, DefaultIs DEF Field, FieldBytes, Plain
    <3> QED
      BY <1>2, <1>3, <1>6, <3>1, Zenon
  <2>4. Field("Package", p, 2) = c \o data
    <3>1. Field("Package", p, 2) = IF data = <<>> THEN <<>> ELSE Varint(18) \o (Varint(Len(data)) \o data)
      BY <2>2, PackageFields, DefaultIs DEF Field, FieldBytes, Plain, Prefixed
    <3>2. CASE k = 0
      <4>1. data = <<>> /\ c = <<>>
        BY <1>7, <1>11, <3>2
      <4>2. <<>> \o data = data
        BY ConcatEmptySeq
      <4> QED
        BY <3>1, <4>1, <4>2, Zenon
    <3>3. CASE k # 0
      <4>1. data # <<>> /\ c = v18 \o vk
        BY <1>7, <1>11, <3>3
      <4>2. (v18 \o vk) \o data = v18 \o (vk \o data)
        <5>1. Associated(v18, vk, data)
          BY <1>0
        <5> QED
          BY <5>1, Zenon DEF Associated
      <4> QED
        BY <1>4, <1>5, <1>11, <3>1, <4>1, <4>2, Zenon
    <3> QED
      BY <3>2, <3>3
  <2>5. PICK xs : xs = Fields("Package", p)
    OBVIOUS
  <2>6. PICK e \in Seq(Bytes) : e = c \o data
    BY ConcatProperties
  <2>7. xs \in [1..2 -> Seq(Bytes)] /\ xs[1] = a /\ xs[2] = e
    <3>1. xs = [i \in 1..2 |-> Field("Package", p, i)]
      BY <2>5, PackageFields DEF Fields
    <3>2. xs[1] = a /\ xs[2] = e
      BY <2>3, <2>4, <2>6, <3>1
    <3>3. \A i \in 1..2 : Field("Package", p, i) \in Seq(Bytes)
      <4>1. \A i \in 1..2 : i = 1 \/ i = 2
        OBVIOUS
      <4> QED
        BY <2>3, <2>4, <2>6, <4>1
    <3> QED
      BY <3>1, <3>2, <3>3
  <2>8. FlattenSeq(xs) = a \o e
    BY <2>7, TwoJoined
  <2>9. Serialized("Package", p) = FlattenSeq(xs)
    <3>1. "array" \in Versions /\ "Package" \in Names
      BY PackageFields DEF Versions
    <3> QED
      BY <2>5, <3>1, WrittenIs DEF Serialized
  <2>10. (a \o c) \o data = a \o (c \o data)
    <3>1. Associated(a, c, data)
      BY <1>0
    <3> QED
      BY <3>1, Zenon DEF Associated
  <2> QED
    BY <1>9, <2>1, <2>6, <2>8, <2>9, <2>10, Zenon
<1> QED
  BY <1>10, <1>11

\* A Package is read as it was written, also with a 0 behind it.
LEMMA PackageIsRead ==
  ASSUME NEW p, IsMessage("Package", p), NEW z \in {<<>>, << 0 >>}
  PROVE  Parse("Package", Serialized("Package", p) \o z) = p
<1>1. "Package" \in Names /\ "array" \in Versions
  BY PackageFields DEF Versions
<1>2. PICK w : w = FlattenSeq(Fields("Package", p))
  OBVIOUS
<1>3. Serialized("Package", p) = w
  BY <1>1, <1>2, WrittenIs DEF Serialized
<1>4. z \in Seq(Bytes)
  <2>1. 0 \in Bytes
    BY DEF Bytes
  <2>2. <<0>> \in Seq(Bytes) /\ <<>> \in Seq(Bytes)
    BY <2>1
  <2> QED
    BY <2>2, Zenon
<1>5. Readable("Package", p)
  <2>1. \A f \in {"msgID", "msgData"} : KindOf("Package", f) \notin {"string", "UserInfo"}
    BY PackageFields
  <2>2. DOMAIN p = {"msgID", "msgData"}
    BY PackageFields DEF IsMessage, HasFields
  <2> QED
    BY <2>1, <2>2 DEF Readable, TextsReadable
<1>6. Parsed("Package", Cleared("Package"), w \o z) = Parsed("Package", p, z)
  BY <1>1, <1>2, <1>4, <1>5, TakesCleared, MergedIs, MessageIsRead
<1>7. Parsed("Package", p, z).msg = p
  <2>1. CASE z = <<>>
    BY <2>1, ParsedNothing, StatusOf
  <2>2. CASE z = <<0>>
    <3>1. 0 \in Int32s /\ 0 \in 0..127
      BY SmallInt, SMT
    <3>2. Varint(0) \o <<>> = <<0>> /\ <<>> \in Seq(Bytes)
      <4>1. VarintSize(0) = 1
        BY <3>1, TagSize
      <4>2. Group(0, 1) = 0
        BY SMT DEF Group, Weight
      <4>3. Varint(0) = [i \in 1..1 |-> IF i = 10 THEN 1 ELSE Group(0, i) + IF i < 1 THEN 128 ELSE 0]
        BY <4>1 DEF Varint
      <4>4. Varint(0) \in Seq(Bytes) /\ Len(Varint(0)) = 1 /\ Varint(0)[1] = 0
        <5>1. Varint(0) \in Seq(Bytes)
          BY <3>1, VarintIsBytes
        <5>2. 1 \in 1..1
          OBVIOUS
        <5>3. Varint(0)[1] = 0
          BY <4>2, <4>3, <5>2, SMT
        <5>4. Len(Varint(0)) = 1
          BY <4>3, SMT
        <5> QED
          BY <5>1, <5>3, <5>4, Zenon
      <4>5. Varint(0) = <<0>>
        BY <4>4
      <4> QED
        BY <4>5
    <3>3. PICK t : t = ReadVarint(z)
      OBVIOUS
    <3>4. t = [ok |-> TRUE, value |-> 0, rest |-> <<>>]
      BY <2>2, <3>1, <3>2, <3>3, VarintIsRead
    <3>5. t.ok /\ t.value = 0
      BY <3>4
    <3>6. Round("Package", Reading(p, z)) = Ended(p, z)
      <4>1. \A inner : RoundOf("Package", Reading(p, z), inner) = Ended(p, z)
        BY <3>3, <3>5 DEF RoundOf, Reading
      <4> QED
        BY <4>1, RoundIs
    <3>7. PICK s : s = Round("Package", Reading(p, z))
      OBVIOUS
    <3>8. s.status # "reading" /\ s.msg = p
      BY <3>6, <3>7, StatusOf
    <3>9. Parsed("Package", p, z) = s
      BY <1>4, <3>7, <3>8, ParsedUnfolds
    <3> QED
      BY <3>8, <3>9
  <2> QED
    BY <2>1, <2>2
<1> QED
  BY <1>3, <1>6, <1>7, Zenon DEF Parse

\* A Package is written as bytes.
LEMMA PackageBytes ==
  ASSUME NEW p, IsMessage("Package", p)
  PROVE  Serialized("Package", p) \in Seq(Bytes)
<1>1. PICK n \in Int32s : n = p.msgID
  BY PackageHas
<1>2. PICK data \in Seq(Bytes) : data = p.msgData /\ Len(data) \in Int32s
  <2>1. p.msgData \in Seq(Bytes) /\ Len(p.msgData) \in Nat /\ Len(p.msgData) \in Int32s
    BY PackageHas, SMT DEF Texts, Int32s
  <2> QED
    BY <2>1
<1>3. PICK k \in Nat : k = Len(data) /\ k \in Int32s
  BY <1>2
<1>4. PICK pre \in Seq(Bytes) :
           /\ n # 0 => Len(pre) > 0
           /\ \A d \in Seq(Bytes) : Len(d) = k =>
                Serialized("Package", [msgID |-> n, msgData |-> d]) = pre \o d
  BY <1>3, PackageEnds
<1>5. p = [msgID |-> n, msgData |-> data]
  BY <1>1, <1>2, PackageHas
<1>6. Serialized("Package", p) = pre \o data
  BY <1>3, <1>4, <1>5
<1> QED
  BY <1>6, ConcatProperties

-----------------------------------------------------------------------------
(* A client's frame. *)

\* Where the parts of a client's frame lie.
Lies(frame, h, mask, pack) ==
  /\ frame \in Seq(Bytes) /\ Len(frame) = Len(h) + 4 + Len(pack)
  /\ \A i \in 1..Len(h) : frame[i] = h[i]
  /\ \A i \in 1..4 : frame[Len(h) + i] = mask[i]
  /\ \A i \in 1..Len(pack) : frame[Len(h) + 4 + i] = Xor(pack[i], mask[((i - 1) % 4) + 1])

\* A masked payload is bytes, and as long as it was.
LEMMA Masking ==
  ASSUME NEW pack \in Seq(Bytes), NEW mask \in Seq(Bytes), Len(mask) = 4
  PROVE  /\ [i \in 1..Len(pack) |-> Xor(pack[i], mask[((i - 1) % 4) + 1])] \in Seq(Bytes)
         /\ Len([i \in 1..Len(pack) |-> Xor(pack[i], mask[((i - 1) % 4) + 1])]) = Len(pack)
<1>1. ASSUME NEW i \in 1..Len(pack)
      PROVE  Xor(pack[i], mask[((i - 1) % 4) + 1]) \in Bytes
  <2>1. PICK j \in 1..4 : j = ((i - 1) % 4) + 1
    OBVIOUS
  <2>2. pack[i] \in Bytes
    BY ElementOfSeq
  <2>3. mask[j] \in Bytes
    BY <2>1, ElementOfSeq
  <2> QED
    BY <2>1, <2>2, <2>3, XorIs
<1>2. Len(pack) \in Nat
  OBVIOUS
<1> QED
  BY <1>1, <1>2

\* Where the parts of two sequences that are joined lie,
LEMMA JoinedParts ==
  ASSUME NEW a \in Seq(Bytes), NEW b \in Seq(Bytes), NEW c, c = a \o b
  PROVE  /\ Len(c) = Len(a) + Len(b)
         /\ \A i \in 1..Len(a) : c[i] = a[i]
         /\ \A i \in 1..Len(b) : c[Len(a) + i] = b[i]
<1>1. Len(a) \in Nat /\ Len(b) \in Nat
  OBVIOUS
<1>2. /\ Len(c) = Len(a) + Len(b)
      /\ \A i \in 1..Len(c) : c[i] = IF i <= Len(a) THEN a[i] ELSE b[i - Len(a)]
  BY ConcatProperties
<1>3. ASSUME NEW i \in 1..Len(b)
      PROVE  c[Len(a) + i] = b[i]
  <2>1. PICK j \in Nat : j = Len(a) + i
    BY <1>1
  <2>2. j \in 1..Len(c) /\ ~(j <= Len(a)) /\ j - Len(a) = i
    BY <1>1, <1>2, <2>1
  <2> QED
    BY <1>2, <2>1, <2>2
<1> QED
  BY <1>1, <1>2, <1>3

\* frame is h, mask and m, and where they lie in it.
Parts(frame, h, mask, m) ==
  /\ frame = h \o mask \o m /\ Len(frame) = Len(h) + Len(mask) + Len(m)
  /\ \A i \in 1..Len(h) : frame[i] = h[i]
  /\ \A i \in 1..Len(mask) : frame[Len(h) + i] = mask[i]
  /\ \A i \in 1..Len(m) : frame[Len(h) + Len(mask) + i] = m[i]

\* and of three.
LEMMA ThreeParts ==
  ASSUME NEW h \in Seq(Bytes), NEW mask \in Seq(Bytes), NEW m \in Seq(Bytes)
  PROVE  \E frame \in Seq(Bytes) : Parts(frame, h, mask, m)
<1>1. PICK a \in Seq(Bytes) : a = h \o mask
  BY ConcatProperties
<1>2. /\ Len(a) = Len(h) + Len(mask)
      /\ \A i \in 1..Len(h) : a[i] = h[i]
      /\ \A i \in 1..Len(mask) : a[Len(h) + i] = mask[i]
  BY <1>1, JoinedParts
<1>3. PICK frame \in Seq(Bytes) : frame = a \o m
  BY ConcatProperties
<1>4. /\ Len(frame) = Len(a) + Len(m)
      /\ \A i \in 1..Len(a) : frame[i] = a[i]
      /\ \A i \in 1..Len(m) : frame[Len(a) + i] = m[i]
  BY <1>3, JoinedParts
<1>5. Len(h) \in Nat /\ Len(mask) \in Nat
  OBVIOUS
<1>6. frame = h \o mask \o m
  BY <1>1, <1>3, Zenon
<1>7. \A i \in 1..Len(h) : frame[i] = h[i]
  BY <1>2, <1>4, <1>5
<1>8. \A i \in 1..Len(mask) : frame[Len(h) + i] = mask[i]
  BY <1>2, <1>4, <1>5
<1>9. Len(frame) = Len(h) + Len(mask) + Len(m)
  BY <1>2, <1>4
<1>10. \A i \in 1..Len(m) : frame[Len(h) + Len(mask) + i] = m[i]
  BY <1>2, <1>4
<1> QED
  BY <1>6, <1>7, <1>8, <1>9, <1>10, Zenon DEF Parts

\* Header, mask and masked payload lie in a client's frame one behind the other.
LEMMA FrameLies ==
  ASSUME NEW opcode, NEW pack \in Seq(Bytes), NEW mask \in Seq(Bytes), Len(mask) = 4,
         NEW h \in Seq(Bytes), h = ClientHeader(opcode, 0, Len(pack))
  PROVE  Lies(ClientFrame(opcode, mask, pack), h, mask, pack)
<1>1. PICK m \in Seq(Bytes) : m = [i \in 1..Len(pack) |-> Xor(pack[i], mask[((i - 1) % 4) + 1])]
  BY Masking
<1>2. Len(m) = Len(pack) /\ \A i \in 1..Len(pack) : m[i] = Xor(pack[i], mask[((i - 1) % 4) + 1])
  BY <1>1
<1>3. PICK frame \in Seq(Bytes) : Parts(frame, h, mask, m)
  BY ThreeParts
<1>4. ClientFrame(opcode, mask, pack) = frame
  BY <1>1, <1>3, Zenon DEF ClientFrame, Parts
<1>5. Lies(frame, h, mask, pack)
  <2>1. Len(frame) = Len(h) + 4 + Len(pack)
    BY <1>2, <1>3 DEF Parts
  <2>2. \A i \in 1..Len(h) : frame[i] = h[i]
    BY <1>3 DEF Parts
  <2>3. \A i \in 1..4 : frame[Len(h) + i] = mask[i]
    BY <1>3 DEF Parts
  <2>4. \A i \in 1..Len(pack) : frame[Len(h) + 4 + i] = Xor(pack[i], mask[((i - 1) % 4) + 1])
    BY <1>2, <1>3 DEF Parts
  <2> QED
    BY <2>1, <2>2, <2>3, <2>4 DEF Lies
<1> QED
  BY <1>4, <1>5

\* What the buffer holds after a read.
Held(buffer, frame, n) ==
  /\ \A i \in 1..n : Byte(buffer, i) = frame[i]
  /\ \A i \in Nat \ {0} : Byte(buffer, i) \in Bytes

\* After a read the buffer begins with what was read.
LEMMA BufferHolds ==
  ASSUME NEW frame \in Seq(Bytes), NEW stale \in Seq(Bytes), NEW n \in 0..Len(frame)
  PROVE  /\ Len(SubSeq(frame, 1, n)) = n
         /\ Held(Overwritten(stale, SubSeq(frame, 1, n)), frame, n)
<1>1. PICK d \in Seq(Bytes) : d = SubSeq(frame, 1, n)
  <2>1. SubSeq(frame, 1, n) \in Seq(Bytes)
    BY SubSeqProperties
  <2> QED
    BY <2>1
<1>2. Len(d) = n /\ \A i \in 1..n : d[i] = frame[i]
  BY <1>1
<1>3. PICK s \in Seq(Bytes) : s = SubSeq(stale, n + 1, Len(stale))
  <2>1. SubSeq(stale, n + 1, Len(stale)) \in Seq(Bytes)
    BY SubSeqProperties
  <2> QED
    BY <2>1
<1>4. PICK b \in Seq(Bytes) : b = d \o s
  BY ConcatProperties
<1>5. /\ Len(b) = n + Len(s) /\ Len(s) \in Nat
      /\ \A i \in 1..n : b[i] = d[i]
  <2>1. /\ Len(b) = Len(d) + Len(s)
        /\ \A i \in 1..Len(d) : b[i] = d[i]
    BY <1>4, JoinedParts
  <2> QED
    BY <1>2, <2>1
<1>6. Overwritten(stale, SubSeq(frame, 1, n)) = b
  BY <1>1, <1>2, <1>3, <1>4, Zenon DEF Overwritten
<1>7. 0 \in Bytes
  BY DEF Bytes
<1>8. Held(b, frame, n)
  <2>1. \A i \in 1..n : Byte(b, i) = frame[i]
    BY <1>2, <1>5 DEF Byte
  <2>2. \A i \in Nat \ {0} : Byte(b, i) \in Bytes
    BY <1>7 DEF Byte
  <2> QED
    BY <2>1, <2>2 DEF Held
<1> QED
  BY <1>1, <1>2, <1>6, <1>8

\* The four bytes of a mask, and a read of n bytes that goes beyond the mask.
Mask(mask) == mask \in Seq(Bytes) /\ Len(mask) = 4
Cut(n, h, frame) == n \in Nat /\ n <= Len(frame) /\ Enough(n, h)

\* What is read of a payload: all that has arrived, and something in the place of the rest.
ReadOf(got, pack, many) ==
  /\ got \in Seq(Bytes) /\ Len(got) = Len(pack)
  /\ \A i \in 1..Len(pack) : i <= many => got[i] = pack[i]

\* What many bytes have been read right of pack, and perhaps a 0 behind it.
Unmasked(payload, pack, many) ==
  \E got, z : ReadOf(got, pack, many) /\ z \in {<<>>, <<0>>} /\ payload = got \o z

\* Unmasking a payload gives back what has arrived of it.
LEMMA PayloadIs ==
  ASSUME NEW h, NEW opcode, NEW pack \in Seq(Bytes), Heads(h, opcode, Len(pack)),
         NEW mask, Mask(mask), NEW frame, Lies(frame, h, mask, pack), NEW n, Cut(n, h, frame),
         NEW buffer, Held(buffer, frame, n), NEW d, d = Placed(h, opcode, Len(pack))
  PROVE  Unmasked(Payload(buffer, d), pack, n - (Len(h) + 4))
<1>0. n \in 0..Len(frame) /\ h \in Seq(Bytes) /\ mask \in Seq(Bytes) /\ Len(mask) = 4
  BY DEF Cut, Heads, Mask, Lies
<1>1. d.start = Len(h) + 4 /\ d.size = Len(pack) /\ d.mask = Len(h)
  BY DEF Placed
<1>2. PICK z : z = IF d.zero THEN <<0>> ELSE <<>>
  OBVIOUS
<1>3. z \in {<<>>, <<0>>}
  BY <1>2
<1>4. PICK got : got = [i \in 1..Len(pack) |->
                          Xor(Byte(buffer, Len(h) + 4 + i), Byte(buffer, Len(h) + ((i - 1) % 4) + 1))]
  OBVIOUS
<1>5. Payload(buffer, d) = got \o z
  BY <1>1, <1>2, <1>4 DEF Payload, PayloadFrom
<1>6. Len(h) \in Nat /\ Len(pack) \in Nat /\ n \in Nat
  BY <1>0 DEF Lies
<1>7. ASSUME NEW i \in 1..Len(pack)
      PROVE  got[i] \in Bytes /\ (i <= n - (Len(h) + 4) => got[i] = pack[i])
  <2>1. PICK j \in 1..4 : j = ((i - 1) % 4) + 1
    OBVIOUS
  <2>2. PICK a : a = Byte(buffer, Len(h) + 4 + i)
    OBVIOUS
  <2>3. PICK b : b = Byte(buffer, Len(h) + j)
    OBVIOUS
  <2>4. got[i] = Xor(a, b)
    <3>1. Len(h) + ((i - 1) % 4) + 1 = Len(h) + j
      BY <1>6, <2>1
    <3> QED
      BY <1>4, <2>2, <2>3, <3>1
  <2>5. a \in Bytes /\ b \in Bytes
    BY <1>6, <2>2, <2>3 DEF Held
  <2>6. b = mask[j] /\ mask[j] \in Bytes /\ pack[i] \in Bytes
    <3>1. Len(h) + j \in 1..n
      BY <1>6 DEF Cut, Enough
    <3>2. b = frame[Len(h) + j]
      BY <2>3, <3>1 DEF Held
    <3>3. mask[j] \in Bytes
      BY <1>0, ElementOfSeq
    <3>4. pack[i] \in Bytes
      BY ElementOfSeq
    <3>5. frame[Len(h) + j] = mask[j]
      BY DEF Lies
    <3> QED
      BY <3>2, <3>3, <3>4, <3>5
  <2>7. ASSUME i <= n - (Len(h) + 4)
        PROVE  got[i] = pack[i]
    <3>1. Len(h) + 4 + i \in 1..n
      BY <1>6, <2>7
    <3>2. a = frame[Len(h) + 4 + i]
      BY <2>2, <3>1 DEF Held
    <3>3. frame[Len(h) + 4 + i] = Xor(pack[i], mask[j])
      BY <2>1 DEF Lies
    <3>4. Xor(Xor(pack[i], mask[j]), mask[j]) = pack[i]
      BY <2>6, XorIs
    <3> QED
      BY <2>4, <2>6, <3>2, <3>3, <3>4, Zenon
  <2>8. got[i] \in Bytes
    BY <2>4, <2>5, XorIs
  <2> QED
    BY <2>7, <2>8
<1>8. got \in Seq(Bytes) /\ Len(got) = Len(pack)
  BY <1>4, <1>6, <1>7
<1>9. ReadOf(got, pack, n - (Len(h) + 4))
  BY <1>7, <1>8 DEF ReadOf
<1> QED
  BY <1>3, <1>5, <1>9, Zenon DEF Unmasked

\* What arrives of a payload of which a byte is there is read, with the rest filled up.
Arrives(data, stale, pack, many) ==
  \E got, z : /\ ReadOf(got, pack, many) /\ z \in {<<>>, <<0>>}
              /\ Received(data, stale) = Handed(Parse("Package", got \o z))

\* The header is read from the buffer as it was sent, once a byte of the payload is there.
LEMMA HeaderArrives ==
  ASSUME NEW h, NEW opcode, NEW size, Heads(h, opcode, size), Short(size),
         NEW mask, NEW pack, NEW frame, Lies(frame, h, mask, pack), NEW n, Cut(n, h, frame),
         NEW buffer, Held(buffer, frame, n)
  PROVE  DeCoded([i \in 1..10 |-> Byte(buffer, i)], n) = Found(h, opcode, size)
<1>1. PICK k \in {2, 4} : k = Len(h)
  BY DEF Heads
<1>2. \A i \in 1..k : i \in 1..10 /\ i \in 1..n
  BY <1>1 DEF Cut, Enough
<1>3. \A i \in 1..k : Byte(buffer, i) = h[i]
  BY <1>1, <1>2 DEF Held, Lies
<1>4. PICK g : g = [i \in 1..10 |-> Byte(buffer, i)]
  OBVIOUS
<1>5. \A i \in 1..k : g[i] = h[i]
  BY <1>2, <1>3, <1>4
<1>6. Starts(g, h)
  BY <1>1, <1>5 DEF Starts
<1>7. Enough(n, h)
  BY DEF Cut
<1>8. DeCoded(g, n) = Found(h, opcode, size)
  BY <1>6, <1>7, HeaderIsRead
<1> QED
  BY <1>4, <1>8, Zenon

\* After a read of n bytes of a frame that has begun with its payload, readSocketMsg goes on
\* with what it finds.
GoesOn(data, stale, d) ==
  \E buffer : /\ Held(buffer, data, Len(data))
              /\ Received(data, stale) =
                   IF d.kind = "payload" THEN Handed(Parse("Package", Payload(buffer, d)))
                   ELSE [kind |-> d.kind]

LEMMA ReadGoesOn ==
  ASSUME NEW opcode, NEW pack \in Seq(Bytes), Short(Len(pack)), NEW mask,
         NEW stale \in Seq(Bytes), NEW h, Heads(h, opcode, Len(pack)),
         NEW frame, Lies(frame, h, mask, pack), NEW n, Cut(n, h, frame)
  PROVE  /\ Len(SubSeq(frame, 1, n)) = n
         /\ \A i \in 1..n : SubSeq(frame, 1, n)[i] = frame[i]
         /\ GoesOn(SubSeq(frame, 1, n), stale, Found(h, opcode, Len(pack)))
<1>1. frame \in Seq(Bytes) /\ n \in 0..Len(frame)
  BY DEF Lies, Cut
<1>2. PICK data : data = SubSeq(frame, 1, n)
  OBVIOUS
<1>3. PICK buffer : buffer = Overwritten(stale, data)
  OBVIOUS
<1>4. Len(data) = n /\ Held(buffer, frame, n)
  BY <1>1, <1>2, <1>3, BufferHolds
<1>5. \A i \in 1..n : data[i] = frame[i]
  BY <1>1, <1>2
<1>6. Held(buffer, data, Len(data))
  BY <1>4, <1>5 DEF Held
<1>7. PICK d : d = Found(h, opcode, Len(pack))
  OBVIOUS
<1>8. DeCoded([i \in 1..10 |-> Byte(buffer, i)], Len(data)) = d
  <2>1. DeCoded([i \in 1..10 |-> Byte(buffer, i)], n) = d
    BY <1>4, <1>7, HeaderArrives
  <2> QED
    BY <1>4, <2>1, Zenon
<1>9. Received(data, stale) =
        LET b == Overwritten(stale, data)
            e == DeCoded([i \in 1..10 |-> Byte(b, i)], Len(data))
        IN IF e.kind = "payload" THEN Handed(Parse("Package", Payload(b, e)))
           ELSE [kind |-> e.kind]
  BY Zenon DEF Received
<1>10. Received(data, stale) =
         IF d.kind = "payload" THEN Handed(Parse("Package", Payload(buffer, d)))
         ELSE [kind |-> d.kind]
  BY <1>3, <1>8, <1>9, Zenon
<1>11. GoesOn(data, stale, d)
  BY <1>6, <1>10, Zenon DEF GoesOn
<1> QED
  BY <1>2, <1>4, <1>5, <1>7, <1>11, Zenon

\* If the buffers hold the frame, what has arrived of the payload is read.
LEMMA FrameArrives ==
  ASSUME NEW opcode, NEW pack \in Seq(Bytes), Short(Len(pack)), NEW mask, Mask(mask),
         NEW stale \in Seq(Bytes), NEW h, Heads(h, opcode, Len(pack)),
         NEW frame, Lies(frame, h, mask, pack), Len(frame) <= MaxRecv, NEW n, Cut(n, h, frame)
  PROVE  Arrives(SubSeq(frame, 1, n), stale, pack, n - (Len(h) + 4))
<1>1. PICK data : data = SubSeq(frame, 1, n)
  OBVIOUS
<1>2. PICK d : d = Found(h, opcode, Len(pack))
  OBVIOUS
<1>3. Len(data) = n /\ (\A i \in 1..n : data[i] = frame[i]) /\ GoesOn(data, stale, d)
  <2>1. /\ Len(SubSeq(frame, 1, n)) = n
        /\ \A i \in 1..n : SubSeq(frame, 1, n)[i] = frame[i]
        /\ GoesOn(SubSeq(frame, 1, n), stale, Found(h, opcode, Len(pack)))
    BY ReadGoesOn
  <2> QED
    BY <1>1, <1>2, <2>1, Zenon
<1>4. d = Placed(h, opcode, Len(pack)) /\ d.kind = "payload"
  <2>1. Len(frame) = Len(h) + 4 + Len(pack) /\ Len(h) \in Nat /\ Len(pack) \in Nat
    BY DEF Lies, Heads
  <2>2. ~(Len(h) + 4 + Len(pack) > MaxRecv)
    BY <2>1 DEF MaxRecv
  <2>3. d = Placed(h, opcode, Len(pack))
    BY <1>2, <2>2 DEF Found
  <2> QED
    BY <2>3 DEF Placed
<1>5. PICK buffer : /\ Held(buffer, data, n)
                    /\ Received(data, stale) = Handed(Parse("Package", Payload(buffer, d)))
  BY <1>3, <1>4, Zenon DEF GoesOn
<1>6. Held(buffer, frame, n)
  BY <1>3, <1>5 DEF Held
<1>7. Unmasked(Payload(buffer, d), pack, n - (Len(h) + 4))
  BY <1>4, <1>6, PayloadIs
<1>8. PICK got, z : /\ ReadOf(got, pack, n - (Len(h) + 4)) /\ z \in {<<>>, << 0 >>}
                    /\ Payload(buffer, d) = got \o z
  BY <1>7, Zenon DEF Unmasked
<1>9. Received(data, stale) = Handed(Parse("Package", got \o z))
  BY <1>5, <1>8, Zenon
<1> QED
  BY <1>1, <1>8, <1>9, Zenon DEF Arrives

\* If they do not, they are overrun, however much of the payload has arrived.
LEMMA FrameOverruns ==
  ASSUME NEW opcode, NEW pack \in Seq(Bytes), Short(Len(pack)), NEW mask,
         NEW stale \in Seq(Bytes), NEW h, Heads(h, opcode, Len(pack)),
         NEW frame, Lies(frame, h, mask, pack), Len(frame) > MaxRecv, NEW n, Cut(n, h, frame)
  PROVE  Received(SubSeq(frame, 1, n), stale) = [kind |-> "overrun"]
<1>1. PICK d : d = Found(h, opcode, Len(pack))
  OBVIOUS
<1>2. Len(h) + 4 + Len(pack) > MaxRecv
  BY DEF Lies
<1>3. d.kind = "overrun"
  BY <1>1, <1>2 DEF Found, Overrun, Nowhere
<1>4. GoesOn(SubSeq(frame, 1, n), stale, d)
  BY <1>1, ReadGoesOn
<1>5. Received(SubSeq(frame, 1, n), stale) = [kind |-> d.kind]
  BY <1>3, <1>4 DEF GoesOn
<1> QED
  BY <1>3, <1>5

-----------------------------------------------------------------------------
(* A frame that is cut. *)

\* What a Package with number n and k bytes of data begins with.
Opens(pre, n, k) ==
  \A data \in Seq(Bytes) : Len(data) = k =>
    Serialized("Package", [msgID |-> n, msgData |-> data]) = pre \o data

\* q is p as far as many bytes of its data go.
Filled(q, p, many) ==
  /\ q.msgID = p.msgID /\ q.msgData \in Seq(Bytes) /\ Len(q.msgData) = Len(p.msgData)
  /\ \A i \in 1..Len(p.msgData) : i <= many => q.msgData[i] = p.msgData[i]

\* Bytes that are those of two parts are the parts joined.
LEMMA SameBytes ==
  ASSUME NEW a \in Seq(Bytes), NEW pre \in Seq(Bytes), NEW t \in Seq(Bytes),
         Len(a) = Len(pre) + Len(t),
         \A i \in 1..Len(pre) : a[i] = pre[i],
         \A i \in 1..Len(t) : a[Len(pre) + i] = t[i]
  PROVE  a = pre \o t
<1>1. PICK c \in Seq(Bytes) : c = pre \o t
  BY ConcatProperties
<1>2. /\ Len(c) = Len(pre) + Len(t)
      /\ \A i \in 1..Len(pre) : c[i] = pre[i]
      /\ \A i \in 1..Len(t) : c[Len(pre) + i] = t[i]
  BY <1>1, JoinedParts
<1>3. Len(pre) \in Nat /\ Len(t) \in Nat
  OBVIOUS
<1>4. ASSUME NEW i \in 1..Len(a)
      PROVE  a[i] = c[i]
  <2>1. CASE i <= Len(pre)
    BY <1>2, <1>3, <2>1
  <2>2. CASE ~(i <= Len(pre))
    <3>1. PICK j \in 1..Len(t) : i = Len(pre) + j
      <4>1. i - Len(pre) \in 1..Len(t) /\ i = Len(pre) + (i - Len(pre))
        BY <1>3, <2>2
      <4> QED
        BY <4>1
    <3> QED
      BY <1>2, <3>1
  <2> QED
    BY <2>1, <2>2
<1>5. a = c
  BY <1>2, <1>4, SeqEqual
<1> QED
  BY <1>1, <1>5, Zenon

\* got has k bytes behind as many as pre has.
TailIn(got, pre, k) ==
  \E t \in Seq(Bytes) : Len(t) = k /\ \A i \in 1..k : t[i] = got[Len(pre) + i]

\* What is behind a part of some bytes.
LEMMA TailOf ==
  ASSUME NEW got \in Seq(Bytes), NEW pre \in Seq(Bytes), NEW k \in Nat, Len(got) = Len(pre) + k
  PROVE  TailIn(got, pre, k)
<1>1. PICK t : t = [i \in 1..k |-> got[Len(pre) + i]]
  OBVIOUS
<1>2. ASSUME NEW i \in 1..k
      PROVE  t[i] \in Bytes /\ t[i] = got[Len(pre) + i]
  <2>1. Len(pre) + i \in 1..Len(got)
    OBVIOUS
  <2>2. got[Len(pre) + i] \in Bytes
    BY <2>1, ElementOfSeq
  <2> QED
    BY <1>1, <2>2
<1>3. t \in Seq(Bytes) /\ Len(t) = k
  BY <1>1, <1>2
<1> QED
  BY <1>2, <1>3 DEF TailIn

\* Parsing what was got gives p as far as many bytes of its data go.
Fills(got, z, p, many) == \E q : Filled(q, p, many) /\ Parse("Package", got \o z) = q
Padding(z) == z \in {<<>>, <<0>>}

\* What is read of a payload is a Package with the number and the length that were sent.
LEMMA PackageFilled ==
  ASSUME NEW p, IsMessage("Package", p), NEW pre \in Seq(Bytes), Opens(pre, p.msgID, Len(p.msgData)),
         NEW many \in Nat, Len(pre) <= many,
         NEW got, ReadOf(got, Serialized("Package", p), many), NEW z, Padding(z)
  PROVE  Fills(got, z, p, many - Len(pre))
<1>1. PICK data \in Seq(Bytes) : data = p.msgData /\ p = [msgID |-> p.msgID, msgData |-> data]
                                 /\ data \in Texts /\ p.msgID \in Int32s
  <2>1. p.msgData \in Seq(Bytes)
    BY PackageHas DEF Texts
  <2> QED
    BY <2>1, PackageHas
<1>2. PICK k \in Nat : k = Len(data)
  OBVIOUS
<1>3. PICK pack : pack = Serialized("Package", p)
  OBVIOUS
<1>4. pack = pre \o data
  BY <1>1, <1>3 DEF Opens
<1>5. /\ Len(pack) = Len(pre) + k
      /\ \A i \in 1..Len(pre) : pack[i] = pre[i]
      /\ \A i \in 1..k : pack[Len(pre) + i] = data[i]
  <2>1. /\ Len(pack) = Len(pre) + Len(data)
        /\ \A i \in 1..Len(pre) : pack[i] = pre[i]
        /\ \A i \in 1..Len(data) : pack[Len(pre) + i] = data[i]
    BY <1>4, JoinedParts
  <2> QED
    BY <1>2, <2>1
<1>6. /\ got \in Seq(Bytes) /\ Len(got) = Len(pack)
      /\ \A i \in 1..Len(pack) : i <= many => got[i] = pack[i]
  BY <1>3 DEF ReadOf
<1>7. PICK t \in Seq(Bytes) : Len(t) = k /\ \A i \in 1..k : t[i] = got[Len(pre) + i]
  <2>1. PICK g \in Seq(Bytes) : g = got /\ Len(g) = Len(pre) + k
    BY <1>5, <1>6
  <2>2. TailIn(g, pre, k)
    BY <2>1, TailOf
  <2> QED
    BY <2>1, <2>2 DEF TailIn
<1>8. got = pre \o t
  <2>1. Len(pre) \in Nat
    OBVIOUS
  <2>2. \A i \in 1..Len(pre) : got[i] = pre[i]
    BY <1>5, <1>6, <2>1
  <2>3. Len(got) = Len(pre) + Len(t) /\ \A i \in 1..Len(t) : got[Len(pre) + i] = t[i]
    BY <1>5, <1>6, <1>7
  <2> QED
    BY <1>6, <2>2, <2>3, SameBytes
<1>9. PICK q : q = [msgID |-> p.msgID, msgData |-> t]
  OBVIOUS
<1>10. IsMessage("Package", q)
  <2>1. t \in Texts
    BY <1>1, <1>2, <1>7 DEF Texts
  <2> QED
    BY <1>1, <1>9, <2>1, PackageIs
<1>11. Serialized("Package", q) = pre \o t
  BY <1>1, <1>2, <1>7, <1>9 DEF Opens
<1>12. Parse("Package", got \o z) = q
  <2>1. Parse("Package", Serialized("Package", q) \o z) = q
    BY <1>10, PackageIsRead DEF Padding
  <2> QED
    BY <1>8, <1>11, <2>1, Zenon
<1>13. Filled(q, p, many - Len(pre))
  <2>1. q.msgID = p.msgID /\ q.msgData = t
    BY <1>9
  <2>2. ASSUME NEW i \in 1..k, i <= many - Len(pre)
        PROVE  t[i] = data[i]
    <3>1. PICK j : j = Len(pre) + i
      OBVIOUS
    <3>2. j \in 1..Len(pack) /\ j <= many
      BY <1>5, <2>2, <3>1
    <3> QED
      BY <1>5, <1>6, <1>7, <3>1, <3>2
  <2> QED
    BY <1>1, <1>2, <1>7, <2>1, <2>2 DEF Filled
<1> QED
  BY <1>12, <1>13, Zenon DEF Fills

-----------------------------------------------------------------------------
(* The other way. *)

\* The sizes enCodeOutPackage takes.
Sendable(size) == size \in Nat /\ size <= 32767

\* The size is in the second byte of a header, or behind a 126.
Tells(h) == (Len(h) = 2 /\ h[2] <= 125) \/ (Len(h) = 4 /\ h[2] = 126)

\* A header of the server's is two or four bytes, and says which.
LEMMA OutHeaderIs ==
  ASSUME NEW size, Sendable(size), NEW h, h = OutHeader(size, BinaryFrame)
  PROVE  h \in Seq(Bytes) /\ Tells(h)
<1>0. size \in Nat /\ size <= 32767
  BY SMT DEF Sendable
<1>1. CASE size <= 125
  <2>1. h = <<130, size>>
    BY <1>0, <1>1 DEF OutHeader, BinaryFrame
  <2>2. 130 \in Bytes /\ size \in Bytes
    BY <1>0, <1>1, SMT DEF Bytes
  <2>3. h \in Seq(Bytes)
    BY <2>1, <2>2, SMT
  <2>4. Len(h) = 2 /\ h[2] = size
    BY <2>1, SMT
  <2>5. h[2] <= 125
    BY <1>1, <2>4, SMT
  <2> QED
    BY <2>3, <2>4, <2>5 DEF Tells
<1>2. CASE ~(size <= 125)
  <2>1. h = <<130, 126, size \div 256, size % 256>>
    BY <1>0, <1>2 DEF OutHeader, BinaryFrame
  <2>2. size \div 256 \in 0..255 /\ size % 256 \in 0..255
    BY <1>0, TwoBytes
  <2>3. 130 \in Bytes /\ 126 \in Bytes /\ size \div 256 \in Bytes /\ size % 256 \in Bytes
    BY <2>2, SMT DEF Bytes
  <2>4. h \in Seq(Bytes)
    BY <2>1, <2>3, SMT
  <2>5. Len(h) = 4 /\ h[2] = 126
    BY <2>1, SMT
  <2> QED
    BY <2>4, <2>5, SMT DEF Tells
<1> QED
  BY <1>1, <1>2

\* What comes behind a header of the server's is what the client takes from the frame.
LEMMA ClientFinds ==
  ASSUME NEW pack \in Seq(Bytes), Sendable(Len(pack)),
         NEW h \in Seq(Bytes), h = OutHeader(Len(pack), BinaryFrame),
         NEW bytes, bytes = h \o pack
  PROVE  PartOf(bytes, ClientReads(bytes)) = pack
<1>1. Len(pack) \in Nat /\ Len(h) \in Nat
  OBVIOUS
<1>2. ClientReads(h) = [start |-> Len(h), size |-> Len(pack)]
  BY SentFrames, SMT DEF SentExactly, Sendable
<1>3. /\ bytes \in Seq(Bytes) /\ Len(bytes) = Len(h) + Len(pack)
      /\ \A i \in 1..Len(h) : bytes[i] = h[i]
      /\ \A i \in 1..Len(pack) : bytes[Len(h) + i] = pack[i]
  BY ConcatProperties, JoinedParts
<1>4. (Len(h) = 2 /\ h[2] <= 125) \/ (Len(h) = 4 /\ h[2] = 126)
  BY <1>1, OutHeaderIs DEF Tells
<1>5. ClientReads(bytes) = ClientReads(h)
  <2>1. CASE Len(h) = 2 /\ h[2] <= 125
    <3>1. bytes[2] = h[2]
      BY <1>3, <2>1
    <3> QED
      BY <2>1, <3>1 DEF ClientReads
  <2>2. CASE Len(h) = 4 /\ h[2] = 126
    <3>1. bytes[2] = h[2] /\ bytes[3] = h[3] /\ bytes[4] = h[4]
      BY <1>3, <2>2
    <3> QED
      BY <2>2, <3>1 DEF ClientReads
  <2> QED
    BY <1>4, <2>1, <2>2
<1>6. PartOf(bytes, ClientReads(bytes)) = SubSeq(bytes, Len(h) + 1, Len(h) + Len(pack))
  BY <1>2, <1>5 DEF PartOf
<1>7. PICK part \in Seq(Bytes) : part = SubSeq(bytes, Len(h) + 1, Len(h) + Len(pack))
  <2>1. SubSeq(bytes, Len(h) + 1, Len(h) + Len(pack)) \in Seq(Bytes)
    BY <1>1, <1>3, SubSeqProperties
  <2> QED
    BY <2>1
<1>8. Len(part) = Len(pack) /\ \A i \in 1..Len(part) : part[i] = pack[i]
  BY <1>1, <1>3, <1>7
<1>9. part = pack
  BY <1>8, SeqEqual
<1> QED
  BY <1>6, <1>7, <1>9, Zenon

\* A client gets what sendMsg was given.
LEMMA ClientTakesIt ==
  ASSUME NEW p, IsMessage("Package", p), Sendable(Len(Serialized("Package", p)))
  PROVE  ClientTakes(SendMsg(p.msgID, p.msgData)) = p
<1>1. PICK pack \in Seq(Bytes) : pack = Serialized("Package", p)
  BY PackageBytes
<1>2. SendMsg(p.msgID, p.msgData) = Framed(pack)
  <2>1. p = [msgID |-> p.msgID, msgData |-> p.msgData]
    BY PackageHas
  <2> QED
    BY <1>1, <2>1, Zenon DEF SendMsg
<1>3. PICK h \in Seq(Bytes) : h = OutHeader(Len(pack), BinaryFrame)
  BY <1>1, OutHeaderIs
<1>4. PICK bytes : bytes = h \o pack
  OBVIOUS
<1>5. Framed(pack) = bytes
  <2>1. EnCoded(Len(pack)) # -1
    BY <1>1, <1>3, SMT DEF EnCoded, Sendable
  <2> QED
    BY <1>3, <1>4, <2>1, Zenon DEF Framed
<1>6. PartOf(bytes, ClientReads(bytes)) = pack
  BY <1>1, <1>3, <1>4, ClientFinds
<1>7. pack \o <<>> = pack
  BY ConcatEmptySeq
<1>8. Parse("Package", Serialized("Package", p) \o <<>>) = p
  BY PackageIsRead
<1> QED
  BY <1>1, <1>2, <1>5, <1>6, <1>7, <1>8, Zenon DEF ClientTakes

-----------------------------------------------------------------------------
(* A Package in a frame. *)

\* A Package that is a client's, and is not empty, as the frame of an empty one is nothing.
Sent(p) ==
  /\ IsMessage("Package", p) /\ p # [msgID |-> 0, msgData |-> <<>>]
  /\ Sendable(Len(Serialized("Package", p)))

\* What comes of the first n bytes of frame, of which the last many hold p's data.
Comes(p, frame, n, stale, head) ==
  \E q : Filled(q, p, n - head) /\ Received(SubSeq(frame, 1, n), stale) = Handed(q)

\* What comes of the first n bytes of a frame the buffers do not hold.
Overruns(frame, n, stale) == Received(OneRead(frame, n), stale) = [kind |-> "overrun"]

\* frame is a client's with p in it, and head all of it but p's data.
Framing(frame, opcode, mask, p) == frame = ClientFrame(opcode, mask, Serialized("Package", p))
Preamble(head, frame, p) == head = Len(frame) - Len(p.msgData)

\* A frame that is cut in the data gives a Package of which the number, the length and all
\* that has arrived are right, if the buffers hold the frame, and else overruns them.
LEMMA PackageComes ==
  ASSUME NEW p, Sent(p), NEW opcode \in {TextFrame, BinaryFrame}, NEW mask, Mask(mask),
         NEW stale \in Seq(Bytes),
         NEW frame, Framing(frame, opcode, mask, p), NEW head, Preamble(head, frame, p)
  PROVE  /\ Len(frame) \in Nat /\ head \in Nat /\ p.msgData \in Seq(Bytes)
         /\ \A n \in 0..Len(frame) :
              /\ Len(frame) <= MaxRecv /\ n >= head /\ (n = Len(frame) \/ p.msgID # 0) =>
                   Comes(p, frame, n, stale, head)
              /\ Len(frame) > MaxRecv /\ n > head => Overruns(frame, n, stale)
<1>1. IsMessage("Package", p) /\ p # [msgID |-> 0, msgData |-> <<>>]
  BY DEF Sent
<1>2. PICK number \in Int32s : number = p.msgID
  BY <1>1, PackageHas
<1>3. PICK data \in Seq(Bytes) : data = p.msgData /\ Len(data) \in Int32s
  <2>1. p.msgData \in Seq(Bytes) /\ Len(p.msgData) \in Nat /\ Len(p.msgData) \in Int32s
    BY <1>1, PackageHas, SMT DEF Texts, Int32s
  <2> QED
    BY <2>1
<1>4. PICK k \in Nat : k = Len(data) /\ k \in Int32s
  BY <1>3
<1>5. PICK pre \in Seq(Bytes) : (number # 0 => Len(pre) > 0) /\ Opens(pre, number, k)
  BY <1>4, PackageEnds DEF Opens
<1>6. PICK pack \in Seq(Bytes) : pack = Serialized("Package", p)
  BY <1>1, PackageBytes
<1>7. p = [msgID |-> number, msgData |-> data]
  BY <1>1, <1>2, <1>3, PackageHas
<1>8. pack = pre \o data
  BY <1>4, <1>5, <1>6, <1>7 DEF Opens
<1>9. Len(pack) = Len(pre) + k /\ Len(pre) \in Nat
  BY <1>4, <1>8, JoinedParts
<1>10. 0 < Len(pack)
  <2>1. CASE number # 0
    BY <1>5, <1>9, <2>1
  <2>2. CASE number = 0
    <3>1. data # <<>>
      BY <1>1, <1>7, <2>2
    <3>2. k > 0
      BY <1>4, <3>1
    <3> QED
      BY <1>9, <3>2
  <2> QED
    BY <2>1, <2>2
<1>11. Short(Len(pack))
  BY <1>6, <1>10, SMT DEF Sent, Sendable, Short
<1>12. PICK h : h = ClientHeader(opcode, 0, Len(pack))
  OBVIOUS
<1>13. Heads(h, opcode, Len(pack))
  BY <1>11, <1>12, HeaderIs DEF Heads
<1>14. Lies(frame, h, mask, pack)
  <2>1. frame = ClientFrame(opcode, mask, pack)
    BY <1>6, Zenon DEF Framing
  <2>2. h \in Seq(Bytes) /\ mask \in Seq(Bytes) /\ Len(mask) = 4
    BY <1>13 DEF Heads, Mask
  <2> QED
    BY <1>12, <2>1, <2>2, FrameLies
<1>15. Len(frame) = Len(h) + 4 + Len(pack) /\ Len(h) \in Nat
  BY <1>13, <1>14 DEF Lies, Heads
<1>16. head = Len(h) + 4 + Len(pre)
  <2>1. head = Len(frame) - k
    BY <1>3, <1>4, Zenon DEF Preamble
  <2>3. head \in Int
    BY <1>9, <1>15, <2>1
  <2> QED
    BY <1>9, <1>15, <2>1, <2>3
<1>17. ASSUME NEW n \in 0..Len(frame), Len(frame) <= MaxRecv, n >= head,
              n = Len(frame) \/ number # 0
       PROVE  Comes(p, frame, n, stale, head)
  <2>1. Enough(n, h)
    BY <1>5, <1>9, <1>10, <1>15, <1>16, <1>17 DEF Enough
  <2>2. Cut(n, h, frame)
    BY <1>15, <2>1 DEF Cut
  <2>3. Arrives(SubSeq(frame, 1, n), stale, pack, n - (Len(h) + 4))
    BY <1>11, <1>13, <1>14, <1>17, <2>2, FrameArrives
  <2>4. PICK many \in Nat : many = n - (Len(h) + 4) /\ Len(pre) <= many /\ many - Len(pre) = n - head
    <3>1. PICK a \in Nat : a = Len(h) + 4
      BY <1>15
    <3>2. head = a + Len(pre) /\ n \in Nat
      BY <1>9, <1>15, <1>16, <3>1
    <3>3. n - a \in Nat /\ Len(pre) <= n - a /\ (n - a) - Len(pre) = n - head
      BY <1>9, <1>17, <3>1, <3>2
    <3> QED
      BY <3>1, <3>3, Zenon
  <2>5. PICK got, z : /\ ReadOf(got, pack, many) /\ z \in {<<>>, <<0>>}
                      /\ Received(SubSeq(frame, 1, n), stale) = Handed(Parse("Package", got \o z))
    BY <2>3, <2>4, Zenon DEF Arrives
  <2>6. Opens(pre, p.msgID, Len(p.msgData))
    BY <1>2, <1>3, <1>4, <1>5, Zenon
  <2>7. PICK q : Filled(q, p, many - Len(pre)) /\ Parse("Package", got \o z) = q
    <3>1. Padding(z)
      BY <2>5, Zenon DEF Padding
    <3>2. ReadOf(got, Serialized("Package", p), many)
      BY <1>6, <2>5, Zenon
    <3>3. Fills(got, z, p, many - Len(pre))
      BY <1>1, <2>4, <2>6, <3>1, <3>2, PackageFilled
    <3> QED
      BY <3>3, Zenon DEF Fills
  <2> QED
    BY <2>4, <2>5, <2>7, Zenon DEF Comes
<1>18. Len(frame) \in Nat /\ head \in Nat /\ p.msgData \in Seq(Bytes)
  BY <1>3, <1>9, <1>15, <1>16
<1>19. ASSUME NEW n \in 0..Len(frame), Len(frame) > MaxRecv, n > head
       PROVE  Overruns(frame, n, stale)
  <2>1. PICK m \in Nat : m = IF n > MaxRecv THEN MaxRecv ELSE n
    BY DEF MaxRecv
  <2>2. Len(h) \in {2, 4} /\ n >= Len(h) + 5
    BY <1>9, <1>13, <1>16, <1>18, <1>19 DEF Heads
  <2>3. Cut(m, h, frame)
    <3>1. PICK a \in {2, 4}, f \in Nat : a = Len(h) /\ f = Len(frame)
      BY <1>18, <2>2
    <3>2. n \in Nat /\ n <= f /\ f > MaxRecv /\ n >= a + 5
      BY <1>19, <2>2, <3>1
    <3>3. m <= f /\ m >= a + 5
      <4>1. CASE n > MaxRecv
        <5>1. m = MaxRecv
          BY <2>1, <4>1, Zenon
        <5>2. MaxRecv >= a + 5 /\ MaxRecv <= f
          BY <3>2, BufferIs
        <5> QED
          BY <5>1, <5>2, Zenon
      <4>2. CASE ~(n > MaxRecv)
        <5>1. m = n
          BY <2>1, <4>2, Zenon
        <5> QED
          BY <3>2, <5>1, Zenon
      <4> QED
        BY <4>1, <4>2, Zenon
    <3> QED
      BY <3>1, <3>3, Zenon DEF Cut, Enough
  <2>4. Received(SubSeq(frame, 1, m), stale) = [kind |-> "overrun"]
    BY <1>11, <1>13, <1>14, <1>19, <2>3, FrameOverruns
  <2>5. OneRead(frame, n) = SubSeq(frame, 1, m)
    BY <2>1, Zenon DEF OneRead
  <2> QED
    BY <2>4, <2>5, Zenon DEF Overruns
<1> QED
  BY <1>2, <1>17, <1>18, <1>19, Zenon

\* A sample of a Package that is a client's, in a data frame.
PackageSample ==
  Of("package") =>
    /\ Sent(sample.package) /\ sample.opcode \in {TextFrame, BinaryFrame} /\ Mask(sample.mask)
    /\ sample.stale \in Seq(Bytes) /\ sample.cut \in Nat

\* PackageDelivered holds of every Package up to the 32767 bytes sendMsg takes, under every
\* mask, over every buffer and wherever its frame is cut: up to the 10240 bytes of the receive
\* buffers its frame is delivered, beyond them it overruns them.  A Package with number 0 and
\* no data is left out: it is written as no bytes, and the frame of it is nothing to the server.
THEOREM PackagesDelivered == PackageSample => PackageDelivered
<1> SUFFICES ASSUME PackageSample, Of("package")
             PROVE  PackageDelivered
  BY DEF PackageDelivered
<1>1. PICK p : p = sample.package /\ Sent(p)
  BY DEF PackageSample
<1>2. PICK opcode \in {TextFrame, BinaryFrame} : opcode = sample.opcode
  BY DEF PackageSample
<1>3. PICK mask : mask = sample.mask /\ Mask(mask)
  BY DEF PackageSample
<1>4. PICK stale \in Seq(Bytes) : stale = sample.stale
  BY DEF PackageSample
<1>5. PICK pack : pack = Serialized("Package", p)
  OBVIOUS
<1>6. PICK frame : frame = ClientFrame(opcode, mask, pack)
  OBVIOUS
<1>7. PICK head : head = Len(frame) - Len(p.msgData)
  OBVIOUS
<1>8. PICK data : data = p.msgData
  OBVIOUS
<1>9. /\ Len(frame) \in Nat /\ head \in Nat /\ data \in Seq(Bytes)
      /\ \A n \in 0..Len(frame) :
           /\ Len(frame) <= MaxRecv /\ n >= head /\ (n = Len(frame) \/ p.msgID # 0) =>
                Comes(p, frame, n, stale, head)
           /\ Len(frame) > MaxRecv /\ n > head => Overruns(frame, n, stale)
  <2>1. Framing(frame, opcode, mask, p) /\ Preamble(head, frame, p)
    BY <1>5, <1>6, <1>7, Zenon DEF Framing, Preamble
  <2> QED
    BY <1>1, <1>3, <1>8, <2>1, PackageComes
<1>10. PICK n \in 0..Len(frame) : n = IF sample.cut <= Len(frame) THEN Len(frame) - sample.cut ELSE 0
  BY <1>9 DEF PackageSample
<1>11. PICK r : r = Received(OneRead(frame, n), stale)
  OBVIOUS
<1>a. Len(frame) <= MaxRecv => r = Received(SubSeq(frame, 1, n), stale)
  <2> SUFFICES ASSUME Len(frame) <= MaxRecv PROVE r = Received(SubSeq(frame, 1, n), stale)
    OBVIOUS
  <2>1. ~(n > MaxRecv)
    BY <1>9 DEF MaxRecv
  <2> QED
    BY <1>11, <2>1, Zenon DEF OneRead
<1>12. p.msgID \in Int
  BY <1>1, PackageHas DEF Sent, Int32s
<1>13. head = Len(frame) - Len(data) /\ Len(data) \in Nat
  BY <1>7, <1>8, <1>9
<1>14. Len(frame) <= MaxRecv /\ n = Len(frame) => r = Handed(p)
  <2> SUFFICES ASSUME Len(frame) <= MaxRecv, n = Len(frame)
               PROVE  r = Handed(p)
    OBVIOUS
  <2>1. n >= head /\ n - head = Len(data)
    BY <1>9, <1>13
  <2>2. PICK q : Filled(q, p, Len(data)) /\ r = Handed(q)
    BY <1>9, <1>a, <2>1, Zenon DEF Comes
  <2>3. q.msgID = p.msgID
    BY <2>2 DEF Filled
  <2>4. q.msgData = p.msgData
    <3>1. PICK d \in Seq(Bytes) : d = q.msgData
      BY <2>2 DEF Filled
    <3>2. Len(d) = Len(data) /\ \A i \in 1..Len(data) : i <= Len(data) => d[i] = data[i]
      BY <1>8, <2>2, <3>1, Zenon DEF Filled
    <3>3. \A i \in 1..Len(d) : d[i] = data[i]
      BY <1>13, <3>2
    <3>4. d = data
      BY <1>9, <3>2, <3>3, SeqEqual
    <3> QED
      BY <1>8, <3>1, <3>4, Zenon
  <2>5. Handed(q) = Handed(p)
    BY <2>3, <2>4, SMT DEF Handed
  <2> QED
    BY <2>2, <2>5, Zenon
<1>15. Len(frame) <= MaxRecv /\ n >= head /\ p.msgID >= 1000 =>
         /\ r.kind = "message" /\ r.msgID = p.msgID /\ Len(r.msgData) = Len(p.msgData)
         /\ \A i \in 1..(n - head) : r.msgData[i] = p.msgData[i]
  <2> SUFFICES ASSUME Len(frame) <= MaxRecv, n >= head, p.msgID >= 1000
               PROVE  /\ r.kind = "message" /\ r.msgID = p.msgID /\ Len(r.msgData) = Len(p.msgData)
                      /\ \A i \in 1..(n - head) : r.msgData[i] = p.msgData[i]
    OBVIOUS
  <2>1. p.msgID # 0
    BY <1>12
  <2>2. PICK q : Filled(q, p, n - head) /\ r = Handed(q)
    BY <1>9, <1>a, <2>1, Zenon DEF Comes
  <2>3. q.msgID = p.msgID /\ ~(q.msgID < 1000)
    BY <1>12, <2>2, SMT DEF Filled
  <2>4. r = [kind |-> "message", msgID |-> q.msgID, msgData |-> q.msgData]
    BY <2>2, <2>3, SMT DEF Handed
  <2>5. r.kind = "message" /\ r.msgID = q.msgID /\ r.msgData = q.msgData
    BY <2>4
  <2>6. \A i \in 1..(n - head) : i \in 1..Len(data) /\ i <= n - head
    BY <1>9, <1>13
  <2>7. Len(q.msgData) = Len(data) /\ \A i \in 1..Len(data) : i <= n - head => q.msgData[i] = data[i]
    BY <1>8, <2>2, Zenon DEF Filled
  <2>8. \A i \in 1..(n - head) : q.msgData[i] = data[i]
    BY <2>6, <2>7, Zenon
  <2> QED
    BY <1>8, <2>3, <2>5, <2>7, <2>8, Zenon
<1>16. ClientTakes(SendMsg(p.msgID, p.msgData)) = p
  BY <1>1, ClientTakesIt DEF Sent
<1>17. Len(frame) <= MaxRecv => Delivers(p, Len(frame), n, r)
  BY <1>7, <1>14, <1>15, Zenon DEF Delivers
<1>18. ~(Len(frame) <= MaxRecv) /\ n > Len(frame) - Len(p.msgData) => r = [kind |-> "overrun"]
  <2> SUFFICES ASSUME ~(Len(frame) <= MaxRecv), n > head PROVE r = [kind |-> "overrun"]
    BY <1>7
  <2>1. Len(frame) > MaxRecv
    BY <1>9 DEF MaxRecv
  <2> QED
    BY <1>9, <1>11, <2>1, Zenon DEF Overruns
<1>19. \E x \in {Received(OneRead(frame, n), stale)} :
         IF Len(frame) <= MaxRecv THEN Delivers(p, Len(frame), n, x)
         ELSE n > Len(frame) - Len(p.msgData) => x = [kind |-> "overrun"]
  BY <1>11, <1>17, <1>18, Zenon
<1> QED
  BY <1>1, <1>2, <1>3, <1>4, <1>5, <1>6, <1>10, <1>16, <1>19, Zenon DEF PackageDelivered

=============================================================================
