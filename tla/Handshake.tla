------------------------------ MODULE Handshake ------------------------------
(***************************************************************************)
(* The answer to the WebSocket handshake: NUPool::wsHandshake, and the     *)
(* digest and the text form it is made of (Utils/ThirdParty/SHA1.cpp and   *)
(* Base64.cpp).  A word of 32 bits is the set of the bits that are 1, a    *)
(* text is a sequence of bytes, a request a sequence of lines.             *)
(***************************************************************************)
EXTENDS Integers, Sequences, SequencesExt, FiniteSetsExt

-----------------------------------------------------------------------------
(* Words. *)

Bits == 0..31
OfHalves(high, low) ==
  {i \in Bits : ((IF i < 16 THEN low ELSE high) \div 2^(i % 16)) % 2 = 1}
Half(w, first) == MapThenSumSet(LAMBDA i : 2^(i - first), w \cap (first..(first + 15)))
Complement(w) == Bits \ w
ExclusiveOr(v, w) == (v \ w) \cup (w \ v)

\* The sum of a sequence of words, cut to 32 bits.
Sum32(words) ==
  LET Total(first) == FoldLeft(LAMBDA sum, w : sum + Half(w, first), 0, words)
      low == Total(0)
  IN OfHalves((Total(16) + low \div 65536) % 65536, low % 65536)

CircularShift(n, w) == {(i + n) % 32 : i \in w}

\* The bytes of a word, the high one first.
BytesOfWord(w) == [i \in 1..4 |-> Half(w, 32 - 8 * i) % 256]

-----------------------------------------------------------------------------
(* SHA1::ProcessMessageBlock. *)

InitialH == <<OfHalves(\h6745, \h2301), OfHalves(\hefcd, \hab89), OfHalves(\h98ba, \hdcfe),
              OfHalves(\h1032, \h5476), OfHalves(\hc3d2, \he1f0)>>
K == <<OfHalves(\h5a82, \h7999), OfHalves(\h6ed9, \heba1), OfHalves(\h8f1b, \hbcdc),
       OfHalves(\hca62, \hc1d6)>>

WordAt(block, t) == LET b(i) == block[4 * t + i]
                    IN OfHalves(256 * b(1) + b(2), 256 * b(3) + b(4))

RECURSIVE Extended(_), Rounds(_, _)

\* The 80 words W, from the first of them.
Extended(W) ==
  LET t == Len(W) + 1
  IN IF t > 80 THEN W
     ELSE Extended(Append(W, CircularShift(1,
            ExclusiveOr(ExclusiveOr(W[t - 3], W[t - 8]), ExclusiveOr(W[t - 14], W[t - 16])))))

Mix(t, B, C, D) ==
  CASE t \in 0..19 -> (B \cap C) \cup (Complement(B) \cap D)
    [] t \in 40..59 -> (B \cap C) \cup (B \cap D) \cup (C \cap D)
    [] OTHER -> ExclusiveOr(ExclusiveOr(B, C), D)

\* The registers A to E after every round, from what they were at first.
Rounds(W, after) ==
  LET t == Len(after) - 1
      r == Last(after)
  IN IF t = 80 THEN after
     ELSE Rounds(W, Append(after,
            <<Sum32(<<CircularShift(5, r[1]), Mix(t, r[2], r[3], r[4]), r[5], W[t + 1],
                      K[t \div 20 + 1]>>),
              r[1], CircularShift(30, r[2]), r[3], r[4]>>))

ProcessMessageBlock(H, block) ==
  LET r == Last(Rounds(Extended([t \in 1..16 |-> WordAt(block, t - 1)]), <<H>>))
  IN [i \in 1..5 |-> Sum32(<<H[i], r[i]>>)]

-----------------------------------------------------------------------------
(* A SHA1 object.  H is a function of the blocks that have been processed; *)
(* the object of the model has the blocks.  Length_High is left out: it is *)
(* 0 up to 2^29 bytes.                                                     *)

Reset == [blocks |-> <<>>, block |-> <<>>, length |-> 0, computed |-> FALSE, corrupted |-> FALSE]

Processed(sha) == [sha EXCEPT !.blocks = Append(@, sha.block), !.block = <<>>]

\* A byte after the digest is computed corrupts the object.
Input(sha, byte) ==
  LET fed == [sha EXCEPT !.block = Append(@, byte), !.length = @ + 8]
  IN IF sha.computed \/ sha.corrupted THEN [sha EXCEPT !.corrupted = TRUE]
     ELSE IF Len(fed.block) = 64 THEN Processed(fed) ELSE fed

InputAll(sha, text) == FoldLeft(Input, sha, text)

Filled(block, n) == block \o [i \in 1..(n - Len(block)) |-> 0]
LengthBytes(n) == <<0, 0, 0, 0, n \div 16777216, (n \div 65536) % 256, (n \div 256) % 256, n % 256>>

\* Behind more than limit bytes the length has no room in the block.
PadBehind(sha, limit) ==
  LET marked == [sha EXCEPT !.block = Append(@, 128)]
      room == IF Len(sha.block) > limit
                THEN Processed([marked EXCEPT !.block = Filled(@, 64)]) ELSE marked
      block == SubSeq(Filled(room.block, 56), 1, 56) \o LengthBytes(sha.length)
  IN Processed([room EXCEPT !.block = block])

PadMessageLate(sha) == PadBehind(sha, 56)  \* mutant: the end of the room off by one
PadMessage(sha) == PadBehind(sha, 55)

\* The object after Result(), and the five words Result() hands out.
Result(sha) == IF sha.corrupted \/ sha.computed THEN sha
               ELSE [PadMessage(sha) EXCEPT !.computed = TRUE]
Digest(sha) == FoldLeft(ProcessMessageBlock, InitialH, Result(sha).blocks)

-----------------------------------------------------------------------------
(* Base64. *)

Chars == [i \in 0..63 |-> IF i < 26 THEN 65 + i ELSE IF i < 52 THEN 71 + i
                          ELSE IF i < 62 THEN i - 4 ELSE IF i = 62 THEN 43 ELSE 47]
Equals == 61

RECURSIVE base64_encode(_), base64_decode(_)

base64_encode(bytes) ==
  LET n == Min({3, Len(bytes)})
      b(i) == IF i <= n THEN bytes[i] ELSE 0
      four == <<b(1) \div 4, (b(1) % 4) * 16 + b(2) \div 16,
                (b(2) % 16) * 4 + b(3) \div 64, b(3) % 64>>
  IN IF n = 0 THEN <<>>
     ELSE [i \in 1..4 |-> IF i <= n + 1 THEN Chars[four[i]] ELSE Equals]
            \o base64_encode(SubSeq(bytes, n + 1, Len(bytes)))

\* Up to the first byte that is none of Chars; what is missing of a group counts as 255.
base64_decode(text) ==
  LET out == {i \in 1..Len(text) : text[i] \notin Range(Chars)}
      n == Min({4, Len(text)} \cup {i - 1 : i \in out})
      c(i) == IF i <= n THEN CHOOSE k \in 0..63 : Chars[k] = text[i] ELSE 255
      three == <<(c(1) * 4 + ((c(2) \div 16) % 4)) % 256,
                 (c(2) % 16) * 16 + ((c(3) \div 4) % 16), ((c(3) % 4) * 64 + c(4)) % 256>>
  IN IF n = 4 THEN three \o base64_decode(SubSeq(text, 5, Len(text)))
     ELSE SubSeq(three, 1, Max({n, 1}) - 1)

-----------------------------------------------------------------------------
(* NUPool::wsHandshake. *)

\* "258EAFA5-E914-47DA-95CA-C5AB0DC85B11"
MagicKey == <<50, 53, 56, 69, 65, 70, 65, 53, 45, 69, 57, 49, 52, 45, 52, 55, 68, 65, 45,
              57, 53, 67, 65, 45, 67, 53, 65, 66, 48, 68, 67, 56, 53, 66, 49, 49>>

AcceptKey(key) ==
  LET digest == Digest(InputAll(Reset, key \o MagicKey))
  IN base64_encode(FlattenSeq([i \in 1..5 |-> BytesOfWord(digest[i])]))

\* A request: how its first line starts, and its headers, <<"Sec-WebSocket-Key", k>>,
\* other ones, and the empty line <<"end">>.  The answer is the accept key of the first
\* key before the empty line; "Success" to a game server; or none.
wsHandshake(request) ==
  LET lines == request.lines
      ends == {i \in 1..Len(lines) : lines[i][1] = "end"}
      keys == {i \in 1..Len(lines) : lines[i][1] = "Sec-WebSocket-Key" /\ \A e \in ends : i < e}
  IN IF request.first = "Server" THEN <<"Success">>
     ELSE IF request.first = "GET" /\ keys # {} THEN <<"101", AcceptKey(lines[Min(keys)][2])>>
     ELSE <<>>
=============================================================================
