-------------------------------- MODULE Codecs --------------------------------
(***************************************************************************)
(* What the codecs of the server promise, each on its samples: the         *)
(* protobuf messages, the WebSocket frames, a Package in a frame, the      *)
(* answers of the handlers, JSON, and the handshake.  A step takes one     *)
(* sample up; the codecs have no state of their own.                       *)
(***************************************************************************)
EXTENDS WireSamples, Answers, Handshake

CONSTANTS
  Messages,    \* <<name, message, message to be merged into it>>
  Strange,     \* fields no message has, as bytes
  FrameSizes,  \* the payload of a frame, in bytes: what is below 2^32 of it, ...
  Highs,       \* ... and what is above
  Packages,    \* the Packages
  Cuts,        \* how many bytes of a frame may be missing
  Masks,       \* the masks of clients
  Stales,      \* what an earlier read may have left in a thread's buffer
  Values,      \* JSON values
  Characters,  \* characters of Unicode, by number
  Wholes,      \* digits before the point, and behind it
  Powers,      \* exponents of ten, without their sign
  Players,     \* UserInfo messages
  Texts,       \* the texts of a mail
  Keys         \* Sec-WebSocket-Key values

ASSUME SamplesAssumption ==
  /\ \A s \in Messages : s[1] \in Names
  /\ FrameSizes \cup Highs \subseteq Nat /\ Cuts \subseteq Nat

Init == sample = [codec |-> "none"]

Idle == sample.codec = "none"

\* The codecs, one action each.
TryMessage ==
  /\ Idle
  /\ \E s \in Messages, bytes \in Strange :
       sample' = [codec |-> "message", name |-> s[1], msg |-> s[2], other |-> s[3],
                  strange |-> bytes]

TryFrame ==
  /\ Idle
  /\ \E size \in FrameSizes, high \in Highs, opcode \in OpCodes :
       sample' = [codec |-> "frame", high |-> high, size |-> size, opcode |-> opcode]

TryPackage ==
  /\ Idle
  /\ \E p \in Packages, cut \in Cuts, mask \in Masks, stale \in Stales,
        opcode \in {TextFrame, BinaryFrame} :
       sample' = [codec |-> "package", package |-> p, cut |-> cut, mask |-> mask,
                  stale |-> stale, opcode |-> opcode]

TryValue ==
  /\ Idle
  /\ \E v \in Values, fmt \in BOOLEAN : sample' = [codec |-> "json", value |-> v, fmt |-> fmt]

TryChar == Idle /\ \E c \in Characters : sample' = [codec |-> "char", char |-> c]

TryNumber ==
  /\ Idle
  /\ \E n, f \in Wholes, e \in Powers, minus, below \in BOOLEAN :
       sample' = [codec |-> "number", minus |-> minus, whole |-> n, fraction |-> f,
                  below |-> below, power |-> e]

TryAnswer ==
  /\ Idle
  /\ \E p \in Players, text \in Texts, stale \in Stales, fmt \in BOOLEAN :
       sample' = [codec |-> "answer", player |-> p, text |-> text, stale |-> stale, fmt |-> fmt]

TryKey == Idle /\ \E key \in Keys : sample' = [codec |-> "key", key |-> key]

Next == TryMessage \/ TryFrame \/ TryPackage \/ TryValue \/ TryChar \/ TryNumber \/ TryAnswer \/ TryKey

Spec == Init /\ [][Next]_sample

-----------------------------------------------------------------------------
(* JSON. *)

\* \u and four digits.
Escape16(c) == <<Backslash, 117>> \o [i \in 1..4 |-> HexText((c \div 16^(4 - i)) % 16)]

\* The number a UTF-8 text of one character stands for.
CharOf(t) ==
  LET lead == CASE Len(t) = 1 -> t[1] [] Len(t) = 2 -> t[1] - 192
                [] Len(t) = 3 -> t[1] - 224 [] Len(t) = 4 -> t[1] - 240
  IN FoldLeft(LAMBDA n, b : 64 * n + (b - 128), lead, Tail(t))

\* A character in its escaped form, in one half or two, is read as what it is.
ReadsChar ==
  LET c == sample.char - 65536
      text == IF sample.char < 65536 THEN Escape16(sample.char)
              ELSE Escape16(55296 + c \div 1024) \o Escape16(56320 + (c % 1024))
      read == JsonParse(<<Quote>> \o text \o <<Quote>>)
  IN read.ok /\ read.rest = <<>> /\ CharOf(read.value.text) = sample.char

\* A number with a fraction and an exponent is read, and cut to a whole one.
ReadsNumber ==
  LET f == PrintNumber(sample.fraction)
      digits == sample.whole * 10^Len(f) + sample.fraction
      shift == (IF sample.below THEN -sample.power ELSE sample.power) - Len(f)
      size == IF shift >= 0 THEN digits * 10^shift ELSE digits \div 10^(-shift)
      text == When(sample.minus, <<Minus>>) \o PrintNumber(sample.whole) \o <<46>> \o f
                \o <<101, IF sample.below THEN Minus ELSE 43>> \o PrintNumber(sample.power)
  IN JsonParse(text) = Success(Number(IF sample.minus THEN -size ELSE size), <<>>)

\* A value is read back as it was printed, with and without layout, between white
\* space and whatever follows it; printing into a buffer gives the same text; without
\* its white space the one layout is the other; and what only other writers use, as the
\* web service may, is read as well.
JsonForms ==
  /\ Of("json") =>
       LET v == sample.value
           text == JsonPrint(v, sample.fmt)
       IN /\ JsonParse(<<32, 10>> \o text \o <<10, Comma, Quote>>) = Success(v, <<10, Comma, Quote>>)
          /\ JsonPrintBuffered(v, sample.fmt) = text
          /\ JsonMinify(text) = JsonPrint(v, FALSE)
  /\ Of("char") => ReadsChar
  /\ Of("number") => ReadsNumber

\* The web service's answer about a player, in either layout.
Answer(p) ==
  Object(<<Member(Item.errcode, Number(1)), Member(Item.name, String(p.name)), Member(Item.coins, Number(p.coin)),
           Member(Item.diamond, Number(p.diamond)), Member(Item.uuid, Number(p.id)),
           Member(Item.sex, Number(p.sex)), Member(Item.tempAccount, IF p.isTemp THEN True ELSE Number(0))>>)

\* In one frame a client gets message m, under its number.
Shows(sent) ==
  \E package \in {ClientTakes(sent.bytes)} :
    package.msgID = sent.number /\ Parse(sent.message, package.msgData) = sent.m

\* The game server's heartbeat comes back with its time, over whatever an earlier read has
\* left behind it.  A message without a number, or with another, is not answered.  One that
\* a read has cut, or without the time, ends the process.
GameServerAnswered(number, time, fmt, stale) ==
  LET says(members) == JsonPrint(Object(members), fmt)
      msgid == Member(Item.msgid, Number(HEARTBEAT_GL))
      sent == Member(Item.time, Number(time))
      beat == says(<<msgid, sent>>)
  IN /\ \E answer \in {SubHeartBeat(beat, stale)} :
          /\ answer.kind = "answer"
          /\ \E back \in {JsonParse(answer.text)} : back.ok /\ IntItem(back.value, Item.time) = time
     /\ SubHeartBeat(says(<<sent>>), stale).kind = "nothing"
     /\ SubHeartBeat(says(<<Member(Item.msgid, Number(number)), sent>>), stale).kind = "nothing"
     /\ SubHeartBeat(says(<<msgid>>), stale).kind = "fault"
     /\ SubHeartBeat(Front(beat), <<>>).kind = "fault"

\* The player a web service's answer tells of is the one both kinds of clients' message
\* shows, through JSON, the session, UserInfo, Package and frame; an answer without
\* success shows nobody.  A mail has its three texts, a heartbeat comes back with what
\* the client has put into it; what a game server sends is answered as said above.
AnswerDelivered ==
  Of("answer") =>
    LET p == sample.player
        text == JsonPrint(Answer(p), sample.fmt)
        Sent(bytes, number, message, m) ==
          [bytes |-> bytes, number |-> number, message |-> message, m |-> m]
        answers ==
          <<Sent(LoginAnswer(text), USER_LOGIN_LC, "UserLogin_LC", [userinfo |-> <<p>>]),
            Sent(FreshAnswer(text), FreshUserInfo_LC, "FreshUserInfo_LC", [userinfo |-> <<p>>]),
            Sent(LoginAnswer(sample.text), USER_LOGIN_LC, "UserLogin_LC",
                 [userinfo |-> <<Cleared("UserInfo")>>]),
            Sent(SendMail(sample.text, p.name, sample.text), Mail_LC, "Mail_LC",
                 [fromName |-> p.name, time |-> sample.text, detail |-> sample.text]),
            Sent(HallHeartBeat(Serialized("HeatBeat", [second |-> p.coin])), HEARTBEAT,
                 "HeatBeat", [second |-> p.coin])>>
    IN /\ \A sent \in ToSet(answers) : Shows(sent)
       /\ GameServerAnswered(p.id, p.coin, sample.fmt, sample.stale)

-----------------------------------------------------------------------------
(* The handshake. *)

\* FIPS 180: a 1, as few 0 as fill up to 56 of 64 bytes, the length in bits.
Padded(text) ==
  LET zeros == (119 - (Len(text) % 64)) % 64
  IN text \o <<128>> \o [i \in 1..zeros |-> 0] \o LengthBytes(8 * Len(text))

\* The example of RFC 6455: "dGhlIHNhbXBsZSBub25jZQ==", "s3pPLMBiTxaQ9kYGzzhZRbK+xOo=".
ExampleKey == <<100, 71, 104, 108, 73, 72, 78, 104, 98, 88, 66, 115,
                90, 83, 66, 117, 98, 50, 53, 106, 90, 81, 61, 61>>
ExampleAccept == <<115, 51, 112, 80, 76, 77, 66, 105, 84, 120, 97, 81, 57, 107,
                   89, 71, 122, 122, 104, 90, 82, 98, 75, 43, 120, 79, 111, 61>>

\* Whatever the length of a client's key, SHA1 digests it with the padding of the
\* standard, and refuses more input behind that; Base64 loses nothing; a request with
\* the key of RFC 6455 is answered as there, and one without a key before the empty
\* line not at all.
AcceptKeyStandard ==
  Of("key") =>
    LET text == sample.key \o MagicKey
        done == Result(InputAll(Reset, text))
        line == <<"Sec-WebSocket-Key", sample.key>>
        other == <<"Host">>
        end == <<"end">>
        Request(lines) == [first |-> "GET", lines |-> lines]
    IN /\ FlattenSeq(done.blocks) = Padded(text)
       /\ Result(Input(done, 0)).corrupted /\ ~done.corrupted
       /\ base64_decode(base64_encode(sample.key)) = sample.key
       /\ sample.key = ExampleKey =>
            wsHandshake(Request(<<other, line, line, end>>)) = <<"101", ExampleAccept>>
       /\ wsHandshake(Request(<<other, end, line>>)) = <<>>
=============================================================================
