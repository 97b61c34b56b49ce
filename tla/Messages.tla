------------------------------- MODULE Messages -------------------------------
(***************************************************************************)
(* The protobuf messages of ServerControl/GameHall.pb.cc.  protoc writes   *)
(* out every message by hand, as it were: a method that reads it, two that *)
(* write it, one that counts its bytes, one that merges it.  Here each of  *)
(* these methods is a table of what it does field by field, and the        *)
(* library below them is written once.  The four tables of a message have  *)
(* to agree, and nothing but the generator sees to that.                   *)
(*                                                                         *)
(* A message is a record of its fields.  A text is a sequence of bytes, a  *)
(* message within a message a sequence of at most one message (a pointer   *)
(* that may be null).                                                      *)
(***************************************************************************)
EXTENDS Integers, Sequences, SequencesExt, FiniteSetsExt

\* One row of a table: a number, the field, its kind.
IntOf(n, f) == <<n, f, "int32">>
TextOf(n, f) == <<n, f, "string">>
BytesOf(n, f) == <<n, f, "bytes">>
BoolOf(n, f) == <<n, f, "bool">>
InfoOf(n, f) == <<n, f, "UserInfo">>

-----------------------------------------------------------------------------
(* X_Reads: the tags the parser knows.  X_Writes: the numbers the stream   *)
(* and the array version write.  X_Sizes: the bytes of a field's tag.      *)
(* X_Merges: the fields MergeFrom takes over.                              *)

Package_Reads  == <<IntOf(8, "msgID"), BytesOf(18, "msgData")>>
Package_Writes == [stream |-> <<IntOf(1, "msgID"), BytesOf(2, "msgData")>>,
                   array  |-> <<IntOf(1, "msgID"), BytesOf(2, "msgData")>>]
Package_Sizes  == <<IntOf(1, "msgID"), BytesOf(1, "msgData")>>
Package_Merges == {"msgID", "msgData"}

HeatBeat_Reads  == <<IntOf(8, "second")>>
HeatBeat_Writes == [stream |-> <<IntOf(1, "second")>>, array |-> <<IntOf(1, "second")>>]
HeatBeat_Sizes  == <<IntOf(1, "second")>>
HeatBeat_Merges == {"second"}

Mail_LC_Reads  == <<TextOf(10, "fromName"), TextOf(18, "time"), TextOf(26, "detail")>>
Mail_LC_Writes == [stream |-> <<TextOf(1, "fromName"), TextOf(2, "time"), TextOf(3, "detail")>>,
                   array  |-> <<TextOf(1, "fromName"), TextOf(2, "time"), TextOf(3, "detail")>>]
Mail_LC_Sizes  == <<TextOf(1, "fromName"), TextOf(1, "time"), TextOf(1, "detail")>>
Mail_LC_Merges == {"fromName", "time", "detail"}

UserLogin_CL_Reads  == <<TextOf(10, "token")>>
UserLogin_CL_Writes == [stream |-> <<TextOf(1, "token")>>, array |-> <<TextOf(1, "token")>>]
UserLogin_CL_Sizes  == <<TextOf(1, "token")>>
UserLogin_CL_Merges == {"token"}

UserInfo_Reads  == <<IntOf(8, "id"), TextOf(18, "name"), IntOf(24, "sex"), IntOf(32, "coin"),
                     IntOf(40, "diamond"), TextOf(50, "headURL"), BoolOf(56, "isTemp")>>
UserInfo_ToStream == <<IntOf(1, "id"), TextOf(2, "name"), IntOf(3, "sex"), IntOf(4, "coin"),
                       IntOf(5, "diamond"), TextOf(6, "headURL"), BoolOf(7, "isTemp")>>
\* mutant: coin and diamond in each other's place
UserInfo_ToArraySwapped ==
  <<IntOf(1, "id"), TextOf(2, "name"), IntOf(3, "sex"), IntOf(4, "diamond"),
    IntOf(5, "coin"), TextOf(6, "headURL"), BoolOf(7, "isTemp")>>
UserInfo_ToArray == <<IntOf(1, "id"), TextOf(2, "name"), IntOf(3, "sex"), IntOf(4, "coin"),
                      IntOf(5, "diamond"), TextOf(6, "headURL"), BoolOf(7, "isTemp")>>
UserInfo_Sizes  == <<IntOf(1, "id"), TextOf(1, "name"), IntOf(1, "sex"), IntOf(1, "coin"),
                     IntOf(1, "diamond"), TextOf(1, "headURL"), BoolOf(1, "isTemp")>>

UserInfo_Merges == {"id", "name", "sex", "coin", "diamond", "headURL", "isTemp"}

UserLogin_LC_Reads  == <<InfoOf(10, "userinfo")>>
UserLogin_LC_Writes == [stream |-> <<InfoOf(1, "userinfo")>>, array |-> <<InfoOf(1, "userinfo")>>]
UserLogin_LC_Sizes  == <<InfoOf(1, "userinfo")>>
UserLogin_LC_Merges == {"userinfo"}

EnterHall_CL_Reads  == <<>>
EnterHall_CL_Writes == [stream |-> <<>>, array |-> <<>>]
EnterHall_CL_Sizes  == <<>>
EnterHall_CL_Merges == {}

ReturnHall_CL_Reads  == <<TextOf(10, "token")>>
ReturnHall_CL_Writes == [stream |-> <<TextOf(1, "token")>>, array |-> <<TextOf(1, "token")>>]
ReturnHall_CL_Sizes  == <<TextOf(1, "token")>>
ReturnHall_CL_Merges == {"token"}

FreshUserInfo_LC_Reads  == <<InfoOf(10, "userinfo")>>
FreshUserInfo_LC_Writes == [stream |-> <<InfoOf(1, "userinfo")>>, array |-> <<InfoOf(1, "userinfo")>>]
FreshUserInfo_LC_Sizes  == <<InfoOf(1, "userinfo")>>
FreshUserInfo_LC_Merges == {"userinfo"}

FreshUserGoods_Reads  == <<IntOf(8, "coins"), IntOf(16, "diamonds")>>
FreshUserGoods_Writes == [stream |-> <<IntOf(1, "coins"), IntOf(2, "diamonds")>>,
                          array  |-> <<IntOf(1, "coins"), IntOf(2, "diamonds")>>]
FreshUserGoods_Sizes  == <<IntOf(1, "coins"), IntOf(1, "diamonds")>>
FreshUserGoods_Merges == {"coins", "diamonds"}

\* The table a method of a message is, by the message's name.
Reads == [
  Package |-> Package_Reads, HeatBeat |-> HeatBeat_Reads, Mail_LC |-> Mail_LC_Reads,
  UserLogin_CL |-> UserLogin_CL_Reads, UserInfo |-> UserInfo_Reads,
  UserLogin_LC |-> UserLogin_LC_Reads, EnterHall_CL |-> EnterHall_CL_Reads,
  ReturnHall_CL |-> ReturnHall_CL_Reads, FreshUserInfo_LC |-> FreshUserInfo_LC_Reads,
  FreshUserGoods |-> FreshUserGoods_Reads]

Writes == [
  Package |-> Package_Writes, HeatBeat |-> HeatBeat_Writes, Mail_LC |-> Mail_LC_Writes,
  UserLogin_CL |-> UserLogin_CL_Writes,
  UserInfo |-> [stream |-> UserInfo_ToStream, array |-> UserInfo_ToArray],
  UserLogin_LC |-> UserLogin_LC_Writes, EnterHall_CL |-> EnterHall_CL_Writes,
  ReturnHall_CL |-> ReturnHall_CL_Writes, FreshUserInfo_LC |-> FreshUserInfo_LC_Writes,
  FreshUserGoods |-> FreshUserGoods_Writes]

Sizes == [
  Package |-> Package_Sizes, HeatBeat |-> HeatBeat_Sizes, Mail_LC |-> Mail_LC_Sizes,
  UserLogin_CL |-> UserLogin_CL_Sizes, UserInfo |-> UserInfo_Sizes,
  UserLogin_LC |-> UserLogin_LC_Sizes, EnterHall_CL |-> EnterHall_CL_Sizes,
  ReturnHall_CL |-> ReturnHall_CL_Sizes, FreshUserInfo_LC |-> FreshUserInfo_LC_Sizes,
  FreshUserGoods |-> FreshUserGoods_Sizes]

Merges == [
  Package |-> Package_Merges, HeatBeat |-> HeatBeat_Merges, Mail_LC |-> Mail_LC_Merges,
  UserLogin_CL |-> UserLogin_CL_Merges, UserInfo |-> UserInfo_Merges,
  UserLogin_LC |-> UserLogin_LC_Merges, EnterHall_CL |-> EnterHall_CL_Merges,
  ReturnHall_CL |-> ReturnHall_CL_Merges, FreshUserInfo_LC |-> FreshUserInfo_LC_Merges,
  FreshUserGoods |-> FreshUserGoods_Merges]

Names == DOMAIN Reads
FieldsOf(name) == {row[2] : row \in ToSet(Reads[name])}
KindOf(name, f) == (CHOOSE row \in ToSet(Reads[name]) : row[2] = f)[3]

\* What Clear() and the constructor leave in a field of the kind.
Default(kind) == CASE kind = "int32" -> 0
                   [] kind = "bool" -> FALSE
                   [] OTHER -> <<>>
Cleared(name) == [f \in FieldsOf(name) |-> Default(KindOf(name, f))]

-----------------------------------------------------------------------------
(* The library: varints and tags. *)

\* What a unit of each of the five groups of seven bits is worth.
Weight == <<1, 128, 16384, 2097152, 268435456>>

\* The i-th group of seven bits of the 64 bits an int32 is extended to.
Group(n, i) == IF i <= 5 THEN (n \div Weight[i]) % 128 ELSE IF n < 0 THEN 127 ELSE 0

VarintSize(n) == CASE n < 0 -> 10
                   [] 0 <= n /\ n < 128 -> 1
                   [] 128 <= n /\ n < 16384 -> 2
                   [] 16384 <= n /\ n < 2097152 -> 3
                   [] 2097152 <= n /\ n < 268435456 -> 4
                   [] n >= 268435456 -> 5

Varint(n) ==
  [i \in 1..VarintSize(n) |->
     IF i = 10 THEN 1 ELSE Group(n, i) + IF i < VarintSize(n) THEN 128 ELSE 0]

\* The value of groups, cut to 32 bits.
Int32(groups) ==
  LET g(i) == IF i <= Len(groups) THEN groups[i] % 128 ELSE 0
      top == g(5) % 16
  IN g(1) + 128 * g(2) + 16384 * g(3) + 2097152 * g(4)
       + 268435456 * (IF top >= 8 THEN top - 16 ELSE top)

Ends(bytes) == {i \in 1..Len(bytes) : i <= 10 /\ bytes[i] < 128}
From(bytes, i) == SubSeq(bytes, i, Len(bytes))

\* A varint at the start of bytes.
ReadVarint(bytes) ==
  IF Ends(bytes) = {} THEN [ok |-> FALSE, value |-> 0, rest |-> <<>>]
  ELSE LET n == Min(Ends(bytes))
       IN [ok |-> TRUE, value |-> Int32(SubSeq(bytes, 1, n)), rest |-> From(bytes, n + 1)]

WireType(kind) == IF kind \in {"int32", "bool"} THEN 0 ELSE 2

\* How many bytes of a character begin with byte; 0 for one that begins none.
CharSize(byte) == CASE byte \in 0..127 -> 1
                    [] byte \in 194..223 -> 2
                    [] byte \in 224..239 -> 3
                    [] byte \in 240..244 -> 4
                    [] OTHER -> 0

\* What may come second: no long form of a short character, no half of a pair, and
\* nothing behind the last character.
Second(byte) == CASE byte = 224 -> 160..191
                  [] byte = 237 -> 128..159
                  [] byte = 240 -> 144..191
                  [] byte = 244 -> 128..143
                  [] OTHER -> 128..191

\* Every byte belongs to a whole character.
Utf8(text) ==
  LET Whole(i) ==
        LET n == CharSize(text[i])
        IN /\ n > 0 /\ i + n - 1 <= Len(text)
           /\ n > 1 => text[i + 1] \in Second(text[i])
           /\ \A j \in 2..(n - 1) : text[i + j] \in 128..191
  IN \A i \in 1..Len(text) :
       IF text[i] \in 128..191 THEN \E j \in 1..3 : j < i /\ CharSize(text[i - j]) > j
       ELSE Whole(i)

-----------------------------------------------------------------------------
(* Writing: a field that has its default is not written.  UserInfo is the   *)
(* only message within another, and has none within it.                     *)

Prefixed(bytes) == Varint(Len(bytes)) \o bytes

\* The bytes of a field that is no message.
Plain(kind, v) == CASE kind = "int32" -> Varint(v)
                    [] kind = "bool" -> <<1>>
                    [] OTHER -> Prefixed(v)

\* The field of the row of message m, whose bytes are these.
Tagged(row, m, bytes) ==
  IF m[row[2]] = Default(row[3]) THEN <<>> ELSE Varint(row[1] * 8 + WireType(row[3])) \o bytes

InfoWritten(m, version) ==
  LET rows == Writes.UserInfo[version]
  IN FlattenSeq([i \in 1..Len(rows) |-> Tagged(rows[i], m, Plain(rows[i][3], m[rows[i][2]]))])

FieldBytes(kind, v, version) ==
  IF kind = "UserInfo" THEN Prefixed(InfoWritten(v[1], version)) ELSE Plain(kind, v)

\* The bytes of message m, in the version ("stream" or "array") of the method.
Written(name, m, version) ==
  LET rows == Writes[name][version]
  IN FlattenSeq([i \in 1..Len(rows) |->
       Tagged(rows[i], m, FieldBytes(rows[i][3], m[rows[i][2]], version))])

Total(sizes) ==
  LET upTo[k \in 0..Len(sizes)] == IF k = 0 THEN 0 ELSE upTo[k - 1] + sizes[k]
  IN upTo[Len(sizes)]

PrefixedSize(n) == VarintSize(n) + n

PlainSize(kind, v) == CASE kind = "int32" -> VarintSize(v)
                        [] kind = "bool" -> 1
                        [] OTHER -> PrefixedSize(Len(v))

TaggedSize(row, m, size) == IF m[row[2]] = Default(row[3]) THEN 0 ELSE row[1] + size

InfoByteSize(m) ==
  LET rows == Sizes.UserInfo
  IN Total([i \in 1..Len(rows) |-> TaggedSize(rows[i], m, PlainSize(rows[i][3], m[rows[i][2]]))])

FieldSize(kind, v) ==
  IF kind = "UserInfo" THEN PrefixedSize(InfoByteSize(v[1])) ELSE PlainSize(kind, v)

\* The number of bytes SerializeToArray is given.
ByteSize(name, m) ==
  LET rows == Sizes[name]
  IN Total([i \in 1..Len(rows) |-> TaggedSize(rows[i], m, FieldSize(rows[i][3], m[rows[i][2]]))])

-----------------------------------------------------------------------------
(* Merging: MergeFrom, which takes over what is not the default. *)

\* mutable_userinfo(): the message behind the pointer, a new one if there is none.
InfoIn(v) == IF v = <<>> THEN Cleared("UserInfo") ELSE v[1]

Kept(name, f, from) == f \notin Merges[name] \/ from[f] = Default(KindOf(name, f))

InfoMerged(m, from) ==
  [f \in DOMAIN m |-> IF Kept("UserInfo", f, from) THEN m[f] ELSE from[f]]

Merged(name, m, from) ==
  [f \in DOMAIN m |->
     IF Kept(name, f, from) THEN m[f]
     ELSE IF KindOf(name, f) = "UserInfo" THEN <<InfoMerged(InfoIn(m[f]), from[f][1])>>
     ELSE from[f]]

-----------------------------------------------------------------------------
(* Reading: MergePartialFromCodedStream, a round of its loop at a time.    *)

\* Where the loop is: it has merged something into msg, and rest comes next.  It goes
\* on, or has ended (the method returns true), or failed.
Reading(m, bytes) == [status |-> "reading", msg |-> m, rest |-> bytes]
Ended(m, bytes) == [status |-> "ended", msg |-> m, rest |-> bytes]
Failed(m) == [status |-> "failed", msg |-> m, rest |-> <<>>]

Take(bytes, n) == SubSeq(bytes, 1, IF n <= Len(bytes) THEN n ELSE Len(bytes))

\* SkipField: a number, eight bytes, a text, four bytes; groups are not in use.
Skipped(tag, bytes) ==
  LET fixed(n) == [ok |-> Len(bytes) >= n, rest |-> From(bytes, n + 1)]
      v == ReadVarint(bytes)
  IN CASE tag % 8 = 0 -> [ok |-> v.ok, rest |-> v.rest]
       [] tag % 8 = 1 -> fixed(8)
       [] tag % 8 = 2 -> [ok |-> v.ok /\ v.value \in 0..Len(v.rest),
                          rest |-> From(v.rest, v.value + 1)]
       [] tag % 8 = 5 -> fixed(4)
       [] OTHER -> [ok |-> FALSE, rest |-> bytes]

\* Field f of m is set, to something that is right or not.
Taken(m, f, value, right, rest) ==
  IF right THEN Reading([m EXCEPT ![f] = value], rest) ELSE Failed([m EXCEPT ![f] = value])

\* The field of the kind at the start of bytes is read; inner is what became of it if it
\* is a message.  A failure keeps what has been read before.
FieldRead(m, f, kind, bytes, inner) ==
  LET v == ReadVarint(bytes)
      text == Take(v.rest, v.value)
      rest == From(v.rest, v.value + 1)
  IN IF ~v.ok THEN Failed(m)
     ELSE IF kind = "int32" THEN Taken(m, f, v.value, TRUE, v.rest)
     ELSE IF kind = "bool" THEN Taken(m, f, v.value # 0, TRUE, v.rest)
     ELSE IF v.value < 0 THEN Failed(m)
     ELSE IF kind = "UserInfo"
       THEN Taken(m, f, <<inner.msg>>, inner.status = "ended" /\ inner.rest = <<>>, rest)
     ELSE Taken(m, f, text, Len(text) = v.value /\ (kind = "string" => Utf8(text)), rest)

\* A tag and its field; at a tag that is none the loop ends.
RoundOf(name, s, inner) ==
  LET t == ReadVarint(s.rest)
      known == {r \in ToSet(Reads[name]) : r[1] = t.value}
      row == CHOOSE r \in known : TRUE
      other == Skipped(t.value, t.rest)
  IN IF s.status # "reading" THEN s
     ELSE IF ~t.ok \/ t.value = 0 \/ t.value % 8 = 4 THEN Ended(s.msg, s.rest)
     ELSE IF known # {} THEN FieldRead(s.msg, row[2], row[3], t.rest, inner)
     ELSE IF other.ok THEN Reading(s.msg, other.rest)
     ELSE Failed(s.msg)

InfoRound(s) == RoundOf("UserInfo", s, s)  \* with no message in it

\* As many rounds as it takes; every one but the last takes a byte or more.
InfoParsed(m, bytes) ==
  LET after[k \in 0..(Len(bytes) + 1)] ==
        IF k = 0 THEN Reading(m, bytes) ELSE InfoRound(after[k - 1])
  IN after[CHOOSE k \in 0..(Len(bytes) + 1) : after[k].status # "reading"]

\* The message that is the field behind the tag at the start of bytes, merged into v.
InfoRead(v, bytes) ==
  LET size == ReadVarint(ReadVarint(bytes).rest) IN InfoParsed(InfoIn(v), Take(size.rest, size.value))

Round(name, s) == RoundOf(name, s, InfoRead(s.msg.userinfo, s.rest))

\* m with what the bytes say merged into it.
Parsed(name, m, bytes) ==
  LET after[k \in 0..(Len(bytes) + 1)] ==
        IF k = 0 THEN Reading(m, bytes) ELSE Round(name, after[k - 1])
  IN after[CHOOSE k \in 0..(Len(bytes) + 1) : after[k].status # "reading"]

\* ParseFromArray, whose result no caller looks at.
Parse(name, bytes) == Parsed(name, Cleared(name), bytes).msg

=============================================================================
