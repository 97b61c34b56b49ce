------------------------------- MODULE JsonText -------------------------------
(***************************************************************************)
(* The JSON texts of Utils/ThirdParty/cJSON.c: the web service's answers   *)
(* are parsed by it, the messages to and from the game servers too.  A     *)
(* text is a sequence of bytes, without the 0 that ends it.  A value is a  *)
(* record with its type; of a number it has what the server reads of it,   *)
(* valueint.  Running out of memory is left out, and so is a text that     *)
(* ends within an escape, which parse_string runs past the end of.         *)
(***************************************************************************)
EXTENDS Integers, Sequences, SequencesExt, FiniteSetsExt

Null == [type |-> "null"]
False == [type |-> "false"]
True == [type |-> "true"]
Number(n) == [type |-> "number", int |-> n]
String(t) == [type |-> "string", text |-> t]
Array(items) == [type |-> "array", items |-> items]
Object(items) == [type |-> "object", items |-> items]
Member(name, v) == [name |-> name, value |-> v]

\* The bytes that mean something.
Quote == 34
Comma == 44
Minus == 45
Colon == 58
Backslash == 92
Open(kind)  == IF kind = "array" THEN 91 ELSE 123
Close(kind) == IF kind = "array" THEN 93 ELSE 125
Digit == 48..57
NullText  == <<110, 117, 108, 108>>
FalseText == <<102, 97, 108, 115, 101>>
TrueText  == <<116, 114, 117, 101>>

First(t) == IF t = <<>> THEN 0 ELSE t[1]
Rest(t, n) == SubSeq(t, n + 1, Len(t))

\* How many of the first bytes of t are in S.
Leading(t, S) == LET out == {i \in 1..Len(t) : t[i] \notin S}
                 IN IF out = {} THEN Len(t) ELSE Min(out) - 1
One(t, S) == IF First(t) \in S THEN 1 ELSE 0

Skip(t) == Rest(t, Leading(t, 1..32))

-----------------------------------------------------------------------------
(* Parsing: the value at the start of a text, and what is behind it. *)

Failure == [ok |-> FALSE, value |-> Null, rest |-> <<>>]
Success(v, t) == [ok |-> TRUE, value |-> v, rest |-> t]

Decimal(digits) == FoldLeft(LAMBDA n, d : (10 * n) + (d - 48), 0, digits)

\* The exponent, or none, and what is behind it.
Exponent(t) ==
  LET s    == One(Rest(t, 1), {43, Minus})
      expo == Rest(t, 1 + s)
      x    == Leading(expo, Digit)
      size == Decimal(SubSeq(expo, 1, x))
  IN IF First(t) \notin {69, 101} THEN [power |-> 0, rest |-> t]
     ELSE [power |-> IF First(Rest(t, 1)) = Minus THEN -size ELSE size, rest |-> Rest(expo, x)]

\* The number of these digits, the last f of them behind the point; valueint cuts it.
Scaled(sign, digits, f, exponent) ==
  LET power == exponent.power - f
      size  == Decimal(digits)
      int   == IF power >= 0 THEN size * 10^power ELSE size \div 10^(-power)
  IN Success(Number(sign * int), exponent.rest)

\* The digits and a fraction, each of them or not.
Unsigned(sign, t) ==
  LET n     == IF First(t) = 48 THEN 0 ELSE Leading(t, Digit)
      point == Rest(t, n)
      f     == IF First(point) = 46 THEN Leading(Tail(point), Digit) ELSE 0
  IN Scaled(sign, SubSeq(t, 1, n) \o SubSeq(point, 2, f + 1), f,
            Exponent(IF f = 0 THEN point ELSE Rest(point, f + 1)))

\* parse_number: a sign and one 0 come first, each of them or not.
ParseNumber(t) ==
  LET whole == Rest(t, One(t, {Minus}))
  IN Unsigned(IF First(t) = Minus THEN -1 ELSE 1, Rest(whole, One(whole, {48})))

HexDigit(c) == CASE c \in Digit -> c - 48
                 [] c \in 65..70 -> c - 55
                 [] c \in 97..102 -> c - 87
                 [] OTHER -> 16

\* parse_hex4: 0 for four bytes that are no number.
Hex4(t) ==
  LET four == [i \in 1..4 |-> IF i <= Len(t) THEN HexDigit(t[i]) ELSE 16]
  IN IF 16 \in Range(four) THEN 0 ELSE FoldLeft(LAMBDA n, d : 16 * n + d, 0, four)

\* The bytes of a character of Unicode.
Utf8Of(c) ==
  LET Low(shift) == 128 + ((c \div 64^shift) % 64)
  IN IF c < 128 THEN <<c>>
     ELSE IF c < 2048 THEN <<192 + c \div 64, Low(0)>>
     ELSE IF c < 65536 THEN <<224 + c \div 4096, Low(1), Low(0)>>
     ELSE <<240 + c \div 262144, Low(2), Low(1), Low(0)>>

\* The bytes of an escape, and how many were looked at.
Looked(bytes, n) == [bytes |-> bytes, read |-> n]

\* Two halves of a character.
Paired(high, low) ==
  IF low \notin 56320..57343 THEN Looked(<<>>, 12)
  ELSE Looked(Utf8Of(65536 + (high % 1024) * 1024 + (low % 1024)), 12)

\* \uXXXX for code, which may be the first half of a character, before t.
CodeOf(code, t) ==
  IF code = 0 \/ code \in 56320..57343 THEN Looked(<<>>, 6)
  ELSE IF code \notin 55296..56319 THEN Looked(Utf8Of(code), 6)
  ELSE IF ~IsPrefix(<<Backslash, 117>>, t) THEN Looked(<<>>, 6)
  ELSE Paired(code, Hex4(Rest(t, 2)))

Transcoded(t) == CodeOf(Hex4(Rest(t, 2)), Rest(t, 6))

\* The letters of the short escapes and the bytes they stand for.
Letters == <<98, 102, 110, 114, 116>>
Controls == <<8, 12, 10, 13, 9>>
Meaning(c) == IF c \in Range(Letters) THEN Controls[CHOOSE i \in 1..5 : Letters[i] = c] ELSE c

Escape(t) ==
  IF First(t) # Backslash THEN Looked(<<t[1]>>, 1)
  ELSE IF t[2] = 117 THEN Transcoded(t) ELSE Looked(<<Meaning(t[2])>>, 2)

Behind(bytes, r) == [text |-> bytes \o r.text, rest |-> r.rest]

RECURSIVE Unescaped(_)

\* The character e is followed by the rest of t.
UnescapedFrom(e, t) == Behind(e.bytes, Unescaped(Rest(t, e.read)))

\* What is behind an opening quote; the end of the text closes it as well.
Unescaped(t) ==
  IF First(t) \in {0, Quote} THEN [text |-> <<>>, rest |-> Rest(t, 1)]
  ELSE UnescapedFrom(Escape(t), t)

\* The string from what is behind its opening quote.
StringFrom(r) == Success(String(r.text), r.rest)
ParseString(t) == IF First(t) # Quote THEN Failure ELSE StringFrom(Unescaped(Tail(t)))

RECURSIVE ParseValue(_), ParseItems(_, _)

\* The name of a member is followed by its value, parsed as r.
Named(name, r) == IF r.ok THEN Success(Member(name, r.value), r.rest) ELSE Failure

\* The member whose name is parsed as r: a colon and its value come next.
MemberFrom(r) ==
  LET after == Skip(r.rest)
  IN IF r.ok /\ First(after) = Colon
       THEN Named(r.value.text, ParseValue(Skip(Tail(after)))) ELSE Failure

ParseMember(t) == MemberFrom(ParseString(t))

\* An item is followed by the others, parsed as r.
Listed(item, r) == IF r.ok THEN Success(<<item>> \o r.value, r.rest) ELSE Failure

\* The items from one that is parsed as r up to the closing bracket.
ItemsFrom(r, kind) ==
  LET after == Skip(r.rest)
  IN IF ~r.ok THEN Failure
     ELSE IF First(after) = Close(kind) THEN Success(<<r.value>>, Tail(after))
     ELSE IF First(after) = Comma THEN Listed(r.value, ParseItems(Skip(Tail(after)), kind))
     ELSE Failure

ParseItems(t, kind) ==
  ItemsFrom(IF kind = "array" THEN ParseValue(t) ELSE ParseMember(t), kind)

\* The array or the object that begins here, empty or with its items.
ParseKind(t, kind) ==
  LET inside == Skip(Tail(t))
  IN IF First(inside) = Close(kind) THEN Success(<<>>, Tail(inside)) ELSE ParseItems(inside, kind)

Bracketed(kind, r) ==
  IF ~r.ok THEN Failure
  ELSE Success(IF kind = "array" THEN Array(r.value) ELSE Object(r.value), r.rest)

ParseArray(t) == Bracketed("array", ParseKind(t, "array"))
ParseObject(t) == Bracketed("object", ParseKind(t, "object"))

\* parse_value; what comes behind is not its business.
ParseValue(t) ==
  CASE IsPrefix(NullText, t) -> Success(Null, Rest(t, 4))
    [] IsPrefix(FalseText, t) -> Success(False, Rest(t, 5))
    [] IsPrefix(TrueText, t) -> Success(True, Rest(t, 4))
    [] First(t) = Quote -> ParseString(t)
    [] First(t) \in Digit \cup {Minus} -> ParseNumber(t)
    [] First(t) = Open("array") -> ParseArray(t)
    [] First(t) = Open("object") -> ParseObject(t)
    [] OTHER -> Failure

\* cJSON_Parse, which does not ask for the end of the text.
JsonParse(t) == ParseValue(Skip(t))

-----------------------------------------------------------------------------
(* Printing. *)

HexText(d) == IF d < 10 THEN 48 + d ELSE 87 + d

Escaped(c) ==
  IF c > 31 /\ c \notin {Quote, Backslash} THEN <<c>>
  ELSE IF c \in Range(Controls) THEN <<Backslash, Letters[CHOOSE i \in 1..5 : Controls[i] = c]>>
  ELSE IF c > 31 THEN <<Backslash, c>>
  ELSE <<Backslash, 117, 48, 48, HexText(c \div 16), HexText(c % 16)>>

\* mutant: the quick way of print_string_ptr for every text
PrintStringPlain(text) == <<Quote>> \o text \o <<Quote>>
PrintString(text) == <<Quote>> \o FlattenSeq([i \in 1..Len(text) |-> Escaped(text[i])]) \o <<Quote>>

RECURSIVE Digits(_)
Digits(n) == (IF n < 10 THEN <<>> ELSE Digits(n \div 10)) \o <<48 + (n % 10)>>

\* print_number of a whole number; others need the double the model does not have.
PrintNumber(n) == IF n < 0 THEN <<Minus>> \o Digits(-n) ELSE Digits(n)

When(fmt, t) == IF fmt THEN t ELSE <<>>
Tabs(n) == [i \in 1..n |-> 9]

EmptyText(kind, depth, fmt) ==
  IF kind = "array" THEN <<91, 93>>
  ELSE <<123>> \o When(fmt, <<10>> \o Tabs(depth - 1)) \o <<125>>

Scalars == {"null", "false", "true", "number", "string"}
PrintScalar(v) ==
  CASE v.type = "null" -> NullText
    [] v.type = "false" -> FalseText
    [] v.type = "true" -> TrueText
    [] v.type = "number" -> PrintNumber(v.int)
    [] v.type = "string" -> PrintString(v.text)

RECURSIVE PrintValue(_, _, _)

\* Without a buffer all the entries are printed, and put together then.
PrintArray(v, depth, fmt) ==
  LET n == Len(v.items)
      entries == [i \in 1..n |-> PrintValue(v.items[i], depth + 1, fmt)]
      Between(i) == IF i = n THEN <<>> ELSE <<Comma>> \o When(fmt, <<32>>)
  IN <<91>> \o FlattenSeq([i \in 1..n |-> entries[i] \o Between(i)]) \o <<93>>

PrintObject(v, depth, fmt) ==
  LET n == Len(v.items)
      names == [i \in 1..n |-> PrintString(v.items[i].name)]
      entries == [i \in 1..n |-> PrintValue(v.items[i].value, depth + 1, fmt)]
      Line(i) == When(fmt, Tabs(depth + 1)) \o names[i] \o <<Colon>> \o When(fmt, <<9>>)
                   \o entries[i] \o (IF i = n THEN <<>> ELSE <<Comma>>) \o When(fmt, <<10>>)
  IN <<123>> \o When(fmt, <<10>>) \o FlattenSeq([i \in 1..n |-> Line(i)])
       \o When(fmt, Tabs(depth)) \o <<125>>

PrintValue(v, depth, fmt) ==
  IF v.type \in Scalars THEN PrintScalar(v)
  ELSE IF v.items = <<>> THEN EmptyText(v.type, depth, fmt)
  ELSE IF v.type = "array" THEN PrintArray(v, depth, fmt) ELSE PrintObject(v, depth, fmt)

RECURSIVE Appended(_, _, _, _)

\* With a buffer each piece goes behind what is there already.
AppendArray(buffer, v, depth, fmt) ==
  LET n == Len(v.items)
      AddEntry(b, i) == Appended(b, v.items[i], depth + 1, fmt)
                          \o IF i < n THEN <<Comma>> \o When(fmt, <<32>>) ELSE <<>>
  IN FoldLeft(AddEntry, buffer \o <<91>>, [i \in 1..n |-> i]) \o <<93>>

AppendObject(buffer, v, depth, fmt) ==
  LET n == Len(v.items)
      AddMember(b, i) ==
        Appended(b \o When(fmt, Tabs(depth + 1)) \o PrintString(v.items[i].name)
                   \o <<Colon>> \o When(fmt, <<9>>), v.items[i].value, depth + 1, fmt)
          \o (IF i < n THEN <<Comma>> ELSE <<>>) \o When(fmt, <<10>>)
  IN FoldLeft(AddMember, buffer \o <<123>> \o When(fmt, <<10>>), [i \in 1..n |-> i])
       \o When(fmt, Tabs(depth)) \o <<125>>

Appended(buffer, v, depth, fmt) ==
  IF v.type \in Scalars THEN buffer \o PrintScalar(v)
  ELSE IF v.items = <<>> THEN buffer \o EmptyText(v.type, depth, fmt)
  ELSE IF v.type = "array" THEN AppendArray(buffer, v, depth, fmt)
  ELSE AppendObject(buffer, v, depth, fmt)

JsonPrint(v, fmt) == PrintValue(v, 0, fmt)
JsonPrintBuffered(v, fmt) == Appended(<<>>, v, 0, fmt)

RECURSIVE Minified(_, _)

\* cJSON_Minify: without white space and comments, but for what is inside a string.
Minified(t, inside) ==
  LET Keep(n, in) == SubSeq(t, 1, n) \o Minified(Rest(t, n), in)
      ends == {i \in 3..Len(t) : t[i - 1] = 42 /\ t[i] = 47}
      behind == IF ends = {} THEN Len(t) ELSE Min(ends)
  IN CASE t = <<>> -> <<>>
       [] inside /\ t[1] = Backslash -> Keep(2, TRUE)
       [] t[1] = Quote -> Keep(1, ~inside)
       [] inside -> Keep(1, TRUE)
       [] t[1] \in {32, 9, 13, 10} -> Minified(Tail(t), FALSE)
       [] IsPrefix(<<47, 47>>, t) -> Minified(Rest(t, Leading(t, 1..255 \ {10})), FALSE)
       [] IsPrefix(<<47, 42>>, t) -> Minified(Rest(t, behind), FALSE)
       [] OTHER -> Keep(1, FALSE)

JsonMinify(t) == Minified(t, FALSE)

-----------------------------------------------------------------------------
(* Building and looking up. *)

\* cJSON_strcasecmp does not tell capitals from small letters.
Lower(name) == [i \in 1..Len(name) |-> IF name[i] \in 65..90 THEN name[i] + 32 ELSE name[i]]

\* cJSON_GetObjectItem: the first member of the name, as a sequence of at most one.
Lookup(v, name) ==
  LET found == {i \in 1..Len(v.items) : Lower(v.items[i].name) = Lower(name)}
  IN IF v.type # "object" \/ found = {} THEN <<>> ELSE <<v.items[Min(found)].value>>

\* cJSON_AddItemToObject appends, whether the name is there already or not.
Added(v, name, item) == Object(Append(v.items, Member(name, item)))
=============================================================================
