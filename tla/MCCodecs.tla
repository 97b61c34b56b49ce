------------------------------- MODULE MCCodecs -------------------------------
(* Samples at the boundaries of what the codecs tell apart.                  *)
EXTENDS Codecs

A == <<65>>
Odd == <<34, 92, 10, 1, 127>>  \* a quote, a backslash, a line feed, a control, DEL
Ints == {0, 1, 127, 128, 16384, 2147483647, -1, -2147483647}
SomeTexts == {<<>>, A, Odd, <<200>>}
Long(n) == [i \in 1..n |-> i % 128]

Info(i, d, t, b) == [id |-> i, name |-> t, sex |-> 1, coin |-> d, diamond |-> i,
                     headURL |-> t, isTemp |-> b]
Infos == {Info(i, d, t, b) : i \in {0, 128, -1}, d \in {0, 7}, t \in SomeTexts, b \in BOOLEAN}

Each(name, messages) == {<<name, m, o>> : m \in messages, o \in messages}
Mails == [fromName : {<<>>, A, <<200>>}, time : {<<>>, Odd}, detail : {<<>>, Long(130)}]
Wrapped == [userinfo : {<<>>, <<Cleared("UserInfo")>>, <<Info(1, 2, A, TRUE)>>, <<Info(0, 3, <<200>>, FALSE)>>}]

MCMessages ==
  UNION {Each("Package", [msgID : Ints, msgData : {<<>>, <<200>>, Long(130)}]),
         Each("HeatBeat", [second : Ints]), Each("Mail_LC", Mails),
         Each("UserLogin_CL", [token : SomeTexts \cup {<<195, 164>>}]),
         Each("ReturnHall_CL", [token : SomeTexts]),
         Each("EnterHall_CL", {Cleared("EnterHall_CL")}),
         {<<"UserInfo", m, o>> : m \in Infos, o \in {Info(0, 9, <<>>, TRUE), Info(5, 0, A, FALSE)}},
         Each("UserLogin_LC", Wrapped), Each("FreshUserInfo_LC", Wrapped),
         Each("FreshUserGoods", [coins : {0, 5, -1}, diamonds : {0, 6}])}

\* Nothing; a number, a text, eight bytes and four bytes under numbers no message has.
MCStrange == {<<>>, <<120, 129, 1, 122, 2, 9, 9>>, <<121, 1, 2, 3, 4, 5, 6, 7, 8, 125, 1, 2, 3, 4>>}

MCFrameSizes == {0, 1, 124, 125, 126, 128, 255, 256, 10231, 10232, 10233, 10240, 32767, 32768,
                 65535, 65536, 16777216}

MCPackages ==
  {[msgID |-> n, msgData |-> d] : n \in {999, 1000, 20001}, d \in {<<>>, <<0>>, Long(3)}}
    \cup {[msgID |-> 10006, msgData |-> Long(n)] : n \in {119, 120, 121, 10226, 10227}}

MCStales == {<<>>, ClientFrame(BinaryFrame, <<1, 2, 3, 4>>,
                         Serialized("Package", [msgID |-> 1001, msgData |-> Long(9)])),
             Long(140)}

Leaves == {Null, False, True, Number(0), Number(-17), Number(2147483647)}
            \cup {String(t) : t \in {<<>>, A, Odd, <<195, 164>>, <<47, 42>>}}
Level1 == Leaves
  \cup {Array(s) : s \in {<<>>} \cup {<<a>> : a \in Leaves} \cup {<<a, b>> : a, b \in {Null, String(<<93>>)}}}
  \cup {Object(s) : s \in {<<>>} \cup {<<Member(A, a)>> : a \in Leaves}
                        \cup {<<Member(A, a), Member(<<>>, b)>> : a, b \in {True, String(<<44>>)}}}
Few == {Number(3), Array(<<>>), Object(<<>>), Array(<<Null, True>>), Object(<<Member(Odd, String(Odd))>>)}
MCValues == Level1 \cup {Array(<<a, b>>) : a \in Level1, b \in Few}
                   \cup {Object(<<Member(Odd, a), Member(A, b)>>) : a \in Level1, b \in Few}

MCCharacters == {1, 34, 65, 127, 128, 228, 2047, 2048, 8364, 55295, 57344, 65535, 65536, 128512, 1114111}

MCMasks == {<<0, 0, 0, 0>>, <<17, 34, 85, 255>>}

MCPlayers ==
  {[id |-> i, name |-> t, sex |-> s, coin |-> c, diamond |-> 70000, headURL |-> HeadURL, isTemp |-> b] :
     i \in {0, 300}, t \in {<<>>, A, Odd}, s \in {0, 1}, c \in {0, -5, 12345}, b \in BOOLEAN}
MCTexts == {<<>>, Odd, <<123, 125>>, Long(120)}

MCKeys == {Long(n) : n \in 0..100} \cup {ExampleKey}
=============================================================================
