-------------------------------- MODULE Answers --------------------------------
(***************************************************************************)
(* What the handlers send.  Hall and SubGameServer turn the JSON of the    *)
(* web service and of the game servers into messages and back.             *)
(***************************************************************************)
EXTENDS Wire, JsonText

HEARTBEAT_GL == 10010
HEARTBEAT == 10006
Mail_LC == 10010
USER_LOGIN_LC == 20002
FreshUserInfo_LC == 20005

\* What the handlers read of an item: valueint of whatever it is, valuestring of a text.
ValueInt(v) == IF v.type = "number" THEN v.int ELSE IF v.type = "true" THEN 1 ELSE 0
IntItem(root, name) == ValueInt(Lookup(root, name)[1])
TextItem(root, name) == Lookup(root, name)[1].text

\* The names of the members, in the web service's and the game servers' JSON: here a
\* letter each.
Item == [errcode |-> <<101>>, uuid |-> <<117>>, name |-> <<110>>, sex |-> <<115>>,
         diamond |-> <<100>>, coins |-> <<99>>, tempAccount |-> <<116>>, time |-> <<109>>,
         msgid |-> <<105>>, fromName |-> <<102>>, detail |-> <<108>>]

\* The picture every player has: here a URL of two bytes.
HeadURL == <<104, 47>>

\* The player root tells of, whose coins are under coinItem.
PlayerIn(root, coinItem) ==
  [id |-> IntItem(root, Item.uuid), name |-> TextItem(root, Item.name),
   sex |-> IntItem(root, Item.sex), coin |-> IntItem(root, coinItem),
   diamond |-> IntItem(root, Item.diamond), headURL |-> HeadURL,
   isTemp |-> IntItem(root, Item.tempAccount) # 0]

\* getUserInfo and getUserInfo2: the player of the answer of the web service, parsed
\* as r; one that is no JSON, or has another errcode than 1, tells of nobody.
PlayerOf(r, coinItem) ==
  IF r.ok /\ \E code \in Range(Lookup(r.value, Item.errcode)) : ValueInt(code) = 1
    THEN PlayerIn(r.value, coinItem) ELSE Cleared("UserInfo")

InfoFrom(answer, coinItem) == PlayerOf(JsonParse(answer), coinItem)

UserInfoSwapped(answer) == InfoFrom(answer, Item.diamond)  \* mutant: the item of the line above
UserInfoOf(answer) == InfoFrom(answer, Item.coins)

LoginAnswer(answer) ==
  SendMsg(USER_LOGIN_LC, Serialized("UserLogin_LC", [userinfo |-> <<UserInfoOf(answer)>>]))
FreshAnswer(answer) ==
  SendMsg(FreshUserInfo_LC, Serialized("FreshUserInfo_LC", [userinfo |-> <<UserInfoOf(answer)>>]))

\* userEnterHall makes a JSON object of the three texts, sendMailToUser a mail of that.
SendMail(at, from, text) ==
  LET data == Added(Added(Added(Object(<<>>), Item.time, String(at)), Item.fromName, String(from)),
                    Item.detail, String(text))
  IN SendMsg(Mail_LC, Serialized("Mail_LC", [fromName |-> TextItem(data, Item.fromName),
       time |-> TextItem(data, Item.time), detail |-> TextItem(data, Item.detail)]))

\* Hall::heartBeat answers what it was sent.
HallHeartBeat(data) == SendMsg(HEARTBEAT, Serialized("HeatBeat", Parse("HeatBeat", data)))

\* SubGameServer::heartBeat: the time of the message and its own number.
TimeSent(msg) == Added(Added(Object(<<>>), Item.time, Number(IntItem(msg, Item.time))),
                       Item.msgid, Number(HEARTBEAT_GL))

\* What a game server's text leads to: an answer, nothing, or the end of the process.
Answered(text) == [kind |-> "answer", text |-> text]
Silence == [kind |-> "nothing"]
Fault == [kind |-> "fault"]

\* dispathMsg, which knows no other number.  cJSON_GetObjectItem reads the children of the
\* null root of a text that is no JSON, and heartBeat the number of a null item.
Dispatched(root) ==
  IF ~root.ok THEN Fault
  ELSE IF \A number \in Range(Lookup(root.value, Item.msgid)) : ValueInt(number) # HEARTBEAT_GL
    THEN Silence
  ELSE IF Lookup(root.value, Item.time) = <<>> THEN Fault
  ELSE Answered(JsonPrint(TimeSent(root.value), TRUE))

\* The answer to a JSON text from a game server, with what an earlier read has left
\* behind it.
SubHeartBeat(data, stale) == Dispatched(JsonParse(Overwritten(stale, data)))
=============================================================================
