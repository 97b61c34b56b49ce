---------------------------- MODULE LifecycleProofs ----------------------------
(***************************************************************************)
(* For any number of threads, any listeners of the Hall, any messages: the *)
(* parts the threads of the pool use are there when the first of them      *)
(* runs, since main() is then at the last call of its program (Started);   *)
(* what was made by then is told by how far main() has come (Created).     *)
(***************************************************************************)
EXTENDS Lifecycle, TLAPS, FiniteSetTheorems

\* What main() has made after so many calls.
Created ==
  /\ step <= 1 => locks = {} /\ Len(logs) = 0
  /\ step = 2 => "Lock_Log" \in locks /\ Len(logs) = 1 /\ logs[1]
  /\ step >= 3 => Len(logs) = 2 /\ logs[1] /\ ~logs[2]
  /\ step >= 4 => log = 1
  /\ step >= 1 => "ModuleLock" \in parts
  /\ step >= 5 /\ ~exited => "g_server" \in parts
  /\ step >= 6 => "GameMgr" \in parts /\ "g_threadLock" \in parts

\* What is in the listener table after so many calls.
Listed ==
  \A n \in Numbers :
    table[n] = IF n \in HallNumbers /\ step >= 7 THEN "Listener_0"
               ELSE IF n = GameNumber /\ step >= 8 THEN "Listener_1" ELSE "none"

\* A thread of the pool runs only behind all of these calls, if main() goes on.
Started == \A w \in Workers : pc[w] # "none" => step >= 8 /\ ~exited

\* A request has its handle while libcurl is at it, the answers sent from within it
\* included.
CurlAtPerform ==
  \A w \in Workers : /\ pc[w] = "perform" => curl[w]
                     /\ curl[w] => pc[w] \in {"perform", "send", "sendStore"}

IInv == TypeOK /\ Created /\ Listed /\ Started /\ CurlAtPerform /\ HandlesAccounted

\* Which call main() makes next depends on nothing but how far it has come.
LEMMA NextCall ==
  ASSUME step \in 0..Len(Program)
  PROVE  /\ Main("lockInstance") => step = 0
         /\ Main("newLog") => step = 1
         /\ Main("newLogLine") => step = 2
         /\ Main("newLogDone") => step = 3
         /\ Main("newServer") => step = 4
         /\ Main("newPool") => step = 5
         /\ Main("newHall") => step = 6
         /\ Main("newSub") => step = 7
         /\ Len(Program) = 9
         /\ step < Len(Program) /\ Program[step + 1] = "startThreads" => step = 8
         /\ \A call : Main(call) => step' = step + 1
<1>1. Len(Program) = 9
  BY DEF Program
<1>2. step \in 0..9
  BY <1>1
<1>3. /\ Program[1] = "lockInstance" /\ Program[2] = "newLog" /\ Program[3] = "newLogLine"
      /\ Program[4] = "newLogDone" /\ Program[5] = "newServer" /\ Program[6] = "newPool"
      /\ Program[7] = "newHall" /\ Program[8] = "newSub" /\ Program[9] = "startThreads"
  BY DEF Program
<1>4. step = 9 \/ step + 1 \in 1..9
  BY <1>2
<1> QED
  BY <1>1, <1>2, <1>3 DEF Main

LEMMA OrderInit == Init => TypeOK /\ Created /\ Listed /\ Started
<1> SUFFICES ASSUME Init PROVE TypeOK /\ Created /\ Listed /\ Started
  OBVIOUS
<1>1. <<>> \in Seq(BOOLEAN) /\ Len(<<>>) = 0 /\ 0 \in 0..Len(Program)
  <2>1. <<>> \in Seq(BOOLEAN) /\ Len(<<>>) = 0
    OBVIOUS
  <2>2. Len(Program) = 9
    BY DEF Program
  <2> QED
    BY <2>1, <2>2
<1>2. logs \in Seq(BOOLEAN) /\ Len(logs) = 0 /\ log \in 0..Len(logs)
  <2>1. logs = <<>> /\ log = 0
    BY DEF Init
  <2> QED
    BY <1>1, <2>1
<1>3. msg \in [Workers -> Senders \X Numbers]
  BY DEF Init, Senders, Numbers
<1>4. taken \in 0..MaxEvents /\ chunks \in [Workers -> 0..MaxChunks]
  BY ConstantsAssumption DEF Init
<1>5. TypeOK
  BY <1>1, <1>2, <1>3, <1>4 DEF Init, TypeOK
<1>6. Created /\ Started
  BY <1>2 DEF Init, Created, Started
<1>7. Listed
  BY DEF Init, Listed
<1> QED
  BY <1>5, <1>6, <1>7

\* A step of a thread leaves alone what main() makes.
LEMMA ThreadsMakeNothing ==
  ASSUME TypeOK, NEW w \in Workers, Step(w)
  PROVE  /\ UNCHANGED start
         /\ flag[w] \in BOOLEAN /\ pc[w] # "none"
         /\ \A u \in Workers : pc'[u] # "none" => pc[u] # "none"
<1> USE DEF TypeOK, At, GoTo
<1>1. CASE Take(w)
  BY <1>1 DEF Take
<1>2. CASE NoListener(w)
  BY <1>2 DEF NoListener
<1>3. CASE Call(w)
  BY <1>3 DEF Call, Asking
<1>4. CASE Open(w)
  BY <1>4 DEF Open
<1>5. CASE GetData(w) \/ GetUserInfo(w)
  BY <1>5 DEF GetData, GetUserInfo, Piece
<1>6. CASE SendOK(w) \/ SendFails(w) \/ Performed(w)
  <2>1. PICK cleaned \in Nat, label \in {"send", "recv"} : Finish(w, cleaned, label)
    BY <1>6 DEF SendOK, SendOKLeaving, SendFails, Performed, RoomLeft
  <2> QED
    BY <2>1 DEF Finish
<1>8. CASE LoadSent(w)
  BY <1>8 DEF LoadSent
<1>9. CASE StoreSent(w)
  BY <1>9 DEF StoreSent, StoreSentOf
<1>10. CASE LoadRecv(w)
  BY <1>10 DEF LoadRecv
<1>11. CASE StoreRecv(w)
  BY <1>11 DEF StoreRecv
<1> QED
  BY <1>1, <1>2, <1>3, <1>4, <1>5, <1>6, <1>8, <1>9, <1>10, <1>11 DEF Step

\* What another Log object in the list leaves of the list.
LEMMA AppendedLine ==
  ASSUME NEW s \in Seq(BOOLEAN), NEW b \in BOOLEAN
  PROVE  /\ Append(s, b) \in Seq(BOOLEAN) /\ Len(Append(s, b)) = Len(s) + 1
         /\ Append(s, b)[Len(s) + 1] = b
         /\ \A i \in 1..Len(s) : Append(s, b)[i] = s[i]
  OBVIOUS

\* Every call of main() keeps the invariant.
LEMMA MainPreserves ==
  ASSUME IInv, Starting
  PROVE  IInv'
<1> USE NextCall DEF IInv, Rest
<1>0. step \in 0..Len(Program) /\ Len(Program) = 9
  BY DEF TypeOK
<1>1. CASE LockInstance
  <2> USE <1>0, <1>1 DEF LockInstance
  <2>1. step = 0 /\ step' = 1
    OBVIOUS
  <2>2. TypeOK'
    BY <2>1 DEF TypeOK, Parts, http, tally
  <2>3. Created'
    BY <2>1 DEF Created
  <2> QED
    BY <2>1, <2>2, <2>3 DEF Listed, Started, CurlAtPerform, HandlesAccounted, InCurl, http
<1>2. CASE NewLog
  <2> USE <1>0, <1>2 DEF NewLog
  <2>1. step = 1 /\ step' = 2
    OBVIOUS
  <2>2. logs \in Seq(BOOLEAN) /\ Len(logs) = 0 /\ locks = {}
    BY <2>1 DEF Created, TypeOK
  <2>3. logs' = Append(logs, TRUE)
    BY <2>2
  <2>4. logs' \in Seq(BOOLEAN) /\ Len(logs') = 1 /\ logs'[1]
    <3>1. /\ Append(logs, TRUE) \in Seq(BOOLEAN) /\ Len(Append(logs, TRUE)) = Len(logs) + 1
          /\ Append(logs, TRUE)[Len(logs) + 1] = TRUE
      BY <2>2, AppendedLine, Zenon
    <3>2. Len(logs) + 1 = 1
      BY <2>2
    <3> QED
      BY <2>3, <3>1, <3>2, Zenon
  <2>5. TypeOK'
    BY <2>1, <2>4 DEF TypeOK, Parts, http, tally
  <2>6. Created'
    BY <2>1, <2>4 DEF Created
  <2> QED
    BY <2>1, <2>5, <2>6 DEF Listed, Started, CurlAtPerform, HandlesAccounted, InCurl, http
<1>3. CASE NewLogLine
  <2> USE <1>0, <1>3 DEF NewLogLine
  <2>1. step = 2 /\ step' = 3
    OBVIOUS
  <2>2. logs \in Seq(BOOLEAN) /\ Len(logs) = 1 /\ logs[1] /\ "Lock_Log" \in locks
    BY <2>1 DEF Created, TypeOK
  <2>3. logs' = Append(logs, FALSE) /\ log' = 2
    <3>1. ("Lock_Log" \notin locks) = FALSE
      BY <2>2
    <3>2. logs' = Append(logs, FALSE)
      BY <3>1, Zenon
    <3>3. log' = Len(logs) + 1
      BY Zenon
    <3>4. Len(logs) + 1 = 2
      BY <2>2
    <3> QED
      BY <3>2, <3>3, <3>4, Zenon
  <2>4. logs' \in Seq(BOOLEAN) /\ Len(logs') = 2 /\ logs'[1] /\ ~logs'[2]
    <3>1. /\ Append(logs, FALSE) \in Seq(BOOLEAN) /\ Len(Append(logs, FALSE)) = Len(logs) + 1
          /\ Append(logs, FALSE)[Len(logs) + 1] = FALSE
          /\ \A i \in 1..Len(logs) : Append(logs, FALSE)[i] = logs[i]
      BY <2>2, AppendedLine, Zenon
    <3>2. Len(logs) + 1 = 2 /\ 1 \in 1..Len(logs)
      BY <2>2
    <3> QED
      BY <2>2, <2>3, <3>1, <3>2, Zenon
  <2>5. TypeOK'
    BY <2>1, <2>3, <2>4 DEF TypeOK, Parts, http, tally
  <2>6. Created'
    BY <2>1, <2>4 DEF Created
  <2> QED
    BY <2>1, <2>5, <2>6 DEF Listed, Started, CurlAtPerform, HandlesAccounted, InCurl, http
<1>4. CASE NewLogDone
  <2> USE <1>0, <1>4 DEF NewLogDone, NewLogKeeping
  <2>1. step = 3 /\ step' = 4
    OBVIOUS
  <2>2. Len(logs') = 2 /\ log' = 1
    BY <2>1 DEF Created
  <2>3. log' \in 0..Len(logs')
    BY <2>2
  <2>4. TypeOK'
    BY <2>1, <2>3 DEF TypeOK, Parts, http, tally
  <2>5. Created'
    BY <2>1, <2>2 DEF Created
  <2> QED
    BY <2>1, <2>4, <2>5 DEF Listed, Started, CurlAtPerform, HandlesAccounted, InCurl, http
<1>5. CASE NewServer
  <2> USE <1>0, <1>5 DEF NewServer
  <2>1. step = 4 /\ step' = 5
    OBVIOUS
  <2>2. TypeOK'
    BY <2>1 DEF TypeOK, Parts, http, tally
  <2>3. Created'
    BY <2>1 DEF Created
  <2> QED
    BY <2>1, <2>2, <2>3 DEF Listed, Started, CurlAtPerform, HandlesAccounted, InCurl, http
<1>6. CASE BindFails
  <2> USE <1>0, <1>6 DEF BindFails
  <2>1. step = 4 /\ step' = 5
    OBVIOUS
  <2>2. TypeOK'
    BY <2>1 DEF TypeOK, Parts, http, tally
  <2>3. Created' /\ Started'
    BY <2>1 DEF Created, Started
  <2> QED
    BY <2>1, <2>2, <2>3 DEF Listed, CurlAtPerform, HandlesAccounted, InCurl, http
<1>7. CASE NewPool
  <2> USE <1>0, <1>7 DEF NewPool
  <2>1. step = 5 /\ step' = 6
    OBVIOUS
  <2>2. TypeOK'
    BY <2>1 DEF TypeOK, Parts, http, tally
  <2>3. Created'
    BY <2>1 DEF Created
  <2> QED
    BY <2>1, <2>2, <2>3 DEF Listed, Started, CurlAtPerform, HandlesAccounted, InCurl, http
<1>8. CASE NewHall
  <2> USE <1>0, <1>8 DEF NewHall, Registered
  <2>1. step = 6 /\ step' = 7
    OBVIOUS
  <2>2. listeners' \in Nat
    BY ConstantsAssumption, FS_CardinalityType DEF TypeOK
  <2>3. TypeOK'
    BY <2>1, <2>2 DEF TypeOK, Parts, http, tally
  <2>4. Created' /\ Listed'
    BY <2>1 DEF Created, Listed
  <2> QED
    BY <2>1, <2>3, <2>4 DEF Started, CurlAtPerform, HandlesAccounted, InCurl, http
<1>9. CASE NewSub
  <2> USE <1>0, <1>9 DEF NewSub, NewSubWith, Registered
  <2>1. step = 7 /\ step' = 8
    OBVIOUS
  <2>2. listeners' \in Nat
    <3>1. Cardinality({GameNumber}) = 1
      BY FS_Singleton
    <3> QED
      BY <3>1 DEF TypeOK
  <2>3. TypeOK'
    BY <2>1, <2>2 DEF TypeOK, Parts, http, tally
  <2>4. Created' /\ Listed'
    BY <2>1, ConstantsAssumption DEF Created, Listed
  <2> QED
    BY <2>1, <2>3, <2>4 DEF Started, CurlAtPerform, HandlesAccounted, InCurl, http
<1>10. ASSUME NEW w \in Workers, StartThread(w) PROVE IInv'
  <2> USE <1>0, <1>10 DEF StartThread
  <2>1. step = 8 /\ step' \in {8, 9}
    OBVIOUS
  <2>2. TypeOK'
    BY <2>1 DEF TypeOK, http, tally
  <2>3. Created' /\ Listed' /\ Started'
    BY <2>1 DEF Created, Listed, Started
  <2>4. CurlAtPerform'
    BY DEF CurlAtPerform, TypeOK, http
  <2> QED
    BY <2>2, <2>3, <2>4 DEF HandlesAccounted, InCurl, http
<1> QED
  BY <1>1, <1>2, <1>3, <1>4, <1>5, <1>6, <1>7, <1>8, <1>9, <1>10 DEF Starting

\* Counting the handles: a request that begins, and one that is over.
LEMMA CountCurl ==
  ASSUME TypeOK, NEW w \in Workers, NEW b \in BOOLEAN, curl' = [curl EXCEPT ![w] = b]
  PROVE  /\ Cardinality(InCurl) \in Nat /\ Cardinality(InCurl') \in Nat
         /\ ~curl[w] /\ b => Cardinality(InCurl') = Cardinality(InCurl) + 1
         /\ curl[w] /\ ~b => /\ Cardinality(InCurl') = Cardinality(InCurl) - 1
                             /\ Cardinality(InCurl) > 0
<1> DEFINE S == {u \in Workers : curl[u]}
           T == {u \in Workers : curl'[u]}
<1>0. InCurl = S /\ InCurl' = T
  BY DEF InCurl
<1> HIDE DEF S, T
<1>1. IsFiniteSet(S) /\ IsFiniteSet(T)
  <2>1. S \in SUBSET Workers /\ T \in SUBSET Workers
    BY DEF S, T
  <2> QED
    BY <2>1, ConstantsAssumption, FS_Subset
<1>2. Cardinality(S) \in Nat /\ Cardinality(T) \in Nat
  BY <1>1, FS_CardinalityType
<1>3. ASSUME ~curl[w], b PROVE Cardinality(T) = Cardinality(S) + 1
  <2>1. T = S \cup {w} /\ w \notin S
    BY <1>3 DEF TypeOK, S, T
  <2> QED
    BY <1>1, <2>1, FS_AddElement
<1>4. ASSUME curl[w], ~b PROVE Cardinality(T) = Cardinality(S) - 1 /\ Cardinality(S) > 0
  <2>1. T = S \ {w} /\ w \in S
    BY <1>4 DEF TypeOK, S, T
  <2>2. Cardinality(T) = Cardinality(S) - 1
    BY <1>1, <2>1, FS_RemoveElement
  <2> QED
    BY <1>2, <2>2
<1> QED
  BY <1>0, <1>2, <1>3, <1>4

\* Every step of a thread keeps the invariant.
LEMMA ThreadPreserves ==
  ASSUME IInv, NEW w \in Workers, Step(w)
  PROVE  IInv'
<1> USE DEF IInv, At, GoTo
<1>0. /\ UNCHANGED start /\ pc[w] # "none"
      /\ \A u \in Workers : pc'[u] # "none" => pc[u] # "none"
  BY ThreadsMakeNothing
<1>1. Created' /\ Listed' /\ Started'
  BY <1>0 DEF Created, Listed, Started, start
<1>2. {"g_server", "g_threadLock", "GameMgr"} \subseteq Parts
  BY DEF Parts
<1>3. CASE Take(w)
  <2> USE <1>3 DEF Take, Follow
  <2>1. \A m \in Senders \X Numbers : [msg EXCEPT ![w] = m] \in [Workers -> Senders \X Numbers]
    BY DEF TypeOK
  <2>2. msg' \in [Workers -> Senders \X Numbers]
    BY <2>1
  <2>3. nulls' \subseteq Parts \cup {"g_subServer"} /\ unlogged' \subseteq Workers
    BY <1>2 DEF TypeOK
  <2>4. taken' \in 0..MaxEvents
    BY ConstantsAssumption DEF TypeOK
  <2>5. TypeOK'
    BY <2>2, <2>3, <2>4 DEF TypeOK, start, http
  <2>6. CurlAtPerform' /\ HandlesAccounted'
    BY DEF TypeOK, CurlAtPerform, HandlesAccounted, InCurl, http
  <2> QED
    BY <1>1, <2>5, <2>6
<1>4. CASE NoListener(w)
  <2> USE <1>4 DEF NoListener
  <2>1. TypeOK'
    BY DEF TypeOK, start, http, tally
  <2>2. CurlAtPerform' /\ HandlesAccounted'
    BY DEF TypeOK, CurlAtPerform, HandlesAccounted, InCurl, http
  <2> QED
    BY <1>1, <2>1, <2>2
<1>5. CASE Call(w)
  <2> USE <1>5 DEF Call, Asking
  <2>1. msg[w] \in Senders \X Numbers
    BY DEF TypeOK
  <2>2. confused' \subseteq Senders \X Numbers
    BY <2>1 DEF TypeOK
  <2>3. nulls' \subseteq Parts \cup {"g_subServer"}
    BY DEF TypeOK
  <2>4. TypeOK'
    BY <2>2, <2>3 DEF TypeOK, start, http, tally
  <2>5. CurlAtPerform' /\ HandlesAccounted'
    BY DEF TypeOK, CurlAtPerform, HandlesAccounted, InCurl, http
  <2> QED
    BY <1>1, <2>4, <2>5
<1>6. CASE Open(w)
  <2> USE <1>6 DEF Open
  <2>1. TypeOK'
    BY DEF TypeOK, start, tally
  <2>2. CurlAtPerform'
    BY DEF TypeOK, CurlAtPerform
  <2>3. ~curl[w]
    BY DEF CurlAtPerform
  <2>4. Cardinality(InCurl) \in Nat /\ Cardinality(InCurl') = Cardinality(InCurl) + 1
    BY <2>3, CountCurl, TRUE \in BOOLEAN
  <2>5. HandlesAccounted'
    BY <2>4 DEF TypeOK, HandlesAccounted
  <2> QED
    BY <1>1, <2>1, <2>2, <2>5
<1>7. CASE GetData(w) \/ GetUserInfo(w)
  <2>0. Piece(w)
    BY <1>7 DEF GetData, GetUserInfo
  <2>1. chunks' \in [Workers -> 0..MaxChunks]
    BY <2>0, ConstantsAssumption DEF Piece, TypeOK
  <2> USE <1>7 DEF GetData, GetUserInfo, Piece
  <2>2. TypeOK'
    BY <2>1 DEF TypeOK, start, tally
  <2>3. CurlAtPerform'
    BY DEF CurlAtPerform, TypeOK
  <2> QED
    BY <1>1, <2>2, <2>3 DEF HandlesAccounted, InCurl
<1>8. ASSUME NEW cleaned \in {0, 1}, NEW label \in {"send", "recv"}, Finish(w, cleaned, label),
             failed' = failed + 1 - cleaned
      PROVE  IInv'
  <2> USE <1>8 DEF Finish
  <2>1. curl[w]
    BY DEF CurlAtPerform
  <2>2. HandlesAccounted' /\ handles' \in Nat /\ failed' \in Nat
    <3>1. /\ Cardinality(InCurl) \in Nat /\ Cardinality(InCurl) > 0
          /\ Cardinality(InCurl') = Cardinality(InCurl) - 1
      BY <2>1, CountCurl, FALSE \in BOOLEAN
    <3> QED
      BY <3>1 DEF TypeOK, HandlesAccounted
  <2>3. chunks' \in [Workers -> 0..MaxChunks]
    BY ConstantsAssumption DEF TypeOK
  <2>4. TypeOK' /\ CurlAtPerform'
    BY <2>2, <2>3 DEF TypeOK, CurlAtPerform, start, tally
  <2> QED
    BY <1>1, <2>2, <2>4
<1>9. CASE SendOK(w) \/ SendFails(w) \/ Performed(w)
  <2>1. failed \in Nat
    BY DEF TypeOK
  <2>2. CASE SendOK(w)
    <3>1. PICK label \in {"send", "recv"} : Finish(w, 1, label)
      BY <2>2 DEF SendOK, SendOKLeaving, RoomLeft
    <3>2. failed' = failed + 1 - 1
      BY <2>1, <2>2 DEF SendOK, SendOKLeaving
    <3> QED
      BY <1>8, <3>1, <3>2
  <2>3. CASE SendFails(w)
    <3>1. PICK label \in {"send", "recv"} : Finish(w, 0, label)
      BY <2>3 DEF SendFails, RoomLeft
    <3>2. failed' = failed + 1 - 0
      BY <2>1, <2>3 DEF SendFails
    <3> QED
      BY <1>8, <3>1, <3>2
  <2>4. CASE Performed(w)
    <3>1. Finish(w, 1, "recv") /\ failed' = failed + 1 - 1
      BY <2>1, <2>4 DEF Performed
    <3> QED
      BY <1>8, <3>1
  <2> QED
    BY <1>9, <2>2, <2>3, <2>4
<1>10. CASE LoadSent(w)
  BY <1>10, <1>1 DEF LoadSent, TypeOK, CurlAtPerform, HandlesAccounted, InCurl, start, http
<1>11. CASE StoreSent(w)
  BY <1>11, <1>1 DEF StoreSent, StoreSentOf, TypeOK, CurlAtPerform, HandlesAccounted, InCurl, start, http
<1>12. CASE LoadRecv(w)
  BY <1>12, <1>1 DEF LoadRecv, TypeOK, CurlAtPerform, HandlesAccounted, InCurl, start, http
<1>13. CASE StoreRecv(w)
  BY <1>13, <1>1 DEF StoreRecv, TypeOK, CurlAtPerform, HandlesAccounted, InCurl, start, http
<1> QED
  BY <1>3, <1>4, <1>5, <1>6, <1>7, <1>9, <1>10, <1>11, <1>12, <1>13 DEF Step

\* A step that changes nothing keeps it.
LEMMA StutterPreserves == IInv /\ UNCHANGED vars => IInv'
  BY DEF IInv, TypeOK, Created, Listed, Started, CurlAtPerform, HandlesAccounted, InCurl, vars,
     start, http, tally

LEMMA InitEstablishes == Init => IInv
<1> SUFFICES ASSUME Init PROVE IInv
  OBVIOUS
<1>1. InCurl = {}
  BY DEF Init, InCurl
<1>2. HandlesAccounted
  BY <1>1, FS_EmptySet DEF Init, HandlesAccounted
<1>3. CurlAtPerform
  BY DEF Init, CurlAtPerform
<1> QED
  BY <1>2, <1>3, OrderInit DEF IInv

THEOREM Invariance == Spec => []IInv
<1>1. IInv /\ [Next]_vars => IInv'
  BY MainPreserves, ThreadPreserves, StutterPreserves DEF Next
<1> QED
  BY <1>1, InitEstablishes, PTL DEF Spec

-----------------------------------------------------------------------------
(* The properties. *)

\* Every variable has its type: the order of the calls of main(), the handles of
\* the requests and the counters are what Lifecycle says they are.
THEOREM TypeCorrect == Spec => []TypeOK
<1>1. IInv => TypeOK
  BY DEF IInv
<1> QED
  BY <1>1, Invariance, PTL

\* HttpRequest, userLogin, returnGame: a curl handle outlives its request exactly when
\* the request is an HttpRequest and fails.
THEOREM HandlesKept == Spec => []HandlesAccounted
<1>1. IInv => HandlesAccounted
  BY DEF IInv
<1> QED
  BY <1>1, Invariance, PTL

\* ListenerMgr: the map the threads search without a lock has its last entry before
\* the first thread runs, so no step beside a running thread touches it.
THEOREM TableAtRest == Spec => TableQuiet
<1>1. IInv /\ [Next]_vars => [(\E w \in Workers : pc[w] # "none") => UNCHANGED <<table, listeners>>]_vars
  <2> SUFFICES ASSUME IInv, Next, NEW w \in Workers, pc[w] # "none"
               PROVE  UNCHANGED <<table, listeners>>
    BY DEF vars, start
  <2>1. CASE Starting
    <3>1. step >= 8 /\ step \in 0..Len(Program)
      BY DEF IInv, Started, TypeOK
    <3>2. \E u \in Workers : StartThread(u)
      BY <2>1, <3>1, NextCall DEF Starting, LockInstance, NewLog, NewLogLine, NewLogDone,
         NewLogKeeping, NewServer, BindFails, NewPool, NewHall, NewSub, NewSubWith
    <3> QED
      BY <3>2 DEF StartThread
  <2>2. ASSUME NEW u \in Workers, Step(u) PROVE UNCHANGED <<table, listeners>>
    BY <2>2, ThreadsMakeNothing DEF IInv, start
  <2> QED
    BY <2>1, <2>2 DEF Next
<1> QED
  BY <1>1, Invariance, PTL DEF Spec, TableQuiet

\* main(), GameServer::init: no constructor and no thread follows a pointer to a part
\* that does not exist yet, but for g_subServer, which NUPool has copied too early.
THEOREM PointersFollowed == Spec => []NullsFollowed
<1>1. Init => NullsFollowed
  BY DEF Init, NullsFollowed
<1>2. IInv /\ NullsFollowed /\ [Next]_vars => NullsFollowed'
  <2> SUFFICES ASSUME IInv, NullsFollowed, Next PROVE NullsFollowed'
    BY DEF vars, NullsFollowed
  <2> USE DEF NullsFollowed
  <2>0. step \in 0..Len(Program)
    BY DEF IInv, TypeOK
  <2>1. CASE NewLog
    <3>1. "ModuleLock" \in parts
      BY <2>0, <2>1, NextCall DEF NewLog, IInv, Created
    <3> QED
      BY <2>1, <3>1 DEF NewLog
  <2>2. CASE Starting /\ ~NewLog
    BY <2>2 DEF Starting, LockInstance, NewLogLine, NewLogDone, NewLogKeeping, NewServer,
       BindFails, NewPool, NewHall, NewSub, NewSubWith, StartThread
  <2>3. ASSUME NEW w \in Workers, Step(w) PROVE NullsFollowed'
    <3>1. step >= 8 /\ ~exited
      BY <2>3, ThreadsMakeNothing DEF IInv, Started
    <3>2. {"g_server", "g_threadLock", "GameMgr"} \subseteq parts
      BY <2>0, <3>1 DEF IInv, Created
    <3>3. CASE Take(w)
      BY <3>2, <3>3 DEF Take, Follow
    <3>4. CASE NoListener(w)
      BY <3>4 DEF NoListener
    <3>5. CASE Call(w)
      BY <3>5 DEF Call
    <3>6. CASE UNCHANGED nulls
      BY <3>6
    <3> QED
      BY <2>3, <3>3, <3>4, <3>5, <3>6 DEF Step, Open, GetData, GetUserInfo, Piece, SendOK,
         SendOKLeaving, SendFails, Performed, RoomLeft, Finish, LoadSent, StoreSent, StoreSentOf, LoadRecv, StoreRecv
  <2> QED
    BY <2>1, <2>2, <2>3 DEF Next
<1> QED
  BY <1>1, <1>2, Invariance, PTL DEF Spec

\* Log: the instance that stays is the first, the one that was given the lock, and
\* no thread logs before it has its place.
THEOREM LoggedUnderLock == Spec => []LogHasLock
<1>1. Init => LogHasLock
  BY DEF Init, LogHasLock
<1>2. IInv /\ LogHasLock /\ [Next]_vars => LogHasLock'
  <2> SUFFICES ASSUME IInv, LogHasLock, Next PROVE LogHasLock'
    BY DEF vars, LogHasLock
  <2> USE DEF LogHasLock
  <2>1. CASE Starting
    BY <2>1 DEF Starting, LockInstance, NewLog, NewLogLine, NewLogDone, NewLogKeeping,
       NewServer, BindFails, NewPool, NewHall, NewSub, NewSubWith, StartThread, Rest
  <2>2. ASSUME NEW w \in Workers, Take(w) PROVE LogHasLock'
    <3>1. log = 1 /\ logs[1]
      BY <2>2 DEF IInv, Created, Started, Take, At, TypeOK
    <3> QED
      BY <2>2, <3>1 DEF Take
  <2>3. ASSUME NEW w \in Workers, Step(w), ~Take(w) PROVE LogHasLock'
    BY <2>3 DEF Step, NoListener, Call, Open, GetData, GetUserInfo, Piece, SendOK,
       SendOKLeaving, SendFails, Performed, RoomLeft, Finish, LoadSent, StoreSent, StoreSentOf, LoadRecv, StoreRecv
  <2> QED
    BY <2>1, <2>2, <2>3 DEF Next
<1> QED
  BY <1>1, <1>2, Invariance, PTL DEF Spec

\* callListener and callListener2: the unchecked cast goes wrong only for a message
\* whose sender uses a number of the other kind of sender.
THEOREM CastsAcross == Spec => []ConfusedOnlyAcross
<1>1. Init => ConfusedOnlyAcross
  BY DEF Init, ConfusedOnlyAcross
<1>2. IInv /\ ConfusedOnlyAcross /\ [Next]_vars => ConfusedOnlyAcross'
  <2> SUFFICES ASSUME IInv, ConfusedOnlyAcross, Next PROVE ConfusedOnlyAcross'
    BY DEF vars, ConfusedOnlyAcross
  <2>1. CASE Starting
    BY <2>1 DEF ConfusedOnlyAcross, Starting, LockInstance, NewLog, NewLogLine, NewLogDone,
       NewLogKeeping, NewServer, BindFails, NewPool, NewHall, NewSub, NewSubWith, StartThread, Rest
  <2>2. ASSUME NEW w \in Workers, Call(w) PROVE ConfusedOnlyAcross'
    <3> DEFINE sender == msg[w][1]
               number == msg[w][2]
    <3>1. sender \in Senders /\ number \in Numbers /\ msg[w] = <<sender, number>>
      BY DEF IInv, TypeOK
    <3>2. step >= 8 /\ step \in Nat
      BY <2>2 DEF IInv, Started, Call, At, TypeOK
    <3>3. table[number] = IF number \in HallNumbers THEN "Listener_0"
                          ELSE IF number = GameNumber THEN "Listener_1" ELSE "none"
      BY <3>1, <3>2 DEF IInv, Listed
    <3>4. CASE sender = "client"
      <4>1. CASE table[number] = "Listener_0"
        BY <2>2, <3>4, <4>1 DEF Call, Expected, ConfusedOnlyAcross
      <4>2. CASE number = GameNumber
        BY <2>2, <3>1, <3>4, <4>2 DEF Call, Expected, ConfusedOnlyAcross
      <4> QED
        BY <2>2, <3>3, <4>1, <4>2 DEF Call
    <3>5. CASE sender = "server"
      <4>1. CASE table[number] = "Listener_1"
        BY <2>2, <3>5, <4>1 DEF Call, Expected, ConfusedOnlyAcross
      <4>2. CASE number \in HallNumbers
        BY <2>2, <3>1, <3>5, <4>2 DEF Call, Expected, ConfusedOnlyAcross
      <4> QED
        BY <2>2, <3>3, <4>1, <4>2 DEF Call
    <3> QED
      BY <3>1, <3>4, <3>5 DEF Senders
  <2>3. ASSUME NEW w \in Workers, Step(w), ~Call(w) PROVE ConfusedOnlyAcross'
    BY <2>3 DEF ConfusedOnlyAcross, Step, Take, NoListener, Open, GetData,
       GetUserInfo, Piece, SendOK, SendOKLeaving, SendFails, Performed, RoomLeft, Finish, LoadSent, StoreSent, StoreSentOf, LoadRecv, StoreRecv
  <2> QED
    BY <2>1, <2>2, <2>3 DEF Next
<1> QED
  BY <1>1, <1>2, Invariance, PTL DEF Spec

-----------------------------------------------------------------------------
(* The counters.  Each thread at work on a message has one message of taken to   *)
(* itself: what is counted, and what a thread is about to write, leaves room for *)
(* the threads at work.                                                          *)

Busy == {w \in Workers : pc[w] \notin {"none", "loop"}}

SentInv ==
  /\ sendnum <= sent
  /\ \A w \in Workers : pc[w] = "sendStore" => seen[w] + 1 <= sent
  /\ sent > 0 => sendnum > 0 \/ \E w \in Workers : pc[w] = "sendStore"

ReceivedInv ==
  /\ recvnum + Cardinality(Busy) <= taken
  /\ \A w \in Workers : pc[w] = "recvStore" => seen[w] + Cardinality(Busy) <= taken
  /\ taken > 0 => recvnum > 0 \/ Busy # {}

LEMMA BusyFinite == TypeOK => IsFiniteSet(Busy) /\ Cardinality(Busy) \in Nat
<1>1. Busy \in SUBSET Workers
  BY DEF Busy
<1> QED
  BY <1>1, ConstantsAssumption, FS_Subset, FS_CardinalityType

\* main() starts threads, which have no message then.
LEMMA MainCountsNothing ==
  ASSUME IInv, Starting
  PROVE  /\ UNCHANGED tally /\ Busy' = Busy
         /\ \A w \in Workers : pc'[w] = pc[w] \/ (pc'[w] = "loop" /\ pc[w] = "none")
<1>1. ASSUME NEW u \in Workers, StartThread(u)
      PROVE  /\ UNCHANGED tally /\ Busy' = Busy
             /\ \A w \in Workers : pc'[w] = pc[w] \/ (pc'[w] = "loop" /\ pc[w] = "none")
  <2>1. UNCHANGED tally
    BY <1>1 DEF StartThread
  <2>2. \A w \in Workers : pc'[w] = pc[w] \/ (pc'[w] = "loop" /\ pc[w] = "none")
    BY <1>1 DEF StartThread, IInv, TypeOK
  <2> QED
    BY <2>1, <2>2 DEF Busy
<1>2. CASE UNCHANGED pc /\ UNCHANGED tally
  <2>1. Busy' = Busy
    BY <1>2 DEF Busy
  <2> QED
    BY <1>2, <2>1
<1> QED
  BY <1>1, <1>2 DEF Starting, LockInstance, NewLog, NewLogLine, NewLogDone, NewLogKeeping,
     NewServer, BindFails, NewPool, NewHall, NewSub, NewSubWith, Rest

Works(w) == NoListener(w) \/ Call(w) \/ Open(w) \/ GetData(w) \/ GetUserInfo(w)
            \/ SendOK(w) \/ SendFails(w) \/ Performed(w)

\* A thread that neither takes a message nor counts one goes on with the one it has.
LEMMA WorkCountsNothing ==
  ASSUME IInv, NEW w \in Workers, Works(w)
  PROVE  /\ UNCHANGED tally /\ Busy' = Busy
         /\ \A u \in Workers : pc'[u] \in {"sendStore", "recvStore"} <=> pc[u] \in {"sendStore", "recvStore"}
         /\ \A u \in Workers : pc[u] \in {"sendStore", "recvStore"} => pc'[u] = pc[u]
<1> USE DEF IInv, TypeOK, At, GoTo, Busy
<1>1. CASE NoListener(w)
  BY <1>1 DEF NoListener
<1>2. CASE Call(w)
  BY <1>2 DEF Call, Asking
<1>3. CASE Open(w)
  BY <1>3 DEF Open, tally
<1>4. CASE GetData(w) \/ GetUserInfo(w)
  BY <1>4 DEF GetData, GetUserInfo, Piece, tally
<1>5. CASE SendOK(w) \/ SendFails(w) \/ Performed(w)
  <2>1. PICK cleaned \in Nat, label \in {"send", "recv"} : Finish(w, cleaned, label)
    BY <1>5 DEF SendOK, SendOKLeaving, SendFails, Performed, RoomLeft
  <2> QED
    BY <2>1 DEF Finish
<1> QED
  BY <1>1, <1>2, <1>3, <1>4, <1>5 DEF Works

\* sendMsg: a store may take back what others have counted, never more than that.
LEMMA SentPreserves == IInv /\ SentInv /\ [Next]_vars => SentInv'
<1> SUFFICES ASSUME IInv, SentInv, [Next]_vars PROVE SentInv'
  OBVIOUS
<1> USE DEF SentInv
<1>1. CASE Starting
  BY <1>1, MainCountsNothing DEF tally
<1>2. ASSUME NEW w \in Workers, Works(w)
      PROVE  SentInv'
  <2>1. \A u \in Workers : pc'[u] = "sendStore" <=> pc[u] = "sendStore"
    BY <1>2, WorkCountsNothing
  <2> QED
    BY <1>2, <2>1, WorkCountsNothing DEF tally
<1> USE DEF IInv, TypeOK, At, GoTo
<1>3. ASSUME NEW w \in Workers, Take(w) PROVE SentInv'
  BY <1>3 DEF Take
<1>4. ASSUME NEW w \in Workers, LoadSent(w) PROVE SentInv'
  BY <1>4 DEF LoadSent
<1>5. ASSUME NEW w \in Workers, StoreSent(w) PROVE SentInv'
  BY <1>5 DEF StoreSent, StoreSentOf
<1>6. ASSUME NEW w \in Workers, LoadRecv(w) \/ StoreRecv(w) PROVE SentInv'
  BY SMTT(20), <1>6 DEF LoadRecv, StoreRecv
<1>7. CASE UNCHANGED vars
  BY <1>7 DEF vars, tally
<1> QED
  BY <1>1, <1>2, <1>3, <1>4, <1>5, <1>6, <1>7 DEF Next, Step, Works

\* TreadProc: the same for recvnum, from the messages taken to those that are counted.
LEMMA ReceivedPreserves == IInv /\ ReceivedInv /\ [Next]_vars => ReceivedInv'
<1> SUFFICES ASSUME IInv, ReceivedInv, [Next]_vars PROVE ReceivedInv'
  OBVIOUS
<1>0. IsFiniteSet(Busy) /\ Cardinality(Busy) \in Nat
  BY BusyFinite DEF IInv
<1> USE DEF ReceivedInv
<1>1. CASE Starting
  BY <1>1, MainCountsNothing DEF tally
<1>2. ASSUME NEW w \in Workers, Works(w)
      PROVE  ReceivedInv'
  <2>1. \A u \in Workers : pc'[u] = "recvStore" => pc[u] = "recvStore"
    BY <1>2, WorkCountsNothing
  <2> QED
    BY <1>2, <2>1, WorkCountsNothing DEF tally
<1> USE DEF IInv, TypeOK, At, GoTo
<1>3. ASSUME NEW w \in Workers, Take(w) PROVE ReceivedInv'
  <2> USE <1>3 DEF Take
  <2>1. Busy' = Busy \cup {w} /\ w \notin Busy
    BY DEF Busy
  <2>2. Cardinality(Busy') = Cardinality(Busy) + 1
    BY <1>0, <2>1, FS_AddElement
  <2>3. /\ taken \in Nat /\ taken' = taken + 1 /\ recvnum \in Nat /\ recvnum' = recvnum
        /\ seen \in [Workers -> Nat] /\ seen' = seen /\ Busy' # {}
        /\ \A u \in Workers : pc'[u] = "recvStore" => pc[u] = "recvStore"
    BY <2>1
  <2> QED
    BY <1>0, <2>2, <2>3
<1>4. ASSUME NEW w \in Workers, LoadSent(w) \/ StoreSent(w) \/ LoadRecv(w) PROVE ReceivedInv'
  <2>1. Busy' = Busy
    BY <1>4 DEF Busy, LoadSent, StoreSent, StoreSentOf, LoadRecv
  <2>2. CASE LoadRecv(w)
    BY <1>0, <2>1, <2>2 DEF LoadRecv
  <2>3. CASE LoadSent(w) \/ StoreSent(w)
    <3>1. /\ UNCHANGED <<recvnum, taken>>
          /\ \A u \in Workers : pc'[u] = "recvStore" => pc[u] = "recvStore" /\ seen'[u] = seen[u]
      BY <2>3 DEF LoadSent, StoreSent, StoreSentOf
    <3> QED
      BY <2>1, <3>1
  <2> QED
    BY <1>4, <2>2, <2>3
<1>5. ASSUME NEW w \in Workers, StoreRecv(w) PROVE ReceivedInv'
  <2> USE <1>5 DEF StoreRecv
  <2>1. Busy' = Busy \ {w} /\ w \in Busy
    BY DEF Busy
  <2>2. Cardinality(Busy') = Cardinality(Busy) - 1
    BY <1>0, <2>1, FS_RemoveElement
  <2>3. /\ taken \in Nat /\ taken' = taken /\ recvnum' = seen[w] + 1 /\ pc[w] = "recvStore"
        /\ seen \in [Workers -> Nat] /\ seen' = seen
        /\ \A u \in Workers : pc'[u] = "recvStore" => pc[u] = "recvStore"
    OBVIOUS
  <2> QED
    BY SMTT(20), <1>0, <2>2, <2>3
<1>6. CASE UNCHANGED vars
  BY <1>6 DEF vars, tally, Busy
<1> QED
  BY <1>1, <1>2, <1>3, <1>4, <1>5, <1>6 DEF Next, Step, Works

\* sendMsg and TreadProc count without a lock: never too much, and never so little
\* that of many messages none is left in the count.
THEOREM CountersBounded == Spec => []CountsBounded
<1>1. Init => SentInv /\ ReceivedInv
  <2> SUFFICES ASSUME Init PROVE SentInv /\ ReceivedInv
    OBVIOUS
  <2>1. Busy = {} /\ Cardinality({}) = 0
    BY FS_EmptySet DEF Init, Busy
  <2> QED
    BY <2>1 DEF Init, SentInv, ReceivedInv
<1>2. IInv /\ SentInv /\ ReceivedInv => CountsBounded
  <2> SUFFICES ASSUME IInv, SentInv, ReceivedInv PROVE CountsBounded
    OBVIOUS
  <2>1. recvnum <= taken
    BY BusyFinite DEF IInv, TypeOK, ReceivedInv
  <2>2. (\A w \in Workers : pc[w] \in {"none", "loop"}) => Busy = {}
    BY DEF Busy
  <2> QED
    BY <2>1, <2>2 DEF SentInv, ReceivedInv, CountsBounded, Counting
<1> QED
  BY <1>1, <1>2, SentPreserves, ReceivedPreserves, Invariance, PTL DEF Spec
================================================================================
