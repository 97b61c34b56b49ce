------------------------------ MODULE Lifecycle ------------------------------
(***************************************************************************)
(* The life of the process around the connections: the order in which      *)
(* main() and GameServer::init() create the parts, the two instances of    *)
(* Log, the listener table, the threads of the pool that use all of these  *)
(* while main() goes on, the dispatch of a message to a listener of one of *)
(* two kinds, the counters of GameServer, and the HTTP requests handlers   *)
(* make.  Connections and what is in a message are left to the other      *)
(* modules: here a message has a sender and a number.                      *)
(***************************************************************************)
EXTENDS Naturals, Sequences, FiniteSets, SequencesExt

CONSTANTS
  Workers,     \* the threads of the pool
  HallNumbers, \* the message numbers regAtHall registers
  GameNumber,  \* HEARTBEAT_GL, the number regAtSubGameServer registers
  OtherNumber, \* a number nobody registers
  RoomNumber,  \* USER_ENTER_CL, whose handler makes an HttpRequest
  UserNumbers, \* USER_LOGIN_CL and ReturnHall_CL, whose handlers use libcurl themselves
  MaxEvents,   \* bound: the messages the threads take
  MaxChunks    \* bound: the pieces in which libcurl hands over one answer

ASSUME ConstantsAssumption ==
  /\ IsFiniteSet(Workers) /\ IsFiniteSet(HallNumbers)
  /\ RoomNumber \in HallNumbers /\ UserNumbers \subseteq HallNumbers \ {RoomNumber}
  /\ GameNumber \notin HallNumbers /\ OtherNumber \notin HallNumbers \cup {GameNumber}
  /\ {MaxEvents, MaxChunks} \subseteq Nat

Numbers == HallNumbers \cup {GameNumber, OtherNumber}
Senders == {"client", "server"}

\* The parts that others reach through a pointer.
Parts == {"ModuleLock", "GameMgr", "g_server", "g_threadLock", "Hall", "SubGameServer"}

VARIABLES
  step,      \* how many steps of the program main() has done
  exited,    \* main() has returned: no server could be created
  parts,     \* the parts that exist
  poolSub,   \* NUPool::g_subServer points to the SubGameServer
  locks,     \* the ids in ModuleLock::mapLocks
  logs,      \* the Log objects made so far: for each of them whether it has a lock
  log,       \* Log::instance, an index into logs, 0 for null
  table,     \* ListenerMgr::m_vlisteners: number -> "none", "Listener_0", "Listener_1"
  listeners, \* cur_listener_count
  flag,      \* flag[w]: getRunFlag() of w's ModuleThread
  pc,        \* pc[w]: where worker w is
  msg,       \* msg[w]: sender and number of the message w handles
  ready,     \* ready[w]: m_readystate of w's HttpRequest
  curl,      \* curl[w]: w's request, of either kind, has a curl handle
  chunks,    \* chunks[w]: the pieces w's request has received
  sendnum, recvnum, \* the counters of GameServer
  seen,      \* seen[w]: a counter as w has loaded it
  \* what is remembered for the properties only:
  handles,   \* the curl handles that have not been cleaned up
  failed,    \* the HttpRequests that have failed
  nulls,     \* the null pointers that have been followed
  confused,  \* the messages a listener of the other kind was called with
  sent, taken, \* the answers sent, the messages taken
  unlogged   \* the threads that have written a log line without its lock

start  == <<step, exited, parts, poolSub, locks, logs, log, table, listeners>>
http   == <<ready, curl, chunks, handles, failed>>
tally  == <<sendnum, recvnum, seen, sent, taken>>
vars   == <<start, flag, pc, msg, http, tally, nulls, confused, unlogged>>

Init ==
  /\ step = 0 /\ exited = FALSE
  /\ parts = {} /\ poolSub = FALSE
  /\ locks = {} /\ logs = <<>> /\ log = 0
  /\ table = [n \in Numbers |-> "none"] /\ listeners = 0
  /\ flag = [w \in Workers |-> FALSE]
  /\ pc = [w \in Workers |-> "none"]
  /\ msg = [w \in Workers |-> <<"client", OtherNumber>>]
  /\ ready = [w \in Workers |-> "UNSET"]
  /\ curl = [w \in Workers |-> FALSE]
  /\ chunks = [w \in Workers |-> 0]
  /\ sendnum = 0 /\ recvnum = 0 /\ seen = [w \in Workers |-> 0]
  /\ handles = 0 /\ failed = 0
  /\ nulls = {} /\ confused = {} /\ sent = 0 /\ taken = 0 /\ unlogged = {}

-----------------------------------------------------------------------------
(* main(), GameServer::init() and run(), one call after the other. *)

\* mutants: a log line before there is a ModuleLock; the threads before SubGameServer
ProgramLogFirst == <<"newLog", "lockInstance", "newLogLine", "newLogDone", "newServer",
                     "newPool", "newHall", "newSub", "startThreads">>
ProgramPoolEarly == <<"lockInstance", "newLog", "newLogLine", "newLogDone", "newServer",
                      "newPool", "startThreads", "newHall", "newSub">>

\* The order of the calls; each of them stands for all it does.
Program == <<"lockInstance", "newLog", "newLogLine", "newLogDone", "newServer", "newPool",
             "newHall", "newSub", "startThreads">>

\* The next call of main() is the one named call.
Main(call) ==
  /\ ~exited
  /\ step < Len(Program) /\ Program[step + 1] = call
  /\ step' = step + 1

Rest == <<pc, msg, http, tally, confused, unlogged>>

\* ModuleLock::getInstance()
LockInstance ==
  /\ Main("lockInstance")
  /\ parts' = parts \cup {"ModuleLock"}
  /\ UNCHANGED <<exited, poolSub, locks, logs, log, table, listeners, flag, nulls, Rest>>

\* The first log line: Log() asks createAALock for the lock Lock_Log, ...
NewLog ==
  /\ Main("newLog")
  /\ nulls' = nulls \cup ({"ModuleLock"} \ parts)
  /\ logs' = Append(logs, "Lock_Log" \notin locks)
  /\ locks' = locks \cup {"Lock_Log"}
  /\ UNCHANGED <<exited, parts, poolSub, log, table, listeners, flag, Rest>>

\* ... which logs a line itself, before Log::instance is set: a second Log(), whose
\* lock is refused because the first has it, and which writes that line without it.
NewLogLine ==
  /\ Main("newLogLine")
  /\ logs' = Append(logs, "Lock_Log" \notin locks)
  /\ log' = Len(logs) + 1
  /\ UNCHANGED <<exited, parts, poolSub, locks, table, listeners, flag, nulls, Rest>>

\* The first Log() returns, and takes the place of the second.
NewLogKeeping(i) ==
  /\ Main("newLogDone")
  /\ log' = i
  /\ UNCHANGED <<exited, parts, poolSub, locks, logs, table, listeners, flag, nulls, Rest>>

NewLogSecond == NewLogKeeping(2)  \* mutant: an instance that is set stays
NewLogDone == NewLogKeeping(1)

\* GameServer::create up to the bind, the only call whose failure is likely.
NewServer ==
  /\ Main("newServer")
  /\ parts' = parts \cup {"g_server"}
  /\ UNCHANGED <<exited, poolSub, locks, logs, log, table, listeners, flag, nulls, Rest>>

\* bind() fails, init() returns false, main() logs and returns.
BindFails ==
  /\ Main("newServer")
  /\ exited' = TRUE
  /\ UNCHANGED <<parts, poolSub, locks, logs, log, table, listeners, flag, nulls, Rest>>

\* NUPool's constructor creates GameMgr with its two locks, takes over the
\* SubGameServer* of the server as it is, and makes g_threadLock.
NewPool ==
  /\ Main("newPool")
  /\ parts' = parts \cup {"GameMgr", "g_threadLock"}
  /\ poolSub' = ("SubGameServer" \in parts)
  /\ locks' = locks \cup {"Lock_AllUser", "Lock_DelUser", "Lock_NUPool"}
  /\ UNCHANGED <<exited, logs, log, table, listeners, flag, nulls, Rest>>

\* addListener: the map keeps the first listener of a number, the count does not care.
Registered(numbers, kind) ==
  /\ table' = [n \in Numbers |-> IF n \in numbers /\ table[n] = "none" THEN kind ELSE table[n]]
  /\ listeners' = listeners + Cardinality(numbers)

\* Hall::create and regAtHall.
NewHall ==
  /\ Main("newHall")
  /\ parts' = parts \cup {"Hall"}
  /\ Registered(HallNumbers, "Listener_0")
  /\ UNCHANGED <<exited, poolSub, locks, logs, log, flag, nulls, Rest>>

\* SubGameServer::create and regAtSubGameServer, which registers numbers as of kind.
NewSubWith(numbers, kind) ==
  /\ Main("newSub")
  /\ parts' = parts \cup {"SubGameServer"}
  /\ Registered(numbers, kind)
  /\ UNCHANGED <<exited, poolSub, locks, logs, log, flag, nulls, Rest>>

NewSubPlain == NewSubWith({GameNumber}, "Listener_0")  \* mutant: the macro without the 2
NewSub == NewSubWith({GameNumber}, "Listener_1")

\* GameServer::run: the loop of ModuleThreadPool::run creates the threads one by
\* one; ModuleThread::run sets the flag first and then starts the thread.
StartThread(w) ==
  /\ ~exited
  /\ step < Len(Program) /\ Program[step + 1] = "startThreads"
  /\ pc[w] = "none"
  /\ flag' = [flag EXCEPT ![w] = TRUE]
  /\ pc' = [pc EXCEPT ![w] = "loop"]
  /\ step' = IF \A u \in Workers \ {w} : pc[u] # "none" THEN step + 1 ELSE step
  /\ UNCHANGED <<exited, parts, poolSub, locks, logs, log, table, listeners, nulls,
                 msg, http, tally, confused, unlogged>>

Starting == LockInstance \/ NewLog \/ NewLogLine \/ NewLogDone \/ NewServer \/ BindFails
            \/ NewPool \/ NewHall \/ NewSub \/ \E w \in Workers : StartThread(w)

-----------------------------------------------------------------------------
(* A thread of the pool. *)

At(w, label) == pc[w] = label /\ flag[w]
GoTo(w, label) == pc' = [pc EXCEPT ![w] = label]

\* The thread follows the pointers to these parts.
Follow(used) == nulls' = nulls \cup (used \ parts)

\* An event: g_threadLock around epoll_wait, findSocketByFD, and a message in it.
Take(w) ==
  /\ At(w, "loop")
  /\ taken < MaxEvents
  /\ taken' = taken + 1
  /\ \E m \in Senders \X Numbers : msg' = [msg EXCEPT ![w] = m]
  /\ Follow({"g_server", "g_threadLock", "GameMgr"})
  /\ unlogged' = IF log = 0 \/ ~logs[log] THEN unlogged \cup {w} ELSE unlogged
  /\ GoTo(w, "dispatch")
  /\ UNCHANGED <<start, flag, http, sendnum, recvnum, seen, sent, confused>>

Expected(sender) == IF sender = "client" THEN "Listener_0" ELSE "Listener_1"

\* No listener: a warning.
NoListener(w) ==
  /\ At(w, "dispatch")
  /\ table[msg[w][2]] = "none"
  /\ nulls' = nulls \cup (IF msg[w][1] = "server" /\ ~poolSub THEN {"g_subServer"} ELSE {})
  /\ GoTo(w, "recv")
  /\ UNCHANGED <<start, flag, msg, http, tally, confused, unlogged>>

\* Where a handler of the Hall goes: userEnterHall asks the web service; userLogin and
\* returnGame do if nobody holds the token, and answer at once if somebody does.
Asking(n) == IF n = RoomNumber THEN {"request"}
             ELSE IF n \in UserNumbers THEN {"request", "send"} ELSE {"send"}

\* callListener for a client, treadServerMsg and callListener2 for a game server;
\* both cast what they find to the kind they expect.
Call(w) ==
  /\ At(w, "dispatch")
  /\ LET sender == msg[w][1]
         kind == table[msg[w][2]] IN
       /\ kind # "none"
       /\ nulls' = nulls \cup (IF sender = "server" /\ ~poolSub THEN {"g_subServer"} ELSE {})
       /\ confused' = IF kind = Expected(sender) THEN confused ELSE confused \cup {msg[w]}
       /\ \E label \in IF kind # Expected(sender) THEN {"recv"}
                       ELSE IF sender = "client" THEN Asking(msg[w][2]) ELSE {"send"} :
            GoTo(w, label)
  /\ UNCHANGED <<start, flag, msg, http, tally, unlogged>>

-----------------------------------------------------------------------------
(* The requests to the web service: Hall::getRoomInfo through HttpRequest,  *)
(* userLogin and returnGame through libcurl itself.                        *)

ByHttpRequest(w) == msg[w][2] = RoomNumber

\* curl_easy_init and the options: HttpRequest's constructor and open(), which tells
\* nobody, since its callback is set only later, or the handler's own lines.
Open(w) ==
  /\ At(w, "request")
  /\ ready' = IF ByHttpRequest(w) THEN [ready EXCEPT ![w] = "SETTING"] ELSE ready
  /\ curl' = [curl EXCEPT ![w] = TRUE]
  /\ handles' = handles + 1
  /\ GoTo(w, "perform")
  /\ UNCHANGED <<start, flag, msg, chunks, failed, tally, nulls, confused, unlogged>>

\* curl_easy_perform hands over a piece of the answer.
Piece(w) ==
  /\ At(w, "perform")
  /\ chunks[w] < MaxChunks
  /\ chunks' = [chunks EXCEPT ![w] = @ + 1]
  /\ UNCHANGED <<start, flag, msg, curl, handles, failed, tally, nulls, confused, unlogged>>

\* An HttpRequest notes it; the callback of getRoomInfo only logs.
GetData(w) ==
  /\ Piece(w)
  /\ ByHttpRequest(w)
  /\ ready' = [ready EXCEPT ![w] = "GET"]
  /\ UNCHANGED pc

\* getUserInfo and getUserInfo2 answer the client, for every piece and while the
\* request is still on.
GetUserInfo(w) ==
  /\ Piece(w)
  /\ ~ByHttpRequest(w)
  /\ GoTo(w, "send")
  /\ UNCHANGED ready

\* The request is over, so many handles are cleaned up, and the handler goes on.
Finish(w, cleaned, label) ==
  /\ At(w, "perform")
  /\ curl' = [curl EXCEPT ![w] = FALSE]
  /\ handles' = handles - cleaned
  /\ ready' = [ready EXCEPT ![w] = "UNSET"]
  /\ chunks' = [chunks EXCEPT ![w] = 0]
  /\ GoTo(w, label)
  /\ UNCHANGED <<start, flag, msg, tally, nulls, confused, unlogged>>

\* The HttpRequest is deleted, its destructor does nothing; a temporary account gets
\* a mail from userEnterHall, the others do not.
RoomLeft(w, cleaned) ==
  /\ ByHttpRequest(w)
  /\ \E label \in {"send", "recv"} : Finish(w, cleaned, label)

\* curl_easy_perform succeeds, whatever it has handed over; the handle is cleaned up.
SendOKLeaving(w, cleaned) ==
  /\ RoomLeft(w, cleaned)
  /\ UNCHANGED failed

\* mutants: no curl_easy_cleanup; one more in the destructor
SendOKLeak(w) == SendOKLeaving(w, 0)
SendOKTwice(w) == SendOKLeaving(w, 2)
SendOK(w) == SendOKLeaving(w, 1)

\* It fails: an early return, and the handle stays.
SendFails(w) ==
  /\ RoomLeft(w, 0)
  /\ failed' = failed + 1

\* userLogin and returnGame clean up either way; if there was no piece, the client
\* never gets an answer.
Performed(w) ==
  /\ ~ByHttpRequest(w)
  /\ Finish(w, 1, "recv")
  /\ UNCHANGED failed

-----------------------------------------------------------------------------
(* The counters, which every thread adds to without a lock. *)

\* sendMsg: sendnum += 1, a load and a store; then back to the handler, or to the
\* request in whose callback the answer was sent.
LoadSent(w) ==
  /\ At(w, "send")
  /\ sent' = sent + 1
  /\ seen' = [seen EXCEPT ![w] = sendnum]
  /\ GoTo(w, "sendStore")
  /\ UNCHANGED <<start, flag, msg, http, sendnum, recvnum, taken, nulls, confused, unlogged>>

StoreSentOf(w, n) ==
  /\ At(w, "sendStore")
  /\ sendnum' = n
  /\ GoTo(w, IF curl[w] THEN "perform" ELSE "recv")
  /\ UNCHANGED <<start, flag, msg, http, recvnum, seen, sent, taken, nulls, confused, unlogged>>

StoreSentTwice(w) == StoreSentOf(w, seen[w] + 2)  \* mutant: sendMsg counts, its caller too
StoreSent(w) == StoreSentOf(w, seen[w] + 1)

\* TreadProc: setRecvNum(getRecvNum() + 1).
LoadRecv(w) ==
  /\ At(w, "recv")
  /\ seen' = [seen EXCEPT ![w] = recvnum]
  /\ GoTo(w, "recvStore")
  /\ UNCHANGED <<start, flag, msg, http, sendnum, recvnum, sent, taken, nulls, confused, unlogged>>

StoreRecv(w) ==
  /\ At(w, "recvStore")
  /\ recvnum' = seen[w] + 1
  /\ GoTo(w, "loop")
  /\ UNCHANGED <<start, flag, msg, http, sendnum, seen, sent, taken, nulls, confused, unlogged>>

-----------------------------------------------------------------------------
Step(w) ==
  \/ Take(w) \/ NoListener(w) \/ Call(w)
  \/ Open(w) \/ GetData(w) \/ GetUserInfo(w) \/ SendOK(w) \/ SendFails(w) \/ Performed(w)
  \/ LoadSent(w) \/ StoreSent(w) \/ LoadRecv(w) \/ StoreRecv(w)

Next == Starting \/ \E w \in Workers : Step(w)

\* Nothing is promised to happen: libcurl need not come back, for its timeout of 0.5
\* is passed as a double where a long is read.
Spec == Init /\ [][Next]_vars

-----------------------------------------------------------------------------
(* Properties. *)

\* Every variable has its type.
TypeOK ==
  /\ step \in 0..Len(Program) /\ exited \in BOOLEAN
  /\ parts \subseteq Parts /\ poolSub \in BOOLEAN
  /\ locks \subseteq {"Lock_Log", "Lock_AllUser", "Lock_DelUser", "Lock_NUPool"}
  /\ logs \in Seq(BOOLEAN) /\ log \in 0..Len(logs)
  /\ table \in [Numbers -> {"none", "Listener_0", "Listener_1"}] /\ listeners \in Nat
  /\ flag \in [Workers -> BOOLEAN]
  /\ pc \in [Workers -> {"none", "loop", "dispatch", "request", "perform", "send",
                         "sendStore", "recv", "recvStore"}]
  /\ msg \in [Workers -> Senders \X Numbers]
  /\ ready \in [Workers -> {"UNSET", "SETTING", "GET"}]
  /\ curl \in [Workers -> BOOLEAN] /\ chunks \in [Workers -> 0..MaxChunks]
  /\ sendnum \in Nat /\ recvnum \in Nat /\ seen \in [Workers -> Nat]
  /\ handles \in Nat /\ failed \in Nat
  /\ nulls \subseteq Parts \cup {"g_subServer"}
  /\ confused \subseteq Senders \X Numbers
  /\ sent \in Nat /\ taken \in 0..MaxEvents /\ unlogged \subseteq Workers

\* Whatever a thread or a constructor reaches through a pointer exists by then; the
\* one exception is g_subServer of NUPool, copied before there is a SubGameServer.
NullsFollowed == nulls \subseteq {"g_subServer"}

\* Of the two instances of Log the one that stays is the one with the lock: no
\* thread formats into the common buffer without it.
LogHasLock == unlogged = {}

\* A message meets a listener of the other kind, behind the unchecked cast, only if
\* a client uses the number of the game servers or a game server one of the Hall's.
ConfusedOnlyAcross ==
  confused \subseteq {<<"client", GameNumber>>} \cup ({"server"} \X HallNumbers)

\* The map, which threads search without a lock, does not change once there are any.
TableQuiet == [][(\E w \in Workers : pc[w] # "none") => UNCHANGED <<table, listeners>>]_vars

\* A curl handle outlives its request exactly when the request is an HttpRequest and
\* fails.
InCurl == {w \in Workers : curl[w]}
HandlesAccounted == handles = failed + Cardinality(InCurl)

\* The counters may miss what two threads count at once ("may be inexact, not safe
\* with several threads"); they never count too much, and never lose everything.
Counting(w) == pc[w] \in {"send", "sendStore", "recv", "recvStore"}
CountsBounded ==
  /\ sendnum <= sent /\ recvnum <= taken
  /\ (\A w \in Workers : ~Counting(w)) => (sent > 0 => sendnum > 0)
  /\ (\A w \in Workers : pc[w] \in {"none", "loop"}) => (taken > 0 => recvnum > 0)
=============================================================================
