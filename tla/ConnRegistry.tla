---------------------------- MODULE ConnRegistry ----------------------------
(***************************************************************************)
(* The life of a client connection, from accept() to the delete of its     *)
(* NUSocket: the pool threads of Server/NUPool.cpp (setnewconnect,         *)
(* readSocketMsg), the registry and the delete list of Server/GameMgr.cpp, *)
(* the sessions of Server/NUSocket.cpp, the lock registry of               *)
(* Module/ModuleLock.cpp, the sweep and the heartbeat scan of the main     *)
(* loop (main.cpp), and of the kernel what they rely on: the descriptor    *)
(* table (lowest free number first) and the edge-triggered epoll set.      *)
(*                                                                         *)
(* A step is one access to shared memory, one system call, or one critical *)
(* section of a spin lock; a thread is preempted between any two.  What a  *)
(* message says is abstracted away: a read returns something to handle,    *)
(* nothing, or the end of the connection.                                  *)
(***************************************************************************)
EXTENDS Naturals, Sequences, SequencesExt

CONSTANTS
  Workers,   \* the threads of the pool (SERVER_POOL_THREAD_NUM of them)
  Main,      \* the thread of main()
  Conns,     \* the connections that clients open
  FDs,       \* the descriptor numbers the kernel hands out
  Objs,      \* the heap addresses a NUSocket may have
  None,      \* the null pointer, and "no connection"
  NapTicks,  \* the 1 s sleep of setnewconnect, in 500 ms sleeps of main()
  Punctual,  \* TRUE: a thread that need not wait does its work within a tick
  LostWrites,\* TRUE: of two unlocked updates of mapLocks at once, one may be lost
  HeapReuse  \* TRUE: a freed address may be handed out while it is still named

ASSUME ConstantsAssumption ==
  /\ FDs \subseteq Nat \ {0}
  /\ Main \notin Workers
  /\ None \notin Workers \cup {Main} \cup Objs \cup Conns
  /\ NapTicks \in Nat
  /\ {Punctual, LostWrites, HeapReuse} \subseteq BOOLEAN

VARIABLES
  conn,      \* conn[c]: the connection as the client and the kernel see it
  greeted,   \* the connections whose handshake request has been read
  fdConn,    \* fdConn[f]: the connection behind descriptor f, None if f is free
  watched,   \* the descriptors in the epoll interest list
  ready,     \* the watched descriptors with an event nobody has fetched
  alloc,     \* the addresses that hold a live NUSocket
  sfd,       \* sfd[o]: getFD() of the NUSocket at o, 0 once deleted
  ulock,     \* ulock[o]: its m_userLock, "null", "free" or "held" (both locks)
  mapFDs,    \* GameMgr::mapFDs, None where there is no entry
  mapLocks,  \* ModuleLock::mapLocks: the user lock ids that are registered
  del,       \* GameMgr::listDeleteFDs
  allLock,   \* the holder of g_AllLocks, None if it is free
  delLock,   \* the holder of g_DeleteLocks
  pc,        \* pc[t]: where thread t is
  wfd,       \* wfd[w]: the descriptor worker w works on
  user,      \* user[w]: the NUSocket* worker w works on
  target,    \* target[t]: the NUSocket* a push or a delete of thread t is about
  nap,       \* nap[w]: ticks worker w still sleeps in setnewconnect
  pos,       \* the index of clearDeleteFDs in the delete list
  cursor,    \* the key at which clearDeleteFDs is in mapFDs
  crashed,   \* the process has died of an invalid access
  shared     \* history, for the properties only: the descriptor numbers that
             \* two workers at once have slept on in setnewconnect

kernel == <<conn, greeted, fdConn, watched, ready, shared>>
heap   == <<alloc, sfd, ulock, mapLocks>>
tables == <<mapFDs, del, allLock, delLock>>
locals == <<wfd, user, target, nap, pos, cursor>>
vars   == <<kernel, heap, tables, pc, locals, crashed>>

Threads == Workers \cup {Main}

Init ==
  /\ conn = [c \in Conns |-> "new"]
  /\ greeted = {}
  /\ fdConn = [f \in FDs |-> None]
  /\ watched = {}
  /\ ready = {}
  /\ alloc = {}
  /\ sfd = [o \in Objs |-> 0]
  /\ ulock = [o \in Objs |-> "null"]
  /\ mapFDs = [f \in FDs |-> None]
  /\ mapLocks = {}
  /\ del = <<>>
  /\ allLock = None
  /\ delLock = None
  /\ pc = [t \in Threads |-> IF t = Main THEN "sleep" ELSE "wait"]
  /\ wfd = [w \in Workers |-> 0]
  /\ user = [w \in Workers |-> None]
  /\ target = [t \in Threads |-> None]
  /\ nap = [w \in Workers |-> 0]
  /\ pos = 0
  /\ cursor = 0
  /\ crashed = FALSE
  /\ shared = {}

\* Thread t of a process that is alive stands before the step named label.
At(t, label) == ~crashed /\ pc[t] = label
GoTo(t, label) == pc' = [pc EXCEPT ![t] = label]

\* Thread t goes on within its function; its locals keep their values.
Continue(t, label) == GoTo(t, label) /\ UNCHANGED locals

\* Thread t picks the session a push or a delete will be about.
Choose(t, o, label) ==
  /\ target' = [target EXCEPT ![t] = o]
  /\ GoTo(t, label)
  /\ UNCHANGED <<wfd, user, nap, pos, cursor>>

\* Worker w returns to its loop; the locals of the call are gone.
Return(w) ==
  /\ GoTo(w, "wait")
  /\ wfd' = [wfd EXCEPT ![w] = 0]
  /\ user' = [user EXCEPT ![w] = None]
  /\ target' = [target EXCEPT ![w] = None]
  /\ UNCHANGED <<nap, pos, cursor>>

\* close(f): a free number is EBADF; epoll forgets a descriptor that is closed.
Close(f) ==
  /\ fdConn' = [fdConn EXCEPT ![f] = None]
  /\ conn' = IF fdConn[f] = None THEN conn ELSE [conn EXCEPT ![fdConn[f]] = "closed"]
  /\ watched' = watched \ {f}
  /\ ready' = ready \ {f}
  /\ UNCHANGED <<greeted, shared>>

\* Using the NUSocket at o when it has been deleted: the process may die of it,
\* or go on with what is left in that memory.
Use(o) == crashed' \in IF o \in alloc THEN {FALSE} ELSE BOOLEAN

\* A thread is about to change the map, or the list, under its lock.
WritingMap(t) == pc[t] \in {"insert", "free", "unmap"}
WritingList(t) == pc[t] \in {"push", "erase"}
MapWriter == \E t \in Threads : WritingMap(t)
ListWriter == \E t \in Threads : WritingList(t)

\* What an unlocked mapFDs.find(f) may answer: beside a writer it may miss.
Lookups(f) == {mapFDs[f]} \cup (IF MapWriter THEN {None} ELSE {})

\* What the unlocked search of the delete list for getFD() = f may answer.
Condemned(f) == \E o \in ToSet(del) : sfd[o] = f
Searches(f) == {Condemned(f)} \cup (IF ListWriter THEN {FALSE} ELSE {})

\* mapLocks as a thread that updates it to s leaves it; ModuleLock has no lock
\* of its own, and an update that runs beside another one may be lost.
UpdateLocks(t, s) ==
  LET raced == \E u \in Threads \ {t} : pc[u] \in {"regLock", "free"} IN
  mapLocks' \in {s} \cup (IF LostWrites /\ raced THEN {mapLocks} ELSE {})

-----------------------------------------------------------------------------
(* The clients. *)

Connect(c) ==
  /\ ~crashed
  /\ conn[c] = "new"
  /\ conn' = [conn EXCEPT ![c] = "queued"]
  /\ UNCHANGED <<greeted, fdConn, watched, ready, shared, heap, tables, pc, locals, crashed>>

\* A frame arrives on a watched descriptor: an edge, hence an event.
Send(f) ==
  /\ ~crashed
  /\ f \in watched
  /\ conn[fdConn[f]] = "open"
  /\ ready' = ready \cup {f}
  /\ UNCHANGED <<conn, greeted, fdConn, watched, shared, heap, tables, pc, locals, crashed>>

\* The client closes its end, or resets the connection.
Hangup(f) ==
  /\ ~crashed
  /\ fdConn[f] # None
  /\ conn[fdConn[f]] = "open"
  /\ conn' = [conn EXCEPT ![fdConn[f]] = "eof"]
  /\ ready' = ready \cup ({f} \cap watched)
  /\ UNCHANGED <<greeted, fdConn, watched, shared, heap, tables, pc, locals, crashed>>

-----------------------------------------------------------------------------
(* A pool thread: setnewconnect. *)

FreeFDs == {f \in FDs : fdConn[f] = None}

\* Another worker sleeps after the accept of a connection that had number f.
SleptOn(w, f) == \E v \in Workers \ {w} : pc[v] = "nap" /\ wfd[v] = f

\* accept(), then a sleep that is to make sure the request has arrived.
AcceptNapping(w, ticks) ==
  /\ At(w, "wait")
  /\ \E c \in Conns, f \in FreeFDs :
       /\ conn[c] = "queued"
       /\ \A g \in FreeFDs : f <= g
       /\ conn' = [conn EXCEPT ![c] = "open"]
       /\ fdConn' = [fdConn EXCEPT ![f] = c]
       /\ wfd' = [wfd EXCEPT ![w] = f]
       /\ shared' = shared \cup {g \in {f} : SleptOn(w, g)}
  /\ nap' = [nap EXCEPT ![w] = IF Punctual THEN ticks ELSE 0]
  /\ GoTo(w, "nap")
  /\ UNCHANGED <<greeted, watched, ready, heap, tables, user, target, pos, cursor, crashed>>

AcceptHasty(w) == AcceptNapping(w, NapTicks - 1)  \* mutant: sleeps half the time
Accept(w) == AcceptNapping(w, NapTicks)

\* The one read of the handshake.  Every failure returns without a close.
ShakeFails(w) ==
  /\ At(w, "nap") /\ nap[w] = 0
  /\ Return(w)
  /\ UNCHANGED <<kernel, heap, tables, crashed>>

Shake(w) ==
  /\ At(w, "nap") /\ nap[w] = 0
  /\ fdConn[wfd[w]] \in Conns \ greeted
  /\ greeted' = greeted \cup {fdConn[wfd[w]]}
  /\ Continue(w, "create")
  /\ UNCHANGED <<conn, fdConn, watched, ready, shared, heap, tables, crashed>>

\* Something a condemnation starts from still names the address o: the map, the
\* delete list, or a thread between its searches and its push.
Named(o) ==
  \/ o \in ToSet(del)
  \/ \E t \in Threads : target[t] = o
  \/ \E f \in FDs : mapFDs[f] = o

\* NUSocket::create: new, init, and the search of createAALock for the lock id.
Create(w) ==
  /\ At(w, "create")
  /\ \E o \in Objs \ alloc :
       /\ HeapReuse \/ ~Named(o)
       /\ alloc' = alloc \cup {o}
       /\ sfd' = [sfd EXCEPT ![o] = wfd[w]]
       /\ ulock' = [ulock EXCEPT ![o] = IF wfd[w] \in mapLocks THEN "null" ELSE "free"]
       /\ user' = [user EXCEPT ![w] = o]
  /\ GoTo(w, IF wfd[w] \in mapLocks THEN "lockAll" ELSE "regLock")
  /\ UNCHANGED <<kernel, mapLocks, tables, wfd, target, nap, pos, cursor, crashed>>

\* createAALock inserts the new lock under its id.
RegLock(w) ==
  /\ At(w, "regLock")
  /\ UpdateLocks(w, mapLocks \cup {wfd[w]})
  /\ Continue(w, "lockAll")
  /\ UNCHANGED <<kernel, alloc, sfd, ulock, tables, crashed>>

\* pushNewConnect: g_AllLocks is taken ...
LockAll(w) ==
  /\ At(w, "lockAll")
  /\ allLock = None
  /\ allLock' = w
  /\ Continue(w, "insert")
  /\ UNCHANGED <<kernel, heap, mapFDs, del, delLock, crashed>>

\* ... and the session inserted, unless its descriptor already has an entry.
InsertUnder(w, entry) ==
  /\ At(w, "insert")
  /\ mapFDs' = [mapFDs EXCEPT ![sfd[user[w]]] = IF entry = None THEN user[w] ELSE entry]
  /\ allLock' = None
  /\ Continue(w, "watch")
  /\ UNCHANGED <<kernel, heap, del, delLock, crashed>>

InsertOverwrites(w) == InsertUnder(w, None)  \* mutant: mapFDs[fd] = session
Insert(w) == InsertUnder(w, mapFDs[sfd[user[w]]])

\* epoll_ctl(ADD): EBADF is ignored; what is already there raises an event.
Watch(w) ==
  /\ At(w, "watch")
  /\ LET f == wfd[w] IN
       IF fdConn[f] = None
         THEN UNCHANGED <<watched, ready>>
         ELSE /\ watched' = watched \cup {f}
              /\ ready' = IF conn[fdConn[f]] = "eof" THEN ready \cup {f} ELSE ready
  /\ Return(w)
  /\ UNCHANGED <<conn, greeted, fdConn, shared, heap, tables, crashed>>

-----------------------------------------------------------------------------
(* A pool thread: readSocketMsg. *)

\* epoll_wait returns an event; the descriptor is remembered.
TakeEvent(w) ==
  /\ At(w, "wait")
  /\ \E f \in ready :
       /\ ready' = ready \ {f}
       /\ wfd' = [wfd EXCEPT ![w] = f]
  /\ GoTo(w, "find")
  /\ UNCHANGED <<conn, greeted, fdConn, watched, shared, heap, tables,
                 user, target, nap, pos, cursor, crashed>>

\* findSocketByFD, without g_AllLocks.
Find(w) ==
  /\ At(w, "find")
  /\ \E o \in Lookups(wfd[w]) :
       \/ o = None /\ Return(w)
       \/ /\ o # None /\ GoTo(w, "read")
          /\ user' = [user EXCEPT ![w] = o]
          /\ UNCHANGED <<wfd, target, nap, pos, cursor>>
  /\ UNCHANGED <<kernel, heap, tables, crashed>>

\* read(): EAGAIN, data, or the end (0, ECONNRESET, or EBADF on a free number).
\* The data may be the handshake request of a connection that reused the number.
Read(w) ==
  /\ At(w, "read")
  /\ LET c == fdConn[wfd[w]] IN
       \/ c # None /\ conn[c] = "open" /\ Return(w) /\ UNCHANGED greeted
       \/ c # None /\ Continue(w, "handle") /\ greeted' = greeted \cup {c}
       \/ c # None /\ conn[c] = "eof" /\ Continue(w, "condemn") /\ UNCHANGED greeted
       \/ c = None /\ Continue(w, "condemn") /\ UNCHANGED greeted
  /\ UNCHANGED <<conn, fdConn, watched, ready, shared, heap, tables, crashed>>

\* The message is parsed and its listener called, which may block on HTTP and
\* then uses the session; a message number below 1000 condemns the session.
Handle(w) ==
  /\ At(w, "handle")
  /\ Use(user[w])
  /\ Return(w) \/ Continue(w, "condemn")
  /\ UNCHANGED <<kernel, heap, tables>>

\* Mutant: what the search of the map returned is not compared with end().
CondemnUnchecked(w) ==
  /\ At(w, "condemn")
  /\ \E o \in Lookups(wfd[w]) : Choose(w, o, "close")
  /\ UNCHANGED <<kernel, heap, tables, crashed>>

\* pushDeleteFDS(fd): the unlocked searches of the map and of the list.
Condemn(w) ==
  /\ At(w, "condemn")
  /\ \E o \in Lookups(wfd[w]) :
       \/ o = None /\ Continue(w, "mark")
       \/ o # None /\ TRUE \in Searches(sfd[o]) /\ Continue(w, "mark")
       \/ o # None /\ FALSE \in Searches(sfd[o]) /\ Choose(w, o, "close")
  /\ UNCHANGED <<kernel, heap, tables, crashed>>

CloseThen(w, label) ==
  /\ At(w, "close")
  /\ Close(wfd[w])
  /\ Continue(w, label)
  /\ UNCHANGED <<heap, tables, crashed>>

CloseFDOnly(w) == CloseThen(w, "mark")  \* mutant: the session is not put on the list
CloseFD(w) == CloseThen(w, "lockDel")

\* listDeleteFDs.push_back under g_DeleteLocks, by a worker or by main().
LockDel(t) ==
  /\ At(t, "lockDel")
  /\ delLock = None
  /\ delLock' = t
  /\ Continue(t, "push")
  /\ UNCHANGED <<kernel, heap, mapFDs, del, allLock, crashed>>

Push(t) ==
  /\ At(t, "push")
  /\ del' = Append(del, target[t])
  /\ delLock' = None
  /\ Choose(t, None, IF t = Main THEN "scan" ELSE "mark")
  /\ UNCHANGED <<kernel, heap, mapFDs, allLock, crashed>>

\* user->setSocketState(...) after the push: the session is used once more.
Mark(w) ==
  /\ At(w, "mark")
  /\ Use(user[w])
  /\ Return(w)
  /\ UNCHANGED <<kernel, heap, tables>>

-----------------------------------------------------------------------------
(* The main thread: clearDeleteFDs, every 500 ms. *)

\* A worker that may be found in the same place one tick later.
MayTakeLong(w) == pc[w] \in {"wait", "find", "handle"} \/ (pc[w] = "nap" /\ nap[w] > 0)

\* 500 ms pass.
Tick ==
  /\ At(Main, "sleep")
  /\ Punctual => \A w \in Workers : MayTakeLong(w)
  /\ nap' = [w \in Workers |-> IF nap[w] = 0 THEN 0 ELSE nap[w] - 1]
  /\ GoTo(Main, "size")
  /\ UNCHANGED <<kernel, heap, tables, wfd, user, target, pos, cursor, crashed>>

\* "if (listDeleteFDs.size() > 0)", read without g_DeleteLocks.
Size ==
  /\ At(Main, "size")
  /\ Continue(Main, IF del = <<>> THEN "beat" ELSE "mainLockAll")
  /\ UNCHANGED <<kernel, heap, tables, crashed>>

MainLockAll ==
  /\ At(Main, "mainLockAll")
  /\ allLock = None
  /\ allLock' = Main
  /\ pos' = 1
  /\ GoTo(Main, "sweep")
  /\ UNCHANGED <<kernel, heap, mapFDs, del, delLock, wfd, user, target, nap, cursor, crashed>>

SweepEnds ==
  /\ At(Main, "sweep")
  /\ pos > Len(del)
  /\ allLock' = None
  /\ pos' = 0
  /\ GoTo(Main, "beat")
  /\ UNCHANGED <<kernel, heap, mapFDs, del, delLock, wfd, user, target, nap, cursor, crashed>>

\* The session under the iterator, and the one registered under its descriptor.
Swept == del[pos]
Filed == mapFDs[sfd[Swept]]

SweepTakesThen(victim, label) ==
  /\ At(Main, "sweep")
  /\ pos <= Len(del)
  /\ Swept \in alloc
  /\ ulock[Swept] = "free"
  /\ ulock' = [ulock EXCEPT ![Swept] = "held"]
  /\ cursor' = IF Filed = None THEN 0 ELSE sfd[Swept]
  /\ target' = [target EXCEPT ![Main] = victim]
  /\ GoTo(Main, label)
  /\ UNCHANGED <<kernel, alloc, sfd, mapLocks, tables, wfd, user, nap, pos, crashed>>

IfFiled == IF Filed = None THEN "lockErase" ELSE "free"
SweepForgets == SweepTakesThen(None, "lockErase")  \* mutant: no delete

\* The try of both user locks succeeds: the entry registered under the
\* session's descriptor is deleted, whichever session it is.
SweepTakes == SweepTakesThen(Filed, IfFiled)

\* The try fails and the session is left for a later sweep.
SweepSkips ==
  /\ At(Main, "sweep")
  /\ pos <= Len(del)
  /\ Swept \in alloc => ulock[Swept] = "held"
  /\ pos' = pos + 1
  /\ UNCHANGED <<kernel, heap, tables, pc, wfd, user, target, nap, cursor, crashed>>

\* A dangling pointer whose remains let themselves be locked: the descriptor
\* left in them is 0, and has no entry.
SweepDropsDangling ==
  /\ At(Main, "sweep")
  /\ pos <= Len(del)
  /\ Swept \notin alloc
  /\ Continue(Main, "lockErase")
  /\ UNCHANGED <<kernel, heap, tables, crashed>>

\* A dangling pointer, or a session created without a lock.
SweepCrashes ==
  /\ At(Main, "sweep")
  /\ pos <= Len(del)
  /\ Swept \in alloc => ulock[Swept] = "null"
  /\ crashed' = TRUE
  /\ UNCHANGED <<kernel, heap, tables, pc, locals>>

\* delete s->second: ~NUSocket clears the descriptor and its user lock.
FreeLeaving(left) ==
  /\ At(Main, "free")
  /\ LET o == target[Main] IN
       /\ alloc' = left
       /\ UpdateLocks(Main, IF ulock[o] = "null" THEN mapLocks ELSE mapLocks \ {sfd[o]})
       /\ sfd' = [sfd EXCEPT ![o] = 0]
       /\ ulock' = [ulock EXCEPT ![o] = "null"]
  /\ Choose(Main, None, "unmap")
  /\ UNCHANGED <<kernel, tables, crashed>>

FreeLeaks == FreeLeaving(alloc)  \* mutant: the memory is never given back
Free == FreeLeaving(alloc \ {target[Main]})

UnmapKey(f) ==
  /\ At(Main, "unmap")
  /\ mapFDs' = [g \in FDs |-> IF g = f THEN None ELSE mapFDs[g]]
  /\ cursor' = 0
  /\ GoTo(Main, "lockErase")
  /\ UNCHANGED <<kernel, heap, del, allLock, delLock, wfd, user, target, nap, pos, crashed>>

UnmapByFD == UnmapKey(sfd[Swept])  \* mutant: erase((*it)->getFD()), by then 0
\* mapFDs.erase(s)
Unmap == UnmapKey(cursor)

LockErase ==
  /\ At(Main, "lockErase")
  /\ delLock = None
  /\ delLock' = Main
  /\ Continue(Main, "erase")
  /\ UNCHANGED <<kernel, heap, mapFDs, del, allLock, crashed>>

EraseHolding(lock) ==
  /\ At(Main, "erase")
  /\ del' = RemoveAt(del, pos)
  /\ delLock' = lock
  /\ Continue(Main, "sweep")
  /\ UNCHANGED <<kernel, heap, mapFDs, allLock, crashed>>

EraseLocked == EraseHolding(Main)  \* mutant: g_DeleteLocks is not given back
Erase == EraseHolding(None)

-----------------------------------------------------------------------------
(* The main thread: the heartbeat scan of clearDeleteFDs. *)

\* More than 2 s since the last scan, or not.
Beat ==
  /\ At(Main, "beat")
  /\ \E next \in {"scan", "sleep"} : Continue(Main, next)
  /\ UNCHANGED <<kernel, heap, tables, crashed>>

\* The keys the unlocked iteration has still to visit.
KeysAhead == {f \in FDs : f > cursor /\ mapFDs[f] # None}

ScanEnds ==
  /\ At(Main, "scan")
  /\ KeysAhead = {}
  /\ cursor' = 0
  /\ GoTo(Main, "sleep")
  /\ UNCHANGED <<kernel, heap, tables, wfd, user, target, nap, pos, crashed>>

\* The next entry of the map; it is stale if its last heartbeat is too old.
ScanNext ==
  /\ At(Main, "scan")
  /\ \E f \in KeysAhead :
       /\ \A g \in KeysAhead : f <= g
       /\ cursor' = f
       /\ \/ GoTo(Main, "scan") /\ UNCHANGED target
          \/ GoTo(Main, "beatClose") /\ target' = [target EXCEPT ![Main] = mapFDs[f]]
  /\ UNCHANGED <<kernel, heap, tables, wfd, user, nap, pos, crashed>>

\* close(user->first), whether or not the session is condemned already
BeatClose ==
  /\ At(Main, "beatClose")
  /\ Close(cursor)
  /\ Continue(Main, "beatCondemn")
  /\ UNCHANGED <<heap, tables, crashed>>

\* pushDeleteFDS(user->second): the search of the list ...
BeatCondemn ==
  /\ At(Main, "beatCondemn")
  /\ LET found == Searches(sfd[target[Main]]) IN
       \/ FALSE \in found /\ Continue(Main, "beatCloseAgain")
       \/ TRUE \in found /\ Choose(Main, None, "scan")
  /\ UNCHANGED <<kernel, heap, tables, crashed>>

\* ... and a second close of the same number.
BeatCloseAgain ==
  /\ At(Main, "beatCloseAgain")
  /\ Close(sfd[target[Main]])
  /\ Continue(Main, "lockDel")
  /\ UNCHANGED <<heap, tables, crashed>>

-----------------------------------------------------------------------------
\* An unlocked traversal beside a writer follows a broken link and dies.
TraversalCrashes(t) ==
  /\ ~crashed
  /\ \/ MapWriter /\ pc[t] \in {"find", "handle", "condemn", "scan"}
     \/ ListWriter /\ pc[t] \in {"condemn", "beatCondemn", "size"}
  /\ crashed' = TRUE
  /\ UNCHANGED <<kernel, heap, tables, pc, locals>>

-----------------------------------------------------------------------------
ClientStep == (\E c \in Conns : Connect(c)) \/ (\E f \in FDs : Send(f) \/ Hangup(f))

NewConnection(w) ==
  \/ ShakeFails(w) \/ Shake(w) \/ Create(w) \/ RegLock(w)
  \/ LockAll(w) \/ Insert(w) \/ Watch(w)

Message(w) ==
  \/ TakeEvent(w) \/ Find(w) \/ Read(w) \/ Handle(w)
  \/ Condemn(w) \/ CloseFD(w) \/ LockDel(w) \/ Push(w) \/ Mark(w)

Sweep ==
  \/ Size \/ MainLockAll \/ SweepEnds \/ SweepTakes \/ SweepSkips
  \/ SweepDropsDangling \/ SweepCrashes \/ Free \/ Unmap \/ LockErase \/ Erase

Heartbeat ==
  \/ Beat \/ ScanEnds \/ ScanNext \/ BeatClose \/ BeatCondemn \/ BeatCloseAgain
  \/ LockDel(Main) \/ Push(Main)

Next ==
  \/ ClientStep
  \/ \E w \in Workers : Accept(w) \/ NewConnection(w) \/ Message(w)
  \/ Tick
  \/ Sweep
  \/ Heartbeat
  \/ \E t \in Threads : TraversalCrashes(t)

\* The scheduler runs every thread that can run, and the sleep of main() ends.
Fairness ==
  /\ \A w \in Workers : WF_vars(NewConnection(w) \/ Message(w))
  /\ WF_vars(Sweep \/ Heartbeat)
  /\ WF_vars(Tick)

Spec == Init /\ [][Next]_vars
FairSpec == Spec /\ Fairness

-----------------------------------------------------------------------------
WorkerLabels ==
  {"wait", "nap", "create", "regLock", "lockAll", "insert", "watch", "find",
   "read", "handle", "condemn", "close", "lockDel", "push", "mark"}
MainLabels ==
  {"sleep", "size", "mainLockAll", "sweep", "free", "unmap", "lockErase", "erase",
   "beat", "scan", "beatClose", "beatCondemn", "beatCloseAgain", "lockDel", "push"}

TypeOK ==
  /\ conn \in [Conns -> {"new", "queued", "open", "eof", "closed"}]
  /\ greeted \subseteq Conns
  /\ fdConn \in [FDs -> Conns \cup {None}]
  /\ watched \subseteq FDs
  /\ ready \subseteq FDs
  /\ alloc \subseteq Objs
  /\ sfd \in [Objs -> FDs \cup {0}]
  /\ ulock \in [Objs -> {"null", "free", "held"}]
  /\ mapFDs \in [FDs -> Objs \cup {None}]
  /\ mapLocks \subseteq FDs
  /\ del \in Seq(Objs)
  /\ allLock \in Threads \cup {None}
  /\ delLock \in Threads \cup {None}
  /\ pc \in [Threads -> WorkerLabels \cup MainLabels]
  /\ pc[Main] \in MainLabels
  /\ \A w \in Workers : pc[w] \in WorkerLabels
  /\ wfd \in [Workers -> FDs \cup {0}]
  /\ user \in [Workers -> Objs \cup {None}]
  /\ target \in [Threads -> Objs \cup {None}]
  /\ nap \in [Workers -> 0 .. NapTicks]
  /\ pos \in Nat
  /\ cursor \in FDs \cup {0}
  /\ crashed \in BOOLEAN
  /\ shared \subseteq FDs

\* Every entry of mapFDs is a live session filed under its own descriptor,
\* except the one entry clearDeleteFDs is between deleting and erasing: find
\* and pushDeleteFDS never answer with a session that is already gone or that
\* belongs to another descriptor (insert by getFD(), delete then erase).
RegistryOwnership ==
  \A f \in FDs :
    mapFDs[f] # None =>
      \/ mapFDs[f] \in alloc /\ sfd[mapFDs[f]] = f
      \/ pc[Main] = "unmap" /\ cursor = f

\* The delete of clearDeleteFDs is of a live session, although the delete list
\* may name one session twice, a deleted one, or one that was never registered.
DeleteOnce == pc[Main] = "free" => target[Main] \in alloc

\* Two threads never change the map, nor the list, at the same time: the spin
\* locks are taken on every path that inserts, erases or pushes.
WritersExclude ==
  \A t, u \in Threads :
    t # u => ~(WritingMap(t) /\ WritingMap(u)) /\ ~(WritingList(t) /\ WritingList(u))

\* When setnewconnect creates a session, the descriptor belongs to no older
\* one: neither mapFDs nor the lock registry has it.  Nothing but time ensures
\* it: the sweep of every 500 ms outruns the sleep of 1 s after accept().  Not
\* even time does once two workers have slept on one number (shared), which
\* takes a second close of a descriptor that was accepted again in between.
FreshDescriptor ==
  \A w \in Workers :
    pc[w] = "create" /\ wfd[w] \notin shared =>
      mapFDs[wfd[w]] = None /\ wfd[w] \notin mapLocks

\* The threads that are condemning session o, before it is on the list.
Condemning(o) ==
  \E t \in Threads :
    /\ target[t] = o
    /\ pc[t] \in {"close", "lockDel", "push", "beatCondemn", "beatCloseAgain"}

\* A registered session whose descriptor is closed is on the delete list, or a
\* thread is about to put it there: no close leaves an entry behind for ever.
ClosedIsCondemned ==
  \A f \in FDs \ shared :
    mapFDs[f] # None /\ fdConn[f] = None =>
      mapFDs[f] \in ToSet(del) \/ Condemning(mapFDs[f])

\* Every live session is registered, or a worker is about to register it: no
\* insert of pushNewConnect is refused, and no erase forgets the delete.
NoOrphanSession ==
  \A o \in alloc :
    \/ sfd[o] \in shared
    \/ sfd[o] \in FDs /\ mapFDs[sfd[o]] = o
    \/ \E w \in Workers : user[w] = o /\ pc[w] \in {"regLock", "lockAll", "insert"}

\* A registered session on the delete list whose lock is free gets deleted
\* (GameMgr.h:38: when the player's locks are all released it is removed).
CondemnedDestroyed ==
  \A o \in Objs :
    (o \in ToSet(del) /\ ulock[o] = "free" /\ \E f \in FDs : mapFDs[f] = o)
      ~> (crashed \/ o \notin alloc)

\* clearDeleteFDs ends: main() always comes back to its sleep, whatever the
\* workers push, insert and lock meanwhile.
MainReturns == (pc[Main] # "sleep") ~> (pc[Main] = "sleep" \/ crashed)

\* NUSocket.h:45, "offline: will be deleted when there are no references":
\* a session that a worker still uses is not deleted under it.
ReferencedNotDeleted ==
  \A w \in Workers : pc[w] \in {"read", "handle", "mark"} => user[w] \in alloc

\* mapFDs as it counts for the rest of the server: the entry whose session
\* clearDeleteFDs has just deleted is as good as erased.
Settled == [f \in FDs |-> IF pc[Main] = "unmap" /\ f = cursor THEN None ELSE mapFDs[f]]

Table == INSTANCE SessionTable WITH table <- Settled, live <- alloc, number <- sfd

\* The registry implements the abstract table of sessions under any schedule:
\* a session comes into mapFDs once, while it lives and where nobody is, and
\* goes out of it and out of memory together; no other session is ever
\* deleted, and none twice.  A refused insert is the only session left out.
ImplementsSessionTable == Table!Spec

=============================================================================
