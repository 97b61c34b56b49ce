------------------------- MODULE ConnRegistryProofs -------------------------
(***************************************************************************)
(* For any number of threads, connections, descriptors and addresses, any  *)
(* schedule and any outcome of the races the model admits: mapFDs names    *)
(* only live sessions, each under its own descriptor, and the sweep never  *)
(* deletes a session twice.                                                *)
(***************************************************************************)
EXTENDS ConnRegistry, TLAPS

\* The labels at which the sweep holds g_AllLocks, and those at which it works
\* on one element of the delete list.
SweepLabels == {"sweep", "free", "unmap", "lockErase", "erase"}
ElementLabels == SweepLabels \ {"sweep"}

\* The labels at which a thread has picked the session of a push.
PushLabels == {"close", "beatClose", "beatCondemn", "beatCloseAgain", "lockDel", "push"}

\* The labels at which a worker holds a session nobody else knows yet.
Creating == {"regLock", "lockAll", "insert"}

\* A live session keeps the descriptor it was created with.
LiveHasFD == \A o \in alloc : sfd[o] \in FDs

\* A worker that works on a descriptor has one.
WorkerHasFD == \A w \in Workers : pc[w] # "wait" => wfd[w] \in FDs

\* A session under construction is live, unregistered and one worker's own.
FreshIsOwn ==
  \A w \in Workers :
    pc[w] \in Creating =>
      /\ user[w] \in alloc
      /\ \A f \in FDs : mapFDs[f] # user[w] \/ (pc[Main] = "unmap" /\ cursor = f)
      /\ \A v \in Workers : pc[v] \in Creating /\ user[v] = user[w] => v = w

\* What is pushed on the list is an address.
TargetIsPicked == \A t \in Threads : pc[t] \in PushLabels => target[t] \in Objs

\* The iterator of the sweep stays within the list, which others only lengthen.
IteratorInList ==
  /\ pc[Main] \in SweepLabels => pos \in Nat \ {0}
  /\ pc[Main] \in ElementLabels => pos \in 1 .. Len(del)

\* What the sweep is about to delete is what mapFDs holds under the cursor.
VictimIsFiled ==
  /\ pc[Main] \in {"free", "unmap"} => cursor \in FDs
  /\ pc[Main] = "free" => target[Main] \in alloc /\ mapFDs[cursor] = target[Main]

\* Who is in a critical section holds its lock.
LocksHeld ==
  /\ \A w \in Workers : pc[w] = "insert" => allLock = w
  /\ pc[Main] \in SweepLabels => allLock = Main
  /\ \A t \in Threads : WritingList(t) => delLock = t

IInv ==
  /\ TypeOK
  /\ LiveHasFD
  /\ WorkerHasFD
  /\ FreshIsOwn
  /\ TargetIsPicked
  /\ IteratorInList
  /\ VictimIsFiled
  /\ LocksHeld
  /\ RegistryOwnership

-----------------------------------------------------------------------------
(* Types. *)

\* Initially every variable is in its type.
LEMMA InitTypes == Init => TypeOK
<1> SUFFICES ASSUME Init
             PROVE  TypeOK
    OBVIOUS
<1> USE ConstantsAssumption DEF Init
<1>1. pc \in [Threads -> WorkerLabels \cup MainLabels]
      BY DEF WorkerLabels, MainLabels
<1>2. pc[Main] \in MainLabels /\ \A w \in Workers : pc[w] \in WorkerLabels
      BY DEF WorkerLabels, MainLabels, Threads
<1>3. nap \in [Workers -> 0 .. NapTicks]
      OBVIOUS
<1>4. sfd \in [Objs -> FDs \cup {0}] /\ ulock \in [Objs -> {"null", "free", "held"}]
      OBVIOUS
<1>5. mapFDs \in [FDs -> Objs \cup {None}] /\ fdConn \in [FDs -> Conns \cup {None}]
      OBVIOUS
<1>6. /\ wfd \in [Workers -> FDs \cup {0}]
      /\ user \in [Workers -> Objs \cup {None}]
      /\ target \in [Threads -> Objs \cup {None}]
      OBVIOUS
<1>7. conn \in [Conns -> {"new", "queued", "open", "eof", "closed"}]
      OBVIOUS
<1>8. del \in Seq(Objs)
      OBVIOUS
<1> QED BY <1>1, <1>2, <1>3, <1>4, <1>5, <1>6, <1>7, <1>8 DEF TypeOK

\* Erasing the element under the iterator leaves a list of addresses.
LEMMA RemoveType ==
  ASSUME NEW S, NEW s \in Seq(S), NEW i \in 1 .. Len(s)
  PROVE  RemoveAt(s, i) \in Seq(S)
  BY DEF RemoveAt

\* Whatever an unlocked search of mapFDs answers is an address or null.
LEMMA LookupType ==
  ASSUME TypeOK, NEW f \in FDs
  PROVE  Lookups(f) \subseteq Objs \cup {None}
  BY DEF TypeOK, Lookups

\* Every step leaves every variable in its type.
LEMMA StepTypes == IInv /\ [Next]_vars => TypeOK'
<1> SUFFICES ASSUME TypeOK, LiveHasFD, WorkerHasFD, TargetIsPicked, IteratorInList, [Next]_vars
             PROVE  TypeOK'
    BY DEF IInv
<1> USE ConstantsAssumption DEF At, TypeOK, Threads, WorkerLabels, MainLabels, vars, kernel,
   heap, tables, locals
(* A pool thread accepts and registers a connection. *)
<1>1. ASSUME NEW w \in Workers, Accept(w)
      PROVE  TypeOK'
  <2>1. PICK c \in Conns, f \in FreeFDs :
               /\ conn' = [conn EXCEPT ![c] = "open"]
               /\ fdConn' = [fdConn EXCEPT ![f] = c]
               /\ wfd' = [wfd EXCEPT ![w] = f]
        BY <1>1 DEF Accept, AcceptNapping
  <2>2. f \in FDs
        BY DEF FreeFDs
  <2>3. nap' \in [Workers -> 0 .. NapTicks]
        BY <1>1 DEF Accept, AcceptNapping
  <2>4. shared' \subseteq FDs
        BY <1>1 DEF Accept, AcceptNapping, FreeFDs
  <2> QED BY <1>1, <2>1, <2>2, <2>3, <2>4 DEF Accept, AcceptNapping, GoTo
<1>2. ASSUME NEW w \in Workers, ShakeFails(w)
      PROVE  TypeOK'
      BY <1>2 DEF ShakeFails, Return, GoTo
<1>3. ASSUME NEW w \in Workers, Shake(w)
      PROVE  TypeOK'
      BY <1>3 DEF Shake, Continue, GoTo
<1>4. ASSUME NEW w \in Workers, Create(w)
      PROVE  TypeOK'
      BY <1>4 DEF Create, GoTo
<1>5. ASSUME NEW w \in Workers, RegLock(w)
      PROVE  TypeOK'
      BY <1>5 DEF RegLock, UpdateLocks, Continue, GoTo, WorkerHasFD
<1>6. ASSUME NEW w \in Workers, LockAll(w)
      PROVE  TypeOK'
      BY <1>6 DEF LockAll, Continue, GoTo
<1>7. ASSUME NEW w \in Workers, Insert(w)
      PROVE  TypeOK'
      BY <1>7 DEF Insert, InsertUnder, Continue, GoTo
<1>8. ASSUME NEW w \in Workers, Watch(w)
      PROVE  TypeOK'
  <2>1. wfd[w] \in FDs
        BY <1>8 DEF Watch, WorkerHasFD
  <2>2. UNCHANGED <<conn, greeted, fdConn, shared, heap, tables, crashed>> /\ Return(w)
        BY <1>8 DEF Watch
  <2>3. CASE fdConn[wfd[w]] = None
    <3>1. UNCHANGED <<watched, ready>>
          BY <1>8, <2>3 DEF Watch
    <3> QED BY <2>2, <3>1 DEF Return, GoTo
  <2>4. CASE fdConn[wfd[w]] # None
    <3>1. watched' = watched \cup {wfd[w]} /\ ready' \in {ready, ready \cup {wfd[w]}}
          BY <1>8, <2>4 DEF Watch
    <3> QED BY <2>1, <2>2, <3>1 DEF Return, GoTo
  <2> QED BY <2>3, <2>4
(* A pool thread serves an event. *)
<1>9. ASSUME NEW w \in Workers, TakeEvent(w)
      PROVE  TypeOK'
      BY <1>9 DEF TakeEvent, GoTo
<1>10. ASSUME NEW w \in Workers, Find(w)
      PROVE  TypeOK'
  <2>1. UNCHANGED <<kernel, heap, tables, crashed>>
        BY <1>10 DEF Find
  <2>2. CASE Return(w)
        BY <2>1, <2>2 DEF Return, GoTo
  <2>3. ASSUME NEW o \in Objs, GoTo(w, "read"), user' = [user EXCEPT ![w] = o],
               UNCHANGED <<wfd, target, nap, pos, cursor>>
        PROVE  TypeOK'
        BY <2>1, <2>3 DEF GoTo
  <2>4. wfd[w] \in FDs
        BY <1>10 DEF Find, WorkerHasFD
  <2>5. Lookups(wfd[w]) \subseteq Objs \cup {None}
        BY <2>4, LookupType
  <2> QED BY <1>10, <2>2, <2>3, <2>5 DEF Find
<1>11. ASSUME NEW w \in Workers, Read(w)
      PROVE  TypeOK'
  <2> DEFINE c == fdConn[wfd[w]]
  <2>1. Return(w) \/ Continue(w, "handle") \/ Continue(w, "condemn")
        BY <1>11 DEF Read
  <2>2. UNCHANGED <<conn, fdConn, watched, ready, shared, heap, tables, crashed>>
        BY <1>11 DEF Read
  <2>3. wfd[w] \in FDs
        BY <1>11 DEF Read, WorkerHasFD
  <2>4. UNCHANGED greeted \/ (c # None /\ greeted' = greeted \cup {c})
        BY <1>11 DEF Read
  <2> c \in Conns \cup {None}
        BY <2>3
  <2>5. greeted' \subseteq Conns
        BY <2>4
  <2>6. CASE Return(w)
        BY <2>2, <2>5, <2>6 DEF Return, GoTo
  <2>7. CASE Continue(w, "handle")
        BY <2>2, <2>5, <2>7 DEF Continue, GoTo
  <2>8. CASE Continue(w, "condemn")
        BY <2>2, <2>5, <2>8 DEF Continue, GoTo
  <2> QED BY <2>1, <2>6, <2>7, <2>8
<1>12. ASSUME NEW w \in Workers, Handle(w)
      PROVE  TypeOK'
  <2>1. UNCHANGED <<kernel, heap, tables>> /\ crashed' \in BOOLEAN
        BY <1>12 DEF Handle, Use
  <2>2. CASE Return(w)
        BY <2>1, <2>2 DEF Return, GoTo
  <2>3. CASE Continue(w, "condemn")
        BY <2>1, <2>3 DEF Continue, GoTo
  <2> QED BY <1>12, <2>2, <2>3 DEF Handle
<1>13. ASSUME NEW w \in Workers, Condemn(w)
      PROVE  TypeOK'
  <2>1. UNCHANGED <<kernel, heap, tables, crashed>>
        BY <1>13 DEF Condemn
  <2>2. CASE Continue(w, "mark")
        BY <2>1, <2>2 DEF Continue, GoTo
  <2>3. ASSUME NEW o \in Objs, Choose(w, o, "close")
        PROVE  TypeOK'
        BY <2>1, <2>3 DEF Choose, GoTo
  <2>4. Lookups(wfd[w]) \subseteq Objs \cup {None}
    <3>1. wfd[w] \in FDs
          BY <1>13 DEF Condemn, WorkerHasFD
    <3> QED BY <3>1, LookupType
  <2> QED BY <1>13, <2>2, <2>3, <2>4 DEF Condemn
<1>14. ASSUME NEW w \in Workers, CloseFD(w)
      PROVE  TypeOK'
      BY <1>14 DEF CloseFD, CloseThen, Close, Continue, GoTo
<1>15. ASSUME NEW w \in Workers, Mark(w)
      PROVE  TypeOK'
      BY <1>15 DEF Mark, Use, Return, GoTo
<1>16. ASSUME NEW t \in Threads, LockDel(t)
      PROVE  TypeOK'
      BY <1>16 DEF LockDel, Continue, GoTo
<1>17. ASSUME NEW t \in Threads, Push(t)
      PROVE  TypeOK'
      BY <1>17 DEF Push, Choose, GoTo, TargetIsPicked, PushLabels
(* Any thread. *)
<1>18. ASSUME NEW t \in Threads, TraversalCrashes(t)
      PROVE  TypeOK'
      BY <1>18 DEF TraversalCrashes
(* The main thread: the sweep, then the heartbeat scan. *)
<1>19. CASE Tick
      BY <1>19 DEF Tick, GoTo
<1>20. CASE Size
      BY <1>20 DEF Size, Continue, GoTo
<1>21. CASE MainLockAll
      BY <1>21 DEF MainLockAll, GoTo
<1>22. CASE SweepEnds
      BY <1>22 DEF SweepEnds, GoTo
<1>23. CASE SweepTakes
  <2>1. Swept \in Objs /\ sfd[Swept] \in FDs /\ Filed \in Objs \cup {None}
         BY <1>23 DEF SweepTakes, SweepTakesThen, Swept, Filed, IteratorInList,
           SweepLabels, LiveHasFD
  <2>2. IfFiled \in MainLabels
        BY DEF IfFiled
  <2> QED BY <1>23, <2>1, <2>2 DEF SweepTakes, SweepTakesThen, GoTo
<1>24. CASE SweepSkips
      BY <1>24 DEF SweepSkips, Swept
<1>25. CASE SweepDropsDangling
      BY <1>25 DEF SweepDropsDangling, Swept, Continue, GoTo
<1>26. CASE SweepCrashes
      BY <1>26 DEF SweepCrashes
<1>27. CASE Free
      BY <1>27 DEF Free, FreeLeaving, UpdateLocks, Choose, GoTo
<1>28. CASE Unmap
      BY <1>28 DEF Unmap, UnmapKey, GoTo
<1>29. CASE LockErase
      BY <1>29 DEF LockErase, Continue, GoTo
<1>30. CASE Erase
  <2>1. pos \in 1 .. Len(del)
        BY <1>30 DEF Erase, EraseHolding, IteratorInList, ElementLabels, SweepLabels
  <2>2. RemoveAt(del, pos) \in Seq(Objs)
        BY <2>1, RemoveType
  <2> QED BY <1>30, <2>2 DEF Erase, EraseHolding, Continue, GoTo
<1>31. CASE Beat
      BY <1>31 DEF Beat, Continue, GoTo
<1>32. CASE ScanEnds
      BY <1>32 DEF ScanEnds, GoTo
<1>33. CASE ScanNext
      BY SMTT(20), <1>33 DEF ScanNext, KeysAhead, GoTo
<1>34. CASE BeatClose
      BY <1>34 DEF BeatClose, Close, Continue, GoTo
<1>35. CASE BeatCondemn
  <2>1. UNCHANGED <<kernel, heap, tables, crashed>>
        BY <1>35 DEF BeatCondemn
  <2>2. CASE Continue(Main, "beatCloseAgain")
        BY <2>1, <2>2 DEF Continue, GoTo
  <2>3. CASE Choose(Main, None, "scan")
        BY <2>1, <2>3 DEF Choose, GoTo
  <2> QED BY <1>35, <2>2, <2>3 DEF BeatCondemn
<1>36. CASE BeatCloseAgain
      BY <1>36 DEF BeatCloseAgain, Close, Continue, GoTo
(* The clients. *)
<1>37. ASSUME NEW c \in Conns, Connect(c)
      PROVE  TypeOK'
      BY <1>37 DEF Connect
<1>38. ASSUME NEW f \in FDs, Send(f)
      PROVE  TypeOK'
      BY <1>38 DEF Send
<1>39. ASSUME NEW f \in FDs, Hangup(f)
      PROVE  TypeOK'
      BY <1>39 DEF Hangup
<1>40. CASE UNCHANGED vars
      BY <1>40
<1> QED
   BY <1>1, <1>2, <1>3, <1>4, <1>5, <1>6, <1>7, <1>8, <1>9, <1>10, <1>11, <1>12, <1>13,
     <1>14, <1>15, <1>16, <1>17, <1>18, <1>19, <1>20, <1>21, <1>22, <1>23, <1>24, <1>25,
     <1>26, <1>27, <1>28, <1>29, <1>30, <1>31, <1>32, <1>33, <1>34, <1>35, <1>36, <1>37,
     <1>38, <1>39, <1>40 DEF Next, ClientStep, NewConnection, Message, Sweep, Heartbeat

-----------------------------------------------------------------------------
(* The invariant. *)

LEMMA InitEstablishes == Init => IInv
  BY ConstantsAssumption, InitTypes
     DEF Init, IInv, LiveHasFD, WorkerHasFD, FreshIsOwn, TargetIsPicked, IteratorInList,
         VictimIsFiled, LocksHeld, RegistryOwnership, Threads, Creating, PushLabels,
         SweepLabels, ElementLabels, WritingList

\* The heart of the argument: Create takes an address no entry of mapFDs holds,
\* Insert files it under its own descriptor, and between Free and Unmap the one
\* entry left dangling is the one under the cursor.
LEMMA StepPreserves == IInv /\ [Next]_vars => IInv'
<1> SUFFICES ASSUME IInv, [Next]_vars
             PROVE  IInv'
    OBVIOUS
<1> TypeOK'
    BY StepTypes
<1> USE ConstantsAssumption DEF At, IInv, TypeOK, Threads, LiveHasFD, WorkerHasFD, FreshIsOwn,
   TargetIsPicked, IteratorInList, VictimIsFiled, LocksHeld, RegistryOwnership, Creating,
   PushLabels, SweepLabels, ElementLabels, WorkerLabels, MainLabels, WritingList, vars,
   kernel, heap, tables, locals
(* A pool thread accepts and registers a connection. *)
<1>1. ASSUME NEW w \in Workers, Accept(w)
      PROVE  IInv'
      BY <1>1 DEF Accept, AcceptNapping, GoTo
<1>2. ASSUME NEW w \in Workers, ShakeFails(w)
      PROVE  IInv'
      BY <1>2 DEF ShakeFails, Return, GoTo
<1>3. ASSUME NEW w \in Workers, Shake(w)
      PROVE  IInv'
      BY <1>3 DEF Shake, Continue, GoTo
<1>4. ASSUME NEW w \in Workers, Create(w)
      PROVE  IInv'
      BY <1>4 DEF Create, GoTo
<1>5. ASSUME NEW w \in Workers, RegLock(w)
      PROVE  IInv'
      BY <1>5 DEF RegLock, UpdateLocks, Continue, GoTo
<1>6. ASSUME NEW w \in Workers, LockAll(w)
      PROVE  IInv'
      BY <1>6 DEF LockAll, Continue, GoTo
<1>7. ASSUME NEW w \in Workers, Insert(w)
      PROVE  IInv'
      BY <1>7 DEF Insert, InsertUnder, Continue, GoTo
<1>8. ASSUME NEW w \in Workers, Watch(w)
      PROVE  IInv'
      BY <1>8 DEF Watch, Return, GoTo
(* A pool thread serves an event. *)
<1>9. ASSUME NEW w \in Workers, TakeEvent(w)
      PROVE  IInv'
      BY <1>9 DEF TakeEvent, GoTo
<1>10. ASSUME NEW w \in Workers, Find(w)
      PROVE  IInv'
  <2>1. UNCHANGED <<kernel, heap, tables, crashed>>
        BY <1>10 DEF Find
  <2>2. CASE Return(w)
        BY <2>1, <2>2 DEF Return, GoTo
  <2>3. CASE GoTo(w, "read") /\ UNCHANGED <<wfd, target, nap, pos, cursor>>
    <3>1. pc[w] = "find" /\ \A v \in Workers \ {w} : user'[v] = user[v]
          BY <1>10, <2>3 DEF Find, Return
    <3> QED BY <2>1, <2>3, <3>1 DEF GoTo
  <2> QED BY <1>10, <2>2, <2>3 DEF Find
<1>11. ASSUME NEW w \in Workers, Read(w)
      PROVE  IInv'
  <2>1. Return(w) \/ Continue(w, "handle") \/ Continue(w, "condemn")
        BY <1>11 DEF Read
  <2>2. pc[w] = "read" /\ UNCHANGED <<conn, fdConn, watched, ready, shared, heap, tables, crashed>>
        BY <1>11 DEF Read
  <2>3. CASE Return(w)
        BY <2>2, <2>3 DEF Return, GoTo
  <2>4. CASE Continue(w, "handle")
        BY <2>2, <2>4 DEF Continue, GoTo
  <2>5. CASE Continue(w, "condemn")
        BY <2>2, <2>5 DEF Continue, GoTo
  <2> QED BY <2>1, <2>3, <2>4, <2>5
<1>12. ASSUME NEW w \in Workers, Handle(w)
      PROVE  IInv'
  <2>1. pc[w] = "handle" /\ UNCHANGED <<kernel, heap, tables>>
        BY <1>12 DEF Handle
  <2>2. CASE Return(w)
        BY <2>1, <2>2 DEF Return, GoTo
  <2>3. CASE Continue(w, "condemn")
        BY <2>1, <2>3 DEF Continue, GoTo
  <2> QED BY <1>12, <2>2, <2>3 DEF Handle
<1>13. ASSUME NEW w \in Workers, Condemn(w)
      PROVE  IInv'
  <2>1. pc[w] = "condemn" /\ UNCHANGED <<kernel, heap, tables, crashed>>
        BY <1>13 DEF Condemn
  <2>2. CASE Continue(w, "mark")
        BY <2>1, <2>2 DEF Continue, GoTo
  <2>3. ASSUME NEW o \in Objs, Choose(w, o, "close")
        PROVE  IInv'
        BY <2>1, <2>3 DEF Choose, GoTo
  <2> wfd[w] \in FDs
      BY <2>1
  <2>4. Lookups(wfd[w]) \subseteq Objs \cup {None}
        BY LookupType
  <2> QED BY <1>13, <2>2, <2>3, <2>4 DEF Condemn
<1>14. ASSUME NEW w \in Workers, CloseFD(w)
      PROVE  IInv'
      BY <1>14 DEF CloseFD, CloseThen, Close, Continue, GoTo
<1>15. ASSUME NEW w \in Workers, Mark(w)
      PROVE  IInv'
      BY <1>15 DEF Mark, Use, Return, GoTo
<1>16. ASSUME NEW t \in Threads, LockDel(t)
      PROVE  IInv'
      BY <1>16 DEF LockDel, Continue, GoTo
<1>17. ASSUME NEW t \in Threads, Push(t)
      PROVE  IInv'
      BY <1>17 DEF Push, Choose, GoTo
(* Any thread. *)
<1>18. ASSUME NEW t \in Threads, TraversalCrashes(t)
      PROVE  IInv'
      BY <1>18 DEF TraversalCrashes
(* The main thread: the sweep, then the heartbeat scan. *)
<1>19. CASE Tick
      BY <1>19 DEF Tick, GoTo
<1>20. CASE Size
      BY <1>20 DEF Size, Continue, GoTo
<1>21. CASE MainLockAll
      BY <1>21 DEF MainLockAll, GoTo
<1>22. CASE SweepEnds
      BY <1>22 DEF SweepEnds, GoTo
<1>23. CASE SweepTakes
      BY <1>23 DEF SweepTakes, SweepTakesThen, Filed, IfFiled, Swept, GoTo
<1>24. CASE SweepSkips
      BY <1>24 DEF SweepSkips, Swept
<1>25. CASE SweepDropsDangling
      BY <1>25 DEF SweepDropsDangling, Swept, Continue, GoTo
<1>26. CASE SweepCrashes
      BY <1>26 DEF SweepCrashes
<1>27. CASE Free
      BY <1>27 DEF Free, FreeLeaving, UpdateLocks, Choose, GoTo
<1>28. CASE Unmap
      BY <1>28 DEF Unmap, UnmapKey, GoTo
<1>29. CASE LockErase
      BY <1>29 DEF LockErase, Continue, GoTo
<1>30. CASE Erase
      BY <1>30 DEF Erase, EraseHolding, Continue, GoTo
<1>31. CASE Beat
      BY <1>31 DEF Beat, Continue, GoTo
<1>32. CASE ScanEnds
      BY <1>32 DEF ScanEnds, GoTo
<1>33. CASE ScanNext
      BY <1>33 DEF ScanNext, KeysAhead, GoTo
<1>34. CASE BeatClose
      BY <1>34 DEF BeatClose, Close, Continue, GoTo
<1>35. CASE BeatCondemn
  <2>1. pc[Main] = "beatCondemn" /\ UNCHANGED <<kernel, heap, tables, crashed>>
        BY <1>35 DEF BeatCondemn
  <2>2. CASE Continue(Main, "beatCloseAgain")
        BY <2>1, <2>2 DEF Continue, GoTo
  <2>3. CASE Choose(Main, None, "scan")
        BY <2>1, <2>3 DEF Choose, GoTo
  <2> QED BY <1>35, <2>2, <2>3 DEF BeatCondemn
<1>36. CASE BeatCloseAgain
      BY <1>36 DEF BeatCloseAgain, Close, Continue, GoTo
(* The clients. *)
<1>37. ASSUME NEW x \in Conns, Connect(x)
      PROVE  IInv'
      BY <1>37 DEF Connect
<1>38. ASSUME NEW x \in FDs, Send(x)
      PROVE  IInv'
      BY <1>38 DEF Send
<1>39. ASSUME NEW x \in FDs, Hangup(x)
      PROVE  IInv'
      BY <1>39 DEF Hangup
<1>40. CASE UNCHANGED vars
      BY <1>40
<1> QED
   BY <1>1, <1>2, <1>3, <1>4, <1>5, <1>6, <1>7, <1>8, <1>9, <1>10, <1>11, <1>12, <1>13,
     <1>14, <1>15, <1>16, <1>17, <1>18, <1>19, <1>20, <1>21, <1>22, <1>23, <1>24, <1>25,
     <1>26, <1>27, <1>28, <1>29, <1>30, <1>31, <1>32, <1>33, <1>34, <1>35, <1>36, <1>37,
     <1>38, <1>39, <1>40 DEF Next, ClientStep, NewConnection, Message, Sweep, Heartbeat

LEMMA InductiveInvariant == Spec => []IInv
<1> QED BY InitEstablishes, StepPreserves, PTL DEF Spec

-----------------------------------------------------------------------------
\* Types, for every value of the constants.
THEOREM TypeCorrect == Spec => []TypeOK
<1>1. IInv => TypeOK
      BY DEF IInv
<1> QED BY <1>1, InductiveInvariant, PTL

\* findSocketByFD and pushDeleteFDS never get a deleted session from mapFDs, or
\* one filed under another descriptor, outside the window delete/erase.
THEOREM Ownership == Spec => []RegistryOwnership
<1>1. IInv => RegistryOwnership
      BY DEF IInv
<1> QED BY <1>1, InductiveInvariant, PTL

\* clearDeleteFDs never deletes what is already deleted, whatever the delete
\* list holds.
THEOREM DeletesLive == Spec => []DeleteOnce
<1>1. IInv => DeleteOnce
      BY DEF IInv, VictimIsFiled, DeleteOnce
<1> QED BY <1>1, InductiveInvariant, PTL

\* Changes of mapFDs exclude each other, and so do changes of the delete list.
THEOREM Exclusion == Spec => []WritersExclude
<1>1. IInv => WritersExclude
  <2> SUFFICES ASSUME IInv, NEW t \in Threads, NEW u \in Threads, t # u
               PROVE  ~(WritingMap(t) /\ WritingMap(u)) /\ ~(WritingList(t) /\ WritingList(u))
      BY DEF WritersExclude
  <2>1. ~(WritingList(t) /\ WritingList(u))
        BY DEF IInv, LocksHeld
  <2>2. ASSUME NEW v \in Threads, WritingMap(v)
        PROVE  allLock = v
        BY <2>2, ConstantsAssumption
           DEF IInv, LocksHeld, WritingMap, TypeOK, Threads, WorkerLabels, MainLabels, SweepLabels
  <2> QED BY <2>1, <2>2
<1> QED BY <1>1, InductiveInvariant, PTL

-----------------------------------------------------------------------------
(* What a step leaves alone. *)

\* pushDeleteFDS(fd) leaves the lists alone or has found what mapFDs holds.
LEMMA CondemnChooses ==
  ASSUME TypeOK, WorkerHasFD, NEW w \in Workers, Condemn(w)
  PROVE  \/ Continue(w, "mark")
         \/ \E o \in Objs : o = mapFDs[wfd[w]] /\ Choose(w, o, "close")
  BY ConstantsAssumption DEF Condemn, Lookups, TypeOK, WorkerHasFD, At

\* A worker's step changes that worker's place and locals only.
LEMMA WorkerStep ==
  ASSUME TypeOK, WorkerHasFD, NEW w \in Workers, Accept(w) \/ NewConnection(w) \/ Message(w)
  PROVE  /\ Accept(w) \/ pc'[w] # "nap"
         /\ UNCHANGED <<pos, cursor>>
         /\ \A t \in Threads \ {w} : pc'[t] = pc[t] /\ target'[t] = target[t]
         /\ \A v \in Workers \ {w} : wfd'[v] = wfd[v] /\ user'[v] = user[v] /\ nap'[v] = nap[v]
<1> DEFINE Alone ==
      /\ Accept(w) \/ pc'[w] # "nap"
      /\ UNCHANGED <<pos, cursor>>
      /\ \A t \in Threads \ {w} : pc'[t] = pc[t] /\ target'[t] = target[t]
      /\ \A v \in Workers \ {w} : wfd'[v] = wfd[v] /\ user'[v] = user[v] /\ nap'[v] = nap[v]
<1> SUFFICES Alone
    OBVIOUS
<1> USE DEF TypeOK, Threads
<1>1. ASSUME NEW l \in WorkerLabels \ {"nap"}, Continue(w, l)
      PROVE  Alone
      BY <1>1 DEF Continue, GoTo, locals
<1>2. ASSUME NEW o \in Objs \cup {None}, NEW l \in WorkerLabels \ {"nap"}, Choose(w, o, l)
      PROVE  Alone
      BY <1>2 DEF Choose, GoTo
<1>3. CASE Return(w)
      BY <1>3 DEF Return, GoTo
<1>4. CASE Accept(w)
      BY <1>4 DEF Accept, AcceptNapping, GoTo
<1>5. CASE NewConnection(w)
  <2>1. CASE Create(w)
        BY <2>1 DEF Create, GoTo
  <2> HIDE DEF Alone, TypeOK
  <2> QED BY <1>1, <1>3, <1>5, <2>1 DEF NewConnection, ShakeFails, Shake, RegLock, LockAll,
        Insert, InsertUnder, Watch, WorkerLabels
<1>6. CASE Message(w)
  <2>1. CASE TakeEvent(w)
        BY <2>1 DEF TakeEvent, GoTo
  <2>2. CASE Find(w)
        BY <1>3, <2>2 DEF Find, GoTo
  <2>3. CASE Push(w)
        BY <2>3, ConstantsAssumption DEF Push, Choose, GoTo
  <2>4. CASE Condemn(w)
    <3> HIDE DEF Alone
    <3> QED BY <1>1, <1>2, <2>4, CondemnChooses DEF WorkerLabels
  <2> HIDE DEF Alone, TypeOK
  <2> QED BY <1>1, <1>3, <1>6, <2>1, <2>2, <2>3, <2>4 DEF Message, Read, Handle, CloseFD,
        CloseThen, LockDel, Mark, WorkerLabels
<1> QED BY <1>4, <1>5, <1>6

\* A step of main() leaves the workers where they are.
LEMMA MainStep ==
  ASSUME TypeOK, Tick \/ Sweep \/ Heartbeat
  PROVE  /\ UNCHANGED <<wfd, user>>
         /\ Tick \/ UNCHANGED nap
         /\ \A w \in Workers : pc'[w] = pc[w] /\ target'[w] = target[w]
<1> DEFINE Apart ==
      /\ UNCHANGED <<wfd, user>>
      /\ Tick \/ UNCHANGED nap
      /\ \A w \in Workers : pc'[w] = pc[w] /\ target'[w] = target[w]
<1> SUFFICES Apart
    OBVIOUS
<1> USE ConstantsAssumption DEF TypeOK
<1>1. ASSUME NEW l \in MainLabels, Continue(Main, l)
      PROVE  Apart
      BY <1>1 DEF Continue, GoTo, locals
<1>2. ASSUME NEW o \in Objs \cup {None}, NEW l \in MainLabels, Choose(Main, o, l)
      PROVE  Apart
      BY <1>2 DEF Choose, GoTo
<1>3. ASSUME NEW l \in MainLabels, GoTo(Main, l), UNCHANGED <<wfd, user, nap, target>>
      PROVE  Apart
      BY <1>3 DEF GoTo
<1>4. CASE Tick
      BY <1>4 DEF Tick, GoTo
<1>5. CASE Sweep
  <2>1. CASE SweepTakes
        BY <2>1 DEF SweepTakes, SweepTakesThen, GoTo
  <2>2. CASE SweepSkips \/ SweepCrashes
        BY <2>2 DEF SweepSkips, SweepCrashes, locals
  <2> HIDE DEF Apart, TypeOK
  <2> QED BY <1>1, <1>2, <1>3, <1>5, <2>1, <2>2 DEF Sweep, Size, MainLockAll, SweepEnds,
        SweepDropsDangling, Free, FreeLeaving, Unmap, UnmapKey, LockErase, Erase, EraseHolding,
        MainLabels
<1>6. CASE Heartbeat
  <2>1. CASE ScanNext
    <3>1. UNCHANGED <<wfd, user, nap>>
          BY <2>1 DEF ScanNext
    <3>2. \A w \in Workers : pc'[w] = pc[w] /\ target'[w] = target[w]
          BY <2>1 DEF ScanNext, GoTo, Threads
    <3> QED BY <3>1, <3>2
  <2> HIDE DEF Apart, TypeOK
  <2> QED BY <1>1, <1>2, <1>3, <1>6, <2>1 DEF Heartbeat, Beat, ScanEnds, BeatClose, BeatCondemn,
        BeatCloseAgain, LockDel, Push, MainLabels
<1> QED BY <1>4, <1>5, <1>6

\* The list changes with a push, or under the sweep's iterator.
LEMMA ListStep ==
  ASSUME [Next]_vars
  PROVE  UNCHANGED del \/ (\E t \in Threads : Push(t)) \/ Erase
  BY DEF Next, ClientStep, NewConnection, Message, Sweep, Heartbeat, vars, tables, Threads,
     Accept, AcceptNapping, ShakeFails, Shake, Create, RegLock, LockAll, Insert, InsertUnder, Watch,
     TakeEvent, Find, Read, Handle, Condemn, CloseFD, CloseThen, Mark, LockDel,
     TraversalCrashes, Tick, Size, MainLockAll, SweepEnds, SweepTakes, SweepTakesThen,
     SweepSkips, SweepDropsDangling, SweepCrashes, Free, FreeLeaving, Unmap, UnmapKey,
     LockErase, Beat, ScanEnds, ScanNext, BeatClose, BeatCondemn, BeatCloseAgain,
     Connect, Send, Hangup

\* Every other step is of the clients or of nobody, or the end of the process.
LEMMA OtherStep ==
  ASSUME [Next]_vars
  PROVE  \/ \E w \in Workers : Accept(w) \/ NewConnection(w) \/ Message(w)
         \/ Tick \/ Sweep \/ Heartbeat
         \/ UNCHANGED <<heap, tables, pc, locals>>
  BY DEF Next, ClientStep, Connect, Send, Hangup, TraversalCrashes, vars

-----------------------------------------------------------------------------
(* Refinement: ConnRegistry implements SessionTable. *)

\* The server starts with an empty table.
LEMMA InitRefines == Init => Table!Init
  BY ConstantsAssumption DEF Init, Table!Init, Settled, Threads

\* What counts of mapFDs changes with mapFDs, or as the sweep goes on.
LEMMA SettledKept ==
  ASSUME UNCHANGED mapFDs,
         \/ pc[Main] # "unmap" /\ pc'[Main] # "unmap"
         \/ pc'[Main] = pc[Main] /\ cursor' = cursor
  PROVE  Settled' = Settled
  BY DEF Settled

\* Create makes a session for the descriptor its worker has accepted.
LEMMA CreateRefines ==
  ASSUME IInv, NEW w \in Workers, Create(w)
  PROVE  \E o \in Objs, f \in FDs : Table!Make(o, f)
<1>1. PICK o \in Objs \ alloc :
         /\ alloc' = alloc \cup {o}
         /\ sfd' = [sfd EXCEPT ![o] = wfd[w]]
      BY DEF Create
<1>2. wfd[w] \in FDs
      BY DEF Create, At, IInv, WorkerHasFD
<1>3. Settled' = Settled
  <2>1. UNCHANGED <<mapFDs, cursor>> /\ pc'[Main] = pc[Main]
        BY WorkerStep, ConstantsAssumption DEF IInv, NewConnection, Create, tables, Threads
  <2> QED BY <2>1, SettledKept
<1> QED BY <1>1, <1>2, <1>3 DEF Table!Make

\* Insert enters the worker's own session, or leaves everything alone: while
\* the worker holds g_AllLocks, no entry is between its delete and its erase.
LEMMA InsertRefines ==
  ASSUME IInv, NEW w \in Workers, Insert(w)
  PROVE  (\E o \in Objs : Table!Register(o)) \/ UNCHANGED <<Settled, alloc, sfd>>
<1>1. /\ pc[w] = "insert"
      /\ mapFDs' = [mapFDs EXCEPT ![sfd[user[w]]] =
                      IF mapFDs[sfd[user[w]]] = None THEN user[w] ELSE mapFDs[sfd[user[w]]]]
      /\ UNCHANGED <<alloc, sfd>>
      BY DEF Insert, InsertUnder, At, heap
<1>2. user[w] \in alloc /\ user[w] \in Objs /\ sfd[user[w]] \in FDs
      BY <1>1 DEF IInv, TypeOK, FreshIsOwn, Creating, LiveHasFD
<1>3. pc[Main] # "unmap"
      BY <1>1, ConstantsAssumption DEF IInv, LocksHeld, SweepLabels
<1>4. pc'[Main] = pc[Main]
      BY WorkerStep, ConstantsAssumption DEF IInv, NewConnection, Threads
<1>5. Settled = mapFDs /\ Settled' = mapFDs'
      BY <1>1, <1>3, <1>4 DEF Settled, IInv, TypeOK
<1>6. CASE mapFDs[sfd[user[w]]] = None
  <2>1. Table!Register(user[w])
        BY <1>1, <1>2, <1>5, <1>6 DEF Table!Register
  <2> QED BY <1>2, <2>1
<1>7. CASE mapFDs[sfd[user[w]]] # None
  <2>1. mapFDs' = mapFDs
        BY <1>1, <1>2, <1>7 DEF IInv, TypeOK
  <2> QED BY <1>1, <1>5, <2>1
<1> QED BY <1>6, <1>7

\* Free deletes the session under the cursor and with it the entry that counts.
LEMMA FreeRefines ==
  ASSUME IInv, Free
  PROVE  \E f \in FDs : Table!Remove(f)
<1> DEFINE o == target[Main]
<1>1. /\ pc[Main] = "free" /\ pc'[Main] = "unmap"
      /\ alloc' = alloc \ {o}
      /\ sfd' = [sfd EXCEPT ![o] = 0]
      /\ UNCHANGED <<mapFDs, cursor>>
      BY DEF Free, FreeLeaving, At, Choose, GoTo, tables, IInv, TypeOK, Threads
<1>2. cursor \in FDs /\ o \in alloc /\ mapFDs[cursor] = o
      BY <1>1 DEF IInv, VictimIsFiled
<1>3. sfd[o] = cursor
      BY <1>1, <1>2, ConstantsAssumption DEF IInv, RegistryOwnership, TypeOK
<1>4. Settled = mapFDs
      BY <1>1 DEF Settled, IInv, TypeOK
<1>5. Settled' = [mapFDs EXCEPT ![cursor] = None]
      BY <1>1 DEF Settled, IInv, TypeOK
<1>6. Table!Remove(cursor)
      BY <1>1, <1>2, <1>3, <1>4, <1>5 DEF Table!Remove
<1> QED BY <1>2, <1>6

\* Unmap erases the entry that does not count any more.
LEMMA UnmapRefines ==
  ASSUME IInv, Unmap
  PROVE  UNCHANGED <<Settled, alloc, sfd>>
<1>1. /\ pc[Main] = "unmap" /\ pc'[Main] = "lockErase"
      /\ mapFDs' = [g \in FDs |-> IF g = cursor THEN None ELSE mapFDs[g]]
      /\ UNCHANGED <<alloc, sfd>>
      BY DEF Unmap, UnmapKey, At, GoTo, heap, IInv, TypeOK, Threads
<1>2. Settled' = Settled
      BY <1>1 DEF Settled
<1> QED BY <1>1, <1>2

\* Every step is a step of the abstract table, or leaves it alone.
LEMMA StepRefines ==
  IInv /\ [Next]_vars => [Table!Next]_<<Settled, alloc, sfd>>
<1> SUFFICES ASSUME IInv, [Next]_vars
             PROVE  Table!Next \/ UNCHANGED <<Settled, alloc, sfd>>
    OBVIOUS
<1>1. ASSUME NEW w \in Workers, Accept(w) \/ NewConnection(w) \/ Message(w)
      PROVE  Table!Next \/ UNCHANGED <<Settled, alloc, sfd>>
  <2>1. CASE Create(w)
        BY <2>1, CreateRefines DEF Table!Next
  <2>2. CASE Insert(w)
        BY <2>2, InsertRefines DEF Table!Next
  <2>3. CASE ~Create(w) /\ ~Insert(w)
    <3>1. UNCHANGED <<mapFDs, alloc, sfd>>
          BY <1>1, <2>3 DEF Accept, AcceptNapping, NewConnection, Message, ShakeFails, Shake,
             RegLock, LockAll, Watch, TakeEvent, Find, Read, Handle, Condemn, CloseFD, CloseThen,
             LockDel, Push, Mark, heap, tables
    <3>2. UNCHANGED cursor /\ pc'[Main] = pc[Main]
          BY <1>1, WorkerStep, ConstantsAssumption DEF IInv, Threads
    <3> QED BY <3>1, <3>2, SettledKept
  <2> QED BY <2>1, <2>2, <2>3
<1>2. CASE Tick \/ Sweep \/ Heartbeat
  <2>1. CASE Free
        BY <2>1, FreeRefines DEF Table!Next
  <2>2. CASE Unmap
        BY <2>2, UnmapRefines
  <2>3. CASE ~Free /\ ~Unmap
    <3>1. UNCHANGED <<mapFDs, alloc, sfd>>
          BY <1>2, <2>3 DEF Tick, Sweep, Heartbeat, Size, MainLockAll, SweepEnds, SweepTakes,
             SweepTakesThen, SweepSkips, SweepDropsDangling, SweepCrashes, LockErase, Erase,
             EraseHolding, Beat, ScanEnds, ScanNext, BeatClose, BeatCondemn, BeatCloseAgain,
             LockDel, Push, heap, tables
    <3>2. \/ pc[Main] # "unmap" /\ pc'[Main] # "unmap"
          \/ UNCHANGED <<pc, cursor>>
          BY <1>2, <2>3 DEF Tick, Sweep, Heartbeat, Size, MainLockAll, SweepEnds, SweepTakes,
             SweepTakesThen, IfFiled, SweepSkips, SweepDropsDangling, SweepCrashes, LockErase,
             Erase, EraseHolding, Beat, ScanEnds, ScanNext, BeatClose, BeatCondemn,
             BeatCloseAgain, LockDel, Push, At, Choose, Continue, GoTo, locals, IInv, TypeOK,
             Threads
    <3> QED BY <3>1, <3>2, SettledKept
  <2> QED BY <2>1, <2>2, <2>3
<1>3. CASE UNCHANGED <<heap, tables, pc, locals>>
  <2>1. UNCHANGED <<mapFDs, alloc, sfd, pc, cursor>>
        BY <1>3 DEF heap, tables, locals
  <2> QED BY <2>1, SettledKept
<1> QED BY <1>1, <1>2, <1>3, OtherStep

\* The registry implements the abstract table of sessions, for any numbers of
\* threads, connections, descriptors and addresses and whatever the schedule,
\* the lost updates and the reuse of memory: insert, delete and erase, two of
\* them apart, appear as entering and removing one session at a time.
THEOREM Refinement == Spec => ImplementsSessionTable
<1> QED BY InitRefines, StepRefines, InductiveInvariant, PTL DEF Spec, ImplementsSessionTable,
        Table!Spec
=============================================================================
