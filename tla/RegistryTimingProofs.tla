------------------------- MODULE RegistryTimingProofs -------------------------
(***************************************************************************)
(* What time gives the registry of connections, on top of what holds for   *)
(* every schedule (ConnRegistryProofs).  Nothing in the code keeps a       *)
(* descriptor number from being accepted again while its old session is    *)
(* still in mapFDs; only the sleep of setnewconnect outlasts the period of *)
(* the sweep.  The proof has three parts:                                  *)
(*   - Naming: a session that a condemnation names is registered or dead;  *)
(*   - Sweeping: hence the sweep deletes the very session on the list;     *)
(*   - Timing: an old session under a number that a worker sleeps on is on *)
(*     the list, and the sweep gets to it before the sleep is over.        *)
(* The first two need only that the allocator does not hand out an address *)
(* that is still named; the third one also needs every thread to do its    *)
(* work within a tick, no lost update of mapLocks, and two ticks of sleep. *)
(***************************************************************************)
EXTENDS ConnRegistryProofs

\* The labels at which the heartbeat scan condemns the session under its cursor.
BeatLabels == {"beatClose", "beatCondemn", "beatCloseAgain"}

-----------------------------------------------------------------------------
(* Naming. *)

\* ~NUSocket leaves no descriptor behind.
DeadHasNoFD == \A o \in Objs \ alloc : sfd[o] = 0

\* A session under construction has the descriptor its worker accepted.
UserHasFD == \A w \in Workers : pc[w] \in Creating => sfd[user[w]] = wfd[w]

\* The heartbeat condemns the live session that mapFDs has under its cursor.
BeatIsFiled ==
  pc[Main] \in BeatLabels =>
    /\ cursor \in FDs
    /\ target[Main] \in alloc
    /\ mapFDs[cursor] = target[Main]
    /\ sfd[target[Main]] = cursor

\* The entry that clearDeleteFDs is about to erase is of a dead session.
DanglingIsDead == pc[Main] = "unmap" => mapFDs[cursor] \notin alloc

\* Nothing names a session under construction.
FreshIsUnnamed == \A w \in Workers : pc[w] \in Creating => ~Named(user[w])

\* A live session that is named is registered, under its own descriptor.
NamedIsFiled == \A o \in alloc : Named(o) => mapFDs[sfd[o]] = o

Naming ==
  /\ DeadHasNoFD
  /\ UserHasFD
  /\ BeatIsFiled
  /\ DanglingIsDead
  /\ FreshIsUnnamed
  /\ NamedIsFiled

\* Push adds one name to the list, and Erase takes one occurrence away.
LEMMA AppendNames ==
  ASSUME NEW S, NEW s \in Seq(S), NEW x \in S
  PROVE  /\ ToSet(Append(s, x)) = ToSet(s) \cup {x}
         /\ Len(Append(s, x)) = Len(s) + 1
         /\ \A i \in 1 .. Len(s) : Append(s, x)[i] = s[i]
<1> DEFINE r == Append(s, x)
<1>1. /\ r \in Seq(S) /\ Len(r) = Len(s) + 1 /\ r[Len(s) + 1] = x
      /\ \A i \in 1 .. Len(s) : r[i] = s[i]
      OBVIOUS
<1>2. DOMAIN r = 1 .. Len(s) + 1 /\ DOMAIN s = 1 .. Len(s) /\ Len(s) \in Nat
      BY <1>1
<1> HIDE DEF r
<1>3. ToSet(r) \subseteq ToSet(s) \cup {x}
      BY <1>1, <1>2 DEF ToSet
<1>4. ToSet(s) \cup {x} \subseteq ToSet(r)
      BY <1>1, <1>2 DEF ToSet
<1> QED BY <1>1, <1>3, <1>4 DEF r

LEMMA RemoveNames ==
  ASSUME NEW S, NEW s \in Seq(S), NEW i \in 1 .. Len(s)
  PROVE  /\ ToSet(RemoveAt(s, i)) \subseteq ToSet(s)
         /\ ToSet(s) \subseteq ToSet(RemoveAt(s, i)) \cup {s[i]}
         /\ Len(RemoveAt(s, i)) = Len(s) - 1
         /\ \A j \in i + 1 .. Len(s) : RemoveAt(s, i)[j - 1] = s[j]
<1> DEFINE r == RemoveAt(s, i)
           p == SubSeq(s, 1, i - 1)
           q == SubSeq(s, i + 1, Len(s))
<1>1. /\ p \in Seq(S) /\ Len(p) = i - 1 /\ \A j \in 1 .. i - 1 : p[j] = s[j]
      /\ q \in Seq(S) /\ Len(q) = Len(s) - i /\ \A j \in 1 .. Len(s) - i : q[j] = s[i + j]
      OBVIOUS
<1>2. r = p \o q
      BY DEF RemoveAt
<1> HIDE DEF p, q, r
<1>3. /\ r \in Seq(S) /\ Len(r) = Len(s) - 1
      /\ \A j \in 1 .. i - 1 : r[j] = s[j]
      /\ \A j \in i .. Len(s) - 1 : r[j] = s[j + 1]
  <2>1. r \in Seq(S) /\ Len(r) = Len(s) - 1 /\ \A j \in 1 .. i - 1 : r[j] = s[j]
        BY <1>1, <1>2
  <2>2. ASSUME NEW j \in i .. Len(s) - 1
        PROVE  r[j] = s[j + 1]
    <3>1. r[j] = q[j - (i - 1)]
          BY <1>1, <1>2
    <3>2. j - (i - 1) \in 1 .. Len(s) - i /\ i + (j - (i - 1)) = j + 1
          OBVIOUS
    <3> QED BY <1>1, <3>1, <3>2
  <2> QED BY <2>1, <2>2
<1>4. DOMAIN r = 1 .. Len(s) - 1 /\ DOMAIN s = 1 .. Len(s) /\ Len(s) \in Nat
      BY <1>3
<1>5. ToSet(r) \subseteq ToSet(s)
  <2> SUFFICES ASSUME NEW j \in 1 .. Len(s) - 1
               PROVE  \E k \in 1 .. Len(s) : r[j] = s[k]
      BY <1>4 DEF ToSet
  <2> QED BY <1>3
<1>6. ToSet(s) \subseteq ToSet(r) \cup {s[i]}
  <2> SUFFICES ASSUME NEW k \in 1 .. Len(s), k # i
               PROVE  \E j \in 1 .. Len(s) - 1 : r[j] = s[k]
      BY <1>4 DEF ToSet
  <2>1. CASE k < i
        BY <1>3, <2>1
  <2>2. CASE k > i
    <3>1. k - 1 \in i .. Len(s) - 1 /\ r[k - 1] = s[k]
          BY <1>3, <2>2
    <3> QED BY <3>1
  <2> QED BY <2>1, <2>2
<1>7. \A j \in i + 1 .. Len(s) : r[j - 1] = s[j]
      BY <1>3
<1> QED BY <1>3, <1>5, <1>6, <1>7 DEF r

LEMMA InitNaming == Init => Naming
  BY ConstantsAssumption
     DEF Init, Naming, DeadHasNoFD, UserHasFD, BeatIsFiled, DanglingIsDead, FreshIsUnnamed,
         NamedIsFiled, Threads, Creating, BeatLabels

\* Create takes an unnamed address; whatever a thread then starts to condemn it
\* has found in mapFDs, where Insert put it under its own descriptor.
LEMMA StepNaming ==
  ASSUME ~HeapReuse
  PROVE  IInv /\ Naming /\ [Next]_vars => Naming'
<1> SUFFICES ASSUME IInv, Naming, [Next]_vars
             PROVE  Naming'
    OBVIOUS
<1> TypeOK
    BY DEF IInv
<1> USE ConstantsAssumption DEF At, IInv, TypeOK, Threads, LiveHasFD, WorkerHasFD, FreshIsOwn,
   TargetIsPicked, IteratorInList, VictimIsFiled, LocksHeld, RegistryOwnership, Creating,
   PushLabels, SweepLabels, ElementLabels, BeatLabels, WorkerLabels, MainLabels, vars, kernel,
   heap, tables, locals, Naming, DeadHasNoFD, UserHasFD, BeatIsFiled, DanglingIsDead,
   FreshIsUnnamed, NamedIsFiled, Named
(* A pool thread accepts and registers a connection. *)
<1>1. ASSUME NEW w \in Workers, Accept(w)
      PROVE  Naming'
      BY <1>1 DEF Accept, AcceptNapping, GoTo
<1>2. ASSUME NEW w \in Workers, ShakeFails(w)
      PROVE  Naming'
      BY <1>2 DEF ShakeFails, Return, GoTo
<1>3. ASSUME NEW w \in Workers, Shake(w)
      PROVE  Naming'
      BY <1>3 DEF Shake, Continue, GoTo
<1>4. ASSUME NEW w \in Workers, Create(w)
      PROVE  Naming'
      BY <1>4 DEF Create, GoTo
<1>5. ASSUME NEW w \in Workers, RegLock(w)
      PROVE  Naming'
      BY <1>5 DEF RegLock, UpdateLocks, Continue, GoTo
<1>6. ASSUME NEW w \in Workers, LockAll(w)
      PROVE  Naming'
      BY <1>6 DEF LockAll, Continue, GoTo
<1>7. ASSUME NEW w \in Workers, Insert(w)
      PROVE  Naming'
      BY <1>7 DEF Insert, InsertUnder, Continue, GoTo
<1>8. ASSUME NEW w \in Workers, Watch(w)
      PROVE  Naming'
      BY <1>8 DEF Watch, Return, GoTo
(* A pool thread serves an event. *)
<1>9. ASSUME NEW w \in Workers, TakeEvent(w)
      PROVE  Naming'
      BY <1>9 DEF TakeEvent, GoTo
<1>10. ASSUME NEW w \in Workers, Find(w)
      PROVE  Naming'
  <2>1. UNCHANGED <<kernel, heap, tables, crashed>>
        BY <1>10 DEF Find
  <2>2. CASE Return(w)
        BY <2>1, <2>2 DEF Return, GoTo
  <2>3. CASE GoTo(w, "read") /\ UNCHANGED <<wfd, target, nap, pos, cursor>>
    <3>1. pc[w] = "find" /\ \A v \in Workers \ {w} : user'[v] = user[v]
          BY <1>10, <2>3 DEF Find, Return
    <3> QED BY <2>1, <2>3, <3>1 DEF GoTo
  <2> QED BY <1>10, <2>2, <2>3 DEF Find
<1>11. ASSUME NEW w \in Workers, Read(w)
      PROVE  Naming'
  <2>1. Return(w) \/ Continue(w, "handle") \/ Continue(w, "condemn")
        BY <1>11 DEF Read
  <2>2. pc[w] = "read" /\ UNCHANGED <<conn, fdConn, watched, ready, shared, heap, tables, crashed>>
        BY <1>11 DEF Read
  <2>3. CASE Return(w)
        BY <2>2, <2>3 DEF Return, GoTo
  <2>4. CASE Continue(w, "handle")
        BY <2>2, <2>4 DEF Continue, GoTo
  <2>5. CASE Continue(w, "condemn")
        BY <2>2, <2>5 DEF Continue, GoTo
  <2> QED BY <2>1, <2>3, <2>4, <2>5
<1>12. ASSUME NEW w \in Workers, Handle(w)
      PROVE  Naming'
  <2>1. pc[w] = "handle" /\ UNCHANGED <<kernel, heap, tables>>
        BY <1>12 DEF Handle
  <2>2. CASE Return(w)
        BY <2>1, <2>2 DEF Return, GoTo
  <2>3. CASE Continue(w, "condemn")
        BY <2>1, <2>3 DEF Continue, GoTo
  <2> QED BY <1>12, <2>2, <2>3 DEF Handle
<1>13. ASSUME NEW w \in Workers, Condemn(w)
      PROVE  Naming'
  <2>1. pc[w] = "condemn" /\ UNCHANGED <<kernel, heap, tables, crashed>>
        BY <1>13 DEF Condemn
  <2>2. CASE Continue(w, "mark")
        BY <2>1, <2>2 DEF Continue, GoTo
  <2>3. ASSUME NEW o \in Objs, o = mapFDs[wfd[w]], Choose(w, o, "close")
        PROVE  Naming'
    <3>1. \A p \in Objs : Named(p)' => Named(p)
          BY <2>1, <2>3 DEF Choose
    <3> HIDE DEF Named
    <3> QED BY <2>1, <2>3, <3>1 DEF Choose, GoTo
  <2> QED BY <1>13, <2>2, <2>3, CondemnChooses
<1>14. ASSUME NEW w \in Workers, CloseFD(w)
      PROVE  Naming'
      BY <1>14 DEF CloseFD, CloseThen, Close, Continue, GoTo
<1>15. ASSUME NEW w \in Workers, Mark(w)
      PROVE  Naming'
      BY <1>15 DEF Mark, Return, GoTo
<1>16. ASSUME NEW t \in Threads, LockDel(t)
      PROVE  Naming'
      BY <1>16 DEF LockDel, Continue, GoTo
<1>17. ASSUME NEW t \in Threads, Push(t)
      PROVE  Naming'
  <2>1. target[t] \in Objs /\ ToSet(Append(del, target[t])) = ToSet(del) \cup {target[t]}
        BY <1>17, AppendNames DEF Push
  <2> QED BY <1>17, <2>1 DEF Push, Choose, GoTo
(* Any thread. *)
<1>18. ASSUME NEW t \in Threads, TraversalCrashes(t)
      PROVE  Naming'
      BY <1>18 DEF TraversalCrashes
(* The main thread: the sweep, then the heartbeat scan. *)
<1>19. CASE Tick
      BY <1>19 DEF Tick, GoTo
<1>20. CASE Size
      BY <1>20 DEF Size, Continue, GoTo
<1>21. CASE MainLockAll
      BY <1>21 DEF MainLockAll, GoTo
<1>22. CASE SweepEnds
      BY <1>22 DEF SweepEnds, GoTo
<1>23. CASE SweepTakes
      BY <1>23 DEF SweepTakes, SweepTakesThen, Filed, IfFiled, Swept, GoTo
<1>24. CASE SweepSkips
      BY <1>24 DEF SweepSkips, Swept
<1>25. CASE SweepDropsDangling
      BY <1>25 DEF SweepDropsDangling, Swept, Continue, GoTo
<1>26. CASE SweepCrashes
      BY <1>26 DEF SweepCrashes
<1>27. CASE Free
      BY <1>27 DEF Free, FreeLeaving, UpdateLocks, Choose, GoTo
<1>28. CASE Unmap
      BY <1>28 DEF Unmap, UnmapKey, GoTo
<1>29. CASE LockErase
      BY <1>29 DEF LockErase, Continue, GoTo
<1>30. CASE Erase
  <2>1. ToSet(RemoveAt(del, pos)) \subseteq ToSet(del)
        BY <1>30, RemoveNames DEF Erase, EraseHolding
  <2> QED BY <1>30, <2>1 DEF Erase, EraseHolding, Continue, GoTo
<1>31. CASE Beat
      BY <1>31 DEF Beat, Continue, GoTo
<1>32. CASE ScanEnds
      BY <1>32 DEF ScanEnds, GoTo
<1>33. CASE ScanNext
      BY <1>33 DEF ScanNext, KeysAhead, GoTo
<1>34. CASE BeatClose
      BY <1>34 DEF BeatClose, Close, Continue, GoTo
<1>35. CASE BeatCondemn
  <2>1. pc[Main] = "beatCondemn" /\ UNCHANGED <<kernel, heap, tables, crashed>>
        BY <1>35 DEF BeatCondemn
  <2>2. CASE Continue(Main, "beatCloseAgain")
        BY <2>1, <2>2 DEF Continue, GoTo
  <2>3. CASE Choose(Main, None, "scan")
        BY <2>1, <2>3 DEF Choose, GoTo
  <2> QED BY <1>35, <2>2, <2>3 DEF BeatCondemn
<1>36. CASE BeatCloseAgain
      BY <1>36 DEF BeatCloseAgain, Close, Continue, GoTo
(* The clients. *)
<1>37. ASSUME NEW x \in Conns, Connect(x)
      PROVE  Naming'
      BY <1>37 DEF Connect
<1>38. ASSUME NEW x \in FDs, Send(x)
      PROVE  Naming'
      BY <1>38 DEF Send
<1>39. ASSUME NEW x \in FDs, Hangup(x)
      PROVE  Naming'
      BY <1>39 DEF Hangup
<1>40. CASE UNCHANGED vars
      BY <1>40
<1> QED
   BY <1>1, <1>2, <1>3, <1>4, <1>5, <1>6, <1>7, <1>8, <1>9, <1>10, <1>11, <1>12,
     <1>13, <1>14, <1>15, <1>16, <1>17, <1>18, <1>19, <1>20, <1>21, <1>22, <1>23,
     <1>24, <1>25, <1>26, <1>27, <1>28, <1>29, <1>30, <1>31, <1>32, <1>33, <1>34,
     <1>35, <1>36, <1>37, <1>38, <1>39, <1>40 DEF Next, ClientStep, NewConnection, Message, Sweep, Heartbeat

-----------------------------------------------------------------------------
(* Sweeping. *)

\* What the sweep deletes and unregisters is the session under its iterator.
VictimIsListed == pc[Main] \in {"free", "unmap"} => del[pos] = mapFDs[cursor]

\* What the sweep takes off the list is in mapFDs no more.
ErasedIsGone ==
  pc[Main] \in ElementLabels =>
    \A f \in FDs : mapFDs[f] = del[pos] => pc[Main] \in {"free", "unmap"} /\ cursor = f

\* The sweep holds the locks of a live session only while it is deleting it.
HeldIsVictim ==
  \A o \in alloc : ulock[o] = "held" => pc[Main] = "free" /\ target[Main] = o

Sweeping ==
  /\ VictimIsListed
  /\ ErasedIsGone
  /\ HeldIsVictim

LEMMA InitSweeping == Init => Sweeping
  BY ConstantsAssumption
     DEF Init, Sweeping, VictimIsListed, ErasedIsGone, HeldIsVictim, ElementLabels, SweepLabels,
         Threads

\* The session under the iterator, if it lives, is what mapFDs has under its
\* descriptor: the list names it.
LEMMA SweptIsFiled ==
  ASSUME IInv, Naming, pc[Main] = "sweep", pos <= Len(del)
  PROVE  /\ Swept \in Objs /\ Named(Swept)
         /\ Swept \in alloc => Filed = Swept /\ sfd[Swept] \in FDs
<1>1. pos \in 1 .. Len(del) /\ del \in Seq(Objs)
      BY DEF IInv, TypeOK, IteratorInList, SweepLabels
<1>2. Swept \in ToSet(del)
      BY <1>1 DEF Swept, ToSet
<1>3. Swept \in Objs /\ Named(Swept)
      BY <1>1, <1>2 DEF Swept, Named
<1> QED BY <1>3 DEF Naming, NamedIsFiled, Filed, IInv, LiveHasFD

LEMMA StepSweeping == IInv /\ Naming /\ Sweeping /\ [Next]_vars => Sweeping'
<1> SUFFICES ASSUME IInv, Naming, Sweeping, [Next]_vars
             PROVE  Sweeping'
    OBVIOUS
<1> USE ConstantsAssumption DEF At, IInv, TypeOK, Threads, LiveHasFD,
   IteratorInList, VictimIsFiled, LocksHeld, RegistryOwnership,
   SweepLabels, ElementLabels, MainLabels, WorkerLabels, vars, kernel,
   heap, tables, locals, Sweeping, VictimIsListed, ErasedIsGone, HeldIsVictim
(* A pool thread accepts and registers a connection. *)
<1>1. ASSUME NEW w \in Workers, Accept(w)
      PROVE  Sweeping'
      BY <1>1 DEF Accept, AcceptNapping, GoTo
<1>2. ASSUME NEW w \in Workers, ShakeFails(w)
      PROVE  Sweeping'
      BY <1>2 DEF ShakeFails, Return, GoTo
<1>3. ASSUME NEW w \in Workers, Shake(w)
      PROVE  Sweeping'
      BY <1>3 DEF Shake, Continue, GoTo
<1>4. ASSUME NEW w \in Workers, Create(w)
      PROVE  Sweeping'
      BY <1>4 DEF Create, GoTo
<1>5. ASSUME NEW w \in Workers, RegLock(w)
      PROVE  Sweeping'
      BY <1>5 DEF RegLock, UpdateLocks, Continue, GoTo
<1>6. ASSUME NEW w \in Workers, LockAll(w)
      PROVE  Sweeping'
      BY <1>6 DEF LockAll, Continue, GoTo
<1>7. ASSUME NEW w \in Workers, Insert(w)
      PROVE  Sweeping'
      BY <1>7 DEF Insert, InsertUnder, Continue, GoTo
<1>8. ASSUME NEW w \in Workers, Watch(w)
      PROVE  Sweeping'
      BY <1>8 DEF Watch, Return, GoTo
(* A pool thread serves an event. *)
<1>9. ASSUME NEW w \in Workers, TakeEvent(w)
      PROVE  Sweeping'
      BY <1>9 DEF TakeEvent, GoTo
<1>10. ASSUME NEW w \in Workers, Find(w)
      PROVE  Sweeping'
  <2>1. UNCHANGED <<kernel, heap, tables, crashed>>
        BY <1>10 DEF Find
  <2>2. CASE Return(w)
        BY <2>1, <2>2 DEF Return, GoTo
  <2>3. CASE GoTo(w, "read") /\ UNCHANGED <<wfd, target, nap, pos, cursor>>
    <3>1. pc[w] = "find" /\ \A v \in Workers \ {w} : user'[v] = user[v]
          BY <1>10, <2>3 DEF Find, Return
    <3> QED BY <2>1, <2>3, <3>1 DEF GoTo
  <2> QED BY <1>10, <2>2, <2>3 DEF Find
<1>11. ASSUME NEW w \in Workers, Read(w)
      PROVE  Sweeping'
  <2>1. Return(w) \/ Continue(w, "handle") \/ Continue(w, "condemn")
        BY <1>11 DEF Read
  <2>2. pc[w] = "read" /\ UNCHANGED <<conn, fdConn, watched, ready, shared, heap, tables, crashed>>
        BY <1>11 DEF Read
  <2>3. CASE Return(w)
        BY <2>2, <2>3 DEF Return, GoTo
  <2>4. CASE Continue(w, "handle")
        BY <2>2, <2>4 DEF Continue, GoTo
  <2>5. CASE Continue(w, "condemn")
        BY <2>2, <2>5 DEF Continue, GoTo
  <2> QED BY <2>1, <2>3, <2>4, <2>5
<1>12. ASSUME NEW w \in Workers, Handle(w)
      PROVE  Sweeping'
  <2>1. pc[w] = "handle" /\ UNCHANGED <<kernel, heap, tables>>
        BY <1>12 DEF Handle
  <2>2. CASE Return(w)
        BY <2>1, <2>2 DEF Return, GoTo
  <2>3. CASE Continue(w, "condemn")
        BY <2>1, <2>3 DEF Continue, GoTo
  <2> QED BY <1>12, <2>2, <2>3 DEF Handle
<1>13. ASSUME NEW w \in Workers, Condemn(w)
      PROVE  Sweeping'
  <2>1. pc[w] = "condemn" /\ UNCHANGED <<kernel, heap, tables, crashed>>
        BY <1>13 DEF Condemn
  <2>2. CASE Continue(w, "mark")
        BY <2>1, <2>2 DEF Continue, GoTo
  <2>3. ASSUME NEW o \in Objs, Choose(w, o, "close")
        PROVE  Sweeping'
        BY <2>1, <2>3 DEF Choose, GoTo
  <2> QED BY <1>13, <2>2, <2>3, CondemnChooses
<1>14. ASSUME NEW w \in Workers, CloseFD(w)
      PROVE  Sweeping'
      BY <1>14 DEF CloseFD, CloseThen, Close, Continue, GoTo
<1>15. ASSUME NEW w \in Workers, Mark(w)
      PROVE  Sweeping'
      BY <1>15 DEF Mark, Return, GoTo
<1>16. ASSUME NEW t \in Threads, LockDel(t)
      PROVE  Sweeping'
      BY <1>16 DEF LockDel, Continue, GoTo
<1>17. ASSUME NEW t \in Threads, Push(t)
      PROVE  Sweeping'
  <2>1. \A i \in 1 .. Len(del) : i \in 1 .. Len(del') /\ del'[i] = del[i]
        BY <1>17, AppendNames DEF Push, TargetIsPicked, PushLabels
  <2> QED BY <1>17, <2>1 DEF Push, Choose, GoTo
(* Any thread. *)
<1>18. ASSUME NEW t \in Threads, TraversalCrashes(t)
      PROVE  Sweeping'
      BY <1>18 DEF TraversalCrashes
(* The main thread: the sweep, then the heartbeat scan. *)
<1>19. CASE Tick
      BY <1>19 DEF Tick, GoTo
<1>20. CASE Size
      BY <1>20 DEF Size, Continue, GoTo
<1>21. CASE MainLockAll
      BY <1>21 DEF MainLockAll, GoTo
<1>22. CASE SweepEnds
      BY <1>22 DEF SweepEnds, GoTo
<1>23. CASE SweepTakes
  <2>1. Swept \in alloc /\ Filed = Swept /\ IfFiled = "free"
        BY <1>23, SweptIsFiled DEF SweepTakes, SweepTakesThen, IfFiled
  <2> QED BY <1>23, <2>1 DEF SweepTakes, SweepTakesThen, Filed, Swept, GoTo
<1>24. CASE SweepSkips
      BY <1>24 DEF SweepSkips, Swept
<1>25. CASE SweepDropsDangling
      BY <1>25 DEF SweepDropsDangling, Swept, Continue, GoTo
<1>26. CASE SweepCrashes
      BY <1>26 DEF SweepCrashes
<1>27. CASE Free
      BY <1>27 DEF Free, FreeLeaving, UpdateLocks, Choose, GoTo
<1>28. CASE Unmap
      BY <1>28 DEF Unmap, UnmapKey, GoTo
<1>29. CASE LockErase
      BY <1>29 DEF LockErase, Continue, GoTo
<1>30. CASE Erase
      BY <1>30 DEF Erase, EraseHolding, Continue, GoTo
<1>31. CASE Beat
      BY <1>31 DEF Beat, Continue, GoTo
<1>32. CASE ScanEnds
      BY <1>32 DEF ScanEnds, GoTo
<1>33. CASE ScanNext
      BY <1>33 DEF ScanNext, KeysAhead, GoTo
<1>34. CASE BeatClose
      BY <1>34 DEF BeatClose, Close, Continue, GoTo
<1>35. CASE BeatCondemn
  <2>1. pc[Main] = "beatCondemn" /\ UNCHANGED <<kernel, heap, tables, crashed>>
        BY <1>35 DEF BeatCondemn
  <2>2. CASE Continue(Main, "beatCloseAgain")
        BY <2>1, <2>2 DEF Continue, GoTo
  <2>3. CASE Choose(Main, None, "scan")
        BY <2>1, <2>3 DEF Choose, GoTo
  <2> QED BY <1>35, <2>2, <2>3 DEF BeatCondemn
<1>36. CASE BeatCloseAgain
      BY <1>36 DEF BeatCloseAgain, Close, Continue, GoTo
(* The clients. *)
<1>37. ASSUME NEW x \in Conns, Connect(x)
      PROVE  Sweeping'
      BY <1>37 DEF Connect
<1>38. ASSUME NEW x \in FDs, Send(x)
      PROVE  Sweeping'
      BY <1>38 DEF Send
<1>39. ASSUME NEW x \in FDs, Hangup(x)
      PROVE  Sweeping'
      BY <1>39 DEF Hangup
<1>40. CASE UNCHANGED vars
      BY <1>40
<1> QED
   BY <1>1, <1>2, <1>3, <1>4, <1>5, <1>6, <1>7, <1>8, <1>9, <1>10, <1>11, <1>12,
     <1>13, <1>14, <1>15, <1>16, <1>17, <1>18, <1>19, <1>20, <1>21, <1>22, <1>23,
     <1>24, <1>25, <1>26, <1>27, <1>28, <1>29, <1>30, <1>31, <1>32, <1>33, <1>34,
     <1>35, <1>36, <1>37, <1>38, <1>39, <1>40 DEF Next, ClientStep, NewConnection, Message, Sweep, Heartbeat

-----------------------------------------------------------------------------
(* Timing. *)

\* The code's own values: 1 s of sleep is two sleeps of main(), and threads that
\* are not held up do their work in between; mapLocks loses no update, and the
\* allocator hands out no address that is still named.
Timely == Punctual /\ ~LostWrites /\ ~HeapReuse /\ NapTicks >= 2

\* The descriptors that two workers at once have never slept on.
Unshared == FDs \ shared

\* The labels at which a worker sets up the connection it accepted, and those at
\* which it has read the handshake.
SetupLabels == {"nap", "create", "regLock", "lockAll", "insert"}
MakingLabels == SetupLabels \ {"nap"}

\* o is condemned: on the delete list, or about to be.
Doomed(o) == o \in ToSet(del) \/ Condemning(o)

\* o is where the sweep of this tick has still to come by.
Awaits(o) ==
  \E i \in 1 .. Len(del) :
    /\ del[i] = o
    /\ pc[Main] \in {"size", "mainLockAll"} \/ (pc[Main] \in SweepLabels /\ i >= pos)

\* No two workers set up a connection under the same number.
SetupAlone ==
  \A v, w \in Workers :
    v # w /\ pc[v] \in SetupLabels /\ pc[w] \in SetupLabels /\ wfd[v] = wfd[w]
      => wfd[w] \in shared

\* A descriptor stays open while a session is made for it ...
MakingOpen ==
  \A w \in Workers : pc[w] \in MakingLabels /\ wfd[w] \in Unshared => fdConn[wfd[w]] # None

\* ... and has no older session.
MakingFresh ==
  \A w \in Workers : pc[w] \in MakingLabels /\ wfd[w] \in Unshared => mapFDs[wfd[w]] = None

\* A worker that is about to close a number somebody sets up again is early: the
\* other one has yet to sleep through a whole tick.
CloserIsEarly ==
  \A t, w \in Workers :
    pc[t] = "close" /\ pc[w] \in SetupLabels /\ wfd[w] = wfd[t] /\ wfd[w] \in Unshared
      => pc[w] = "nap" /\ nap[w] >= NapTicks - 1

\* It closes the number of the session it condemns, or of no session.
CloserHasTarget ==
  \A t \in Workers :
    pc[t] = "close" /\ wfd[t] \in Unshared => mapFDs[wfd[t]] \in {target[t], None}

\* An old session under a number that a worker sleeps on is condemned before the
\* first tick of that sleep, and swept before the second.
NapIsSwept ==
  \A w \in Workers :
    pc[w] = "nap" /\ wfd[w] \in Unshared /\ mapFDs[wfd[w]] # None =>
      \/ nap[w] = NapTicks /\ Doomed(mapFDs[wfd[w]])
      \/ nap[w] = NapTicks - 1 /\ Awaits(mapFDs[wfd[w]])

\* A lock id is registered for a session that mapFDs has, or is about to have.
LocksAreFiled ==
  \A f \in mapLocks \ shared :
    \/ mapFDs[f] \in alloc
    \/ \E w \in Workers : pc[w] \in {"lockAll", "insert"} /\ wfd[w] = f

\* No session is without a user lock.
HasUserLock == \A o \in alloc : sfd[o] \in Unshared => ulock[o] # "null"

Setting ==
  SetupAlone /\ MakingOpen /\ MakingFresh /\ CloserIsEarly /\ CloserHasTarget
Timing ==
  Setting /\ NapIsSwept /\ ClosedIsCondemned /\ LocksAreFiled /\ HasUserLock /\ NoOrphanSession

LEMMA InitTiming == Init => Timing
  BY ConstantsAssumption
     DEF Init, Timing, Setting, SetupAlone, MakingOpen, MakingFresh, CloserIsEarly,
         CloserHasTarget, NapIsSwept, ClosedIsCondemned, LocksAreFiled, HasUserLock,
         NoOrphanSession, Threads, SetupLabels, MakingLabels

\* A number that is set up is not closed: who closes it has found an old session,
\* and there is none once the sleep is over.
LEMMA StepSetting ==
  ASSUME Timely
  PROVE  IInv /\ Naming /\ Timing /\ [Next]_vars => Setting'
<1> SUFFICES ASSUME IInv, Naming, Timing, [Next]_vars
             PROVE  Setting'
    OBVIOUS
<1> TypeOK /\ NapIsSwept /\ ClosedIsCondemned /\ NamedIsFiled
    BY DEF IInv, Timing, Naming
<1> USE ConstantsAssumption DEF At, IInv, TypeOK, Threads, WorkerHasFD, TargetIsPicked,
   PushLabels, BeatLabels, WorkerLabels, MainLabels, vars, kernel, heap, tables, locals,
   Naming, UserHasFD, BeatIsFiled, Creating, Timely, Timing, Setting, SetupAlone, MakingOpen,
   MakingFresh, CloserIsEarly, CloserHasTarget, SetupLabels, MakingLabels, Unshared
(* A pool thread accepts and registers a connection. *)
<1>1. ASSUME NEW w \in Workers, Accept(w)
      PROVE  Setting'
  <2>1. PICK c \in Conns, f \in FreeFDs :
               /\ fdConn' = [fdConn EXCEPT ![f] = c]
               /\ wfd' = [wfd EXCEPT ![w] = f]
               /\ shared' = shared \cup {g \in {f} : SleptOn(w, g)}
        BY ZenonT(20), <1>1 DEF Accept, AcceptNapping
  <2>2. /\ pc[w] = "wait" /\ pc' = [pc EXCEPT ![w] = "nap"]
        /\ nap' = [nap EXCEPT ![w] = NapTicks]
        /\ UNCHANGED <<heap, tables, user, target, pos, cursor, crashed>>
        BY <1>1 DEF Accept, AcceptNapping, GoTo
  <2>3. f \in FDs /\ fdConn[f] = None
        BY DEF FreeFDs
  <2>4. ASSUME NEW v \in Workers, v # w, pc[v] \in SetupLabels, wfd[v] = f
        PROVE  f \in shared'
    <3>1. CASE pc[v] = "nap"
          BY <2>1, <2>4, <3>1 DEF SleptOn
    <3>2. CASE pc[v] \in MakingLabels
          BY <2>1, <2>3, <2>4, <3>2
    <3> QED BY <2>4, <3>1, <3>2
  <2>5. SetupAlone'
        BY <2>1, <2>2, <2>4
  <2>6. MakingOpen' /\ MakingFresh' /\ CloserHasTarget'
        BY <2>1, <2>2, <2>3
  <2>7. CloserIsEarly'
        BY <2>1, <2>2, <2>3
  <2> QED BY <2>5, <2>6, <2>7
<1>2. ASSUME NEW w \in Workers, ShakeFails(w)
      PROVE  Setting'
      BY <1>2 DEF ShakeFails, Return, GoTo
<1>3. ASSUME NEW w \in Workers, Shake(w)
      PROVE  Setting'
  <2>1. /\ pc[w] = "nap" /\ nap[w] = 0 /\ fdConn[wfd[w]] # None
        /\ pc' = [pc EXCEPT ![w] = "create"]
        /\ UNCHANGED <<conn, fdConn, watched, ready, shared, heap, tables, locals, crashed>>
        BY <1>3 DEF Shake, Continue, GoTo
  <2>2. nap[w] # NapTicks /\ nap[w] # NapTicks - 1
        BY <2>1
  <2>3. wfd[w] \in Unshared => mapFDs[wfd[w]] = None
        BY <2>1, <2>2 DEF NapIsSwept
  <2> QED BY <2>1, <2>2, <2>3
<1>4. ASSUME NEW w \in Workers, Create(w)
      PROVE  Setting'
      BY <1>4 DEF Create, GoTo
<1>5. ASSUME NEW w \in Workers, RegLock(w)
      PROVE  Setting'
      BY <1>5 DEF RegLock, UpdateLocks, Continue, GoTo
<1>6. ASSUME NEW w \in Workers, LockAll(w)
      PROVE  Setting'
      BY <1>6 DEF LockAll, Continue, GoTo
<1>7. ASSUME NEW w \in Workers, Insert(w)
      PROVE  Setting'
      BY <1>7 DEF Insert, InsertUnder, Continue, GoTo
<1>8. ASSUME NEW w \in Workers, Watch(w)
      PROVE  Setting'
      BY <1>8 DEF Watch, Return, GoTo
(* A pool thread serves an event. *)
<1>9. ASSUME NEW w \in Workers, TakeEvent(w)
      PROVE  Setting'
      BY <1>9 DEF TakeEvent, GoTo
<1>10. ASSUME NEW w \in Workers, Find(w)
      PROVE  Setting'
  <2>1. UNCHANGED <<kernel, heap, tables, crashed>>
        BY <1>10 DEF Find
  <2>2. CASE Return(w)
        BY <2>1, <2>2 DEF Return, GoTo
  <2>3. CASE GoTo(w, "read") /\ UNCHANGED <<wfd, target, nap, pos, cursor>>
    <3>1. pc[w] = "find" /\ \A v \in Workers \ {w} : user'[v] = user[v]
          BY <1>10, <2>3 DEF Find, Return
    <3> QED BY <2>1, <2>3, <3>1 DEF GoTo
  <2> QED BY <1>10, <2>2, <2>3 DEF Find
<1>11. ASSUME NEW w \in Workers, Read(w)
      PROVE  Setting'
  <2>1. Return(w) \/ Continue(w, "handle") \/ Continue(w, "condemn")
        BY <1>11 DEF Read
  <2>2. pc[w] = "read" /\ UNCHANGED <<conn, fdConn, watched, ready, shared, heap, tables, crashed>>
        BY <1>11 DEF Read
  <2>3. CASE Return(w)
        BY <2>2, <2>3 DEF Return, GoTo
  <2>4. CASE Continue(w, "handle")
        BY <2>2, <2>4 DEF Continue, GoTo
  <2>5. CASE Continue(w, "condemn")
        BY <2>2, <2>5 DEF Continue, GoTo
  <2> QED BY <2>1, <2>3, <2>4, <2>5
<1>12. ASSUME NEW w \in Workers, Handle(w)
      PROVE  Setting'
  <2>1. pc[w] = "handle" /\ UNCHANGED <<kernel, heap, tables>>
        BY <1>12 DEF Handle
  <2>2. CASE Return(w)
        BY <2>1, <2>2 DEF Return, GoTo
  <2>3. CASE Continue(w, "condemn")
        BY <2>1, <2>3 DEF Continue, GoTo
  <2> QED BY <1>12, <2>2, <2>3 DEF Handle
<1>13. ASSUME NEW w \in Workers, Condemn(w)
      PROVE  Setting'
  <2>1. pc[w] = "condemn" /\ UNCHANGED <<kernel, heap, tables, crashed>>
        BY <1>13 DEF Condemn
  <2>2. CASE Continue(w, "mark")
        BY <2>1, <2>2 DEF Continue, GoTo
  <2>3. ASSUME NEW o \in Objs, o = mapFDs[wfd[w]], Choose(w, o, "close")
        PROVE  Setting'
    <3>1. /\ pc' = [pc EXCEPT ![w] = "close"] /\ target' = [target EXCEPT ![w] = o]
          /\ UNCHANGED <<wfd, user, nap, pos, cursor>>
          BY <2>3 DEF Choose, GoTo
    <3>2. ASSUME NEW v \in Workers, pc[v] \in SetupLabels, wfd[v] = wfd[w], wfd[v] \in Unshared
          PROVE  pc[v] = "nap" /\ nap[v] >= NapTicks - 1
      <4>1. mapFDs[wfd[v]] # None
            BY <2>3, <3>2
      <4> QED BY <3>2, <4>1 DEF NapIsSwept
    <3>3. SetupAlone' /\ MakingOpen' /\ MakingFresh'
          BY <2>1, <3>1
    <3>4. CloserIsEarly'
          BY <2>1, <3>1, <3>2
    <3>5. CloserHasTarget'
          BY <2>1, <2>3, <3>1
    <3> QED BY <3>3, <3>4, <3>5
  <2> QED BY <1>13, <2>2, <2>3, CondemnChooses
<1>14. ASSUME NEW w \in Workers, CloseFD(w)
      PROVE  Setting'
      BY <1>14 DEF CloseFD, CloseThen, Close, Continue, GoTo
<1>15. ASSUME NEW w \in Workers, Mark(w)
      PROVE  Setting'
      BY <1>15 DEF Mark, Return, GoTo
<1>16. ASSUME NEW t \in Threads, LockDel(t)
      PROVE  Setting'
      BY <1>16 DEF LockDel, Continue, GoTo
<1>17. ASSUME NEW t \in Threads, Push(t)
      PROVE  Setting'
      BY <1>17 DEF Push, Choose, GoTo
(* Any thread. *)
<1>18. ASSUME NEW t \in Threads, TraversalCrashes(t)
      PROVE  Setting'
      BY <1>18 DEF TraversalCrashes
(* The main thread: the sweep, then the heartbeat scan. *)
<1>19. CASE Tick
  <2>1. /\ pc' = [pc EXCEPT ![Main] = "size"]
        /\ UNCHANGED <<kernel, heap, tables, wfd, user, target, pos, cursor, crashed>>
        BY <1>19 DEF Tick, GoTo
  <2>2. \A t \in Workers : pc[t] # "close"
        BY <1>19 DEF Tick, MayTakeLong
  <2> QED BY <2>1, <2>2
<1>20. CASE Size
      BY <1>20 DEF Size, Continue, GoTo
<1>21. CASE MainLockAll
      BY <1>21 DEF MainLockAll, GoTo
<1>22. CASE SweepEnds
      BY <1>22 DEF SweepEnds, GoTo
<1>23. CASE SweepTakes
      BY <1>23 DEF SweepTakes, SweepTakesThen, Filed, IfFiled, Swept, GoTo
<1>24. CASE SweepSkips
      BY <1>24 DEF SweepSkips, Swept
<1>25. CASE SweepDropsDangling
      BY <1>25 DEF SweepDropsDangling, Swept, Continue, GoTo
<1>26. CASE SweepCrashes
      BY <1>26 DEF SweepCrashes
<1>27. CASE Free
      BY <1>27 DEF Free, FreeLeaving, UpdateLocks, Choose, GoTo
<1>28. CASE Unmap
      BY <1>28 DEF Unmap, UnmapKey, GoTo
<1>29. CASE LockErase
      BY <1>29 DEF LockErase, Continue, GoTo
<1>30. CASE Erase
      BY <1>30 DEF Erase, EraseHolding, Continue, GoTo
<1>31. CASE Beat
      BY <1>31 DEF Beat, Continue, GoTo
<1>32. CASE ScanEnds
      BY <1>32 DEF ScanEnds, GoTo
<1>33. CASE ScanNext
  <2>1. /\ \A t \in Workers : pc'[t] = pc[t] /\ target'[t] = target[t]
        /\ UNCHANGED <<kernel, heap, tables, wfd, user, nap, pos, crashed>>
        BY <1>33 DEF ScanNext, GoTo
  <2> QED BY <2>1
<1>34. CASE BeatClose
      BY <1>34 DEF BeatClose, Close, Continue, GoTo
<1>35. CASE BeatCondemn
  <2>1. pc[Main] = "beatCondemn" /\ UNCHANGED <<kernel, heap, tables, crashed>>
        BY <1>35 DEF BeatCondemn
  <2>2. CASE Continue(Main, "beatCloseAgain")
        BY <2>1, <2>2 DEF Continue, GoTo
  <2>3. CASE Choose(Main, None, "scan")
        BY <2>1, <2>3 DEF Choose, GoTo
  <2> QED BY <1>35, <2>2, <2>3 DEF BeatCondemn
<1>36. CASE BeatCloseAgain
      BY <1>36 DEF BeatCloseAgain, Close, Continue, GoTo
(* The clients. *)
<1>37. ASSUME NEW x \in Conns, Connect(x)
      PROVE  Setting'
      BY <1>37 DEF Connect
<1>38. ASSUME NEW x \in FDs, Send(x)
      PROVE  Setting'
      BY <1>38 DEF Send
<1>39. ASSUME NEW x \in FDs, Hangup(x)
      PROVE  Setting'
      BY <1>39 DEF Hangup
<1>40. CASE UNCHANGED vars
      BY <1>40
<1> QED
   BY <1>1, <1>2, <1>3, <1>4, <1>5, <1>6, <1>7, <1>8, <1>9, <1>10, <1>11, <1>12,
     <1>13, <1>14, <1>15, <1>16, <1>17, <1>18, <1>19, <1>20, <1>21, <1>22, <1>23,
     <1>24, <1>25, <1>26, <1>27, <1>28, <1>29, <1>30, <1>31, <1>32, <1>33, <1>34,
     <1>35, <1>36, <1>37, <1>38, <1>39, <1>40 DEF Next, ClientStep, NewConnection, Message, Sweep, Heartbeat

\* A session, its entry and its lock stay as they are through a step that leaves
\* the heap, the map and the workers that make sessions alone.
LEMMA FilingFrame ==
  ASSUME LocksAreFiled, HasUserLock, NoOrphanSession,
         UNCHANGED <<heap, mapFDs>>, shared \subseteq shared',
         \A v \in Workers :
           pc[v] \in Creating => pc'[v] = pc[v] /\ wfd'[v] = wfd[v] /\ user'[v] = user[v]
  PROVE  (LocksAreFiled /\ HasUserLock /\ NoOrphanSession)'
<1> USE DEF heap, Creating
<1>1. LocksAreFiled'
      BY DEF LocksAreFiled
<1>2. HasUserLock'
      BY DEF HasUserLock, Unshared
<1>3. NoOrphanSession'
  <2> SUFFICES ASSUME NEW o \in alloc, sfd[o] \notin shared', mapFDs[sfd[o]] # o
               PROVE  \E w \in Workers : user'[w] = o /\ pc'[w] \in Creating
      BY DEF NoOrphanSession
  <2>1. PICK w \in Workers : user[w] = o /\ pc[w] \in Creating
        BY DEF NoOrphanSession
  <2> QED BY <2>1
<1> QED BY <1>1, <1>2, <1>3

\* A new session finds its number free in mapFDs and in mapLocks; it goes with
\* its lock and, one step later, its entry.
LEMMA StepFiling ==
  ASSUME Timely
  PROVE  IInv /\ Naming /\ Sweeping /\ Timing /\ [Next]_vars
           => (LocksAreFiled /\ HasUserLock /\ NoOrphanSession)'
<1> DEFINE Filing == LocksAreFiled /\ HasUserLock /\ NoOrphanSession
<1> SUFFICES ASSUME IInv, Naming, Sweeping, Timing, [Next]_vars
             PROVE  Filing'
    OBVIOUS
<1> TypeOK
    BY DEF IInv
<1> USE ConstantsAssumption DEF At, IInv, TypeOK, Threads, LiveHasFD, WorkerHasFD, FreshIsOwn,
   VictimIsFiled, LocksHeld, RegistryOwnership, SweepLabels, Creating, WorkerLabels,
   MainLabels, vars, kernel, heap, tables, locals, Naming, UserHasFD, DanglingIsDead,
   Sweeping, HeldIsVictim, Timely, Timing, Setting, SetupAlone, MakingFresh, SetupLabels,
   MakingLabels, Unshared, LocksAreFiled, HasUserLock, NoOrphanSession
(* A pool thread accepts and registers a connection. *)
<1>1. ASSUME NEW w \in Workers, Accept(w)
      PROVE  Filing'
  <2>1. UNCHANGED <<heap, mapFDs>> /\ shared \subseteq shared'
        BY <1>1 DEF Accept, AcceptNapping
  <2>2. \A v \in Workers :
          pc[v] \in Creating => pc'[v] = pc[v] /\ wfd'[v] = wfd[v] /\ user'[v] = user[v]
        BY <1>1 DEF Accept, AcceptNapping, GoTo
  <2> QED BY <2>1, <2>2, FilingFrame
<1>2. ASSUME NEW w \in Workers, ShakeFails(w)
      PROVE  Filing'
  <2>1. pc[w] = "nap" /\ UNCHANGED <<heap, mapFDs, shared>>
        BY <1>2 DEF ShakeFails
  <2>2. \A v \in Workers \ {w} : pc'[v] = pc[v] /\ wfd'[v] = wfd[v] /\ user'[v] = user[v]
        BY <1>2 DEF ShakeFails, Return, GoTo
  <2> QED BY <2>1, <2>2, FilingFrame
<1>3. ASSUME NEW w \in Workers, Shake(w)
      PROVE  Filing'
  <2>1. pc[w] = "nap" /\ UNCHANGED <<heap, mapFDs, shared>>
        BY <1>3 DEF Shake
  <2>2. \A v \in Workers \ {w} : pc'[v] = pc[v] /\ wfd'[v] = wfd[v] /\ user'[v] = user[v]
        BY <1>3 DEF Shake, Continue, GoTo
  <2> QED BY <2>1, <2>2, FilingFrame
<1>4. ASSUME NEW w \in Workers, Create(w)
      PROVE  Filing'
  <2>1. PICK o \in Objs \ alloc :
               /\ alloc' = alloc \cup {o}
               /\ sfd' = [sfd EXCEPT ![o] = wfd[w]]
               /\ ulock' = [ulock EXCEPT ![o] = IF wfd[w] \in mapLocks THEN "null" ELSE "free"]
               /\ user' = [user EXCEPT ![w] = o]
        BY <1>4 DEF Create
  <2>2. /\ pc[w] = "create" /\ pc' \in [Threads -> WorkerLabels \cup MainLabels]
        /\ pc'[w] \in Creating /\ \A t \in Threads \ {w} : pc'[t] = pc[t]
        /\ UNCHANGED <<kernel, mapLocks, tables, wfd>>
        BY <1>4 DEF Create, GoTo
  <2>3. wfd[w] \in FDs \ shared => wfd[w] \notin mapLocks
    <3> SUFFICES ASSUME wfd[w] \in mapLocks \ shared
                 PROVE  FALSE
        OBVIOUS
    <3>1. mapFDs[wfd[w]] \notin alloc
      <4>1. mapFDs[wfd[w]] = None /\ None \notin Objs
            BY <2>2
      <4> QED BY <4>1
    <3>2. PICK v \in Workers : pc[v] \in {"lockAll", "insert"} /\ wfd[v] = wfd[w]
          BY <3>1 DEF LocksAreFiled
    <3> QED BY <2>2, <3>2
  <2>4. LocksAreFiled'
    <3> SUFFICES ASSUME NEW f \in mapLocks \ shared, mapFDs[f] \notin alloc
                 PROVE  \E v \in Workers : pc'[v] \in {"lockAll", "insert"} /\ wfd[v] = f
        BY <2>1, <2>2
    <3>1. PICK v \in Workers : pc[v] \in {"lockAll", "insert"} /\ wfd[v] = f
          OBVIOUS
    <3> QED BY <2>2, <3>1
  <2>5. HasUserLock'
        BY <2>1, <2>2, <2>3
  <2>6. NoOrphanSession'
    <3> SUFFICES ASSUME NEW p \in alloc', p # o, sfd[p] \notin shared, mapFDs[sfd[p]] # p
                 PROVE  \E v \in Workers : user'[v] = p /\ pc'[v] \in Creating
        BY <2>1, <2>2
    <3>1. PICK v \in Workers : user[v] = p /\ pc[v] \in Creating
          BY <2>1
    <3>2. v # w /\ user'[v] = user[v] /\ pc'[v] = pc[v]
          BY <2>1, <2>2, <3>1
    <3> QED BY <3>1, <3>2
  <2> QED BY <2>4, <2>5, <2>6
<1>5. ASSUME NEW w \in Workers, RegLock(w)
      PROVE  Filing'
      BY <1>5 DEF RegLock, UpdateLocks, Continue, GoTo
<1>6. ASSUME NEW w \in Workers, LockAll(w)
      PROVE  Filing'
      BY <1>6 DEF LockAll, Continue, GoTo
<1>7. ASSUME NEW w \in Workers, Insert(w)
      PROVE  Filing'
      BY <1>7 DEF Insert, InsertUnder, Continue, GoTo
<1>8. ASSUME NEW w \in Workers, Watch(w)
      PROVE  Filing'
      BY <1>8 DEF Watch, Return, GoTo
(* A pool thread serves an event. *)
<1>9. ASSUME NEW w \in Workers, TakeEvent(w)
      PROVE  Filing'
  <2>1. UNCHANGED <<heap, mapFDs>> /\ shared \subseteq shared'
        BY <1>9 DEF TakeEvent
  <2>2. \A v \in Workers :
          pc[v] \in Creating => pc'[v] = pc[v] /\ wfd'[v] = wfd[v] /\ user'[v] = user[v]
        BY <1>9 DEF TakeEvent, GoTo
  <2> QED BY <2>1, <2>2, FilingFrame
<1>10. ASSUME NEW w \in Workers, Find(w)
      PROVE  Filing'
  <2>1. pc[w] = "find" /\ UNCHANGED <<kernel, heap, tables, crashed>>
        BY <1>10 DEF Find
  <2>2. \A v \in Workers \ {w} : pc'[v] = pc[v] /\ wfd'[v] = wfd[v] /\ user'[v] = user[v]
        BY <1>10 DEF Find, Return, GoTo
  <2> QED BY <2>1, <2>2, FilingFrame
<1>11. ASSUME NEW w \in Workers, Read(w)
      PROVE  Filing'
  <2>1. pc[w] = "read" /\ UNCHANGED <<heap, mapFDs, shared>>
        BY <1>11 DEF Read
  <2>2. \A v \in Workers \ {w} : pc'[v] = pc[v] /\ wfd'[v] = wfd[v] /\ user'[v] = user[v]
        BY <1>11 DEF Read, Return, Continue, GoTo
  <2> QED BY <2>1, <2>2, FilingFrame
<1>12. ASSUME NEW w \in Workers, Handle(w)
      PROVE  Filing'
  <2>1. pc[w] = "handle" /\ UNCHANGED <<heap, mapFDs, shared>>
        BY <1>12 DEF Handle
  <2>2. \A v \in Workers \ {w} : pc'[v] = pc[v] /\ wfd'[v] = wfd[v] /\ user'[v] = user[v]
        BY <1>12 DEF Handle, Return, Continue, GoTo
  <2> QED BY <2>1, <2>2, FilingFrame
<1>13. ASSUME NEW w \in Workers, Condemn(w)
      PROVE  Filing'
  <2>1. pc[w] = "condemn" /\ UNCHANGED <<kernel, heap, tables, crashed>>
        BY <1>13 DEF Condemn
  <2>2. \A v \in Workers \ {w} : pc'[v] = pc[v] /\ wfd'[v] = wfd[v] /\ user'[v] = user[v]
        BY <1>13, CondemnChooses DEF Choose, Continue, GoTo
  <2> QED BY <2>1, <2>2, FilingFrame
<1>14. ASSUME NEW w \in Workers, CloseFD(w)
      PROVE  Filing'
  <2>1. UNCHANGED <<heap, mapFDs>> /\ shared \subseteq shared'
        BY <1>14 DEF CloseFD, CloseThen, Continue, Close
  <2>2. \A v \in Workers :
          pc[v] \in Creating => pc'[v] = pc[v] /\ wfd'[v] = wfd[v] /\ user'[v] = user[v]
        BY <1>14 DEF CloseFD, CloseThen, Continue, GoTo, Close
  <2> QED BY <2>1, <2>2, FilingFrame
<1>15. ASSUME NEW w \in Workers, Mark(w)
      PROVE  Filing'
  <2>1. pc[w] = "mark" /\ UNCHANGED <<heap, mapFDs, shared>>
        BY <1>15 DEF Mark
  <2>2. \A v \in Workers \ {w} : pc'[v] = pc[v] /\ wfd'[v] = wfd[v] /\ user'[v] = user[v]
        BY <1>15 DEF Mark, Return, GoTo
  <2> QED BY <2>1, <2>2, FilingFrame
<1>16. ASSUME NEW t \in Threads, LockDel(t)
      PROVE  Filing'
      BY <1>16 DEF LockDel, Continue, GoTo
<1>17. ASSUME NEW t \in Threads, Push(t)
      PROVE  Filing'
  <2>1. UNCHANGED <<heap, mapFDs>> /\ shared \subseteq shared'
        BY <1>17 DEF Push, Choose
  <2>2. \A v \in Workers :
          pc[v] \in Creating => pc'[v] = pc[v] /\ wfd'[v] = wfd[v] /\ user'[v] = user[v]
        BY <1>17 DEF Push, Choose, GoTo
  <2> QED BY <2>1, <2>2, FilingFrame
(* Any thread. *)
<1>18. ASSUME NEW t \in Threads, TraversalCrashes(t)
      PROVE  Filing'
      BY <1>18 DEF TraversalCrashes
(* The main thread: the sweep, then the heartbeat scan. *)
<1>19. CASE Tick
      BY <1>19 DEF Tick, GoTo
<1>20. CASE Size
      BY <1>20 DEF Size, Continue, GoTo
<1>21. CASE MainLockAll
      BY <1>21 DEF MainLockAll, GoTo
<1>22. CASE SweepEnds
      BY <1>22 DEF SweepEnds, GoTo
<1>23. CASE SweepTakes
      BY <1>23 DEF SweepTakes, SweepTakesThen, Filed, IfFiled, Swept, GoTo
<1>24. CASE SweepSkips
      BY <1>24 DEF SweepSkips, Swept
<1>25. CASE SweepDropsDangling
      BY <1>25 DEF SweepDropsDangling, Swept, Continue, GoTo
<1>26. CASE SweepCrashes
      BY <1>26 DEF SweepCrashes
<1>27. CASE Free
      BY <1>27 DEF Free, FreeLeaving, UpdateLocks, Choose, GoTo
<1>28. CASE Unmap
      BY <1>28 DEF Unmap, UnmapKey, GoTo
<1>29. CASE LockErase
      BY <1>29 DEF LockErase, Continue, GoTo
<1>30. CASE Erase
      BY <1>30 DEF Erase, EraseHolding, Continue, GoTo
<1>31. CASE Beat
      BY <1>31 DEF Beat, Continue, GoTo
<1>32. CASE ScanEnds
      BY <1>32 DEF ScanEnds, GoTo
<1>33. CASE ScanNext
  <2>1. UNCHANGED <<heap, mapFDs>> /\ shared \subseteq shared'
        BY <1>33 DEF ScanNext
  <2>2. \A v \in Workers :
          pc[v] \in Creating => pc'[v] = pc[v] /\ wfd'[v] = wfd[v] /\ user'[v] = user[v]
        BY <1>33 DEF ScanNext, GoTo
  <2> QED BY <2>1, <2>2, FilingFrame
<1>34. CASE BeatClose
      BY <1>34 DEF BeatClose, Close, Continue, GoTo
<1>35. CASE BeatCondemn
  <2>1. pc[Main] = "beatCondemn" /\ UNCHANGED <<kernel, heap, tables, crashed>>
        BY <1>35 DEF BeatCondemn
  <2>2. CASE Continue(Main, "beatCloseAgain")
        BY <2>1, <2>2 DEF Continue, GoTo
  <2>3. CASE Choose(Main, None, "scan")
        BY <2>1, <2>3 DEF Choose, GoTo
  <2> QED BY <1>35, <2>2, <2>3 DEF BeatCondemn
<1>36. CASE BeatCloseAgain
      BY <1>36 DEF BeatCloseAgain, Close, Continue, GoTo
(* The clients. *)
<1>37. ASSUME NEW x \in Conns, Connect(x)
      PROVE  Filing'
      BY <1>37 DEF Connect
<1>38. ASSUME NEW x \in FDs, Send(x)
      PROVE  Filing'
      BY <1>38 DEF Send
<1>39. ASSUME NEW x \in FDs, Hangup(x)
      PROVE  Filing'
      BY <1>39 DEF Hangup
<1>40. CASE UNCHANGED vars
      BY <1>40
<1> QED
   BY <1>1, <1>2, <1>3, <1>4, <1>5, <1>6, <1>7, <1>8, <1>9, <1>10, <1>11, <1>12,
     <1>13, <1>14, <1>15, <1>16, <1>17, <1>18, <1>19, <1>20, <1>21, <1>22, <1>23,
     <1>24, <1>25, <1>26, <1>27, <1>28, <1>29, <1>30, <1>31, <1>32, <1>33, <1>34,
     <1>35, <1>36, <1>37, <1>38, <1>39, <1>40 DEF Next, ClientStep, NewConnection, Message, Sweep, Heartbeat

\* A session stays condemned as long as mapFDs has it: a push moves it to the
\* list, the heartbeat drops it only if the list has it, and the sweep takes off
\* the list only what mapFDs has no more.
LEMMA DoomedKept ==
  ASSUME IInv, Naming, Sweeping, [Next]_vars,
         NEW o \in Objs, Doomed(o), \E f \in FDs : mapFDs[f] = o
  PROVE  Doomed(o)'
<1> TypeOK /\ TypeOK'
    BY StepTypes DEF IInv
<1>0. ASSUME NEW w \in Workers, Accept(w) \/ NewConnection(w) \/ Message(w)
      PROVE  \A t \in Threads \ {w} : pc'[t] = pc[t] /\ target'[t] = target[t]
      BY <1>0, WorkerStep DEF IInv
<1> USE ConstantsAssumption DEF Doomed, Condemning, Threads, TypeOK
<1>1. CASE o \in ToSet(del)
  <2>1. ASSUME NEW t \in Threads, Push(t)
        PROVE  ToSet(del') = ToSet(del) \cup {target[t]}
        BY <2>1, AppendNames DEF Push, At, IInv, TargetIsPicked, PushLabels
  <2>2. CASE Erase
    <3>1. pos \in 1 .. Len(del) /\ o # del[pos]
          BY <2>2 DEF Erase, EraseHolding, At, Sweeping, ErasedIsGone, IInv, IteratorInList,
            ElementLabels, SweepLabels
    <3> QED BY <1>1, <2>2, <3>1, RemoveNames DEF Erase, EraseHolding
  <2> QED BY <1>1, <2>1, <2>2, ListStep
<1>2. ASSUME NEW t \in Workers, target[t] = o, pc[t] \in {"close", "lockDel", "push"}
      PROVE  Doomed(o)'
  <2>1. ASSUME NEW w \in Workers, w # t, Accept(w) \/ NewConnection(w) \/ Message(w)
        PROVE  pc'[t] = pc[t] /\ target'[t] = target[t]
        BY <1>0, <2>1
  <2>2. CASE Accept(t) \/ NewConnection(t) \/ Message(t)
    <3>1. CloseFD(t) \/ LockDel(t) \/ Push(t)
          BY <1>2, <2>2 DEF At, Accept, AcceptNapping, NewConnection, ShakeFails, Shake, Create,
            RegLock, LockAll, Insert, InsertUnder, Watch, Message, TakeEvent, Find, Read, Handle, Condemn, Mark
    <3>2. CASE CloseFD(t)
          BY <1>2, <3>2 DEF CloseFD, CloseThen, Continue, GoTo, locals
    <3>3. CASE LockDel(t)
          BY <1>2, <3>3 DEF LockDel, Continue, GoTo, locals
    <3>4. CASE Push(t)
          BY <1>2, <3>4, AppendNames DEF Push
    <3> QED BY <3>1, <3>2, <3>3, <3>4
  <2>3. CASE Tick \/ Sweep \/ Heartbeat
        BY <1>2, <2>3, MainStep
  <2>4. CASE UNCHANGED <<heap, tables, pc, locals>>
        BY <1>2, <2>4 DEF locals
  <2>5. ASSUME NEW w \in Workers, Accept(w) \/ NewConnection(w) \/ Message(w)
        PROVE  Doomed(o)'
    <3>1. CASE w = t
          BY <2>2, <2>5, <3>1
    <3>2. CASE w # t
      <4>1. target'[t] = o /\ pc'[t] \in {"close", "lockDel", "push"}
            BY <1>2, <2>1, <2>5, <3>2
      <4> HIDE DEF TypeOK
      <4> QED BY <4>1
    <3> QED BY <3>1, <3>2
  <2> HIDE DEF Doomed, TypeOK, Threads
  <2> QED BY <2>3, <2>4, <2>5, OtherStep
<1>3. ASSUME target[Main] = o, pc[Main] \in {"beatCondemn", "beatCloseAgain", "lockDel", "push"}
      PROVE  Doomed(o)'
  <2>1. ASSUME NEW w \in Workers, Accept(w) \/ NewConnection(w) \/ Message(w)
        PROVE  pc'[Main] = pc[Main] /\ target'[Main] = target[Main]
        BY <1>0, <2>1
  <2>2. CASE Tick \/ Sweep \/ Heartbeat
    <3>1. BeatCondemn \/ BeatCloseAgain \/ LockDel(Main) \/ Push(Main)
          BY <1>3, <2>2 DEF At, Tick, Sweep, Size, MainLockAll, SweepEnds, SweepTakes,
            SweepTakesThen, SweepSkips, SweepDropsDangling, SweepCrashes, Free, FreeLeaving,
            Unmap, UnmapKey, LockErase, Erase, EraseHolding, Heartbeat, Beat, ScanEnds, ScanNext,
            BeatClose
    <3>2. CASE Continue(Main, "beatCloseAgain") \/ BeatCloseAgain \/ LockDel(Main)
          BY <1>3, <3>2 DEF BeatCloseAgain, LockDel, Continue, GoTo, locals
    <3>3. CASE Push(Main)
          BY <1>3, <3>3, AppendNames DEF Push
    <3>4. CASE BeatCondemn /\ TRUE \in Searches(sfd[o])
      <4>1. pc[Main] = "beatCondemn" /\ del' = del
            BY <3>4 DEF BeatCondemn, At, tables
      <4>2. sfd[o] = cursor /\ mapFDs[cursor] = o /\ cursor \in FDs
            BY <1>3, <4>1 DEF Naming, BeatIsFiled, BeatLabels
      <4>3. PICK p \in ToSet(del) : sfd[p] = cursor
            BY <3>4, <4>2 DEF Searches, Condemned
      <4>4. p \in Objs /\ Named(p)
            BY <4>3 DEF ToSet, Named
      <4>5. p \in alloc
            BY <4>2, <4>3, <4>4 DEF Naming, DeadHasNoFD
      <4>6. p = o
            BY <4>2, <4>3, <4>4, <4>5 DEF Naming, NamedIsFiled
      <4> QED BY <4>1, <4>3, <4>6
    <3> QED BY <1>3, <3>1, <3>2, <3>3, <3>4 DEF BeatCondemn
  <2>3. CASE UNCHANGED <<heap, tables, pc, locals>>
        BY <1>3, <2>3 DEF locals
  <2> QED BY <1>3, <2>1, <2>2, <2>3, OtherStep
<1>4. PICK t \in Threads : o \in ToSet(del) \/
        (target[t] = o /\ pc[t] \in {"close", "lockDel", "push", "beatCondemn", "beatCloseAgain"})
      OBVIOUS
<1> QED BY <1>1, <1>2, <1>3, <1>4 DEF WorkerLabels, MainLabels

\* A session that mapFDs has and the sweep has still to come by stays so until
\* the sweep takes it out of mapFDs: no skip passes it, its lock being free.
LEMMA AwaitsKept ==
  ASSUME IInv, Naming, Sweeping, [Next]_vars,
         NEW f \in FDs, NEW o \in Objs, mapFDs[f] = o, Awaits(o)
  PROVE  Awaits(o)'
<1> TypeOK
    BY DEF IInv
<1>0. PICK i \in 1 .. Len(del) :
        /\ del[i] = o
        /\ pc[Main] \in {"size", "mainLockAll"} \/ (pc[Main] \in SweepLabels /\ i >= pos)
      BY DEF Awaits
<1>w. ASSUME NEW w \in Workers, Accept(w) \/ NewConnection(w) \/ Message(w)
      PROVE  pc'[Main] = pc[Main] /\ pos' = pos
      BY <1>w, ConstantsAssumption, WorkerStep DEF IInv, Threads
<1> USE ConstantsAssumption DEF Threads, SweepLabels, TypeOK
<1>1. CASE Erase
  <2>1. pc[Main] = "erase" /\ pos' = pos /\ pc'[Main] = "sweep" /\ del' = RemoveAt(del, pos)
        BY <1>1 DEF Erase, EraseHolding, At, Continue, GoTo, locals
  <2>2. pos \in 1 .. Len(del) /\ o # del[pos]
        BY <2>1 DEF IInv, IteratorInList, Sweeping, ErasedIsGone, ElementLabels
  <2>3. i \in pos + 1 .. Len(del)
        BY <1>0, <2>1, <2>2
  <2>4. i - 1 \in 1 .. Len(del') /\ del'[i - 1] = o /\ i - 1 >= pos'
    <3>1. del \in Seq(Objs) /\ Len(del) \in Nat
          OBVIOUS
    <3>2. Len(del') = Len(del) - 1 /\ del'[i - 1] = del[i]
      <4>1. /\ Len(RemoveAt(del, pos)) = Len(del) - 1
            /\ \A j \in pos + 1 .. Len(del) : RemoveAt(del, pos)[j - 1] = del[j]
        <5> HIDE DEF TypeOK, SweepLabels, Threads
        <5> QED BY SMTT(20), <2>2, <3>1, RemoveNames
      <4> QED BY <2>1, <2>3, <4>1
    <3> QED BY <1>0, <2>1, <2>2, <2>3, <3>1, <3>2
  <2> QED BY <2>1, <2>4 DEF Awaits
<1>2. CASE ~Erase
  <2>1. i \in 1 .. Len(del') /\ del'[i] = o
    <3>1. ASSUME NEW t \in Threads, Push(t)
          PROVE  i \in 1 .. Len(del') /\ del'[i] = o
          BY <1>0, <3>1, AppendNames DEF Push, At, IInv, TargetIsPicked, PushLabels
    <3> QED BY <1>0, <1>2, <3>1, ListStep
  <2>2. CASE pc'[Main] = pc[Main] /\ pos' = pos
        BY <1>0, <2>1, <2>2 DEF Awaits
  <2>3. CASE Tick \/ Sweep \/ Heartbeat
    <3>1. \/ Size \/ MainLockAll \/ SweepEnds \/ SweepTakes \/ SweepSkips
          \/ SweepDropsDangling \/ SweepCrashes \/ Free \/ Unmap \/ LockErase
          BY <1>0, <1>2, <2>3 DEF At, Tick, Sweep, Heartbeat, Beat, ScanEnds, ScanNext, BeatClose,
            BeatCondemn, BeatCloseAgain, LockDel, Push
    <3>2. CASE Size
      <4>1. del # <<>>
            BY <1>0
      <4> QED BY <2>1, <3>2, <4>1 DEF Size, Continue, GoTo, Awaits
    <3>3. CASE MainLockAll
          BY <2>1, <3>3 DEF MainLockAll, GoTo, Awaits
    <3>4. CASE SweepEnds
          BY <1>0, <3>4 DEF SweepEnds, At
    <3>5. CASE SweepSkips
      <4>1. pc[Main] = "sweep" /\ (Swept \in alloc => ulock[Swept] = "held")
            BY <3>5 DEF SweepSkips, At
      <4>2. o \in alloc
            BY <4>1 DEF IInv, RegistryOwnership
      <4>3. i # pos
            BY <1>0, <4>1, <4>2 DEF Swept, Sweeping, HeldIsVictim
      <4> QED BY <1>0, <2>1, <3>5, <4>1, <4>3 DEF SweepSkips, Awaits
    <3>6. CASE SweepTakes \/ SweepDropsDangling \/ SweepCrashes \/ Free \/ Unmap \/ LockErase
      <4>1. pc[Main] \in SweepLabels /\ pos' = pos /\ pc'[Main] \in SweepLabels
            BY <1>0, <3>6 DEF SweepTakes, SweepTakesThen, IfFiled, SweepDropsDangling,
              SweepCrashes, Free, FreeLeaving, Unmap, UnmapKey, LockErase, Continue, Choose,
              GoTo, At, locals
      <4> QED BY <1>0, <2>1, <4>1 DEF Awaits
    <3> QED BY <3>1, <3>2, <3>3, <3>4, <3>5, <3>6
  <2>4. UNCHANGED <<heap, tables, pc, locals>> => pc'[Main] = pc[Main] /\ pos' = pos
        BY DEF locals
  <2> QED BY <1>w, <2>2, <2>3, <2>4, OtherStep
<1> QED BY <1>1, <1>2

\* Only Insert makes an entry of mapFDs, and only where there is none.
LEMMA EntryStep ==
  ASSUME IInv, [Next]_vars, NEW f \in FDs, mapFDs'[f] # None
  PROVE  \/ mapFDs'[f] = mapFDs[f]
         \/ \E w \in Workers : pc[w] = "insert" /\ f = sfd[user[w]] /\ Insert(w)
<1>1. CASE UNCHANGED mapFDs
      BY <1>1
<1>2. ASSUME NEW w \in Workers, Insert(w)
      PROVE  mapFDs'[f] = mapFDs[f] \/ (pc[w] = "insert" /\ f = sfd[user[w]])
      BY <1>2 DEF Insert, InsertUnder, At, IInv, TypeOK
<1>3. CASE Unmap
      BY <1>3 DEF Unmap, UnmapKey
<1>4. UNCHANGED mapFDs \/ (\E w \in Workers : Insert(w)) \/ Unmap
  BY DEF Next, ClientStep, NewConnection, Message, Sweep, Heartbeat, vars, kernel, heap, tables,
     locals, Accept, AcceptNapping, ShakeFails, Shake, Create, RegLock, LockAll, Watch,
     TakeEvent, Find, Read, Handle, Condemn, CloseFD, CloseThen, Mark, LockDel, Push,
     TraversalCrashes, Tick, Size, MainLockAll, SweepEnds, SweepTakes, SweepTakesThen,
     SweepSkips, SweepDropsDangling, SweepCrashes, Free, FreeLeaving, LockErase,
     Erase, EraseHolding, Beat, ScanEnds, ScanNext, BeatClose, BeatCondemn, BeatCloseAgain,
     Connect, Send, Hangup
<1> QED BY <1>1, <1>2, <1>3, <1>4

\* A descriptor is closed by a worker that condemns, or by the heartbeat.
LEMMA CloseStep ==
  ASSUME IInv, [Next]_vars, NEW f \in FDs, fdConn'[f] = None
  PROVE  \/ fdConn[f] = None
         \/ \E w \in Workers : f = wfd[w] /\ CloseFD(w)
         \/ f = cursor /\ BeatClose
         \/ f = sfd[target[Main]] /\ BeatCloseAgain
<1>1. CASE UNCHANGED fdConn
      BY <1>1
<1>2. ASSUME NEW w \in Workers, Accept(w)
      PROVE  fdConn[f] = None
      BY <1>2, ConstantsAssumption DEF Accept, AcceptNapping, FreeFDs, IInv, TypeOK
<1>3. ASSUME NEW w \in Workers, CloseFD(w)
      PROVE  fdConn[f] = None \/ f = wfd[w]
      BY <1>3 DEF CloseFD, CloseThen, Close, IInv, TypeOK
<1>4. CASE BeatClose
      BY <1>4 DEF BeatClose, Close, IInv, TypeOK
<1>5. CASE BeatCloseAgain
      BY <1>5 DEF BeatCloseAgain, Close, IInv, TypeOK
<1>6. \/ UNCHANGED fdConn
      \/ \E w \in Workers : Accept(w) \/ CloseFD(w)
      \/ BeatClose \/ BeatCloseAgain
  BY DEF Next, ClientStep, NewConnection, Message, Sweep, Heartbeat, vars, kernel, heap, tables,
     locals, ShakeFails, Shake, Create, RegLock, LockAll, Insert, InsertUnder, Watch,
     TakeEvent, Find, Read, Handle, Condemn, Mark, LockDel, Push,
     TraversalCrashes, Tick, Size, MainLockAll, SweepEnds, SweepTakes, SweepTakesThen,
     SweepSkips, SweepDropsDangling, SweepCrashes, Free, FreeLeaving, Unmap, UnmapKey, LockErase,
     Erase, EraseHolding, Beat, ScanEnds, ScanNext, BeatCondemn, Connect, Send, Hangup
<1> QED BY <1>1, <1>2, <1>3, <1>4, <1>5, <1>6

\* A worker starts to sleep with its accept, and only a tick shortens the sleep.
LEMMA NapStep ==
  ASSUME IInv, [Next]_vars, NEW v \in Workers, pc'[v] = "nap"
  PROVE  Accept(v) \/ Tick \/ (pc[v] = "nap" /\ wfd'[v] = wfd[v] /\ nap'[v] = nap[v])
<1> TypeOK /\ WorkerHasFD
    BY DEF IInv
<1>1. ASSUME NEW w \in Workers, Accept(w) \/ NewConnection(w) \/ Message(w)
      PROVE  Accept(v) \/ (pc[v] = "nap" /\ wfd'[v] = wfd[v] /\ nap'[v] = nap[v])
      BY <1>1, WorkerStep DEF Threads
<1>2. CASE Tick \/ Sweep \/ Heartbeat
      BY <1>2, MainStep
<1>3. CASE UNCHANGED <<heap, tables, pc, locals>>
      BY <1>3 DEF locals
<1> QED BY <1>1, <1>2, <1>3, OtherStep

\* The race of the sweep with the sleep: the worker's first tick finds the old
\* session on the list, and the sweep of that tick takes it.
LEMMA StepDoomed ==
  ASSUME Timely
  PROVE  IInv /\ Naming /\ Sweeping /\ Timing /\ [Next]_vars
           => (NapIsSwept /\ ClosedIsCondemned)'
<1> SUFFICES ASSUME IInv, Naming, Sweeping, Timing, [Next]_vars
             PROVE  (NapIsSwept /\ ClosedIsCondemned)'
    OBVIOUS
<1> TypeOK /\ TypeOK'
    BY StepTypes DEF IInv
<1> Setting'
    BY StepSetting
<1> USE ConstantsAssumption
<1>1. ASSUME NEW f \in FDs, mapFDs[f] # None, Doomed(mapFDs[f])
      PROVE  \A o \in Objs : o = mapFDs[f] => Doomed(o)'
      BY <1>1, DoomedKept
<1>2. shared \subseteq shared'
  BY DEF Next, ClientStep, NewConnection, Message, Sweep, Heartbeat, vars, kernel, heap, tables,
     locals, Accept, AcceptNapping, ShakeFails, Shake, Create, RegLock, LockAll, Insert, InsertUnder, Watch,
     TakeEvent, Find, Read, Handle, Condemn, CloseFD, CloseThen, Mark, LockDel, Push,
     TraversalCrashes, Tick, Size, MainLockAll, SweepEnds, SweepTakes, SweepTakesThen,
     SweepSkips, SweepDropsDangling, SweepCrashes, Free, FreeLeaving, Unmap, UnmapKey, LockErase,
     Erase, EraseHolding, Beat, ScanEnds, ScanNext, BeatClose, BeatCondemn, BeatCloseAgain,
     Connect, Send, Hangup, Close
<1>3. NapIsSwept'
  <2> SUFFICES ASSUME NEW v \in Workers, pc'[v] = "nap", wfd'[v] \in FDs \ shared',
                      NEW o \in Objs, o = mapFDs'[wfd'[v]]
               PROVE  \/ nap'[v] = NapTicks /\ Doomed(o)'
                      \/ nap'[v] = NapTicks - 1 /\ Awaits(o)'
      BY DEF NapIsSwept, Unshared, TypeOK
  <2> DEFINE f == wfd'[v]
  <2>1. CASE Accept(v)
    <3>1. /\ fdConn[f] = None /\ nap'[v] = NapTicks
          /\ UNCHANGED <<tables, target>> /\ pc' = [pc EXCEPT ![v] = "nap"] /\ pc[v] = "wait"
          BY <2>1 DEF Accept, AcceptNapping, FreeFDs, TypeOK, Timely, GoTo, At
    <3>2. Doomed(o)
          BY <1>2, <3>1 DEF Timing, ClosedIsCondemned, Doomed, tables
    <3> QED BY <1>1, <3>1, <3>2 DEF tables
  <2>2. CASE Tick
    <3>1. /\ pc[v] = "nap" /\ pc[Main] = "sleep" /\ pc' = [pc EXCEPT ![Main] = "size"]
          /\ \A w \in Workers : MayTakeLong(w)
          /\ nap'[v] = IF nap[v] = 0 THEN 0 ELSE nap[v] - 1
          /\ UNCHANGED <<kernel, heap, tables, wfd>>
          BY <2>2 DEF Tick, At, GoTo, TypeOK, Timely, Threads
    <3>2. nap[v] = NapTicks /\ Doomed(o)
      <4>1. o = mapFDs[wfd[v]] /\ mapFDs[wfd[v]] # None /\ wfd[v] \in Unshared
            BY <3>1 DEF tables, kernel, Unshared
      <4>2. ~Awaits(o)
            BY <3>1 DEF Awaits, SweepLabels
      <4> QED BY <3>1, <4>1, <4>2 DEF Timing, NapIsSwept
    <3>3. o \in ToSet(del)
          BY <3>1, <3>2 DEF Doomed, Condemning, MayTakeLong, Threads
    <3>4. Awaits(o)'
      <4>1. PICK i \in 1 .. Len(del) : del[i] = o
            BY <3>3 DEF ToSet, TypeOK
      <4>2. del' = del /\ pc'[Main] = "size"
            BY <3>1 DEF tables, TypeOK, Threads
      <4> QED BY <4>1, <4>2 DEF Awaits
    <3> QED BY <3>1, <3>2, <3>4 DEF Timely
  <2>3. CASE pc[v] = "nap" /\ wfd'[v] = wfd[v] /\ nap'[v] = nap[v]
    <3>1. mapFDs[f] = o
      <4> SUFFICES ASSUME NEW w \in Workers, pc[w] = "insert", f = sfd[user[w]]
                   PROVE  FALSE
          BY EntryStep
      <4> QED BY <1>2, <2>3 DEF Timing, Setting, SetupAlone, SetupLabels, Naming, UserHasFD, Creating
    <3>2. \/ nap[v] = NapTicks /\ Doomed(o)
          \/ nap[v] = NapTicks - 1 /\ Awaits(o)
          BY <1>2, <2>3, <3>1 DEF Timing, NapIsSwept, Unshared
    <3>3. Awaits(o) => Awaits(o)'
          BY <3>1, AwaitsKept
    <3> QED BY <1>1, <2>3, <3>1, <3>2, <3>3
  <2> QED BY <2>1, <2>2, <2>3, NapStep
<1>4. ClosedIsCondemned'
  <2> SUFFICES ASSUME NEW f \in FDs \ shared', fdConn'[f] = None,
                      NEW o \in Objs, o = mapFDs'[f]
               PROVE  Doomed(o)'
      BY DEF ClosedIsCondemned, Doomed, TypeOK
  <2>1. mapFDs[f] = o
    <3> SUFFICES ASSUME NEW w \in Workers, pc[w] = "insert", f = sfd[user[w]], Insert(w)
                 PROVE  FALSE
        BY EntryStep
    <3>1. fdConn[f] # None
          BY <1>2 DEF Timing, Setting, MakingOpen, SetupLabels, MakingLabels, Unshared, Naming, UserHasFD, Creating
    <3> QED BY <3>1 DEF Insert, InsertUnder, kernel
  <2>2. CASE fdConn[f] = None
        BY <1>1, <1>2, <2>1, <2>2 DEF Timing, ClosedIsCondemned, Doomed
  <2>3. ASSUME NEW w \in Workers, f = wfd[w], CloseFD(w)
        PROVE  Doomed(o)'
    <3>1. /\ pc[w] = "close" /\ pc' = [pc EXCEPT ![w] = "lockDel"] /\ UNCHANGED target
          BY <2>3 DEF CloseFD, CloseThen, At, Continue, GoTo, locals
    <3>2. target[w] = o
          BY <1>2, <2>1, <2>3, <3>1 DEF Timing, Setting, CloserHasTarget, Unshared
    <3> QED BY <3>1, <3>2 DEF Doomed, Condemning, TypeOK, Threads
  <2>4. CASE BeatClose /\ f = cursor
    <3>1. /\ pc[Main] = "beatClose" /\ pc' = [pc EXCEPT ![Main] = "beatCondemn"]
          /\ UNCHANGED target
          BY <2>4 DEF BeatClose, At, Continue, GoTo, locals
    <3>2. target[Main] = o
          BY <2>1, <2>4, <3>1 DEF Naming, BeatIsFiled, BeatLabels
    <3> QED BY <3>1, <3>2 DEF Doomed, Condemning, TypeOK, Threads
  <2>5. CASE BeatCloseAgain /\ f = sfd[target[Main]]
    <3>1. /\ pc[Main] = "beatCloseAgain" /\ pc' = [pc EXCEPT ![Main] = "lockDel"]
          /\ UNCHANGED target
          BY <2>5 DEF BeatCloseAgain, At, Continue, GoTo, locals
    <3>2. target[Main] = o
          BY <2>1, <2>5, <3>1 DEF Naming, BeatIsFiled, BeatLabels
    <3> QED BY <3>1, <3>2 DEF Doomed, Condemning, TypeOK, Threads
  <2> QED BY <2>2, <2>3, <2>4, <2>5, CloseStep
<1> QED BY <1>3, <1>4

-----------------------------------------------------------------------------
(* The theorems. *)

LEMMA NamingInvariant == ASSUME ~HeapReuse PROVE Spec => [](IInv /\ Naming /\ Sweeping)
<1>1. Init => IInv /\ Naming /\ Sweeping
      BY InitEstablishes, InitNaming, InitSweeping
<1>2. IInv /\ Naming /\ Sweeping /\ [Next]_vars => (IInv /\ Naming /\ Sweeping)'
      BY StepPreserves, StepNaming, StepSweeping
<1> QED BY <1>1, <1>2, PTL DEF Spec

LEMMA TimingInvariant == ASSUME Timely PROVE Spec => []Timing
<1> ~HeapReuse
    BY DEF Timely
<1>1. Init => Timing
      BY InitTiming
<1>2. IInv /\ Naming /\ Sweeping /\ Timing /\ [Next]_vars => Timing'
      BY StepSetting, StepDoomed, StepFiling DEF Timing
<1> QED BY <1>1, <1>2, NamingInvariant, PTL DEF Spec

\* What clearDeleteFDs deletes and takes out of mapFDs is the session it found on
\* the delete list: never another one that got the same descriptor number.
SweepsTheCondemned ==
  pc[Main] = "free" => target[Main] = del[pos] /\ mapFDs[cursor] = del[pos]

\* It does so on every schedule, if no address is handed out while it is named.
THEOREM SweptIsCondemned == ASSUME ~HeapReuse PROVE Spec => []SweepsTheCondemned
<1>1. IInv /\ Sweeping => SweepsTheCondemned
      BY DEF IInv, VictimIsFiled, Sweeping, VictimIsListed, SweepsTheCondemned
<1> QED BY <1>1, NamingInvariant, PTL

\* setnewconnect never meets an older session of the descriptor it has accepted,
\* neither in mapFDs nor in the lock registry, however many threads and clients
\* there are, unless two threads have slept on one number at once.
THEOREM DescriptorIsFresh == ASSUME Timely PROVE Spec => []FreshDescriptor
<1> ~HeapReuse
    BY DEF Timely
<1>1. IInv /\ Timing => FreshDescriptor
  <2> SUFFICES ASSUME IInv, Timing, NEW w \in Workers, pc[w] = "create", wfd[w] \notin shared
               PROVE  mapFDs[wfd[w]] = None /\ wfd[w] \notin mapLocks
      BY DEF FreshDescriptor
  <2>1. wfd[w] \in Unshared
        BY DEF IInv, WorkerHasFD, Unshared
  <2>2. mapFDs[wfd[w]] = None
        BY <2>1 DEF Timing, Setting, MakingFresh, SetupLabels, MakingLabels
  <2>3. None \notin alloc
        BY ConstantsAssumption DEF IInv, TypeOK
  <2>4. ASSUME wfd[w] \in mapLocks
        PROVE  FALSE
    <3>1. PICK v \in Workers : pc[v] \in {"lockAll", "insert"} /\ wfd[v] = wfd[w]
          BY <2>2, <2>3, <2>4 DEF Timing, LocksAreFiled
    <3> QED BY <3>1 DEF Timing, Setting, SetupAlone, SetupLabels
  <2> QED BY <2>2, <2>4
<1> QED BY <1>1, NamingInvariant, TimingInvariant, PTL

\* No close leaves an entry of mapFDs behind that nobody condemns.
THEOREM ClosedGetsCondemned == ASSUME Timely PROVE Spec => []ClosedIsCondemned
<1>1. Timing => ClosedIsCondemned
      BY DEF Timing
<1> QED BY <1>1, TimingInvariant, PTL

\* No live session is outside mapFDs, where no sweep would find it.
THEOREM NoSessionIsLost == ASSUME Timely PROVE Spec => []NoOrphanSession
<1>1. Timing => NoOrphanSession
      BY DEF Timing
<1> QED BY <1>1, TimingInvariant, PTL
=============================================================================
