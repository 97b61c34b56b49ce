---------------------------- MODULE HeartbeatProofs ----------------------------
(***************************************************************************)
(* The bounds of Heartbeat, proved for any set of clients and any delay of *)
(* main().  SilenceMatchesAge ties the silence of a session, in half       *)
(* seconds, to its age in cut seconds.  A scan leaves no session older     *)
(* than HeartLimit, and from then on ages and sinceCheck grow together     *)
(* (ScannedYoung).  ListedIsYoung carries the bound through a round.       *)
(***************************************************************************)
EXTENDS Heartbeat, TLAPS

\* A silence of s ticks that began in half b of a second is an age of
\* (s + b - half) / 2 seconds.
SilenceMatchesAge ==
  \A c \in Clients :
    state[c] # "out" =>
      \/ silent[c] = 2 * age[c] + half
      \/ silent[c] + 1 = 2 * age[c] + half

\* Between the rounds every session was young at the last scan; within a scan,
\* those that have been looked at are young now.
ScannedYoung ==
  \A c \in Clients :
    state[c] = "in" =>
      /\ main = "sleep" => age[c] <= HeartLimit + sinceCheck
      /\ main = "scan" /\ c \notin todo => age[c] <= HeartLimit

\* The bound of a session, by when main() last went to sleep.
Limit == 2 * HeartLimit + 2 * ScanPeriod + 1
ListedIsYoung ==
  \A c \in Clients :
    /\ state[c] \in {"in", "judged"} => silent[c] <= Limit + elapsed
    /\ state[c] = "condemned" =>
         /\ main = "scan" => silent[c] <= Limit + elapsed
         /\ main = "sleep" => silent[c] <= Limit + Nap + MaxDelay + elapsed

JudgedInScan ==
  \A c \in Clients : state[c] = "judged" => main = "scan"

IInv ==
  /\ TypeOK
  /\ SilenceMatchesAge
  /\ ScannedYoung
  /\ ListedIsYoung
  /\ JudgedInScan

\* The initial state has no session.
LEMMA InitEstablishes == Init => IInv
  BY DelayAssumption DEF Init, IInv, TypeOK, SilenceMatchesAge, ScannedYoung,
     ListedIsYoung, JudgedInScan, Nap, ScanPeriod

\* Every step of a client, a worker, the clock or main() keeps the invariant.
LEMMA StepPreserves == IInv /\ [Next]_vars => IInv'
<1> USE DelayAssumption DEF IInv, TypeOK, SilenceMatchesAge, ScannedYoung,
      ListedIsYoung, JudgedInScan, Limit, Nap, ScanPeriod, HeartLimit
<1> SUFFICES ASSUME IInv, [Next]_vars PROVE IInv'
  OBVIOUS
<1>1. ASSUME NEW c \in Clients, Join(c) PROVE IInv'
  BY <1>1 DEF Join, Fresh
<1>2. ASSUME NEW c \in Clients, Beat(c) PROVE IInv'
  BY <1>2 DEF Beat, Fresh
<1>3. ASSUME NEW c \in Clients, Leave(c) PROVE IInv'
  BY <1>3 DEF Leave
<1>4. CASE Tick
  BY <1>4 DEF Tick, TickOf, Alive
<1>5. CASE Sweep
  BY <1>5 DEF Sweep, SweepThen
<1>6. CASE Judge
  BY <1>6 DEF Judge, JudgeBy
<1>7. CASE Condemn
  BY <1>7 DEF Condemn, Judged
<1>8. CASE EndScan
  BY <1>8 DEF EndScan, Judged
<1>9. CASE UNCHANGED vars
  BY <1>9 DEF vars
<1> QED
  BY <1>1, <1>2, <1>3, <1>4, <1>5, <1>6, <1>7, <1>8, <1>9 DEF Next

THEOREM InductiveInvariant == Spec => []IInv
  BY InitEstablishes, StepPreserves, PTL DEF Spec

\* The variables keep their types.
THEOREM TypeCorrect == Spec => []TypeOK
<1>1. IInv => TypeOK
  BY DEF IInv
<1> QED
  BY <1>1, InductiveInvariant, PTL

\* A session nobody has condemned was heard of in the last 21.5 s, a round and
\* a delay of main() (GameMgr.cpp:130-135): the scan misses nobody.
THEOREM SilenceBounded == Spec => []SilenceBound
<1>1. IInv => SilenceBound
  BY DelayAssumption DEF IInv, TypeOK, ListedIsYoung, SilenceBound, Limit, Nap,
     ScanPeriod, HeartLimit
<1> QED
  BY <1>1, InductiveInvariant, PTL

\* A silent session is deleted a round later (GameMgr.cpp:105-126).
THEOREM DeadDeleted == Spec => []DeadIsDeleted
<1>1. IInv => DeadIsDeleted
  BY DelayAssumption DEF IInv, TypeOK, ListedIsYoung, JudgedInScan, DeadIsDeleted,
     Limit, Nap, ScanPeriod, HeartLimit
<1> QED
  BY <1>1, InductiveInvariant, PTL

\* The scan judges nobody dead who was heard of in the last 18 s.
THEOREM BeatingIsSafe == Spec => BeatingSurvives
<1>1. IInv /\ [Next]_vars => [JudgesOnlyTheSilent]_vars
  <2> SUFFICES ASSUME IInv, Next PROVE JudgesOnlyTheSilent
    OBVIOUS
  <2> USE DEF IInv, TypeOK, SilenceMatchesAge, HeartLimit, JudgesOnlyTheSilent
  <2>1. ASSUME NEW c \in Clients, Join(c) \/ Beat(c) \/ Leave(c) PROVE JudgesOnlyTheSilent
    BY <2>1 DEF Join, Beat, Leave
  <2>2. CASE Tick
    BY <2>2 DEF Tick, TickOf
  <2>3. CASE Sweep
    BY <2>3 DEF Sweep, SweepThen
  <2>4. CASE Judge
    BY <2>4 DEF Judge, JudgeBy
  <2>5. CASE Condemn \/ EndScan
    BY <2>5 DEF Condemn, EndScan
  <2> QED
    BY <2>1, <2>2, <2>3, <2>4, <2>5 DEF Next
<1> QED
  BY <1>1, InductiveInvariant, PTL DEF Spec, BeatingSurvives
=============================================================================
