------------------------------- MODULE Heartbeat -------------------------------
(***************************************************************************)
(* How long a silent client lives: the clock of the server in whole        *)
(* seconds (ModuleTime::getLocalTimeNumber), the heartbeat handlers of     *)
(* ServerControl/Hall.cpp and SubGameServer.cpp, and the main loop, which  *)
(* every 500 ms sweeps the delete list and every 3 s scans all sessions    *)
(* for an old heartbeat (main.cpp, GameMgr::clearDeleteFDs).               *)
(*                                                                         *)
(* Time passes in ticks of 500 ms.  The code keeps absolute times; here    *)
(* are kept the differences it compares, which roll over with the second.  *)
(* A round of main() takes no time, but handlers run between its steps.    *)
(***************************************************************************)
EXTENDS Naturals

CONSTANTS
  Clients,   \* the clients; each has at most one session at a time
  MaxDelay   \* how many ticks late the scheduler may wake main()

ASSUME DelayAssumption == MaxDelay \in Nat

VARIABLES
  half,       \* 1 in the second half of a second of the wall clock
  elapsed,    \* ticks since main() went to sleep
  sinceCheck, \* now - lastCheckTime, in seconds
  main,       \* "sleep", or "scan" while main() walks over the sessions
  todo,       \* the sessions the scan has still to look at
  state,      \* state[c]: "out", or the session is "in" mapFDs, "judged" dead
              \* by the scan, "condemned" to be deleted
  age,        \* age[c]: now - getLastHeartTime(), in seconds
  silent      \* silent[c]: ticks since the session began or its last heartbeat

vars == <<half, elapsed, sinceCheck, main, todo, state, age, silent>>

Nap == 1          \* sleep_for(500 ms), in ticks
ScanPeriod == 2   \* a scan when more than so many seconds have passed
HeartLimit == 18  \* a session is dead when its heartbeat is older, in seconds

\* lastCheckTime is 0, the epoch: the first round scans, so any value over
\* ScanPeriod stands for "never".
Init ==
  /\ half \in {0, 1}
  /\ elapsed = Nap
  /\ sinceCheck = ScanPeriod + 1
  /\ main = "sleep"
  /\ todo = {}
  /\ state = [c \in Clients |-> "out"]
  /\ age = [c \in Clients |-> 0]
  /\ silent = [c \in Clients |-> 0]

\* The last heartbeat of c is now.
Fresh(c) ==
  /\ age' = [age EXCEPT ![c] = 0]
  /\ silent' = [silent EXCEPT ![c] = 0]

\* NUSocket::init starts the heartbeat, pushNewConnect files the session.
Join(c) ==
  /\ state[c] = "out"
  /\ state' = [state EXCEPT ![c] = "in"]
  /\ Fresh(c)
  /\ UNCHANGED <<half, elapsed, sinceCheck, main, todo>>

\* A worker handles the heartbeat of c: HEARTBEAT or HEARTBEAT_GL.
Beat(c) ==
  /\ state[c] # "out"
  /\ Fresh(c)
  /\ UNCHANGED <<half, elapsed, sinceCheck, main, todo, state>>

\* A worker reads the end of the connection: pushDeleteFDS(fd).
Leave(c) ==
  /\ state[c] \in {"in", "judged"}
  /\ state' = [state EXCEPT ![c] = "condemned"]
  /\ UNCHANGED <<half, elapsed, sinceCheck, main, todo, age, silent>>

Alive == {c \in Clients : state[c] # "out"}

\* 500 ms pass.  time() rolls over at the end of the second half.
TickOf(overdue) ==
  /\ main = "sleep"
  /\ elapsed < overdue
  /\ half' = 1 - half
  /\ elapsed' = elapsed + 1
  /\ sinceCheck' = sinceCheck + half
  /\ age' = [c \in Clients |-> IF c \in Alive THEN age[c] + half ELSE 0]
  /\ silent' = [c \in Clients |-> IF c \in Alive THEN silent[c] + 1 ELSE 0]
  /\ UNCHANGED <<main, todo, state>>

TickLong == TickOf(Nap + MaxDelay + 1)  \* mutant: main() sleeps a tick longer
Tick == TickOf(Nap + MaxDelay)

\* A round begins: what is on the delete list is deleted, and when the last
\* scan is long enough ago a new one starts.
SweepThen(kept, due) ==
  /\ main = "sleep"
  /\ elapsed >= Nap
  /\ state' = [c \in Clients |-> IF state[c] = "condemned" THEN kept ELSE state[c]]
  /\ IF due
       THEN /\ main' = "scan"
            /\ todo' = {c \in Clients : state[c] = "in"}
            /\ sinceCheck' = 0
            /\ UNCHANGED elapsed
       ELSE /\ elapsed' = 0
            /\ UNCHANGED <<main, todo, sinceCheck>>
  /\ UNCHANGED <<half, age, silent>>

SweepKeeps == SweepThen("condemned", sinceCheck > ScanPeriod)  \* mutant: deletes nothing
SweepRarely == SweepThen("out", sinceCheck > ScanPeriod + 1)   \* mutant: scans every 4 s
Sweep == SweepThen("out", sinceCheck > ScanPeriod)

Judged == {c \in Clients : state[c] = "judged"}

JudgeBy(dead) ==
  /\ main = "scan"
  /\ Judged = {}
  /\ \E c \in todo :
       /\ todo' = todo \ {c}
       /\ state' = IF state[c] = "in" /\ c \in dead
                     THEN [state EXCEPT ![c] = "judged"]
                     ELSE state
  /\ UNCHANGED <<half, elapsed, sinceCheck, main, age, silent>>

\* Mutant: >= for >, as nowCheckTime - getLastHeartTime() >= 18.
JudgeEarly == JudgeBy({c \in Clients : age[c] >= HeartLimit})
\* The scan looks at the next session.
Judge == JudgeBy({c \in Clients : age[c] > HeartLimit})

\* ... and closes it and puts it on the delete list, even if a heartbeat has
\* come since the look.
Condemn ==
  /\ main = "scan"
  /\ \E c \in Judged : state' = [state EXCEPT ![c] = "condemned"]
  /\ UNCHANGED <<half, elapsed, sinceCheck, main, todo, age, silent>>

\* The scan is over and main() sleeps.
EndScan ==
  /\ main = "scan"
  /\ todo = {} /\ Judged = {}
  /\ main' = "sleep"
  /\ elapsed' = 0
  /\ UNCHANGED <<half, sinceCheck, todo, state, age, silent>>

Next ==
  \/ \E c \in Clients : Join(c) \/ Beat(c) \/ Leave(c)
  \/ Tick
  \/ Sweep \/ Judge \/ Condemn \/ EndScan

Spec == Init /\ [][Next]_vars

-----------------------------------------------------------------------------
TypeOK ==
  /\ half \in {0, 1}
  /\ elapsed \in 0 .. Nap + MaxDelay
  /\ sinceCheck \in Nat
  /\ main \in {"sleep", "scan"}
  /\ todo \subseteq Clients
  /\ state \in [Clients -> {"out", "in", "judged", "condemned"}]
  /\ age \in [Clients -> Nat]
  /\ silent \in [Clients -> Nat]

JudgesOnlyTheSilent ==
  \A c \in Clients :
    state[c] = "in" /\ state'[c] = "judged" => silent[c] > 2 * HeartLimit

\* A session that has been heard of in the last 18 s is never judged dead,
\* although both times are cut to whole seconds (GameMgr.cpp:135).
BeatingSurvives == [][JudgesOnlyTheSilent]_vars

\* A session that nobody has condemned has been silent for at most 18 s, plus
\* what passes until the next scan: 2.5 s, and a round of main().
SilenceBound ==
  \A c \in Clients :
    state[c] = "in" =>
      silent[c] <= 2 * HeartLimit + 2 * ScanPeriod + 1 + Nap + MaxDelay

\* The session of a client that has fallen silent is deleted one more round of
\* main() later, whether the scan or the end of the connection condemned it.
DeadIsDeleted ==
  \A c \in Clients :
    state[c] # "out" =>
      silent[c] <= 2 * HeartLimit + 2 * ScanPeriod + 1 + 2 * (Nap + MaxDelay)
=============================================================================
