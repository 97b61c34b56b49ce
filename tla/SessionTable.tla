---------------------------- MODULE SessionTable ----------------------------
(***************************************************************************)
(* What the rest of the server may expect of the registry of connections,  *)
(* with no thread, lock or list in sight: a session is made for one        *)
(* descriptor number, entered once under that number unless another one    *)
(* has the entry, and leaves the table and the heap in one step.  A        *)
(* session that is refused its entry is never deleted.  GameMgr and its    *)
(* callers (ConnRegistry) are shown to implement this module.              *)
(***************************************************************************)
CONSTANTS FDs, Objs, None

VARIABLES
  table,   \* table[f]: the session a search for descriptor f finds, or None
  live,    \* the sessions that exist
  number   \* number[o]: the descriptor session o was made for, 0 if it is gone

Init ==
  /\ table = [f \in FDs |-> None]
  /\ live = {}
  /\ number = [o \in Objs |-> 0]

Make(o, f) ==
  /\ o \notin live
  /\ live' = live \cup {o}
  /\ number' = [number EXCEPT ![o] = f]
  /\ UNCHANGED table

\* An entry is never overwritten: its session has to be removed first.
Register(o) ==
  /\ o \in live
  /\ table[number[o]] = None
  /\ table' = [table EXCEPT ![number[o]] = o]
  /\ UNCHANGED <<live, number>>

\* The session found under f is deleted, and f is free for the next one.
Remove(f) ==
  /\ table[f] \in live
  /\ number[table[f]] = f
  /\ live' = live \ {table[f]}
  /\ number' = [number EXCEPT ![table[f]] = 0]
  /\ table' = [table EXCEPT ![f] = None]

Next ==
  \/ \E o \in Objs, f \in FDs : Make(o, f)
  \/ \E o \in Objs : Register(o)
  \/ \E f \in FDs : Remove(f)

Spec == Init /\ [][Next]_<<table, live, number>>
=============================================================================
