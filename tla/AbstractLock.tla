---------------------------- MODULE AbstractLock ----------------------------
(***************************************************************************)
(* What a thread may expect of a lock, whatever it is made of: a caller is *)
(* idle, waits, or holds; at most one caller holds; a try answers at once. *)
(* spin_mutex (Module/ModuleLock.h) is shown to implement this module.     *)
(***************************************************************************)
CONSTANT Threads

VARIABLE status  \* status[t]: where thread t stands with respect to the lock

Held == \E t \in Threads : status[t] = "holding"

Init == status = [t \in Threads |-> "idle"]

\* A thread asks for the lock; from here on it cannot do anything else.
Request(t) ==
  /\ status[t] = "idle"
  /\ status' = [status EXCEPT ![t] = "waiting"]

\* The lock is granted to a thread that waits, while nobody holds it.
Grant(t) ==
  /\ status[t] = "waiting"
  /\ ~Held
  /\ status' = [status EXCEPT ![t] = "holding"]

Release(t) ==
  /\ status[t] = "holding"
  /\ status' = [status EXCEPT ![t] = "idle"]

GrantSome == \E t \in Threads : Grant(t)

Next == \E t \in Threads : Request(t) \/ Grant(t) \/ Release(t)

\* Whoever waits is not promised the lock, only that somebody gets a free one.
Spec == Init /\ [][Next]_status /\ WF_status(GrantSome)
=============================================================================
