----------------------------- MODULE SpinMutex -----------------------------
(***************************************************************************)
(* class spin_mutex of Module/ModuleLock.h: one atomic flag that threads   *)
(* take with lock() or trylock() and give back with unlock().  The atomic  *)
(* accesses (load, exchange, store) are the atomic steps of the model.     *)
(***************************************************************************)
CONSTANT Threads

VARIABLES
  flag,  \* the std::atomic<bool>
  pc     \* pc[t]: "idle" outside; "lock" and "tryLock" inside the exchange
         \* loop, the latter called from trylock(); "try" before trylock()
         \* reads the flag; "held" between the acquisition and unlock()

vars == <<flag, pc>>

Spinning == {"lock", "tryLock"}

Init ==
  /\ flag = FALSE
  /\ pc = [t \in Threads |-> "idle"]

CallLock(t) ==
  /\ pc[t] = "idle"
  /\ pc' = [pc EXCEPT ![t] = "lock"]
  /\ UNCHANGED flag

CallTrylock(t) ==
  /\ pc[t] = "idle"
  /\ pc' = [pc EXCEPT ![t] = "try"]
  /\ UNCHANGED flag

ExchangeUnless(t, busy) ==
  /\ pc[t] \in Spinning
  /\ flag' = TRUE
  /\ pc' = [pc EXCEPT ![t] = IF busy THEN @ ELSE "held"]

\* Mutant: trylock() does not loop, it trusts its earlier look at the flag.
ExchangeTrustsTest(t) == ExchangeUnless(t, flag /\ pc[t] = "lock")

\* One turn of "while (flag.exchange(true));": the flag is set whatever it
\* was, and the loop ends for the thread that read FALSE.
Exchange(t) == ExchangeUnless(t, flag)

Test(t, next, newFlag) ==
  /\ pc[t] = "try"
  /\ pc' = [pc EXCEPT ![t] = IF flag THEN "idle" ELSE next]
  /\ flag' = newFlag

TestStrays(t) == Test(t, "tried", flag)    \* mutant: a label nothing continues
TestSetsFlag(t) == Test(t, "tryLock", TRUE) \* mutant: sets the flag before lock()

\* "if (flag == false)": trylock() either calls lock() or returns false.
TestFlag(t) == Test(t, "tryLock", flag)

Unlock(t) ==
  /\ pc[t] = "held"
  /\ flag' = FALSE
  /\ pc' = [pc EXCEPT ![t] = "idle"]

Next ==
  \E t \in Threads :
    \/ CallLock(t)
    \/ CallTrylock(t)
    \/ Exchange(t)
    \/ TestFlag(t)
    \/ Unlock(t)

\* A thread inside a call keeps running.  Nothing makes it call, and nothing
\* makes a holder give the lock back.
Fairness == \A t \in Threads : WF_vars(Exchange(t)) /\ WF_vars(TestFlag(t))

Spec == Init /\ [][Next]_vars /\ Fairness

-----------------------------------------------------------------------------
TypeOK ==
  /\ flag \in BOOLEAN
  /\ pc \in [Threads -> {"idle", "lock", "try", "tryLock", "held"}]

\* At most one thread is between lock()/trylock() returning true and unlock().
MutualExclusion ==
  \A t, u \in Threads : pc[t] = "held" /\ pc[u] = "held" => t = u

\* The flag is set exactly while a thread holds the lock: no failed attempt
\* and no unlock() leaves it set with nobody to clear it (every later lock()
\* would spin for ever).
FlagMeansHeld == flag <=> \E t \in Threads : pc[t] = "held"

\* A thread in the exchange loop is not left alone with a free lock: it, or
\* another thread, acquires it.
SpinnerServed ==
  (\E t \in Threads : pc[t] \in Spinning) ~> (\E t \in Threads : pc[t] = "held")

\* The abstract lock: who is in the exchange loop waits, who acquired holds;
\* a trylock() that has not read the flag yet has not asked for anything.
statusOf(t) ==
  IF pc[t] \in Spinning THEN "waiting" ELSE IF pc[t] = "held" THEN "holding" ELSE "idle"

A == INSTANCE AbstractLock WITH status <- [t \in Threads |-> statusOf(t)]

\* Every behaviour of spin_mutex is one of the abstract lock.
ImplementsAbstractLock == A!Spec
=============================================================================
