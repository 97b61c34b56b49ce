-------------------------- MODULE SpinMutexProofs --------------------------
(***************************************************************************)
(* For any set of threads: spin_mutex excludes, its flag is set exactly    *)
(* while somebody holds it, and its steps are steps of the abstract lock.  *)
(***************************************************************************)
EXTENDS SpinMutex, TLAPS

\* Exclusion is not inductive alone: a thread in the loop acquires when it
\* reads FALSE, and only FlagMeansHeld says that nobody holds the lock then.
IInv == TypeOK /\ FlagMeansHeld /\ MutualExclusion

LEMMA InitEstablishes == Init => IInv
  BY DEF Init, IInv, TypeOK, FlagMeansHeld, MutualExclusion

LEMMA StepPreserves == IInv /\ [Next]_vars => IInv'
<1> SUFFICES ASSUME IInv, [Next]_vars
             PROVE  IInv'
    OBVIOUS
<1> USE DEF IInv, TypeOK, FlagMeansHeld, MutualExclusion
<1>1. ASSUME NEW t \in Threads, CallLock(t)
      PROVE  IInv'
      BY <1>1 DEF CallLock
<1>2. ASSUME NEW t \in Threads, CallTrylock(t)
      PROVE  IInv'
      BY <1>2 DEF CallTrylock
<1>3. ASSUME NEW t \in Threads, Exchange(t)
      PROVE  IInv'
  <2>1. CASE flag
        BY <1>3, <2>1 DEF Exchange, ExchangeUnless, Spinning
  <2>2. CASE ~flag
        BY <1>3, <2>2 DEF Exchange, ExchangeUnless, Spinning
  <2> QED BY <2>1, <2>2
<1>4. ASSUME NEW t \in Threads, TestFlag(t)
      PROVE  IInv'
      BY <1>4 DEF TestFlag, Test
<1>5. ASSUME NEW t \in Threads, Unlock(t)
      PROVE  IInv'
      BY <1>5 DEF Unlock
<1>6. CASE UNCHANGED vars
      BY <1>6 DEF vars
<1> QED BY <1>1, <1>2, <1>3, <1>4, <1>5, <1>6 DEF Next

LEMMA InductiveInvariant == Spec => []IInv
<1> QED BY InitEstablishes, StepPreserves, PTL DEF Spec

\* spin_mutex: types, for any number of threads.
THEOREM TypeCorrect == Spec => []TypeOK
<1>1. IInv => TypeOK
      BY DEF IInv
<1> QED BY <1>1, InductiveInvariant, PTL

\* spin_mutex: at most one thread between acquisition and unlock(), for any
\* number of threads that use lock() and trylock() in any mixture.
THEOREM Exclusion == Spec => []MutualExclusion
<1>1. IInv => MutualExclusion
      BY DEF IInv
<1> QED BY <1>1, InductiveInvariant, PTL

\* spin_mutex: no thread leaves the flag set behind it.
THEOREM FlagTruthful == Spec => []FlagMeansHeld
<1>1. IInv => FlagMeansHeld
      BY DEF IInv
<1> QED BY <1>1, InductiveInvariant, PTL

-----------------------------------------------------------------------------
LEMMA InitRefines == Init => A!Init
  BY DEF Init, A!Init, statusOf, Spinning

LEMMA StepRefines == IInv /\ [Next]_vars => [A!Next]_([t \in Threads |-> statusOf(t)])
<1> SUFFICES ASSUME IInv, [Next]_vars
             PROVE  [A!Next]_([t \in Threads |-> statusOf(t)])
    OBVIOUS
<1> USE DEF IInv, TypeOK, statusOf, Spinning
<1>1. ASSUME NEW t \in Threads, CallLock(t)
      PROVE  A!Request(t)
      BY <1>1 DEF CallLock, A!Request
<1>2. ASSUME NEW t \in Threads, CallTrylock(t)
      PROVE  UNCHANGED [u \in Threads |-> statusOf(u)]
      BY <1>2 DEF CallTrylock
<1>3. ASSUME NEW t \in Threads, Exchange(t), ~flag
      PROVE  A!Grant(t)
      BY <1>3 DEF Exchange, ExchangeUnless, FlagMeansHeld, A!Grant, A!Held
<1>4. ASSUME NEW t \in Threads, Exchange(t), flag
      PROVE  UNCHANGED [u \in Threads |-> statusOf(u)]
      BY <1>4 DEF Exchange, ExchangeUnless
<1>5. ASSUME NEW t \in Threads, TestFlag(t), ~flag
      PROVE  A!Request(t)
      BY <1>5 DEF TestFlag, Test, A!Request
<1>6. ASSUME NEW t \in Threads, TestFlag(t), flag
      PROVE  UNCHANGED [u \in Threads |-> statusOf(u)]
      BY <1>6 DEF TestFlag, Test
<1>7. ASSUME NEW t \in Threads, Unlock(t)
      PROVE  A!Release(t)
      BY <1>7 DEF Unlock, A!Release
<1>8. CASE UNCHANGED vars
      BY <1>8 DEF vars
<1> QED BY <1>1, <1>2, <1>3, <1>4, <1>5, <1>6, <1>7, <1>8 DEF Next, A!Next

\* Every step of spin_mutex is a step of the abstract lock, or leaves it alone:
\* lock() and a trylock() that found the flag clear ask, the exchange grants.
THEOREM Refinement == Spec => A!Init /\ [][A!Next]_([t \in Threads |-> statusOf(t)])
<1> QED BY InitRefines, StepRefines, InductiveInvariant, PTL DEF Spec
=============================================================================
