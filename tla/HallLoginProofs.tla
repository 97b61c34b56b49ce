---------------------------- MODULE HallLoginProofs ----------------------------
(***************************************************************************)
(* The properties of HallLogin, for any number of threads, sessions and    *)
(* tokens.  RaceFree is the argument about duplicates: for a token that    *)
(* was never raced for, at most one handler claims it, nobody holds it     *)
(* meanwhile, and at most one session holds it.  MsgHasSession ties every  *)
(* handler at work to a session that stays, NewcomersAreBlank says what a  *)
(* session that arrives brings with it.                                    *)
(***************************************************************************)
EXTENDS HallLogin, TLAPS

\* A handler at work has a session, which cannot leave, and a token.
MsgHasSession ==
  \A w \in Workers :
    IF pc[w] = "idle" THEN on[w] = None
                      ELSE on[w] \in present /\ tok[w] \in Tokens

NewcomersAreBlank == \A s \in Sessions \ present : code[s] = None

RaceFree ==
  \A t \in Tokens \ raced :
    /\ \A w, u \in Workers : Claims(w, t) /\ Claims(u, t) => w = u
    /\ \A w \in Workers, s \in present : Claims(w, t) => code[s] # t
    /\ \A r, s \in present : code[r] = t /\ code[s] = t => r = s

IInv ==
  /\ TypeOK
  /\ MsgHasSession
  /\ NewcomersAreBlank
  /\ RaceFree
  /\ CodeAccountedFor
  /\ DanglingIsReplaced

\* Initially there are no sessions and nobody works.
LEMMA InitEstablishes == Init => IInv
  BY DEF Init, IInv, TypeOK, MsgHasSession, NewcomersAreBlank, RaceFree, Claims,
     CodeAccountedFor, DanglingIsReplaced, Labels

\* Every step of a session or of a handler keeps the invariant.
LEMMA StepPreserves == IInv /\ [Next]_vars => IInv'
<1> USE ConstantsAssumption DEF IInv, TypeOK, MsgHasSession, NewcomersAreBlank,
      RaceFree, Claims, CodeAccountedFor, DanglingIsReplaced, Labels, At, GoTo,
      Proceed, Return, SetCode, DeleteCode, msg, history
<1> SUFFICES ASSUME IInv, [Next]_vars PROVE IInv'
  OBVIOUS
<1>1. ASSUME NEW s \in Sessions, Arrive(s) PROVE IInv'
  BY <1>1 DEF Arrive
<1>2. ASSUME NEW s \in Sessions, Leave(s) PROVE IInv'
  BY <1>2 DEF Leave
<1>3. ASSUME NEW w \in Workers, Receive(w) PROVE IInv'
  <2>1. (TypeOK /\ MsgHasSession /\ NewcomersAreBlank)'
    BY <1>3 DEF Receive, EntersHall
  <2>2. RaceFree'
    BY <1>3 DEF Receive, EntersHall
  <2>3. CodeAccountedFor'
    BY <1>3 DEF Receive, EntersHall
  <2>4. DanglingIsReplaced'
    BY <1>3 DEF Receive, EntersHall
  <2> QED
    BY <2>1, <2>2, <2>3, <2>4
<1>4. ASSUME NEW w \in Workers, EnterRoom(w) PROVE IInv'
  <2> DEFINE c == code[on[w]]
  <2>0. crashed' \in {c = None, c \in {None, Freed}}
    BY <1>4, Zenon DEF EnterRoom
  <2>1. crashed' \in BOOLEAN
    <3>1. (c = None) \in BOOLEAN /\ (c \in {None, Freed}) \in BOOLEAN
      OBVIOUS
    <3> QED
      BY <2>0, <3>1, Zenon
  <2> QED
    BY <1>4, <2>1 DEF EnterRoom
<1>5. ASSUME NEW w \in Workers, CheckFinds(w) PROVE IInv'
  BY <1>5 DEF CheckFinds, Holders, Dangling
<1>6. ASSUME NEW w \in Workers, CheckMisses(w) PROVE IInv'
  BY <1>6 DEF CheckMisses, CheckMissesGiven, Holders
<1>7. ASSUME NEW w \in Workers, CheckCrashes(w) PROVE IInv'
  BY <1>7 DEF CheckCrashes
<1>8. ASSUME NEW w \in Workers, Reply(w) PROVE IInv'
  <2>1. (TypeOK /\ MsgHasSession /\ NewcomersAreBlank)'
    BY <1>8 DEF Reply
  <2>2. RaceFree'
    BY <1>8 DEF Reply
  <2>3. CodeAccountedFor'
    BY <1>8 DEF Reply
  <2>4. DanglingIsReplaced'
    BY <1>8 DEF Reply
  <2> QED
    BY <2>1, <2>2, <2>3, <2>4
<1>9. ASSUME NEW w \in Workers, FreeOld(w) PROVE IInv'
  <2>0. crashed' \in BOOLEAN
    BY <1>9, Zenon DEF FreeOld
  <2>1. (TypeOK /\ MsgHasSession /\ NewcomersAreBlank)'
    BY <1>9, <2>0 DEF FreeOld
  <2>2. RaceFree'
    BY <1>9 DEF FreeOld
  <2>3. CodeAccountedFor'
    BY <1>9 DEF FreeOld
  <2>4. DanglingIsReplaced'
    BY <1>9 DEF FreeOld
  <2> QED
    BY <2>1, <2>2, <2>3, <2>4
<1>10. ASSUME NEW w \in Workers, Store(w) PROVE IInv'
  <2>1. (TypeOK /\ MsgHasSession /\ NewcomersAreBlank)'
    BY <1>10 DEF Store
  <2>2. RaceFree'
    BY <1>10 DEF Store
  <2>3. CodeAccountedFor'
    BY <1>10 DEF Store
  <2>4. DanglingIsReplaced'
    BY <1>10 DEF Store
  <2> QED
    BY <2>1, <2>2, <2>3, <2>4
<1>11. ASSUME NEW w \in Workers, Confirm(w) PROVE IInv'
  <2>1. (TypeOK /\ MsgHasSession /\ NewcomersAreBlank)'
    BY <1>11 DEF Confirm, ConfirmFor
  <2>2. RaceFree'
    BY <1>11 DEF Confirm, ConfirmFor
  <2>3. CodeAccountedFor'
    BY <1>11 DEF Confirm, ConfirmFor
  <2>4. DanglingIsReplaced'
    BY <1>11 DEF Confirm, ConfirmFor
  <2> QED
    BY <2>1, <2>2, <2>3, <2>4
<1>12. ASSUME NEW w \in Workers, Deny(w) PROVE IInv'
  <2>1. crashed' \in BOOLEAN
    BY <1>12, Zenon DEF Deny
  <2> QED
    BY <1>12, <2>1 DEF Deny
<1>13. ASSUME NEW w \in Workers, Clear(w) PROVE IInv'
  <2>1. (TypeOK /\ MsgHasSession /\ NewcomersAreBlank)'
    BY <1>13 DEF Clear, ClearTo
  <2>2. RaceFree'
    BY <1>13 DEF Clear, ClearTo
  <2>3. CodeAccountedFor'
    BY <1>13 DEF Clear, ClearTo
  <2>4. DanglingIsReplaced'
    BY <1>13 DEF Clear, ClearTo
  <2> QED
    BY <2>1, <2>2, <2>3, <2>4
<1>14. ASSUME NEW w \in Workers, NoAnswer(w) PROVE IInv'
  BY <1>14 DEF NoAnswer
<1>15. CASE UNCHANGED vars
  BY <1>15 DEF vars
<1> QED
  BY <1>1, <1>2, <1>3, <1>4, <1>5, <1>6, <1>7, <1>8, <1>9, <1>10, <1>11, <1>12,
     <1>13, <1>14, <1>15 DEF Next

THEOREM InductiveInvariant == Spec => []IInv
  BY InitEstablishes, StepPreserves, PTL DEF Spec

\* The variables keep their types.
THEOREM TypeCorrect == Spec => []TypeOK
<1>1. IInv => TypeOK
  BY DEF IInv
<1> QED
  BY <1>1, InductiveInvariant, PTL

\* Two sessions share an auth code only after a race of two searches for it
\* (GameMgr.cpp:147-161 beside Hall.cpp:166-184 or 311-325).
THEOREM DuplicatesRace == Spec => []DuplicateNeedsRace
<1>1. IInv => DuplicateNeedsRace
  BY DEF IInv, RaceFree, DuplicateNeedsRace
<1> QED
  BY <1>1, InductiveInvariant, PTL

\* Only a silent web service leaves a code behind (Hall.cpp:140-145, 281-289).
THEOREM CodesAccounted == Spec => []CodeAccountedFor
<1>1. IInv => CodeAccountedFor
  BY DEF IInv
<1> QED
  BY <1>1, InductiveInvariant, PTL

\* A deleted code is replaced by the handlers of its own session
\* (Hall.cpp:142-144, 283-288, 316-325).
THEOREM DanglingReplaced == Spec => []DanglingIsReplaced
<1>1. IInv => DanglingIsReplaced
  BY DEF IInv
<1> QED
  BY <1>1, InductiveInvariant, PTL
=============================================================================
