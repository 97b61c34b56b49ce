------------------------------- MODULE HallLogin -------------------------------
(***************************************************************************)
(* Who is logged in: the handlers of ServerControl/Hall.cpp that give a    *)
(* session its auth code and its user (userLogin, returnGame and their     *)
(* HTTP callbacks getUserInfo and getUserInfo2, userEnterHall), and the    *)
(* search of all sessions for a code (GameMgr::checkAuthCode).             *)
(*                                                                         *)
(* Handlers run in the pool threads and block on HTTP; edge-triggered      *)
(* epoll hands the next message of the same session to another thread.     *)
(* The web service knows the user of every token, so a user is a token.    *)
(* Tokens are MD5 codes: 32 characters, the length the copy keeps.         *)
(*                                                                         *)
(* A session leaves only while no handler works on it; the other case is   *)
(* ReferencedNotDeleted of ConnRegistry.                                   *)
(***************************************************************************)
EXTENDS Naturals

CONSTANTS
  Workers,   \* the threads of the pool
  Sessions,  \* the NUSocket objects
  Tokens,    \* the tokens the web service gives to its users
  None,      \* the null pointer, and no user
  Freed      \* a pointer to an auth code that has been deleted

ASSUME ConstantsAssumption == None # Freed /\ {None, Freed} \cap Tokens = {}

VARIABLES
  present,   \* the sessions in mapFDs
  code,      \* code[s]: getAuthCode()
  profile,   \* profile[s]: the user whose data the session holds
  inHall,    \* the sessions with getState() = 1
  pc,        \* pc[w]: where worker w is
  on,        \* on[w]: the session of its message, None between messages
  kind,      \* kind[w]: the message, a "login", an "enter" or a "return"
  tok,       \* tok[w]: the token in the message
  crashed,   \* the process has died of an invalid access
  raced,     \* history: tokens two handlers have taken for unused at once
  stranded   \* history: sessions whose HTTP request has brought no answer

msg == <<on, kind, tok>>
history == <<raced, stranded>>
vars == <<present, code, profile, inHall, pc, msg, crashed, history>>

Init ==
  /\ present = {}
  /\ code = [s \in Sessions |-> None]
  /\ profile = [s \in Sessions |-> None]
  /\ inHall = {}
  /\ pc = [w \in Workers |-> "idle"]
  /\ on = [w \in Workers |-> None]
  /\ kind = [w \in Workers |-> "login"]
  /\ tok = [w \in Workers |-> None]
  /\ crashed = FALSE
  /\ raced = {}
  /\ stranded = {}

At(w, label) == ~crashed /\ pc[w] = label
GoTo(w, label) == pc' = [pc EXCEPT ![w] = label]

\* The handler of w goes on at label, or returns to the loop of the thread.
Proceed(w, label) == GoTo(w, label) /\ UNCHANGED msg
Return(w) ==
  /\ GoTo(w, "idle")
  /\ on' = [on EXCEPT ![w] = None]
  /\ kind' = [kind EXCEPT ![w] = "login"]
  /\ tok' = [tok EXCEPT ![w] = None]

SetCode(s, c) == code' = [code EXCEPT ![s] = c]

\* delete[] of a pointer: of a null pointer nothing, of a dangling one anything.
DeleteCode(s) ==
  /\ SetCode(s, IF code[s] = None THEN None ELSE Freed)
  /\ crashed' \in {FALSE, code[s] = Freed}

-----------------------------------------------------------------------------
(* The sessions come and go. *)

\* NUSocket::init, and the insertion into mapFDs.
Arrive(s) ==
  /\ ~crashed
  /\ s \notin present
  /\ present' = present \cup {s}
  /\ UNCHANGED <<code, profile, inHall, pc, msg, crashed, history>>

\* The session is deleted.
Leave(s) ==
  /\ ~crashed
  /\ s \in present
  /\ \A w \in Workers : on[w] # s
  /\ present' = present \ {s}
  /\ SetCode(s, None)
  /\ profile' = [profile EXCEPT ![s] = None]
  /\ inHall' = inHall \ {s}
  /\ stranded' = stranded \ {s}
  /\ UNCHANGED <<pc, msg, crashed, raced>>

-----------------------------------------------------------------------------
(* The handlers. *)

\* userEnterHall and returnGame begin with setState(1).
EntersHall(k) == k # "login"

\* A message of session s is dispatched to its handler.
Receive(w) ==
  /\ At(w, "idle")
  /\ \E s \in present, k \in {"login", "enter", "return"}, t \in Tokens :
       /\ on' = [on EXCEPT ![w] = s]
       /\ kind' = [kind EXCEPT ![w] = k]
       /\ tok' = [tok EXCEPT ![w] = t]
       /\ inHall' = IF EntersHall(k) THEN inHall \cup {s} ELSE inHall
       /\ GoTo(w, IF k = "enter" THEN "room" ELSE "check")
  /\ UNCHANGED <<present, code, profile, crashed, history>>

\* userEnterHall asks for the room of the player with "..." + getAuthCode():
\* a null code kills the process, a dangling one may; the answer is only logged.
EnterRoom(w) ==
  /\ At(w, "room")
  /\ crashed' \in {code[on[w]] = None, code[on[w]] \in {None, Freed}}
  /\ Return(w)
  /\ UNCHANGED <<present, code, profile, inHall, history>>

\* checkAuthCode compares the token with the code of every session, without
\* g_AllLocks; a code that has just been deleted may compare either way.
Holders(t) == {s \in present : code[s] = t}
Dangling == {s \in present : code[s] = Freed}

\* A handler that has taken its token for unused, and not stored it yet.
Claims(w, t) == pc[w] \in {"free", "set"} /\ tok[w] = t

\* The token is in use: userLogin refuses, returnGame sends the session's data.
CheckFinds(w) ==
  /\ At(w, "check")
  /\ Holders(tok[w]) \cup Dangling # {}
  /\ Proceed(w, IF kind[w] = "login" THEN "refuse" ELSE "refresh")
  /\ UNCHANGED <<present, code, profile, inHall, crashed, history>>

\* The token is in nobody's use: it becomes the session's, in place of an
\* older one that returnGame deletes first (userLogin leaks it).
CheckMissesGiven(w, unused) ==
  /\ At(w, "check")
  /\ unused
  /\ Proceed(w, IF kind[w] = "return" /\ code[on[w]] # None THEN "free" ELSE "set")
  /\ raced' = IF \E u \in Workers \ {w} : Claims(u, tok[w])
                THEN raced \cup {tok[w]} ELSE raced
  /\ UNCHANGED <<present, code, profile, inHall, crashed, stranded>>

CheckMissesOwn(w) ==  \* mutant: the session's own code is all that is compared
  CheckMissesGiven(w, code[on[w]] # tok[w])
CheckMisses(w) == CheckMissesGiven(w, Holders(tok[w]) = {})

CheckCrashes(w) ==
  /\ At(w, "check")
  /\ Dangling # {}
  /\ crashed' = TRUE
  /\ UNCHANGED <<present, code, profile, inHall, pc, msg, history>>

\* UserLogin_LC with id 0, or FreshUserInfo_LC with what the session holds.
Reply(w) ==
  /\ At(w, "refuse") \/ At(w, "refresh")
  /\ Return(w)
  /\ UNCHANGED <<present, code, profile, inHall, crashed, history>>

FreeOld(w) ==
  /\ At(w, "free")
  /\ DeleteCode(on[w])
  /\ Proceed(w, "set")
  /\ UNCHANGED <<present, profile, inHall, history>>

\* The copy of the token becomes the code; the web service is asked.
Store(w) ==
  /\ At(w, "set")
  /\ SetCode(on[w], tok[w])
  /\ Proceed(w, "http")
  /\ UNCHANGED <<present, profile, inHall, crashed, history>>

ConfirmFor(w, user) ==
  /\ At(w, "http")
  /\ profile' = [profile EXCEPT ![on[w]] = user]
  /\ Proceed(w, "http") \/ Return(w)
  /\ UNCHANGED <<present, code, inHall, crashed, history>>

ConfirmByCode(w) == ConfirmFor(w, code[on[w]])  \* mutant: whose code it is by now

\* A callback with errcode 1: the session gets the data of the user asked for.
\* libcurl calls back for every piece of the answer, so more may follow.
Confirm(w) == ConfirmFor(w, tok[w])

\* Mutant: a callback with an error leaves the code as it is.
DenyKeeps(w) ==
  /\ At(w, "http")
  /\ Return(w)
  /\ UNCHANGED <<present, code, profile, inHall, crashed, history>>

\* A callback with an error, or a piece that is no JSON: the code is deleted ...
Deny(w) ==
  /\ At(w, "http")
  /\ DeleteCode(on[w])
  /\ Proceed(w, "clear")
  /\ UNCHANGED <<present, profile, inHall, history>>

ClearTo(w, c) ==
  /\ At(w, "clear")
  /\ SetCode(on[w], c)
  /\ Proceed(w, "http") \/ Return(w)
  /\ UNCHANGED <<present, profile, inHall, crashed, history>>

ClearForgotten(w) == ClearTo(w, code[on[w]])  \* mutant: no setAuthCode(nullptr)
\* ... and cleared, and id 0 is sent.
Clear(w) == ClearTo(w, None)

\* The request fails, or brings an empty answer: there is no callback, nothing
\* is sent, and the code stays.
NoAnswer(w) ==
  /\ At(w, "http")
  /\ stranded' = stranded \cup {on[w]}
  /\ Return(w)
  /\ UNCHANGED <<present, code, profile, inHall, crashed, raced>>

Next ==
  \/ \E s \in Sessions : Arrive(s) \/ Leave(s)
  \/ \E w \in Workers :
       \/ Receive(w) \/ EnterRoom(w)
       \/ CheckFinds(w) \/ CheckMisses(w) \/ CheckCrashes(w) \/ Reply(w)
       \/ FreeOld(w) \/ Store(w)
       \/ Confirm(w) \/ Deny(w) \/ Clear(w) \/ NoAnswer(w)

Spec == Init /\ [][Next]_vars

-----------------------------------------------------------------------------
Labels == {"idle", "room", "check", "refuse", "refresh", "free", "set", "http", "clear"}

TypeOK ==
  /\ present \subseteq Sessions
  /\ code \in [Sessions -> Tokens \cup {None, Freed}]
  /\ profile \in [Sessions -> Tokens \cup {None}]
  /\ inHall \subseteq Sessions
  /\ pc \in [Workers -> Labels]
  /\ on \in [Workers -> Sessions \cup {None}]
  /\ kind \in [Workers -> {"login", "enter", "return"}]
  /\ tok \in [Workers -> Tokens \cup {None}]
  /\ crashed \in BOOLEAN
  /\ raced \subseteq Tokens
  /\ stranded \subseteq Sessions

\* Two sessions hold one auth code only if two handlers searched for it at the
\* same time, each before the other had stored it: the one hole in "a player
\* that has logged in is refused" (Hall.cpp:166) is the unlocked search.
DuplicateNeedsRace ==
  \A t \in Tokens \ raced :
    \A r, s \in present : code[r] = t /\ code[s] = t => r = s

\* A session with an auth code is logged in, or being logged in, or its HTTP
\* request has brought no answer: no refused or failed login blocks a token,
\* except by a silent web service (Hall.cpp:140-145, 281-289).
CodeAccountedFor ==
  \A s \in present :
    code[s] \in Tokens =>
      \/ profile[s] # None
      \/ s \in stranded
      \/ \E w \in Workers : on[w] = s /\ pc[w] \in {"http", "clear"}

\* A deleted auth code stays in a session only as long as a handler of that
\* session is about to replace it, however two handlers of one session interleave.
DanglingIsReplaced ==
  \A s \in present :
    code[s] = Freed => \E w \in Workers : on[w] = s /\ pc[w] \in {"set", "clear"}

\* Hall.cpp:168, "the player has logged in already": no token is held by two
\* sessions.
OneSessionPerToken ==
  \A r, s \in present : code[r] \in Tokens /\ code[r] = code[s] => r = s

\* Hall.cpp:303, "refresh after a disconnection": what returnGame sends from
\* memory, to a session whose own request was answered, is the data of the
\* player whose token was sent.
RefreshIsOfPlayer ==
  \A w \in Workers :
    pc[w] = "refresh" /\ on[w] \notin stranded => profile[on[w]] = tok[w]
=============================================================================
