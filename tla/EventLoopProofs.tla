--------------------------- MODULE EventLoopProofs ---------------------------
(***************************************************************************)
(* For any number of threads and connections, any sizes of the buffers and *)
(* of the accept queue, any messages: no edge of the epoll set is lost,    *)
(* and no message is handled twice or too early.                           *)
(*                                                                         *)
(* The first invariant, Edges, says where an edge can be (no source is     *)
(* twice on the ready list or in a batch, EdgesOnce; a thread fetches only *)
(* when it is done with its last batch, FetchesEmpty), and which           *)
(* connection a thread has in hand (HasConn). With Merging, which bounds   *)
(* the connections that came on the edge of another one, it counts the     *)
(* accept queue.                                                           *)
(*                                                                         *)
(* The second, Order, is about the stream of a connection: the reads of    *)
(* two threads are apart, a handled frame lies before or behind every read *)
(* that is still to be looked at, and on a connection two threads have     *)
(* never met at, all is in order. Queued says that a connection in the     *)
(* accept queue is nobody's, which is why accepting one crosses no other   *)
(* thread.                                                                 *)
(***************************************************************************)
EXTENDS EventLoop, TLAPS, FiniteSetTheorems, SequenceTheorems

Sources == Conns \cup {Listen}

-----------------------------------------------------------------------------
(* Lists in which nothing is twice. *)

NoTwice(list) == \A i, j \in 1..Len(list) : list[i] = list[j] => i = j

\* Appending: a source is on the longer list if it was on the list or is the new one.
LEMMA HasAppend ==
  ASSUME NEW S, NEW list \in Seq(S), NEW s \in S
  PROVE  /\ Append(list, s) \in Seq(S)
         /\ \A t : Has(Append(list, s), t) <=> Has(list, t) \/ t = s
         /\ NoTwice(list) /\ ~Has(list, s) => NoTwice(Append(list, s))
<1> DEFINE more == Append(list, s)
<1>1. /\ more \in Seq(S) /\ Len(more) = Len(list) + 1 /\ Len(list) \in Nat
      /\ more[Len(list) + 1] = s /\ \A i \in 1..Len(list) : more[i] = list[i]
  OBVIOUS
<1> HIDE DEF more
<1>2. ASSUME NEW t PROVE Has(more, t) <=> Has(list, t) \/ t = s
  BY <1>1 DEF Has
<1>3. ASSUME NoTwice(list), ~Has(list, s) PROVE NoTwice(more)
  <2> SUFFICES ASSUME NEW i \in 1..Len(more), NEW j \in 1..Len(more), more[i] = more[j]
               PROVE  i = j
    BY DEF NoTwice
  <2>1. CASE i \in 1..Len(list) /\ j \in 1..Len(list)
    BY <1>1, <1>3, <2>1 DEF NoTwice
  <2>2. CASE i = Len(list) + 1 \/ j = Len(list) + 1
    BY <1>1, <1>3, <2>2 DEF Has
  <2> QED
    BY <1>1, <2>1, <2>2
<1> QED
  BY <1>1, <1>2, <1>3 DEF more

\* An edge: the source is on the list then, once.
LEMMA HasEdge ==
  ASSUME NEW S, NEW list \in Seq(S), NEW s \in S
  PROVE  /\ Edge(list, s) \in Seq(S)
         /\ \A t : Has(Edge(list, s), t) <=> Has(list, t) \/ t = s
         /\ NoTwice(list) => NoTwice(Edge(list, s))
<1>1. CASE Has(list, s)
  BY <1>1 DEF Edge
<1>2. CASE ~Has(list, s)
  BY <1>2, HasAppend DEF Edge
<1> QED
  BY <1>1, <1>2

\* Taking the first of a list.
LEMMA HasTail ==
  ASSUME NEW S, NEW list \in Seq(S), list # <<>>, NoTwice(list)
  PROVE  /\ Tail(list) \in Seq(S) /\ Head(list) \in S /\ Has(list, Head(list))
         /\ \A t : Has(Tail(list), t) <=> Has(list, t) /\ t # Head(list)
         /\ NoTwice(Tail(list))
<1> DEFINE rest == Tail(list)
<1>1. /\ rest \in Seq(S) /\ Len(list) \in Nat \ {0} /\ Len(rest) = Len(list) - 1
      /\ Head(list) = list[1] /\ Head(list) \in S /\ \A i \in 1..Len(rest) : rest[i] = list[i + 1]
  OBVIOUS
<1> HIDE DEF rest
<1>2. Has(list, Head(list))
  BY <1>1 DEF Has
<1>3. ASSUME NEW t, Has(rest, t) PROVE Has(list, t) /\ t # Head(list)
  <2>1. PICK i \in 1..Len(rest) : rest[i] = t
    BY <1>3 DEF Has
  <2>2. i + 1 \in 1..Len(list) /\ list[i + 1] = t /\ 1 \in 1..Len(list) /\ i + 1 # 1
    BY <1>1, <2>1
  <2> QED
    BY <1>1, <2>2 DEF Has, NoTwice
<1>4. ASSUME NEW t, Has(list, t), t # Head(list) PROVE Has(rest, t)
  <2>1. PICK i \in 1..Len(list) : list[i] = t
    BY <1>4 DEF Has
  <2>2. i - 1 \in 1..Len(rest) /\ rest[i - 1] = t
    BY <1>1, <1>4, <2>1
  <2> QED
    BY <2>2 DEF Has
<1>5. NoTwice(rest)
  <2> SUFFICES ASSUME NEW i \in 1..Len(rest), NEW j \in 1..Len(rest), rest[i] = rest[j]
               PROVE  i = j
    BY DEF NoTwice
  <2>1. i + 1 \in 1..Len(list) /\ j + 1 \in 1..Len(list) /\ list[i + 1] = list[j + 1]
    BY <1>1
  <2> QED
    BY <2>1 DEF NoTwice
<1> QED
  BY <1>1, <1>2, <1>3, <1>4, <1>5 DEF rest

\* Cutting a list in two: every source goes to one of the halves.
LEMMA HasHalves ==
  ASSUME NEW S, NEW list \in Seq(S), NoTwice(list), NEW n \in 0..Len(list)
  PROVE  LET a == SubSeq(list, 1, n)
             b == SubSeq(list, n + 1, Len(list))
         IN  /\ a \in Seq(S) /\ b \in Seq(S) /\ NoTwice(a) /\ NoTwice(b)
             /\ \A t : Has(list, t) <=> Has(a, t) \/ Has(b, t)
             /\ \A t : ~(Has(a, t) /\ Has(b, t))
<1> DEFINE a == SubSeq(list, 1, n)
           b == SubSeq(list, n + 1, Len(list))
<1>1. /\ a \in Seq(S) /\ Len(a) = n /\ \A i \in 1..n : a[i] = list[i]
      /\ n \in Nat /\ Len(list) \in Nat /\ n <= Len(list)
  OBVIOUS
<1>2. /\ b \in Seq(S) /\ Len(b) = Len(list) - n
      /\ \A i \in 1..(Len(list) - n) : b[i] = list[n + i]
  OBVIOUS
<1> HIDE DEF a, b
<1>3. NoTwice(a)
  BY <1>1 DEF NoTwice
<1>4. NoTwice(b)
  <2> SUFFICES ASSUME NEW i \in 1..Len(b), NEW j \in 1..Len(b), b[i] = b[j]
               PROVE  i = j
    BY DEF NoTwice
  <2>1. n + i \in 1..Len(list) /\ n + j \in 1..Len(list) /\ list[n + i] = list[n + j]
    BY <1>1, <1>2
  <2>2. n + i = n + j
    BY <2>1 DEF NoTwice
  <2> QED
    BY <1>1, <1>2, <2>2
<1>5. ASSUME NEW t, Has(list, t) PROVE Has(a, t) \/ Has(b, t)
  <2>1. PICK i \in 1..Len(list) : list[i] = t
    BY <1>5 DEF Has
  <2>2. CASE i <= n
    BY <1>1, <2>1, <2>2 DEF Has
  <2>3. CASE i > n
    <3>1. i - n \in 1..Len(b) /\ b[i - n] = t
      BY <1>1, <1>2, <2>1, <2>3
    <3> QED
      BY <3>1 DEF Has
  <2> QED
    BY <1>1, <2>2, <2>3
<1>6. ASSUME NEW t, Has(a, t) PROVE Has(list, t)
  BY <1>1, <1>6 DEF Has
<1>7. ASSUME NEW t, Has(b, t) PROVE \E i \in (n + 1)..Len(list) : list[i] = t
  <2>1. PICK i \in 1..Len(b) : b[i] = t
    BY <1>7 DEF Has
  <2>2. n + i \in (n + 1)..Len(list) /\ list[n + i] = t
    BY <1>1, <1>2, <2>1
  <2> QED
    BY <2>2
<1>8. ASSUME NEW t, Has(b, t) PROVE Has(list, t) /\ ~Has(a, t)
  <2>1. PICK i \in (n + 1)..Len(list) : list[i] = t
    BY <1>7, <1>8
  <2>2. i \in 1..Len(list)
    BY <1>1
  <2>3. ASSUME NEW j \in 1..Len(a), a[j] = t PROVE FALSE
    <3>1. j \in 1..Len(list) /\ list[j] = list[i] /\ j # i
      BY <1>1, <2>1, <2>3
    <3> QED
      BY <2>2, <3>1 DEF NoTwice
  <2> QED
    BY <2>1, <2>2, <2>3 DEF Has
<1> QED
  BY <1>1, <1>2, <1>3, <1>4, <1>5, <1>6, <1>8 DEF a, b

\* A source that is removed: nothing else goes with it.
LEMMA HasWithout ==
  ASSUME NEW S, NEW list \in Seq(S), NoTwice(list), NEW s
  PROVE  /\ Without(list, s) \in Seq(S)
         /\ \A t : Has(Without(list, s), t) <=> Has(list, t) /\ t # s
         /\ NoTwice(Without(list, s))
<1>1. CASE ~Has(list, s)
  BY <1>1 DEF Without, Has
<1>2. CASE Has(list, s)
  <2> DEFINE k == CHOOSE i \in 1..Len(list) : list[i] = s
             less == Without(list, s)
  <2>1. k \in 1..Len(list) /\ list[k] = s
    BY <1>2 DEF Has
  <2>2. less = SubSeq(list, 1, k - 1) \o SubSeq(list, k + 1, Len(list))
    BY <1>2 DEF Without, RemoveAt
  <2> HIDE DEF k, less
  <2>3. /\ less \in Seq(S) /\ Len(list) \in Nat /\ Len(less) = Len(list) - 1
        /\ \A i \in 1..Len(less) : less[i] = IF i < k THEN list[i] ELSE list[i + 1]
    <3> DEFINE a == SubSeq(list, 1, k - 1)
               b == SubSeq(list, k + 1, Len(list))
    <3>1. a \in Seq(S) /\ Len(a) = k - 1 /\ \A i \in 1..(k - 1) : a[i] = list[i]
      BY <2>1
    <3>2. /\ b \in Seq(S) /\ Len(b) = Len(list) - k
          /\ \A i \in 1..(Len(list) - k) : b[i] = list[k + i]
      BY <2>1
    <3>3. less = a \o b
      BY <2>2
    <3> HIDE DEF a, b
    <3>4. /\ less \in Seq(S) /\ Len(less) = Len(a) + Len(b)
          /\ \A i \in 1..Len(less) : less[i] = IF i <= Len(a) THEN a[i] ELSE b[i - Len(a)]
      <4>1. /\ a \o b \in Seq(S) /\ Len(a \o b) = Len(a) + Len(b)
            /\ \A i \in 1..(Len(a) + Len(b)) :
                 (a \o b)[i] = IF i <= Len(a) THEN a[i] ELSE b[i - Len(a)]
        BY <3>1, <3>2, ConcatProperties, Zenon
      <4> QED
        BY <3>3, <4>1, Zenon
    <3>5. ASSUME NEW i \in 1..Len(less), i >= k PROVE less[i] = list[i + 1]
      <4>1. less[i] = b[i - (k - 1)] /\ i - (k - 1) \in 1..(Len(list) - k)
        BY <2>1, <3>1, <3>2, <3>4, <3>5
      <4>2. k + (i - (k - 1)) = i + 1
        BY <2>1
      <4> QED
        BY <3>2, <4>1, <4>2
    <3> QED
      BY <2>1, <3>1, <3>2, <3>4, <3>5
  <2>4. ASSUME NEW t, Has(less, t) PROVE Has(list, t) /\ t # s
    <3>1. PICK i \in 1..Len(less) : less[i] = t
      BY <2>4 DEF Has
    <3>2. CASE i < k
      BY <2>1, <2>3, <3>1, <3>2 DEF Has, NoTwice
    <3>3. CASE i >= k
      <4>1. i + 1 \in 1..Len(list) /\ list[i + 1] = t /\ i + 1 # k
        BY <2>1, <2>3, <3>1, <3>3
      <4> QED
        BY <2>1, <4>1 DEF Has, NoTwice
    <3> QED
      BY <2>1, <3>2, <3>3
  <2>5. ASSUME NEW t, Has(list, t), t # s PROVE Has(less, t)
    <3>1. PICK i \in 1..Len(list) : list[i] = t
      BY <2>5 DEF Has
    <3>2. CASE i < k
      BY <2>1, <2>3, <3>1, <3>2 DEF Has
    <3>3. CASE i > k
      <4>1. i - 1 \in 1..Len(less) /\ less[i - 1] = t
        BY <2>1, <2>3, <3>1, <3>3
      <4> QED
        BY <4>1 DEF Has
    <3> QED
      BY <2>1, <2>5, <3>1, <3>2, <3>3
  <2>6. NoTwice(less)
    <3> SUFFICES ASSUME NEW i \in 1..Len(less), NEW j \in 1..Len(less), less[i] = less[j]
                 PROVE  i = j
      BY DEF NoTwice
    <3> DEFINE Place(m) == IF m < k THEN m ELSE m + 1
    <3>1. Place(i) \in 1..Len(list) /\ Place(j) \in 1..Len(list) /\ list[Place(i)] = list[Place(j)]
      BY SMTT(20), <2>1, <2>3
    <3>2. Place(i) = Place(j)
      BY <3>1 DEF NoTwice
    <3> QED
      BY <2>1, <2>3, <3>2
  <2> QED
    BY <2>3, <2>4, <2>5, <2>6 DEF less
<1> QED
  BY <1>1, <1>2

\* Removing keeps the type of any list, even one with a source twice.
LEMMA WithoutIsSeq ==
  ASSUME NEW S, NEW list \in Seq(S), NEW s
  PROVE  Without(list, s) \in Seq(S)
<1>1. CASE ~Has(list, s)
  BY <1>1 DEF Without
<1>2. CASE Has(list, s)
  <2> DEFINE k == CHOOSE i \in 1..Len(list) : list[i] = s
  <2>1. k \in 1..Len(list)
    BY <1>2 DEF Has
  <2>2. Without(list, s) = SubSeq(list, 1, k - 1) \o SubSeq(list, k + 1, Len(list))
    BY <1>2 DEF Without, RemoveAt
  <2> HIDE DEF k
  <2>3. SubSeq(list, 1, k - 1) \in Seq(S) /\ SubSeq(list, k + 1, Len(list)) \in Seq(S)
    BY <2>1
  <2> QED
    BY <2>2, <2>3, ConcatProperties
<1> QED
  BY <1>1, <1>2

-----------------------------------------------------------------------------
(* Types, and what a thread has in hand. *)

\* A thread at work on an event has its connection, and a read begins somewhere.
HasConn ==
  \A w \in Workers :
    /\ pc[w] \in {"shake", "join", "parse", "write"} => conn[w] \in Conns
    /\ pc[w] = "parse" => got[w].first > 0

\* How much a client says is a number.
LEMMA TotalIsNat == TypeOK => \A c \in Conns : Total(c) \in Nat
<1> SUFFICES ASSUME TypeOK, NEW c \in Conns PROVE Total(c) \in Nat
  OBVIOUS
<1>1. Len(frames[c]) \in Nat /\ Parts \in Nat
  BY ConstantsAssumption DEF TypeOK
<1> QED
  BY <1>1 DEF Total

\* The number of a frame is a number.
LEMMA FrameIsNat == \A k \in Nat \ {0} : FrameOf(k) \in Nat
<1> SUFFICES ASSUME NEW k \in Nat \ {0} PROVE FrameOf(k) \in Nat
  OBVIOUS
<1>1. Parts \in Nat \ {0} /\ k - 1 \in Nat
  BY ConstantsAssumption
<1>2. (k - 1) \div Parts \in Nat
  BY <1>1
<1> QED
  BY <1>2 DEF FrameOf

LEMMA TypeInit == Init => TypeOK /\ HasConn
<1> SUFFICES ASSUME Init PROVE TypeOK /\ HasConn
  OBVIOUS
<1>1. \A S : <<>> \in Seq(S)
  OBVIOUS
<1>2. frames \in Scripts /\ \A c \in Conns : Len(frames[c]) \in Nat
  BY ConstantsAssumption DEF Init
<1>3. \A c \in Conns : Total(c) \in Nat
  BY <1>2, ConstantsAssumption DEF Total
<1>4. wpos \in [Workers -> 0..(ReplyParts - 1)]
  BY ConstantsAssumption DEF Init
<1>5. got \in [Workers -> [first : Nat, last : Nat]]
  BY DEF Init, Nothing
<1>6. /\ arrived \in [Conns -> Nat] /\ readpos \in [Conns -> Nat] /\ drained \in [Conns -> Nat]
      /\ \A c \in Conns : readpos[c] <= arrived[c] /\ arrived[c] <= Total(c)
  BY <1>3 DEF Init
<1>7. /\ backlog \in Seq(Conns) /\ ready \in Seq(Conns \cup {Listen})
      /\ batch \in [Workers -> Seq(Conns \cup {Listen})]
      /\ wire \in [Conns -> Seq(Nat \X Nat)] /\ handled \in [Conns -> Seq(Nat)]
  BY <1>1 DEF Init
<1>8. TypeOK
  BY <1>2, <1>4, <1>5, <1>6, <1>7 DEF Init, TypeOK
<1>9. HasConn
  BY DEF Init, HasConn
<1> QED
  BY <1>8, <1>9

\* The clients' steps and run() keep the types.
LEMMA OutsideTyped ==
  ASSUME TypeOK, HasConn,
         Run \/ \E c \in Conns : Connect(c) \/ Arrive(c) \/ Leave(c) \/ Drain(c)
  PROVE  TypeOK' /\ HasConn'
<1> USE DEF net, thread, marks
<1>1. CASE Run
  <2>1. Append(ready, Listen) \in Seq(Conns \cup {Listen})
    BY DEF TypeOK
  <2>2. ready' \in Seq(Conns \cup {Listen})
    BY <1>1, <2>1 DEF Run, TypeOK
  <2> QED
    BY <1>1, <2>2 DEF Run, TypeOK, HasConn, Total
<1>2. ASSUME NEW c \in Conns, Connect(c) PROVE TypeOK' /\ HasConn'
  <2>1. backlog' \in Seq(Conns)
    BY <1>2 DEF Connect, TypeOK
  <2>2. ready' \in Seq(Conns \cup {Listen})
    BY <1>2, HasEdge, Listen \in Conns \cup {Listen} DEF Connect, TypeOK
  <2>3. stage' \in [Conns -> {"new", "queued", "accepted", "unshaken", "greeted", "open", "closed"}]
        /\ merged' \in Nat
    BY <1>2 DEF Connect, TypeOK
  <2>4. \A d \in Conns : Total(d)' = Total(d)
    BY <1>2 DEF Connect, Total
  <2>5. UNCHANGED <<frames, watching, arrived, readpos, ended, wire, drained, refused, handled,
                    crossed, short, full, missed, behind, lock, pc, batch, conn, got, wpos>>
    BY <1>2 DEF Connect
  <2>6. \A d \in Conns : (readpos[d] <= arrived[d] /\ arrived[d] <= Total(d))'
    BY <2>4, <2>5 DEF TypeOK
  <2>7. TypeOK'
    BY <2>1, <2>2, <2>3, <2>5, <2>6 DEF TypeOK
  <2> QED
    BY <2>5, <2>7 DEF HasConn
<1>3. ASSUME NEW c \in Conns, Arrive(c) PROVE TypeOK' /\ HasConn'
  <2>1. ready' \in Seq(Conns \cup {Listen})
    BY <1>3, HasEdge, c \in Conns \cup {Listen} DEF Arrive, TypeOK
  <2>2. PICK n \in 1..(Total(c) - arrived[c]) : arrived' = [arrived EXCEPT ![c] = @ + n]
    BY <1>3 DEF Arrive
  <2>3. arrived' \in [Conns -> Nat] /\ \A d \in Conns : readpos[d] <= arrived'[d] /\ arrived'[d] <= Total(d)
    <3>1. /\ arrived \in [Conns -> Nat] /\ arrived[c] \in Nat /\ Total(c) \in Nat /\ n \in Nat
          /\ readpos \in [Conns -> Nat] /\ arrived[c] + n <= Total(c)
          /\ \A d \in Conns : readpos[d] <= arrived[d] /\ arrived[d] <= Total(d)
      <4>1. /\ arrived \in [Conns -> Nat] /\ readpos \in [Conns -> Nat]
            /\ \A d \in Conns : readpos[d] <= arrived[d] /\ arrived[d] <= Total(d)
        BY DEF TypeOK
      <4>2. arrived[c] \in Nat /\ Total(c) \in Nat
        BY <4>1, TotalIsNat
      <4> QED
        BY <4>1, <4>2
    <3>2. \A d \in Conns : arrived'[d] = IF d = c THEN arrived[c] + n ELSE arrived[d]
      BY <2>2, <3>1
    <3>3. arrived' \in [Conns -> Nat]
      BY <2>2, <3>1
    <3> QED
      BY <3>1, <3>2, <3>3
  <2>4. \A d \in Conns : Total(d)' = Total(d)
    BY <1>3 DEF Arrive, Total
  <2>5. HasConn'
    BY <1>3 DEF Arrive, HasConn
  <2> QED
    <3>1. UNCHANGED <<frames, watching, stage, backlog, readpos, ended, wire, drained, lock, pc, batch,
                      conn, got, wpos, merged, refused, handled, crossed, short, full, missed, behind>>
      BY <1>3 DEF Arrive
    <3>2. \A d \in Conns : (readpos[d] <= arrived[d] /\ arrived[d] <= Total(d))'
      BY <2>3, <2>4, <3>1
    <3> QED
      BY <2>1, <2>3, <2>5, <3>1, <3>2 DEF TypeOK
<1>4. ASSUME NEW c \in Conns, Drain(c) PROVE TypeOK' /\ HasConn'
  <2>1. Len(wire[c]) \in Nat
    BY DEF TypeOK
  <2> QED
    BY <1>4, <2>1 DEF Drain, TypeOK, HasConn, Total
<1>5. ASSUME NEW c \in Conns, Leave(c) PROVE TypeOK' /\ HasConn'
  <2>1. ready' \in Seq(Conns \cup {Listen})
    BY <1>5, HasEdge, c \in Conns \cup {Listen} DEF Leave, TypeOK
  <2> QED
    BY <1>5, <2>1 DEF Leave, TypeOK, HasConn, Total
<1> QED
  BY <1>1, <1>2, <1>3, <1>4, <1>5

\* The threads' steps keep them.
LEMMA ThreadTyped ==
  ASSUME TypeOK, HasConn, NEW w \in Workers, Step(w)
  PROVE  TypeOK' /\ HasConn'
<1> USE DEF net, thread, marks, At, GoTo, Turn, Done, Nothing
<1>0. /\ UNCHANGED frames => \A d \in Conns : Total(d)' = Total(d)
      /\ 0 \in 0..(ReplyParts - 1)
  BY ConstantsAssumption DEF Total
<1>1. CASE Lock(w)
  BY <1>0, <1>1 DEF Lock, TypeOK, HasConn
<1>2. CASE Fetch(w)
  <2>1. Len(ready) \in Nat /\ MaxEvents \in Nat
    BY ConstantsAssumption DEF TypeOK
  <2>2. Least(MaxEvents, Len(ready)) \in 0..Len(ready)
    BY <2>1 DEF Least
  <2>3. \A n \in 0..Len(ready) : /\ SubSeq(ready, 1, n) \in Seq(Conns \cup {Listen})
                                 /\ SubSeq(ready, n + 1, Len(ready)) \in Seq(Conns \cup {Listen})
    BY DEF TypeOK
  <2>4. ready' \in Seq(Conns \cup {Listen}) /\ batch' \in [Workers -> Seq(Conns \cup {Listen})]
    BY <1>2, <2>2, <2>3 DEF Fetch, FetchBut, TypeOK
  <2> QED
    BY <1>0, <1>2, <2>4 DEF Fetch, FetchBut, TypeOK, HasConn
<1>3. ASSUME batch[w] # <<>>
      PROVE  /\ Head(batch[w]) \in Conns \cup {Listen}
             /\ [batch EXCEPT ![w] = Tail(@)] \in [Workers -> Seq(Conns \cup {Listen})]
  BY <1>3 DEF TypeOK
<1>4. CASE Accept(w)
  <2>1. Head(backlog) \in Conns /\ Tail(backlog) \in Seq(Conns)
    BY <1>4 DEF Accept, TypeOK
  <2> QED
    BY <1>0, <1>3, <1>4, <2>1 DEF Accept, TypeOK, HasConn
<1>5. CASE AcceptFails(w)
  <2>1. batch' \in [Workers -> Seq(Conns \cup {Listen})]
    BY <1>3, <1>5 DEF AcceptFails
  <2>2. HasConn'
    BY <1>5 DEF AcceptFails, TypeOK, HasConn
  <2>3. /\ refused' = refused + 1 /\ pc' = [pc EXCEPT ![w] = "next"]
        /\ conn' = [conn EXCEPT ![w] = None]
        /\ UNCHANGED <<frames, watching, stage, backlog, ready, arrived, readpos, ended, wire, drained,
                       lock, got, wpos, merged, handled, crossed, short, full, missed, behind>>
    BY <1>5 DEF AcceptFails
  <2> QED
    BY SMTT(20), <1>0, <2>1, <2>2, <2>3 DEF TypeOK
<1>6. CASE ShakeFails(w)
  BY <1>0, <1>6 DEF ShakeFails, TypeOK, HasConn
<1>7. CASE Shake(w)
  BY <1>0, <1>7 DEF Shake, TypeOK, HasConn
<1>8. CASE Join(w)
  <2>1. ready' \in Seq(Conns \cup {Listen})
    BY <1>8, HasEdge DEF Join, TypeOK, HasConn
  <2> QED
    BY <1>0, <1>8, <2>1 DEF Join, TypeOK, HasConn
<1>9. CASE Read(w)
  <2> DEFINE c == Head(batch[w])
             n == Least(RecvPieces, Unread(c))
  <2>1. c \in Conns /\ RecvPieces \in Nat
    BY <1>3, <1>9, ConstantsAssumption DEF Read, ReadUpTo
  <2>2. Unread(c) \in Nat /\ n \in Nat /\ n > 0 /\ n <= Unread(c)
    <3>1. arrived[c] \in Nat /\ readpos[c] \in Nat /\ readpos[c] <= arrived[c]
      BY <2>1 DEF TypeOK
    <3>2. n > 0
      BY <1>9 DEF Read, ReadUpTo
    <3> QED
      BY <2>1, <3>1, <3>2 DEF Unread, Least
  <2>3. readpos' = [readpos EXCEPT ![c] = @ + n]
    BY <1>9 DEF Read, ReadUpTo
  <2>4. readpos' \in [Conns -> Nat] /\ \A d \in Conns : readpos'[d] <= arrived[d]
    <3>1. arrived \in [Conns -> Nat] /\ readpos \in [Conns -> Nat]
          /\ \A d \in Conns : readpos[d] <= arrived[d]
      BY DEF TypeOK
    <3>2. readpos[c] + n \in Nat /\ readpos[c] + n <= arrived[c]
      BY <2>1, <2>2, <3>1 DEF Unread
    <3> HIDE DEF n
    <3> QED
      BY <2>1, <2>3, <3>1, <3>2
  <2>5. got' = [got EXCEPT ![w] = [first |-> readpos[c] + 1, last |-> readpos[c] + n]]
    BY <1>9 DEF Read, ReadUpTo
  <2>6. got' \in [Workers -> [first : Nat, last : Nat]] /\ got'[w].first > 0
    <3>1. readpos[c] \in Nat /\ readpos[c] + 1 \in Nat /\ readpos[c] + n \in Nat /\ readpos[c] + 1 > 0
      <4>1. readpos[c] \in Nat
        BY <2>1 DEF TypeOK
      <4>2. n \in Nat
        BY <2>2
      <4> HIDE DEF n
      <4> QED
        BY <4>1, <4>2
    <3>2. [first |-> readpos[c] + 1, last |-> readpos[c] + n] \in [first : Nat, last : Nat]
      BY <3>1
    <3>3. got'[w].first = readpos[c] + 1
      BY <2>5 DEF TypeOK
    <3> QED
      BY <2>5, <3>1, <3>2, <3>3 DEF TypeOK
  <2>7. full' \subseteq Conns /\ crossed' \subseteq Conns /\ missed' \subseteq Conns /\ behind' \subseteq Conns
    BY <1>9, <2>1 DEF Read, ReadUpTo, TypeOK
  <2>8. /\ batch' \in [Workers -> Seq(Conns \cup {Listen})]
        /\ pc' = [pc EXCEPT ![w] = "parse"] /\ conn' = [conn EXCEPT ![w] = c]
    BY <1>3, <1>9 DEF Read, ReadUpTo
  <2>9. UNCHANGED <<frames, watching, stage, backlog, ready, arrived, ended, wire, drained,
                    lock, wpos, merged, refused, handled, short>>
    BY <1>9 DEF Read, ReadUpTo
  <2> HIDE DEF c, n
  <2>10. HasConn'
    BY <2>1, <2>5, <2>6, <2>8 DEF HasConn, TypeOK
  <2>11. \A d \in Conns : Total(d)' = Total(d)
    BY <2>9 DEF Total
  <2> QED
    BY <2>1, <2>4, <2>6, <2>7, <2>8, <2>9, <2>10, <2>11 DEF TypeOK
<1>10. CASE ReadNothing(w)
  <2>1. batch' \in [Workers -> Seq(Conns \cup {Listen})]
    BY <1>3, <1>10 DEF ReadNothing, ReadNothingThen, TypeOK
  <2> QED
    <3>1. /\ full' \subseteq Conns
          /\ UNCHANGED <<frames, watching, stage, backlog, ready, arrived, readpos, ended, wire, drained,
                         lock, pc, conn, got, wpos, merged, refused, handled, crossed, short, missed, behind>>
      BY <1>10 DEF ReadNothing, ReadNothingThen, TypeOK
    <3>2. HasConn'
      BY <3>1 DEF HasConn
    <3>3. \A d \in Conns : (readpos[d] <= arrived[d] /\ arrived[d] <= Total(d))'
      BY <1>0, <3>1 DEF TypeOK
    <3> QED
      BY <2>1, <3>1, <3>2, <3>3 DEF TypeOK
<1>11. CASE Handle(w)
  <2>1. FrameOf(got[w].first) \in Nat /\ conn[w] \in Conns
    BY <1>11, FrameIsNat DEF Handle, HasConn, TypeOK
  <2>2. handled' \in [Conns -> Seq(Nat)]
    BY <1>11, <2>1 DEF Handle, TypeOK
  <2> QED
    BY <1>0, <1>11, <2>2 DEF Handle, TypeOK, HasConn
<1>12. CASE Ignore(w)
  BY <1>0, <1>12 DEF Ignore, TypeOK, HasConn
<1>13. CASE Condemn(w)
  <2>1. ready' \in {Without(ready, conn[w]), ready}
    BY <1>13 DEF Condemn, Close
  <2>2. ready' \in Seq(Conns \cup {Listen})
    BY <2>1, WithoutIsSeq DEF TypeOK
  <2> QED
    BY <1>0, <1>13, <2>2 DEF Condemn, Close, TypeOK, HasConn
<1>14. CASE Write(w)
  <2> DEFINE c == conn[w]
             left == ReplyParts - wpos[w]
             n == Least(Room(c), left)
             more == [i \in 1..n |-> <<got[w].first, wpos[w] + i>>]
  <2>1. c \in Conns /\ ReplyParts \in Nat \ {0} /\ SendPieces \in Nat /\ got[w].first \in Nat
        /\ wpos[w] \in 0..(ReplyParts - 1) /\ Len(wire[c]) \in Nat /\ drained[c] \in Nat
    <3>1. c \in Conns
      BY <1>14 DEF Write, WriteFrom, HasConn
    <3>2. wire[c] \in Seq(Nat \X Nat) /\ drained[c] \in Nat
      BY <3>1 DEF TypeOK
    <3>3. got[w].first \in Nat /\ wpos[w] \in 0..(ReplyParts - 1)
      BY DEF TypeOK
    <3>4. ReplyParts \in Nat \ {0} /\ SendPieces \in Nat
      BY ConstantsAssumption
    <3> QED
      BY <3>1, <3>2, <3>3, <3>4
  <2>2. n \in Nat /\ n > 0 /\ n <= left
    BY SMTT(20), <1>14, <2>1 DEF Write, WriteFrom, Room, Least
  <2>3. more \in Seq(Nat \X Nat)
    BY SMTT(20), <2>1, <2>2
  <2>4. wire' = [wire EXCEPT ![c] = @ \o more]
    BY <1>14 DEF Write, WriteFrom
  <2> HIDE DEF more
  <2>5. wire' \in [Conns -> Seq(Nat \X Nat)]
    BY <2>1, <2>3, <2>4, ConcatProperties DEF TypeOK
  <2>6. short' \subseteq Conns
    BY <1>14, <2>1 DEF Write, WriteFrom, TypeOK
  <2>7. CASE wpos[w] + n >= ReplyParts
    <3>1. Done(w)
      BY <1>14, <2>7 DEF Write, WriteFrom
    <3> QED
      <4>1. UNCHANGED <<frames, watching, stage, backlog, ready, arrived, readpos, ended, drained,
                        lock, batch, merged, refused, handled, crossed, full, missed, behind>>
        BY <1>14 DEF Write, WriteFrom
      <4>2. /\ pc' \in [Workers -> {"next", "poll", "shake", "join", "parse", "write"}]
            /\ conn' \in [Workers -> Conns \cup {None}]
            /\ got' \in [Workers -> [first : Nat, last : Nat]]
            /\ wpos' \in [Workers -> 0..(ReplyParts - 1)]
        BY <1>0, <3>1 DEF TypeOK
      <4>3. HasConn'
        BY <3>1 DEF HasConn, TypeOK
      <4>4. \A d \in Conns : (readpos[d] <= arrived[d] /\ arrived[d] <= Total(d))'
        BY <1>0, <4>1 DEF TypeOK
      <4> QED
        BY <2>5, <2>6, <4>1, <4>2, <4>3, <4>4 DEF TypeOK
  <2>8. CASE ~(wpos[w] + n >= ReplyParts)
    <3>1. wpos' = [wpos EXCEPT ![w] = @ + n] /\ UNCHANGED <<pc, conn, got>>
      BY <1>14, <2>8 DEF Write, WriteFrom
    <3>2. wpos' \in [Workers -> 0..(ReplyParts - 1)]
      BY <2>1, <2>2, <2>8, <3>1 DEF TypeOK
    <3>3. UNCHANGED <<frames, watching, stage, backlog, ready, arrived, readpos, ended, drained,
                      lock, batch, merged, refused, handled, crossed, full, missed, behind>>
      BY <1>14 DEF Write, WriteFrom
    <3> QED
      BY SMTT(20), <1>0, <2>5, <2>6, <3>1, <3>2, <3>3 DEF TypeOK, HasConn
  <2> QED
    BY <2>7, <2>8
<1>15. CASE WriteFails(w)
  BY <1>0, <1>15 DEF WriteFails, TypeOK, HasConn
<1>16. CASE Miss(w)
  <2>1. batch' \in [Workers -> Seq(Conns \cup {Listen})] /\ Head(batch[w]) \in Conns
    BY <1>3, <1>16 DEF Miss
  <2> QED
    BY <1>0, <1>16, <2>1 DEF Miss, TypeOK, HasConn
<1>17. CASE ReadEnd(w)
  <2> DEFINE c == Head(batch[w])
  <2>1. batch' \in [Workers -> Seq(Conns \cup {Listen})] /\ c \in Conns
    BY <1>3, <1>17 DEF ReadEnd, ReadEndThen
  <2>2. /\ full' = full \ {c}
        /\ \/ stage' = [stage EXCEPT ![c] = "closed"] /\ ready' = Without(ready, c) /\ UNCHANGED missed
           \/ missed' = missed \cup {c} /\ UNCHANGED <<stage, ready>>
        /\ UNCHANGED <<frames, watching, backlog, arrived, readpos, ended, wire, drained, lock, pc,
                       conn, got, wpos, merged, refused, handled, crossed, short, behind>>
    BY <1>17 DEF ReadEnd, ReadEndThen, Close
  <2> HIDE DEF c
  <2>3. ready' \in Seq(Conns \cup {Listen})
    BY <2>2, WithoutIsSeq DEF TypeOK
  <2>4. stage' \in [Conns -> {"new", "queued", "accepted", "unshaken", "greeted", "open", "closed"}]
        /\ missed' \subseteq Conns /\ full' \subseteq Conns
    BY <2>1, <2>2 DEF TypeOK
  <2>5. HasConn'
    BY <2>2 DEF HasConn
  <2>6. \A d \in Conns : (readpos[d] <= arrived[d] /\ arrived[d] <= Total(d))'
    BY <1>0, <2>2 DEF TypeOK
  <2> QED
    BY <2>1, <2>2, <2>3, <2>4, <2>5, <2>6 DEF TypeOK
<1> QED
  BY <1>1, <1>2, <1>4, <1>5, <1>6, <1>7, <1>8, <1>9, <1>10, <1>11, <1>12, <1>13, <1>14, <1>15,
     <1>16, <1>17 DEF Step

-----------------------------------------------------------------------------
(* Where an edge can be. *)

\* No source is twice on the ready list or in a batch.
EdgesOnce == NoTwice(ready) /\ \A w \in Workers : NoTwice(batch[w])

\* A thread at epoll_wait has done with its last batch.
FetchesEmpty == \A w \in Workers : pc[w] = "poll" => batch[w] = <<>>

\* The listening socket raises no edge before it is registered.
NotYet ==
  ~watching => ~Has(ready, Listen) /\ \A w \in Workers : ~Has(batch[w], Listen)

Edges == TypeOK /\ HasConn /\ EdgesOnce /\ FetchesEmpty /\ NotYet

LEMMA EdgesInit == Init => Edges
<1> SUFFICES ASSUME Init PROVE Edges
  OBVIOUS
<1>1. NoTwice(<<>>) /\ \A t : ~Has(<<>>, t)
  BY DEF NoTwice, Has
<1>2. EdgesOnce /\ NotYet
  BY <1>1 DEF Init, EdgesOnce, NotYet
<1>3. FetchesEmpty
  BY DEF Init, FetchesEmpty
<1> QED
  BY <1>2, <1>3, TypeInit DEF Edges

\* What a step does to the edges: epoll_wait moves some from the ready list into a
\* batch that was empty; an event is turned to and is gone from its batch, and perhaps
\* its connection from the ready list with it (TurnsAway); the ready list gets an edge, or loses that of a closed descriptor; or they stay where they are.
Moves(w) ==
  /\ batch[w] = <<>> /\ pc'[w] = "next"
  /\ NoTwice(ready') /\ NoTwice(batch'[w])
  /\ \A t : Has(ready, t) <=> Has(ready', t) \/ Has(batch'[w], t)
  /\ \A t : ~(Has(ready', t) /\ Has(batch'[w], t))
  /\ \A u \in Workers \ {w} : batch'[u] = batch[u] /\ pc'[u] = pc[u]
  /\ UNCHANGED watching

Turns(w) ==
  /\ batch[w] # <<>> /\ Head(batch[w]) \in Sources
  /\ \A t : Has(batch'[w], t) <=> Has(batch[w], t) /\ t # Head(batch[w])
  /\ Has(batch[w], Head(batch[w])) /\ NoTwice(batch'[w])
  /\ \A u \in Workers \ {w} : batch'[u] = batch[u] /\ pc'[u] = pc[u]
  /\ pc'[w] # "poll"
  /\ UNCHANGED <<ready, watching>>

TurnsAway(w) ==
  /\ batch[w] # <<>> /\ Head(batch[w]) \in Conns
  /\ \A t : Has(batch'[w], t) <=> Has(batch[w], t) /\ t # Head(batch[w])
  /\ \A t : Has(ready', t) => Has(ready, t)
  /\ \A t : Has(ready, t) => Has(ready', t) \/ t = Head(batch[w])
  /\ NoTwice(batch'[w]) /\ NoTwice(ready')
  /\ \A u \in Workers \ {w} : batch'[u] = batch[u]
  /\ pc[w] = "next" /\ UNCHANGED <<pc, watching>>

Raises(s) ==
  /\ \A t : Has(ready', t) <=> Has(ready, t) \/ t = s
  /\ NoTwice(ready')
  /\ UNCHANGED batch /\ \A u \in Workers : pc'[u] = "poll" => pc[u] = "poll"

Forgets(c) ==
  /\ \A t : Has(ready', t) <=> Has(ready, t) /\ t # c
  /\ NoTwice(ready')
  /\ UNCHANGED <<batch, watching>> /\ \A u \in Workers : pc'[u] = "poll" => pc[u] = "poll"

Stays ==
  /\ UNCHANGED <<ready, batch, watching>>
  /\ \A u \in Workers : pc'[u] = "poll" => batch[u] = <<>>

\* The least of two sizes is no more than the list has.
LEMMA FetchMoves == ASSUME Edges, NEW w \in Workers, Fetch(w) PROVE Moves(w)
<1> DEFINE n == Least(MaxEvents, Len(ready))
           a == SubSeq(ready, 1, n)
           b == SubSeq(ready, n + 1, Len(ready))
<1>1. ready \in Seq(Sources) /\ Len(ready) \in Nat /\ NoTwice(ready)
  BY DEF Edges, EdgesOnce, TypeOK, Sources
<1>2. n \in 0..Len(ready)
  BY <1>1, ConstantsAssumption DEF Least
<1>3. /\ NoTwice(a) /\ NoTwice(b) /\ \A t : Has(ready, t) <=> Has(a, t) \/ Has(b, t)
      /\ \A t : ~(Has(a, t) /\ Has(b, t))
  BY <1>1, <1>2, HasHalves
<1>4. batch' = [batch EXCEPT ![w] = a] /\ ready' = b /\ pc' = [pc EXCEPT ![w] = "next"]
      /\ UNCHANGED watching
  <2>1. n - 0 = n
    BY <1>2
  <2> QED
    BY <2>1 DEF Fetch, FetchBut, GoTo
<1> HIDE DEF a, b
<1>5. /\ batch'[w] = a /\ pc'[w] = "next"
      /\ \A u \in Workers \ {w} : batch'[u] = batch[u] /\ pc'[u] = pc[u]
  BY <1>4 DEF Edges, TypeOK
<1>6. batch[w] = <<>>
  BY DEF Fetch, FetchBut, At, Edges, FetchesEmpty
<1> QED
  BY <1>3, <1>4, <1>5, <1>6 DEF Moves

\* The events of a batch are turned to one by one.
LEMMA EventTurns ==
  ASSUME Edges, NEW w \in Workers,
         Accept(w) \/ AcceptFails(w) \/ Read(w) \/ ReadNothing(w) \/ Miss(w)
  PROVE  Turns(w)
<1>1. batch[w] \in Seq(Sources) /\ NoTwice(batch[w])
  BY DEF Edges, EdgesOnce, TypeOK, Sources
<1>2. /\ batch[w] # <<>> /\ batch' = [batch EXCEPT ![w] = Tail(batch[w])]
      /\ \E l \in {"next", "parse", "shake"} : pc' = [pc EXCEPT ![w] = l]
      /\ UNCHANGED <<ready, watching>>
  <2>1. CASE Accept(w)
    BY <2>1 DEF Accept, Turn, GoTo
  <2>2. CASE AcceptFails(w)
    BY <2>2 DEF AcceptFails, Turn, GoTo, net
  <2>3. CASE Read(w)
    BY <2>3 DEF Read, ReadUpTo, Turn, GoTo
  <2>4. CASE ReadNothing(w)
    <3>1. pc' = [pc EXCEPT ![w] = "next"]
      BY <2>4 DEF ReadNothing, ReadNothingThen, At, Edges, TypeOK
    <3> QED
      BY <2>4, <3>1 DEF ReadNothing, ReadNothingThen, net
  <2>5. CASE Miss(w)
    <3>1. pc' = [pc EXCEPT ![w] = "next"]
      BY <2>5 DEF Miss, At, Edges, TypeOK
    <3> QED
      BY <2>5, <3>1 DEF Miss, net
  <2> QED
    BY <2>1, <2>2, <2>3, <2>4, <2>5
<1>3. /\ batch'[w] = Tail(batch[w]) /\ pc'[w] # "poll"
      /\ \A u \in Workers \ {w} : batch'[u] = batch[u] /\ pc'[u] = pc[u]
  BY <1>2 DEF Edges, TypeOK
<1>4. /\ Head(batch[w]) \in Sources /\ Has(batch[w], Head(batch[w])) /\ NoTwice(Tail(batch[w]))
      /\ \A t : Has(Tail(batch[w]), t) <=> Has(batch[w], t) /\ t # Head(batch[w])
  BY <1>1, <1>2, HasTail
<1> QED
  BY <1>2, <1>3, <1>4 DEF Turns

\* At the end of a stream the connection is closed and its edge forgotten, or it stays.
LEMMA EndTurns ==
  ASSUME Edges, NEW w \in Workers, ReadEnd(w)
  PROVE  TurnsAway(w)
<1> DEFINE c == Head(batch[w])
<1>1. /\ batch[w] \in Seq(Sources) /\ NoTwice(batch[w]) /\ ready \in Seq(Sources) /\ NoTwice(ready)
      /\ batch \in [Workers -> Seq(Sources)]
  BY DEF Edges, EdgesOnce, TypeOK, Sources
<1>2. /\ batch[w] # <<>> /\ c # Listen /\ batch' = [batch EXCEPT ![w] = Tail(batch[w])]
      /\ ready' \in {ready, Without(ready, c)} /\ pc[w] = "next" /\ UNCHANGED <<pc, watching>>
  BY DEF ReadEnd, ReadEndThen, Close, At
<1>3. /\ c \in Conns /\ NoTwice(Tail(batch[w]))
      /\ \A t : Has(Tail(batch[w]), t) <=> Has(batch[w], t) /\ t # c
  BY <1>1, <1>2, HasTail DEF Sources
<1>4. /\ \A t : Has(ready', t) => Has(ready, t)
      /\ \A t : Has(ready, t) => Has(ready', t) \/ t = c
      /\ NoTwice(ready')
  BY <1>1, <1>2, HasWithout
<1>5. batch'[w] = Tail(batch[w]) /\ \A u \in Workers \ {w} : batch'[u] = batch[u]
  BY <1>1, <1>2
<1> QED
  BY <1>2, <1>3, <1>4, <1>5 DEF TurnsAway

\* The other steps of a thread: a connection that joins the epoll set with bytes on
\* it raises its edge, one that is condemned loses it.
LEMMA OtherSteps ==
  ASSUME Edges, NEW w \in Workers
  PROVE  /\ Lock(w) \/ ShakeFails(w) \/ Shake(w) \/ Handle(w) \/ Ignore(w) \/ Write(w) \/ WriteFails(w)
            => Stays
         /\ Join(w) => Stays \/ (Raises(conn[w]) /\ conn[w] \in Conns /\ UNCHANGED watching)
         /\ Condemn(w) => Stays \/ (Forgets(conn[w]) /\ conn[w] \in Conns)
<1> USE DEF GoTo, Done, At
<1>1. pc \in [Workers -> {"next", "poll", "shake", "join", "parse", "write"}]
      /\ ready \in Seq(Sources) /\ NoTwice(ready) /\ FetchesEmpty
  BY DEF Edges, EdgesOnce, TypeOK, Sources
<1>2. ASSUME UNCHANGED <<ready, batch, watching>>, NEW l, pc' = [pc EXCEPT ![w] = l],
             l = "poll" => batch[w] = <<>>
      PROVE  Stays
  BY <1>1, <1>2 DEF Stays, FetchesEmpty
<1>3. ASSUME NEW l, l # "poll", pc' = [pc EXCEPT ![w] = l]
      PROVE  \A u \in Workers : pc'[u] = "poll" => pc[u] = "poll"
  BY <1>1, <1>3
<1>4. ASSUME Lock(w) PROVE Stays
  BY <1>2, <1>4 DEF Lock, net
<1>5. ASSUME ShakeFails(w) PROVE Stays
  BY <1>2, <1>5 DEF ShakeFails
<1>6. ASSUME Shake(w) PROVE Stays
  BY <1>2, <1>6 DEF Shake
<1>7. ASSUME Handle(w) PROVE Stays
  BY <1>2, <1>7 DEF Handle, net
<1>8. ASSUME Ignore(w) PROVE Stays
  BY <1>2, <1>8 DEF Ignore, net
<1>9. ASSUME Write(w) PROVE Stays
  <2>1. UNCHANGED <<ready, batch, watching>>
    BY <1>9 DEF Write, WriteFrom
  <2>2. pc' = [pc EXCEPT ![w] = "next"] \/ UNCHANGED pc
    BY <1>9 DEF Write, WriteFrom
  <2> QED
    BY <1>1, <1>2, <2>1, <2>2 DEF Stays, FetchesEmpty
<1>10. ASSUME WriteFails(w) PROVE Stays
  BY <1>2, <1>10 DEF WriteFails, net
<1>11. ASSUME Join(w)
       PROVE  Stays \/ (Raises(conn[w]) /\ conn[w] \in Conns /\ UNCHANGED watching)
  <2>1. conn[w] \in Conns /\ conn[w] \in Sources
    BY <1>11 DEF Join, Edges, HasConn, Sources
  <2>2. UNCHANGED <<batch, watching>> /\ pc' = [pc EXCEPT ![w] = "next"]
    BY <1>11 DEF Join
  <2>3. CASE UNCHANGED ready
    BY <1>2, <2>2, <2>3
  <2>4. CASE ready' = Edge(ready, conn[w])
    BY <1>1, <1>3, <2>1, <2>2, <2>4, HasEdge DEF Raises
  <2> QED
    BY <1>11, <2>3, <2>4 DEF Join
<1>12. ASSUME Condemn(w) PROVE Stays \/ (Forgets(conn[w]) /\ conn[w] \in Conns)
  <2>1. conn[w] \in Conns
    BY <1>12 DEF Condemn, Edges, HasConn
  <2>2. /\ UNCHANGED <<batch, watching>> /\ pc' = [pc EXCEPT ![w] = "next"]
        /\ ready' = Without(ready, conn[w]) \/ UNCHANGED ready
    BY <1>12 DEF Condemn, Close
  <2>3. CASE ready' = Without(ready, conn[w])
    BY <1>1, <1>3, <2>1, <2>2, <2>3, HasWithout DEF Forgets
  <2>4. CASE UNCHANGED ready
    BY <1>2, <2>2, <2>4
  <2> QED
    BY <2>2, <2>3, <2>4
<1> QED
  BY <1>4, <1>5, <1>6, <1>7, <1>8, <1>9, <1>10, <1>11, <1>12

\* A connection that comes, or bytes, raise an edge; to register the listening socket
\* raises one if somebody is waiting.
LEMMA OutsideSteps ==
  ASSUME Edges
  PROVE  /\ \A c \in Conns : Connect(c) => UNCHANGED watching /\
                               IF watching THEN Raises(Listen) ELSE Stays
         /\ \A c \in Conns : Arrive(c) \/ Leave(c) => UNCHANGED watching /\ (Stays \/ Raises(c))
         /\ \A c \in Conns : Drain(c) => Stays
         /\ Run => watching' /\ UNCHANGED batch /\
                     IF backlog # <<>> THEN Raises(Listen) ELSE UNCHANGED <<ready, pc>>
<1>1. ready \in Seq(Sources) /\ NoTwice(ready) /\ FetchesEmpty
  BY DEF Edges, EdgesOnce, TypeOK, Sources
<1>2. Listen \in Sources /\ \A c \in Conns : c \in Sources
  BY DEF Sources
<1>3. ASSUME NEW c \in Conns, Connect(c)
      PROVE  UNCHANGED watching /\ IF watching THEN Raises(Listen) ELSE Stays
  <2>1. /\ UNCHANGED <<batch, pc, watching>>
        /\ ready' = IF watching THEN Edge(ready, Listen) ELSE ready
    BY <1>3 DEF Connect, thread
  <2> QED
    BY <1>1, <1>2, <2>1, HasEdge DEF Raises, Stays, FetchesEmpty
<1>4. ASSUME NEW c \in Conns, Arrive(c) \/ Leave(c) PROVE UNCHANGED watching /\ (Stays \/ Raises(c))
  <2>1. /\ UNCHANGED <<batch, pc, watching>>
        /\ ready' = IF stage[c] = "open" THEN Edge(ready, c) ELSE ready
    BY <1>4 DEF Arrive, Leave, thread
  <2> QED
    BY <1>1, <1>2, <2>1, HasEdge DEF Raises, Stays, FetchesEmpty
<1>5. ASSUME NEW c \in Conns, Drain(c) PROVE Stays
  BY <1>1, <1>5 DEF Drain, thread, Stays, FetchesEmpty
<1>6. ASSUME Run
      PROVE  watching' /\ UNCHANGED batch /\
               IF backlog # <<>> THEN Raises(Listen) ELSE UNCHANGED <<ready, pc>>
  <2>1. /\ UNCHANGED <<batch, pc>> /\ watching' /\ ~watching
        /\ ready' = IF backlog # <<>> THEN Append(ready, Listen) ELSE ready
    BY <1>6 DEF Run, thread
  <2>2. ~Has(ready, Listen)
    BY <2>1 DEF Edges, NotYet
  <2> QED
    BY <1>1, <1>2, <2>1, <2>2, HasAppend DEF Raises
<1> QED
  BY <1>3, <1>4, <1>5, <1>6

\* Every step keeps the edges where they can be.
LEMMA EdgesKept == Edges /\ [Next]_vars => Edges'
<1> SUFFICES ASSUME Edges, [Next]_vars PROVE Edges'
  OBVIOUS
<1> DEFINE Kept == (EdgesOnce /\ FetchesEmpty /\ NotYet)'
<1>0. EdgesOnce /\ FetchesEmpty /\ NotYet
  BY DEF Edges
<1>1. ASSUME NEW w \in Workers, Moves(w) PROVE Kept
  <2>1. EdgesOnce'
    BY <1>0, <1>1 DEF Moves, EdgesOnce
  <2>2. FetchesEmpty'
    BY <1>0, <1>1 DEF Moves, FetchesEmpty
  <2>3. NotYet'
    BY <1>0, <1>1 DEF Moves, NotYet
  <2> QED
    BY <2>1, <2>2, <2>3
<1>2. ASSUME NEW w \in Workers, Turns(w) PROVE Kept
  <2>1. EdgesOnce'
    BY <1>0, <1>2 DEF Turns, EdgesOnce
  <2>2. FetchesEmpty'
    BY <1>0, <1>2 DEF Turns, FetchesEmpty
  <2>3. NotYet'
    BY <1>0, <1>2 DEF Turns, NotYet
  <2> QED
    BY <2>1, <2>2, <2>3
<1>11. ASSUME NEW w \in Workers, TurnsAway(w) PROVE Kept
  BY <1>0, <1>11 DEF TurnsAway, EdgesOnce, FetchesEmpty, NotYet
<1>3. ASSUME NEW s, Raises(s), watching' \/ (UNCHANGED watching /\ s # Listen) PROVE Kept
  BY <1>0, <1>3 DEF Raises, EdgesOnce, FetchesEmpty, NotYet
<1>4. ASSUME NEW c, Forgets(c) PROVE Kept
  BY <1>0, <1>4 DEF Forgets, EdgesOnce, FetchesEmpty, NotYet
<1>5. ASSUME Stays PROVE Kept
  BY <1>0, <1>5 DEF Stays, EdgesOnce, FetchesEmpty, NotYet
<1>6. Listen \notin Conns
  BY ConstantsAssumption
<1>7. CASE Run
  <2>1. ASSUME backlog # <<>> PROVE Kept
    BY <1>3, <1>7, <2>1, OutsideSteps
  <2>2. ASSUME backlog = <<>> PROVE Kept
    BY <1>0, <1>7, <2>2, OutsideSteps DEF EdgesOnce, FetchesEmpty, NotYet
  <2> QED
    BY <1>7, <2>1, <2>2, OutsideTyped DEF Edges
<1>8. ASSUME NEW c \in Conns, Connect(c) \/ Arrive(c) \/ Leave(c) \/ Drain(c) PROVE Edges'
  <2>1. TypeOK' /\ HasConn'
    BY <1>8, OutsideTyped DEF Edges
  <2>2. Kept
    BY <1>3, <1>5, <1>6, <1>8, OutsideSteps
  <2> QED
    BY <2>1, <2>2 DEF Edges
<1>9. ASSUME NEW w \in Workers, Step(w) PROVE Edges'
  <2>1. TypeOK' /\ HasConn'
    BY <1>9, ThreadTyped DEF Edges
  <2>2. CASE Fetch(w)
    BY <1>1, <2>1, <2>2, FetchMoves DEF Edges
  <2>3. CASE Accept(w) \/ AcceptFails(w) \/ Read(w) \/ ReadNothing(w) \/ Miss(w)
    BY <1>2, <2>1, <2>3, EventTurns DEF Edges
  <2>4. CASE Lock(w) \/ ShakeFails(w) \/ Shake(w) \/ Handle(w) \/ Ignore(w) \/ Write(w) \/ WriteFails(w)
    BY <1>5, <2>1, <2>4, OtherSteps DEF Edges
  <2>5. CASE Join(w)
    BY <1>3, <1>5, <1>6, <2>1, <2>5, OtherSteps DEF Edges
  <2>6. CASE Condemn(w)
    BY <1>4, <1>5, <2>1, <2>6, OtherSteps DEF Edges
  <2>7. CASE ReadEnd(w)
    BY <1>11, <2>1, <2>7, EndTurns DEF Edges
  <2> QED
    BY <1>9, <2>2, <2>3, <2>4, <2>5, <2>6, <2>7 DEF Step
<1>10. CASE UNCHANGED vars
  BY <1>10 DEF Edges, TypeOK, HasConn, EdgesOnce, FetchesEmpty, NotYet, Total, vars, net, thread, marks
<1> QED
  BY <1>7, <1>8, <1>9, <1>10 DEF Next

-----------------------------------------------------------------------------
(* The properties. *)

\* Every variable has its type: no position is past what it is a position in, and
\* an answer is never written past its end.
THEOREM TypeCorrect == Spec => []TypeOK
<1>1. Edges => TypeOK
  BY DEF Edges
<1> QED
  BY <1>1, EdgesInit, EdgesKept, PTL DEF Spec

-----------------------------------------------------------------------------
(* The accept queue. *)

Merging == refused = 0 => merged <= Backlog

\* The edges on their way are so many, and finitely many.
LEMMA PendingIsNat ==
  ASSUME TypeOK
  PROVE  IsFiniteSet(Accepting) /\ Cardinality(Accepting) \in Nat /\ PendingEdges \in Nat
<1>1. Accepting \in SUBSET Workers
  BY DEF Accepting
<1>2. IsFiniteSet(Accepting) /\ Cardinality(Accepting) \in Nat
  BY <1>1, ConstantsAssumption, FS_Subset, FS_CardinalityType
<1> QED
  BY <1>2 DEF PendingEdges, Flag

\* A step that touches neither the queue nor an edge of the listening socket.
LEMMA PendingSame ==
  ASSUME UNCHANGED <<watching, backlog>>,
         Has(ready', Listen) <=> Has(ready, Listen),
         \A u \in Workers : Has(batch'[u], Listen) <=> Has(batch[u], Listen)
  PROVE  PendingEdges' = PendingEdges
<1>1. Accepting' = Accepting
  BY DEF Accepting
<1> QED
  BY <1>1 DEF PendingEdges, Flag

\* A client connects: its edge is one more, or it is merged with one.
LEMMA ConnectCounts ==
  ASSUME Edges, NEW c \in Conns, Connect(c)
  PROVE  \/ PendingEdges' = PendingEdges + 1 /\ merged' = merged
         \/ PendingEdges' = PendingEdges /\ merged' = merged + 1 /\ PendingEdges > 0
<1>1. /\ UNCHANGED <<watching, batch>> /\ backlog' # <<>>
      /\ merged' = IF Has(ready, Listen) \/ (~watching /\ backlog # <<>>) THEN merged + 1 ELSE merged
  <2>1. backlog' = Append(backlog, c) /\ backlog \in Seq(Conns)
    BY DEF Connect, Edges, TypeOK
  <2>2. backlog' # <<>>
    BY <2>1
  <2> QED
    BY <2>2 DEF Connect, thread
<1>2. Accepting' = Accepting /\ Cardinality(Accepting) \in Nat
  BY <1>1, PendingIsNat DEF Accepting, Edges
<1>3. CASE watching
  <2>1. Has(ready', Listen)
    BY <1>3, OutsideSteps DEF Raises
  <2> QED
    BY <1>1, <1>2, <1>3, <2>1 DEF PendingEdges, Flag
<1>4. CASE ~watching
  <2>1. ~Has(ready, Listen) /\ ~Has(ready', Listen)
    BY <1>4, OutsideSteps DEF Edges, NotYet, Stays
  <2> QED
    BY <1>1, <1>2, <1>4, <2>1 DEF PendingEdges, Flag
<1> QED
  BY <1>3, <1>4

\* run() turns the clients that wait into an edge.
LEMMA RunCounts ==
  ASSUME Edges, Run
  PROVE  PendingEdges' = PendingEdges
<1>1. ~watching /\ watching' /\ UNCHANGED <<batch, backlog>>
  BY DEF Run, thread
<1>2. Accepting' = Accepting /\ Cardinality(Accepting) \in Nat
  BY <1>1, PendingIsNat DEF Accepting, Edges
<1>3. ~Has(ready, Listen)
  BY <1>1 DEF Edges, NotYet
<1>4. CASE backlog # <<>>
  <2>1. Has(ready', Listen)
    BY <1>4, OutsideSteps DEF Raises
  <2> QED
    BY <1>1, <1>2, <1>3, <1>4, <2>1 DEF PendingEdges, Flag
<1>5. CASE backlog = <<>>
  BY <1>1, <1>2, <1>3, <1>5, OutsideSteps DEF PendingEdges, Flag
<1> QED
  BY <1>4, <1>5

\* epoll_wait carries the edge into a batch.
LEMMA FetchCounts ==
  ASSUME Edges, NEW w \in Workers, Fetch(w)
  PROVE  PendingEdges' = PendingEdges
<1>1. Moves(w) /\ UNCHANGED <<watching, backlog>>
  BY FetchMoves DEF Fetch, FetchBut
<1>2. IsFiniteSet(Accepting) /\ Cardinality(Accepting) \in Nat
  BY PendingIsNat DEF Edges
<1>3. ~Has(batch[w], Listen)
  BY <1>1 DEF Moves, Has
<1>4. CASE Has(batch'[w], Listen)
  <2>1. Accepting' = Accepting \cup {w} /\ w \notin Accepting
    BY <1>1, <1>3, <1>4 DEF Accepting, Moves
  <2>2. Cardinality(Accepting') = Cardinality(Accepting) + 1
    BY <1>2, <2>1, FS_AddElement
  <2>3. Has(ready, Listen) /\ ~Has(ready', Listen)
    BY <1>1, <1>4 DEF Moves
  <2> QED
    BY <1>1, <1>2, <2>2, <2>3 DEF PendingEdges, Flag
<1>5. CASE ~Has(batch'[w], Listen)
  <2>1. Accepting' = Accepting
    BY <1>1, <1>3, <1>5 DEF Accepting, Moves
  <2>2. Has(ready, Listen) <=> Has(ready', Listen)
    BY <1>1, <1>5 DEF Moves
  <2> QED
    BY <1>1, <2>1, <2>2 DEF PendingEdges, Flag
<1> QED
  BY <1>4, <1>5

\* An event that is turned to is one edge less if it is the listening socket's.
LEMMA TurnCounts ==
  ASSUME Edges, NEW w \in Workers, Turns(w)
  PROVE  /\ Head(batch[w]) = Listen => /\ watching /\ PendingEdges > 0
                                       /\ PendingEdges' = PendingEdges - 1
         /\ Head(batch[w]) # Listen /\ UNCHANGED backlog => PendingEdges' = PendingEdges
<1>1. IsFiniteSet(Accepting) /\ Cardinality(Accepting) \in Nat
  BY PendingIsNat DEF Edges
<1>2. ASSUME Head(batch[w]) = Listen
      PROVE  watching /\ PendingEdges > 0 /\ PendingEdges' = PendingEdges - 1
  <2>1. Has(batch[w], Listen) /\ watching /\ watching'
    BY <1>2 DEF Turns, Edges, NotYet
  <2>2. Accepting' = Accepting \ {w} /\ w \in Accepting
    BY <1>2, <2>1 DEF Accepting, Turns
  <2>3. Cardinality(Accepting') = Cardinality(Accepting) - 1 /\ Cardinality(Accepting') \in Nat
    BY <1>1, <2>2, FS_RemoveElement, FS_CardinalityType
  <2>4. UNCHANGED ready
    BY DEF Turns
  <2> QED
    BY <1>1, <2>1, <2>3, <2>4 DEF PendingEdges, Flag
<1>3. ASSUME Head(batch[w]) # Listen, UNCHANGED backlog PROVE PendingEdges' = PendingEdges
  BY <1>3, PendingSame DEF Turns
<1> QED
  BY <1>2, <1>3

\* A connection waits in the accept queue only behind an edge on its way, behind the
\* edge of another one, or behind an accept that failed: setnewconnect accepts once
\* per edge and loses none.
THEOREM QueueAccounted == Spec => [](BacklogAccounted /\ Merging)
<1> DEFINE Inv == BacklogAccounted /\ Merging
<1>1. Init => Inv
  <2> SUFFICES ASSUME Init PROVE Inv
    OBVIOUS
  <2>1. Accepting = {} /\ ~Has(ready, Listen) /\ backlog = <<>> /\ merged = 0 /\ refused = 0
    BY DEF Init, Accepting, Has
  <2>2. PendingEdges = 0
    BY <2>1, FS_EmptySet DEF PendingEdges, Flag
  <2> QED
    BY <2>1, <2>2, ConstantsAssumption DEF BacklogAccounted, Merging
<1>2. Edges /\ Inv /\ [Next]_vars => Inv'
  <2> SUFFICES ASSUME Edges, Inv, [Next]_vars PROVE Inv'
    OBVIOUS
  <2>0. /\ merged \in Nat /\ refused \in Nat /\ PendingEdges \in Nat /\ Len(backlog) \in Nat
        /\ backlog \in Seq(Conns) /\ Backlog \in Nat /\ Listen \notin Conns
    <3>1. backlog \in Seq(Conns) /\ merged \in Nat /\ refused \in Nat /\ PendingEdges \in Nat
      BY PendingIsNat DEF Edges, TypeOK
    <3> QED
      BY <3>1, ConstantsAssumption
  <2>1. ASSUME PendingEdges' = PendingEdges, UNCHANGED <<backlog, merged, refused>> PROVE Inv'
    BY <2>1 DEF BacklogAccounted, Merging
  <2>2. CASE Run
    BY <2>1, <2>2, RunCounts DEF Run, marks
  <2>3. ASSUME NEW c \in Conns, Connect(c) PROVE Inv'
    <3>1. Len(backlog') = Len(backlog) + 1 /\ refused' = refused /\ Len(backlog) <= Backlog
      BY <2>0, <2>3 DEF Connect
    <3>2. CASE PendingEdges' = PendingEdges + 1 /\ merged' = merged
      BY <2>0, <3>1, <3>2 DEF BacklogAccounted, Merging
    <3>3. CASE PendingEdges' = PendingEdges /\ merged' = merged + 1 /\ PendingEdges > 0
      BY <2>0, <3>1, <3>3 DEF BacklogAccounted, Merging
    <3> QED
      BY <2>3, <3>2, <3>3, ConnectCounts
  <2>4. ASSUME NEW c \in Conns, Arrive(c) \/ Leave(c) \/ Drain(c) PROVE Inv'
    <3>1. PendingEdges' = PendingEdges
      BY <2>0, <2>4, OutsideSteps, PendingSame DEF Arrive, Leave, Drain, Raises, Stays
    <3> QED
      BY <2>1, <2>4, <3>1 DEF Arrive, Leave, Drain, marks
  <2>5. ASSUME NEW w \in Workers, Fetch(w) PROVE Inv'
    BY <2>1, <2>5, FetchCounts DEF Fetch, FetchBut, marks
  <2>6. ASSUME NEW w \in Workers, Accept(w) PROVE Inv'
    <3>1. PendingEdges' = PendingEdges - 1 /\ PendingEdges > 0
      BY <2>6, EventTurns, TurnCounts DEF Accept
    <3>2. Len(backlog') = Len(backlog) - 1 /\ UNCHANGED <<merged, refused>>
      BY <2>0, <2>6 DEF Accept, marks
    <3> QED
      BY <2>0, <3>1, <3>2 DEF BacklogAccounted, Merging
  <2>7. ASSUME NEW w \in Workers, AcceptFails(w) PROVE Inv'
    <3>1. PendingEdges' = PendingEdges - 1 /\ PendingEdges > 0
      BY <2>7, EventTurns, TurnCounts DEF AcceptFails
    <3>2. refused' = refused + 1 /\ UNCHANGED <<backlog, merged>>
      BY <2>7 DEF AcceptFails, net
    <3> QED
      BY <2>0, <3>1, <3>2 DEF BacklogAccounted, Merging
  <2>8. ASSUME NEW w \in Workers, Read(w) \/ ReadNothing(w) \/ Miss(w) PROVE Inv'
    <3>1. Head(batch[w]) # Listen /\ UNCHANGED <<backlog, merged, refused>>
      BY <2>8 DEF Read, ReadUpTo, ReadNothing, ReadNothingThen, Miss, net
    <3>2. PendingEdges' = PendingEdges
      BY <2>8, <3>1, EventTurns, TurnCounts
    <3> QED
      BY <2>1, <3>1, <3>2
  <2>9. ASSUME NEW w \in Workers,
               Lock(w) \/ ShakeFails(w) \/ Shake(w) \/ Handle(w) \/ Ignore(w) \/ Write(w) \/ WriteFails(w)
        PROVE  Inv'
    <3>1. UNCHANGED <<backlog, merged, refused>>
      BY <2>9 DEF Lock, ShakeFails, Shake, Handle, Ignore, Write, WriteFrom, WriteFails, net, marks
    <3>2. PendingEdges' = PendingEdges
      BY <2>9, <3>1, OtherSteps, PendingSame DEF Stays
    <3> QED
      BY <2>1, <3>1, <3>2
  <2>10. ASSUME NEW w \in Workers, Join(w) \/ Condemn(w) PROVE Inv'
    <3>1. UNCHANGED <<backlog, merged, refused>>
      BY <2>10 DEF Join, Condemn, marks
    <3>2. PendingEdges' = PendingEdges
      BY <2>0, <2>10, <3>1, OtherSteps, PendingSame DEF Stays, Raises, Forgets
    <3> QED
      BY <2>1, <3>1, <3>2
  <2>12. ASSUME NEW w \in Workers, ReadEnd(w) PROVE Inv'
    <3>1. Head(batch[w]) # Listen /\ UNCHANGED <<backlog, merged, refused>>
      BY <2>12 DEF ReadEnd, ReadEndThen
    <3>2. PendingEdges' = PendingEdges
      BY <2>12, <3>1, EndTurns, PendingSame DEF TurnsAway
    <3> QED
      BY <2>1, <3>1, <3>2
  <2>11. CASE UNCHANGED vars
    <3>1. PendingEdges' = PendingEdges
      BY <2>11, PendingSame DEF vars, net, thread
    <3> QED
      BY <2>1, <2>11, <3>1 DEF vars, net, marks
  <2> QED
    BY <2>2, <2>3, <2>4, <2>5, <2>6, <2>7, <2>8, <2>9, <2>10, <2>11, <2>12 DEF Next, Step
<1> QED
  BY <1>1, <1>2, EdgesInit, EdgesKept, PTL DEF Spec

\* The server never goes deaf: as long as no accept has failed, a full accept queue
\* has an edge on its way, since a connection is merged only beside one that has an edge.
THEOREM NeverDeaf == Spec => []FullBacklogHasEdge
<1>1. Edges /\ BacklogAccounted /\ Merging => FullBacklogHasEdge
  <2> SUFFICES ASSUME Edges, BacklogAccounted, Merging, Len(backlog) = Backlog + 1, refused = 0
               PROVE  PendingEdges > 0
    BY DEF FullBacklogHasEdge
  <2>1. PendingEdges \in Nat /\ merged \in Nat /\ Backlog \in Nat
    BY PendingIsNat, ConstantsAssumption DEF Edges, TypeOK
  <2> QED
    BY <2>1 DEF BacklogAccounted, Merging
<1> QED
  BY <1>1, QueueAccounted, EdgesInit, EdgesKept, PTL DEF Spec

\* What a step does to an open connection: its event is on its way then; there is
\* nothing to be told; a thread has just turned to its event; or nothing has happened
\* to it, and it had no event before.
Undisturbed(c) ==
  /\ stage[c] = "open" /\ arrived'[c] = arrived[c] /\ readpos'[c] = readpos[c]
  /\ c \in ended' <=> c \in ended
  /\ c \in full' <=> c \in full
  /\ c \in missed' <=> c \in missed
  /\ c \in behind' <=> c \in behind

LEMMA StepOnOpen ==
  ASSUME Edges, [Next]_vars, NEW c \in Conns, stage'[c] = "open"
  PROVE  \/ EdgePending(c)'
         \/ Unread(c)' = 0 /\ c \notin ended'
         \/ \E w \in Workers : /\ Head(batch[w]) = c
                               /\ Read(w) \/ ReadNothing(w) \/ Miss(w) \/ ReadEnd(w)
         \/ ~EdgePending(c) /\ Undisturbed(c)
<1> DEFINE Goal == \/ EdgePending(c)'
                   \/ ~EdgePending(c) /\ Undisturbed(c)
<1>0. /\ Listen # c /\ c \in Sources /\ ready \in Seq(Sources)
      /\ stage \in [Conns -> {"new", "queued", "accepted", "unshaken", "greeted", "open", "closed"}]
      /\ arrived \in [Conns -> Nat] /\ readpos \in [Conns -> Nat] /\ readpos[c] <= arrived[c]
  BY ConstantsAssumption DEF Edges, TypeOK, Sources
<1> USE DEF EdgePending
<1>1. ASSUME Stays PROVE EdgePending(c) => EdgePending(c)'
  BY <1>1 DEF Stays
<1>2. ASSUME NEW s, Raises(s) PROVE EdgePending(c) => EdgePending(c)'
  BY <1>2 DEF Raises
<1>3. ASSUME NEW w \in Workers, Turns(w) \/ TurnsAway(w), Head(batch[w]) # c
      PROVE  EdgePending(c) => EdgePending(c)'
  BY <1>3 DEF Turns, TurnsAway
<1>4. ASSUME UNCHANGED <<stage, arrived, readpos, ended, full, missed, behind>>
      PROVE  Undisturbed(c)
  BY <1>4 DEF Undisturbed
<1>5. CASE Run
  <2>1. Undisturbed(c)
    BY <1>4, <1>5 DEF Run, marks
  <2> QED
    BY <1>5, <2>1, OutsideSteps DEF Raises
<1>6. ASSUME NEW d \in Conns, Connect(d) PROVE Goal
  <2>1. stage[c] = "open"
    BY <1>0, <1>6 DEF Connect
  <2>2. Undisturbed(c)
    BY <1>6, <2>1 DEF Connect, Undisturbed
  <2> QED
    BY <1>1, <1>2, <1>6, <2>2, OutsideSteps
<1>7. ASSUME NEW d \in Conns, Arrive(d) \/ Leave(d) PROVE Goal
  <2>1. CASE d = c
    <3>1. ready' = Edge(ready, c)
      BY <1>7, <2>1 DEF Arrive, Leave
    <3> QED
      BY <1>0, <3>1, HasEdge
  <2>2. CASE d # c
    <3>1. Undisturbed(c)
      BY <1>0, <1>7, <2>2 DEF Arrive, Leave, marks, Undisturbed
    <3> QED
      BY <1>1, <1>2, <1>7, <3>1, OutsideSteps
  <2> QED
    BY <2>1, <2>2
<1>8. ASSUME NEW d \in Conns, Drain(d) PROVE Goal
  <2>1. Undisturbed(c)
    BY <1>4, <1>8 DEF Drain, marks
  <2> QED
    BY <1>1, <1>8, <2>1, OutsideSteps
<1>9. ASSUME NEW w \in Workers, Fetch(w) PROVE Goal
  <2>1. Undisturbed(c)
    BY <1>4, <1>9 DEF Fetch, FetchBut, marks
  <2>2. Moves(w) /\ batch[w] = <<>>
    BY <1>9, FetchMoves DEF Moves
  <2>3. ~Has(<<>>, c)
    BY DEF Has
  <2>4. ~Has(batch[w], c)
    BY <2>2, <2>3
  <2>5. EdgePending(c) => EdgePending(c)'
    BY <2>2, <2>4 DEF Moves
  <2> QED
    BY <2>1, <2>5
<1>10. ASSUME NEW w \in Workers, Accept(w) \/ AcceptFails(w) PROVE Goal
  <2>1. Turns(w) /\ Head(batch[w]) # c
    BY <1>0, <1>10, EventTurns DEF Accept, AcceptFails
  <2>2. stage[c] = "open"
    BY <1>0, <1>10 DEF Accept, AcceptFails, net
  <2>3. Undisturbed(c)
    BY <1>10, <2>2 DEF Accept, AcceptFails, net, marks, Undisturbed
  <2> QED
    BY <1>3, <2>1, <2>3
<1>11. ASSUME NEW w \in Workers, Head(batch[w]) # c,
              Read(w) \/ ReadNothing(w) \/ Miss(w) \/ ReadEnd(w)
       PROVE  Goal
  <2>1. Turns(w) \/ TurnsAway(w)
    BY <1>11, EventTurns, EndTurns
  <2>2. stage[c] = "open" /\ arrived'[c] = arrived[c] /\ readpos'[c] = readpos[c]
    BY <1>0, <1>11 DEF Read, ReadUpTo, ReadNothing, ReadNothingThen, Miss, ReadEnd, ReadEndThen,
       Close, net
  <2>3. Undisturbed(c)
    BY <1>11, <2>2 DEF Read, ReadUpTo, ReadNothing, ReadNothingThen, Miss, ReadEnd, ReadEndThen,
       net, Undisturbed
  <2> QED
    BY <1>3, <1>11, <2>1, <2>3
<1>12. ASSUME NEW w \in Workers,
              Lock(w) \/ ShakeFails(w) \/ Shake(w) \/ Handle(w) \/ Ignore(w) \/ Write(w) \/ WriteFails(w)
       PROVE  Goal
  <2>1. stage[c] = "open"
    BY <1>0, <1>12 DEF Lock, ShakeFails, Shake, Handle, Ignore, Write, WriteFrom, WriteFails, net
  <2>2. Undisturbed(c)
    BY <1>12, <2>1 DEF Lock, ShakeFails, Shake, Handle, Ignore, Write, WriteFrom, WriteFails, net,
       marks, Undisturbed
  <2> QED
    BY <1>1, <1>12, <2>2, OtherSteps
<1>13. ASSUME NEW w \in Workers, Join(w) PROVE Goal \/ (Unread(c)' = 0 /\ c \notin ended')
  <2>1. /\ UNCHANGED <<arrived, readpos, ended, full, missed, behind>>
        /\ stage' = [stage EXCEPT ![conn[w]] = "open"]
        /\ ready' = IF Unread(conn[w]) > 0 \/ conn[w] \in ended THEN Edge(ready, conn[w]) ELSE ready
    BY <1>13 DEF Join, marks
  <2>2. CASE conn[w] = c
    <3>1. CASE Unread(c) > 0 \/ c \in ended
      BY <1>0, <2>1, <2>2, <3>1, HasEdge
    <3>2. CASE ~(Unread(c) > 0 \/ c \in ended)
      BY <1>0, <2>1, <3>2 DEF Unread
    <3> QED
      BY <3>1, <3>2
  <2>3. CASE conn[w] # c
    <3>1. Undisturbed(c)
      BY <1>0, <2>1, <2>3 DEF Undisturbed
    <3> QED
      BY <1>1, <1>2, <1>13, <3>1, OtherSteps
  <2> QED
    BY <2>2, <2>3
<1>14. ASSUME NEW w \in Workers, Condemn(w) PROVE Goal
  <2>1. /\ UNCHANGED <<arrived, readpos, ended, full, missed, behind>>
        /\ \/ stage' = [stage EXCEPT ![conn[w]] = "closed"] /\ ready' = Without(ready, conn[w])
           \/ UNCHANGED <<stage, ready>>
        /\ UNCHANGED batch
    BY <1>14 DEF Condemn, Close, marks
  <2>2. CASE UNCHANGED <<stage, ready>>
    BY <1>4, <2>1, <2>2
  <2>3. CASE stage' = [stage EXCEPT ![conn[w]] = "closed"] /\ ready' = Without(ready, conn[w])
    <3>1. conn[w] # c /\ stage[c] = "open"
      BY <1>0, <2>3
    <3>2. Undisturbed(c)
      BY <2>1, <3>1 DEF Undisturbed
    <3>3. NoTwice(ready)
      BY DEF Edges, EdgesOnce
    <3>4. Has(ready, c) => Has(ready', c)
      BY <1>0, <2>3, <3>1, <3>3, HasWithout
    <3> QED
      BY <2>1, <3>2, <3>4
  <2> QED
    BY <2>1, <2>2, <2>3
<1>15. CASE UNCHANGED vars
  BY <1>4, <1>15 DEF vars, net, thread, marks
<1> QED
  BY <1>5, <1>6, <1>7, <1>8, <1>9, <1>10, <1>11, <1>12, <1>13, <1>14, <1>15 DEF Next, Step

\* readSocketMsg reads once per edge: bytes are left with no edge on its way only
\* behind a read that has filled its buffer, or behind an event that was spent with
\* nothing read (findSocketByFD has not found the session, or a signal came).
THEOREM ReadsKeepUp == Spec => []UnreadHasEdge
<1>1. Init => UnreadHasEdge
  BY DEF Init, UnreadHasEdge
<1>2. Edges /\ UnreadHasEdge /\ [Next]_vars => UnreadHasEdge'
  <2> SUFFICES ASSUME Edges, UnreadHasEdge, [Next]_vars, NEW c \in Conns, stage'[c] = "open",
                      Unread(c)' > 0, c \notin full', c \notin missed'
               PROVE  EdgePending(c)'
    BY DEF UnreadHasEdge
  <2>0. arrived[c] \in Nat /\ readpos[c] \in Nat /\ readpos[c] <= arrived[c]
        /\ readpos \in [Conns -> Nat]
    BY DEF Edges, TypeOK
  <2>1. ~(Unread(c)' = 0)
    OBVIOUS
  <2>2. ASSUME ~EdgePending(c), Undisturbed(c) PROVE FALSE
    BY <2>2 DEF Undisturbed, UnreadHasEdge, Unread
  <2>3. ASSUME NEW w \in Workers, Head(batch[w]) = c, Read(w) PROVE FALSE
    <3> DEFINE n == Least(RecvPieces, Unread(c))
    <3>1. /\ readpos' = [readpos EXCEPT ![c] = @ + n] /\ UNCHANGED arrived
          /\ full' = IF n = RecvPieces THEN full \cup {c} ELSE full \ {c}
      BY <2>3 DEF Read, ReadUpTo
    <3>2. n = Unread(c)
      BY <3>1 DEF Least
    <3>3. Unread(c)' = 0
      BY <2>0, <3>1, <3>2 DEF Unread
    <3> QED
      BY <2>1, <3>3
  <2>4. ASSUME NEW w \in Workers, Head(batch[w]) = c, ReadNothing(w) \/ ReadEnd(w) PROVE FALSE
    <3>1. UNCHANGED <<arrived, readpos>> /\ (stage[c] # "open" \/ Unread(c) = 0)
          /\ (stage[c] # "open" => UNCHANGED stage)
      BY <2>4 DEF ReadNothing, ReadNothingThen, ReadEnd, ReadEndThen, net
    <3> QED
      BY <2>1, <3>1 DEF Unread
  <2>5. ASSUME NEW w \in Workers, Head(batch[w]) = c, Miss(w) PROVE FALSE
    BY <2>5 DEF Miss
  <2> QED
    BY <2>1, <2>2, <2>3, <2>4, <2>5, StepOnOpen
<1> QED
  BY <1>1, <1>2, EdgesInit, EdgesKept, PTL DEF Spec

\* A client that has left is left alone, its descriptor open and no event on its way,
\* only behind an event on which bytes were read, on which nothing was read, or on which
\* pushDeleteFDS refused: the one read of an event is not always the one that finds
\* the end.
THEOREM EndsAreSeen == Spec => []EndHasEdge
<1>1. Init => EndHasEdge
  BY DEF Init, EndHasEdge
<1>2. Edges /\ EndHasEdge /\ [Next]_vars => EndHasEdge'
  <2> SUFFICES ASSUME Edges, EndHasEdge, [Next]_vars, NEW c \in ended', stage'[c] = "open",
                      c \notin behind', c \notin missed'
               PROVE  EdgePending(c)'
    BY DEF EndHasEdge
  <2>0. /\ c \in Conns
        /\ stage \in [Conns -> {"new", "queued", "accepted", "unshaken", "greeted", "open", "closed"}]
    BY EdgesKept DEF Edges, TypeOK
  <2>1. ASSUME ~EdgePending(c), Undisturbed(c) PROVE FALSE
    BY <2>1 DEF Undisturbed, EndHasEdge
  <2>2. ASSUME NEW w \in Workers, Head(batch[w]) = c, Read(w) PROVE FALSE
    BY <2>2 DEF Read, ReadUpTo
  <2>3. ASSUME NEW w \in Workers, Head(batch[w]) = c, ReadNothing(w) PROVE FALSE
    BY <2>3 DEF ReadNothing, ReadNothingThen, net
  <2>4. ASSUME NEW w \in Workers, Head(batch[w]) = c, Miss(w) PROVE FALSE
    BY <2>4 DEF Miss
  <2>5. ASSUME NEW w \in Workers, Head(batch[w]) = c, ReadEnd(w) PROVE FALSE
    BY <2>0, <2>5 DEF ReadEnd, ReadEndThen, Close
  <2> QED
    BY <2>0, <2>1, <2>2, <2>3, <2>4, <2>5, StepOnOpen
<1> QED
  BY <1>1, <1>2, EdgesInit, EdgesKept, PTL DEF Spec

-----------------------------------------------------------------------------
(* What is read, and what is handled: the reads of two threads never       *)
(* overlap, and neither do a frame that is handled and a read that is      *)
(* still to be looked at.                                                  *)

Reading(w) == pc[w] \in {"parse", "write"}

ReadsApart ==
  \A w \in Workers : Reading(w) =>
    /\ 0 < got[w].first /\ got[w].first <= got[w].last /\ got[w].last <= readpos[conn[w]]
    /\ \A u \in Workers \ {w} : Reading(u) /\ conn[u] = conn[w] =>
         got[w].last < got[u].first \/ got[u].last < got[w].first

StartOf(f) == (f - 1) * Parts + 1
EndOf(f) == f * Parts

HandledPast ==
  \A c \in Conns : \A i \in 1..Len(handled[c]) :
    /\ handled[c][i] > 0 /\ EndOf(handled[c][i]) <= readpos[c]
    /\ \A w \in Workers : pc[w] = "parse" /\ conn[w] = c =>
         EndOf(handled[c][i]) < got[w].first \/ got[w].last < StartOf(handled[c][i])

HandledOnce == \A c \in Conns : IsInjective(handled[c])

\* A connection that is not crossed is one thread's at a time; whoever has it has
\* taken it from the accept queue before.
Alone ==
  \A c \in Conns \ crossed : \A w, u \in Workers : conn[w] = c /\ conn[u] = c => w = u

Queued ==
  /\ NoTwice(backlog)
  /\ \A i \in 1..Len(backlog) : stage[backlog[i]] = "queued"
  /\ \A w \in Workers : conn[w] \in Conns => stage[conn[w]] \notin {"new", "queued"}

\* What such a thread has read comes behind all that is handled.
Ascending ==
  \A c \in Conns \ crossed :
    /\ \A i, j \in 1..Len(handled[c]) : i < j => handled[c][i] < handled[c][j]
    /\ \A w \in Workers : pc[w] = "parse" /\ conn[w] = c =>
         \A i \in 1..Len(handled[c]) : EndOf(handled[c][i]) < got[w].first

Order == ReadsApart /\ HandledPast /\ HandledOnce /\ Alone /\ Ascending

\* The frame whose header a read begins with lies where the read begins.
LEMMA FramePlace ==
  ASSUME NEW k \in Nat \ {0}, PartOf(k) = 1
  PROVE  /\ FrameOf(k) \in Nat \ {0} /\ StartOf(FrameOf(k)) = k
         /\ EndOf(FrameOf(k)) = LastOf(k)
<1>1. Parts \in Nat \ {0} /\ k - 1 \in Nat
  BY ConstantsAssumption
<1>2. /\ (k - 1) \div Parts \in Nat /\ (k - 1) % Parts \in Nat
      /\ k - 1 = Parts * ((k - 1) \div Parts) + ((k - 1) % Parts)
  BY <1>1
<1>3. (k - 1) % Parts = 0
  BY <1>2 DEF PartOf
<1>4. FrameOf(k) \in Nat \ {0} /\ FrameOf(k) - 1 = (k - 1) \div Parts
  BY <1>2 DEF FrameOf
<1>5. (FrameOf(k) - 1) * Parts = k - 1
  BY <1>1, <1>2, <1>3, <1>4
<1> QED
  BY <1>4, <1>5 DEF StartOf, EndOf, LastOf

\* Frames follow each other.
LEMMA FramesFollow ==
  ASSUME NEW f \in Nat \ {0}, NEW g \in Nat \ {0}
  PROVE  /\ StartOf(f) \in Nat /\ EndOf(f) \in Nat /\ 0 < StartOf(f) /\ StartOf(f) <= EndOf(f)
         /\ EndOf(f) < StartOf(g) => f < g
         /\ f < g => EndOf(f) < StartOf(g)
<1>1. Parts \in Nat \ {0} /\ f - 1 \in Nat /\ g - 1 \in Nat
  BY ConstantsAssumption
<1>2. (f - 1) * Parts \in Nat /\ (g - 1) * Parts \in Nat /\ f * Parts = (f - 1) * Parts + Parts
  BY <1>1
<1>3. f < g => f * Parts <= (g - 1) * Parts
  BY <1>1
<1>4. g <= f => g * Parts <= f * Parts
  BY <1>1
<1>5. g * Parts = (g - 1) * Parts + Parts
  BY <1>1
<1> QED
  BY <1>1, <1>2, <1>3, <1>4, <1>5 DEF StartOf, EndOf

\* A read takes what is there behind the last one.
LEMMA ReadDoes ==
  ASSUME TypeOK, NEW w \in Workers, Read(w)
  PROVE  \E c \in Conns, n \in Nat \ {0} :
           /\ stage[c] = "open"
           /\ readpos' = [readpos EXCEPT ![c] = @ + n]
           /\ got' = [got EXCEPT ![w] = [first |-> readpos[c] + 1, last |-> readpos[c] + n]]
           /\ pc' = [pc EXCEPT ![w] = "parse"] /\ conn' = [conn EXCEPT ![w] = c]
           /\ crossed' = IF OthersWith(w, c) THEN crossed \cup {c} ELSE crossed
           /\ UNCHANGED <<stage, backlog, handled, wire, wpos, short>>
<1> DEFINE c == Head(batch[w])
           n == Least(RecvPieces, Unread(c))
<1>1. c \in Conns
  BY DEF Read, ReadUpTo, TypeOK
<1>2. arrived[c] \in Nat /\ readpos[c] \in Nat /\ readpos[c] <= arrived[c] /\ RecvPieces \in Nat
  BY <1>1, ConstantsAssumption DEF TypeOK
<1>3. n \in Nat \ {0}
  <2>1. n > 0
    BY DEF Read, ReadUpTo
  <2>2. Unread(c) \in Nat
    BY <1>2 DEF Unread
  <2> QED
    BY <1>2, <2>1, <2>2 DEF Least
<1>4. /\ stage[c] = "open"
      /\ readpos' = [readpos EXCEPT ![c] = @ + n]
      /\ got' = [got EXCEPT ![w] = [first |-> readpos[c] + 1, last |-> readpos[c] + n]]
      /\ pc' = [pc EXCEPT ![w] = "parse"] /\ conn' = [conn EXCEPT ![w] = c]
      /\ crossed' = IF OthersWith(w, c) THEN crossed \cup {c} ELSE crossed
      /\ UNCHANGED <<stage, backlog, handled, wire, wpos, short>>
  BY DEF Read, ReadUpTo, Turn, GoTo
<1> HIDE DEF c, n
<1> QED
  BY <1>1, <1>3, <1>4

\* All other steps read nothing: a thread keeps its read, or is done with it.
Loosens ==
  /\ UNCHANGED <<readpos, crossed>>
  /\ \A u \in Workers : Reading(u)' => Reading(u) /\ conn'[u] = conn[u] /\ got'[u] = got[u]
  /\ \A u \in Workers : pc'[u] = "parse" => pc[u] = "parse"

\* Whoever is done with a connection has none.
LetsGo == \A u \in Workers : conn'[u] \in {conn[u], None}

LEMMA LoosenKeeps ==
  ASSUME Edges, Order, Loosens, UNCHANGED handled
  PROVE  /\ ReadsApart' /\ HandledPast' /\ HandledOnce' /\ Ascending'
         /\ LetsGo => Alone'
<1> USE DEF Order, Loosens
<1>1. ReadsApart'
  BY DEF ReadsApart
<1>2. HandledPast'
  <2> SUFFICES ASSUME NEW c \in Conns, NEW i \in 1..Len(handled[c])
               PROVE  /\ handled[c][i] > 0 /\ EndOf(handled[c][i]) <= readpos[c]
                      /\ \A w \in Workers : pc'[w] = "parse" /\ conn'[w] = c =>
                           EndOf(handled[c][i]) < got'[w].first \/ got'[w].last < StartOf(handled[c][i])
    BY DEF HandledPast, EndOf, StartOf
  <2> QED
    BY DEF HandledPast, Reading
<1>3. HandledOnce'
  BY DEF HandledOnce, IsInjective
<1>4. ASSUME LetsGo PROVE Alone'
  BY <1>4, ConstantsAssumption DEF LetsGo, Alone
<1>5. Ascending'
  <2> SUFFICES ASSUME NEW c \in Conns \ crossed
               PROVE  /\ \A i, j \in 1..Len(handled[c]) : i < j => handled[c][i] < handled[c][j]
                      /\ \A w \in Workers : pc'[w] = "parse" /\ conn'[w] = c =>
                           \A i \in 1..Len(handled[c]) : EndOf(handled[c][i]) < got'[w].first
    BY DEF Ascending, EndOf
  <2> QED
    BY DEF Ascending, Reading
<1> QED
  BY <1>1, <1>2, <1>3, <1>4, <1>5

\* A read begins behind all that has been read or handled of the connection.
LEMMA ReadKeeps ==
  ASSUME Edges, Order, Queued, NEW w \in Workers, Read(w)
  PROVE  Order' /\ Queued'
<1>1. PICK c \in Conns, n \in Nat \ {0} :
        /\ stage[c] = "open"
        /\ readpos' = [readpos EXCEPT ![c] = @ + n]
        /\ got' = [got EXCEPT ![w] = [first |-> readpos[c] + 1, last |-> readpos[c] + n]]
        /\ pc' = [pc EXCEPT ![w] = "parse"] /\ conn' = [conn EXCEPT ![w] = c]
        /\ crossed' = IF OthersWith(w, c) THEN crossed \cup {c} ELSE crossed
        /\ UNCHANGED <<stage, backlog, handled, wire, wpos, short>>
  BY ReadDoes DEF Edges
<1>2. /\ readpos \in [Conns -> Nat] /\ handled \in [Conns -> Seq(Nat)]
      /\ pc \in [Workers -> {"next", "poll", "shake", "join", "parse", "write"}]
      /\ conn \in [Workers -> Conns \cup {None}] /\ got \in [Workers -> [first : Nat, last : Nat]]
      /\ \A u \in Workers : Reading(u) => conn[u] \in Conns
  BY DEF Edges, TypeOK, HasConn, Reading
<1>3. /\ readpos'[c] = readpos[c] + n /\ \A d \in Conns : d # c => readpos'[d] = readpos[d]
      /\ got'[w].first = readpos[c] + 1 /\ got'[w].last = readpos[c] + n
      /\ conn'[w] = c /\ pc'[w] = "parse"
      /\ \A u \in Workers \ {w} : got'[u] = got[u] /\ conn'[u] = conn[u] /\ pc'[u] = pc[u]
      /\ readpos[c] \in Nat
  BY <1>1, <1>2
<1>11. \A d \in Conns : readpos[d] \in Nat /\ readpos'[d] \in Nat /\ readpos[d] <= readpos'[d]
  <2> SUFFICES ASSUME NEW d \in Conns
               PROVE  readpos[d] \in Nat /\ readpos'[d] \in Nat /\ readpos[d] <= readpos'[d]
    OBVIOUS
  <2>1. readpos[d] \in Nat
    BY <1>2
  <2>2. readpos'[d] = readpos[d] \/ readpos'[d] = readpos[d] + n
    BY <1>3
  <2> QED
    BY <2>1, <2>2
<1>4. ReadsApart'
  <2> SUFFICES ASSUME NEW u \in Workers, Reading(u)'
               PROVE  /\ 0 < got'[u].first /\ got'[u].first <= got'[u].last
                      /\ got'[u].last <= readpos'[conn'[u]]
                      /\ \A v \in Workers \ {u} : Reading(v)' /\ conn'[v] = conn'[u] =>
                           got'[u].last < got'[v].first \/ got'[v].last < got'[u].first
    BY DEF ReadsApart
  <2>1. \A v \in Workers \ {w} : Reading(v)' => Reading(v) /\ got[v].first \in Nat /\ got[v].last \in Nat
                                                /\ conn[v] \in Conns /\ got[v].last <= readpos[conn[v]]
    BY <1>2, <1>3 DEF Reading, ReadsApart, Order
  <2>2. CASE u = w
    BY <1>3, <2>1, <2>2
  <2>3. CASE u # w
    <3>1. /\ Reading(u) /\ 0 < got'[u].first /\ got'[u].first <= got'[u].last
          /\ got[u].last <= readpos[conn[u]]
      BY <1>3, <2>1, <2>3 DEF ReadsApart, Order
    <3>2. got'[u].last <= readpos'[conn'[u]]
      <4>1. /\ conn[u] \in Conns /\ conn'[u] = conn[u] /\ got'[u] = got[u] /\ got[u].last \in Nat
            /\ readpos[conn[u]] \in Nat
        BY <1>2, <1>3, <2>1, <2>3
      <4>2. readpos'[conn[u]] >= readpos[conn[u]]
        BY <1>3, <4>1, <1>11
      <4> QED
        BY <3>1, <4>1, <4>2, <1>11
    <3>3. ASSUME NEW v \in Workers \ {u}, Reading(v)', conn'[v] = conn'[u]
          PROVE  got'[u].last < got'[v].first \/ got'[v].last < got'[u].first
      <4>1. CASE v = w
        BY <1>3, <2>1, <2>3, <3>3, <4>1
      <4>2. CASE v # w
        BY <1>3, <2>1, <2>3, <3>1, <3>3, <4>2 DEF ReadsApart, Order
      <4> QED
        BY <4>1, <4>2
    <3> QED
      BY <3>1, <3>2, <3>3
  <2> QED
    BY <2>2, <2>3
<1>5. \A d \in Conns : \A i \in 1..Len(handled[d]) :
        /\ handled[d][i] \in Nat \ {0} /\ EndOf(handled[d][i]) \in Nat
        /\ EndOf(handled[d][i]) <= readpos[d]
  <2> SUFFICES ASSUME NEW d \in Conns, NEW i \in 1..Len(handled[d])
               PROVE  /\ handled[d][i] \in Nat \ {0} /\ EndOf(handled[d][i]) \in Nat
                      /\ EndOf(handled[d][i]) <= readpos[d]
    OBVIOUS
  <2>1. handled[d][i] \in Nat
    BY <1>2
  <2> QED
    BY <2>1, FramesFollow DEF Order, HandledPast
<1>6. HandledPast'
  <2> SUFFICES ASSUME NEW d \in Conns, NEW i \in 1..Len(handled[d])
               PROVE  /\ handled[d][i] > 0 /\ EndOf(handled[d][i]) <= readpos'[d]
                      /\ \A u \in Workers : pc'[u] = "parse" /\ conn'[u] = d =>
                           EndOf(handled[d][i]) < got'[u].first \/ got'[u].last < StartOf(handled[d][i])
    BY <1>1 DEF HandledPast, EndOf, StartOf
  <2>1. handled[d][i] > 0 /\ EndOf(handled[d][i]) <= readpos'[d]
    BY <1>5, <1>11
  <2>2. ASSUME NEW u \in Workers, pc'[u] = "parse", conn'[u] = d
        PROVE  EndOf(handled[d][i]) < got'[u].first \/ got'[u].last < StartOf(handled[d][i])
    <3>1. CASE u = w
      BY <1>3, <1>5, <2>2, <3>1
    <3>2. CASE u # w
      BY <1>3, <2>2, <3>2 DEF Order, HandledPast
    <3> QED
      BY <3>1, <3>2
  <2> QED
    BY <2>1, <2>2
<1>7. HandledOnce'
  BY <1>1 DEF Order, HandledOnce, IsInjective
<1>8. \A d \in Conns : d \notin crossed' => d \notin crossed /\ (d = c => ~OthersWith(w, c))
  BY <1>1
<1>9. Alone'
  BY <1>3, <1>8 DEF Order, Alone, OthersWith
<1>10. Ascending'
  <2> SUFFICES ASSUME NEW d \in Conns, d \notin crossed'
               PROVE  /\ \A i, j \in 1..Len(handled[d]) : i < j => handled[d][i] < handled[d][j]
                      /\ \A u \in Workers : pc'[u] = "parse" /\ conn'[u] = d =>
                           \A i \in 1..Len(handled[d]) : EndOf(handled[d][i]) < got'[u].first
    BY <1>1 DEF Ascending, EndOf
  <2>1. \A i, j \in 1..Len(handled[d]) : i < j => handled[d][i] < handled[d][j]
    BY <1>8 DEF Order, Ascending
  <2>2. ASSUME NEW u \in Workers, pc'[u] = "parse", conn'[u] = d, NEW i \in 1..Len(handled[d])
        PROVE  EndOf(handled[d][i]) < got'[u].first
    <3>1. CASE u = w
      BY <1>3, <1>5, <2>2, <3>1
    <3>2. CASE u # w
      BY <1>3, <1>8, <2>2, <3>2 DEF Order, Ascending
    <3> QED
      BY <3>1, <3>2
  <2> QED
    BY <2>1, <2>2
<1>12. Queued'
  BY <1>1, <1>3 DEF Queued
<1> QED
  BY <1>4, <1>6, <1>7, <1>9, <1>10, <1>12 DEF Order

\* A message that is handled lies in the read of its thread, apart from all that is
\* handled before and from what other threads have read.
LEMMA HandleKeeps ==
  ASSUME Edges, Order, NEW w \in Workers, Handle(w)
  PROVE  Order'
<1> DEFINE c == conn[w]
           r == got[w]
           f == FrameOf(r.first)
<1>1. /\ handled \in [Conns -> Seq(Nat)] /\ c \in Conns /\ pc[w] = "parse"
      /\ r.first \in Nat \ {0} /\ r.last \in Nat
      /\ pc \in [Workers -> {"next", "poll", "shake", "join", "parse", "write"}]
      /\ got \in [Workers -> [first : Nat, last : Nat]]
  BY SMTT(20) DEF Edges, TypeOK, HasConn, Handle, At
<1>2. /\ pc' = [pc EXCEPT ![w] = "write"] /\ UNCHANGED <<conn, got, readpos, crossed>>
      /\ handled' = IF Whole(r) THEN [handled EXCEPT ![c] = Append(@, f)] ELSE handled
  BY DEF Handle, GoTo, net
<1>3. Loosens /\ LetsGo
  BY <1>1, <1>2 DEF Loosens, LetsGo, Reading
<1>4. CASE ~Whole(r)
  BY <1>2, <1>3, <1>4, LoosenKeeps DEF Order
<1>5. CASE Whole(r)
  <2>1. /\ f \in Nat \ {0} /\ StartOf(f) = r.first /\ EndOf(f) <= r.last
        /\ EndOf(f) \in Nat /\ StartOf(f) <= EndOf(f)
    <3>1. PartOf(r.first) = 1 /\ LastOf(r.first) <= r.last
      BY <1>5 DEF Whole
    <3>2. f \in Nat \ {0} /\ StartOf(f) = r.first /\ EndOf(f) = LastOf(r.first)
      BY <1>1, <3>1, FramePlace
    <3> QED
      BY <3>1, <3>2, FramesFollow
  <2>2. handled' = [handled EXCEPT ![c] = Append(@, f)]
    BY <1>2, <1>5
  <2> HIDE DEF f
  <2>3. /\ \A d \in Conns \ {c} : handled'[d] = handled[d]
        /\ Len(handled[c]) \in Nat /\ Len(handled'[c]) = Len(handled[c]) + 1
        /\ handled'[c][Len(handled[c]) + 1] = f
        /\ \A i \in 1..Len(handled[c]) : handled'[c][i] = handled[c][i]
        /\ \A i \in 1..Len(handled[c]) : handled[c][i] \in Nat
    BY <1>1, <2>1, <2>2
  <2>4. r.last <= readpos[c] /\ readpos[c] \in Nat
    BY <1>1 DEF Order, ReadsApart, Reading, Edges, TypeOK
  <2>5. ASSUME NEW u \in Workers, pc'[u] = "parse", conn[u] = c
        PROVE  /\ u # w /\ pc[u] = "parse" /\ got[u].first \in Nat /\ got[u].last \in Nat
               /\ EndOf(f) < got[u].first \/ got[u].last < StartOf(f)
    <3>1. u # w /\ pc[u] = "parse" /\ got[u].first \in Nat /\ got[u].last \in Nat
      BY <1>1, <1>2, <2>5
    <3>2. r.last < got[u].first \/ got[u].last < r.first
      BY <1>1, <2>5, <3>1 DEF Order, ReadsApart, Reading
    <3> QED
      BY <1>1, <2>1, <3>1, <3>2
  <2>6. ReadsApart'
    BY <1>3 DEF Order, ReadsApart, Loosens
  <2>7. HandledPast'
    <3> SUFFICES ASSUME NEW d \in Conns, NEW i \in 1..Len(handled'[d])
                 PROVE  /\ handled'[d][i] > 0 /\ EndOf(handled'[d][i]) <= readpos[d]
                        /\ \A u \in Workers : pc'[u] = "parse" /\ conn[u] = d =>
                             EndOf(handled'[d][i]) < got[u].first \/ got[u].last < StartOf(handled'[d][i])
      BY <1>2 DEF HandledPast, EndOf, StartOf
    <3>1. CASE d # c
      BY <1>3, <2>3, <3>1 DEF Order, HandledPast, Loosens
    <3>2. CASE d = c /\ i \in 1..Len(handled[c])
      BY <1>3, <2>3, <3>2 DEF Order, HandledPast, Loosens
    <3>3. CASE d = c /\ i = Len(handled[c]) + 1
      BY <1>1, <2>1, <2>3, <2>4, <2>5, <3>3
    <3> QED
      BY <2>3, <3>1, <3>2, <3>3
  <2>8. \A i \in 1..Len(handled[c]) : handled[c][i] # f
    <3> SUFFICES ASSUME NEW i \in 1..Len(handled[c]), handled[c][i] = f PROVE FALSE
      OBVIOUS
    <3>1. EndOf(f) < r.first \/ r.last < StartOf(f)
      BY <1>1 DEF Order, HandledPast
    <3> QED
      BY <1>1, <2>1, <3>1
  <2>9. HandledOnce'
    <3> SUFFICES ASSUME NEW d \in Conns PROVE IsInjective(handled'[d])
      BY DEF HandledOnce
    <3>1. CASE d # c
      BY <2>3, <3>1 DEF Order, HandledOnce
    <3>2. CASE d = c
      <4>1. DOMAIN handled[c] = 1..Len(handled[c]) /\ DOMAIN handled'[c] = 1..Len(handled'[c])
        BY <1>1, <2>1, <2>2
      <4>2. \A i, j \in 1..Len(handled[c]) : handled[c][i] = handled[c][j] => i = j
        BY <1>1, <4>1 DEF Order, HandledOnce, IsInjective
      <4>3. \A i, j \in 1..Len(handled'[c]) : handled'[c][i] = handled'[c][j] => i = j
        <5> SUFFICES ASSUME NEW i \in 1..Len(handled'[c]), NEW j \in 1..Len(handled'[c]),
                            handled'[c][i] = handled'[c][j]
                     PROVE  i = j
          OBVIOUS
        <5>1. CASE i <= Len(handled[c]) /\ j <= Len(handled[c])
          BY <2>3, <4>2, <5>1
        <5>2. CASE i > Len(handled[c]) \/ j > Len(handled[c])
          <6>1. \A k \in 1..Len(handled'[c]) : k <= Len(handled[c]) => handled'[c][k] # f
            BY SMTT(20), <2>3, <2>8
          <6>2. i = Len(handled[c]) + 1 \/ j = Len(handled[c]) + 1
            BY <2>3, <5>2
          <6>3. handled'[c][i] = f /\ handled'[c][j] = f
            BY <2>3, <6>2
          <6> QED
            BY <2>3, <6>1, <6>3
        <5> QED
          BY <2>3, <5>1, <5>2
      <4> QED
        BY <3>2, <4>1, <4>3 DEF IsInjective
    <3> QED
      BY <3>1, <3>2
  <2>10. Alone'
    BY <1>2 DEF Order, Alone
  <2>11. Ascending'
    <3> SUFFICES ASSUME NEW d \in Conns \ crossed
                 PROVE  /\ \A i, j \in 1..Len(handled'[d]) : i < j => handled'[d][i] < handled'[d][j]
                        /\ \A u \in Workers : pc'[u] = "parse" /\ conn[u] = d =>
                             \A i \in 1..Len(handled'[d]) : EndOf(handled'[d][i]) < got[u].first
      BY <1>2 DEF Ascending, EndOf
    <3>1. CASE d # c
      BY <1>3, <2>3, <3>1 DEF Order, Ascending, Loosens
    <3>2. CASE d = c
      <4>1. \A u \in Workers : conn[u] = c => u = w
        BY <1>1, <3>2 DEF Order, Alone
      <4>2. \A u \in Workers : ~(pc'[u] = "parse" /\ conn[u] = c)
        BY <2>5, <4>1
      <4>3. ASSUME NEW i \in 1..Len(handled[c]) PROVE handled[c][i] < f
        <5>1. handled[c][i] \in Nat \ {0}
          BY <1>1, <2>3 DEF Order, HandledPast
        <5>2. EndOf(handled[c][i]) < StartOf(f)
          BY <1>1, <2>1, <3>2 DEF Order, Ascending
        <5> QED
          BY <2>1, <5>1, <5>2, FramesFollow
      <4>4. \A i, j \in 1..Len(handled[c]) : i < j => handled[c][i] < handled[c][j]
        BY <3>2 DEF Order, Ascending
      <4>5. \A i, j \in 1..Len(handled'[c]) : i < j => handled'[c][i] < handled'[c][j]
        <5> SUFFICES ASSUME NEW i \in 1..Len(handled'[c]), NEW j \in 1..Len(handled'[c]), i < j
                     PROVE  handled'[c][i] < handled'[c][j]
          OBVIOUS
        <5>1. CASE j <= Len(handled[c])
          <6>1. i \in 1..Len(handled[c]) /\ j \in 1..Len(handled[c])
            BY <2>3, <5>1
          <6>2. handled'[c][i] = handled[c][i] /\ handled'[c][j] = handled[c][j]
            BY <2>3, <6>1
          <6> QED
            BY <4>4, <6>1, <6>2
        <5>2. CASE j = Len(handled[c]) + 1
          BY <2>3, <4>3, <5>2
        <5> QED
          BY <2>3, <5>1, <5>2
      <4> QED
        BY <3>2, <4>2, <4>5
    <3> QED
      BY <3>1, <3>2
  <2> QED
    BY <2>6, <2>7, <2>9, <2>10, <2>11 DEF Order
<1> QED
  BY <1>4, <1>5

\* The connection that is accepted is nobody's yet.
LEMMA AcceptKeeps ==
  ASSUME Edges, Order, Queued, NEW w \in Workers, Accept(w)
  PROVE  Order' /\ Queued'
<1> DEFINE h == Head(backlog)
<1>1. /\ backlog \in Seq(Conns) /\ backlog # <<>> /\ NoTwice(backlog)
      /\ pc \in [Workers -> {"next", "poll", "shake", "join", "parse", "write"}]
      /\ conn \in [Workers -> Conns \cup {None}]
      /\ stage \in [Conns -> {"new", "queued", "accepted", "unshaken", "greeted", "open", "closed"}]
  BY DEF Edges, TypeOK, Queued, Accept
<1>2. /\ backlog' = Tail(backlog) /\ stage' = [stage EXCEPT ![h] = "accepted"]
      /\ conn' = [conn EXCEPT ![w] = h] /\ pc' = [pc EXCEPT ![w] = "shake"]
      /\ UNCHANGED <<readpos, got, handled, crossed>>
  BY DEF Accept, Turn, GoTo, marks
<1>3. /\ Tail(backlog) \in Seq(Conns) /\ h \in Conns /\ Has(backlog, h) /\ NoTwice(Tail(backlog))
      /\ \A t : Has(Tail(backlog), t) <=> Has(backlog, t) /\ t # h
  BY <1>1, HasTail
<1>4. \A t : Has(backlog, t) => stage[t] = "queued"
  BY DEF Has, Queued
<1>5. \A u \in Workers : conn[u] # h
  BY <1>3, <1>4 DEF Queued
<1>6. Loosens /\ UNCHANGED handled
  BY <1>1, <1>2 DEF Loosens, Reading
<1>7. Alone'
  BY <1>1, <1>2, <1>5 DEF Order, Alone
<1>8. Order'
  BY <1>6, <1>7, LoosenKeeps DEF Order
<1> HIDE DEF h
<1>9. \A i \in 1..Len(backlog') : stage'[backlog'[i]] = "queued"
  <2> SUFFICES ASSUME NEW i \in 1..Len(backlog') PROVE stage'[backlog'[i]] = "queued"
    OBVIOUS
  <2>1. Has(Tail(backlog), backlog'[i]) /\ backlog'[i] \in Conns
    BY <1>2, <1>3 DEF Has
  <2>2. stage[backlog'[i]] = "queued" /\ backlog'[i] # h
    BY <1>3, <1>4, <2>1
  <2> QED
    BY <1>1, <1>2, <2>1, <2>2
<1>10. \A u \in Workers : conn'[u] \in Conns => stage'[conn'[u]] \notin {"new", "queued"}
  <2> SUFFICES ASSUME NEW u \in Workers, conn'[u] \in Conns
               PROVE  stage'[conn'[u]] \notin {"new", "queued"}
    OBVIOUS
  <2>1. CASE u = w
    BY <1>1, <1>2, <1>3, <2>1
  <2>2. CASE u # w
    <3>1. conn'[u] = conn[u] /\ conn[u] # h
      BY <1>1, <1>2, <1>5, <2>2
    <3> QED
      BY <1>1, <1>2, <3>1 DEF Queued
  <2> QED
    BY <2>1, <2>2
<1> QED
  BY <1>2, <1>3, <1>8, <1>9, <1>10 DEF Queued

\* All the other steps.
LEMMA OrderKept == Edges /\ Order /\ Queued /\ [Next]_vars => Order' /\ Queued'
<1> SUFFICES ASSUME Edges, Order, Queued, [Next]_vars PROVE Order' /\ Queued'
  OBVIOUS
<1>0. /\ None \notin Conns /\ backlog \in Seq(Conns)
      /\ pc \in [Workers -> {"next", "poll", "shake", "join", "parse", "write"}]
      /\ conn \in [Workers -> Conns \cup {None}]
      /\ stage \in [Conns -> {"new", "queued", "accepted", "unshaken", "greeted", "open", "closed"}]
  BY ConstantsAssumption DEF Edges, TypeOK
<1>1. ASSUME Loosens, LetsGo, UNCHANGED handled PROVE Order'
  BY <1>1, LoosenKeeps DEF Order
<1>2. ASSUME LetsGo, UNCHANGED <<stage, backlog>> PROVE Queued'
  BY <1>0, <1>2 DEF LetsGo, Queued
<1>3. ASSUME NEW w \in Workers, NEW l, l \notin {"new", "queued"}, conn[w] \in Conns, LetsGo,
             stage' = [stage EXCEPT ![conn[w]] = l], UNCHANGED backlog
      PROVE  Queued'
  <2>1. \A c \in Conns : stage'[c] = IF c = conn[w] THEN l ELSE stage[c]
    BY <1>0, <1>3
  <2>2. \A i \in 1..Len(backlog) : backlog[i] \in Conns /\ backlog[i] # conn[w]
    BY <1>0, <1>3 DEF Queued
  <2> QED
    BY <1>0, <1>3, <2>1, <2>2 DEF LetsGo, Queued
<1>4. CASE Run
  BY <1>1, <1>2, <1>4 DEF Run, thread, marks, Loosens, LetsGo, Reading
<1>5. ASSUME NEW c \in Conns, Connect(c) PROVE Order' /\ Queued'
  <2>1. /\ stage[c] = "new" /\ stage' = [stage EXCEPT ![c] = "queued"]
        /\ backlog' = Append(backlog, c)
        /\ UNCHANGED <<pc, conn, got, readpos, handled, crossed>>
    BY <1>5 DEF Connect, thread
  <2>2. Order'
    BY <1>1, <2>1 DEF Loosens, LetsGo, Reading
  <2>3. ~Has(backlog, c)
    BY <2>1 DEF Queued, Has
  <2>4. /\ backlog' \in Seq(Conns) /\ NoTwice(backlog')
        /\ \A t : Has(backlog', t) <=> Has(backlog, t) \/ t = c
    BY <1>0, <2>1, <2>3, HasAppend DEF Queued
  <2>5. ASSUME NEW i \in 1..Len(backlog') PROVE stage'[backlog'[i]] = "queued"
    <3>1. Has(backlog', backlog'[i]) /\ backlog'[i] \in Conns
      BY <2>4 DEF Has
    <3>2. backlog'[i] = c \/ Has(backlog, backlog'[i])
      BY <2>4, <3>1
    <3>3. Has(backlog, backlog'[i]) => stage[backlog'[i]] = "queued"
      BY DEF Has, Queued
    <3> QED
      BY <1>0, <2>1, <3>1, <3>2, <3>3
  <2>6. \A u \in Workers : conn'[u] \in Conns => stage'[conn'[u]] \notin {"new", "queued"}
    BY <1>0, <2>1 DEF Queued
  <2> QED
    BY <2>2, <2>4, <2>5, <2>6 DEF Queued
<1>6. ASSUME NEW c \in Conns, Arrive(c) \/ Leave(c) \/ Drain(c) PROVE Order' /\ Queued'
  <2>1. Loosens /\ LetsGo /\ UNCHANGED <<handled, stage, backlog>>
    BY <1>6 DEF Arrive, Leave, Drain, thread, marks, Loosens, LetsGo, Reading
  <2> QED
    BY <1>1, <1>2, <2>1
<1>7. ASSUME NEW w \in Workers,
             \/ Lock(w) \/ Fetch(w) \/ AcceptFails(w) \/ ReadNothing(w) \/ Miss(w) \/ Ignore(w)
             \/ WriteFails(w)
      PROVE  Order' /\ Queued'
  <2>1. \E l \in {"next", "poll"} : pc' = [pc EXCEPT ![w] = l] \/ UNCHANGED pc
    BY <1>7 DEF Lock, Fetch, FetchBut, AcceptFails, ReadNothing, ReadNothingThen, Miss, Ignore, WriteFails,
       GoTo, Turn, Done
  <2>2. /\ UNCHANGED <<readpos, handled, crossed, stage, backlog>>
        /\ \A u \in Workers : u # w => got'[u] = got[u] /\ conn'[u] = conn[u]
        /\ conn'[w] \in {conn[w], None}
        /\ UNCHANGED <<got, conn>> \/ pc' = [pc EXCEPT ![w] = "next"]
    BY <1>0, <1>7 DEF Lock, Fetch, FetchBut, AcceptFails, ReadNothing, ReadNothingThen, Miss, Ignore, WriteFails,
       GoTo, Turn, Done, net, marks, Edges, TypeOK
  <2>3. Loosens /\ LetsGo
    BY <1>0, <2>1, <2>2 DEF Loosens, LetsGo, Reading
  <2> QED
    BY <1>1, <1>2, <2>2, <2>3
<1>8. ASSUME NEW w \in Workers, ShakeFails(w) \/ Shake(w) \/ Join(w) \/ Condemn(w)
      PROVE  Order' /\ Queued'
  <2>1. \/ \E l \in {"unshaken", "greeted", "open", "closed"} : stage' = [stage EXCEPT ![conn[w]] = l]
        \/ UNCHANGED stage
    BY <1>8 DEF ShakeFails, Shake, Join, Condemn, Close
  <2>2. \E l \in {"next", "join"} : pc' = [pc EXCEPT ![w] = l]
    BY <1>8 DEF ShakeFails, Shake, Join, Condemn, GoTo, Done
  <2>3. /\ UNCHANGED <<readpos, handled, crossed, backlog>> /\ conn[w] \in Conns
        /\ \A u \in Workers : u # w => got'[u] = got[u] /\ conn'[u] = conn[u]
        /\ conn'[w] \in {conn[w], None}
    BY <1>0, <1>8 DEF ShakeFails, Shake, Join, Condemn, At, Done, marks, Edges, HasConn, TypeOK
  <2>4. Loosens /\ LetsGo
    BY <1>0, <2>2, <2>3 DEF Loosens, LetsGo, Reading
  <2> QED
    BY <1>1, <1>2, <1>3, <2>1, <2>3, <2>4
<1>12. ASSUME NEW w \in Workers, ReadEnd(w) PROVE Order' /\ Queued'
  <2>1. /\ stage[Head(batch[w])] = "open"
        /\ stage' = [stage EXCEPT ![Head(batch[w])] = "closed"] \/ UNCHANGED stage
        /\ UNCHANGED <<pc, conn, got, readpos, handled, crossed, backlog>>
    BY <1>12 DEF ReadEnd, ReadEndThen, Close
  <2>2. Order'
    BY <1>1, <2>1 DEF Loosens, LetsGo, Reading
  <2>3. \A c \in Conns : stage'[c] = stage[c] \/ (stage[c] = "open" /\ stage'[c] = "closed")
    BY <1>0, <2>1
  <2>4. \A i \in 1..Len(backlog) : backlog[i] \in Conns
    BY <1>0
  <2> QED
    BY <2>1, <2>2, <2>3, <2>4 DEF Queued
<1>9. ASSUME NEW w \in Workers, Write(w) PROVE Order' /\ Queued'
  <2>1. Done(w) \/ UNCHANGED <<pc, conn, got>>
    BY <1>9 DEF Write, WriteFrom
  <2>2. UNCHANGED <<readpos, handled, crossed, stage, backlog>>
    BY <1>9 DEF Write, WriteFrom
  <2>3. Loosens /\ LetsGo
    BY <1>0, <2>1, <2>2 DEF Loosens, LetsGo, Reading, Done, GoTo, Edges, TypeOK
  <2> QED
    BY <1>1, <1>2, <2>2, <2>3
<1>10. ASSUME NEW w \in Workers, Handle(w) PROVE Order' /\ Queued'
  <2>1. LetsGo /\ UNCHANGED <<stage, backlog>>
    BY <1>10 DEF Handle, net, LetsGo
  <2> QED
    BY <1>2, <1>10, <2>1, HandleKeeps
<1>11. CASE UNCHANGED vars
  <2>1. Loosens /\ LetsGo /\ UNCHANGED <<handled, stage, backlog>>
    BY <1>11 DEF vars, net, thread, marks, Loosens, LetsGo, Reading
  <2> QED
    BY <1>1, <1>2, <2>1
<1> QED
  BY <1>4, <1>5, <1>6, <1>7, <1>8, <1>9, <1>10, <1>11, <1>12, ReadKeeps, AcceptKeeps DEF Next, Step

LEMMA OrderInit == Init => Order /\ Queued
<1> SUFFICES ASSUME Init PROVE Order /\ Queued
  OBVIOUS
<1>1. /\ \A w \in Workers : pc[w] = "next" /\ conn[w] = None
      /\ \A c \in Conns : handled[c] = <<>> /\ Len(handled[c]) = 0
      /\ backlog = <<>> /\ Len(backlog) = 0 /\ None \notin Conns
  BY ConstantsAssumption DEF Init
<1>2. IsInjective(<<>>)
  BY DEF IsInjective
<1> QED
  BY <1>1, <1>2 DEF Order, Queued, ReadsApart, Reading, HandledPast, HandledOnce, Alone, Ascending,
     NoTwice

\* However many edges its bytes have raised, readSocketMsg hands no message over
\* twice, and those of a client in the order they were sent, unless two threads have
\* been with that client at the same time.
THEOREM MessagesInOrder == Spec => []HandledInOrder
<1>1. Order => HandledInOrder
  BY DEF Order, HandledOnce, Ascending, HandledInOrder
<1> QED
  BY <1>1, OrderInit, OrderKept, EdgesInit, EdgesKept, PTL DEF Spec

-----------------------------------------------------------------------------
(***************************************************************************)
(* What the write loop of GameServer::sendMsg leaves on the wire.  A part  *)
(* of an answer is on the wire only up to where its writer is (Behind),    *)
(* and a read whose message is still to be handled has no part there; that *)
(* rests on the reads of two threads never being the same (ReadsApart).    *)
(***************************************************************************)

Behind ==
  \A c \in Conns : \A i \in 1..Len(wire[c]) :
    /\ wire[c][i][1] <= readpos[c]
    /\ \A w \in Workers : conn[w] = c =>
         /\ pc[w] = "parse" => wire[c][i][1] # got[w].first
         /\ pc[w] = "write" /\ wire[c][i][1] = got[w].first => wire[c][i][2] <= wpos[w]

WrittenOnce == \A c \in Conns : IsInjective(wire[c])

\* A list of parts is made of whole answers.
PartsFollow(list) ==
  \A i \in 1..Len(list) :
    /\ list[i][2] = ((i - 1) % ReplyParts) + 1
    /\ list[i][2] > 1 => list[i][1] = list[i - 1][1]
InAnswers(list) ==
  /\ \E q \in Nat : Len(list) = q * ReplyParts
  /\ PartsFollow(list)

\* A connection whose buffer has always sufficed has got whole answers, and those
\* who are to write to it have not begun.
WholeSoFar ==
  \A c \in Conns \ short :
    /\ \A w \in Workers : pc[w] = "write" /\ conn[w] = c => wpos[w] = 0
    /\ InAnswers(wire[c])

Answers == Behind /\ WrittenOnce /\ WholeSoFar

LEMMA AnswersInit == Init => Answers
<1> SUFFICES ASSUME Init PROVE Answers
  OBVIOUS
<1>1. /\ \A w \in Workers : pc[w] = "next"
      /\ \A c \in Conns : wire[c] = <<>> /\ Len(wire[c]) = 0
  BY DEF Init
<1>2. IsInjective(<<>>)
  BY DEF IsInjective
<1>3. 0 \in Nat /\ 0 = 0 * ReplyParts
  BY ConstantsAssumption
<1> QED
  BY <1>1, <1>2, <1>3 DEF Answers, Behind, WrittenOnce, WholeSoFar, InAnswers, PartsFollow

-----------------------------------------------------------------------------
(* The steps that write nothing. *)

\* A new read begins behind all earlier ones, a new writer has just handled what it
\* has read; and nobody writes.
NoNews(u) ==
  /\ pc'[u] = "parse" =>
       \/ pc[u] = "parse" /\ conn'[u] = conn[u] /\ got'[u] = got[u]
       \/ conn'[u] \in Conns => readpos[conn'[u]] < got'[u].first
  /\ pc'[u] = "write" =>
       /\ conn'[u] = conn[u] /\ got'[u] = got[u]
       /\ \/ pc[u] = "write" /\ wpos'[u] = wpos[u]
          \/ pc[u] = "parse" /\ wpos'[u] = 0
Quiet ==
  /\ UNCHANGED wire /\ short \subseteq short'
  /\ \A c \in Conns : readpos[c] <= readpos'[c]
  /\ \A u \in Workers : NoNews(u)

\* The parts on a wire, and where the reads are, are numbers.
LEMMA PartIsPair ==
  ASSUME TypeOK, NEW c \in Conns, NEW i \in 1..Len(wire[c])
  PROVE  wire[c][i][1] \in Nat /\ wire[c][i][2] \in Nat
<1>1. wire[c] \in Seq(Nat \X Nat)
  BY DEF TypeOK
<1>2. wire[c][i] \in Nat \X Nat
  BY <1>1
<1> QED
  BY <1>2

LEMMA QuietKeeps == ASSUME TypeOK, TypeOK', Answers, Quiet PROVE Answers'
<1> USE DEF Quiet, NoNews
<1>1. Behind'
  <2> SUFFICES ASSUME NEW c \in Conns, NEW i \in 1..Len(wire[c])
               PROVE  /\ wire[c][i][1] <= readpos'[c]
                      /\ \A w \in Workers : conn'[w] = c =>
                           /\ pc'[w] = "parse" => wire[c][i][1] # got'[w].first
                           /\ pc'[w] = "write" /\ wire[c][i][1] = got'[w].first
                                => wire[c][i][2] <= wpos'[w]
    BY DEF Behind
  <2>1. wire[c][i][1] \in Nat /\ readpos[c] \in Nat /\ readpos'[c] \in Nat
    BY PartIsPair DEF TypeOK
  <2>2. wire[c][i][1] <= readpos[c]
    BY DEF Answers, Behind
  <2>3. ASSUME NEW w \in Workers, conn'[w] = c, pc'[w] = "parse"
        PROVE  wire[c][i][1] # got'[w].first
    <3>1. CASE pc[w] = "parse" /\ conn'[w] = conn[w] /\ got'[w] = got[w]
      BY <2>3, <3>1 DEF Answers, Behind
    <3>2. CASE readpos[c] < got'[w].first
      BY <2>1, <2>2, <3>2
    <3> QED
      BY <2>3, <3>1, <3>2
  <2>4. ASSUME NEW w \in Workers, conn'[w] = c, pc'[w] = "write", wire[c][i][1] = got'[w].first
        PROVE  wire[c][i][2] <= wpos'[w]
    <3>1. conn[w] = c /\ got'[w] = got[w]
      BY <2>4
    <3>2. pc[w] # "parse"
      BY <2>4, <3>1 DEF Answers, Behind
    <3> QED
      BY <2>4, <3>1, <3>2 DEF Answers, Behind
  <2> QED
    BY <2>1, <2>2, <2>3, <2>4
<1>2. WrittenOnce'
  BY DEF Answers, WrittenOnce, IsInjective
<1>3. WholeSoFar'
  <2> SUFFICES ASSUME NEW c \in Conns \ short'
               PROVE  /\ \A w \in Workers : pc'[w] = "write" /\ conn'[w] = c => wpos'[w] = 0
                      /\ InAnswers(wire[c])
    BY DEF WholeSoFar, InAnswers, PartsFollow
  <2> QED
    BY DEF Answers, WholeSoFar
<1> QED
  BY <1>1, <1>2, <1>3 DEF Answers

-----------------------------------------------------------------------------
(* A write. *)

\* A write goes on where the writer is; if it is short, its connection is marked.
LEMMA WriteDoes ==
  ASSUME TypeOK, HasConn, NEW w \in Workers, Write(w)
  PROVE  \E n \in Nat \ {0} :
           LET c == conn[w] IN
           /\ pc[w] = "write" /\ c \in Conns /\ n <= ReplyParts - wpos[w]
           /\ \A d \in Conns \ {c} : wire'[d] = wire[d]
           /\ Len(wire'[c]) = Len(wire[c]) + n
           /\ \A i \in 1..Len(wire[c]) : wire'[c][i] = wire[c][i]
           /\ \A i \in 1..n : wire'[c][Len(wire[c]) + i] = <<got[w].first, wpos[w] + i>>
           /\ short' = IF n < ReplyParts - wpos[w] THEN short \cup {c} ELSE short
           /\ IF wpos[w] + n >= ReplyParts
                THEN Done(w)
                ELSE wpos' = [wpos EXCEPT ![w] = @ + n] /\ UNCHANGED <<pc, conn, got>>
           /\ UNCHANGED readpos
<1> DEFINE c == conn[w]
           left == ReplyParts - wpos[w]
           n == Least(Room(c), left)
           more == [i \in 1..n |-> <<got[w].first, wpos[w] + i>>]
<1>1. pc[w] = "write" /\ c \in Conns
  BY DEF Write, WriteFrom, At, HasConn
<1>2. /\ ReplyParts \in Nat \ {0} /\ SendPieces \in Nat
      /\ wpos[w] \in 0..(ReplyParts - 1) /\ drained[c] \in Nat /\ got[w].first \in Nat
  BY <1>1, ConstantsAssumption DEF TypeOK
<1>3. wire[c] \in Seq(Nat \X Nat) /\ Len(wire[c]) \in Nat
  BY <1>1 DEF TypeOK
<1>4. n \in Nat \ {0} /\ n <= left
  <2>1. n > 0
    BY DEF Write, WriteFrom
  <2> QED
    BY SMTT(20), <1>2, <1>3, <2>1 DEF Room, Least
<1>5. /\ wire' = [wire EXCEPT ![c] = @ \o more]
      /\ short' = IF n < left THEN short \cup {c} ELSE short
      /\ IF wpos[w] + n >= ReplyParts
           THEN Done(w)
           ELSE wpos' = [wpos EXCEPT ![w] = @ + n] /\ UNCHANGED <<pc, conn, got>>
      /\ UNCHANGED readpos
  BY DEF Write, WriteFrom
<1> HIDE DEF n
<1>6. more \in Seq(Nat \X Nat) /\ Len(more) = n /\ \A i \in 1..n : more[i] = <<got[w].first, wpos[w] + i>>
  BY <1>2, <1>4
<1> HIDE DEF more
<1>7. /\ Len(wire[c] \o more) = Len(wire[c]) + n
      /\ \A i \in 1..Len(wire[c]) : (wire[c] \o more)[i] = wire[c][i]
      /\ \A i \in 1..n : (wire[c] \o more)[Len(wire[c]) + i] = more[i]
  <2>1. /\ Len(wire[c] \o more) = Len(wire[c]) + Len(more)
        /\ \A i \in 1..(Len(wire[c]) + Len(more)) :
             (wire[c] \o more)[i] = IF i <= Len(wire[c]) THEN wire[c][i] ELSE more[i - Len(wire[c])]
    BY <1>3, <1>6, ConcatProperties
  <2>2. ASSUME NEW i \in 1..n PROVE (wire[c] \o more)[Len(wire[c]) + i] = more[i]
    <3>1. Len(wire[c]) + i \in 1..(Len(wire[c]) + Len(more)) /\ ~(Len(wire[c]) + i <= Len(wire[c]))
          /\ Len(wire[c]) + i - Len(wire[c]) = i
      BY <1>3, <1>4, <1>6
    <3> QED
      BY <2>1, <3>1
  <2>3. ASSUME NEW i \in 1..Len(wire[c]) PROVE (wire[c] \o more)[i] = wire[c][i]
    <3>1. i \in 1..(Len(wire[c]) + Len(more)) /\ i <= Len(wire[c])
      BY <1>3, <1>4, <1>6
    <3> QED
      BY <2>1, <3>1
  <2> QED
    BY <1>6, <2>1, <2>2, <2>3
<1>8. /\ wire'[c] = wire[c] \o more
      /\ \A d \in Conns \ {c} : wire'[d] = wire[d]
  BY <1>1, <1>5 DEF TypeOK
<1> QED
  BY <1>1, <1>4, <1>5, <1>6, <1>7, <1>8

\* A list of whole answers with a whole answer behind it is one.
LEMMA OneMore ==
  ASSUME NEW list, NEW longer, NEW a, Len(list) \in Nat, InAnswers(list),
         Len(longer) = Len(list) + ReplyParts,
         \A i \in 1..Len(list) : longer[i] = list[i],
         \A i \in 1..ReplyParts : longer[Len(list) + i] = <<a, i>>
  PROVE  InAnswers(longer)
<1>1. ReplyParts \in Nat \ {0}
  BY ConstantsAssumption
<1>2. PICK q \in Nat : Len(list) = q * ReplyParts
  BY DEF InAnswers
<1>3. q + 1 \in Nat /\ Len(longer) = (q + 1) * ReplyParts
  BY <1>1, <1>2
<1>4. ASSUME NEW i \in 1..Len(longer)
      PROVE  /\ longer[i][2] = ((i - 1) % ReplyParts) + 1
             /\ longer[i][2] > 1 => longer[i][1] = longer[i - 1][1]
  <2>1. CASE i <= Len(list)
    <3>1. i \in 1..Len(list) /\ longer[i] = list[i]
      BY <2>1
    <3>2. /\ list[i][2] = ((i - 1) % ReplyParts) + 1
          /\ list[i][2] > 1 => list[i][1] = list[i - 1][1]
      BY <3>1 DEF InAnswers, PartsFollow
    <3>3. i = 1 => (i - 1) % ReplyParts = 0
      BY <1>1
    <3>4. i # 1 => i - 1 \in 1..Len(list) /\ longer[i - 1] = list[i - 1]
      BY <3>1
    <3> QED
      BY <3>1, <3>2, <3>3, <3>4
  <2>2. CASE i > Len(list)
    <3> DEFINE j == i - Len(list)
    <3>1. j \in 1..ReplyParts /\ Len(list) + j = i
      BY <1>1, <2>2
    <3>2. longer[i] = <<a, j>>
      BY <3>1
    <3>3. i - 1 = q * ReplyParts + (j - 1)
      BY <1>2, <3>1
    <3> HIDE DEF j
    <3>4. j - 1 \in 0..(ReplyParts - 1)
      BY <1>1, <3>1
    <3>5. \A p \in Nat \ {0} : \A m \in Nat : \A r \in 0..(p - 1) : (m * p + r) % p = r
      OBVIOUS
    <3>6. (i - 1) % ReplyParts = j - 1
      BY <1>1, <3>3, <3>4, <3>5
    <3>7. j > 1 => j - 1 \in 1..ReplyParts /\ Len(list) + (j - 1) = i - 1
      BY <1>1, <3>1
    <3>8. j > 1 => longer[i - 1] = <<a, j - 1>>
      BY <3>7
    <3> QED
      BY <3>1, <3>2, <3>6, <3>8
  <2> QED
    BY <2>1, <2>2
<1> QED
  BY <1>3, <1>4 DEF InAnswers, PartsFollow

LEMMA WriteKeeps ==
  ASSUME Edges, TypeOK', Order, Answers, NEW w \in Workers, Write(w)
  PROVE  Answers'
<1> DEFINE c == conn[w]
<1>1. PICK n \in Nat \ {0} :
        /\ pc[w] = "write" /\ c \in Conns /\ n <= ReplyParts - wpos[w]
        /\ \A d \in Conns \ {c} : wire'[d] = wire[d]
        /\ Len(wire'[c]) = Len(wire[c]) + n
        /\ \A i \in 1..Len(wire[c]) : wire'[c][i] = wire[c][i]
        /\ \A i \in 1..n : wire'[c][Len(wire[c]) + i] = <<got[w].first, wpos[w] + i>>
        /\ short' = IF n < ReplyParts - wpos[w] THEN short \cup {c} ELSE short
        /\ IF wpos[w] + n >= ReplyParts
             THEN Done(w)
             ELSE wpos' = [wpos EXCEPT ![w] = @ + n] /\ UNCHANGED <<pc, conn, got>>
        /\ UNCHANGED readpos
  BY WriteDoes DEF Edges
<1>2. /\ c \in Conns /\ Len(wire[c]) \in Nat /\ ReplyParts \in Nat \ {0}
      /\ got[w].first \in Nat /\ wpos[w] \in Nat /\ readpos \in [Conns -> Nat]
      /\ pc \in [Workers -> {"next", "poll", "shake", "join", "parse", "write"}]
      /\ conn \in [Workers -> Conns \cup {None}] /\ None \notin Conns
      /\ wpos \in [Workers -> 0..(ReplyParts - 1)]
      /\ got \in [Workers -> [first : Nat, last : Nat]]
  <2>1. c \in Conns
    BY <1>1
  <2>2. Len(wire[c]) \in Nat
    BY <2>1 DEF Edges, TypeOK
  <2>3. wpos \in [Workers -> 0..(ReplyParts - 1)] /\ ReplyParts \in Nat \ {0} /\ wpos[w] \in Nat
    BY ConstantsAssumption DEF Edges, TypeOK
  <2>4. /\ got \in [Workers -> [first : Nat, last : Nat]] /\ readpos \in [Conns -> Nat]
        /\ pc \in [Workers -> {"next", "poll", "shake", "join", "parse", "write"}]
        /\ conn \in [Workers -> Conns \cup {None}] /\ None \notin Conns
    BY ConstantsAssumption DEF Edges, TypeOK
  <2>5. got[w].first \in Nat
    BY <2>4
  <2> QED
    BY <2>1, <2>2, <2>3, <2>4, <2>5
<1> HIDE DEF c
<1>3. ASSUME NEW i \in 1..Len(wire'[c])
      PROVE  \/ i \in 1..Len(wire[c]) /\ wire'[c][i] = wire[c][i]
             \/ \E j \in 1..n : i = Len(wire[c]) + j /\ wire'[c][i] = <<got[w].first, wpos[w] + j>>
  <2>1. CASE i <= Len(wire[c])
    BY SMTT(20), <1>1, <1>2, <2>1
  <2>2. CASE i > Len(wire[c])
    <3>1. i - Len(wire[c]) \in 1..n /\ Len(wire[c]) + (i - Len(wire[c])) = i
      BY <1>1, <1>2, <2>2
    <3> QED
      BY <1>1, <3>1
  <2>3. i \in Int /\ Len(wire[c]) \in Int
    BY <1>2
  <2>4. i <= Len(wire[c]) \/ i > Len(wire[c])
    BY <2>3
  <2> QED
    BY <2>1, <2>2, <2>4
<1>4. ASSUME NEW i \in 1..Len(wire[c]), wire[c][i][1] = got[w].first
      PROVE  wire[c][i][2] <= wpos[w]
  BY <1>1, <1>4 DEF Answers, Behind, c
<1>5. \A u \in Workers \ {w} : pc'[u] = pc[u] /\ conn'[u] = conn[u] /\ got'[u] = got[u] /\ wpos'[u] = wpos[u]
  BY <1>1, <1>2 DEF Done, GoTo
<1>6. \/ pc'[w] = "next" /\ conn'[w] = None
      \/ pc'[w] = pc[w] /\ conn'[w] = conn[w] /\ got'[w] = got[w] /\ wpos'[w] = wpos[w] + n
  BY <1>1, <1>2 DEF Done, GoTo
<1>7. WrittenOnce'
  <2> SUFFICES ASSUME NEW d \in Conns, NEW i \in 1..Len(wire'[d]), NEW j \in 1..Len(wire'[d]),
                      wire'[d][i] = wire'[d][j]
               PROVE  i = j
    <3>1. \A d \in Conns : DOMAIN wire'[d] = 1..Len(wire'[d])
      BY DEF TypeOK
    <3> QED
      BY <3>1 DEF WrittenOnce, IsInjective
  <2>1. \A e \in Conns : \A a, b \in 1..Len(wire[e]) : wire[e][a] = wire[e][b] => a = b
    <3>1. \A e \in Conns : DOMAIN wire[e] = 1..Len(wire[e])
      BY DEF Edges, TypeOK
    <3> QED
      BY <3>1 DEF Answers, WrittenOnce, IsInjective
  <2>2. CASE d # c
    BY <1>1, <2>1, <2>2
  <2>3. ASSUME d = c, NEW a \in 1..Len(wire[c]), NEW k \in 1..n,
               wire[c][a] = <<got[w].first, wpos[w] + k>>
        PROVE  FALSE
    <3>1. wire[c][a][1] = got[w].first /\ wire[c][a][2] = wpos[w] + k
      BY <2>3
    <3> QED
      BY SMTT(20), <1>2, <1>4, <3>1
  <2>4. CASE d = c
    <3>1. CASE i \in 1..Len(wire[c]) /\ wire'[c][i] = wire[c][i]
      BY <1>3, <2>1, <2>3, <2>4, <3>1, <1>2
    <3>2. ASSUME NEW a \in 1..n, i = Len(wire[c]) + a, wire'[c][i] = <<got[w].first, wpos[w] + a>>
          PROVE  i = j
      <4>1. CASE j \in 1..Len(wire[c]) /\ wire'[c][j] = wire[c][j]
        BY <2>3, <2>4, <3>2, <4>1
      <4>2. ASSUME NEW b \in 1..n, j = Len(wire[c]) + b, wire'[c][j] = <<got[w].first, wpos[w] + b>>
            PROVE  i = j
        <5>1. wpos[w] + a = wpos[w] + b
          BY <2>4, <3>2, <4>2
        <5> QED
          BY <1>2, <3>2, <4>2, <5>1
      <4> QED
        BY <1>3, <2>4, <4>1, <4>2
    <3> QED
      BY <1>3, <2>4, <3>1, <3>2
  <2> QED
    BY <2>2, <2>4
<1>8. Behind'
  <2> SUFFICES ASSUME NEW d \in Conns, NEW i \in 1..Len(wire'[d])
               PROVE  /\ wire'[d][i][1] <= readpos[d]
                      /\ \A u \in Workers : conn'[u] = d =>
                           /\ pc'[u] = "parse" => wire'[d][i][1] # got'[u].first
                           /\ pc'[u] = "write" /\ wire'[d][i][1] = got'[u].first
                                => wire'[d][i][2] <= wpos'[u]
    BY <1>1 DEF Behind
  <2>1. ASSUME i \in 1..Len(wire[d]), wire'[d][i] = wire[d][i]
        PROVE  /\ wire'[d][i][1] <= readpos[d]
               /\ \A u \in Workers : conn'[u] = d =>
                    /\ pc'[u] = "parse" => wire'[d][i][1] # got'[u].first
                    /\ pc'[u] = "write" /\ wire'[d][i][1] = got'[u].first
                         => wire'[d][i][2] <= wpos'[u]
    <3>1. wire[d][i][2] \in Nat
      BY <2>1, PartIsPair DEF Edges
    <3>2. /\ wire[d][i][1] <= readpos[d]
          /\ \A u \in Workers : conn[u] = d =>
               /\ pc[u] = "parse" => wire[d][i][1] # got[u].first
               /\ pc[u] = "write" /\ wire[d][i][1] = got[u].first => wire[d][i][2] <= wpos[u]
      BY <2>1 DEF Answers, Behind
    <3>3. ASSUME NEW u \in Workers, conn'[u] = d, u # w
          PROVE  /\ pc'[u] = "parse" => wire'[d][i][1] # got'[u].first
                 /\ pc'[u] = "write" /\ wire'[d][i][1] = got'[u].first
                      => wire'[d][i][2] <= wpos'[u]
      BY <1>5, <2>1, <3>2, <3>3
    <3>4. ASSUME conn'[w] = d
          PROVE  /\ pc'[w] = "parse" => wire'[d][i][1] # got'[w].first
                 /\ pc'[w] = "write" /\ wire'[d][i][1] = got'[w].first
                      => wire'[d][i][2] <= wpos'[w]
      <4>1. CASE pc'[w] = "next" /\ conn'[w] = None
        BY <4>1
      <4>2. CASE pc'[w] = pc[w] /\ conn'[w] = conn[w] /\ got'[w] = got[w] /\ wpos'[w] = wpos[w] + n
        <5>1. wire[d][i][1] = got[w].first => wire[d][i][2] <= wpos[w]
          BY <1>1, <3>2, <3>4, <4>2
        <5>2. wire[d][i][2] <= wpos[w] => wire[d][i][2] <= wpos[w] + n
          BY <1>2, <3>1
        <5> QED
          BY <1>1, <2>1, <4>2, <5>1, <5>2
      <4> QED
        BY <1>6, <4>1, <4>2
    <3> QED
      BY <2>1, <3>2, <3>3, <3>4
  <2>2. ASSUME d = c, NEW j \in 1..n, wire'[c][i] = <<got[w].first, wpos[w] + j>>
        PROVE  /\ wire'[d][i][1] <= readpos[d]
               /\ \A u \in Workers : conn'[u] = d =>
                    /\ pc'[u] = "parse" => wire'[d][i][1] # got'[u].first
                    /\ pc'[u] = "write" /\ wire'[d][i][1] = got'[u].first
                         => wire'[d][i][2] <= wpos'[u]
    <3>1. wire'[d][i][1] = got[w].first /\ wire'[d][i][2] = wpos[w] + j
      BY <2>2
    <3>2. /\ got[w].first <= got[w].last /\ got[w].last <= readpos[c]
          /\ \A u \in Workers \ {w} : Reading(u) /\ conn[u] = c =>
               got[w].last < got[u].first \/ got[u].last < got[w].first
      BY <1>1 DEF Order, ReadsApart, Reading, c
    <3>3. got[w].last \in Nat /\ readpos[c] \in Nat
      BY <1>2
    <3>4. ASSUME NEW u \in Workers, conn'[u] = d, u # w, pc'[u] \in {"parse", "write"}
          PROVE  wire'[d][i][1] # got'[u].first
      <4>1. Reading(u) /\ conn[u] = c /\ got'[u] = got[u]
        BY <1>5, <2>2, <3>4 DEF Reading
      <4>2. got[u].first <= got[u].last /\ got[u].first \in Nat /\ got[u].last \in Nat
        BY <1>2, <4>1 DEF Order, ReadsApart
      <4>3. got[w].last < got[u].first \/ got[u].last < got[w].first
        BY <3>2, <3>4, <4>1
      <4>4. got[w].first # got[u].first
        BY <1>2, <3>2, <3>3, <4>2, <4>3
      <4> QED
        BY <3>1, <4>1, <4>4
    <3>5. ASSUME conn'[w] = d
          PROVE  /\ pc'[w] # "parse"
                 /\ pc'[w] = "write" => wire'[d][i][2] <= wpos'[w]
      <4>1. j <= n => wpos[w] + j <= wpos[w] + n
        BY <1>2
      <4>2. wire'[d][i][2] <= wpos[w] + n
        BY <3>1, <4>1
      <4> QED
        BY <1>1, <1>6, <4>2
    <3>6. wire'[d][i][1] <= readpos[d]
      BY <1>2, <2>2, <3>1, <3>2, <3>3
    <3>7. ASSUME NEW u \in Workers, conn'[u] = d
          PROVE  /\ pc'[u] = "parse" => wire'[d][i][1] # got'[u].first
                 /\ pc'[u] = "write" /\ wire'[d][i][1] = got'[u].first
                      => wire'[d][i][2] <= wpos'[u]
      BY <3>4, <3>5, <3>7
    <3> QED
      BY <3>6, <3>7
  <2> QED
    BY <1>1, <1>3, <2>1, <2>2
<1>9. WholeSoFar'
  <2> SUFFICES ASSUME NEW d \in Conns \ short'
               PROVE  /\ \A u \in Workers : pc'[u] = "write" /\ conn'[u] = d => wpos'[u] = 0
                      /\ InAnswers(wire'[d])
    BY DEF WholeSoFar, InAnswers, PartsFollow
  <2>1. /\ d \notin short
        /\ \A u \in Workers : pc[u] = "write" /\ conn[u] = d => wpos[u] = 0
        /\ InAnswers(wire[d])
    BY <1>1 DEF Answers, WholeSoFar
  <2>2. CASE d # c
    <3>1. conn[w] # d
      BY <2>2 DEF c
    <3>2. \A u \in Workers : pc'[u] = "write" /\ conn'[u] = d => wpos'[u] = 0
      BY <1>2, <1>5, <1>6, <2>1, <3>1
    <3> QED
      BY <1>1, <2>1, <2>2, <3>2
  <2>3. CASE d = c
    <3>1. wpos[w] = 0 /\ n = ReplyParts
      BY <1>1, <1>2, <2>1, <2>3 DEF c
    <3>2. pc'[w] = "next"
      BY <1>1, <1>2, <3>1 DEF Done, GoTo
    <3>3. \A u \in Workers : pc'[u] = "write" /\ conn'[u] = d => wpos'[u] = 0
      BY <1>5, <2>1, <3>2
    <3>4. ASSUME NEW i \in 1..ReplyParts
          PROVE  wire'[c][Len(wire[c]) + i] = <<got[w].first, i>>
      <4>1. wpos[w] + i = i /\ i \in 1..n
        BY <1>2, <3>1
      <4>2. wire'[c][Len(wire[c]) + i] = <<got[w].first, wpos[w] + i>>
        BY <1>1, <4>1
      <4> QED
        BY <4>1, <4>2
    <3>5. InAnswers(wire'[c])
      BY <1>1, <1>2, <2>1, <2>3, <3>1, <3>4, OneMore
    <3> QED
      BY <2>3, <3>3, <3>5
  <2> QED
    BY <2>2, <2>3
<1> QED
  BY <1>7, <1>8, <1>9 DEF Answers

-----------------------------------------------------------------------------
(* All steps. *)

LEMMA AnswersKept ==
  Edges /\ Edges' /\ Order /\ Answers /\ [Next]_vars => Answers'
<1> SUFFICES ASSUME Edges, Edges', Order, Answers, [Next]_vars PROVE Answers'
  OBVIOUS
<1>0. /\ TypeOK /\ TypeOK'
      /\ pc \in [Workers -> {"next", "poll", "shake", "join", "parse", "write"}]
      /\ conn \in [Workers -> Conns \cup {None}] /\ None \notin Conns
      /\ readpos \in [Conns -> Nat] /\ wpos \in [Workers -> 0..(ReplyParts - 1)]
      /\ got \in [Workers -> [first : Nat, last : Nat]]
  BY ConstantsAssumption DEF Edges, TypeOK
<1>1. Quiet => Answers'
  BY <1>0, QuietKeeps
<1>2. \A c \in Conns : readpos[c] <= readpos[c]
  BY <1>0
<1>3. CASE Run \/ UNCHANGED vars \/ \E c \in Conns : Connect(c) \/ Arrive(c) \/ Leave(c) \/ Drain(c)
  <2>1. UNCHANGED <<wire, short, readpos, pc, conn, got, wpos>>
    BY <1>3 DEF Run, Connect, Arrive, Leave, Drain, vars, net, thread, marks
  <2>2. \A u \in Workers : NoNews(u)
    BY <1>0, <2>1 DEF NoNews
  <2>3. Quiet
    BY <1>2, <2>1, <2>2 DEF Quiet
  <2> QED
    BY <1>1, <2>3
<1>4. ASSUME NEW w \in Workers,
             \/ Lock(w) \/ Fetch(w) \/ Accept(w) \/ AcceptFails(w) \/ ShakeFails(w) \/ Shake(w)
             \/ Join(w) \/ ReadNothing(w) \/ Miss(w) \/ ReadEnd(w) \/ Ignore(w) \/ Condemn(w)
             \/ WriteFails(w)
      PROVE  Answers'
  <2>1. UNCHANGED <<wire, readpos>> /\ short \subseteq short'
    BY <1>4 DEF Lock, Fetch, FetchBut, Accept, AcceptFails, ShakeFails, Shake, Join, ReadNothing,
       ReadNothingThen, Miss, ReadEnd, ReadEndThen, Ignore, Condemn, WriteFails, net, marks
  <2>2. \/ \E l \in {"next", "poll", "shake", "join"} : pc' = [pc EXCEPT ![w] = l]
        \/ pc' = pc /\ pc[w] = "next"
    BY <1>4 DEF Lock, Fetch, FetchBut, Accept, AcceptFails, ShakeFails, Shake, Join, ReadNothing,
       ReadNothingThen, Miss, ReadEnd, ReadEndThen, Ignore, Condemn, WriteFails, At, GoTo, Turn, Done
  <2>3. \A u \in Workers : u # w => conn'[u] = conn[u] /\ got'[u] = got[u] /\ wpos'[u] = wpos[u]
    BY <1>0, <1>4 DEF Lock, Fetch, FetchBut, Accept, AcceptFails, ShakeFails, Shake, Join, ReadNothing,
       ReadNothingThen, Miss, ReadEnd, ReadEndThen, Ignore, Condemn, WriteFails, Turn, Done
  <2>4. /\ pc'[w] \notin {"parse", "write"}
        /\ \A u \in Workers : u # w => pc'[u] = pc[u]
    BY <1>0, <2>2
  <2>5. \A u \in Workers : NoNews(u)
    BY <1>0, <2>3, <2>4 DEF NoNews
  <2>6. Quiet
    BY <1>2, <2>1, <2>5 DEF Quiet
  <2> QED
    BY <1>1, <2>6
<1>5. ASSUME NEW w \in Workers, Read(w) PROVE Answers'
  <2>1. PICK c \in Conns, n \in Nat \ {0} :
          /\ readpos' = [readpos EXCEPT ![c] = @ + n]
          /\ got' = [got EXCEPT ![w] = [first |-> readpos[c] + 1, last |-> readpos[c] + n]]
          /\ pc' = [pc EXCEPT ![w] = "parse"] /\ conn' = [conn EXCEPT ![w] = c]
          /\ UNCHANGED <<wire, wpos, short>>
    BY <1>0, <1>5, ReadDoes
  <2>2. \A d \in Conns : readpos[d] <= readpos'[d]
    BY <1>0, <2>1
  <2>3. \A u \in Workers : u # w => pc'[u] = pc[u] /\ conn'[u] = conn[u] /\ got'[u] = got[u] /\ wpos'[u] = wpos[u]
    BY <1>0, <2>1
  <2>4. pc'[w] = "parse" /\ conn'[w] = c /\ got'[w].first = readpos[c] + 1
    BY <1>0, <2>1
  <2>5. readpos[c] < got'[w].first
    BY <1>0, <2>4
  <2>6. \A u \in Workers : NoNews(u)
    BY <1>0, <2>3, <2>4, <2>5 DEF NoNews
  <2>7. Quiet
    BY <2>1, <2>2, <2>6 DEF Quiet
  <2> QED
    BY <1>1, <2>7
<1>6. ASSUME NEW w \in Workers, Handle(w) PROVE Answers'
  <2>1. /\ pc[w] = "parse" /\ pc' = [pc EXCEPT ![w] = "write"] /\ wpos' = [wpos EXCEPT ![w] = 0]
        /\ UNCHANGED <<wire, short, readpos, conn, got>>
    BY <1>6 DEF Handle, At, GoTo, net
  <2>2. /\ pc'[w] = "write" /\ wpos'[w] = 0
        /\ \A u \in Workers : u # w => pc'[u] = pc[u] /\ wpos'[u] = wpos[u]
    BY <1>0, <2>1
  <2>3. \A u \in Workers : NoNews(u)
    BY <1>0, <2>1, <2>2 DEF NoNews
  <2>4. Quiet
    BY <1>2, <2>1, <2>3 DEF Quiet
  <2> QED
    BY <1>1, <2>4
<1>7. ASSUME NEW w \in Workers, Write(w) PROVE Answers'
  BY <1>0, <1>7, WriteKeeps
<1> QED
  BY <1>3, <1>4, <1>5, <1>6, <1>7 DEF Next, Step

\* Nothing of an answer is written twice by sendMsg, whatever its loop does with short
\* writes; and a client whose send buffer has always sufficed has got whole answers
\* and nothing else, though the threads share no lock around the write.
THEOREM AnswersAreWhole == Spec => []AnswersWhole
<1>1. Answers => AnswersWhole
  BY DEF Answers, WrittenOnce, WholeSoFar, InAnswers, PartsFollow, AnswersWhole
<1> QED
  BY <1>1, AnswersInit, AnswersKept, OrderInit, OrderKept, EdgesInit, EdgesKept, PTL DEF Spec
=============================================================================
