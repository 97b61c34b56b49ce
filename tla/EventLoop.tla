------------------------------ MODULE EventLoop ------------------------------
(***************************************************************************)
(* The loop of the pool threads (TreadProc of Server/NUPool.cpp) over the  *)
(* edge-triggered epoll set: the accept queue of the listening socket, the *)
(* bytes of every connection in both directions.  A worker fetches a batch *)
(* of events under the pool mutex, and does for each event one accept, or  *)
(* one read of which it handles one frame and answers it with the write    *)
(* loop of GameServer::sendMsg.                                            *)
(*                                                                         *)
(* A client's bytes are cut into frames of Parts pieces, the first of      *)
(* which holds the header; a piece is known by its place in the stream.    *)
(* What ConnRegistry models is left out here: the session table, the sweep *)
(* and the reuse of a descriptor.                                          *)
(***************************************************************************)
EXTENDS Naturals, Sequences, FiniteSets, SequencesExt

CONSTANTS
  Workers,    \* the threads of the pool
  Conns,      \* the connections clients open
  Listen,     \* the listening socket, as a source of events
  None,       \* "nobody"
  Backlog,    \* the second argument of listen()
  MaxEvents,  \* MAX_EPOLL_NUM
  Scripts,    \* what the clients may send: for each of them a sequence of frames
  Parts,      \* the pieces of a frame
  RecvPieces, \* MAX_RECV_SIZE, in pieces
  ReplyParts, \* the pieces of an answer
  SendPieces, \* the send buffer of a socket, in pieces
  Unsteady,   \* those of the Scripts whose clients may leave, at any point of them
  MaxRefused  \* bound: how often accept() may run out of descriptors

ASSUME ConstantsAssumption ==
  /\ IsFiniteSet(Workers)
  /\ None \notin Workers \cup Conns
  /\ Listen \notin Conns
  /\ {Backlog, MaxRefused} \subseteq Nat
  /\ Scripts \subseteq [Conns -> Seq({"message", "control"})] /\ Unsteady \subseteq Scripts
  /\ {MaxEvents, Parts, RecvPieces, ReplyParts, SendPieces} \subseteq Nat \ {0}

VARIABLES
  frames,     \* frames[c]: what the client of c sends, messages and control frames
  watching,   \* GameServer::run has put the listening socket into the epoll set
  stage,      \* stage[c]: what has become of the connection
  backlog,    \* the accept queue
  ready,      \* the ready list of the epoll set, oldest first
  lock,       \* the holder of g_threadLock
  pc,         \* pc[w]: where worker w is
  batch,      \* batch[w]: the events w has fetched and not turned to yet
  conn,       \* conn[w]: the connection w works on, None if there is none
  arrived,    \* arrived[c]: the pieces that have reached the server
  readpos,    \* readpos[c]: the pieces that have been read
  ended,      \* the connections whose client has closed them, or reset
  got,        \* got[w]: the first and the last piece of w's read
  wpos,       \* wpos[w]: hasWrite of sendMsg
  wire,       \* wire[c]: all that has been written to c: <<answer, part>>
  drained,    \* drained[c]: how much of that the client has taken
  \* what is remembered for the properties only:
  merged,     \* the connections that arrived on an edge already pending
  refused,    \* how often accept() has failed
  handled,    \* handled[c]: the whole messages given to a handler, in order
  crossed,    \* the connections two workers have worked on at once
  short,      \* the connections whose send buffer has once been too small
  full,       \* the connections whose last read filled the buffer
  missed,     \* those whose last event was spent with nothing read, or no end acted on
  behind      \* those from which bytes were read when their client had left

net    == <<stage, backlog, ready, arrived, readpos, ended, wire, drained>>
thread == <<lock, pc, batch, conn, got, wpos>>
marks  == <<merged, refused, handled, crossed, short, full, missed, behind>>
vars   == <<frames, watching, net, thread, marks>>

Total(c) == Len(frames[c]) * Parts
FrameOf(k) == ((k - 1) \div Parts) + 1
PartOf(k) == ((k - 1) % Parts) + 1
LastOf(k) == FrameOf(k) * Parts
Unread(c) == arrived[c] - readpos[c]
Room(c) == SendPieces - (Len(wire[c]) - drained[c])
Least(m, n) == IF m <= n THEN m ELSE n
Has(list, s) == \E i \in 1..Len(list) : list[i] = s

\* An edge of source s puts it on the ready list, unless it is there already.
Edge(list, s) == IF Has(list, s) THEN list ELSE Append(list, s)

\* A source whose descriptor is closed loses its place on the ready list.
Without(list, s) ==
  IF Has(list, s) THEN RemoveAt(list, CHOOSE i \in 1..Len(list) : list[i] = s) ELSE list

Nothing == [first |-> 0, last |-> 0]

Init ==
  /\ frames \in Scripts
  /\ watching = FALSE
  /\ stage = [c \in Conns |-> "new"]
  /\ backlog = <<>>
  /\ ready = <<>>
  /\ lock = None
  /\ pc = [w \in Workers |-> "next"]
  /\ batch = [w \in Workers |-> <<>>]
  /\ conn = [w \in Workers |-> None]
  /\ arrived = [c \in Conns |-> 0]
  /\ readpos = [c \in Conns |-> 0]
  /\ got = [w \in Workers |-> Nothing]
  /\ wpos = [w \in Workers |-> 0]
  /\ wire = [c \in Conns |-> <<>>]
  /\ drained = [c \in Conns |-> 0]
  /\ merged = 0 /\ refused = 0
  /\ handled = [c \in Conns |-> <<>>]
  /\ ended = {} /\ crossed = {} /\ short = {} /\ full = {} /\ missed = {} /\ behind = {}

At(w, label) == pc[w] = label
GoTo(w, label) == pc' = [pc EXCEPT ![w] = label]

-----------------------------------------------------------------------------
(* The clients and the kernel. *)

\* A connection is complete; beyond Backlog + 1 the kernel queues no more.
Connect(c) ==
  /\ stage[c] = "new"
  /\ Len(backlog) <= Backlog
  /\ stage' = [stage EXCEPT ![c] = "queued"]
  /\ backlog' = Append(backlog, c)
  /\ ready' = IF watching THEN Edge(ready, Listen) ELSE ready
  /\ merged' = IF Has(ready, Listen) \/ (~watching /\ backlog # <<>>)
                 THEN merged + 1 ELSE merged
  /\ UNCHANGED <<frames, watching, arrived, readpos, ended, wire, drained, thread,
                 refused, handled, crossed, short, full, missed, behind>>

\* The next pieces of the client's stream arrive in one segment: one edge, if the
\* connection is in the epoll set.
Arrive(c) ==
  /\ stage[c] \in {"greeted", "open"} /\ c \notin ended
  /\ \E n \in 1..(Total(c) - arrived[c]) : arrived' = [arrived EXCEPT ![c] = @ + n]
  /\ ready' = IF stage[c] = "open" THEN Edge(ready, c) ELSE ready
  /\ UNCHANGED <<frames, watching, stage, backlog, readpos, ended, wire, drained,
                 thread, marks>>

\* The client closes its connection, or resets it: that is an edge too.
Leave(c) ==
  /\ frames \in Unsteady /\ c \notin ended
  /\ stage[c] \in {"greeted", "open"}
  /\ ended' = ended \cup {c}
  /\ ready' = IF stage[c] = "open" THEN Edge(ready, c) ELSE ready
  /\ UNCHANGED <<frames, watching, stage, backlog, arrived, readpos, wire, drained,
                 thread, marks>>

\* The client takes what has been written to it.
Drain(c) ==
  /\ drained[c] < Len(wire[c])
  /\ drained' = [drained EXCEPT ![c] = Len(wire[c])]
  /\ UNCHANGED <<frames, watching, stage, backlog, ready, arrived, readpos, ended, wire,
                 thread, marks>>

\* GameServer::run: EPOLL_CTL_ADD looks once at what has been queued since listen().
Run ==
  /\ ~watching
  /\ watching' = TRUE
  /\ ready' = IF backlog # <<>> THEN Append(ready, Listen) ELSE ready
  /\ UNCHANGED <<frames, stage, backlog, arrived, readpos, ended, wire, drained,
                 thread, marks>>

-----------------------------------------------------------------------------
(* A worker: the loop. *)

\* The batch is done: the thread waits for its turn at epoll_wait.
Lock(w) ==
  /\ At(w, "next") /\ watching
  /\ batch[w] = <<>>
  /\ lock = None
  /\ lock' = w
  /\ GoTo(w, "poll")
  /\ UNCHANGED <<frames, watching, net, batch, conn, got, wpos, marks>>

\* epoll_wait hands out the oldest edges; the mutex is released behind it.  The loop
\* over them leaves out the last ones, as many as skipped.
FetchBut(w, skipped) ==
  /\ At(w, "poll")
  /\ ready # <<>>
  /\ LET n == Least(MaxEvents, Len(ready)) IN
       /\ batch' = [batch EXCEPT ![w] = SubSeq(ready, 1, n - skipped)]
       /\ ready' = SubSeq(ready, n + 1, Len(ready))
  /\ lock' = None
  /\ GoTo(w, "next")
  /\ UNCHANGED <<frames, watching, stage, backlog, arrived, readpos, ended, wire, drained,
                 conn, got, wpos, marks>>

FetchButLast(w) == FetchBut(w, 1)  \* mutant: i < size - 1
Fetch(w) == FetchBut(w, 0)

\* Worker w turns to the next event; another worker may be with that connection.
Turn(w, c, label) ==
  /\ batch' = [batch EXCEPT ![w] = Tail(@)]
  /\ conn' = [conn EXCEPT ![w] = c]
  /\ GoTo(w, label)

\* Worker w has done with the event; the locals of the call are gone.
Done(w) ==
  /\ conn' = [conn EXCEPT ![w] = None]
  /\ got' = [got EXCEPT ![w] = Nothing]
  /\ wpos' = [wpos EXCEPT ![w] = 0]
  /\ GoTo(w, "next")

-----------------------------------------------------------------------------
(* A worker: setnewconnect. *)

\* One accept per edge, whatever the queue holds.
Accept(w) ==
  /\ At(w, "next")
  /\ batch[w] # <<>> /\ Head(batch[w]) = Listen
  /\ backlog # <<>>
  /\ backlog' = Tail(backlog)
  /\ stage' = [stage EXCEPT ![Head(backlog)] = "accepted"]
  /\ Turn(w, Head(backlog), "shake")
  /\ UNCHANGED <<frames, watching, ready, arrived, readpos, ended, wire, drained,
                 lock, got, wpos, marks>>

\* accept() is out of descriptors: the connection stays queued, its edge is spent.
AcceptFails(w) ==
  /\ At(w, "next")
  /\ batch[w] # <<>> /\ Head(batch[w]) = Listen
  /\ backlog # <<>>
  /\ refused < MaxRefused
  /\ refused' = refused + 1
  /\ Turn(w, None, "next")
  /\ UNCHANGED <<frames, watching, net, lock, got, wpos,
                 merged, handled, crossed, short, full, missed, behind>>

\* The one read of the handshake finds no request, or not one it knows.
ShakeFails(w) ==
  /\ At(w, "shake")
  /\ stage' = [stage EXCEPT ![conn[w]] = "unshaken"]
  /\ Done(w)
  /\ UNCHANGED <<frames, watching, backlog, ready, arrived, readpos, ended, wire, drained,
                 lock, batch, marks>>

\* The request is answered with sendMsgWithOutProto; the client may send now.
Shake(w) ==
  /\ At(w, "shake")
  /\ stage' = [stage EXCEPT ![conn[w]] = "greeted"]
  /\ GoTo(w, "join")
  /\ UNCHANGED <<frames, watching, backlog, ready, arrived, readpos, ended, wire, drained,
                 lock, batch, conn, got, wpos, marks>>

\* EPOLL_CTL_ADD of the connection raises an edge for what is there already.
Join(w) ==
  /\ At(w, "join")
  /\ stage' = [stage EXCEPT ![conn[w]] = "open"]
  /\ ready' = IF Unread(conn[w]) > 0 \/ conn[w] \in ended THEN Edge(ready, conn[w]) ELSE ready
  /\ Done(w)
  /\ UNCHANGED <<frames, watching, backlog, arrived, readpos, ended, wire, drained,
                 lock, batch, marks>>

-----------------------------------------------------------------------------
(* A worker: readSocketMsg. *)

OthersWith(w, c) == \E u \in Workers \ {w} : conn[u] = c

\* A read of at most size pieces; peeks: it leaves them in the socket.
ReadUpTo(w, size, peeks) ==
  /\ At(w, "next")
  /\ batch[w] # <<>> /\ Head(batch[w]) # Listen
  /\ LET c == Head(batch[w])
         n == Least(size, Unread(c)) IN
       /\ stage[c] = "open" /\ n > 0
       /\ readpos' = [readpos EXCEPT ![c] = IF peeks THEN @ ELSE @ + n]
       /\ got' = [got EXCEPT ![w] = [first |-> readpos[c] + 1, last |-> readpos[c] + n]]
       /\ full' = IF n = RecvPieces THEN full \cup {c} ELSE full \ {c}
       /\ missed' = missed \ {c}
       /\ behind' = IF c \in ended THEN behind \cup {c} ELSE behind
       /\ crossed' = IF OthersWith(w, c) THEN crossed \cup {c} ELSE crossed
       /\ Turn(w, c, "parse")
  /\ UNCHANGED <<frames, watching, stage, backlog, ready, arrived, ended, wire, drained,
                 lock, wpos, merged, refused, handled, short>>

ReadHeader(w) == ReadUpTo(w, 1, FALSE)         \* mutant: the header first, the rest later
ReadPeek(w) == ReadUpTo(w, RecvPieces, TRUE)  \* mutant: leaves what it reads

\* One read per edge, of what there is and of what the buffer takes.
Read(w) == ReadUpTo(w, RecvPieces, FALSE)

\* EAGAIN, or a descriptor that is closed: what is done with the rest of the batch.
ReadNothingThen(w, rest) ==
  /\ At(w, "next")
  /\ batch[w] # <<>> /\ Head(batch[w]) # Listen
  /\ LET c == Head(batch[w]) IN
       /\ stage[c] # "open" \/ (Unread(c) = 0 /\ c \notin ended)
       /\ full' = full \ {c}
  /\ batch' = [batch EXCEPT ![w] = rest]
  /\ UNCHANGED <<frames, watching, net, lock, pc, conn, got, wpos,
                 merged, refused, handled, crossed, short, missed, behind>>

ReadNothingBreak(w) == ReadNothingThen(w, <<>>)  \* mutant: break, not continue
ReadNothing(w) == ReadNothingThen(w, Tail(batch[w]))

\* The event is spent and the socket left as it is: findSocketByFD has not found the
\* session (its search takes no lock, see ConnRegistry), or a signal came (EINTR).
Miss(w) ==
  /\ At(w, "next")
  /\ batch[w] # <<>> /\ Head(batch[w]) # Listen
  /\ stage[Head(batch[w])] = "open"
  /\ missed' = missed \cup {Head(batch[w])}
  /\ batch' = [batch EXCEPT ![w] = Tail(@)]
  /\ UNCHANGED <<frames, watching, net, lock, pc, conn, got, wpos,
                 merged, refused, handled, crossed, short, full, behind>>

\* pushDeleteFDS closes the descriptor, which the epoll set then forgets.
Close(c) ==
  /\ stage' = [stage EXCEPT ![c] = "closed"]
  /\ ready' = Without(ready, c)

\* The end of the stream, ECONNRESET or another error, once all bytes are read: the
\* session is condemned, unless pushDeleteFDS does not find it or finds its number on
\* the list.
ReadEndThen(w, condemning) ==
  /\ At(w, "next")
  /\ batch[w] # <<>> /\ Head(batch[w]) # Listen
  /\ LET c == Head(batch[w]) IN
       /\ stage[c] = "open" /\ Unread(c) = 0 /\ c \in ended
       /\ full' = full \ {c}
       /\ IF condemning
            THEN \/ Close(c) /\ UNCHANGED missed
                 \/ missed' = missed \cup {c} /\ UNCHANGED <<stage, ready>>
            ELSE UNCHANGED <<stage, ready, missed>>
  /\ batch' = [batch EXCEPT ![w] = Tail(@)]
  /\ UNCHANGED <<frames, watching, backlog, arrived, readpos, ended, wire, drained,
                 lock, pc, conn, got, wpos, merged, refused, handled, crossed, short, behind>>

ReadEndQuiet(w) == ReadEndThen(w, FALSE)  \* mutant: no pushDeleteFDS
ReadEnd(w) == ReadEndThen(w, TRUE)

\* The read holds the whole frame at its start; more of it is not looked at.
Whole(r) == PartOf(r.first) = 1 /\ LastOf(r.first) <= r.last

\* A control frame parses as an empty package, whose number is below 1000; of a
\* frame that is cut, or a piece that is no header, anything may be made.
Verdicts(c, r) ==
  IF ~Whole(r) THEN {"handle", "condemn", "ignore"}
  ELSE IF frames[c][FrameOf(r.first)] = "message" THEN {"handle"} ELSE {"condemn"}

\* The message goes to its listener, which answers it once.
Handle(w) ==
  /\ At(w, "parse")
  /\ LET c == conn[w]
         r == got[w] IN
       /\ "handle" \in Verdicts(c, r)
       /\ handled' = IF Whole(r) THEN [handled EXCEPT ![c] = Append(@, FrameOf(r.first))]
                                 ELSE handled
  /\ wpos' = [wpos EXCEPT ![w] = 0]
  /\ GoTo(w, "write")
  /\ UNCHANGED <<frames, watching, net, lock, batch, conn, got,
                 merged, refused, crossed, short, full, missed, behind>>

\* No frame, or less than its header and a byte: the bytes are dropped.
Ignore(w) ==
  /\ At(w, "parse")
  /\ "ignore" \in Verdicts(conn[w], got[w])
  /\ Done(w)
  /\ UNCHANGED <<frames, watching, net, lock, batch, marks>>

\* pushDeleteFDS condemns the session, or refuses as at the end of a stream.
Condemn(w) ==
  /\ At(w, "parse")
  /\ "condemn" \in Verdicts(conn[w], got[w])
  /\ Close(conn[w]) \/ UNCHANGED <<stage, ready>>
  /\ Done(w)
  /\ UNCHANGED <<frames, watching, backlog, arrived, readpos, ended, wire, drained,
                 lock, batch, marks>>

-----------------------------------------------------------------------------
(* A worker: GameServer::sendMsg. *)

\* One write of an answer of len pieces from position p on: as much as the send
\* buffer takes; the loop ends once hasWrite >= end.
WriteFrom(w, p, len, end) ==
  /\ At(w, "write")
  /\ LET c == conn[w]
         left == len - p
         n == Least(Room(c), left) IN
       /\ stage[c] = "open" /\ n > 0
       /\ wire' = [wire EXCEPT ![c] = @ \o [i \in 1..n |-> <<got[w].first, p + i>>]]
       /\ short' = IF n < left THEN short \cup {c} ELSE short
       /\ IF wpos[w] + n >= end
            THEN Done(w)
            ELSE /\ wpos' = [wpos EXCEPT ![w] = @ + n]
                 /\ UNCHANGED <<pc, conn, got>>
  /\ UNCHANGED <<frames, watching, stage, backlog, ready, arrived, readpos, ended, drained,
                 lock, batch, merged, refused, handled, crossed, full, missed, behind>>

\* mutants: the length without the header; a loop too long
WriteShort(w) == WriteFrom(w, wpos[w], ReplyParts - 1, ReplyParts - 1)
WriteOn(w) == WriteFrom(w, wpos[w], ReplyParts, ReplyParts + 1)
Write(w) == WriteFrom(w, wpos[w], ReplyParts, ReplyParts)

\* EAGAIN, a closed descriptor or a client that has left: the loop ends, what is left
\* is given up.  (In the last case SIGPIPE may end the process: no step follows then.)
WriteFails(w) ==
  /\ At(w, "write")
  /\ stage[conn[w]] # "open" \/ Room(conn[w]) = 0 \/ conn[w] \in ended
  /\ short' = short \cup {conn[w]}
  /\ Done(w)
  /\ UNCHANGED <<frames, watching, net, lock, batch, merged, refused, handled, crossed,
                 full, missed, behind>>

-----------------------------------------------------------------------------
Step(w) ==
  \/ Lock(w) \/ Fetch(w)
  \/ Accept(w) \/ AcceptFails(w) \/ ShakeFails(w) \/ Shake(w) \/ Join(w)
  \/ Read(w) \/ ReadNothing(w) \/ Miss(w) \/ ReadEnd(w)
  \/ Handle(w) \/ Ignore(w) \/ Condemn(w)
  \/ Write(w) \/ WriteFails(w)

Next ==
  \/ \E c \in Conns : Connect(c) \/ Arrive(c) \/ Leave(c) \/ Drain(c)
  \/ Run
  \/ \E w \in Workers : Step(w)

Spec == Init /\ [][Next]_vars

-----------------------------------------------------------------------------
(* Properties. *)

Flag(b) == IF b THEN 1 ELSE 0

\* Every variable has its type, and no position is past what it is a position in.
TypeOK ==
  /\ frames \in Scripts /\ watching \in BOOLEAN
  /\ stage \in [Conns -> {"new", "queued", "accepted", "unshaken", "greeted", "open", "closed"}]
  /\ backlog \in Seq(Conns)
  /\ ready \in Seq(Conns \cup {Listen})
  /\ lock \in Workers \cup {None}
  /\ pc \in [Workers -> {"next", "poll", "shake", "join", "parse", "write"}]
  /\ batch \in [Workers -> Seq(Conns \cup {Listen})]
  /\ conn \in [Workers -> Conns \cup {None}]
  /\ arrived \in [Conns -> Nat] /\ readpos \in [Conns -> Nat]
  /\ \A c \in Conns : readpos[c] <= arrived[c] /\ arrived[c] <= Total(c)
  /\ got \in [Workers -> [first : Nat, last : Nat]]
  /\ wpos \in [Workers -> 0..(ReplyParts - 1)]
  /\ wire \in [Conns -> Seq(Nat \X Nat)]
  /\ drained \in [Conns -> Nat]
  /\ merged \in Nat /\ refused \in Nat /\ handled \in [Conns -> Seq(Nat)]
  /\ crossed \subseteq Conns /\ short \subseteq Conns /\ full \subseteq Conns
  /\ ended \subseteq Conns /\ missed \subseteq Conns /\ behind \subseteq Conns

\* The edges of the listening socket that nobody has accepted on yet: on the
\* ready list, in a batch, or to be raised when the socket is registered.
Accepting == {w \in Workers : Has(batch[w], Listen)}
PendingEdges == Flag(Has(ready, Listen)) + Cardinality(Accepting)
                + Flag(~watching /\ backlog # <<>>)

\* A connection waits in the accept queue for one of three reasons: an edge is on
\* its way to setnewconnect, or it came on the edge of another one, or an accept
\* failed; in the last two cases until somebody else connects.  No edge is lost.
BacklogAccounted == Len(backlog) = PendingEdges + merged + refused

\* The accept queue is never full with no edge on its way, as long as no accept has
\* failed: else nobody could connect, no edge could ever be raised, and the server
\* would be deaf for good.
FullBacklogHasEdge == Len(backlog) = Backlog + 1 /\ refused = 0 => PendingEdges > 0

\* An event of c is on its way to readSocketMsg.
EdgePending(c) == Has(ready, c) \/ \E w \in Workers : Has(batch[w], c)

\* Bytes wait unread with no event on its way only behind a read that filled the
\* buffer (readSocketMsg reads once per edge), or behind an event that was spent with
\* nothing read.
UnreadHasEdge ==
  \A c \in Conns :
    stage[c] = "open" /\ Unread(c) > 0 => EdgePending(c) \/ c \in full \/ c \in missed

\* A client that has left keeps its descriptor with no event on its way, until the
\* heartbeat finds it, only if bytes were read on the event that told of its end, or if
\* that event was spent with nothing read, or if pushDeleteFDS refused.
EndHasEdge ==
  \A c \in ended :
    stage[c] = "open" => EdgePending(c) \/ c \in behind \/ c \in missed

\* No message is handled twice, however many edges its bytes have raised (the read
\* of one worker is never the read of another); and the messages of a client are
\* handled in the order they were sent, unless two workers have been with that client
\* at the same time.
HandledInOrder ==
  \A c \in Conns :
    /\ IsInjective(handled[c])
    /\ c \notin crossed =>
         \A i, j \in 1..Len(handled[c]) : i < j => handled[c][i] < handled[c][j]

\* Nothing of an answer is written twice; and what is written to a client is a
\* sequence of whole answers, the last one perhaps still being written, unless its
\* send buffer has once been too small.
AnswersWhole ==
  \A c \in Conns :
    /\ IsInjective(wire[c])
    /\ c \notin short =>
         \A i \in 1..Len(wire[c]) :
           /\ wire[c][i][2] = ((i - 1) % ReplyParts) + 1
           /\ wire[c][i][2] > 1 => wire[c][i][1] = wire[c][i - 1][1]

=============================================================================
