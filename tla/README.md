# WorldServer in TLA+

WorldServer is a small multi-threaded C++ game server: a listening socket, two
pool threads around one epoll descriptor, WebSocket frames with protobuf
messages, an HTTP back end that knows the players, and a main loop that deletes
dead sessions. It has no tests. What is hard in it is concurrency over bare
pointers, and that is what these modules are about.

Everything below was read from the code in `src/`; where a comment says
something else, the code is what is modelled and the difference is a finding.

## 1. Inventory

| part | state it keeps | operations | talks to |
|---|---|---|---|
| main loop (`main.cpp`) | a counter for the statistics line | every 500 ms `clearDeleteFDs` | GameMgr |
| `GameMgr` | `mapFDs` (descriptor to session), `listDeleteFDs`, two spin locks, `lastCheckTime` | `pushNewConnect`, `pushDeleteFDS` (by session, by descriptor), `clearDeleteFDs` (sweep, heartbeat scan), `findSocketByFD`, `checkAuthCode` | NUSocket, ModuleLock, kernel (`close`) |
| `NUSocket` | descriptor, user lock, heartbeat time, auth code, user data, state | `create`/`init`, destructor, getters and setters | ModuleLock |
| `NUPool` | the mutex around `epoll_wait`, per thread a message and a buffer | `TreadProc`, `setnewconnect`, `readSocketMsg`, the WebSocket codec | GameMgr, ListenerMgr, kernel |
| `GameServer` | listening socket, epoll descriptor, counters | `init`, `run`, `sendMsg` | all |
| `Hall` | none of its own | `heartBeat`, `userLogin`, `userEnterHall`, `returnGame`, HTTP callbacks | GameMgr, NUSocket, web service |
| `SubGameServer` | none of its own | JSON dispatch, `heartBeat` of game servers | ListenerMgr, NUSocket |
| `ListenerMgr` | table of listeners, a count | add, remove, two kinds of call | Hall, SubGameServer |
| `ModuleLock` | `mapLocks` (id to lock) | `createAALock`, `clearLock`, wrappers | `spin_mutex`, `std::mutex` |
| `spin_mutex` | one atomic flag | `lock`, `unlock`, `trylock` | |
| `HttpRequest` | curl handle, ready state | `open`, `send`, callback | web service |
| `Module*` | run flag, thread objects | `init`, `run`, `stop` | |
| `Log` | one buffer, one spin lock | four levels | ModuleLock, ModuleTime |
| message classes (`GameHall.pb.cc`) | the fields of ten messages | parse, two serialisations, `ByteSize`, merge | Hall, NUPool |
| vendored | none | cJSON, SHA1, Base64 (and MD5, never called) | Hall, SubGameServer, NUPool |

How the parts interact. The pool threads and the main thread share `mapFDs`,
`listDeleteFDs`, `mapLocks` and every `NUSocket`. Writers of the first two take
a spin lock, readers take none; `mapLocks` has no lock at all; the lock each
session carries for "the player's operations" is taken by nobody but the sweep.
A session's life goes through three tables (the kernel's descriptors, `mapFDs`,
`mapLocks`) that are never changed together: the descriptor is closed first and
may be handed out again while the other two still know the old session.

What makes it hard, and what correctness means for each part:

* **Registry and sessions**: interleavings of accept, read, end of connection,
  heartbeat scan and sweep; reuse of descriptor numbers and of heap addresses;
  double condemnation. Correct: the registry names live sessions under their own
  descriptor, each is deleted once, none is stranded, a condemned one is deleted.
* **Locks**: test-then-take, spinning. Correct: exclusion, no stranded flag.
* **Heartbeat**: cut seconds, periods that add up, a late main loop. Correct: a
  beating client is never condemned, a silent one is gone within a bound.
* **Login**: search and store apart, HTTP in between, two threads on one
  session. Correct: one session per token, no token blocked for ever, no use of
  a deleted code.
* **Accepting, reading, sending**: one accept, one read and one frame per edge of
  an edge-triggered set, an event spent without a read, several threads on one
  connection, a client that leaves, a send buffer that fills. Correct: no edge is
  lost, bytes and the end of a client wait with no event only where the code says so,
  no message is handled twice or out of order, a client gets whole answers.
* **Start, listeners, counters, HTTP requests**: pointers copied before they are
  set, a table read without a lock, a cast that is not checked, unlocked sums,
  handles given up on failure. Correct: nothing is used before it is there, the
  table rests once the threads run, what is counted and allocated is accounted for.
* **Codecs**: sizes at the borders of headers and beyond the receive buffers, buffers
  that still hold an earlier message, generated methods that must agree, JSON that is
  none. Correct: what is sent is received, if the buffers hold it.

`PROJECT.json` lists every component with its status and every hazard at its line.

## 2. Modules

| module | models | kind |
|---|---|---|
| `AbstractLock` | what a lock promises: idle, waiting, holding | abstract |
| `SessionTable` | what the registry promises: sessions are made, entered, removed | abstract |
| `SpinMutex` | `spin_mutex`, one step per atomic access | implements `AbstractLock` |
| `ConnRegistry` | accept to delete: `NUPool.cpp` 276-434, `GameMgr.cpp`, `NUSocket`, `ModuleLock` registry, main loop, kernel tables | implements `SessionTable` |
| `EventLoop` | the thread loop over epoll, the accept queue, the bytes of a connection in both directions, `sendMsg` | component |
| `Lifecycle` | `main()`, `init()`, `run()`, the two logs, the listener table, dispatch, counters, the requests to the web service | component |
| `Heartbeat` | time: clock, beats, rounds of the main loop | component |
| `HallLogin` | auth codes and users: `Hall.cpp`, `checkAuthCode` | component |
| `Frames` | `enCodeOutPackage`, `readHeader`, `deCodeInPackage` over sizes and headers | operators |
| `Messages` | the ten classes of `GameHall.pb.cc` | operators |
| `JsonText` | `cJSON.c`: parse, print, minify, look up | operators |
| `Handshake` | `wsHandshake`, `SHA1.cpp`, `Base64.cpp` | operators |
| `Wire` | a message from a client's frame to its handler and back: `readSocketMsg`, `deCodeInPackage`, `sendMsg` | composes `Frames`, `Messages` |
| `Answers` | what the handlers of `Hall` and `SubGameServer` make of a message or of the web service's JSON, and send | composes `Wire`, `JsonText` |
| `WireSamples` | what frames, messages and packages promise, stated of a sample | properties of `Wire` |
| `Codecs` | what the other codecs promise, and a step per sample of each | composes `WireSamples`, `Answers`, `Handshake` |
| `MCConnRegistry`, `MCHallLogin`, `MCEventLoop`, `MCCodecs` | instances for TLC: symmetry, scripts, samples | |
| `SpinMutexProofs`, `ConnRegistryProofs`, `RegistryTimingProofs`, `HeartbeatProofs`, `HallLoginProofs`, `EventLoopProofs`, `LifecycleProofs`, `WireProofs` | proofs | |

`map` in `PROJECT.json` names the lines each definition stands for. Definitions
marked "mutant" in a comment are wrong on purpose: each differs from the
definition next to it by a plausible bug, and serves to show that a property
notices it. They are in no specification.

### SpinMutex

State: the flag, and per thread a program counter (`idle`, `lock`, `try`,
`tryLock`, `held`). `Exchange` is one round of the loop of `lock()`, `TestFlag`
the test of `trylock()`, after which the thread is in the loop as well
(`tryLock`). Acquire and release ordering makes the atomic accesses
sequentially consistent as far as the flag goes.

### ConnRegistry

State and code:

| variable | code |
|---|---|
| `conn`, `greeted`, `fdConn`, `watched`, `ready` | the kernel: connections, descriptor table, epoll set and its ready list |
| `alloc`, `sfd`, `ulock` | the heap: which addresses hold a `NUSocket`, its `fd`, its `m_userLock` (mutex and spin lock together, the sweep takes both) |
| `mapLocks` | `ModuleLock::mapLocks`, the user ids |
| `mapFDs`, `del`, `allLock`, `delLock` | `GameMgr`: the map, the list, the holders of its spin locks |
| `pc`, `wfd`, `user`, `target`, `nap`, `pos`, `cursor` | program counters and locals |

A step is one access to shared memory, one system call or one critical section.
A worker goes `wait -> nap -> create -> regLock -> lockAll -> insert -> watch`
for a new connection (`setnewconnect`) and `wait -> find -> read -> handle |
condemn -> close -> lockDel -> push -> mark` for an event (`readSocketMsg`,
`pushDeleteFDS`). `main()` goes `sleep -> size -> mainLockAll -> sweep -> free ->
unmap -> lockErase -> erase -> sweep -> beat -> scan -> beatClose -> beatCondemn ->
beatCloseAgain -> lockDel -> push -> scan -> sleep` (`clearDeleteFDs`).

Undefined behaviour is a choice: an unlocked search beside a writer may miss
(`Lookups`, `Searches`) or kill the process (`TraversalCrashes`); of two unlocked
updates of `mapLocks` one may be lost (`UpdateLocks`); using a deleted session
kills the process or goes on (`Use`); a dangling entry of the delete list is
dropped, skipped or fatal (`SweepDropsDangling`, `SweepSkips`, `SweepCrashes`).

Abstractions: messages have no content (`Read` returns something, nothing or the
end; `Handle` covers every listener); the search of the map and of the list in
one `pushDeleteFDS(fd)` is one step; of the batch of events one `epoll_wait`
returns a thread takes one at a time, and the label `find` may last, which is
what a second event waiting behind the first amounts to; the mutex around
`epoll_wait` and the one accept per edge are in `EventLoop` (here a queued
connection may be accepted by any idle thread, which allows more). Time is ticks of
500 ms of the main loop.

Three constants switch what the environment does, so that each property is
checked under the weakest assumptions it holds for:

* `Punctual`: TRUE if a thread that need not wait gets its work done within a
  tick, and the 1 s sleep lasts two ticks (`NapTicks = 2`). FALSE: any schedule.
* `LostWrites`: whether racing updates of `mapLocks` may be lost.
* `HeapReuse`: whether an address just deleted may be handed to a new session
  while something still names it (`Named`): the delete list, `mapFDs`, or a thread
  that is about to push it. The sweep frees into the main thread's malloc cache, so
  that a worker gets such an address only when that cache is full; FALSE is the
  normal case, TRUE the general one.

`shared` is a history variable, read by three properties: the numbers two workers
at once have slept on in `setnewconnect`. A number is closed a second time by the
scan and by `pushDeleteFDS`; when it has been accepted again in between, a worker
sleeps on a number that is free, and another worker may accept it once more. The
two then create two sessions for one number, the second insert is refused and its
session is left with the lock of the first or none. No timing prevents it, so the
properties that say what the sleep is for leave such numbers out.

`SessionTable` is the registry without threads: `Make`, `Register`, `Remove`. The
mapping takes `alloc` for the sessions that exist, `sfd` for their numbers, and
`mapFDs` less the entry `clearDeleteFDs` is between deleting and erasing (`Settled`).
`Create` is then `Make`, `Insert` is `Register` or nothing, `Free` is `Remove`, and
everything else, `Unmap` included, changes nothing.

### Heartbeat

Time passes in ticks of 500 ms; `half` is the half of the second the clock is
in, and ages grow when it rolls over, which is what two truncated `time()` values
differ by. `Sweep`, `Judge`, `Condemn`, `EndScan` are one call of
`clearDeleteFDs`, with handlers running in between; `MaxDelay` is how late the
scheduler may wake the main loop. `silent` is a history variable: real ticks
since the last heartbeat.

### HallLogin

Per session: the auth code pointer (`None`, a token, or `Freed`, dangling), the
user whose data it holds, whether its state is 1. Per thread: the message being
handled and where. `CheckFinds`/`CheckMisses` are `checkAuthCode` (one step; the
search itself is over before the token is stored, so finer steps would add no
race that is not there), `FreeOld`, `Store` and the HTTP outcomes `Confirm`,
`Deny`+`Clear`, `NoAnswer` follow. libcurl may call back any number of times. A
search that meets a dangling code may go either way or kill the process.
`raced` and `stranded` are history variables. The data of a user is the token it
belongs to; tokens have the 32 characters the copy keeps.

### EventLoop

The other half of the pool threads: what happens to edges and bytes. State: the
accept queue (`backlog`), the ready list of the epoll set, per connection its
stage and how much has arrived, has been read, has been written and taken; per
thread the batch it has fetched, the connection in hand, what it has read (`got`)
and `hasWrite` (`wpos`). A thread goes `Lock`, `Fetch` (at most `MaxEvents` edges,
under the pool mutex), then for each event `Accept`/`AcceptFails`, `Shake`/
`ShakeFails`, `Join` (`setnewconnect`) or `Read`/`ReadNothing`, `Handle`/`Ignore`/
`Condemn`, `Write`/`WriteFails` (`readSocketMsg`, `sendMsg`). The kernel is
external: an edge puts its source on the ready list unless it is there, adding a
descriptor looks once, closing one removes it.

A client may leave (`Leave`, close or reset), which is an edge too. `readSocketMsg`
reads what there is (`Read`), finds nothing and goes on (`ReadNothing`: `EAGAIN`, a closed
descriptor), finds the end once all bytes are read and condemns the session (`ReadEnd`),
or spends the event without touching the socket (`Miss`: `findSocketByFD` gives null, as
the unlocked search of `ConnRegistry` may, or a signal came). `pushDeleteFDS` may refuse,
at its own search or at a number that is on the list already, so `ReadEnd` and `Condemn`
may leave the descriptor open. That a client which has left can end the process by
`SIGPIPE` at a second write is not in the module: no step would follow.

A client's stream is cut into frames of `Parts` pieces; only the first piece is a
header. A read that begins with a whole frame gives one message (or, for a control
frame, an empty package, for which the session is condemned); of what is not a
whole frame anything may be made (`Verdicts`). `merged`, `refused`, `handled`,
`crossed`, `short`, `full`, `missed` and `behind` are history variables: they name the
circumstances the code leaves to chance, and the properties say that nothing goes wrong without
them. Sessions, the sweep and the reuse of descriptors are left to
`ConnRegistry`.

### Lifecycle

`Program` is the order of the calls of `main()` and `GameServer::init()`, one
action each, from `LockInstance` to `NewSub`; `StartThread` creates the threads one
by one, and they work while it goes on. The first log line makes two `Log` objects:
`Log()` asks `createAALock` for its lock, which logs, which makes the second, whose
lock is refused (`NewLog`, `NewLogLine`, `NewLogDone`). A thread takes a message
(sender and number), `Call`s the listener or finds none, and adds to the two counters in
two steps each. Three handlers of the Hall ask the web service (`Asking`), and block in
the request: `userEnterHall` always, through an `HttpRequest` (`SendOK` cleans the handle
up, `SendFails` does not; then perhaps a mail), `userLogin` and `returnGame` if nobody
holds the token, through libcurl itself. Their callback answers the client for every
piece while the request is on (`GetUserInfo`), and they clean up either way
(`Performed`). `parts` are the objects reached
through a pointer; using one that is missing adds to `nulls`. `MaxEvents` and
`MaxChunks` cap the messages and the pieces of an answer.

### Frames, Messages, JsonText, Handshake, Wire, Answers, WireSamples, Codecs

Operators that do what the codecs do, byte by byte where a property tells bytes
apart. `Frames` is about headers and places, for sizes of any value (of 2^32 bytes and
more too: `high`), without payload. One `read()` gives at most `MaxRecv` bytes
(`MAX_RECV_SIZE`, 10240), and as many fit into the thread's buffer and into the message;
`deCodeInPackage` copies the size the header tells without a comparison. Where that goes
beyond the buffers the outcome is `Overrun`, of which nothing more is said. `Messages` has a table per generated method (`X_Reads`, `X_Writes`,
`X_Sizes`, `X_Merges`) and once what the methods have in common, with the protobuf
library under it: the tables of a class must agree, and only the generator sees to
that. Its parser is the loop of `MergePartialFromCodedStream`, a function from the
number of rounds to the state after them (`Round`; `InfoRound` for the `UserInfo`
within a message), taken where the loop has stopped. `JsonText` follows `cJSON.c` character
by character, with its three printers; numbers are the integers the server reads
(`valueint`), out-of-memory paths are left out. `Handshake` has words as sets of
bits and follows `SHA1.cpp` and `Base64.cpp`. `Wire` puts frames and messages
together: a buffer that still holds an earlier read, the masked frame, the `Package`
and its data, and back. A message too long for `enCodeOutPackage` has length -1 in
`Wire`; what `write()` makes of that length is outside the model. `Answers` has what
the handlers make of the web service's JSON, and of a game server's text: an answer,
nothing (no number, or another), or the end of the process (no JSON, or a heartbeat
without its time, both read through a null pointer).

`WireSamples` and `Codecs` hold the properties: `Codecs` takes one sample per step
and states what has to come back. They are two modules because only what is in the
first can be proved: `JsonText` is `RECURSIVE`, and `Handshake` uses powers and sums
over sets of bits.

## 3. Runs

Passing runs (bounds in the `.cfg`):

| run | instance | shows |
|---|---|---|
| `spin_mutex` | 4 threads | types, `MutualExclusion`, `SpinnerServed`, refinement of `AbstractLock` |
| `registry_any_schedule` | 2 workers, 2 connections, 2 descriptors, any schedule, lost writes, heap reuse | `RegistryOwnership`, `ImplementsSessionTable`, types |
| `registry_punctual` | 2 workers, 3 connections, 2 descriptors, punctual | `FreshDescriptor`, `ClosedIsCondemned`, `NoOrphanSession` |
| `registry_live` | 2 workers, 2 connections, 1 descriptor, any schedule, fair | `CondemnedDestroyed`, `MainReturns` |
| `heartbeat` | 2 clients, up to 1 s of delay | `BeatingSurvives`, `SilenceBound`, `DeadIsDeleted`, types |
| `hall_login` | 2 workers, 2 sessions, 2 tokens | `DuplicateNeedsRace`, `CodeAccountedFor`, `DanglingIsReplaced`, types |
| `event_loop` | 2 threads, 3 connections (one sends up to two messages or a control frame; all may leave, but for the script of two messages), a queue of 2, batches of 2, a receive buffer of 3 pieces, a send buffer of 3, one refused accept | `BacklogAccounted`, `FullBacklogHasEdge`, `UnreadHasEdge`, `EndHasEdge`, `HandledInOrder`, `AnswersWhole`, types |
| `lifecycle` | 2 threads, 3 messages, numbers of the Hall with and without a request of either kind, answers of up to 2 pieces | `NullsFollowed`, `LogHasLock`, `ConfusedOnlyAcross`, `HandlesAccounted`, `CountsBounded`, `TableQuiet`, types |
| `codecs` | samples: see below | `MessageRoundTrip`, `FrameExact`, `PackageDelivered`, `JsonForms`, `AnswerDelivered`, `AcceptKeyStandard` |

Why the bounds suffice. Two workers are what the server starts
(`SERVER_POOL_THREAD_NUM`). Two descriptors and three connections are the least
where a number is reused while another session lives, and where an old session,
its successor on the number and a bystander meet in one sweep; one descriptor
makes every connection a reuse. Two clients let one be judged while the other
beats; the reachable ages and silences are all there, nothing is capped. Two
sessions, tokens and threads are the least for two logins with one token, two
handlers on one session, and a return with another token.

In `event_loop` (1,103,687 states) a frame and an answer have two pieces, so that
either can be cut in two; three pieces of buffer hold one and a half, so that a
read ends within a frame and a write finds room for a part; the queue of two is
full with the third connection still to come, and a batch of two can hold the
listening socket and a connection. Two threads are enough to be with one
connection at once. One client talks: its stream does not depend on the others',
and `EventLoopProofs` has all of them. Leaving is left out where there are two messages,
to keep the run short: the order of two messages and the end of a client are separate
questions. In `lifecycle` (188,573 states) two threads
and three messages let two additions to one counter race with a third behind
them, and both kinds of sender meet every entry of the table. `codecs` (7,268 states)
has frames of seventeen sizes: at the borders of the three headers, at 10231 to 10233
bytes and 10240, the last the buffers hold and the first they do not, at 32767 and 32768,
and in the four high bytes 0, 1 (an overrun: the server reads 2^24) and 2^24 (read
as 1); packages on both sides of 125 bytes and of the receive buffers, whole and cut, behind
three stale buffers; every message class with numbers at the borders of a varint (negative ones
too) and texts that are not UTF-8; JSON values two levels deep with every kind of
escape; a game server's text whole and cut, with and without its number and its time,
over what an earlier read has left; characters at the borders of UTF-8 and of the
surrogates; handshake keys of
0 to 100 bytes, which is past one block of SHA1.

What TLC finds for the
small instance is proved for all in section 4, as far as safety goes, but for
`JsonForms`, `AnswerDelivered` and `AcceptKeyStandard`.

What the punctual run rests on: with a sleep of 500 ms instead of 1 s after
accept (`AcceptHasty`) `FreshDescriptor` fails, and with `HeapReuse` it fails too
(one session pushed twice, its address and its number reused within the sweep).
So the server depends on the ratio of two sleeps in different files.
And it does not suffice: with one descriptor and four connections TLC finds two
workers in `setnewconnect` with one number, and none of the three properties holds
for such a number (section 2, `shared`). Two workers sleep on one number in the
punctual run too, but three connections do not get to a refused insert.

`CHECK_DEADLOCK FALSE` is set where the process may die or the clients may have
no connection left to open.

Fairness (`registry_live`, `spin_mutex`). Weak fairness for each thread's own
steps: the operating system runs every runnable thread. Accepting and the
clients' acts are under no fairness. Weak fairness of `Tick`: the sleep of the
main loop ends. There is none for getting a spin lock that others take again and
again; `MainReturns` holds because a worker's critical sections are bounded by
the number of connections, finite in the instance. `CondemnedDestroyed` is stated
for sessions whose lock is free; with `HeapReuse` it fails, as a dangling entry
may be taken for the one that should be deleted. `Lifecycle` assumes none: libcurl need
not answer (the timeout of 0.5 s is passed as a `double` where a `long` is read), so a
handler may be held for ever, and there is nothing that must happen to state.

Runs that TLC refutes, each one property that a comment of the code states
(quoted in `findings`):

| run | what happens |
|---|---|
| `registry_use_after_delete` | a session is deleted under the worker that uses it |
| `hall_two_sessions` | two sessions log in with one token |
| `hall_refresh` | after a reconnection the player is sent blank data |

`registry_use_after_delete` keeps `Punctual = TRUE`: the race needs no starved
thread.

Further differences between code and comments that the models contain and that
no run is spent on: a failed handshake leaves its descriptor open and known to
nobody (`ShakeFails`); a session that two threads condemn is on the delete list
twice, and its second entry dangles once the first is swept; `trylock()` may wait, when another thread takes the lock
between its test and its take (`ModuleLock.h:85` says it returns false); `mapFDs` is
searched without the lock `GameMgr.h:28` calls the lock of all connections; the
comment at `GameMgr.cpp:135` says 8 s where the code says 18; a player whose HTTP
request failed is refused as "logged in already" (`Hall.cpp:168`); `userEnterHall`
sets state 1, "logged in to the hall" (`NUSocket.h:102`), for anybody; and the lock
of the player's operations (`NUSocket.h:106`) is taken by no operation; and
`NUSocket.h:29` calls the 10240 bytes of `MAX_RECV_SIZE` the largest message received,
which nothing enforces: the comparison at `NUPool.cpp:227` is commented out, and a frame
of more than 10232 bytes of payload overruns the buffers (`Overrun`).

## 4. Proofs

All are checked by TLAPS, for every value of the constants; the assumptions are
the `ASSUME`s of the modules (distinct null values, natural numbers).

* **SpinMutexProofs**: `TypeCorrect`, `Exclusion`, `FlagTruthful` (the flag is set
  exactly when somebody holds the lock; no run is spent on it), `Refinement`
  (initial states and steps of `SpinMutex` are those of `AbstractLock`). The
  invariant is that the flag is set exactly when one thread holds the lock.
* **ConnRegistryProofs**: `TypeCorrect`, `Ownership`, `Refinement` (of `SessionTable`),
  and two facts no run is spent on: `DeletesLive` (the sweep deletes no session
  twice) and `Exclusion` (of the writers of the map and of the list).
  The invariant `IInv` strengthens `RegistryOwnership` by: a live session has a
  descriptor (`LiveHasFD`), a worker past its first step has one (`WorkerHasFD`),
  a session not yet inserted is its worker's own (`FreshIsOwn`), a push has a
  target (`TargetIsPicked`), the iterator is inside the list (`IteratorInList`),
  the session about to be deleted is the one filed under the cursor
  (`VictimIsFiled`), and locks are held where they should be (`LocksHeld`).
  Ownership alone is not inductive: between `delete` and `erase` the entry
  dangles, and only `VictimIsFiled` says that it is the one at the cursor. Neither
  `Punctual` nor the other switches are assumed. For `Refinement` the frame lemmas
  (`WorkerStep`, `MainStep`, `ListStep`, `OtherStep`) say what a step of each kind
  leaves alone, so that four actions are left to look at: `Create`, `Insert`, `Free`
  and `Unmap`. That `Insert` meets no entry about to be erased is `LocksHeld`, that
  `Free` removes what it deletes is `VictimIsFiled` with `RegistryOwnership`.
* **RegistryTimingProofs**: what time adds, in three layers.
  *Naming*, for every schedule without `HeapReuse`: a live session that the list or a
  thread names is in `mapFDs` under its own number (`NamedIsFiled`), because
  everything that condemns has found it there and only the sweep takes it out.
  *Sweeping*: hence the session filed under the number of a listed one is that one,
  and the sweep never deletes another (`SweptIsCondemned`); with `HeapReuse` it may.
  *Timing*, under `Timely` (`Punctual`, no lost write, no `HeapReuse`,
  `NapTicks >= 2`): an old session under a number that a worker sleeps on is on the
  list or about to be (`Doomed`), and on it with its turn still to come when the
  worker's last tick begins (`NapIsSwept`); so its entry is gone before the worker
  wakes up, the locks of `mapLocks` are those of the entries (`LocksAreFiled`), and a
  worker that is creating a session finds neither (`MakingFresh`). From it follow
  `DescriptorIsFresh`, `ClosedGetsCondemned` and `NoSessionIsLost`.
  Each hypothesis is needed: with any one of the four dropped, TLC refutes
  `FreshDescriptor` on the instance of the punctual run. A sleep of one tick may end
  before the sweep; a late worker pushes after the sweep its number's next owner has
  slept through; a lost erase of `mapLocks` leaves an id behind for the next session.
  `HeapReuse` is a fact about the allocator, `Punctual` one
  about the scheduler; the code ensures neither, and where the server runs outside
  of them only the theorems of `ConnRegistryProofs` hold.
* **HeartbeatProofs**: `TypeCorrect`, `SilenceBounded`, `DeadDeleted`,
  `BeatingIsSafe` (an action property). `SilenceMatchesAge` relates real silence
  to cut seconds up to one half second; after a scan nobody is older than the
  limit and from then on ages and the time since the scan grow together
  (`ScannedYoung`); a round without a scan means that time is short.
* **HallLoginProofs**: `TypeCorrect`, `DuplicatesRace`, `CodesAccounted`,
  `DanglingReplaced`. `RaceFree`: for a token never raced for, at most one handler
  claims it, nobody holds it meanwhile, and at most one session holds it.

* **EventLoopProofs**: `TypeCorrect`, `QueueAccounted`, `NeverDeaf`, `ReadsKeepUp`,
  `EndsAreSeen`, `MessagesInOrder`, `AnswersAreWhole`, for any number of threads and connections, any scripts and any
  sizes. `Edges` says where an edge can be: no source twice on the ready list or in
  one batch, batches empty at `epoll_wait`, nothing on the list before its source is
  watched. With it, every step changes the number of pending edges by what it
  changes the queue, `merged` and `refused` by (`QueueAccounted`); a queue cannot
  fill by merging alone, as the edge that others merged into is itself still
  pending (`Merging`, `NeverDeaf`). That bytes, or the end of a client, wait without an
  event only where `UnreadHasEdge` and `EndHasEdge` say so is a matter of the step that
  spends the event: a read that leaves bytes has filled the buffer, one that leaves an end
  has read bytes, and the others are marked; every other step keeps the event
  (`StepOnOpen`, `EndTurns`). `Order` says that reads of two threads are
  disjoint pieces of the stream (`ReadsApart`), that no handled frame overlaps a
  read still to be looked at (`HandledPast`), and that a connection no two threads
  have met at is one thread's at a time and handled in ascending order (`Alone`,
  `Ascending`); for accepting a connection that needs `Queued`: one in the queue is
  nobody's.
  `AnswersAreWhole`: a part of an answer on the wire is one its writer has passed, and
  a read not handled yet has none (`Behind`); a connection never found short has whole
  answers only and no writer in the middle of one (`WholeSoFar`), because a write that
  is not short writes all that is left.
* **LifecycleProofs**: `TypeCorrect`, `HandlesKept`, `TableAtRest` (an action property),
  `PointersFollowed`, `LoggedUnderLock`, `CastsAcross`, `CountersBounded`, for any
  number of threads, messages and pieces. `IInv` says what each step of `main()` has
  created and registered when (`Created`, `Listed`), that no thread runs before all of
  it (`Started`), and that a handle is there only from `Open` to the end of the request
  (`CurlAtPerform`), without which `handles` might go below zero. The counters need
  more than their bounds: a thread that has loaded a counter may put back an old
  value, so `SentInv` and `ReceivedInv` bound each loaded value too, the second with
  the number of threads that have taken a message and not counted it (`Busy`).
* **WireProofs**: the codecs on the way of a message, for every input and not only the
  samples of the run. A theorem about a sample has the hypothesis that the sample is one
  of the program's; nothing else is assumed.
  *Frames* (`SentFrames`, `ReceivedFrames`, `LongFrames`, `FramesAreExact`), for every
  size: what a client finds in a frame of the server and that it fits into the buffer of
  `GSize + 5`; that the server finds payload and mask of a client's frame of 1 to 10232
  bytes, and overruns its buffers from there to 65535; that of a longer one it reads four
  of the eight bytes of the size, in the wrong order: an empty package below 2^32 bytes,
  and beyond an overrun, or a few bytes where those four happen to say a small number.
  *Numbers* (`VarintIsRead`): every int32 comes back from its one to ten bytes,
  whatever follows.
  *Tables* (`TablesOfMessages`): in each of the ten classes the parser looks for the
  fields both writers write, in their order, with the tags they write; `ByteSize` counts
  those and `MergeFrom` takes those over. This is the only step that looks at the
  classes one by one; everything behind it follows from `TablesAgree`, so a generated
  file that breaks the rest breaks this first.
  *Messages* (`BytesCounted`, `MessageIsRead`, `MessagesAgree`, `MessagesRoundTrip`).
  Every round but the last takes a byte or more (`RoundFollows`), so the loop ends within
  the length of the bytes (`LoopEnds`) and its result does not depend on how long one
  goes on. One round reads one field as it was written, or fails at a text that is no
  UTF-8 (`FieldRight`), a message within a message by the same argument one level down;
  the fields of a message are then read one after the other. Before them come unknown
  fields, any finite list of them, that are skipped; behind them another message, which
  amounts to `MergeFrom`. Hypotheses: `m` and `other` are messages of the class (numbers
  in 32 bits, texts of bytes), `strange` is a list of fields with tags the class does not
  know.
  *Packages* (`PackagesDelivered`): masking twice is nothing (`XorIs`, bit by bit), so of
  a frame that has arrived as far as byte `n` the payload is right up to there and holds
  what was in the buffer behind; the header of the `Package` and the length of its data
  are read from the part that is right, and the data are what follows. Hypotheses: the
  `Package` has at most the 32767 bytes `sendMsg` takes, the frame is text or binary. A
  frame the receive buffers hold is delivered; a longer one overruns them, as soon as the
  read that takes it apart has come past its header (`FrameOverruns`).
  The `Package` with number 0 and no data is left out: it is written as no bytes, and
  `readHeader` does not take a frame of none.

Each invariant was first checked by TLC on the instances of section 3; the invariant
of `RegistryTimingProofs` also with one descriptor and four connections (complete),
and, as far as TLC gets in some minutes, with three workers and with two descriptors,
three addresses and four connections.

Only model-checked: the liveness properties, `SpinnerServed`, `CondemnedDestroyed` and
`MainReturns`, and the fairness `ImplementsAbstractLock` asks for
(TLAPS does not reach liveness under fairness; its safety part is `Refinement` of
`SpinMutexProofs`); and three properties of codecs. `JsonForms` and `AnswerDelivered`
are about `cJSON.c`, whose functions call each other to any depth: as TLA+ they are
`RECURSIVE`, for which TLAPS has no SMT backend, and an induction over the depth of a value
would need a theorem with an operator as parameter, which the provers at hand cannot
instantiate. (`WireProofs` gets by without: its loops are functions on natural numbers,
and each of its inductions is over a set of numbers that would have a least element.)
`AcceptKeyStandard` compares the answer to one key with the one RFC 6455 prints, which
takes the 80 rounds of a hash on 32-bit words: a computation for TLC. Its other parts,
the padding and Base64, have been left to the run too; it has keys of 0 to 100 bytes,
which is every position of the padding in a block and every remainder of Base64.

## 5. Plan

What is done is in sections 2 to 4: every safety property of a run is a theorem, but
for those of cJSON and of the handshake. What would come next, in order of importance:

1. A finer abstract registry, in which a session is also condemned, once per life.
   Under `Timely` the heartbeat and a worker may still push one session twice, so it
   is the second entry of the list that the mapping would have to leave out.
2. `EventLoop` over `ConnRegistry`'s descriptors, so that a stale event in a batch
   meets a reused number. `ConnRegistry` has that case already, at its label `find`;
   the composition would add the batch, at the price of a far larger state space.

## 6. Not modelled

* Formatting and wording: log lines, statistics, dates; the wording of mails.
* In `GameHall.pb.cc` and `GameHall.pb.h`: reflection and descriptors, `Swap`,
  `CopyFrom`, the inline accessors. In `cJSON.c`: editing and duplicating lists,
  floating-point numbers beyond `valueint`, running out of memory; a text that ends
  within an escape, which `parse_string` runs past the end of. `MD5.cpp` is compiled
  and never called.
* Code without a caller: `Common/function.cpp`, `removeListener`, `stop()` of the
  threads and of the pool, the lock wrappers of `ModuleLock`. (The printer of `cJSON.c`
  into one buffer and its minifier have no caller either; `JsonText` has them, for
  `JsonForms`, but they are no hazard of this program.)
* What an overrun of the receive buffers does to the process, and the time libcurl may
  keep a thread: the first is undefined, the second unbounded. The end of the process by
  `SIGPIPE`.
* `clearAll` and the destructors of the singletons (the main loop never ends); of the
  failures of `GameServer::init` all but that of `bind()`.
* Build files, and the macros the IDE has written to `gcc_Debug.h` and
  `gcc_Release.h`.
* A wall clock that is set: the clock of `Heartbeat` runs evenly; the code promises
  nothing otherwise.
