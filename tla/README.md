# Verification of the network programming exercises

The repository holds network programs in C, one server and often one client per chapter of a course, a small library
(`src/lib`) and a homework (`src/mid-homework`). This directory keeps TLA+ models of them, the TLC configurations that
check the models on small instances, and theorems that the TLA+ proof system checks for every value of the constants.
Every definition is a translation of code; `PROJECT.json` maps each to its lines.

1. [The system](#1-the-system)
2. [Modules](#2-modules)
3. [Conventions of the models](#3-conventions-of-the-models)
4. [Runs](#4-runs)
5. [Fairness](#5-fairness)
6. [Proofs](#6-proofs)
7. [What the models show about the code](#7-what-the-models-show-about-the-code)
8. [What is not modelled](#8-what-is-not-modelled)
9. [Plan](#9-plan)

## 1. The system

The programs share no state with each other: every server is a process of its own, and it interacts with its clients
through TCP connections alone. What they share is source: `lib/common.h` (`readn`, `error`) and `lib/dict.c`.

| component | source | state | operations | what is hard about it |
|---|---|---|---|---|
| blocking queue | `chap-26/blocking_io_threadpool_server.c` | ring `fd`, `used`, `front`, `rear`; a mutex, the condition variables `free` and `nonempty` | push, pop | main and ten workers at every step of the two functions; signals that wake one thread; spurious wakeups |
| thread pool server | same | the queue, the descriptor table, a buffer per worker | accept and push; pop and serve a connection to its end | descriptor numbers are used again at once; fewer workers, slots and descriptors than connections; a reset ends the process |
| thread per connection server | `chap-26/blocking_io_thread_server.c` | `conn_fd` in main's frame, one thread per connection | accept and create a thread; copy `conn_fd`, serve | the pointer to `conn_fd` is read by the thread after main has gone on |
| process per connection server | `chap-25/blocking_io_process_server.c` | processes, the references each has to the sockets, SIGCHLD | accept, fork, close; the child's loop; the signal handler | fork copies references; signals merge; the handler interrupts main anywhere; fork fails |
| poll server | `chap-21/poll_server.c` | the slots, the ready count | poll, accept into the lowest free slot, read and write back, close | the results of poll are used while slots change; no free slot; blocking calls stop everybody |
| select server | `chap-22/nonblocking_io_select_server.c` | a buffer with two indexes per descriptor number | select, accept, recv into the buffer, send from it, close | partial sends, full buffers, the last descriptor numbers, buffers used again |
| epoll server | `chap-23/epoll_server.c` | the epoll set, the batch of events | epoll_wait, accept, read and write back, close | edge-triggered listening socket; events of a batch that earlier ones invalidate; partial writes |
| heartbeat | `chap-12/ping_client.c`, `ping_server.c` | the client's timer and counter; the server's sleep | ping on a timeout, reset on a message, give up; read, sleep, pong | late answers against timeouts; a network that fails without a word |
| length framing | `chap-16/tcp_explicit_length_*.c`, `lib/common.h` | what has been read of the current field | encode and send; `readn`, `read_message` | TCP cuts and joins messages anywhere |
| telnet homework | `mid-homework/telnet_*.c` | the client's counter; the server's working directory and current client | lines, pings, giving up; commands for one client at a time | single reads for messages longer than a segment; one client's turn depends on another's leaving; state that outlives a client |
| hash table | `lib/dict.c`, `lib/dict.h` | two tables of chains, `rehashidx` | add, get, delete, expand, rehash | two tables at once for any number of calls |
| event loop library | `lib/event_loop.c`, `*_dispatcher.c`, `channel*.c`, `acceptor.c` | the slots of poll or the set of epoll, the channel map, a socket pair | add, delete, update, dispatch, clear, activate | callbacks add, change and delete channels while the results of poll are gone through; the map and the slots must agree |
| HTTP server | `chap-16/tcp_http_server.c` | the line read so far, a dict per request (never read again) | read a line character by character, look at what follows a CR, parse, answer | three kinds of line ends, cut anywhere; buffers without a terminator; the end of the stream in the middle of a request |
| close and shutdown examples | `chap-11/close_*.c` | a connection, half closed; what the server is about to answer | ask, shut down, close; read, sleep, answer, SIGINT | which side sees which end: FIN, RST, `EPIPE`, `ECONNRESET`, and the answers under way |
| UDP, Unix domain, trigger and socket basics examples | `chap-4` to `chap-7`, `chap-13` to `chap-15`, `chap-23/*_trigger.c`, `chap-26/test_pthread.c` | none beyond a socket | | straight lines of calls |

What makes the modelled components correct, beyond each one's type invariant:

- **Queue**: it is a bounded FIFO for any interleaving, and nobody sleeps while there is something to do.
- **Servers**: every connection is accepted, served by exactly one thread, process, slot or buffer, gets back exactly
  what it sent, in order, and is closed at the end, whatever the other clients do; descriptors and references are
  neither leaked nor closed twice. Where the code falls short of that for some clients, the property says for which
  clients it holds (section 7).
- **Heartbeat**: a dead connection is given up within a known time, and a live one never.
- **Framing, telnet, HTTP**: what arrives is what was sent, once and in order, however TCP cuts it; a request is
  answered when it has been read up to its first empty line, neither before nor never.
- **Close and shutdown**: a client that shuts down its half gets the answers to all it asked; both sides end.
- **Event loop**: a channel that is ready has its callback called, once for each result of poll, and never for an event
  that is gone; no channel is forgotten.
- **Hash table**: it answers as a map from strings to values.

## 2. Modules

| module | models | state ↔ code |
|---|---|---|
| `EchoClients` | clients and the kernel's side of their connections, for five servers | `stage`, `peer`, `sent`, `unread`, `echoed` per connection; actions for connect, send, shutdown, reset, operators for what accept, read, write, close do |
| `EchoService` | what the echo servers promise to clients (abstract) | the variables of `EchoClients` a client can see; `MayRefuse`: a connection may be closed before anything is echoed |
| `BoundedFifo` | what the queue promises (abstract) | `queue`, the arguments and results of the calls |
| `BlockingQueue` | the queue | the fields of `blocking_queue`, the owner of the mutex, a place in push or pop per thread. One action per step between two points where another thread can interfere: `PushCall`, `Lock`, `PushWait`, `PushStore`, `CondSignal`, `Unlock`, ... |
| `ThreadPoolServer` | main and the workers | instantiates `BlockingQueue` (`Q`) and conjoins its actions with those of `EchoClients` |
| `ThreadServer` | main and the threads | `conn_fd` is the shared slot, `own` what a thread copied |
| `ProcessServer` | parent, children, handler | `holds` are the processes that refer to a connection; `pending`, `handling` the signal |
| `PollServer` | main's loop | `fds`, `ready` (slots with revents), `phase` (where in the loop) |
| `SelectServer` | main's loop | `buf` per descriptor with its data and `read_idx` (what has been sent), `reads`, `writes` (the sets select returned), `table` (descriptor table) |
| `EpollServer` | main's loop | `edge` (the listening socket's edge), `events` (what is left of the batch), `full` (send buffers) |
| `Heartbeat` | ping client and server | `tv`, `heartbeats`; `sleeping_time`, `wake`; messages under way with their ages |
| `LengthFraming` | the framing client and server | `stream` of bytes, `field`, `msg_length`, `got` of `read_message` |
| `HttpServer` | the HTTP server and its clients | `wire` of characters (`other`, `cr`, `lf`), `at` (where in `read_line` and `parse_header`), `buf` (the line), `request` (it is the first) |
| `HalfClose` | close client and server | `client`, `server` (how far, or how they ended), `conn` (what the server's socket has seen), `up`, `down`, `held` lines |
| `EventLoop` | the library and a user of it | `fds` the slots, `revents` and `ready_num` what `poll_dispatch` has still to handle, `entries` the channel map, `interest` the epoll set, `can` what the descriptors are ready for |
| `Telnet` | telnet clients and server | `heartbeats` per client; `conn_fd`, `cwd` of the server; `up`, `down` pieces on the wire |
| `KeyValueMap` | what the dict promises (abstract) | a function from strings to values, the last answer |
| `Dict` | the hash table | `d`, the struct with both tables, chains as sequences |
| `BlockingQueueProofs`, `ThreadPoolServerProofs`, `ThreadServerProofs`, `ProcessServerProofs`, `PollServerProofs`, `SelectServerProofs`, `EventLoopsProofs`, `ConnectionsProofs` | theorems (section 6) | the last two about all programs of `EventLoopsMC` and `ConnectionsMC` |
| `ConnectionsMC` | `Heartbeat`, `HalfClose`, `LengthFraming`, `HttpServer` and `Telnet`, the programs about one connection at a time | `program`, chosen from the constant `Programs` in the initial state, says which of the five runs; the others stay in their initial states |
| `EventLoopsMC` | the same for `EpollServer` and what is in `lib/`: `EventLoop`, `Dict` | `program` as above |
| the other `*MC` | instances for TLC | |

Definitions (all but `SelectServer!Next_i`) whose names end in an underscore and a word (`Eof_Early`, `Close_KeepSlot`,
...) are variants of the definition before the underscore with a bug that could well be written there. `PROJECT.json`
lists for each property one that breaks it; no specification uses them.

Seven components are shown to implement an abstract specification: `BlockingQueue` implements `BoundedFifo` with `queue <-
Contents`, the occupied segment of the ring; `Dict` implements `KeyValueMap` with `map` the function that looks each
string up; `ThreadPoolServer`, `ThreadServer`, `ProcessServer` and `PollServer` implement `EchoService`, each with the
variables of `EchoClients` for its own. What the four have in common, and what their clients rely on, is only that: that
connections are accepted in their order, that nothing is echoed which was not sent, and that a connection is closed when
its client is done and has everything back. How chunks get from `unread` to `echoed` - through the buffer of a worker, a
thread, a child or the single buffer of the poll loop - is what the refinement has to show. The process server may also
refuse (fork fails), hence `MayRefuse`. `EpollServer` implements `EchoService` for clients that read what they are sent;
one that does not may be closed with chunks lost (`ClosedWithLoss`), but only after all it sent has been read. The select
server falls short in more ways (section 7); what it does for careful clients is said by invariants of its own.

## 3. Conventions of the models

- **Connections are numbered in the order in which they are made.** accept returns the oldest, so that the listen queue
  is the set of numbers not yet accepted. Descriptor numbers are the lowest free ones, as POSIX demands, where the code
  depends on them (thread pool, thread, select); elsewhere a connection stands for its descriptor.
- **Data** are counted (`EchoClients`: chunks) where a server treats all bytes alike, numbered where order or origin can
  go wrong (`SelectServer`: pieces; `Telnet`: messages), and bytes where their values matter (`LengthFraming`).
  `rot13_char` and all printing are left out.
- **Steps.** Code between two blocking calls of a single-threaded server is one action, because nobody else writes its
  state and its sockets change only by what arrives. Code of threads and processes is cut at every access to what they
  share.
- **Failure of calls.** A read or write on a connection that was reset fails, accept fails when there is no descriptor
  left, fork when there is no process slot left. `error(1, ...)` ends the process (`exited`). Socket creation, malloc,
  epoll_ctl and pthread_create succeed; a failing one ends the program at once or is dereferenced.
- **Careful clients.** Some properties hold for clients that behave in a certain way only. `SelectServer` and
  `EpollServer` choose a flag `careful` in the initial state, `Telnet` a flag `whole` for the network; every behaviour
  is explored for both values, and the invariants that do not name the flag hold for both.
- **Undefined behaviour.** `Dict` sets `broken` when a deletion leaves the pointers in a state C says nothing about and
  stops there. A variable without an initial value in which some bits get set (`events` of `poll_update` and
  `epoll_ctrl`) may have any others as well (`Garbage`). A string function that reads beyond the end of a line
  (`HttpServer!RequestLine`) may go on or crash; a callback of a channel that has been freed likewise.
- **The user of the library.** Nothing in the repository runs the event loop. `EventLoop` lets a user call add, update
  and delete in any order, between two dispatches and in callbacks, in the way `event_dispatcher.h` and `channel_map.h`
  ask for: he makes space in the map first, and does not add a channel to a descriptor that has one.

## 4. Runs

Every run finishes within a minute and a half with two workers. `tlc -config X.cfg M` inside this directory repeats one.

| run | instance | shows |
|---|---|---|
| `queue` | 2 producers, 3 consumers, 2 slots, 2 descriptors | the fields agree on the ring's contents, no wakeup is lost, the queue is a bounded FIFO; no deadlock |
| `pool` | main, 2 workers, 1 slot, 2 descriptors, 3 connections | an open descriptor is in exactly one hand (main's, a slot's, a worker's), the server is an echo service, every connection is served |
| `thread` | 3 connections, 2 descriptors; a thread copies `conn_fd` before the next accept returns | one thread per connection, the threads are an echo service, every connection is served |
| `thread_race` | 2 connections, any schedule | **violated**: two threads serve one connection (section 7) |
| `process` | 3 connections, 2 process slots | references are exact, the processes are an echo service that may refuse, a zombie always has a signal pending or the handler at work, every connection is closed |
| `poll` | 4 connections, 2 slots, 3 descriptors | slots hold open connections, stale results never block the server, which is an echo service; a connection is lost only when all slots are taken, all others are served |
| `select` | 3 connections, 1 buffer, descriptors up to one above `FD_MAX_SIZE` | at most one open connection goes unwatched, a careful client gets back what it sent, completely |
| `epoll` | epoll server: 3 connections of which 2 can be open, 3 chunks; library: 2 descriptors, 2 slots, 4 calls of the user | an event still holds when its turn comes, but for what clients lose that do not read, the server is an echo service, every connection is closed; each slot that poll reports is handled once, no callback is stale before the first deletion, whatever is ready is dispatched |
| `epoll_dispatch` | library: 1 descriptor, 1 slot, 2 calls | **violated**: the epoll dispatcher closes what is ready and calls no callback (section 7) |
| `connections` | heartbeat: the program's 10 s, 3 s and 3 probes, any sleep up to 10 s, 2 s of lag each way | a live server is not given up, a dead one is given up within Time + Probes * Interval |
| | half close: 4 lines | a client that shuts down gets all its answers, the server dies only of answers that nobody reads, both sides end |
| | framing: up to 3 messages of up to 2 bytes, 2-digit integers of base 2, a buffer of 3 | every cut of the stream gives the messages that were sent, in order and in the end all of them |
| | HTTP: 2 connections, 4 characters, lines of 3 | a request is answered when exactly its first empty line has been read, and always |
| `telnet` | `ConnectionsMC` with `Programs = {"telnet"}`: 2 clients, 3 messages, 2 directories, 1 probe | answers come once and in order, a client sees its own choice of directory, every turn comes |
| `dict` | `EventLoopsMC` with `Programs = {"dict"}`: 4 strings that collide differently modulo 2 and 4, 2 values, tables of 2 to 8 slots | entries are where lookups search them, the counts are right, the dict answers as a map |

Why the bounds are enough:

- *Queue*: the interesting cases are a full and an empty ring with several sleepers on one condition variable. Two slots
  wrap after two calls; three consumers are one more than the slots, so that one signal too few, or one that reaches the
  wrong thread, leaves a sleeper with work. The theorems cover every size.
- *Servers*: a hazard needs a connection that goes wrong, one that suffers, and one that reuses the resource the first
  left behind, hence three connections (four for poll, which has two slots). Resources are always fewer than
  connections: descriptors, slots, buffers and processes run out and are used again. One or two chunks per connection
  are enough to be between read and write, or to have a part echoed.
- *Heartbeat* has the program's own constants, so that the boundaries between the timers are the real ones.
- *Framing*: fields of two bytes and bodies of up to two have a cut inside every field and on every boundary, and three
  messages can be joined in one read; the buffer is smaller than the largest length that can be written in two digits.
- *Half close*: SIGPIPE needs two answers to a client that has closed, and one read may join two lines: four lines leave
  some for both sides of each.
- *HTTP*: four characters are a request line with any line end and an empty line with any other; lines of three
  characters are cut (`MAX_LINE` is 4 there); the second connection meets what the first left behind.
- *Event loop library*: two slots and two descriptors, of which the lowest free one is used again, and four calls are an
  add, a second, a deletion and an add that finds no slot or a descriptor with two; two ready slots are the least with
  which a callback can disturb the slot after it.
- *Telnet*: two pieces per message show every kind of misaligned read; three messages are a cd, a command after it and
  one of the other client.
- *Dict*: the initial size of 2 makes the third add expand; strings that share a chain before the expansion are in
  different chains after it.

`MaxConn`, `MaxSent`, `MaxTotal`, `MaxThread`, `MaxChild`, `MaxMessages`, `MaxAsked`, `MaxSleep`, `MaxText`, `MaxCalls`
bound what TLC explores; `Size`, `Default`, `HttpLine`, `PollFdSize`, `FdMaxSize`, `Capacity`, `Time`, `Interval`,
`Probes`, `BufSize` stand for the program's constants; `MaxFd`, `MaxOpen`, `FdLimit` for the descriptor limit of the
process. `CHECK_DEADLOCK FALSE` stands where the system may stop: all clients have done what the bounds let them do, or
the process has exited. `BlockingQueue` never stops, and its run checks for deadlock.

## 5. Fairness

Weak fairness of each thread, process and server loop: the operating system runs what can run. No strong fairness is
assumed of a thread, so that the mutex is modelled as fair only in so far as each step of a thread, once possible for
good, happens.

About the environment the liveness properties assume the least with which they can hold:

- a client ends its connection some day (`Fin`, `Kill`) - a server whose thread, process or turn belongs to one client
  cannot be expected to serve another before;
- careful clients of the select server read what they are sent (`Drain`); the blocking servers are stated for clients
  that read at all, because a blocked write is for ever;
- spurious wakeups end some day (`<>[][~Spurious]_vars`, thread pool): a mutex that is taken for nothing again and again
  starves under weak fairness;
- a pending SIGCHLD is delivered;
- the user of the library calls dispatch again and again, and callbacks return (`WF_vars(Loop)`);
- in `HalfClose` both processes run (`WF_vars(Client)`, `WF_vars(Server)`); nobody has to type, close or interrupt;
- of a telnet client only that it is some day killed if it does not end (`WF_vars(Kill(c))`).

`ConnectionsMC` and `EventLoopsMC` state the fairness of the programs that a run chooses from (`ConnectionsSpec`,
`TelnetSpec`, `LoopsSpec`); the theorems are about `MCSpec`, which has none.

Every property of liveness under these assumptions is TLC's.

## 6. Proofs

`tlapm M.tla` checks a module. There is no assumption besides named ones on the constants: `QueueAssumption` and
`PoolAssumption` (a positive size, finite and disjoint sets of threads, no descriptor or connection that equals a
marker), `ThreadAssumption`, `ProcessAssumption`, `PollAssumption`, `EpollAssumption`, `ClientAssumption` (natural
numbers, a marker that is no connection), `SelectAssumption` (the same), `HeartbeatAssumption` (a positive timeout and
interval). The modules that are instantiated state
theirs as definitions, which are hypotheses of the theorems: `AskedAssumption`, `FramingAssumption` (a base of two
digits at least), `HttpAssumption` (a line has room for one character and its end), `TelnetAssumption`,
`LoopAssumption`, `DictAssumption` (hashes and sizes are natural numbers, the initial one a power of two).
`ConnectionsAssumption` and `LoopsAssumption` assume them of the compositions, so that `ConnectionsCorrect` and
`LoopsCorrect` need none of them. TLC evaluates them all in the runs. Three hypotheses are about how the code is used:
`Prompt`, without which the theorems about `ThreadServer` are false, as the run `thread_race` shows; `OneAtATime`, that
dictRehash is called with n = 1, as everywhere in the repository, without which those about `Dict` are false, as
`EventLoopsRehash.cfg` shows; and `OnePointer`, that a string has one pointer, without which `dictDel`, which compares
pointers, does not find a string that `dictGet`, which compares strings, finds. The runs' constants satisfy the last two.

**`BlockingQueueProofs`**, for every number of threads, every size and every set of descriptors:

- `TypeCorrect`, `RingCorrect`: `TypeOK` and `RingConsistent` are not inductive: that a step finds the ring as the last
  one left it needs the mutex. `CoreInv` adds who owns it (`MutexOwned`) and that a producer inside push carries a
  descriptor (`ArgKnown`). `StoreKeepsRing` and `TakeKeepsRing` are the two steps that change the ring; all others are
  `RingUnchanged`.
- `NoWakeupLost`: while a consumer sleeps, the descriptors in the ring are at most as many as the consumers about to
  look plus the producers about to signal; the same for producers and empty slots. Counting the threads in each state
  makes it inductive relative to `CoreInv`. `MoveKeepsMatched` handles a thread that moves from one place to another,
  `SignalKeepsMatched` the signal: either it wakes a thread, which then counts as about to look, or nobody sleeps and
  there is nothing to show. This is why one `pthread_cond_signal` per call, with no broadcast, is enough.
- `QueueImplementsFifo`: every step is a step of `BoundedFifo` or leaves its variables alone. The steps that matter are
  `StoreAppends` (the segment grows at its end) and `TakeRemovesHead` (it loses its first), both about arithmetic modulo
  the size.

**`ThreadPoolServerProofs`**, for every number of workers, slots, descriptors and connections:

- `QueueHolds`: with main as the producer and the workers as consumers every step of the server is a step of
  `BlockingQueue` or leaves the queue alone (`UsesQueue`), so that `NoWakeupLost` and `QueueImplementsFifo` hold inside
  the server. The server's own proofs take from the queue's what the two steps that move a descriptor do:
  `StoreAppends`, `TakeRemovesHead`.
- `EachInOneHand` (`OneHand`): the invariant `Placed` says that each worker has one descriptor at most (`OneEach`), that
  what is queued or in a hand is open (`AllOpen`), that no descriptor is in two places (`Exclusive`), and that none is
  nowhere (`Covered`). With a descriptor number used again as soon as it is closed, the four need each other.
- `PoolImplementsService`: the worker that has a descriptor has all chunks that are neither unread nor echoed
  (`Counts`).

**`ThreadServerProofs`**, under `Prompt`, for every number of threads, descriptors and connections:

- `OwnThread` (`OneThreadPerConnection`): when a thread starts, `conn_fd` still holds the descriptor it was created for
  (`HandedOver`), because no two threads are starting at a time and none while main has yet to create one (`OneStarts`);
  the descriptors of threads at work are open and different (`Workers`, `Sockets`).
- `ThreadsImplementService`, by a second invariant, `Whole`, that relies on the first: only the thread of a connection
  has chunks of it.

**`ProcessServerProofs`**, for every number of process slots, connections and chunks:

- `TypeCorrect`, `SocketsHeld` (`OpenIsHeld`), `OneServer`, all from the invariant `IInv`. `TypeOK` alone is not
  inductive: that a write stays within what the client sent needs `Counts` (a chunk is unread, in a child's buffer or
  echoed), and this needs `ChildRefs`, that no two living children serve one connection, or both could count the same
  chunks. `ChildRefs` rests on `ParentRefs`: between accept and fork the parent alone refers to the new connection, so
  that fork gives it to one child only. `OpenIsHeld` belongs to the invariant: `Accept` takes a connection nobody refers
  to.
- `ZombiesReaped` (`ZombieIsSignalled`), inductive as it stands: exit makes SIGCHLD pending, its delivery starts the
  handler, and the handler returns only when `waitpid` has found no more.
- `ProcessesImplementService`: a connection is closed by the parent or by the child, whichever is last. The invariant
  `Whole` says that at any moment the one that may be last finds it `Settled`: everything echoed, reset, or nothing
  echoed.

**`PollServerProofs`**, for every number of slots, connections and chunks:

- `ResultsStayTrue` (`SlotsAreOpen`): what poll reported holds until its turn (`Results`), because a slot's turn changes
  nothing for other slots (`Placement`: they have different connections) and a new connection goes into a slot without a
  result. That the lowest slot exists is the one use of well-founded induction (`LowestIsMember`).
- `LossNeedsFullArray` (`LostOnlyWhenFull`), an action property, from the same invariant.
- `PollImplementsService`: the buffer belongs to the slot whose turn it is (`Counts`).

**`SelectServerProofs`**, for every number of connections, descriptors and buffers, every length of a buffer and number
of pieces:

- `OneLost` (`OnlyOneLost`): the table and the buffers agree (`Descriptors`): a buffer is in use exactly when its
  descriptor is, descriptors stand for different open connections, each open connection has one, and none is above
  `FD_MAX_SIZE`. The lowest free descriptor keeps that true even when it is the one that has no buffer; only the
  connection that got it goes unwatched.
- `EchoedAsSent` (`EchoIsPrefix`): for careful clients (`EchoInv`) the buffer of a descriptor is what its connection has
  received and not been sent back (`Holds`), although nobody resets it when the descriptor is closed: a careful client
  leaves with everything echoed (`Honest`), so that the next connection with this number finds the buffer `Empty`. While
  `readable` is set the last piece received is the line the client waits for, and what a client still waits for fits
  into the buffer.

**`EventLoopsProofs`**, for every number of connections, chunks and descriptors of the epoll server, and every number of
descriptors, slots and calls of the event loop's user:

- `BatchStaysTrue` (`EventsStillHold`): every event of the batch is about another connection (`OneEvent`) and each is
  true (`EventsHold`, `ListenHolds`); so handling one makes no other untrue, and the blocking accept finds a connection.
- `NothingLost`: a careful client whose connection is closed at the end of its stream has everything back. For careful
  clients nothing is cut by a write (`Kept`), and what is read is read to the end (`ReadToTheEnd`).
- `EpollImplementsService` (`ImplementsService`): that a connection is closed at a reset, or at the end of the stream
  when all is read, takes that a bad event is still about a reset when its turn comes (`BadHolds`); that only what was
  sent is echoed, and only to an open connection, takes `Counts` and `EventsHold`; that a careful client has it all back
  by then, `Kept`.
- `LoopHandlesEachOnce` (`EachReportedOnce`): `ready_num` is the number of slots still to be handled (`Counted`),
  whatever callbacks add, update and delete meanwhile, because nothing but the scan itself touches `revents`. The
  invariant `LInv` also says that the size of the channel map is the default size doubled up to a bound that depends on
  the largest descriptor, which needs that doubling gets beyond any number (`PowerSteps`).
- `LoopCallsFresh` (`NoStaleCall`): as long as nothing has been deleted (`Calm`) every slot in use has an open descriptor
  of its own with a channel (`OwnDescriptors`) and what poll reported is still there (`StillReady`): a callback that
  adds a channel takes a slot of which nothing is reported.
- `DictCounts` (`TablesConsistent`), under `OneAtATime`, for every set of keys and strings, every hash and every size
  asked for: a dict is `Well` when both tables are (`WellTable`: the entries of a chain belong to its slot, `used` is
  the number of places in the chains), and when there is a second table exactly while rehashing, and then a first. Each
  call is a rehash step (`StepWell`), an expansion (`ExpandWell`) and an entry more or less in one chain (`OneMore`,
  `OneLess`). That `_dictNextPower` ends, and with a size that is not 0, rests on the doublings of any number
  outgrowing every other (`PowerFound`). After a deletion with undefined behaviour only the shape is known
  (`StaleTypes`).
- `DictImplementsMap` (`ImplementsMap`), under `OneAtATime` and `OnePointer`: until a deletion whose behaviour is
  undefined, every call is one of `KeyValueMap`'s or changes nothing a caller sees. The tables alone do not say so:
  `MapInv` adds to the invariant of `DictCounts` that a key is linked from one place only, in one of the two tables
  (`Unique`), without which a lookup could find an older entry behind a deleted one. With it the contents are the one
  map that has for each key the value stored for it (`Maps`, `MapsOnce`, `ContentsMap`), so that for each call it is
  enough to say what is stored after it: the same after a rehash step, an expansion and the search for a slot
  (`StepStores`, `ExpandStores`, `IndexStores`), one entry more after an addition (`AddStores`), and all but the key's
  after a deletion (`UnlinkStores`). The search in a chain finds the first entry with a key, or there is none (`Searched`);
  that dictAdd never fails for want of a slot rests on the enlarged size being larger than the old one (`PowerFound`).
- `LoopsCorrect`: a step of one program leaves the others where they are, so that the five invariants and the two
  refinements hold in what the runs check.

**`ConnectionsProofs`**, for `Heartbeat`, with every timeout, interval, number of probes, sleep and lag:

- `TypeCorrect`.
- `DetectionBound` (`SilenceBounded`): the invariant `ClientClock` says what the counter and the timer mean together: as
  long as the client waits, silence + tv = Time + heartbeats * Interval, and heartbeats <= Probes.
- `LiveNotGivenUp` (`OnlyDeadGivenUp`): once a client has probed and neither the network nor the server has failed, an
  answer is under way and not late (`AnswerUnderWay`): a pong on the wire, the server's sleep, or a ping, each with a
  bound on the time since the first probe. When the answer is due before the last probe expires, giving up is
  impossible.

for `HalfClose`, with every number of lines:

- `ShutdownSafe` (`ShutdownLosesNothing`): a line asked is on its way up, with the server, on its way down or answered,
  unless the client has closed (`HalfLines`); and the server closes its side only after the end of the stream with no
  answer left to give (`HalfEnds`).
- `DeathsExplained` (`DiesOfLostAnswers`): SIGPIPE and a reset reach the server only after an answer to a client that
  had closed or with one under way (`HalfCauses`).

for `LengthFraming`, with every base and width of the length field, every length of a message and of the buffer:

- `FramesSurviveCuts` (`ReceivedIsPrefix`): the stream alone does not say where frames begin. `FramingInv` therefore
  says that there are messages, those sent and perhaps one that is cut off by the client's death (`Begun`), and
  positions at which their frames start (`Starts`), such that what is on the connection are the frames' bytes
  (`OnWire`) and the server is inside the first frame it has not received, at the byte its field says, with the length
  the message has (`Reading`). That `msg_length` is the message's length rests on `RoundTrip`: `ntohl` inverts `htonl`
  for every base and width. Both are recursive functions; that they equal their definitions, and the induction on the
  number of digits, come from the well-foundedness of < on the natural numbers (`Smallest`, `Induction`).

for `HttpServer`, with every number of connections, length of the text and size of a line:

- `AnsweredAtEnd` (`AnsweredAtEmptyLine`): what is on the wire is the end of what the client sent (`Wires`), and the
  state of `read_line` and `parse_header` says what has been found in the part before it (`LinesTrue`): where the line
  in `buf` began and that no line before it was empty (`InLine`), that the LF of a CR LF has been taken with it
  (`Clean`), or that the client has left and the server repeats the last character for ever (`Spinning`).

for `Telnet`, with every number of clients, messages, directories and probes:

- `AnswersGoInOrder` (`AnswersInOrder`): per connection (`Dialogue`), the pieces under way belong to messages the client
  has sent, in order, and are later than all that were answered (`Asked`); the same for the answers on their way back
  (`Answered`). When messages arrive whole, every message has exactly one answer, the one with its number (`AskedWhole`,
  `AnsweredWhole`).
- `DirectoryIsOwn` (`OwnDirectory`): `cwd` is the directory of the last cd that was answered on the connection being
  served (`Directory`), whatever clients before it left behind; hence each "ls" answered shows the client's own choice
  (`Own`).

and for all of them:

- `ConnectionsCorrect`: a step of one program leaves the four others where they are (`StepIsOneProgram`), so that the
  eight invariants hold in what the runs `connections` and `telnet` check.

Model-checked only is liveness. Every invariant, every refinement and every action property of a passing run is stated
by a theorem. Liveness under fairness and ENABLED are out of the
prover's reach. So are the library's induction theorems, which take an operator as a parameter; where a proof needs
induction over the natural numbers it takes the smallest counterexample instead (`Smallest`).

## 7. What the models show about the code

Disagreements with a comment, each checked by a violated run:

- `chap-26/blocking_io_thread_server.c:96` hands the thread a pointer to `conn_fd`, which the next accept overwrites.
  The comment on line 95 promises a thread for every connection. In `thread_race` two threads serve the second
  connection and none the first; the first hangs for ever and the second is closed twice. The run `thread` shows that
  everything else about the server is right.

- `lib/epoll_dispatcher.c:89`: `(events | EPOLLERR) | (events | EPOLLHUP)` is never 0 (`&` was meant), so that the
  descriptor of every event is closed and the code that calls `channel_event_activate` is never reached.
  `event_dispatcher.h:27` says that dispatch calls it to run the callback. In `epoll_dispatch` a channel gets ready and
  is closed without its callback.

Restrictions under which properties hold, each found by a counterexample without it:

- `lib/dict.c:160`: a rehash that moves a bucket (n > 1) stores entries in slots that a lookup does not visit:
  `_dictKeyIndex` finds the very entry that is moved and returns -1, which is then masked with the old table's mask. No
  caller in the repository passes n > 1, and with n = 1 nothing is moved (line 146); `EventLoopsRehash.cfg` shows the
  violation of `TablesConsistent` otherwise. With n = 1 the rehash ends only when the first table has been emptied by
  deletions.
- `lib/dict.c:83`: `prevEntry` survives from the chain of the first table into that of the second. Deleting the head of
  the second's then changes the wrong chain and leaves a pointer to freed memory (`Stale`, `broken`). `dictDel` (line
  95) also compares addresses of keys where the other calls compare the strings, which the instance excludes by using
  one pointer per string; and it returns an entry that it has freed.
- `chap-21/poll_server.c:71`: the test for "no free slot" compares an index that the loop never changes, so that a
  connection beyond the last slot is neither refused nor closed (`Lost`).
- `chap-22/nonblocking_io_select_server.c:154` lets the descriptor `FD_MAX_SIZE` through, one beyond the buffers; line
  175 closes a connection without resetting its buffer, so that the next connection with this number gets the old bytes;
  a line that comes together with the end of the stream is not echoed; bytes beyond the buffer are dropped. Careful
  clients, who wait for the echo of a line before they send another or leave, meet none of this.
- `chap-23/epoll_server.c:59`: with an edge-triggered listening socket and one accept per event the second of two
  connections that arrive together stays in the backlog until a third comes; and what a write does not take is lost
  (line 114). Clients that come one at a time and read what they are sent meet none of this.
- `chap-16/tcp_explicit_length_server.c:42`: a message of length 0 (a line that begins with a NUL) is taken for the end
  of the connection, and the ones after it are never read.
- `mid-homework/telnet_client.c:131`: "quit" is sent after shutdown, so that SIGPIPE ends the client and the server's
  answer to quit is never asked for. Line 123: at the end of stdin the client spins, and since every turn resets the
  counter it never gives a dead connection up. `telnet_server.c:199`: it then keeps all other clients in the backlog.
  `telnet_server.c:100`: a message that TCP cuts is handled as if its first part were all of it, and the rest, or the
  beginning of the next, is dropped.
- `chap-16/tcp_http_server.c:48`: the end of the stream is not an error of recv, so that `read_line` repeats the last
  character; a client that leaves in the middle of a line, or before its empty line, keeps the server in `parse_header`
  for ever (`Spins`). Line 47: a line of exactly `MAX_LINE - 1` characters is cut before its LF, which the next call
  takes for an empty line: the request is answered too early (`Fits` says for which texts this does not happen). Line
  114: when `dictCreate` fails the connection is left open (`leaked`). After a reset that recv has reported, the write
  of the answer raises SIGPIPE and ends the server (`exited`).
- `chap-11/close_server.c:76`: an answer to a client that has closed is accepted, the next one raises SIGPIPE or is an
  error. `close_client.c:84` tests `rt < 0` on a `size_t`, which is never true: the client notices no error of write.
- `lib/poll_dispatcher.c:88`: `poll_del` sets the events of the slot to -1 and keeps its descriptor: the slot is used
  up, and the deleted channel is watched for everything, so that its callback can be called after it has been freed.
  Before the first deletion no callback is stale (`NoStaleCall`). Lines 59 and 107: `&&` stands for `&`, so that any
  interest counts as interest in both. Lines 65 and 102, and `epoll_dispatcher.c:50`: an array without a free slot takes
  no channel and still returns 0, and `events` has no initial value. `event_loop.c:65` compares with `>` where `>=` is
  needed; nothing calls `map_make_space` for a caller.
- `chap-21/poll_server.c:84` writes on a blocking socket: one client that does not read stops the server for all.

## 8. What is not modelled

- *UDP examples*: chapter 6 answers each datagram by itself and keeps a counter; a client whose datagram or answer is
  lost waits for ever in recvfrom, because it has no timeout. The server of chapter 14 serves the first peer only; it
  does not terminate what recv puts into `message`, so that bytes of an earlier message follow a shorter one, in the
  answer and in the comparison with "goodbye". Its client creates a `SOCK_STREAM` socket (`udp_connect_client.c:14`) and
  can never reach it.
- *Unix domain examples*: one connection, one request and one blocking answer at a time; the server answers with
  `sizeof(send_line)` bytes whatever it read.
- *select and poll clients, triggers* (`chap-23/*_trigger.c`), *basics* (`chap-4`, `chap-5`, `chap-13`, `chap-15`,
  `chap-26/test_pthread.c`): calls in a straight line, or a loop that prints when a descriptor is ready.
- *Event loop library*: the pending list, the mutex and the socket pair, which no code reads yet; `acceptor_init`, which
  is create, bind, listen; the return values, which are constants.
- In modelled parts: the bytes of messages where no property depends on them, buffers that overflow (`sprintf` and
  `strcpy` of oversized texts), the telnet server's `cd` without an argument, `MSG_TYPE1` and `MSG_TYPE2` of the ping
  server, more than `EPOLL_MAX_EVENTS` events in a batch, SIGINT handlers that print and exit (all but `close_server`'s,
  which ends the process between read and answer), failures of malloc, and of accept where nothing but a message
  follows.

## 9. Plan

What would come next, in this order:

- `EchoService` for the select server, restricted to careful clients; an abstract dispatcher that says
  what `event_dispatcher.h` promises, with both dispatchers against it; the framing client and server against an
  abstract channel of messages; timer values in `Telnet`, from `Heartbeat`; the datagrams of chapters 6 and 14 over a
  network that loses and reorders.
- `ThreadPoolServer` over `BoundedFifo` in place of `BlockingQueue`, and the refinement between the two.
