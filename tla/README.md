# eddyserver in TLA+

eddyserver is a TCP framework in C++14 on asio: I/O threads read and write the
sockets, the main thread runs the application. This directory models its core
(sessions, handlers, the manager and the posts between their threads), the life of
its I/O threads, its message framing and buffers, and its thread pool, checks the
models with TLC on small instances, and proves their safety properties with TLAPS for every
instance.

Paths below are relative to `src/eddyserver/eddyserver/`. The spelling of names
(`hanlde_close`, `termminiate`) is the code's.

## 1. The system

| Component | State | Operations | Used by |
|---|---|---|---|
| `IDGenerator` (`id_generator.h`) | `next_`, `pools_` | `get`, `put` | the manager, on the main thread |
| `IOServiceThreadManager` | `threads_`, `thread_load_`, `session_handler_map_`, `id_generator_` | `run`, `stop`, `get_min_load_thread`, `get_thread`, `on_session_connected`, `on_session_closed` | server and client on the main thread; sessions by a posted task |
| `IOServiceThread` | `io_service_`, `io_work_`, `timer_`, `session_queue_` | `run`, `run_thread`, `join`, `stop`, `check_keep_alive` | the manager; everybody posts to its `io_service` |
| `TCPSession` | id, `closed_`, read and write counters and buffers, `messages_received_`, socket, `close_timer_` | `init`, `close`, `post_message_list`, the completion handlers | its own I/O thread only |
| `TCPSessionQueue` | id -> session of one thread | `add`, `get`, `remove`, `foreach` | its own I/O thread only |
| `TCPSessionHandler` | session id, thread id, `messages_to_be_sent_` | `send`, `close`, `init`, `dispose`, callbacks | the application, on the main thread |
| `TCPServer`, `TCPClient` | the acceptor, the session that waits for a connection | accept loop, `connect`, `async_connect` | the application |
| `Thread`, `ThreadPool` | `finished_`, `queue_task_`, mutex, condition variable; the threads | `append`, `termminiate`, `join`, `wait_for_idle`, `run_loop` | the application |
| `MessageFilter` | `header_`, `header_read_` | `read`, `write`, `bytes_wanna_read`, `bytes_wanna_write` | its session |
| `NetMessage` | an array or a vector, read and write position | writes, reads, copies, moves, `ensure_writable_bytes` | filters, handlers, the application |

How they meet. Nothing but the thread pool uses a lock: an object belongs to one
thread, and everything between threads is a function posted to an `io_service`,
which the one thread that runs it executes in the order of the posts. A session
and its handler know each other only by the session's **id**. A handler posts
`SendMessageListToSession` and `CloseSession` with the id to the session's
thread, which looks it up in its `session_queue_`; a session posts
`SendMessageListToHandler` and `on_session_closed` with the id to the main
thread, which looks it up in `session_handler_map_`. Closed ids return to the
generator and come back, at the earliest when `threshold_` of them wait.

    main thread                                        I/O thread
    TCPServer/TCPClient --on_session_connected--> init ------------> TCPSession
    TCPSessionHandler --SendMessageListToSession, CloseSession-----> TCPSessionQueue
    manager <------SendMessageListToHandler, on_session_closed------ TCPSession

With one thread (`NumThreads = 1`) the main thread is also the I/O thread, and
batches pass between session and handler without the second post.

What is hard:

* **Stale ids.** Every post carries an id that may have been closed, and may have
  been given to another connection, when it is looked up.
* **Closing.** Either side may close at any time, with a read and a write under
  way, a keep-alive check pending and message lists in both directions. It must be
  reported once, must not cut a write short, and must free the socket although the
  peer may never close its side (a five-second timer does it then).
* **Batches.** Only the first message of a batch posts the task that carries the
  batch over. A batch without its task is stuck; a task without its batch is lost.
* **Conditions and signals** in the thread pool: signals are given outside of the
  mutex, and only for the first task of a list; `ThreadPool` picks a thread under one
  mutex and appends to it without.
* **Starting and stopping.** An `io_service` stops by itself when it has no work. `stop()`
  takes work away on one thread while `run()` creates it on another.
* **Framing.** A header says how many bytes to ask for next, and the network cuts them up
  anywhere. One byte too many or too few spoils all that follows.
* **The ends of ranges**: `++next_` wraps, loads are unsigned, headers have 16 bits, the size of
  a batch is summed in an `int`, that of a string is written in 32 bits, buffers change from an
  array to a vector and are scanned for terminators that nobody wrote.
* **Exceptions.** `remote_endpoint()` throws when the peer is gone already, with the id taken;
  `set_option()` and `cancel()` throw on the thread of the session.

`PROJECT.json` lists the hazards with their lines and the properties that watch
each of them.

## 2. Modules

| Module | Models | Depends on |
|---|---|---|
| `IDGenerator` | `id_generator.h`, and a caller that returns only ids it holds | |
| `EddyTypes` | `types.h`: ids, threads, sessions | |
| `IoService` | the queue of posted functions of each thread | `EddyTypes` |
| `TCPSession` | sessions and the session queues | `IoService` |
| `IOServiceThreadManager` | the registry of the manager; alone it has callers that respect its assumption (`ManagerSpec`) | `EddyTypes`, instance of `IDGenerator` |
| `TCPSessionHandler` | handlers | `TCPSession`, `IOServiceThreadManager` |
| `EddyServer` | server, client, application, peers, keep-alive checks and the threads: the whole | `TCPSessionHandler` |
| `IOServiceThread` | the life of the I/O threads: `run`, `run_thread`, `stop`, `join`, `check_keep_alive` under the manager's `run()` and `stop()` | |
| `Thread` | the members of the pool's threads, the worker, and calls in one `Thread` | |
| `ThreadPool` | the choice of the least loaded thread, calls that visit every thread, the clients | `Thread` |
| `ByteQueue` | what a message buffer promises: a queue of bytes | |
| `NetMessage` | the buffer, its array and its vector | instance of `ByteQueue` |
| `MessageStream` | what one direction of a connection promises: messages arrive as sent | |
| `MessageFilter` | the filter, the sessions' buffers and the network, byte by byte | instance of `MessageStream` |
| `IDGenerator_proofs`, `ThreadPool_proofs`, `IOServiceThread_proofs` | theorems | the module of the same name |
| `SequenceLemmas` | lemmas about `FlattenSeq` and concatenation | |
| `MessageFilter_proofs`, `NetMessage_proofs` | theorems | the module of the same name, `SequenceLemmas` |
| `EddyServer_proofs` | theorems about the manager alone, and about types, ids and sessions of the server | `EddyServer`, instance of `IDGenerator_proofs` |
| `EddyServerMessages_proofs` | theorems about the messages of the server | `EddyServer_proofs`, `SequenceLemmas` |
| `MC*` | instances for TLC | the module of the same name |

`IDGenerator` is the abstract specification that `IOServiceThreadManager`
implements (`ImplementsGenerator`: the ids that are held are those of the map, and those
that a failed connection has taken and nobody returns), and
`IOServiceThreadManager` alone is the abstract specification that `EddyServer`
implements (`ImplementsManager`: nobody connects a handler twice or reports the
close of an id that is not in the map). What `IDGenerator` and the manager assume
of their callers is discharged in this way, step by step. `ByteQueue` and
`MessageStream` are abstract specifications that no code corresponds to; `NetMessage` and
`MessageFilter` implement them.

### From the code to the model

*Variables* have the names of the members (`closed_`, `pools_`, ...); a member of
an object is a function of the object. `tasks` holds the queue of every
`io_service`: a posted `std::bind(f, args)` is a record with `op` and the
arguments. A session's handler has the session's name (`Session`), as the two are
created together in one call; `handler_session_id_` and `handler_thread_id_` are
its own members. `arrived`, `wire`, `sent`, `delivered`, `close_calls`, `lost_ids`, `pushed`
and `ran` are history variables.

*One step of `EddyServer` is one function run to its end by one thread.* The code
justifies it: a function touches only members that its own thread owns, and
reaches other threads by posts. Two posts by one function go into queues in one
step. Between them another thread could come in, but all else that a function does is
invisible to other threads, and only `TCPSessionHandler::close` posts twice to
one foreign queue: the batch, then `CloseSession`. What the I/O thread may post to itself
between those two commutes with one of them: the delivery of a batch that was read with
the batch that is sent, a keep-alive `close` with `CloseSession`. The application's calls of `send()` and `close()` from
`on_connected` and `on_message` happen at the end of the function that calls
back, so they are the same as calls in the next step (`app_send`, `app_close`).
Calls from `on_closed` are made in `session_closed` itself, since the handler
is disposed of right after it. `MainTask` and `SessionTask` run the head of a
queue; `Written`, `Read`, `Drained` and `CloseTimer` are completions, which asio
may deliver at any time after the operation is started, in no stated order with
posted functions.

*Choices.* How many messages a read completes and whether the filter wants to read
on (applications supply their own filters); which element `*pools_.begin()` is;
which sessions have expired, in which order `foreach` meets them; when peers
connect, send, close and reset; what the application does.

*Abstractions.* A filter writes every message that is not empty, as the one of the
library does. The two reads that share `buffer_receiving_` while a session closes are
told apart by their completions only; memory is not modelled. Bytes are messages `<<handler, n>>`. `async_write` of a buffer
completes as a whole or fails. Errors of `shutdown` are logged and ignored by
the code. Assertions are off, as in a release build. A session object is used
for one connection, as server and client do.

*Exceptions.* Three calls of the library's own throw when a peer is gone: `remote_endpoint()` in
`on_session_connected`, after `get` has taken an id; `set_option()` in `TCPSession::init`, which is
the overload that throws; and `cancel()` of a closed socket in the close timer's function. On an
I/O thread nobody catches what leaves `io_service::run`, and the process ends (`terminated`). On
the main thread the application gets it, out of `TCPClient::connect` or
`IOServiceThreadManager::run`, and may end the process or run the threads again: the id of the
connection is lost then (`on_session_connected_throws`, `lost_ids`), a server accepts no more, and a
session whose `init` has thrown does not read. An exhausted generator throws as well;
`CapacityAssumption`, ids for all connections and for those that wait, excludes it.

*`Thread` and `ThreadPool`.* Here threads share memory, so a step ends where another thread may
come in: at a lock, at the atomic `finished_`, at a signal and at the wait, which releases
the mutex in one step. `load()` and `push_back` under the lock are one step each. `ThreadPool`'s
`append` is a step for the lock of `mutex_`, one for each `load()` that `min_element` reads, and one
for the unlock; the chosen thread's `append` follows without `mutex_`. The worker may wake for no
reason (`wakes`). A `std::function` without a target (`Empty`) is moved from but never popped, as in
the code. `pushed`, `ran` and `due` (what had been appended when a client called
`wait_for_idle`) are history variables.

*`IOServiceThread`.* `io_work_` and `thread_` are read and written by several threads without a
lock; a test and the assignment after it are steps of their own. What a posted function does is left
to `EddyServer`; here functions are counted. An `io_service` counts its work (functions that wait or
run, timers, `work` objects) and stops when the count comes down to zero, even before it is run;
`run()` of one that is stopped returns at once. This is how asio behaves, and the only part of it
that the module takes as given. `stop()` is called by a function on the main thread or by another
thread, one call at a time.

*`MessageFilter`.* One direction of a connection. Bytes go one at a time from `async_write`
to the network and from there to `async_read`, so the network cuts messages up in every way. `B`
values of a byte stand for 256, and the header has two bytes of them. When and how sessions close is in
`TCPSession`, where bytes are abstracted to messages; here the connection breaks at most once,
which ends the reading. `bytes_wanna_write` sums sizes in an `int`, as `std::accumulate` keeps the type
of its initial value (`narrow`, for an `int` of `IntMax`). What becomes of a batch that no `int` can count
depends on what the sum wraps to: at 0 it is forgotten, below 0 `reserve` throws (unless what waits
already makes up for it), otherwise `async_write` gets a size that is too small when the
batch goes out at once, and the true one when it goes out with the next write. `intact` counts the
messages before the first batch that has lost bytes.

*`NetMessage`.* An object is a record of its members, and a member function a function from
record to record; an action is a call by the application with assertions off. What an
assertion asks of the arguments and of the readable size before a call is the action's guard, since the
caller can see to it; what it asks of the bytes that a call finds is not: `read_string` scans for
a zero, and `read_lenght_and_string` takes as many bytes as the first ones say, over the end of the content and of the
array. `static_data_` of a new object holds any of `Junk`, as the array is not initialised, and
the memory behind an array any of `Behind`. The size of a string is narrowed to `LengthBytes`
bytes (`header_of`). `moved` and `call` are history variables: what the last call wrote, read
or dropped, and which it was. Pointers that alias the object's own storage are not modelled.

## 3. Runs

`NumThreads = 2` is one I/O thread beside the main thread; `Threshold`,
`Modulus` and `SizeMax` stand for 4096, 2^32 and the largest `size_t`. `MaxSend`,
`MaxRecv` and `MaxClose` bound, per connection, the messages sent, the messages
received and the calls of `close()`. `MaxTasks` bounds the functions appended to a pool,
`MaxPosts` and `MaxStops` the functions posted to an I/O thread and the calls of `stop()`,
`MaxBatch` and `MaxSent` the messages of a batch and of a connection, `MaxStorage` the size of
all vectors; `B` stands for 256, `IntMax` for 2^31 - 1, `kDynamicThreshold = 2` for 128, `LengthBytes = 1` for 4. `CHECK_DEADLOCK FALSE` where it is set: a
bounded set of connections or clients really comes to an end. The
`EddyServer` runs with two sessions use symmetry in `Session`, and `net_message` in `Object`;
none of these has fairness.

| Run | Instance | Shows |
|---|---|---|
| `id_generator` | ids 1..7 of 8, threshold 3, 4 held | each id waits or is held; minting stops at 7; `get` never fails nor repeats a held id |
| `server_reuse` | 2 sessions, threshold 1, 1 message sent, 1 `close()` | with an id reused by the next connection, or lost by it: one owner per id, ids name one pair, closing is reported exactly once, a session writes only its own handler's messages, map and loads agree, and the server implements the manager and the generator |
| `server_batches` | 1 session, 2 messages each way, 1 `close()`, keep-alive, fairness | nothing is lost, repeated or reordered between application and socket; one write at a time; closing completes; sockets are freed; messages get through |
| `server_single` | the same on one thread | nothing is lost, repeated or stranded on the direct path |
| `thread_pool` | 2 workers, 2 clients, 3 tasks, one of them empty, fairness | no task is lost, repeated or reordered; `wait_for_idle` returns, and only when all that was appended before has run |
| `io_threads` | 3 threads, 1 function each, 2 calls of `stop()`, fairness | the sessions of a thread that runs and has its work are watched; what is posted to an `io_service` that is not stopped runs |
| `framing` | bytes 0 and 1, so headers up to 3; an `int` up to 6; 5 messages of sizes 1 to 5; 4 sent, up to 3 at a time; fairness | no byte is lost, and messages arrive as sent, until one is too large for its header or a batch for the `int` |
| `net_message` | 2 objects, arrays of 2 bytes, vectors of at most 4 together, 2 bytes behind an array | positions stay in the array in use; room asked for is there; each call does to a buffer what it does to a queue of bytes |
| `least_loaded`, `stale_read`, `thread_join`, `stop_returns` | | violations, section 4 |

Why the bounds are enough to be interesting: reuse of an id needs two connections,
one after the other, and threshold 1, so that the second gets the id of the first while
tasks and completions of the first are still under way. A batch needs two
messages, so that the second finds the batch posted, under way or gone. A
second `close()`, the keep-alive check or the peer's reset meets the first in every order. Two workers
make `min_element` compare, with one of its two loads stale; two clients and two callable
tasks are enough for a list to be filled, emptied and filled again around every place of the
worker and behind the back of a `wait_for_idle`; the third task is the empty one. Three I/O threads
give the loops of `run()` and `stop()` more than one thread beside the main one; the second `stop()` is
the destructor's. With two-valued bytes a header can say 1 to 3, sizes 4 and 5 come out as 0 and 1, so
both ways of losing the frame occur, and a good message precedes or follows them. An `int` from -7 to 6
counts two messages of one byte each or one of up to four; a message of five comes out as -7, and batches of
two and three messages as anything below zero, zero and up to six, so each fate of a batch occurs, alone, behind
another one that waits, and before good ones (1 448 638 states).
`net_message` has a view: the history is left out of a state but for whether the last call
made space, as no step reads it; `MCNetMessage` says why nothing is missed.
Arrays of two bytes are full, half full, compacted and left for a vector within a few calls.
What these bounds do not show: three parties to one id, or a second I/O thread beside reuse.

*Fairness* (`Fairness`). A thread goes on running posted functions. A write completes or
fails: TCP sees to it unless a peer keeps its window closed for ever. The close timer
expires. A read completes only once the socket is closed (asio then aborts it): a
peer may be silent for ever, so nothing is assumed before that. Nothing is assumed of the
application, of new connections or of the keep-alive check. In `ThreadPool`, a
worker goes on when it can (its steps are not disabled again by others while it holds
or does not need the mutex; `WF`), clients get a mutex if it is free again and again
(`SF`), nobody has to call anything, and no wait ends by itself. In `IOServiceThread`, threads go on
where they can, seconds pass, and an `io_service` passes neither a function over for the timer nor
the timer for functions (`WF` of each: both wait in one queue). In `MessageFilter`, handlers
run and the network brings what it has been given; that messages arrive is then part
of `ImplementsMessageStream`, for as long as the connection holds.

Every property of a passing run has a mutant of a mapped definition that breaks it; the
mutants stand before the definition they change.

## 4. Findings

* **`get_min_load_thread` does not get the least load** (`least_loaded`,
  `io_service_thread_manager.cpp:99`). `min_load_value` is never lowered, so every load
  passes the comparison and the last thread is always chosen.
* **A left-over read closes another session** (`stale_read`, `tcp_session.cpp:125`).
  `close()` leaves the outstanding read, whose failure calls `hanlde_close` again. That
  looks up its own id; under reuse it removes and reports a session that is not its own.
* **`join()` may never return** (`thread_join`, `thread_pool.cpp:25`). `finished_` is set
  and signalled without the mutex, between the worker's test and its wait.
* **`stop()` never returns** (`stop_returns`, `io_service_thread.cpp:80`). `stop()` takes only
  `io_work_` away, and waits for the thread to run out of other work; but the keep-alive timer is
  set again each time it expires, and nobody cancels it. Only a `stop()` that comes before the
  timer is first set ends the thread. The destructor calls `stop()` too.

Five more, which follow from definitions of the models but have no run of their own:

* **A late message list goes to another connection** (`tcp_session.cpp:23`). `PackMessageList` can
  run on the I/O thread after `hanlde_close` has posted `on_session_closed`; the list then arrives when
  its id may have a new owner (`SendMessageListToHandler` looks the id up). `InboundConserved`
  therefore speaks only of handlers whose id no other session has had; without that condition the
  instance of `server_reuse` with `MaxRecv = 1` violates it.
* **The close timer's function may find the socket closed** (`tcp_session.cpp:147`;
  `throws`). `cancel()` of the timer does not reach a handler that is already
  queued, and `socket_.cancel()` of a closed socket throws.
* **A failed connection keeps its id** (`io_service_thread_manager.cpp:132`;
  `on_session_connected_throws`). When `remote_endpoint()` throws, the id has been taken and is not put back.
* **A batch of 2 GiB or more is cut off, forgotten or throws** (`message_filter.cpp:26`;
  `bytes_wanna_write`), since the sum of its sizes is an `int`.
* **A second `stop()` throws** (`io_service_thread.cpp:41`; `join_throws`): `thread_` is not reset
  after `join()`, and `std::thread::join` throws for a thread that has been joined.

The properties of `server_reuse` say what nevertheless holds under reuse: every close is
reported once, and on the way *to* the session nothing goes astray, because
`CloseSession` and `SendMessageListToSession` look the id up on the thread that owns it,
behind `init` in the same queue. For a session of the main thread, a batch sent after `close()`
overtakes the one `close()` posts, and a batch whose session is gone stays in its handler; the
properties that this touches (`SentInOrder`, `OutboundConserved`, `NoStrandedBatch`)
say so. They ask for the session's thread, not for `NumThreads = 1`: with I/O threads
`get_min_load_thread` falls back on the main thread when no worker's load is below `SizeMax`, and
such a session has all the hazards of the direct path.

## 5. Proofs

For every value of the constants, from the assumptions named in the modules:

* **`IDGenerator_proofs`** assumes `Capacity`: the range has room for the ids the caller
  may hold and for the threshold. `IInv` adds to `TypeOK`, `IdsConserved` and
  `MintingBounded` that the sets are finite and the caller is within its limit. Counting
  both sides of `IdsConserved` (`Counting`) gives
  `next_ - MinId = |pools_| + |issued|`, hence a mint, which happens with `|pools_| <
  Threshold` and `|issued| < MaxLive`, stays below the bound and cannot wrap
  (`MintingFits`). `IdsConserved` alone is not inductive: without the bound `next_` could wrap
  to 0. Theorems: `Conservation`, `BoundedMinting`, `Availability`, `Freshness`.
* **`EddyServer_proofs`**, part 1, the manager alone, assumes `TypesAssumption`,
  `ManagerAssumption` and `CapacityAssumption` (fewer connections and waiting ids than ids). Its
  `IInv` contains the generator's, instantiated with the ids of the map and the lost ones. That a connecting handler
  finds the generator below its limit needs the map to be one to one (`HandlersIndexed`) and a handler to
  be in the map or to have lost an id, once and not both (`LostAside`), which makes
  the two an injection into the other handlers (`RoomForOneMore`); that its id is free in the map
  is the generator's `GetIsFresh`. Theorems: `ManagerTypeCorrect`, `HandlersAreIndexed`,
  `LoadsMatch`, `ManagerImplementsGenerator`. (`CapacityAssumption` counts all connections that
  are ever made, as a session object is used for one. That the generator lasts for any number of connections,
  as it does when few are open at a time, is `Availability` of `IDGenerator_proofs`, where ids are held and returned for ever.)
* **Part 2, types**, assumes also that `KeepAlive` is Boolean. `ServerTypeOK` is inductive as it
  stands, and the proof has one lemma per function of the code: the function's guards keep its
  counters natural, and what a task carries (`TaskCarries`) has the type its function expects. That
  the thread chosen for a session exists (`ThreadIsChosen`) needs a greatest element of a set of
  threads, which comes from the well-foundedness of `<`. `Steps` flattens `Next` into what the main
  thread runs, what any thread runs, completions and the environment (`MainStep`, `ThreadStep`,
  `CompletionStep`, `EnvironmentStep`); all later proofs go through these. Theorem:
  `ServerTypeCorrect`.
* **Part 3, ids.** `IdsNameOnePair` and `OneOwnerPerId` are far from inductive: that a posted
  `init` finds its place free, and that a posted `on_session_closed` has something to remove, depends
  on all that waits. A connection is carried by one of three things in turn: its posted `init`, its
  entry in a `session_queue_`, its posted `on_session_closed`. The two tasks are *tokens*.
  `IdsInv` says that no token waits twice (`TokensOnce`), what each names (`InitNames`,
  `ClosedNames`), that every handler that answers to an id has one of the three (`Carried`), that a
  session keeps the thread and the id it was given (`Binding`) and has done nothing before `init`
  (`Untouched`); and it contains the manager's `IInv`. From `ClosedNames` the report of a close
  finds its id in the map, so `IInv` is preserved and each step of the server is one of the
  manager's or leaves its variables alone. `OneOwnerPerId` counts the carriers: there is one, and
  only one, as an entry, a posted `init` and a posted `on_session_closed` exclude each other.
  Theorems: `IdsNamePairs`, `IdsHaveOneOwner`, `ServerImplementsManager`,
  `ServerImplementsGenerator`, `ServerIndexesHandlers`, `ServerCountsLoads`.
* **Part 4, sessions.** Each step is described once and for all: by what it does to the queues
  (`Flows`: tasks keep their order, only a head leaves, and a task is posted only with a cause,
  `Caused`), to a session's writes (`Effect`: it rests, opens, closes, writes or has messages posted) and
  to its entry and socket (`Kept`). The invariants follow from the descriptions.
  `ClosedSessionLeaves` and `NoSilentClose` need `OpenInv`: as long as a session has an entry its
  close timer, its left-over read and its socket are untouched, so nothing can close the socket
  without first taking the entry away, which is what posts the report. `NoStrandedBatch` needs
  that a handler's direct task never waits before its session's `init` (`DirectNames`); otherwise it
  would find no session, keep its batch and be gone. Theorems: `SessionsWriteOnce`, `SessionsStayClosed`,
  `ClosedSessionsLeave`, `ClosesAreReported`, `BatchesAreTaken`.
* **`EddyServerMessages_proofs`.** All lists of one kind that wait in a queue are one sequence
  (`transit`), to which a post appends and from which running a head takes the front; all other
  steps leave it alone (`Quiet`). What a step does to the messages of one handler is one of five
  moves from a place to the next (`Moves`: it stays, sends, packs, lands or hands over directly;
  `Receives` for the other direction). So the concatenation of all places is changed only by a
  `send()`, which appends to it, or a read. Outbound, `Ordered` adds that what is on the wire is a
  prefix of what was sent also when the session is no longer writable, and that nothing is posted for
  a session of the main thread before `close()`. Inbound, `ListsHaveSources` says that a list belongs to a session
  that has had the id, which is what the condition of `InboundConserved` excludes for others.
  Theorems: `ServerSendsInOrder`, `ServerConservesOutbound`, `ServerConservesInbound`.
* **`SequenceLemmas`** has the algebra of `FlattenSeq`, which is a recursive function. The induction
  theorems of the library cannot be used, but an induction over `0 .. n` can be done on a set: a set of indices
  that contains 0 and the successor of each of its elements contains all (`UpTo`, by the
  well-foundedness of `<`). It gives the existence of the function that the recursion
  describes (`PartialExists`, `FlattenIs`) and by that its values, among them what it makes of
  a concatenation, a tail and a padding of empty sequences.
* **`MessageFilter_proofs`** assumes `FilterAssumption`: messages that are not empty, of any
  size, over any number of byte values, and an `int` of any width. `FilterInv` is `FilterTypeOK` in
  parts, that exactly what the filter wants is asked for (`Reading`), that nothing waits without a
  write under way (`Writing`), and `Conserved`: what was written begins with the bytes of the
  messages before the first batch that lost some, and is nothing else while there is no such batch. The
  lemmas carry `encoded` of a list over `\o`. `bytes_wanna_write` sums in an `int`; by `WriteLength`
  it is the length of what `write` makes, narrowed once (sums may be narrowed on the way or in the end,
  `Congruent`), so it is never more than that, and just that if an `int` can count it
  (`WriteBound`). That messages arrive as sent is `Aligned`: what has been handed over is what was
  sent, and a header that has been read is the next message's (`Faithful`), or the header of a message
  that does not fit it, or of one behind the loss, has been read (`Misled`). By
  `Conserved` the encodings of the two begin alike, header and body, as long as all sizes before fit.
  Theorems: `FilterTypes`, `FilterConservesBytes`, `FilterImplementsStream` (the safety part of
  `ImplementsMessageStream`).
* **`NetMessage_proofs`** assumes `MessageAssumption` and `BehindAssumption`: an array of any size,
  any data, any width of the length prefix, and any memory behind the array that has a zero
  somewhere and does not end before the longest string does. For each function a lemma says what it
  does to the content: `Keeps` (a change of storage, by `set_dynamic`, `make_space` or a copy),
  `Gains` (a write appends), `Yields` (a read takes from the front) or `Exceeds` (it takes all, and
  bytes from behind). `EnsureKeeps` also gives the room that was asked for. A lemma
  for each call (`...Served`) then finds the step of `ByteQueue` that has the call's name. Only
  `read_string` and `read_lenght_and_string` can exceed the content: the first when no zero is in
  it (`ReadStringServed`), the second when its first bytes say more than there is
  (`ReadLengthAndStringServed`). Theorems: `MessageTypes`, `MessageEnsuresWritable`,
  `MessageIsByteQueue`.
* **`ThreadPool_proofs`** assumes `ThreadAssumption`. `IInv` adds to the properties of the threads what
  a worker knows at each place (`WorkerKnows`): it holds the mutex exactly at the wait, with an empty
  list, and a task that runs is the head of the list. The client's steps are sorted by what
  they can disturb (`ClientMoves`, `SignalPreserves`, `PushBackPreserves`). `IdleMeansDone` needs
  a second invariant, `Due`: of what a waiting client asked for, the threads that it has left have
  run all they had, since by `TasksInOrder` an empty list means that all has run, and
  histories only grow (`HistoriesGrow`). Theorems: `PoolTypeCorrect`, `WakeUpsAreKept`,
  `OrderIsKept`, `IdleIsDone`.
* **`IOServiceThread_proofs`** assumes `IOThreadAssumption`. `TimerIsSet` strengthens
  `KeepAliveIsChecked`: from the first `async_wait` on the timer of a thread that runs its
  `io_service` is set or due, also after `stop()` has taken `io_work_` away. Theorems:
  `IOThreadTypeCorrect`, `KeepAliveGoesOn`.

A few leaves name their prover and a longer time (`SMTT`, `ZenonT`); the others are found by the
prover's defaults with time to spare.

All invariants, action properties and refinements of the passing runs are proved, up to fairness.
Only model-checked is liveness, which is out of the prover's reach as `ENABLED` is:
`CloseCompletes`, `SocketsAreFreed`, `SentIsWritten` and `ReadIsDelivered` of the server,
`IdleReturns` of the pool, `PostedRuns` of the I/O threads, and the fairness conjunct of
`ImplementsMessageStream`. The runs of section 4 refute their properties, so there is nothing to prove.
That `encoded` of `NetMessage` tells all lengths apart is not proved, as no property needs it:
`read_lenght_and_string` reads a number whose encoding is there.

## 6. Not modelled, and the plan

Left for later, in order:

1. `SessionProtocol`: one connection as its application sees it (connected, messages in
   order, closed once), implemented by `EddyServer` without reuse.
2. That `read_lenght_and_string` returns what `write_lenght_and_string` wrote: one length for each
   header (`encoded` is one to one), by an induction of the kind that `SequenceLemmas` has.

Not modelled:

* `TCPClient::async_connect` with I/O threads. It completes on the session's thread and calls the
  manager there, which the main thread also does, unlocked: a data race on a map, a vector
  and a set, where almost any outcome is possible and no property would say much. On one
  thread it is the `connect` of `EddyServer`.
* Filters that applications write, beyond the choices of `TCPSession`; `bytes_transferred`
  is not passed on to a filter that reads `any_bytes`.
* `NetMessage::capacity` and the growth of vectors beyond their size, as nothing depends on them.
* The destructors of `Thread` and `ThreadPool`: one that is not joined ends the process.
* The echo example (an application; `EddyServer` has what any application may do), and logging.
