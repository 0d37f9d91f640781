# grpc_restr: a formal model of the broker

grpc_restr is a message broker in C++: clients speak gRPC over its own HTTP/2
and epoll implementation; a *producer* stream publishes messages under keys
(`a.b.c`), a *consumer* stream subscribes to patterns of keys (`a.*`, `#`), and
the broker copies each message to the matching consumers. `grpc_restr_main.cpp`
has two programs: in `main_single_loop` all threads run one event loop on one
epoll instance, so that any thread may be in any handler; in `main_multi_loop`
every thread has a loop of its own, and the acceptor in the main thread's loop
deals the connections out. Publications cross the threads in both. A build
without `USE_MULTI_ACCEPT` would put the requests into a queue for worker
threads. The repository also has a client that checks an echo server.

This directory holds TLA+ modules of the parts whose correctness depends on
interleavings, on the order of steps or on many cases; the TLC configurations
that check small instances; and proofs, for every value of the constants,
checked with TLAPS. `PROJECT.json` maps each definition to the lines it models.

To check a run: `tlc -config MCRepl.cfg MCRepl.tla`; to check the proofs of a
module: `tlapm ReplProofs.tla`.

## 1. The system

| Component (files) | State | Operations | Talks to |
|---|---|---|---|
| Topic matching (`Match.cc`) | none | `Match`, `Tokens` | called by Repl |
| Replicator (`Repl.h`) | consumers, patterns with their consumers, index of patterns by token, `anyindex_`; a `shared_mutex` | `addConsumer`, `removeConsumer`, `subscribeBatch`, `unsubscribeBatch`, `consume` | calls `Consumer::consume` of the consumer streams, under its lock |
| Consumer and producer streams (`GrpcRestr`) | queue and eventfd of each consumer, sets of streams | `pushData`, `EventConsumer::onEvent`, `onRead`, `onClosed`, `onError`, destructor | Repl, Event, Http2Conn |
| Event (`Event`) | an eventfd (semaphore), armed in epoll | `setEvent`, `stopEvent`, `onEvent` | Loop, delegate |
| Event loop (`Loop`) | epoll, wrappers with a try-lock each, lists of free and of used wrappers | `run`, `addTask`, `modifyTask`, `removeTask`, `connectWrapper`, `disconnectWrapper` | calls `Conn::onEvent` |
| TCP connection (`TcpConn`) | state, interest in IN/OUT, input and output chains | `connect`, `tryConnect`, `onEvent`, `writeSome`, `readSome`, `closeSoon`, `closeNow` | Loop; delegate Http2Conn |
| HTTP/2 connection (`Http2Conn`) | state, streams with state and delegate, HPACK state | `onRead` and one case per frame, `sendHeaders`, `sendData`, `handleError`, `handleClose` | TcpConn; delegates GrpcServ and streams |
| gRPC layer (`GrpcServ`) | `conns_`; partial message of a stream | `gotConn`, `onStream`, `onClosed`, `onError`, `readData`, `writeData` | Http2Conn, provider of streams |
| Acceptor (`TcpAccept`, `GrpcAccept`, `GrpcMultiAccept`) | listening socket and its state; loops that take part, the next one's index | constructor, `onEvent`, `resumeAccept`, `closeNow`, `setServ`, `onAccept` | Loop, GrpcServ |
| Byte chains (`Chain.hpp`) | list of nodes, each a vector with a drained beginning | `readTo`, `fill`, `emplaceBack`, `writeFrom`, `pullupFrom`, `drain`, `clear` | TcpConn, Http2Conn, GrpcServ |
| Bounded queue (`Queue.hpp`) | ring buffer, mutex, two condition variables | `push_back`, `pop_front`, `front`, `back` | GrpcRepl |
| Asynchronous replicator (`GrpcRepl.h`) | workers and a bounded queue | `consumeAsync`, `subscribeBatchAsync`, ... (built without `USE_MULTI_ACCEPT`) | Repl |
| Echo client (`tcp_echo_client.cpp`) | pool of checkers, counts of results | `EchoMgr::run`, `onCheckerDone`, callbacks of a checker | TcpConn, Loop |
| Timer, Async, Log, hash functions, `concurrentqueue.h`, the echo server, GrpcDefault's example | - | - | not part of the broker's logic |

### What is hard

* **Interleaving.** Publications walk lists of patterns while others subscribe
  and leave; a push to a stream races with the stream's end; a handler needs
  the locks of two wrappers and gives up if the second is taken, and finds the
  second through a stream that may end meanwhile; workers sleep on two condition
  variables and may overtake each other; `conns_` is changed without a lock.
* **Order.** Lowering the eventfd and taking the queue are two steps; a frame
  is put into the output and the interest in OUT announced separately;
  `closeSoon` may close at once, which destroys the caller.
* **Failure.** The peer resets, goes away, or sends any frame at any time,
  while output is pending or being flushed.
* **Stale state.** Events taken from epoll before a state changed, or pointing
  to a wrapper that another connection has by now; pointers of patterns in the
  index; delegates of closed streams; requests in a queue whose stream has ended.

### What makes each part correct

* Topic: a pattern matches exactly the keys the protocol file says, and is
  filed under tokens that every matching key has.
* Repl: its tables agree with each other; a publication touches no deleted
  object, delivers once per subscription, and every operation is atomic.
* Delivery: no wakeup is lost, a connection has one user at a time, order is
  kept, what is queued is written, nothing is pushed to a destroyed stream.
* Connection: output is announced, a stream that is served can be written to,
  a connection being flushed ends, services end with their connection, and a
  destroyed connection is not used.
* Framing: however frames cut a stream, each request is handled once, in order.
* Chain: a plain sequence of bytes, wherever its nodes begin and end.
* Queue: a bounded first-in first-out queue in which nobody sleeps beside work.
* Loop and acceptor: an event is handled on an object that lives, by one thread;
  a registry that no two threads change at once knows the connections that live;
  loops get equal shares; what waits is accepted.
* Workers: a stream gets the subscriptions it asked for last unless one worker
  overtakes another, and none after its end.
* Client: each checker is counted once and the pool is kept full.

The full list of hazards, each with its line and the properties that cover it
or the reason none does, is in `PROJECT.json`.

## 2. Modules

| Module | Models | State and actions |
|---|---|---|
| `Topic` | `Match.cc` | A topic is a sequence of words, `Star` and `HashMark`. `Match` (with `MatchFrom`, a recursive *function* over suffixes, so that it can be used in proofs) follows the code's case analysis; `Tokens` the token loop; `RefMatches` is the meaning written in `rtkmb.proto`. |
| `MCTopic` | - | All pairs of a key and a pattern up to a bound, and what is to hold of them. |
| `MCRepl` | - | Keys and patterns of the runs of `Repl`; extends `MCTopic` too: a behaviour begins with any pair and puts it aside before the replicator moves, so that one run checks both. |
| `Repl` | `Repl.h` | The tables as sets and functions; `op[t]` is the operation thread t is in and stands for the lock. A batch takes a step per pattern, a removal a step per pattern of the consumer, a publication a step per candidate. |
| `PubSub` | abstract | Consumers, a relation, publications at an instant. |
| `ReplProofs` | - | Proofs of what the matcher and the tokenizer compute, of Repl's invariants, and that Repl implements PubSub. |
| `Delivery` | `GrpcRestr`'s event path, `Event`, try-locks of `Loop.hpp` | `pc[t]` follows a thread through `pushData`, the event handler (lock the event's wrapper, look up the connection's lock through the stream, try it, `stopEvent`, splice, write, unlock) and the connection's handler, which may close a stream. A stream that is gone when the handler uses it ends in `crashed`. |
| `DeliveryProofs` | - | Proofs of its invariants. |
| `BoundedQueue` | `Queue.hpp` | The vector that grows to `limit_` and then wraps; calls with `asleep`/`slept` (`need_notify`); `Spurious` wakeups. |
| `Fifo` | abstract | A bounded sequence. |
| `BoundedQueueProofs` | - | Invariants and refinement of Fifo. |
| `Connection` | `TcpConn`, `Http2Conn`, the stream and connection callbacks of `GrpcServ` and `GrpcRestrProvider` | `tcp`, `taskset`, `output` are TcpConn's; `http`, `stream`, `dlgt` Http2Conn's; `exists` is the entry in `conns_`; `held` are events threads have taken; `pc` is the handler in progress (read, then write). One action per outcome of recv, per type of frame and per outcome of writev. |
| `Session` | abstract | Phase of a connection and the set of streams it serves. |
| `ConnectionProofs` | - | Invariants and refinement of Session. |
| `Framing` | `GrpcStream::readData` and the loops of both `onRead`s that call it | Bytes are positions in the stream: `wire` says where messages begin, how long they are and whether they parse; `received`, `drained` and `lpmSize` are `lpm_` and `lpm_size_`. `OnRead` adds a frame of any length; then one action per outcome of `readData`. |
| `MCFraming` | - | Enumerates streams of three messages. |
| `Chain` | `Chain.hpp` without the writing side of `StreamBuf` | `nodes` are the vectors with their drained beginnings, `size` is `size_`; one action per operation, `PullupFrom` with its two cases. `lo` and `hi` say which bytes should be there. `sbuf` is a stream buffer on the chain: `OpenStream`, `Underflow` (drains the node before and gets the next), `StreamRead`, `CloseStream`. The loops of `drain` and `pullupFrom` are recursive functions of the number of turns. |
| `ByteStreamProofs` | - | Proofs about Chain and about Framing. |
| `Wrappers` | the two `TAILQ`s of `Loop.cpp` | Pointers of the list macros: a wrapper has one link field for both lists, so `AfterReturn` (`disconnectWrapper`, which inserts before it removes) leaves what the macros leave. |
| `Server` | `Loop`, `TcpAccept`, `GrpcAccept`, `GrpcMultiAccept`, `GrpcServ::conns_`, both main functions | `program` is the program that runs; `conn` and `wrapper` point from wrappers to objects and back, `lock` is the try-lock, `event` the event a thread holds. A change of `conns_` begins and ends in two steps (`GotConn`, `Emplaced`; `OnClosed`, `Erased`); a table that two threads have changed at once is `raced`, and from then on a change may do anything to it. A connection's handler is reduced to what counts here: it goes on, begins to flush, or ends and is deleted. |
| `MCServer` | - | The programs that are checked. |
| `ServerProofs` | - | Proofs about the lists, the wrappers, the registry and the round robin. |
| `Workers` | `GrpcRepl.h` and its callers in `GrpcRestr` | Requests of streams on their way: about to be pushed, in `bbq_`, held by a worker, applied. `overtaken` are the streams of which a worker applied a request while another one had an older. |
| `WorkersProofs` | - | Proofs of its invariants. |
| `Client` | `tcp_echo_client.cpp` with `connect`, `tryConnect`, `onEvent` of `TcpConn.cpp` | One thread: a step is a part of a handler between two choices of the kernel or the peer. `Create` and `Refilled` are the loop of `onCheckerDone`, `Connect` the outcomes of `::connect` for an address, `Handle` those of recv and writev. |
| `MCClient` | - | The command lines that are checked. |
| `ClientProofs` | - | Proofs of Client's invariants. |

How they compose: `Repl.consume` calls `pushData` of the consumers under its
shared lock, which is `Delivery.BeginPush`; `Delivery.WriteData` is
`Connection.Push`; a stream's delegate leaving `Connection.dlgt` is
`Delivery.CloseStream`, which calls `Repl.removeConsumer` - it waits for the
replicator's lock, which `Delivery.NobodyPushes` models; `Connection.Data` is
`Framing.OnRead`, whose `handled` requests are Repl's batches and publications;
Framing takes `lpm_` for a sequence of bytes, which `Chain` shows to hold as
long as a message fits into the node it begins in (deviation 2). `Server` and
`Client` EXTEND `Wrappers`; the handlers of `Server`'s connections stand for
those of `Connection`, whose events `Server` delivers. `Workers` takes the queue
for a Fifo, which `BoundedQueue` implements, and a call of the replicator for an
instant of PubSub, which `Repl` implements.

Definitions marked `\* faulty` are plausible mistakes in the code next to the
definition they replace; `PROJECT.json` names, for each property, one with
which TLC finds it violated.

## 3. Runs

| Run | Instance | What it shows |
|---|---|---|
| `repl` (`MCRepl.cfg`) | 3 threads, 2 consumers, 2 keys, 4 patterns, batches of up to 2; the matcher on all keys of up to 3 and patterns of up to 4 words over 2 letters | Tables agree (`TablesAgree`), publications are safe (`ConsumeTouchesLiveObjects`), at most once per subscription, at least to those matching subscriptions that the index finds whichever token it settles on (`SureDelivery`: the key itself, patterns of wildcards only, and patterns with all words of the key), and every operation is atomic (`ImplementsPubSub`). `MatchComplete`: nothing is missed; `MatchSoundNoStarAfterHash`: nothing extra is matched unless a `*` follows a `#`; `TokensServeIndex`: what the index relies on. |
| `repl_delivery` | 2 threads, 3 patterns | *Violated*: finding 1. |
| `delivery` (`MCDelivery.cfg`) | 3 threads, 2 streams of which one may be closed, 2 messages each, 2 events of the connection | `NoLostWakeup`, `OneUserOfConn`, `DeliveredInOrder`; `PushTargetAlive`: a push works on a stream that exists; `AllDelivered`: what is queued for the stream that stays open is written although handlers give up. |
| `queue` (`MCBoundedQueue.cfg`) | 3 threads, limit 2, 2 values | `NoLostWakeup`, `ImplementsFifo`; `NobodyForgotten`: who sleeps though it could go on is woken, unless others take what it waits for. |
| `connection` (`MCConnection.cfg`) | 2 streams, 2 threads, any frames | `OutputAnnounced`, `ServedWritable`, `FlushEnds`, `ImplementsSession`. |
| `connection_end` | same | *Violated*: finding 2. |
| `framing` (`MCFraming.cfg`) | all streams of 3 messages of 0 to 2 bytes, prefix of 2, good or malformed, both kinds of stream | `InStep`, `HandledInOrder`, `NothingLeftBehind`, `MessagesReconstructed`, until a producer has overrun. |
| `chain` (`MCChain.cfg`) | nodes of 2 bytes, requests of up to 3, 4 bytes written | `ContentKept`, `PulledUp`, as long as case 1 of `pullupFrom` was not taken; `StreamInOrder`: a stream on the chain reads each byte once and in order, and when it is gone so is what it read. |
| `server` (`MCServer.cfg`) | 2 threads on one loop and 3 connections, or a listening and 2 serving threads and 2 connections; 4 wrappers | `HandlersSafe`, `SharedOnlyAfterAnEnd`, `RegistryExact` (of a table until it is raced), `RoundRobin`, `AcceptorServes`. |
| `server_wrappers` | one thread, 3 connections | *Violated*: finding 3. |
| `workers` (`MCWorkers.cfg`) | 2 handlers, 1 or 2 workers, 2 streams, 1 pattern, queue of 2, 4 requests | `SettledInOrder` (of a stream that was not overtaken), `DeadServedOnlyIfLate`, `RequestsApplied`. |
| `client` (`MCClient.cfg`) | pool 1 of total 2 and pool 2 of total 3, 1 address, chains of 1 unit, 3 wrappers | `AccountsBalance`, `PoolFull`, `OutputWatched`. |

Every type invariant is proved; those of `Chain` and `Client` are checked by their
runs as well, the others were before they were proved.

**Bounds and why they are enough.** Matching treats a pattern from left to
right and its cases look at most at a wildcard, the word behind it and the end
of the key; four words hold every combination of two wildcards with words
before, or between, or behind them (and what the run shows of the matcher is
proved for all lengths). In Repl two writers beside a reader are the
most that can matter at once under one lock, two consumers show a pattern that
survives one of them, and the patterns share tokens and include one without
tokens. In Delivery a third thread is the one that pushes while two handlers
compete; two messages let one be queued while the other is in a batch or written.
The queue wraps with limit 2, and of three threads one sleeps, one is woken and
one is faster. A connection's handlers exclude each other, so two threads are
enough for an event that is handled late; two streams are enough for a stream
that outlives another. Three messages let one be handled, one be at the front
and one be behind it when a frame ends; a prefix of two bytes can be cut and two
bytes of body as well. What is read where no prefix starts may be any length in
`Garbage`. In Chain a request can be smaller than a node, as large, and larger,
and four bytes lie in up to four nodes. In Server the third connection is the
one that gets the wrapper of the second after the first has ended (with finding
3, two connections are too few); two serving loops are enough to be dealt to in
turn and to come late; the fourth wrapper is the acceptor's. In Workers two
streams share the queue, two handlers fill it and wait, and four requests are an
ADD, a SUB, a USUB and one of another stream. In Client a pool of two with a
total of three has a checker end inside of the creation of another and the last
ones end when no more are made. The counters bounded by a constant (`MaxPush`,
`MaxConnEvents`, `MaxBatch`, `MaxAsk`, `MaxBytes`, `MaxConns`, `MaxRequests`,
`MaxCheckers`, and `Wrapper` as the wrappers there may be) are bounds of the
model, not of the code. Symmetry is used only in the runs of Repl, which have no
liveness property. Deadlock is checked for Repl and BoundedQueue; the other
systems may stop: the messages of Delivery, the bytes of Framing and Chain and
the requests of Workers are finitely many, a connection ends, the server stops
with a fault or when nobody comes any more, and the client when all is done.

**Fairness.**
* `Delivery`: a thread inside a handler goes on (the scheduler), and a readable
  eventfd is reported to some thread again and again as long as it is readable
  (epoll is level-triggered, and every thread returns to `epoll_wait`). No
  fairness is assumed of pushes, of the peer or of getting a lock.
* `BoundedQueue`: a thread that is awake and inside a call goes on. Nobody has
  to make a call, and a woken thread may find that others were faster.
* `Connection`: threads get and handle events and a handler goes on. The peer
  has to send nothing. One assumption is about the peer and the kernel, not
  about the code: a peer that is written to infinitely often takes everything
  in the end or is reported dead. The code has no timeout of its own: a peer
  that keeps the TCP connection alive and never reads can delay the end of a
  flush for ever, and `FlushEnds` says nothing of it.
* `Server`: a thread that holds an event or is in a handler goes on, and a
  listening socket on which somebody waits is reported to some thread in the end
  if threads keep coming to `epoll_wait` (strong fairness: other events may be
  reported first, but the kernel's ready list is taken in turn).
* `Workers`: a worker that has a request applies it (weak fairness). Pushing and
  taking are strongly fair: a thread that waits for the queue is woken, as
  `NobodyForgotten` shows of the queue, and gets its turn when others come and go.

## 4. Findings

Each of these is the counterexample of a run.

1. `DeliveryComplete` (`Repl.h:271`): `consume` looks only at the list of the
   token with the fewest patterns; a pattern with wildcards that is not filed
   under that token is missed. `PubSub` therefore promises delivery only for
   matching patterns that are found by any token of the key, or kept apart for
   having none (`FoundByAnyToken`), and this weaker promise holds and is proved.
2. `NeverUsedAfterEnd` (`TcpConn.cpp:8`): the `ERROR` macro reports the error,
   whereupon the owner deletes the connection, and then calls `closeNow()` on
   it. The same happens in `handleClose` (`Http2Conn.cpp:642`) when there is
   nothing to flush, and between the IN and the OUT part of `onEvent`
   (`TcpConn.cpp:374`).
3. `ReadsWhileConnected` (`Loop.cpp:104`): `disconnectWrapper` inserts a wrapper
   into the free list before it removes it from the used one, with one link
   field for both. Afterwards a wrapper in use can be first in the free list,
   two connections share it, and events of the older reach the newer: in the run,
   with a single thread, an event with IN reaches a connection that is flushing,
   where `assert(state_ == State::CONNECTED)` (`TcpConn.cpp:325`) fails.
   `SharedOnlyAfterAnEnd` is proved: before the first end it cannot happen.

### Deviations without a run

What else the models show of the code. Numbers 1 to 3 are where a property has
to be restricted: TLC refutes `MatchSoundNoStarAfterHash` and `SettledInOrder`
without their premises, and `PulledUpWhole`, the unrestricted form of `PulledUp`.

1. `MatchSoundNoStarAfterHash` without `NoStarAfterHash` (`Match.cc:13`): at the end of the key a `*` behind a `#` matches without a
   word (pattern `b.#.*` and key `b`), though `rtkmb.proto:20` says "exactly one
   word".
2. `PulledUpWhole` (`Chain`; `Chain.hpp:124`): a request that does not fit into
   the front node (a message longer than a page that came in several frames)
   makes `pullupFrom` return an empty buffer and lose the bytes, because `drain`
   has counted the size it uses down to zero. The properties of `chain` are
   about a chain until that happens (`merged`).
3. `SettledInOrder` of streams that were overtaken (`GrpcRepl.h:17`): the last SUB
   and USUB of a stream may be in the hands of two workers and be applied in the
   other order. The property and its theorem, for any number of workers, show that
   this is the only way in which the order is lost: the queue, and handlers that
   wait in front of it, keep it.
4. `crashed` of Delivery (`GrpcRestr.cpp:224`): a consumer stream is destroyed
   while another thread is inside its event handler, either before the handler
   looks up the connection's lock through the stream or between that and the
   `test_and_set` (`:225`). The lock belongs to a wrapper, which is never deleted,
   so in the second case it is taken, and `stopEvent` (`:231`) and what follows
   work on a destroyed stream with the lock held. What happens then is not
   followed; `AllDelivered` is about runs in which it has not happened.
5. `overrun` of Framing (`GrpcRestr.cpp:80`): a producer's stream parses all
   that is buffered instead of the message it was given; if anything follows the
   message, all of it is dropped and the stream is read out of step. On a
   consumer's stream it never happens.
6. `fault` of Connection: an event with IN taken before the interest was
   withdrawn meets a connection being flushed (`TcpConn.cpp:325`), and frames
   behind a GOAWAY are answered on one (`TcpConn.cpp:128`, `:166`).
7. `fault` of Server: `"acceptor"`, an event for a listening socket that was
   paused or closed meanwhile (`TcpAccept.cpp:77`; `closeNow` leaves its wrapper
   connected, the guard at `:126` is inverted); `"wild"`, a socket that could not
   be bound is removed from a wrapper it never got; `"registry"`, a connection's
   end is handled by another thread before `gotConn` (`GrpcServ.cpp:10`);
   `"race"`, two threads have changed a `conns_` at once (`GrpcServ.cpp:21`, `:38`,
   `:43`): all threads of `main_single_loop`, or in `main_multi_loop` the acceptor
   and the thread of the loop, insert into and erase from an `unordered_map`
   without a lock. What a raced table holds is not followed: a change of it may
   end the process or go on, and `RegistryExact` says nothing of that table any more.
   That a corrupted table could damage anything else is outside of the model.
   `AcceptForNobody`: a descriptor accepted before any loop takes part is never
   closed (`GrpcMultiAccept.cpp:11`).
8. `late` of Workers (`GrpcRepl.h:36`): an ADD that is applied after its stream
   has ended makes the deleted stream a consumer again.
9. `fault` and `leaked` of Client: a connect that succeeds at once uses a
   wrapper that was never set (`"wild"`); `tryConnect` leaves the descriptor of
   the attempt before in epoll, whose event meets an assertion or a deleted
   checker; `onEvent` looks at a checker that `onRead` has deleted
   (`"deleted"`); `onError` connects again from within `tryConnect`, which then
   closes the new descriptor; a checker for which no address is left stays in
   the pool without a descriptor.
10. `GrpcRestr.hpp:86` calls `addConsumerEvent`, which no class has: the build
    without `USE_MULTI_ACCEPT` does not compile. Workers takes it for
    `addConsumerAsync`.

After a fault nothing happens in a model: the properties are about what
happens up to it.

## 5. Proofs

| Module | Theorems | Argument |
|---|---|---|
| `ReplProofs`, topics | `MatchFindsAll`, `MatchFindsNoMore`, `TokensOfPatternInKey`, `KeyMatchesItself`; for the pairs of the run `NoMatchMissed`, `NoMatchTooMany`, `TokensAlwaysServeIndex` | By induction on how much of the key and of the pattern is left. The meaning of a pattern (`RefMatches`, a cut of the key into one segment per word) is taken for the rests of both: a cut of the rest begins with the segment of the first word, which is what the case analysis of `Match` decides. For soundness the answer is not believed at a `*` with the key used up, which a `#` before it is needed to reach; that no `*` follows a `#` excludes it. |
| `ReplProofs`, tables | `TypeCorrect`, `WriterAloneAlways`, `LinksAlwaysAgree`, `NoPatternLeak`, `IndexAlwaysExact`, `TablesAlwaysAgree`, `ConsumeSafe`, `NoDoubleDelivery`, `SureAlwaysDelivered`, `ExactKeyDelivered` | Inductive invariant `IInv`: types, a writer is alone, the links agree up to what a removal in progress has done, patterns exist exactly while subscribed, the index is exact, and `ReaderInv`, which says of a publication in progress that its candidates are live and unsent and that every pattern that surely gets the message is a candidate or has been sent to. `ReaderInv` is what the safety of `consume` needs and the tables alone do not give. Of topics only the theorems above are used. |
| `ReplProofs`, refinement | `ReplImplementsPubSub` | A writer is mapped to the state as if it were done, a publication to its last step; one lemma per action. |
| `DeliveryProofs` | `DeliveryTypeCorrect`, `WakeupNeverLost`, `ConnectionExclusive`, `PushSafe`, `OrderKept` | `DInv`: types, who holds which lock at which `pc`, targets of pushes are alive because a removal waits for publications, and while messages are queued the eventfd is readable or somebody is about to settle it. |
| `BoundedQueueProofs` | `QueueTypeCorrect`, `RingShapeAlways`, `NoWakeupLost`, `QueueImplementsFifo` | The shape of the ring while it grows and when it is full, and a count of woken threads against items and free slots. |
| `ConnectionProofs` | `ConnectionTypeOK`, `OutputIsAnnounced`, `ServedIsWritable`, `ConnectionImplementsSession` | `CInv`: besides the properties themselves, the entry in `conns_` lives exactly as long as the socket is open (`OwnedWhileOpen`), nothing is served on a connection that closes (`ServedWhileConnected`), only the 404 answer ends our side of a stream (`LocalEndIs404`: without it trailers could give a half-closed stream a service), and a session closed by GOAWAY has left the connected state (`ClosedNotConnected`: it makes a second GOAWAY harmless). |
| `ByteStreamProofs`, chain | `ChainTypeCorrect`, `ContentAlwaysKept`, `AlwaysPulledUp`, `StreamAlwaysInOrder` | `ChainInv`. `Holds(ns, a, b)` says that nodes hold the bytes a+1 .. b by naming, for each node, the place where its bytes begin; one turn of `drain`'s loop (`DrainFront`) moves a, one of `pullupFrom`'s (`PullNext`) moves a boundary between two nodes, and induction on the turns gives the loops: `drain` takes as many bytes as there are, and `pullupFrom` ends with what was asked for in front, because a turn removes a node or fills the front one up. Of `StreamBuf` the invariant needs that what was read and not yet drained lies in the front node, and that nothing is left in the chain at its end (`Streaming`). `BytesHeld` also holds behind case 1: what is left are the last bytes, and fewer than `size_` says. |
| `ByteStreamProofs`, framing | `FramingTypeCorrect`, `AlwaysInStep`, `ConsumerRequestsInOrder`, `NothingLeftUnexplained`, `WholeMessagesHandled` | `FInv`: besides the properties, a further call of `readData` begins with `lpm_size_` zero (so that it drops nothing twice), it is made only behind a good message, a consumer's stream never overruns, and no more is received than was sent. Being in step makes the length that is read the length of the message at the front; from that each outcome of `readData` follows. A whole good message not handled would be at the front or behind it, and the message before the front not good. |
| `ServerProofs` | `ServerTypeCorrect`, `HandlersAlwaysSafe`, `WrappersPointBack`, `EventsReachTheirObject`, `RegistryExactUntilRaced`, `DealtFairly` | Lemmas about the list macros: although a wrapper may end up on both lists, pointers lead only to wrappers that were made (`Good`), and until something is given back every wrapper taken is new (`Unreturned`). `SInv`: an object has one wrapper while it lives, wrappers point to objects that know them, and a thread inside a handler has locked the wrapper its event names (`InHandler`) - which is the wrapper of the object it works on even when a second object was given the same one. The registry (`RegInv`) needs that threads that enter connections, and threads that erase some, do so for different ones (`Come`), that a connection being entered is not in the table yet, and that every table not raced is exact; a change by one thread is followed while others change other tables. The round robin needs that the loops in a window that ends at `idx_` have one connection more than the others (`EvenFrom`). |
| `WorkersProofs` | `WorkersTypeCorrect`, `DeadStaysDead`, `SettledUnlessOvertaken` | Order (`OrderInv`): requests of a stream lie in the queue in the order they were made, the one being pushed is its last, those that workers hold came before, each held by one worker. Of a stream that was not overtaken the applied requests are therefore its oldest, and its subscriptions are what these say (`InOrder`). |
| `ClientProofs` | `TypeCorrect`, `AccountsAlwaysBalance`, `PoolAlwaysFull`, `OutputAlwaysWatched` | `IInv`: checkers are numbered in the order they are made, so that those in the pool and those that ended are together the first ones (`CheckersInOrder`) and `Needed` is about their number; the checker a handler works on is in the pool with an open descriptor (`AtWork`), without which it could be counted twice; the pool is full also between the parts of a handler (`FullAtWork`); who has a descriptor has a wrapper that was made (`WrappersMade`, `StatesAgree`), although the lists of wrappers may be tangled (finding 3). |

The proofs assume the named assumptions on the constants in the modules, all of
which TLC evaluates in the runs: bounds are naturals, `Limit` and `BlockSize` are
positive, a pool and a total are not zero, the sets of threads (queue), of
streams and of workers are finite, model values are not members of the sets they
are added to, keys are sequences of words and patterns of words and wildcards
(`TopicsAssumption`), the prefix is not empty and the positions in a wire fit the
sizes of its messages (`FramingAssumption`).

The induction theorems of the library cannot be used (they take an operator), so
`ReplProofs` and `ByteStreamProofs` derive a rule for sets of numbers
(`Induction`) from the fact that `<` is well-founded on the naturals. It serves
for statements of first order, which these are. Before they were proved, the
inductive invariants of Client and Chain were checked as invariants of their runs.

The theorems about topics are about `Match` and `Tokens` on words, where the code
works on characters; those about Chain are, like its properties, about a chain
until case 1 of `pullupFrom` is taken.

Only model-checked: liveness under fairness (`AllDelivered`, `NobodyForgotten`,
`FlushEnds`, `AcceptorServes`, `RequestsApplied`). Every other property of the
passing runs is a theorem. The findings are counterexamples, which need no proof.

## 6. What is not modelled

* Bytes: contents of messages and headers, HPACK, padding, the preface. In
  `Connection` frames are their kind and flags, output is the kinds of frames
  waiting in it, and stream 0 carries control frames only. A producer and a
  consumer are one kind of delegate; `Push` is allowed for both. Values of
  headers are not read by anybody behind `checkHeaders`.
* The writing side of `Chain::StreamBuf`, which has no caller (its destructor
  fills up the node with the part that was not written, `Chain.hpp:192`).
* Failures of `epoll_ctl`, `eventfd`, of the HPACK deflater and of memory;
  `Event::closeNow` closes its descriptor before it calls `removeTask`
  (`Event.cpp:31`), so that `epoll_ctl` fails there every time.
* Memory order: the try-locks are relaxed atomics, the models are sequentially
  consistent. `Loop::events_`, which all threads share, is one set of pending
  events per thread in the models.
* Collisions of the 64-bit hashes of patterns and tokens.
* `ParseFromIstream` reads in blocks of 8192 bytes; Framing takes what is
  buffered to be one block.
* `readStop`, `directWrite`, `resumeAccept`, `disableEvent` and the request RM:
  nobody calls or makes them.
* The data race of several threads in `setServ` at once, and of `setServ` with
  `onAccept`: Server takes them one after the other.
* The data race on `producers_` and `consumers_` of `GrpcRestrProvider`
  (`GrpcRestr.cpp:16`, `:22`, `:39`, `:45`), sets without a lock that all threads
  of `main_single_loop` change: the same as that on `conns_`, which is modelled.
* In `Delivery` the connection outlives its streams' event handlers. When it ends,
  `wrapper()` of `GrpcRestr.cpp:224` is null, or is the wrapper of another
  connection by the time its lock is tried.
* `front` and `back` of the queue are part of `BoundedQueue`, as operations of
  the class; nobody in the repository calls them.
* Counters that only profile (`checkCnt` and its kin).
* Timers, Async, logging, hash functions, the vendored lock-free queue, the echo
  server, the test program and the example stream: no logic of the broker, or
  not part of a program.

## 7. Plan

Done, in this order: Topic; Repl with PubSub and its proofs; Delivery; Fifo and
BoundedQueue; Session and Connection; Framing and Chain with the stream on it;
Wrappers and Server with their proofs; Workers with its proofs; Client; proofs
of the matcher, of Client and of Chain.

Next:
1. Lemmas that liveness rests on, where they are safety: who waits has somebody
   that can go on (Server's try-locks, the queue of Workers), as invariants.
2. `Broker`: PubSub, Framing, Delivery and Session composed; a message published
   is written to the connection or its stream has ended. Worth proving of it:
   deliveries come from subscriptions that existed when the key was published.
3. `Connection` with values of headers, for the CONTINUATION frames that are
   parsed again (`Http2Conn.cpp:543`).
