------------------------------- MODULE Delivery -------------------------------
(***************************************************************************)
(* How a message gets from the thread that publishes it to the connection  *)
(* of a consumer: GrpcRestr.cpp (pushData, EventConsumer::onEvent), over   *)
(* Event.cpp (an eventfd with EFD_SEMAPHORE) and the try-locks of the      *)
(* wrappers in Loop.hpp.                                                   *)
(*                                                                         *)
(* Every thread of the server runs the same loop over the same epoll       *)
(* instance, so any thread may be in any handler.  The module has one      *)
(* connection with several consumer streams; publications come from        *)
(* handlers of other connections or of this one.  Nothing in a handler     *)
(* waits for a wrapper's lock: a handler that finds it taken returns, and  *)
(* level-triggered epoll reports the descriptor again.                     *)
(*                                                                         *)
(* A message to a consumer is known by its place in the order in which     *)
(* messages entered the consumer's queue.                                  *)
(***************************************************************************)
EXTENDS Integers, Sequences, FiniteSets

CONSTANTS
    Threads,
    Consumers,      \* consumer streams of the connection
    Closable,       \* the streams the peer may close
    NoThread,       \* a lock nobody holds
    MaxPush,        \* bound: messages pushed to one consumer
    MaxConnEvents   \* bound: events of the connection that are handled

ASSUME DeliveryAssumption ==
    /\ NoThread \notin Threads
    /\ Closable \subseteq Consumers
    /\ MaxPush \in Nat
    /\ MaxConnEvents \in Nat

VARIABLES
    pc,         \* pc[t]: where thread t is
    at,         \* at[t]: the consumer thread t is concerned with
    connLock,   \* holder of the connection's wrapper lock
    evLock,     \* evLock[c]: holder of the lock of the event's wrapper
    queue,      \* queue[c]: EventConsumer::queue_
    counter,    \* counter[c]: the value of the eventfd
    batch,      \* batch[t]: the local list l of onEvent
    out,        \* out[c]: messages written to the connection for c
    pushed,     \* pushed[c]: messages that entered the queue of c so far
    alive,      \* alive[c]: the stream object exists and is in Repl
    connEvents, \* events of the connection handled so far
    crashed     \* the process has used a destroyed object

locks == <<connLock, evLock>>
data  == <<queue, counter, batch, out, pushed>>
life  == <<alive, connEvents, crashed>>
vars  == <<pc, at, locks, data, life>>

PC == {"idle",    \* in epoll_wait, or between handlers
       "got",     \* holds an event of the eventfd, wrapper not yet locked
       "event",   \* in onEvent, event's wrapper locked
       "try",     \* knows where the connection's lock is
       "stop",    \* connection locked too, before stopEvent
       "splice",  \* before the queue is taken
       "write",   \* writing the batch
       "unlock",  \* connection unlocked, event's wrapper not yet
       "conn",    \* in the connection's own handler
       "enq",     \* in pushData, before the message is queued
       "set"}     \* in pushData, before setEvent

(* An Event is made with its eventfd at zero.                              *)
NewEvent == 0

Init ==
    /\ pc = [t \in Threads |-> "idle"]
    /\ at \in [Threads -> Consumers]
    /\ connLock = NoThread
    /\ evLock = [c \in Consumers |-> NoThread]
    /\ queue = [c \in Consumers |-> << >>]
    /\ counter = [c \in Consumers |-> NewEvent]
    /\ batch = [t \in Threads |-> << >>]
    /\ out = [c \in Consumers |-> << >>]
    /\ pushed = [c \in Consumers |-> 0]
    /\ alive = [c \in Consumers |-> TRUE]
    /\ connEvents = 0
    /\ crashed = FALSE

Goto(t, label) == pc' = [pc EXCEPT ![t] = label]

-----------------------------------------------------------------------------
(***************************************************************************)
(* Publishing.  The thread is inside of Repl::consume and holds rwmtx_     *)
(* shared while it is in pushData.                                         *)
(***************************************************************************)
BeginPush(t, c) ==
    /\ pc[t] \in {"idle", "conn"}
    /\ alive[c]
    /\ pushed[c] + Cardinality({u \in Threads : pc[u] = "enq" /\ at[u] = c})
         < MaxPush
    /\ Goto(t, "enq")
    /\ at' = [at EXCEPT ![t] = c]
    /\ UNCHANGED <<locks, data, life>>

QueuedFront(q, m) == <<m>> \o q    \* faulty

Queued(q, m) == Append(q, m)

Enqueue(t) ==
    LET c == at[t] IN
    /\ pc[t] = "enq"
    /\ queue' = [queue EXCEPT ![c] = Queued(@, pushed[c] + 1)]
    /\ pushed' = [pushed EXCEPT ![c] = @ + 1]
    /\ Goto(t, "set")
    /\ UNCHANGED <<at, locks, counter, batch, out, life>>

(* setEvent; then back to the handler of the producer.                     *)
SetEvent(t) ==
    /\ pc[t] = "set"
    /\ counter' = [counter EXCEPT ![at[t]] = @ + 1]
    /\ Goto(t, IF connLock = t THEN "conn" ELSE "idle")
    /\ UNCHANGED <<at, locks, queue, batch, out, pushed, life>>

-----------------------------------------------------------------------------
(***************************************************************************)
(* The event's handler.                                                    *)
(***************************************************************************)

(* Loop::run: epoll reports a readable eventfd, to as many threads as ask. *)
(* An event read from the shared array events_ may have been put there for *)
(* another thread; that is one more thread holding the same event.         *)
EpollWait(t, c) ==
    /\ pc[t] = "idle"
    /\ alive[c] /\ counter[c] > 0
    /\ Goto(t, "got")
    /\ at' = [at EXCEPT ![t] = c]
    /\ UNCHANGED <<locks, data, life>>

(* Event::onEvent hands the event on to the EventConsumer.                 *)
OnEvent(t) == Goto(t, "event")

(* Wrapper::onEvent.  The wrapper of a destroyed event has no connection.  *)
EnterEvent(t) ==
    LET c == at[t] IN
    /\ pc[t] = "got"
    /\ IF evLock[c] = NoThread /\ alive[c]
       THEN OnEvent(t) /\ evLock' = [evLock EXCEPT ![c] = t]
       ELSE Goto(t, "idle") /\ UNCHANGED evLock
    /\ UNCHANGED <<at, connLock, data, life>>

(* The connection is busy: "Wait for next async invocation".               *)
BusyAfterStop(t) ==    \* faulty
    /\ counter' = [counter EXCEPT ![at[t]] = IF @ > 0 THEN @ - 1 ELSE 0]
    /\ Goto(t, "unlock")
    /\ UNCHANGED <<connLock, queue, batch, out, pushed>>

Busy(t) ==
    /\ Goto(t, "unlock")
    /\ UNCHANGED <<connLock, data>>

ConnFreeUnchecked(t) == TRUE    \* faulty

ConnFree(t) == connLock = NoThread

(* The lock of the connection is looked up through the stream.             *)
LookUpLock(t) ==
    /\ pc[t] = "event"
    /\ alive[at[t]]
    /\ Goto(t, "try")
    /\ UNCHANGED <<at, locks, data, life>>

(* test_and_set on the lock that was found.  It is the wrapper's, which    *)
(* is never deleted: it can be taken although the stream is gone by now.   *)
TryConn(t) ==
    /\ pc[t] = "try"
    /\ IF ConnFree(t)
       THEN connLock' = t /\ Goto(t, "stop") /\ UNCHANGED data
       ELSE Busy(t)
    /\ UNCHANGED <<at, evLock, life>>

(* The stream was destroyed before the lookup, which goes through it, or   *)
(* between the lookup and the test_and_set; stopEvent is then called on an *)
(* event that was a member of it.                                          *)
UseDestroyed(t) ==
    /\ pc[t] \in {"event", "stop"}
    /\ ~alive[at[t]]
    /\ crashed' = TRUE
    /\ UNCHANGED <<pc, at, locks, data, alive, connEvents>>

(* stopEvent: a semaphore read takes one; at zero it fails with EAGAIN.    *)
StopEvent(t) ==
    /\ pc[t] = "stop"
    /\ alive[at[t]]
    /\ counter' = [counter EXCEPT ![at[t]] = IF @ > 0 THEN @ - 1 ELSE 0]
    /\ Goto(t, "splice")
    /\ UNCHANGED <<at, locks, queue, batch, out, pushed, life>>

Splice(t) ==
    /\ pc[t] = "splice"
    /\ batch' = [batch EXCEPT ![t] = queue[at[t]]]
    /\ queue' = [queue EXCEPT ![at[t]] = << >>]
    /\ Goto(t, "write")
    /\ UNCHANGED <<at, locks, counter, out, pushed, life>>

WriteData(t) ==
    /\ pc[t] = "write"
    /\ batch[t] # << >>
    /\ out' = [out EXCEPT ![at[t]] = Append(@, Head(batch[t]))]
    /\ batch' = [batch EXCEPT ![t] = Tail(@)]
    /\ UNCHANGED <<pc, at, locks, queue, counter, pushed, life>>

EndWrite(t) ==
    /\ pc[t] = "write"
    /\ batch[t] = << >>
    /\ connLock' = NoThread
    /\ Goto(t, "unlock")
    /\ UNCHANGED <<at, evLock, data, life>>

LeaveEvent(t) ==
    /\ pc[t] = "unlock"
    /\ evLock' = [evLock EXCEPT ![at[t]] = NoThread]
    /\ Goto(t, "idle")
    /\ UNCHANGED <<at, connLock, data, life>>

-----------------------------------------------------------------------------
(***************************************************************************)
(* The connection's own handler: any work on it, publishing from it, and   *)
(* the end of a stream.  An event that finds the wrapper locked is dropped *)
(* and changes nothing.                                                    *)
(***************************************************************************)
EnterConn(t) ==
    /\ pc[t] = "idle"
    /\ connLock = NoThread
    /\ connEvents < MaxConnEvents
    /\ connLock' = t
    /\ connEvents' = connEvents + 1
    /\ Goto(t, "conn")
    /\ UNCHANGED <<at, evLock, data, alive, crashed>>

LeaveConn(t) ==
    /\ pc[t] = "conn"
    /\ connLock' = NoThread
    /\ Goto(t, "idle")
    /\ UNCHANGED <<at, evLock, data, life>>

(* ~Event empties the eventfd and takes it out of epoll.                   *)
DestroyEvent(c) == counter' = [counter EXCEPT ![c] = 0]

(* ~GrpcRestrStreamCons: removeConsumer waits until no thread is inside of *)
(* Repl::consume; then the members of the stream are destroyed.            *)
Pushing(u) == pc[u] \in {"enq", "set"}

NobodyPushesUnchecked == TRUE    \* faulty

NobodyPushes == \A u \in Threads : ~Pushing(u)

CloseStream(t, c) ==
    /\ pc[t] = "conn"
    /\ c \in Closable /\ alive[c]
    /\ NobodyPushes
    /\ alive' = [alive EXCEPT ![c] = FALSE]
    /\ DestroyEvent(c)
    /\ queue' = [queue EXCEPT ![c] = << >>]
    /\ UNCHANGED <<pc, at, locks, batch, out, pushed, connEvents, crashed>>

Step(t) ==
    \/ Enqueue(t)
    \/ SetEvent(t)
    \/ EnterEvent(t)
    \/ LookUpLock(t)
    \/ TryConn(t)
    \/ UseDestroyed(t)
    \/ StopEvent(t)
    \/ Splice(t)
    \/ WriteData(t)
    \/ EndWrite(t)
    \/ LeaveEvent(t)
    \/ LeaveConn(t)

Next ==
    /\ ~crashed
    /\ \E t \in Threads :
         \/ Step(t)
         \/ EnterConn(t)
         \/ \E c \in Consumers :
              EpollWait(t, c) \/ BeginPush(t, c) \/ CloseStream(t, c)

Spec == Init /\ [][Next]_vars

(* A thread inside of a handler goes on with it, and a readable eventfd is *)
(* sooner or later reported to a thread that waits.                        *)
Fairness ==
    /\ \A t \in Threads : WF_vars(~crashed /\ Step(t))
    /\ \A c \in Consumers :
         WF_vars(~crashed /\ \E t \in Threads : EpollWait(t, c))

FairSpec == Spec /\ Fairness

-----------------------------------------------------------------------------
TypeOK ==
    /\ pc \in [Threads -> PC]
    /\ at \in [Threads -> Consumers]
    /\ connLock \in Threads \cup {NoThread}
    /\ evLock \in [Consumers -> Threads \cup {NoThread}]
    /\ queue \in [Consumers -> Seq(Nat)]
    /\ counter \in [Consumers -> Nat]
    /\ batch \in [Threads -> Seq(Nat)]
    /\ out \in [Consumers -> Seq(Nat)]
    /\ pushed \in [Consumers -> Nat]
    /\ alive \in [Consumers -> BOOLEAN]
    /\ connEvents \in Nat
    /\ crashed \in BOOLEAN

(* While a consumer has messages queued, somebody will be told: the        *)
(* eventfd is readable, or a push is about to make it so, or a handler is  *)
(* about to take the queue (GrpcRestr.cpp:231 against :244 and :277).      *)
NoLostWakeup ==
    \A c \in Consumers :
        queue[c] # << >> =>
            \/ counter[c] > 0
            \/ \E t \in Threads : at[t] = c /\ pc[t] \in {"set", "splice"}

(* At most one thread at a time uses the connection: the handler of an     *)
(* event of one of its streams, or its own handler (GrpcRestr.cpp:225,     *)
(* Loop.hpp:110).                                                          *)
UsesConn(t) ==
    \/ pc[t] \in {"stop", "splice", "write", "conn"}
    \/ Pushing(t) /\ connLock = t

OneUserOfConn ==
    \A t, u \in Threads : UsesConn(t) /\ UsesConn(u) => t = u

(* What was written for a consumer, what a handler has in its hands and    *)
(* what is queued are together all messages in the order they were queued: *)
(* none lost, none twice, none overtaken (GrpcRestr.cpp:240-259).          *)
InHand(c) ==
    LET writers == {t \in Threads : pc[t] = "write" /\ at[t] = c}
    IN  IF writers = {} THEN << >> ELSE batch[CHOOSE t \in writers : TRUE]

DeliveredInOrder ==
    \A c \in Consumers :
        alive[c] => out[c] \o InHand(c) \o queue[c]
                      = [n \in 1..pushed[c] |-> n]

(* A push never works on a destroyed stream: the destructor's              *)
(* removeConsumer comes first and waits for it (GrpcRestr.hpp:92).  Of the *)
(* event's handler nothing like it holds: UseDestroyed.                    *)
PushTargetAlive == \A t \in Threads : Pushing(t) => alive[at[t]]

(* Every message that was queued for a stream that stays open is written   *)
(* to the connection, though handlers that find it busy give up            *)
(* (GrpcRestr.cpp:225), or the use of a destroyed stream has ended the     *)
(* process.                                                                *)
AllDelivered ==
    \A c \in Consumers \ Closable, n \in 1..MaxPush :
        pushed[c] >= n ~> Len(out[c]) >= n \/ crashed
=============================================================================
