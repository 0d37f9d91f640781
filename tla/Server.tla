-------------------------------- MODULE Server --------------------------------
(***************************************************************************)
(* The threads of the server, its acceptor and its connections as objects  *)
(* of the event loop: TcpAccept, GrpcAccept and GrpcMultiAccept, the       *)
(* registry GrpcServ::conns_, and Loop with its wrappers (Wrappers.tla).   *)
(*                                                                         *)
(* An event is a pointer to a wrapper.  The thread that took it tries the  *)
(* wrapper's lock and calls onEvent of the object the wrapper stands for   *)
(* at that moment.  What a handler of a connection does is reduced to what *)
(* matters here: it goes on, flushes, or ends and is deleted.              *)
(*                                                                         *)
(* program is the one of grpc_restr_main.cpp that runs, with its threads:  *)
(* main_single_loop, where all threads share one loop, or main_multi_loop, *)
(* where every thread has its own and the acceptor deals the connections   *)
(* out.  Connections have the number of their arrival.                     *)
(***************************************************************************)
EXTENDS Wrappers, Naturals, Sequences, FiniteSets

CONSTANTS
    Threads,
    Listener,    \* the thread that calls listen_thread; one of Threads
    MaxConns,    \* bound: connections that peers make
    NoObject,
    NoThread,
    Programs     \* the programs that may run, with the peers that come

ASSUME ServerAssumption ==
    /\ Listener \in Threads
    /\ NoThread \notin Threads
    /\ MaxConns \in Nat
    /\ NoObject \notin 0..MaxConns
    /\ Programs \subseteq [shared : BOOLEAN, threads : SUBSET Threads,
                    peers : 0..MaxConns]

Conns    == 1..MaxConns
Acceptor == 0
Objects  == 0..MaxConns

VARIABLES
    program,
    lists,      \* global_free_wrappers and global_used_wrappers
    conn,       \* conn[w]: conn_ of a wrapper
    wrapper,    \* wrapper[o]: wrapper_ of an object
    lock,       \* lock[w]: the thread that has set locked_
    acc,        \* state_ of the TcpAccept
    servs,      \* servs_ of GrpcMultiAccept: the threads whose loops take part
    idx,        \* idx_
    state,      \* state[c]: state_ of a connection, before and after its life too
    dealt,      \* dealt[c]: the thread whose loop has c, and Len(servs) then
    registry,   \* conns_, the tables of all GrpcServs together
    raced,      \* the GrpcServs whose table two threads have changed at once
    arrived,    \* connections that have arrived at the listening socket
    taken,      \* those that have left the kernel's queue
    input,      \* input[c]: what recv would find
    pc, event, cur,    \* of each thread: where, the event taken, the object
    fault       \* how the process has ended

vars == <<program, lists, conn, wrapper, lock, acc, servs, idx, state, dealt,
          registry, raced, arrived, taken, input, pc, event, cur, fault>>

pool == <<lists, conn, wrapper>>
deal == <<servs, idx, dealt>>
table == <<registry, raced>>
queue == <<arrived, taken>>

Waiting == taken < arrived

Tasks   == {"IN", "OUT"}
NoEvent == [w |-> Null, kind |-> "none"]
Events  == [w : Wrapper, kind : Tasks]

AcceptorStates == {"WAIT_BIND", "LISTEN", "LISTEN_PAUSED", "CLOSED"}

NotDealt == [to |-> NoThread, of |-> 0]

Alive(c) == state[c] \in {"CONNECTED", "FLUSHING"}

TypeOK ==
    /\ program \in Programs
    /\ lists \in Lists
    /\ conn \in [Wrapper -> Objects \cup {NoObject}]
    /\ wrapper \in [Objects -> Wrapper \cup {Null}]
    /\ lock \in [Wrapper -> Threads \cup {NoThread}]
    /\ acc \in AcceptorStates
    /\ servs \in Seq(Threads)
    /\ idx \in Nat
    /\ state \in [Conns -> {"away", "CONNECTED", "FLUSHING", "CLOSED", "leaked"}]
    /\ dealt \in [Conns -> [to : Threads \cup {NoThread}, of : Nat]]
    /\ registry \subseteq Conns
    /\ raced \subseteq Threads \cup {NoThread}
    /\ arrived \in 0..MaxConns
    /\ taken \in 0..arrived
    /\ input \in [Conns -> {"none", "data", "end"}]
    /\ pc \in [Threads -> {"start", "wait", "event", "accept", "made", "emplace",
                           "handle", "ended", "erase", "leave"}]
    /\ event \in [Threads -> Events \cup {NoEvent}]
    /\ cur \in [Threads -> Objects \cup {NoObject}]
    /\ fault \in {"none", "wild", "acceptor", "connection", "registry", "race"}

(* What a Wrapper, a Conn, the acceptors and a GrpcServ start with.        *)
NewWrappers ==
    /\ lists = EmptyLists
    /\ conn = [w \in Wrapper |-> NoObject]
    /\ lock = [w \in Wrapper |-> NoThread]

NewConns ==
    /\ wrapper = [o \in Objects |-> Null]
    /\ state = [c \in Conns |-> "away"]

NewMultiAccept ==
    /\ servs = << >>
    /\ idx = 0
    /\ dealt = [c \in Conns |-> NotDealt]

NewServ ==
    /\ registry = {}
    /\ raced = {}

Init ==
    /\ program \in Programs
    /\ NewWrappers
    /\ NewConns
    /\ acc = "WAIT_BIND"
    /\ NewMultiAccept
    /\ NewServ
    /\ arrived = 0
    /\ taken = 0
    /\ input = [c \in Conns |-> "none"]
    /\ pc = [t \in Threads |-> "start"]
    /\ event = [t \in Threads |-> NoEvent]
    /\ cur = [t \in Threads |-> NoObject]
    /\ fault = "none"

-----------------------------------------------------------------------------
(* connectWrapper and disconnectWrapper, each under the global lock.       *)
Connect(o) ==
    /\ CanTake(lists)
    /\ lists' = AfterTake(lists)
    /\ conn' = [conn EXCEPT ![Taken(lists)] = o]
    /\ wrapper' = [wrapper EXCEPT ![o] = Taken(lists)]

DisconnectKeepsConn(o) ==    \* faulty
    /\ lists' = AfterReturn(lists, wrapper[o])
    /\ wrapper' = [wrapper EXCEPT ![o] = Null]
    /\ UNCHANGED conn

Disconnect(o) ==
    /\ lists' = AfterReturn(lists, wrapper[o])
    /\ conn' = [conn EXCEPT ![wrapper[o]] = NoObject]
    /\ wrapper' = [wrapper EXCEPT ![o] = Null]

Goto(t, label) == pc' = [pc EXCEPT ![t] = label]

Unlock(t) ==
    /\ lock' = [lock EXCEPT ![event[t].w] = NoThread]
    /\ event' = [event EXCEPT ![t] = NoEvent]
    /\ cur' = [cur EXCEPT ![t] = NoObject]
    /\ Goto(t, "wait")

Die(how) == fault' = how

-----------------------------------------------------------------------------
(* The constructor of TcpAccept, which the listening thread runs over the  *)
(* addresses of the host: bind succeeds, or no address yields a socket, or *)
(* bind fails and closeNow removes the task that was not added yet.        *)
Bind(t) ==
    /\ pc[t] = "start" /\ t = Listener
    /\ Connect(Acceptor)
    /\ acc' = "LISTEN"
    /\ Goto(t, "wait")
    /\ UNCHANGED <<program, lock, deal, state, table, queue, input,
                   event, cur, fault>>

NoAddress(t) ==
    /\ pc[t] = "start" /\ t = Listener
    /\ Goto(t, "wait")
    /\ UNCHANGED <<program, pool, lock, acc, deal, state, table, queue,
                   input, event, cur, fault>>

BindFails(t) ==
    /\ pc[t] = "start" /\ t = Listener
    /\ Die("wild")
    /\ UNCHANGED <<program, pool, lock, acc, deal, state, table, queue,
                   input, pc, event, cur>>

(* main_thread of the single loop starts when the acceptor exists;         *)
(* grpc_thread of the multi loop starts at any time and calls setServ.     *)
SetServ(t) == servs' = Append(servs, t)

StartThread(t) ==
    /\ pc[t] = "start" /\ t \in program.threads \ {Listener}
    /\ IF program.shared
       THEN pc[Listener] # "start" /\ UNCHANGED servs
       ELSE SetServ(t)
    /\ Goto(t, "wait")
    /\ UNCHANGED <<program, pool, lock, acc, idx, state, dealt, table,
                   queue, input, event, cur, fault>>

-----------------------------------------------------------------------------
PeerConnects ==
    /\ acc \in {"LISTEN", "LISTEN_PAUSED"}
    /\ arrived < program.peers
    /\ arrived' = arrived + 1
    /\ UNCHANGED <<program, pool, lock, acc, deal, taken, state, table,
                   input, pc, event, cur, fault>>

PeerSends(c, what) ==
    /\ Alive(c) /\ input[c] = "none"
    /\ input' = [input EXCEPT ![c] = what]
    /\ UNCHANGED <<program, pool, lock, acc, deal, state, table, queue,
                   pc, event, cur, fault>>

(* epoll reports what is ready in the loop of thread t, with the pointer   *)
(* to the wrapper that addTask was given: the wrapper of the object.       *)
Ready(o, kind) ==
    IF o = Acceptor
    THEN acc = "LISTEN" /\ Waiting /\ kind = "IN"
    ELSE \/ state[o] = "CONNECTED" /\ input[o] # "none" /\ kind = "IN"
         \/ state[o] = "FLUSHING" /\ kind = "OUT"

InLoopOf(t, o) ==
    \/ program.shared
    \/ IF o = Acceptor THEN t = Listener ELSE dealt[o].to = t

EpollWait(t, o, kind) ==
    /\ pc[t] = "wait"
    /\ Ready(o, kind) /\ InLoopOf(t, o)
    /\ event' = [event EXCEPT ![t] = [w |-> wrapper[o], kind |-> kind]]
    /\ Goto(t, "event")
    /\ UNCHANGED <<program, pool, lock, acc, deal, state, table, queue,
                   input, cur, fault>>

(* Wrapper::onEvent: a locked wrapper or one without an object drops the   *)
(* event.                                                                  *)
Locked(w) == lock[w] # NoThread

Drop(t) ==
    /\ pc[t] = "event"
    /\ Locked(event[t].w) \/ conn[event[t].w] = NoObject
    /\ event' = [event EXCEPT ![t] = NoEvent]
    /\ Goto(t, "wait")
    /\ UNCHANGED <<program, pool, lock, acc, deal, state, table, queue,
                   input, cur, fault>>

Dispatch(t) ==
    LET w == event[t].w
        o == conn[w]
    IN  /\ pc[t] = "event"
        /\ ~Locked(w) /\ o # NoObject
        /\ lock' = [lock EXCEPT ![w] = t]
        /\ cur' = [cur EXCEPT ![t] = o]
        /\ Goto(t, IF o = Acceptor THEN "accept" ELSE "handle")
        /\ CASE o = Acceptor /\ acc # "LISTEN" -> Die("acceptor")
             [] o \in Conns /\ event[t].kind = "IN" /\ state[o] = "FLUSHING"
                  -> Die("connection")
             [] OTHER -> UNCHANGED fault
        /\ UNCHANGED <<program, pool, acc, deal, state, table, queue,
                       input, event>>

-----------------------------------------------------------------------------
(* TcpAccept::onEvent: accept4 until there is nothing left.  GrpcAccept    *)
(* makes the connection in the acceptor's loop; GrpcMultiAccept takes the  *)
(* loops in turn, and forgets the descriptor if there is none yet.         *)
NextIdxSame == idx % Len(servs)    \* faulty

NextIdx == ((idx % Len(servs)) + 1) % Len(servs)

DealHere == UNCHANGED <<idx, dealt>>

DealInTurn(c) ==
    /\ dealt' = [dealt EXCEPT ![c] = [to |-> servs[(idx % Len(servs)) + 1],
                                      of |-> Len(servs)]]
    /\ idx' = NextIdx

OnAccept(c) == IF program.shared THEN DealHere ELSE DealInTurn(c)

NobodyServes == ~program.shared /\ servs = << >>

Accept(t) ==
    LET c == taken + 1 IN
    /\ pc[t] = "accept" /\ Waiting /\ ~NobodyServes
    /\ taken' = c
    /\ OnAccept(c)
    /\ Connect(c)
    /\ state' = [state EXCEPT ![c] = "CONNECTED"]
    /\ cur' = [cur EXCEPT ![t] = c]
    /\ Goto(t, "made")
    /\ UNCHANGED <<program, lock, acc, servs, arrived, table, input, event,
                   fault>>

AcceptForNobody(t) ==
    /\ pc[t] = "accept" /\ Waiting /\ NobodyServes
    /\ taken' = taken + 1
    /\ state' = [state EXCEPT ![taken + 1] = "leaked"]
    /\ UNCHANGED <<program, pool, lock, acc, deal, arrived, table, input,
                   pc, event, cur, fault>>

(* conns_ is an unordered_map, changed without a lock by every thread of   *)
(* main_single_loop; in main_multi_loop each GrpcServ has one, changed by  *)
(* the acceptor and by the thread of its loop.  A change is two steps, and *)
(* Serv(c), a thread, names the GrpcServ that c belongs to.                *)
Serv(c) == IF program.shared THEN Listener ELSE dealt[c].to

Changing(u) == pc[u] \in {"emplace", "erase"}

BeginChange(t) ==
    raced' = IF \E u \in Threads \ {t} : Changing(u) /\ Serv(cur[u]) = Serv(cur[t])
             THEN raced \cup {Serv(cur[t])} ELSE raced

(* After a race on a table a change may do anything to it.  What it holds  *)
(* is not followed any further; the thread goes on, or the process dies.   *)
Wrecked(c) ==
    /\ registry' = {d \in registry : Serv(d) # Serv(c)}
    /\ fault' \in {fault, "race"}

Register(c) == registry' = registry \cup {c} /\ UNCHANGED fault

UnregisterNever(c) == UNCHANGED <<registry, fault>>    \* faulty

Unregister(c) ==
    IF c \in registry
    THEN registry' = registry \ {c} /\ UNCHANGED fault
    ELSE Die("registry") /\ UNCHANGED registry

(* gotConn: from the end of the constructor to here the connection is in   *)
(* epoll and not in conns_.                                                *)
GotConn(t) ==
    /\ pc[t] = "made"
    /\ BeginChange(t)
    /\ Goto(t, "emplace")
    /\ UNCHANGED <<program, pool, lock, acc, deal, state, registry, queue, input,
                   event, cur, fault>>

Emplaced(t) ==
    /\ pc[t] = "emplace"
    /\ IF Serv(cur[t]) \in raced THEN Wrecked(cur[t]) ELSE Register(cur[t])
    /\ cur' = [cur EXCEPT ![t] = Acceptor]
    /\ Goto(t, "accept")
    /\ UNCHANGED <<program, pool, lock, acc, deal, state, raced, queue, input,
                   event>>

(* EAGAIN, ENFILE and every other error of accept4.                        *)
AcceptDoneLocked(t) ==    \* faulty
    /\ pc[t] = "accept" /\ ~Waiting
    /\ event' = [event EXCEPT ![t] = NoEvent]
    /\ cur' = [cur EXCEPT ![t] = NoObject]
    /\ Goto(t, "wait")
    /\ UNCHANGED <<program, pool, lock, acc, deal, state, table, queue,
                   input, fault>>

AcceptDone(t) ==
    /\ pc[t] = "accept" /\ ~Waiting
    /\ Unlock(t)
    /\ UNCHANGED <<program, pool, acc, deal, state, table, queue, input,
                   fault>>

AcceptPauses(t) ==
    /\ pc[t] = "accept"
    /\ acc' = "LISTEN_PAUSED"
    /\ Unlock(t)
    /\ UNCHANGED <<program, pool, deal, state, table, queue, input, fault>>

(* closeNow of a listening socket does not call removeTask: its wrapper    *)
(* goes on to stand for it.                                                *)
CloseListener ==
    /\ acc' = "CLOSED"
    /\ taken' = arrived

AcceptFails(t) ==
    /\ pc[t] = "accept"
    /\ CloseListener
    /\ Unlock(t)
    /\ UNCHANGED <<program, pool, deal, arrived, state, table, input, fault>>

-----------------------------------------------------------------------------
(* The handler of a connection: onRead may find nothing to do, begin to    *)
(* flush a GOAWAY, or close.                                               *)
GoesOn(t) ==
    /\ pc[t] = "handle"
    /\ \/ event[t].kind = "IN" /\ input[cur[t]] # "end"
       \/ event[t].kind = "OUT"
    /\ input' = IF event[t].kind = "IN"
                THEN [input EXCEPT ![cur[t]] = "none"] ELSE input
    /\ Unlock(t)
    /\ UNCHANGED <<program, pool, acc, deal, state, table, queue, fault>>

Flushes(t) ==
    /\ pc[t] = "handle"
    /\ event[t].kind = "IN" /\ input[cur[t]] = "data"
    /\ input' = [input EXCEPT ![cur[t]] = "none"]
    /\ state' = [state EXCEPT ![cur[t]] = "FLUSHING"]
    /\ Unlock(t)
    /\ UNCHANGED <<program, pool, acc, deal, table, queue, fault>>

MayEnd(t) ==
    \/ event[t].kind = "IN" /\ input[cur[t]] # "none"
    \/ event[t].kind = "OUT" /\ state[cur[t]] = "FLUSHING"

(* closeNow.                                                               *)
Ends(t) ==
    /\ pc[t] = "handle"
    /\ MayEnd(t)
    /\ Disconnect(cur[t])
    /\ state' = [state EXCEPT ![cur[t]] = "CLOSED"]
    /\ input' = [input EXCEPT ![cur[t]] = "none"]
    /\ Goto(t, "ended")
    /\ UNCHANGED <<program, lock, acc, deal, table, queue, event, cur, fault>>

(* From there, through Http2Conn, onClosed or onError of GrpcServ, which   *)
(* asserts that the entry was there.                                       *)
OnClosed(t) ==
    /\ pc[t] = "ended"
    /\ BeginChange(t)
    /\ Goto(t, "erase")
    /\ UNCHANGED <<program, pool, lock, acc, deal, state, registry, queue, input,
                   event, cur, fault>>

Erased(t) ==
    /\ pc[t] = "erase"
    /\ IF Serv(cur[t]) \in raced THEN Wrecked(cur[t]) ELSE Unregister(cur[t])
    /\ Goto(t, "leave")
    /\ UNCHANGED <<program, pool, lock, acc, deal, state, raced, queue, input,
                   event, cur>>

Leave(t) ==
    /\ pc[t] = "leave"
    /\ Unlock(t)
    /\ UNCHANGED <<program, pool, acc, deal, state, table, queue, input,
                   fault>>

-----------------------------------------------------------------------------
Start(t) == Bind(t) \/ NoAddress(t) \/ BindFails(t) \/ StartThread(t)

Handle(t) ==
    \/ Drop(t) \/ Dispatch(t)
    \/ Accept(t) \/ AcceptForNobody(t) \/ GotConn(t) \/ Emplaced(t)
    \/ AcceptDone(t) \/ AcceptPauses(t) \/ AcceptFails(t)
    \/ GoesOn(t) \/ Flushes(t)
    \/ Ends(t) \/ OnClosed(t) \/ Erased(t) \/ Leave(t)

Next ==
    /\ fault = "none"
    /\ \/ \E t \in Threads : Start(t) \/ Handle(t)
       \/ \E t \in Threads, o \in Objects, kind \in Tasks :
            EpollWait(t, o, kind)
       \/ PeerConnects
       \/ \E c \in Conns, what \in {"data", "end"} : PeerSends(c, what)

Spec == Init /\ [][Next]_vars

(* A thread inside of a handler goes on, and epoll, which is               *)
(* level-triggered, does not for ever pass over an acceptor that is ready. *)
FairSpec ==
    /\ Spec
    /\ \A t \in Threads : WF_vars(fault = "none" /\ Handle(t))
    /\ SF_vars(fault = "none" /\ \E t \in Threads : EpollWait(t, Acceptor, "IN"))

-----------------------------------------------------------------------------
(* A handler runs on an object that lives, and no other thread runs one on *)
(* the same object, whatever events are still on their way when objects    *)
(* end and wrappers change hands (Loop.hpp:108-115, Loop.cpp:97-110).      *)
HandlersSafe ==
    \A t \in Threads : pc[t] = "handle" =>
        /\ Alive(cur[t])
        /\ \A u \in Threads \ {t} : pc[u] = "handle" => cur[u] # cur[t]

(* A wrapper stands for an object that lives and that knows it             *)
(* (Loop.cpp:93-94, :108-109).                                             *)
WrapperPointsBack ==
    \A w \in Wrapper : conn[w] # NoObject =>
        /\ wrapper[conn[w]] = w
        /\ conn[w] \in Conns => Alive(conn[w])

(* While no connection has ended, no two objects share a wrapper: every    *)
(* event reaches the object it was reported for (Loop.cpp:77-95).  After   *)
(* the first end they may (Loop.cpp:104).                                  *)
SharedOnlyAfterAnEnd ==
    (\A c \in Conns : state[c] # "CLOSED") =>
        \A o \in Objects : wrapper[o] # Null => conn[wrapper[o]] = o

(* Until two threads have been inside of a table conns_ at once, the       *)
(* connections in it are those that live, but for one that the acceptor is *)
(* about to enter and with those that are about to be erased, whichever    *)
(* threads handle their events meanwhile (GrpcServ.cpp:6-11, :19-44).      *)
AboutToEnter(c) ==
    \E t \in Threads : pc[t] \in {"made", "emplace"} /\ cur[t] = c

AboutToErase(c) ==
    \E t \in Threads : pc[t] \in {"ended", "erase"} /\ cur[t] = c

RegistryExact ==
    fault = "none" =>
        \A c \in Conns : Serv(c) \notin raced =>
            (c \in registry \/ AboutToEnter(c) <=> Alive(c) \/ AboutToErase(c))

(* GrpcMultiAccept is fair: of the connections that were dealt out while   *)
(* the same loops took part, no loop gets two more than another            *)
(* (GrpcMultiAccept.cpp:15-16).                                            *)
DealtTo(s, n) == Cardinality({c \in Conns : dealt[c] = [to |-> s, of |-> n]})

RoundRobin ==
    \A n \in 1..Len(servs), i, j \in 1..Len(servs) :
        i <= n /\ j <= n => DealtTo(servs[i], n) <= DealtTo(servs[j], n) + 1

(* What waits to be accepted is accepted, unless accept4 has failed before *)
(* or an assertion has ended the process (TcpAccept.cpp:85-108).           *)
AcceptorServes ==
    Waiting ~> ~Waiting \/ acc # "LISTEN" \/ fault # "none"

(* assert(state_ == State::CONNECTED) of TcpConn::onEvent (TcpConn.cpp:325) *)
(* holds: an event with IN does not reach a connection that is flushing.   *)
ReadsWhileConnected == fault # "connection"
=============================================================================
