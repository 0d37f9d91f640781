-------------------------------- MODULE Client --------------------------------
(***************************************************************************)
(* The echo client: EchoMgr keeps a pool of EchoCheckers, each of which    *)
(* connects by TcpConn, writes its chain and compares what comes back      *)
(* (tcp_echo_client.cpp; connect, tryConnect and onEvent of TcpConn.cpp;   *)
(* Loop with its wrappers).  One thread runs everything, so a step is a    *)
(* part of a handler between two choices of the kernel or of the peer.     *)
(*                                                                         *)
(* Bytes are abstracted: of output_ it is known if it is empty, and        *)
(* chain_ has a few units that come back one or more at a time.  The peer  *)
(* may send anything at any time.  epoll_ctl and setsockopt do not fail.   *)
(***************************************************************************)
EXTENDS Wrappers, Naturals, FiniteSets

CONSTANTS
    MaxCheckers,    \* bound: checkers ever made
    Addrs,          \* addresses that getaddrinfo yields
    Units,          \* units of a chain_
    Args,           \* command lines: pool and total
    NoChecker

Checkers == 1..MaxCheckers

ASSUME ClientAssumption ==
    /\ MaxCheckers \in Nat /\ Addrs \in Nat /\ Units \in Nat \ {0}
    /\ NoChecker \notin Checkers
    /\ Args \subseteq [pool : Nat \ {0}, total : Nat \ {0}]

VARIABLES
    args,       \* pool_ and total_
    lists, conn, wrapper,    \* as in Server
    leaked,     \* wrappers in epoll with a descriptor that nobody closes
    state,      \* state[c]: TcpConn::state_; "none" before, "gone" after
    fd,         \* fd[c]: fd_ is open
    rp,         \* rp[c]: addresses from rp_ to the end of the list
    again,      \* the connect in progress was called by onError
    taskset,    \* taskset_
    output,     \* output[c]: output_ is not empty
    left,       \* left[c]: units in chain_
    verdict,    \* verdict[c]: status_ of an EchoChecker
    done, status,    \* done_ and status_ of the EchoMgr
    running,    \* Loop::run_
    batch,      \* events_, those that were not handled yet
    pc, cur, evt,    \* where the thread is, in which checker, what is left
    fault       \* how the process has ended

pool == <<lists, conn, wrapper>>
tcp  == <<state, fd, rp, again, taskset, output>>
mgr  == <<done, status, running>>
at   == <<pc, cur, evt>>
vars == <<args, pool, leaked, tcp, left, verdict, mgr, batch, at, fault>>

Verdicts == {"OK", "CHECKED", "MISMATCH"}    \* the latter of BYTES or NUM
Bits     == {"IN", "OUT", "HUP"}

InPool == {c \in Checkers : state[c] \notin {"none", "gone"}}
Gone   == {c \in Checkers : state[c] = "gone"}

TypeOK ==
    /\ args \in Args
    /\ lists \in Lists
    /\ conn \in [Wrapper -> Checkers \cup {NoChecker}]
    /\ wrapper \in [Checkers -> Wrapper \cup {Null}]
    /\ leaked \subseteq Wrapper
    /\ state \in [Checkers -> {"none", "WAIT_CONNECT", "CONNECTING",
                               "CONNECTED", "FLUSHING", "gone"}]
    /\ fd \in [Checkers -> BOOLEAN]
    /\ rp \in [Checkers -> 0..Addrs]
    /\ again \in BOOLEAN
    /\ taskset \in [Checkers -> SUBSET {"IN", "OUT"}]
    /\ output \in [Checkers -> BOOLEAN]
    /\ left \in [Checkers -> 0..Units]
    /\ verdict \in [Checkers -> Verdicts]
    /\ done \in 0..args.total
    /\ status \in [Verdicts -> Nat]
    /\ running \in BOOLEAN
    /\ batch \subseteq [w : Wrapper, evt : SUBSET Bits]
    /\ pc \in {"refill", "create", "reconnect", "run", "read", "write"}
    /\ cur \in Checkers \cup {NoChecker}
    /\ evt \subseteq Bits
    /\ fault \in {"none", "assertion", "wild", "deleted"}

NewMgr ==
    /\ done = 0
    /\ status = [v \in Verdicts |-> 0]

Init ==
    /\ args \in Args
    /\ lists = EmptyLists
    /\ conn = [w \in Wrapper |-> NoChecker]
    /\ wrapper = [c \in Checkers |-> Null]
    /\ leaked = {}
    /\ state = [c \in Checkers |-> "none"]
    /\ fd = [c \in Checkers |-> FALSE]
    /\ rp = [c \in Checkers |-> 0]
    /\ again = FALSE
    /\ taskset = [c \in Checkers |-> {}]
    /\ output = [c \in Checkers |-> FALSE]
    /\ left = [c \in Checkers |-> 0]
    /\ verdict = [c \in Checkers |-> "OK"]
    /\ NewMgr
    /\ running = TRUE
    /\ batch = {}
    /\ pc = "refill"
    /\ cur = NoChecker
    /\ evt = {}
    /\ fault = "none"

-----------------------------------------------------------------------------
(* The loop of onCheckerDone and what follows it.                          *)
NeededInPool == Cardinality(InPool) < args.pool    \* faulty

NeededAtFirst ==    \* faulty
    /\ Cardinality(InPool) + done < args.pool
    /\ Cardinality(InPool) + done < args.total

Needed ==
    /\ Cardinality(InPool) < args.pool
    /\ Cardinality(InPool) + done < args.total

Stops == done = args.total /\ InPool = {}

(* genTestData                                                             *)
SomeData == 1..Units

Create ==
    LET c == Cardinality(InPool \cup Gone) + 1 IN
    /\ pc = "refill" /\ Needed
    /\ c \in Checkers
    /\ state' = [state EXCEPT ![c] = "CONNECTING"]
    /\ rp' = [rp EXCEPT ![c] = Addrs]
    /\ left' \in {[left EXCEPT ![c] = n] : n \in SomeData}
    /\ pc' = "create" /\ cur' = c
    /\ UNCHANGED <<args, pool, leaked, fd, again, taskset, output,
                   verdict, mgr, batch, evt, fault>>

Refilled ==
    /\ pc = "refill" /\ ~Needed
    /\ running' = (running /\ ~Stops)
    /\ pc' = "run"
    /\ UNCHANGED <<args, pool, leaked, tcp, left, verdict, done, status, batch,
                   cur, evt, fault>>

-----------------------------------------------------------------------------
(* connect and tryConnect, from the address at rp on.                      *)
Connecting == pc \in {"create", "reconnect"}

ConnectEnds ==
    /\ pc' = IF pc = "create" THEN "refill" ELSE "run"
    /\ again' = FALSE
    /\ cur' = NoChecker
    /\ evt' = {}

(* getaddrinfo fails, or the last address was tried: ERROR finds no        *)
(* descriptor to close and onClosed is not called.                         *)
GivesUp ==
    /\ Connecting
    /\ \/ rp[cur] = 0
       \/ rp[cur] = Addrs /\ (pc = "create" \/ again)
    /\ state' = [state EXCEPT ![cur] = "WAIT_CONNECT"]
    /\ ConnectEnds
    /\ UNCHANGED <<args, pool, leaked, fd, rp, taskset, output, left, verdict,
                   mgr, batch, fault>>

(* socket fails, or ::connect does so at once.                             *)
NextAddress ==
    /\ Connecting /\ rp[cur] > 0
    /\ rp' = [rp EXCEPT ![cur] = @ - 1]
    /\ UNCHANGED <<args, pool, leaked, state, fd, again, taskset, output, left,
                   verdict, mgr, batch, at, fault>>

(* EADDRNOTAVAIL: the checker's onError calls connect once more.           *)
NotAvailable ==
    /\ Connecting /\ rp[cur] > 0
    /\ rp' = [rp EXCEPT ![cur] = Addrs]
    /\ again' = TRUE
    /\ UNCHANGED <<args, pool, leaked, state, fd, taskset, output, left,
                   verdict, mgr, batch, at, fault>>

(* EINPROGRESS.  If it was onError that called connect, the ERROR macro    *)
(* then closes the new descriptor: closeNow while CONNECTING neither       *)
(* removes the task nor calls onClosed.                                    *)
InProgress ==
    /\ Connecting /\ rp[cur] > 0
    /\ CanTake(lists)
    /\ lists' = AfterTake(lists)
    /\ conn' = [conn EXCEPT ![Taken(lists)] = cur]
    /\ wrapper' = [wrapper EXCEPT ![cur] = Taken(lists)]
    /\ taskset' = [taskset EXCEPT ![cur] = {"OUT"}]
    /\ fd' = [fd EXCEPT ![cur] = ~again]
    /\ ConnectEnds
    /\ UNCHANGED <<args, leaked, state, rp, output, left, verdict, mgr, batch,
                   fault>>

(* ::connect succeeds at once: addTask was not called, and modifyTask of   *)
(* writeSome meets a wrapper_ that nobody has set.                         *)
ConnectsAtOnce ==
    /\ Connecting /\ rp[cur] > 0
    /\ fault' = "wild"
    /\ UNCHANGED <<args, pool, leaked, tcp, left, verdict, mgr, batch, at>>

-----------------------------------------------------------------------------
(* epoll_wait: what the kernel may report, each with the wrapper that      *)
(* addTask was given.  A connection that is refused, or a descriptor that  *)
(* was forgotten, is reported with HUP.                                    *)
Watched(c) == fd[c] /\ wrapper[c] # Null

Reports(c) ==
    {[w |-> wrapper[c], evt |-> e] :
        e \in (SUBSET taskset[c] \ {{}}) \cup {taskset[c] \cup {"HUP"}}}

Ready ==
    (UNION {Reports(c) : c \in {c \in Checkers : Watched(c)}})
        \cup {[w |-> w, evt |-> {"OUT", "HUP"}] : w \in leaked}

EpollWait ==
    /\ pc = "run" /\ batch = {} /\ running
    /\ batch' \in {B \in SUBSET Ready \ {{}} :
                     \A e, f \in B : e.w = f.w => e = f}
    /\ UNCHANGED <<args, pool, leaked, tcp, left, verdict, mgr, at, fault>>

(* Wrapper::onEvent                                                        *)
Drop(e) ==
    /\ pc = "run" /\ e \in batch
    /\ conn[e.w] = NoChecker
    /\ batch' = batch \ {e}
    /\ UNCHANGED <<args, pool, leaked, tcp, left, verdict, mgr, at, fault>>

Broken(c, e) ==
    CASE state[c] = "gone" -> "deleted"
      [] ~fd[c] -> "assertion"
      [] "IN" \in e.evt /\ state[c] # "CONNECTED"
                        /\ ~("HUP" \in e.evt /\ state[c] = "CONNECTING")
           -> "assertion"
      [] OTHER -> "none"

Dispatch(e) ==
    LET c == conn[e.w] IN
    /\ pc = "run" /\ e \in batch
    /\ c # NoChecker
    /\ batch' = batch \ {e}
    /\ fault' = Broken(c, e)
    /\ cur' = c /\ evt' = e.evt
    /\ pc' = IF "IN" \in e.evt \/ "HUP" \in e.evt THEN "read" ELSE "write"
    /\ UNCHANGED <<args, pool, leaked, tcp, left, verdict, mgr>>

-----------------------------------------------------------------------------
(* onCheckerDone counts the checker and erases it, then refills.           *)
OnCheckerDone(c) ==
    /\ status' = [status EXCEPT ![verdict'[c]] = @ + 1]
    /\ state' = [state EXCEPT ![c] = "gone"]
    /\ done' = done + 1
    /\ pc' = "refill" /\ cur' = NoChecker /\ evt' = {}

OnClosed(c) == OnCheckerDone(c)

RemoveTask(c) ==
    /\ lists' = AfterReturn(lists, wrapper[c])
    /\ conn' = [conn EXCEPT ![wrapper[c]] = NoChecker]
    /\ wrapper' = [wrapper EXCEPT ![c] = Null]

(* closeNow of a connection that is not CONNECTING.                        *)
Ends(c) ==
    /\ RemoveTask(c)
    /\ fd' = [fd EXCEPT ![c] = FALSE]
    /\ output' = [output EXCEPT ![c] = FALSE]
    /\ OnClosed(c)
    /\ UNCHANGED <<args, leaked, rp, again, taskset, running, batch, fault>>

Goes(label) ==
    /\ pc' = label
    /\ cur' = IF label = "run" THEN NoChecker ELSE cur
    /\ evt' = IF label = "run" THEN {} ELSE evt

AfterRead == IF "OUT" \in evt THEN "write" ELSE "run"

(* closeNow out of onRead deletes the checker.  onEvent looks at it again  *)
(* when the event has OUT as well, in memory that may still say CLOSED or  *)
(* not.                                                                    *)
UseDeleted ==
    /\ "OUT" \in evt
    /\ fault' = "deleted"
    /\ UNCHANGED <<args, pool, leaked, tcp, mgr, batch, at>>

CloseSoonForgets(c) ==    \* faulty
    /\ state' = [state EXCEPT ![c] = "FLUSHING"]
    /\ taskset' = [taskset EXCEPT ![c] = (@ \ {"IN"}) \cup {"OUT"}]
    /\ Goes(AfterRead)
    /\ UNCHANGED <<args, pool, leaked, fd, rp, again, output, mgr, batch, fault>>

CloseSoon(c) ==
    IF output[c]
    THEN /\ state' = [state EXCEPT ![c] = "FLUSHING"]
         /\ taskset' = [taskset EXCEPT ![c] = (@ \ {"IN"}) \cup {"OUT"}]
         /\ Goes(AfterRead)
         /\ UNCHANGED <<args, pool, leaked, fd, rp, again, output, mgr, batch,
                        fault>>
    ELSE Ends(c) \/ UseDeleted

(* HUP or ERR while CONNECTING.  The other addresses are not tried.        *)
Refused ==
    /\ pc = "read"
    /\ "HUP" \in evt /\ state[cur] = "CONNECTING"
    /\ UNCHANGED <<left, verdict>>
    /\ Ends(cur)

Receives == pc = "read" /\ ~("HUP" \in evt /\ state[cur] = "CONNECTING")

(* EAGAIN, or the event had no IN.                                         *)
ReadNothing ==
    /\ Receives
    /\ Goes(AfterRead)
    /\ UNCHANGED <<args, pool, leaked, tcp, left, verdict, mgr, batch, fault>>

(* onRead: n units are as they should be, and with wrong the byte after    *)
(* them is not, or comes after the last one.                               *)
ReadUnits(n, wrong) ==
    /\ Receives /\ "IN" \in evt
    /\ n <= left[cur] /\ (n > 0 \/ wrong)
    /\ left' = [left EXCEPT ![cur] = @ - n]
    /\ verdict' = [verdict EXCEPT ![cur] =
          CASE wrong -> "MISMATCH"
            [] ~wrong /\ n = left[cur] -> "CHECKED"
            [] OTHER -> "OK"]
    /\ IF verdict'[cur] # "OK"
       THEN CloseSoon(cur)
       ELSE /\ Goes(AfterRead)
            /\ UNCHANGED <<args, pool, leaked, tcp, mgr, batch, fault>>

(* recv finds the end of the stream, or fails.                             *)
ReadEnd ==
    /\ Receives /\ "IN" \in evt
    /\ UNCHANGED <<left, verdict>>
    /\ Ends(cur)

-----------------------------------------------------------------------------
(* OUT while CONNECTING: onConnected copies the chain into output_ and     *)
(* asks for both kinds of event.                                           *)
Connected ==
    /\ pc = "write" /\ state[cur] = "CONNECTING"
    /\ state' = [state EXCEPT ![cur] = "CONNECTED"]
    /\ output' = [output EXCEPT ![cur] = TRUE]
    /\ taskset' = [taskset EXCEPT ![cur] = {"IN", "OUT"}]
    /\ Goes("run")
    /\ UNCHANGED <<args, pool, leaked, fd, rp, again, left, verdict, mgr,
                   batch, fault>>

(* SO_ERROR is set: tryConnect goes on from the same address, with a new   *)
(* descriptor in place of the old one, which stays in epoll.               *)
Reconnects ==
    /\ pc = "write" /\ state[cur] = "CONNECTING"
    /\ leaked' = leaked \cup {wrapper[cur]}
    /\ fd' = [fd EXCEPT ![cur] = FALSE]
    /\ pc' = "reconnect"
    /\ UNCHANGED <<args, pool, state, rp, again, taskset, output, left, verdict,
                   mgr, batch, cur, evt, fault>>

Writes == pc = "write" /\ state[cur] \in {"CONNECTED", "FLUSHING"}

(* writev takes a part of it or nothing, or there is nothing to write.     *)
WritesSome ==
    /\ Writes
    /\ Goes("run")
    /\ UNCHANGED <<args, pool, leaked, tcp, left, verdict, mgr, batch, fault>>

WritesAll ==
    /\ Writes /\ output[cur]
    /\ UNCHANGED <<left, verdict>>
    /\ IF state[cur] = "FLUSHING"
       THEN Ends(cur)
       ELSE /\ output' = [output EXCEPT ![cur] = FALSE]
            /\ taskset' = [taskset EXCEPT ![cur] = @ \ {"OUT"}]
            /\ Goes("run")
            /\ UNCHANGED <<args, pool, leaked, state, fd, rp, again, mgr,
                           batch, fault>>

WriteFails ==
    /\ Writes /\ output[cur]
    /\ UNCHANGED <<left, verdict>>
    /\ Ends(cur)

-----------------------------------------------------------------------------
Connect == GivesUp \/ NextAddress \/ NotAvailable \/ InProgress \/ ConnectsAtOnce

Handle ==
    \/ Refused \/ ReadNothing \/ ReadEnd
    \/ \E n \in 0..Units, wrong \in BOOLEAN : ReadUnits(n, wrong)
    \/ Connected \/ Reconnects
    \/ WritesSome \/ WritesAll \/ WriteFails

Next ==
    /\ fault = "none"
    /\ \/ Create \/ Refilled \/ Connect \/ EpollWait \/ Handle
       \/ \E e \in batch : Drop(e) \/ Dispatch(e)

Spec == Init /\ [][Next]_vars

-----------------------------------------------------------------------------
(* Every checker is counted when it ends, once, and neither the pool nor   *)
(* the total is exceeded by checkers that are made inside of the end of    *)
(* another (onCheckerDone, tcp_echo_client.cpp:44-63).                     *)
AccountsBalance ==
    /\ done = Cardinality(Gone)
    /\ \A v \in Verdicts :
         status[v] = Cardinality({c \in Gone : verdict[c] = v})
    /\ Cardinality(InPool) <= args.pool
    /\ Cardinality(InPool) + done <= args.total

(* Whenever events are handled the pool is full, or holds all that is left *)
(* of the total, and the loop is stopped exactly when all is done.         *)
PoolFull ==
    pc = "run" =>
        /\ \/ Cardinality(InPool) = args.pool
           \/ Cardinality(InPool) + done = args.total
        /\ running <=> done < args.total

(* A connection is waited for as long as it has something to wait for: OUT *)
(* is asked for while there is output, and one that flushes has output.    *)
(* Otherwise its checker would stay in the pool for ever.                  *)
OutputWatched ==
    \A c \in Checkers : state[c] \in {"CONNECTED", "FLUSHING"} =>
        /\ Watched(c)
        /\ output[c] <=> "OUT" \in taskset[c]
        /\ state[c] = "FLUSHING" <=> "IN" \notin taskset[c]
=============================================================================
