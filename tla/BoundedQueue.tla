------------------------------ MODULE BoundedQueue ------------------------------
(***************************************************************************)
(* BoundedBlockingQueue of Queue.hpp: a ring buffer that grows up to its   *)
(* limit, a mutex and two condition variables.  A thread holds the mutex   *)
(* from the start of an operation to its end except while it waits, so a   *)
(* step of a thread is what it does between taking the mutex and giving it *)
(* up: the whole operation, or as far as going to sleep.  A woken thread   *)
(* takes the mutex anew, and others may be faster.                         *)
(*                                                                         *)
(* op[t] is the call thread t is in: what it does, the value it brings,    *)
(* whether it sleeps on its condition variable and whether it has slept    *)
(* (need_notify).                                                          *)
(***************************************************************************)
EXTENDS Naturals, Sequences, FiniteSets

CONSTANTS
    Threads,
    Values,
    Limit,      \* limit_
    Nothing     \* no value

ASSUME LimitAssumption == Limit \in Nat \ {0}
ASSUME ThreadsAssumption == IsFiniteSet(Threads)
ASSUME NothingAssumption == Nothing \notin Values

VARIABLES
    ring,       \* ringbuf_; position i of the code is ring[i + 1]
    start,      \* start_
    size,       \* size_
    op,         \* op[t]: the call thread t is in
    result      \* result[t]: what the last call of t returned, until the next

vars == <<ring, start, size, op, result>>

Readers == {"front", "back", "pop"}
Kinds   == Readers \cup {"push"}

NoCall == [kind |-> "none", val |-> Nothing, asleep |-> FALSE, slept |-> FALSE]

Calls == [kind : Kinds, val : Values \cup {Nothing},
          asleep : BOOLEAN, slept : BOOLEAN]

TypeOK ==
    /\ ring \in Seq(Values)
    /\ start \in 0..(Limit - 1)
    /\ size \in 0..Limit
    /\ op \in [Threads -> Calls \cup {NoCall}]
    /\ result \in [Threads -> Values \cup {Nothing}]

Init ==
    /\ ring = << >>
    /\ start = 0
    /\ size = 0
    /\ op = [t \in Threads |-> NoCall]
    /\ result = [t \in Threads |-> Nothing]

-----------------------------------------------------------------------------
(* The sleepers on read_ and on write_.                                    *)
SleepingReaders == {t \in Threads : op[t].kind \in Readers /\ op[t].asleep}
SleepingWriters == {t \in Threads : op[t].kind = "push" /\ op[t].asleep}

Woken(u) == [op[u] EXCEPT !.asleep = FALSE, !.slept = TRUE]

(* The call of t is over, and notify_one wakes one of sleepers if there is *)
(* one.                                                                    *)
Return(t) == op' = [op EXCEPT ![t] = NoCall]

ReturnNotify(t, sleepers) ==
    IF sleepers = {}
    THEN Return(t)
    ELSE \E u \in sleepers : op' = [op EXCEPT ![t] = NoCall, ![u] = Woken(u)]

Ready(t, kind) == op[t].kind = kind /\ ~op[t].asleep

Sleep(t) ==
    /\ op' = [op EXCEPT ![t].asleep = TRUE]
    /\ UNCHANGED <<ring, start, size, result>>

(* The place of the item that is i places behind the head.                 *)
Place(i) == ((start + i) % Limit) + 1

-----------------------------------------------------------------------------
Call(t, kind, v) ==
    /\ op[t] = NoCall
    /\ op' = [op EXCEPT ![t] = [kind |-> kind, val |-> v,
                                asleep |-> FALSE, slept |-> FALSE]]
    /\ result' = [result EXCEPT ![t] = Nothing]
    /\ UNCHANGED <<ring, start, size>>

(* push_back and emplace_back: the vector grows until it has limit_ slots, *)
(* then slots are used again.                                              *)
StoredFromZero(v) ==    \* faulty
    IF Len(ring) # Limit
    THEN Append(ring, v)
    ELSE [ring EXCEPT ![size + 1] = v]

Stored(v) ==
    IF Len(ring) # Limit
    THEN Append(ring, v)
    ELSE [ring EXCEPT ![Place(size)] = v]

Push(t) ==
    /\ Ready(t, "push")
    /\ size # Limit
    /\ ring' = Stored(op[t].val)
    /\ size' = size + 1
    /\ ReturnNotify(t, SleepingReaders)
    /\ UNCHANGED <<start, result>>

SleepFull(t) ==
    /\ Ready(t, "push")
    /\ size = Limit
    /\ Sleep(t)

(* pop_front *)
Advanced == (start + 1) % Limit

Pop(t) ==
    /\ Ready(t, "pop")
    /\ size # 0
    /\ result' = [result EXCEPT ![t] = ring[Place(0)]]
    /\ start' = Advanced
    /\ size' = size - 1
    /\ ReturnNotify(t, SleepingWriters)
    /\ UNCHANGED ring

(* front and back: they take nothing, so one that has slept passes its     *)
(* wakeup on.                                                              *)
PeekReturnKeep(t) == Return(t)    \* faulty

PeekReturn(t) ==
    IF op[t].slept THEN ReturnNotify(t, SleepingReaders) ELSE Return(t)

Front(t) ==
    /\ Ready(t, "front")
    /\ size # 0
    /\ result' = [result EXCEPT ![t] = ring[Place(0)]]
    /\ PeekReturn(t)
    /\ UNCHANGED <<ring, start, size>>

Back(t) ==
    /\ Ready(t, "back")
    /\ size # 0
    /\ result' = [result EXCEPT ![t] = ring[Place(size - 1)]]
    /\ PeekReturn(t)
    /\ UNCHANGED <<ring, start, size>>

SleepEmpty(t) ==
    /\ \E kind \in Readers : Ready(t, kind)
    /\ size = 0
    /\ Sleep(t)

(* A condition variable may wake a thread for no reason.                   *)
Spurious(t) ==
    /\ op[t].asleep
    /\ op' = [op EXCEPT ![t] = Woken(t)]
    /\ UNCHANGED <<ring, start, size, result>>

Step(t) ==
    \/ Push(t) \/ SleepFull(t)
    \/ Pop(t) \/ Front(t) \/ Back(t) \/ SleepEmpty(t)

Next ==
    \E t \in Threads :
        \/ \E v \in Values : Call(t, "push", v)
        \/ \E kind \in Readers : Call(t, kind, Nothing)
        \/ Step(t)
        \/ Spurious(t)

Spec == Init /\ [][Next]_vars

(* A thread that is awake inside of a call runs on.                        *)
FairSpec == Spec /\ \A t \in Threads : WF_vars(Step(t))

-----------------------------------------------------------------------------
(* The items lie in slots that exist and hold what was put there: while    *)
(* the vector still grows the queue ends where the vector ends, so         *)
(* appending to the vector is appending to the queue (Queue.hpp:68-73).    *)
RingShape ==
    /\ Len(ring) <= Limit
    /\ Len(ring) # Limit => start + size = Len(ring)

(* No lost wakeup: while a reader sleeps there are no more items than      *)
(* readers already woken for them, and while a writer sleeps no more free  *)
(* slots than writers already woken (Queue.hpp:35, :47, :59, :75).         *)
WokenReaders ==
    {t \in Threads : op[t].kind \in Readers /\ op[t].slept /\ ~op[t].asleep}

WokenWriters ==
    {t \in Threads : op[t].kind = "push" /\ op[t].slept /\ ~op[t].asleep}

NoLostWakeup ==
    /\ SleepingReaders # {} => size <= Cardinality(WokenReaders)
    /\ SleepingWriters # {} => Limit - size <= Cardinality(WokenWriters)

(* A reader that sleeps while there are items, or a writer while there is  *)
(* room, does not sleep on for ever, unless others take it all away        *)
(* (Queue.hpp:35, :47, :59, :75).                                          *)
NobodyForgotten ==
    \A t \in Threads :
        /\ t \in SleepingReaders /\ size > 0 ~> ~op[t].asleep \/ size = 0
        /\ t \in SleepingWriters /\ size < Limit
              ~> ~op[t].asleep \/ size = Limit

(* The items in order.                                                     *)
absItems == [i \in 1..size |-> ring[Place(i - 1)]]

Abstract == INSTANCE Fifo WITH items <- absItems

(* Every operation takes effect at one instant on a first-in first-out     *)
(* queue of at most Limit items, whatever the threads do meanwhile         *)
(* (Queue.hpp:27-107).                                                     *)
ImplementsFifo == Abstract!Spec
=============================================================================
