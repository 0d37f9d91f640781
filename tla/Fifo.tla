--------------------------------- MODULE Fifo ---------------------------------
(***************************************************************************)
(* What BoundedBlockingQueue (Queue.hpp) promises the threads that share   *)
(* it: a first-in first-out sequence of at most Limit items.  Every        *)
(* operation takes effect at one instant; one that must wait is simply one *)
(* whose instant has not come.                                             *)
(***************************************************************************)
EXTENDS Naturals, Sequences

CONSTANTS Threads, Values, Limit, Nothing

VARIABLES
    items,     \* the queue
    result     \* result[t]: what the last operation of t returned,
               \* until t begins another

Init ==
    /\ items = << >>
    /\ result = [t \in Threads |-> Nothing]

Begin(t) ==
    /\ result' = [result EXCEPT ![t] = Nothing]
    /\ UNCHANGED items

Put(t, v) ==
    /\ Len(items) < Limit
    /\ items' = Append(items, v)
    /\ UNCHANGED result

Take(t) ==
    /\ items # << >>
    /\ items' = Tail(items)
    /\ result' = [result EXCEPT ![t] = Head(items)]

Front(t) ==
    /\ items # << >>
    /\ result' = [result EXCEPT ![t] = Head(items)]
    /\ UNCHANGED items

Back(t) ==
    /\ items # << >>
    /\ result' = [result EXCEPT ![t] = items[Len(items)]]
    /\ UNCHANGED items

Next ==
    \E t \in Threads :
        \/ Begin(t)
        \/ \E v \in Values : Put(t, v)
        \/ Take(t)
        \/ Front(t)
        \/ Back(t)

Spec == Init /\ [][Next]_<<items, result>>
=============================================================================
