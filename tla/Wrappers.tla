------------------------------- MODULE Wrappers -------------------------------
(***************************************************************************)
(* The two lists of Loop.cpp on which every Wrapper lies, as the TAILQ     *)
(* macros of sys/queue.h keep them: cell is the pointer at an address      *)
(* (tqh_first of a head or tqe_next of a wrapper), back[w] is tqe_prev,    *)
(* the address of the pointer to w, and last[h] is tqh_last, the address   *)
(* of the pointer at the end of list h.  A wrapper has one link field for  *)
(* both lists, so nothing but the order of the calls keeps it on one.      *)
(***************************************************************************)
CONSTANTS
    Wrapper,    \* the wrappers that may be allocated
    Free,       \* the head global_free_wrappers
    Used,       \* the head global_used_wrappers
    Null

ASSUME WrapperAssumption ==
    /\ {Free, Used, Null} \cap Wrapper = {}
    /\ Free # Used
    /\ Null \notin {Free, Used}

Address == Wrapper \cup {Free, Used}

Lists == [cell : [Address -> Wrapper \cup {Null}],
          back : [Wrapper -> Address \cup {Null}],
          last : [{Free, Used} -> Address],
          made : SUBSET Wrapper]

EmptyLists ==
    [cell |-> [a \in Address |-> Null],
     back |-> [w \in Wrapper |-> Null],
     last |-> [h \in {Free, Used} |-> h],
     made |-> {}]

-----------------------------------------------------------------------------
(* TAILQ_INSERT_TAIL(h, w, next)                                           *)
InsertTail(L, h, w) ==
    [cell |-> [L.cell EXCEPT ![w] = Null, ![L.last[h]] = w],
     back |-> [L.back EXCEPT ![w] = L.last[h]],
     last |-> [L.last EXCEPT ![h] = w],
     made |-> L.made]

(* TAILQ_REMOVE(h, w, next)                                                *)
Unlink(L, w) == [L EXCEPT !.cell[L.back[w]] = L.cell[w]]

Remove(L, h, w) ==
    IF L.cell[w] # Null
    THEN Unlink([L EXCEPT !.back[L.cell[w]] = L.back[w]], w)
    ELSE Unlink([L EXCEPT !.last[h] = L.back[w]], w)

(* connectWrapper takes the first free wrapper or makes a new one, and     *)
(* puts it on the used list.                                               *)
Fresh(L) == CHOOSE w \in Wrapper : w \notin L.made

CanTake(L) == L.cell[Free] # Null \/ L.made # Wrapper

Taken(L) == IF L.cell[Free] # Null THEN L.cell[Free] ELSE Fresh(L)

AfterTakeStaysFree(L) ==    \* faulty
    InsertTail([L EXCEPT !.made = @ \cup {Taken(L)}], Free, Taken(L))

AfterTake(L) ==
    LET w == Taken(L)
        K == IF L.cell[Free] # Null
             THEN Remove(L, Free, w)
             ELSE [L EXCEPT !.made = @ \cup {w}]
    IN  InsertTail(K, Used, w)

(* disconnectWrapper puts the wrapper on the free list before it takes it  *)
(* from the used one.                                                      *)
AfterReturn(L, w) == Remove(InsertTail(L, Free, w), Used, w)
=============================================================================
