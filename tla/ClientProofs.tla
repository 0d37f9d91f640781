------------------------------ MODULE ClientProofs ------------------------------
(***************************************************************************)
(* Proofs about Client for any number of checkers, addresses and units,    *)
(* any wrappers and any command lines.                                     *)
(***************************************************************************)
EXTENDS Client, FiniteSetTheorems, TLAPS

(* The lists are lists of wrappers that were made, each with a place.      *)
Linked(L) ==
    /\ L \in Lists
    /\ \A w \in L.made : L.back[w] # Null
    /\ \A a \in Address : L.cell[a] \in L.made \cup {Null}

(* Whoever has a wrapper has it from connectWrapper.                       *)
WrappersMade ==
    /\ Linked(lists)
    /\ \A w \in Wrapper : conn[w] # NoChecker => w \in lists.made
    /\ \A c \in Checkers : wrapper[c] \in lists.made \cup {Null}

(* Checkers are numbered in the order in which they are made.              *)
Made == InPool \cup Gone

CheckersInOrder == Made = 1..Cardinality(Made)

(* OutputWatched, and that an open descriptor has an owner and a wrapper.  *)
StatesAgree ==
    /\ OutputWatched
    /\ \A c \in Checkers :
         /\ fd[c] => wrapper[c] # Null /\ state[c] # "none"
         /\ state[c] = "FLUSHING" => output[c]

(* Where the thread is, while the process lives.                           *)
AtWork ==
    fault = "none" =>
        /\ pc \in {"create", "reconnect", "read", "write"} => cur \in Checkers
        /\ pc \in {"create", "reconnect"} => state[cur] = "CONNECTING"
        /\ pc \in {"read", "write"} => cur \in InPool /\ fd[cur]
        /\ pc = "read" /\ "IN" \in evt =>
             \/ state[cur] = "CONNECTED"
             \/ "HUP" \in evt /\ state[cur] = "CONNECTING"
        /\ pc \in {"refill", "create"} => running

(* PoolFull, also while an event is handled.                               *)
FullAtWork ==
    pc \in {"run", "read", "write", "reconnect"} =>
        /\ \/ Cardinality(InPool) = args.pool
           \/ Cardinality(InPool) + done = args.total
        /\ running <=> done < args.total

IInv ==
    /\ TypeOK
    /\ WrappersMade
    /\ CheckersInOrder
    /\ StatesAgree
    /\ AtWork
    /\ FullAtWork
    /\ AccountsBalance

-----------------------------------------------------------------------------
(***************************************************************************)
(* The lists of wrappers.                                                  *)
(***************************************************************************)

LEMMA ListParts ==
    ASSUME NEW L, L \in Lists
    PROVE  /\ L.cell \in [Address -> Wrapper \cup {Null}]
           /\ L.back \in [Wrapper -> Address \cup {Null}]
           /\ L.last \in [{Free, Used} -> Address]
           /\ L.made \subseteq Wrapper
           /\ L = [cell |-> L.cell, back |-> L.back, last |-> L.last,
                   made |-> L.made]
           /\ Wrapper \subseteq Address /\ Free \in Address
           /\ Null \notin Address
  BY WrapperAssumption DEF Lists, Address

(* TAILQ_INSERT_TAIL of a wrapper that may be new.                         *)
LEMMA InsertLinked ==
    ASSUME NEW L, L \in Lists, NEW h \in {Free, Used}, NEW w \in L.made,
           \A v \in L.made \ {w} : L.back[v] # Null,
           \A a \in Address : L.cell[a] \in L.made \cup {Null}
    PROVE  Linked(InsertTail(L, h, w)) /\ InsertTail(L, h, w).made = L.made
<1> DEFINE K == InsertTail(L, h, w)
<1>1. /\ K.cell = [L.cell EXCEPT ![w] = Null, ![L.last[h]] = w]
      /\ K.back = [L.back EXCEPT ![w] = L.last[h]]
      /\ K.last = [L.last EXCEPT ![h] = w]
      /\ K.made = L.made
      /\ K = [cell |-> K.cell, back |-> K.back, last |-> K.last, made |-> K.made]
  BY DEF InsertTail
<1> HIDE DEF K
<1>2. w \in Wrapper /\ w \in Address /\ L.last[h] \in Address
      /\ L.last[h] # Null
  BY ListParts
<1>3. /\ K.cell \in [Address -> Wrapper \cup {Null}]
      /\ \A a \in Address : K.cell[a] \in K.made \cup {Null}
  BY <1>1, <1>2, ListParts
<1>4. /\ K.back \in [Wrapper -> Address \cup {Null}]
      /\ \A v \in K.made : K.back[v] # Null
  BY <1>1, <1>2, ListParts
<1>5. K.last \in [{Free, Used} -> Address] /\ K.made \subseteq Wrapper
  BY <1>1, <1>2, ListParts
<1>6. K \in Lists
  BY <1>1, <1>3, <1>4, <1>5 DEF Lists
<1> QED BY <1>1, <1>3, <1>4, <1>6 DEF Linked, K

LEMMA UnlinkLinked ==
    ASSUME NEW L, Linked(L), NEW w \in L.made
    PROVE  Linked(Unlink(L, w)) /\ Unlink(L, w).made = L.made
<1> DEFINE K == Unlink(L, w)
<1>0. L \in Lists
  BY DEF Linked
<1>1. /\ K.cell = [L.cell EXCEPT ![L.back[w]] = L.cell[w]]
      /\ K.back = L.back /\ K.last = L.last /\ K.made = L.made
      /\ K = [cell |-> K.cell, back |-> K.back, last |-> K.last, made |-> K.made]
  BY <1>0, ListParts DEF Unlink, Lists
<1> HIDE DEF K
<1>2. w \in Address /\ L.back[w] \in Address /\ L.cell[w] \in L.made \cup {Null}
  BY <1>0, ListParts DEF Linked
<1>3. /\ K.cell \in [Address -> Wrapper \cup {Null}]
      /\ \A a \in Address : K.cell[a] \in K.made \cup {Null}
  BY <1>0, <1>1, <1>2, ListParts DEF Linked
<1>4. K \in Lists
  BY <1>0, <1>1, <1>3, ListParts DEF Lists
<1> QED BY <1>1, <1>3, <1>4 DEF Linked, K

(* TAILQ_REMOVE                                                            *)
LEMMA RemoveLinked ==
    ASSUME NEW L, Linked(L), NEW h \in {Free, Used}, NEW w \in L.made
    PROVE  Linked(Remove(L, h, w)) /\ Remove(L, h, w).made = L.made
<1>0. L \in Lists
  BY DEF Linked
<1>1. w \in Address /\ L.back[w] \in Address /\ L.cell[w] \in L.made \cup {Null}
  BY <1>0, ListParts DEF Linked
<1>2. CASE L.cell[w] # Null
  <2> DEFINE K == [L EXCEPT !.back[L.cell[w]] = L.back[w]]
  <2>1. /\ K.back = [L.back EXCEPT ![L.cell[w]] = L.back[w]]
        /\ K.cell = L.cell /\ K.last = L.last /\ K.made = L.made
        /\ K = [cell |-> K.cell, back |-> K.back, last |-> K.last,
                made |-> K.made]
    BY <1>0, ListParts
  <2>2. Remove(L, h, w) = Unlink(K, w)
    BY <1>2 DEF Remove
  <2> HIDE DEF K
  <2>3. /\ K.back \in [Wrapper -> Address \cup {Null}]
        /\ \A v \in K.made : K.back[v] # Null
    BY <1>0, <1>1, <1>2, <2>1, ListParts DEF Linked
  <2>4. Linked(K)
    BY <1>0, <2>1, <2>3, ListParts DEF Linked, Lists
  <2> QED BY <2>1, <2>2, <2>4, UnlinkLinked
<1>3. CASE L.cell[w] = Null
  <2> DEFINE K == [L EXCEPT !.last[h] = L.back[w]]
  <2>1. /\ K.last = [L.last EXCEPT ![h] = L.back[w]]
        /\ K.cell = L.cell /\ K.back = L.back /\ K.made = L.made
        /\ K = [cell |-> K.cell, back |-> K.back, last |-> K.last,
                made |-> K.made]
    BY <1>0, ListParts
  <2>2. Remove(L, h, w) = Unlink(K, w)
    BY <1>3 DEF Remove
  <2> HIDE DEF K
  <2>3. K.last \in [{Free, Used} -> Address]
    BY <1>0, <1>1, <2>1, ListParts
  <2>4. Linked(K)
    BY <1>0, <2>1, <2>3, ListParts DEF Linked, Lists
  <2> QED BY <2>1, <2>2, <2>4, UnlinkLinked
<1> QED BY <1>2, <1>3

(* connectWrapper                                                          *)
LEMMA TakeLinked ==
    ASSUME NEW L, Linked(L), CanTake(L)
    PROVE  /\ Taken(L) \in Wrapper
           /\ Linked(AfterTake(L))
           /\ AfterTake(L).made = L.made \cup {Taken(L)}
<1>0. L \in Lists
  BY DEF Linked
<1>1. CASE L.cell[Free] # Null
  <2>1. Taken(L) = L.cell[Free] /\ Taken(L) \in L.made
    BY <1>0, <1>1, ListParts DEF Taken, Linked
  <2> DEFINE K == Remove(L, Free, Taken(L))
  <2>2. Linked(K) /\ K.made = L.made
    BY <2>1, RemoveLinked
  <2>3. AfterTake(L) = InsertTail(K, Used, Taken(L))
    BY <1>1, <2>1 DEF AfterTake
  <2> HIDE DEF K
  <2>4. /\ Linked(InsertTail(K, Used, Taken(L)))
        /\ InsertTail(K, Used, Taken(L)).made = K.made
    BY <2>1, <2>2, InsertLinked DEF Linked
  <2> QED BY <1>0, <2>1, <2>2, <2>3, <2>4, ListParts
<1>2. CASE L.cell[Free] = Null
  <2>1. Taken(L) = Fresh(L) /\ Taken(L) \in Wrapper /\ Taken(L) \notin L.made
    <3>1. \E w \in Wrapper : w \notin L.made
      BY <1>0, <1>2, ListParts DEF CanTake
    <3> QED BY <1>2, <3>1 DEF Taken, Fresh
  <2> DEFINE w == Taken(L)
             K == [L EXCEPT !.made = L.made \cup {w}]
  <2>2. /\ K.made = L.made \cup {w}
        /\ K.cell = L.cell /\ K.back = L.back /\ K.last = L.last
        /\ K = [cell |-> K.cell, back |-> K.back, last |-> K.last,
                made |-> K.made]
    BY <1>0 DEF Lists
  <2>3. AfterTake(L) = InsertTail(K, Used, w)
    BY <1>0, <1>2, ListParts DEF AfterTake
  <2> HIDE DEF K, w
  <2>4. K \in Lists /\ w \in K.made
    BY <1>0, <2>1, <2>2, ListParts DEF Lists, w
  <2>5. /\ \A v \in K.made \ {w} : K.back[v] # Null
        /\ \A a \in Address : K.cell[a] \in K.made \cup {Null}
    BY <2>2 DEF Linked
  <2>6. Linked(InsertTail(K, Used, w)) /\ InsertTail(K, Used, w).made = K.made
    BY <2>4, <2>5, InsertLinked
  <2> QED BY <2>1, <2>2, <2>3, <2>6 DEF w
<1> QED BY <1>1, <1>2

(* disconnectWrapper                                                       *)
LEMMA ReturnLinked ==
    ASSUME NEW L, Linked(L), NEW w \in L.made
    PROVE  Linked(AfterReturn(L, w)) /\ AfterReturn(L, w).made = L.made
<1> DEFINE K == InsertTail(L, Free, w)
<1>1. Linked(K) /\ K.made = L.made
  BY InsertLinked DEF Linked
<1>2. AfterReturn(L, w) = Remove(K, Used, w)
  BY DEF AfterReturn
<1> HIDE DEF K
<1> QED BY <1>1, <1>2, RemoveLinked

-----------------------------------------------------------------------------
(***************************************************************************)
(* Counting.                                                               *)
(***************************************************************************)

LEMMA Counts ==
    /\ IsFiniteSet(Checkers)
    /\ \A S \in SUBSET Checkers : IsFiniteSet(S) /\ Cardinality(S) \in Nat
<1>1. IsFiniteSet(Checkers)
  BY FS_Interval, ClientAssumption DEF Checkers
<1> QED BY <1>1, FS_Subset, FS_CardinalityType

LEMMA PoolParts ==
    /\ InPool \subseteq Checkers /\ Gone \subseteq Checkers
    /\ InPool \cap Gone = {}
    /\ \A c \in Checkers : c \in Made <=> state[c] # "none"
  BY DEF InPool, Gone, Made

LEMMA AddOne ==
    ASSUME NEW S \in SUBSET Checkers, NEW c \in Checkers, c \notin S
    PROVE  Cardinality(S \cup {c}) = Cardinality(S) + 1
  BY Counts, FS_AddElement

LEMMA DropOne ==
    ASSUME NEW S \in SUBSET Checkers, NEW c \in S
    PROVE  Cardinality(S \ {c}) = Cardinality(S) - 1 /\ Cardinality(S) > 0
<1>1. Cardinality(S \ {c}) = Cardinality(S) - 1
  BY Counts, FS_RemoveElement
<1>2. Cardinality(S \ {c}) \in Nat /\ Cardinality(S) \in Nat
  BY Counts
<1> QED BY <1>1, <1>2

-----------------------------------------------------------------------------
(***************************************************************************)
(* What a step keeps that leaves the variables of a part alone.            *)
(***************************************************************************)

LEMMA WrappersKept ==
    ASSUME WrappersMade, UNCHANGED pool
    PROVE  WrappersMade'
  BY DEF WrappersMade, Linked, pool

LEMMA StatesKept ==
    ASSUME StatesAgree, UNCHANGED <<state, fd, wrapper, output, taskset>>
    PROVE  StatesAgree'
  BY DEF StatesAgree, OutputWatched, Watched

(* A checker that changes its state within the pool is not counted anew.   *)
LEMMA CountsKept ==
    ASSUME CheckersInOrder, AccountsBalance,
           InPool' = InPool, Gone' = Gone,
           \A c \in Gone : verdict'[c] = verdict[c],
           UNCHANGED <<args, done, status>>
    PROVE  CheckersInOrder' /\ AccountsBalance'
<1>1. Made' = Made
  BY DEF Made
<1>2. \A v : {c \in Gone' : verdict'[c] = v} = {c \in Gone : verdict[c] = v}
  OBVIOUS
<1>3. AccountsBalance'
  BY <1>2 DEF AccountsBalance
<1> QED BY <1>1, <1>3 DEF CheckersInOrder

LEMMA PoolKept ==
    ASSUME TypeOK, NEW c \in InPool, NEW s, s \notin {"none", "gone"},
           state' = [state EXCEPT ![c] = s]
    PROVE  InPool' = InPool /\ Gone' = Gone
  BY DEF InPool, Gone, TypeOK

LEMMA PoolSame ==
    ASSUME UNCHANGED state
    PROVE  InPool' = InPool /\ Gone' = Gone
  BY DEF InPool, Gone

(* Whoever handles an event finds the loop running.                        *)
LEMMA RunningAtWork ==
    ASSUME IInv, fault = "none",
           pc \in {"refill", "create", "read", "write", "reconnect"}
    PROVE  running /\ (pc # "refill" => cur \in InPool)
<1>1. CASE pc \in {"refill", "create"}
  BY <1>1 DEF IInv, AtWork, InPool
<1>2. CASE pc \in {"read", "write", "reconnect"}
  <2>1. cur \in InPool
    BY <1>2 DEF IInv, AtWork, InPool
  <2>2. Cardinality(InPool) > 0
    BY <2>1, DropOne, PoolParts
  <2>3. /\ Cardinality(InPool) + done <= args.total
        /\ running <=> done < args.total
    BY <1>2 DEF IInv, AccountsBalance, FullAtWork
  <2>4. done \in Nat /\ args.total \in Nat /\ Cardinality(InPool) \in Nat
    BY Counts, PoolParts, ClientAssumption DEF IInv, TypeOK
  <2> QED BY <2>1, <2>2, <2>3, <2>4
<1> QED BY <1>1, <1>2

-----------------------------------------------------------------------------
(***************************************************************************)
(* One lemma per action: it preserves the inductive invariant.             *)
(***************************************************************************)

LEMMA InitIInv == Init => IInv
<1> SUFFICES ASSUME Init PROVE IInv
  OBVIOUS
<1>1. /\ lists.cell = [a \in Address |-> Null] /\ lists.made = {}
      /\ lists.back = [w \in Wrapper |-> Null]
      /\ lists.last = [h \in {Free, Used} |-> h]
      /\ lists = [cell |-> lists.cell, back |-> lists.back,
                  last |-> lists.last, made |-> lists.made]
  BY DEF Init, EmptyLists
<1>2. lists \in Lists
  BY <1>1 DEF Lists, Address
<1>3. TypeOK
  <2>1. done \in 0..args.total
    BY ClientAssumption DEF Init, NewMgr
  <2>2. status \in [Verdicts -> Nat] /\ verdict \in [Checkers -> Verdicts]
    BY DEF Init, NewMgr, Verdicts
  <2>3. /\ conn \in [Wrapper -> Checkers \cup {NoChecker}]
        /\ wrapper \in [Checkers -> Wrapper \cup {Null}]
        /\ rp \in [Checkers -> 0..Addrs] /\ left \in [Checkers -> 0..Units]
    BY ClientAssumption DEF Init
  <2> QED BY <1>2, <2>1, <2>2, <2>3 DEF Init, TypeOK
<1>4. WrappersMade
  BY <1>1, <1>2 DEF Init, WrappersMade, Linked
<1>5. InPool = {} /\ Gone = {} /\ Made = {}
  BY DEF Init, InPool, Gone, Made
<1>6. Cardinality({}) = 0
  BY FS_EmptySet
<1>7. CheckersInOrder
  BY <1>5, <1>6 DEF CheckersInOrder
<1>8. AccountsBalance
  <2>1. \A v : {c \in Gone : verdict[c] = v} = {}
    BY <1>5
  <2>2. done = 0 /\ \A v \in Verdicts : status[v] = 0
    BY DEF Init, NewMgr
  <2>3. args.pool \in Nat /\ args.total \in Nat
    BY <1>3, ClientAssumption DEF TypeOK
  <2> QED BY <1>5, <1>6, <2>1, <2>2, <2>3 DEF AccountsBalance
<1>9. StatesAgree
  BY DEF Init, StatesAgree, OutputWatched
<1>10. AtWork /\ FullAtWork
  BY DEF Init, AtWork, FullAtWork
<1> QED BY <1>3, <1>4, <1>7, <1>8, <1>9, <1>10 DEF IInv

(* A new checker has the next number; Needed leaves room for it.           *)
LEMMA CreateKeepsIInv ==
    ASSUME IInv, fault = "none", Create
    PROVE  IInv'
<1> DEFINE c == Cardinality(Made) + 1
<1>1. /\ pc = "refill" /\ Needed /\ c \in Checkers
      /\ state' = [state EXCEPT ![c] = "CONNECTING"]
      /\ rp' = [rp EXCEPT ![c] = Addrs]
      /\ left' \in {[left EXCEPT ![c] = n] : n \in SomeData}
      /\ pc' = "create" /\ cur' = c
      /\ UNCHANGED <<args, pool, leaked, fd, again, taskset, output,
                     verdict, mgr, batch, evt, fault>>
  BY DEF Create, Made
<1>2. c \notin Made /\ Cardinality(Made) \in Nat
  BY Counts, PoolParts DEF IInv, CheckersInOrder, Made
<1> HIDE DEF c
<1>3. left' \in [Checkers -> 0..Units]
  BY <1>1, ClientAssumption DEF IInv, TypeOK, SomeData
<1>4. TypeOK'
  BY <1>1, <1>3, ClientAssumption DEF IInv, TypeOK, pool, mgr
<1>5. /\ InPool' = InPool \cup {c} /\ Gone' = Gone
      /\ Made' = Made \cup {c} /\ c \notin InPool
  BY <1>1, <1>2 DEF IInv, TypeOK, InPool, Gone, Made
<1>6. Cardinality(InPool') = Cardinality(InPool) + 1
  BY <1>1, <1>5, AddOne, PoolParts
<1>7. CheckersInOrder'
  <2>1. Cardinality(Made') = Cardinality(Made) + 1
    BY <1>1, <1>2, <1>5, AddOne, PoolParts DEF Made
  <2>2. Made' = 1..c /\ Cardinality(Made') = c
    BY <1>2, <1>5, <2>1 DEF IInv, CheckersInOrder, c
  <2> QED BY <2>2 DEF CheckersInOrder
<1>8. AccountsBalance'
  <2>1. /\ Cardinality(InPool) + 1 <= args.pool
        /\ Cardinality(InPool) + 1 + done <= args.total
    BY <1>1, Counts, PoolParts, ClientAssumption DEF Needed, IInv, TypeOK
  <2>2. \A v : {d \in Gone' : verdict'[d] = v} = {d \in Gone : verdict[d] = v}
    BY <1>1, <1>5
  <2> QED BY <1>1, <1>5, <1>6, <2>1, <2>2 DEF IInv, AccountsBalance, mgr
<1>9. WrappersMade'
  BY <1>1, WrappersKept DEF IInv
<1>10. StatesAgree'
  BY <1>1 DEF IInv, TypeOK, StatesAgree, OutputWatched, Watched, pool
<1>11. AtWork' /\ FullAtWork'
  BY <1>1 DEF IInv, TypeOK, AtWork, FullAtWork, mgr
<1> QED BY <1>4, <1>7, <1>8, <1>9, <1>10, <1>11 DEF IInv

LEMMA RefilledKeepsIInv ==
    ASSUME IInv, fault = "none", Refilled
    PROVE  IInv'
<1>1. /\ pc = "refill" /\ ~Needed
      /\ running' = (running /\ ~Stops)
      /\ pc' = "run"
      /\ UNCHANGED <<args, pool, leaked, tcp, left, verdict, done, status,
                     batch, cur, evt, fault>>
  BY DEF Refilled
<1>2. TypeOK'
  BY <1>1 DEF IInv, TypeOK, pool, tcp
<1>3. WrappersMade' /\ StatesAgree'
  BY <1>1, WrappersKept, StatesKept DEF IInv, tcp, pool
<1>4. InPool' = InPool /\ Gone' = Gone
  BY <1>1, PoolSame DEF tcp
<1>5. CheckersInOrder' /\ AccountsBalance'
  BY <1>1, <1>4, CountsKept DEF IInv
<1>6. FullAtWork'
  <2>1. /\ done \in Nat /\ args.total \in Nat /\ args.pool \in Nat
        /\ Cardinality(InPool) \in Nat
    BY Counts, PoolParts, ClientAssumption DEF IInv, TypeOK
  <2>2. /\ Cardinality(InPool) <= args.pool
        /\ Cardinality(InPool) + done <= args.total
    BY DEF IInv, AccountsBalance
  <2>3. \/ Cardinality(InPool) = args.pool
        \/ Cardinality(InPool) + done = args.total
    BY <1>1, <2>1, <2>2 DEF Needed
  <2>4. running /\ (Stops <=> ~(done < args.total))
    <3>1. Cardinality(InPool) = 0 => InPool = {}
      BY Counts, PoolParts, FS_EmptySet
    <3> QED BY <1>1, <2>1, <2>2, <3>1 DEF Stops, IInv, AtWork
  <2> QED BY <1>1, <1>4, <2>3, <2>4 DEF FullAtWork
<1>7. AtWork'
  BY <1>1 DEF AtWork
<1> QED BY <1>2, <1>3, <1>5, <1>6, <1>7 DEF IInv

(* The steps of connect and tryConnect.                                    *)
LEMMA ConnectKeepsIInv ==
    ASSUME IInv, fault = "none", Connect
    PROVE  IInv'
<1>1. /\ pc \in {"create", "reconnect"} /\ cur \in Checkers
      /\ state[cur] = "CONNECTING" /\ cur \in InPool
  BY RunningAtWork DEF IInv, AtWork, Connect, GivesUp, NextAddress,
     NotAvailable, InProgress, ConnectsAtOnce, Connecting
<1>2. ASSUME ConnectEnds, UNCHANGED <<args, mgr, fault>>, InPool' = InPool
      PROVE  AtWork' /\ FullAtWork'
  <2>1. \/ pc' = "refill" /\ pc = "create"
        \/ pc' = "run" /\ pc = "reconnect"
    BY <1>1, <1>2 DEF ConnectEnds
  <2> QED BY <1>2, <2>1 DEF IInv, AtWork, FullAtWork, mgr
<1>3. CASE GivesUp
  <2>1. /\ state' = [state EXCEPT ![cur] = "WAIT_CONNECT"]
        /\ ConnectEnds
        /\ UNCHANGED <<args, pool, leaked, fd, rp, taskset, output, left,
                       verdict, mgr, batch, fault>>
    BY <1>3 DEF GivesUp
  <2>2. InPool' = InPool /\ Gone' = Gone
    BY <1>1, <2>1, PoolKept DEF IInv
  <2>3. TypeOK'
    BY <1>1, <2>1 DEF IInv, TypeOK, pool, mgr, ConnectEnds
  <2>4. WrappersMade'
    BY <2>1, WrappersKept DEF IInv
  <2>5. StatesAgree'
    BY <1>1, <2>1 DEF IInv, TypeOK, StatesAgree, OutputWatched, Watched, pool
  <2>6. CheckersInOrder' /\ AccountsBalance'
    BY <2>1, <2>2, CountsKept DEF IInv, mgr
  <2> QED BY <1>2, <2>1, <2>2, <2>3, <2>4, <2>5, <2>6 DEF IInv
<1>4. CASE NextAddress \/ NotAvailable
  <2>1. /\ UNCHANGED <<args, pool, leaked, state, fd, taskset, output, left,
                       verdict, mgr, batch, at, fault>>
        /\ rp' \in [Checkers -> 0..Addrs] /\ again' \in BOOLEAN
    <3>1. rp[cur] \in 0..Addrs /\ Addrs \in Nat
      BY <1>1, ClientAssumption DEF IInv, TypeOK
    <3>2. CASE NextAddress
      BY <1>1, <3>1, <3>2 DEF NextAddress, IInv, TypeOK
    <3>3. CASE NotAvailable
      BY <1>1, <3>1, <3>3 DEF NotAvailable, IInv, TypeOK
    <3> QED BY <1>4, <3>2, <3>3
  <2>2. TypeOK'
    BY <2>1 DEF IInv, TypeOK, pool, mgr, at
  <2>3. InPool' = InPool /\ Gone' = Gone
    BY <2>1, PoolSame
  <2>4. CheckersInOrder' /\ AccountsBalance'
    BY <2>1, <2>3, CountsKept DEF IInv, mgr
  <2>5. WrappersMade' /\ StatesAgree'
    BY <2>1, WrappersKept, StatesKept DEF IInv, pool
  <2>6. AtWork' /\ FullAtWork'
    BY <2>1, <2>3 DEF IInv, AtWork, FullAtWork, mgr, at
  <2> QED BY <2>2, <2>4, <2>5, <2>6 DEF IInv
<1>5. CASE InProgress
  <2> DEFINE w == Taken(lists)
  <2>1. /\ CanTake(lists)
        /\ lists' = AfterTake(lists)
        /\ conn' = [conn EXCEPT ![w] = cur]
        /\ wrapper' = [wrapper EXCEPT ![cur] = w]
        /\ taskset' = [taskset EXCEPT ![cur] = {"OUT"}]
        /\ fd' = [fd EXCEPT ![cur] = ~again]
        /\ ConnectEnds
        /\ UNCHANGED <<args, leaked, state, rp, output, left, verdict, mgr,
                       batch, fault>>
    BY <1>5 DEF InProgress
  <2>2. /\ w \in Wrapper /\ Linked(lists')
        /\ lists'.made = lists.made \cup {w}
    BY <2>1, TakeLinked DEF IInv, WrappersMade
  <2> HIDE DEF w
  <2>3. w # Null
    BY <2>2, WrapperAssumption
  <2>4. TypeOK'
    BY <1>1, <2>1, <2>2 DEF IInv, TypeOK, mgr, ConnectEnds, Linked
  <2>5. WrappersMade'
    BY <1>1, <2>1, <2>2 DEF IInv, TypeOK, WrappersMade
  <2>6. StatesAgree'
    BY <1>1, <2>1, <2>3 DEF IInv, TypeOK, StatesAgree, OutputWatched, Watched
  <2>7. InPool' = InPool /\ Gone' = Gone
    BY <2>1, PoolSame
  <2>8. CheckersInOrder' /\ AccountsBalance'
    BY <2>1, <2>7, CountsKept DEF IInv, mgr
  <2> QED BY <1>2, <2>1, <2>4, <2>5, <2>6, <2>7, <2>8 DEF IInv
<1>6. CASE ConnectsAtOnce
  <2>1. /\ fault' = "wild"
        /\ UNCHANGED <<args, pool, leaked, tcp, left, verdict, mgr, batch, at>>
    BY <1>6 DEF ConnectsAtOnce
  <2>2. TypeOK'
    BY <2>1 DEF IInv, TypeOK, pool, tcp, mgr, at
  <2>3. InPool' = InPool /\ Gone' = Gone
    BY <2>1, PoolSame DEF tcp
  <2>4. CheckersInOrder' /\ AccountsBalance'
    BY <2>1, <2>3, CountsKept DEF IInv, mgr
  <2>5. WrappersMade' /\ StatesAgree'
    BY <2>1, WrappersKept, StatesKept DEF IInv, pool, tcp
  <2>6. AtWork' /\ FullAtWork'
    BY <2>1, <2>3 DEF IInv, AtWork, FullAtWork, mgr, at
  <2> QED BY <2>2, <2>4, <2>5, <2>6 DEF IInv
<1> QED BY <1>3, <1>4, <1>5, <1>6 DEF Connect

-----------------------------------------------------------------------------
(* epoll_wait, Wrapper::onEvent and TcpConn::onEvent up to its handlers.   *)
LEMMA EventKeepsIInv ==
    ASSUME IInv, fault = "none",
           EpollWait \/ \E e \in batch : Drop(e) \/ Dispatch(e)
    PROVE  IInv'
<1>1. ASSUME UNCHANGED <<args, pool, leaked, tcp, left, verdict, mgr>>
      PROVE  /\ WrappersMade' /\ StatesAgree'
             /\ InPool' = InPool /\ CheckersInOrder' /\ AccountsBalance'
  <2>1. WrappersMade' /\ StatesAgree'
    BY <1>1, WrappersKept, StatesKept DEF IInv, pool, tcp
  <2>2. InPool' = InPool /\ Gone' = Gone
    BY <1>1, PoolSame DEF tcp
  <2> QED BY <1>1, <2>1, <2>2, CountsKept DEF IInv, mgr
<1>2. CASE EpollWait
  <2>1. /\ batch' \subseteq Ready
        /\ UNCHANGED <<args, pool, leaked, tcp, left, verdict, mgr, at, fault>>
    BY <1>2 DEF EpollWait
  <2>2. \A r \in Ready : r \in [w : Wrapper, evt : SUBSET Bits]
    <3>1. ASSUME NEW c \in Checkers, Watched(c), NEW r \in Reports(c)
          PROVE  r \in [w : Wrapper, evt : SUBSET Bits]
      <4>1. wrapper[c] \in Wrapper /\ taskset[c] \subseteq Bits
        BY <3>1 DEF Watched, IInv, TypeOK, Bits
      <4> QED BY <3>1, <4>1 DEF Reports, Bits
    <3>2. \A w \in leaked : [w |-> w, evt |-> {"OUT", "HUP"}]
                              \in [w : Wrapper, evt : SUBSET Bits]
      BY DEF IInv, TypeOK, Bits
    <3> QED BY <3>1, <3>2 DEF Ready
  <2>3. TypeOK'
    BY <2>1, <2>2 DEF IInv, TypeOK, pool, tcp, mgr, at
  <2>4. AtWork' /\ FullAtWork'
    BY <1>1, <2>1 DEF IInv, AtWork, FullAtWork, tcp, mgr, at
  <2> QED BY <1>1, <2>1, <2>3, <2>4 DEF IInv
<1>3. ASSUME NEW e \in batch, Drop(e)
      PROVE  IInv'
  <2>1. /\ batch' \subseteq batch
        /\ UNCHANGED <<args, pool, leaked, tcp, left, verdict, mgr, at, fault>>
    BY <1>3 DEF Drop
  <2>2. TypeOK'
    BY <2>1 DEF IInv, TypeOK, pool, tcp, mgr, at
  <2>3. AtWork' /\ FullAtWork'
    BY <1>1, <2>1 DEF IInv, AtWork, FullAtWork, tcp, mgr, at
  <2> QED BY <1>1, <2>1, <2>2, <2>3 DEF IInv
<1>4. ASSUME NEW e \in batch, Dispatch(e)
      PROVE  IInv'
  <2> DEFINE c == conn[e.w]
  <2>1. /\ pc = "run" /\ c # NoChecker /\ batch' \subseteq batch
        /\ fault' = Broken(c, e)
        /\ cur' = c /\ evt' = e.evt
        /\ pc' = IF "IN" \in e.evt \/ "HUP" \in e.evt THEN "read" ELSE "write"
        /\ UNCHANGED <<args, pool, leaked, tcp, left, verdict, mgr>>
    BY <1>4 DEF Dispatch
  <2>2. c \in Checkers /\ e.evt \subseteq Bits
    BY <2>1 DEF IInv, TypeOK
  <2> HIDE DEF c
  <2>3. /\ Broken(c, e) \in {"deleted", "assertion", "none"}
        /\ Broken(c, e) = "none" =>
             /\ state[c] # "gone" /\ fd[c]
             /\ "IN" \in e.evt =>
                  \/ state[c] = "CONNECTED"
                  \/ "HUP" \in e.evt /\ state[c] = "CONNECTING"
    BY DEF Broken
  <2>4. TypeOK'
    BY <2>1, <2>2, <2>3 DEF IInv, TypeOK, pool, tcp, mgr
  <2>5. AtWork'
    <3> SUFFICES ASSUME fault' = "none" PROVE AtWork'
      BY DEF AtWork
    <3>1. /\ state[c] \notin {"none", "gone"} /\ fd[c]
          /\ "IN" \in e.evt => \/ state[c] = "CONNECTED"
                               \/ "HUP" \in e.evt /\ state[c] = "CONNECTING"
      BY <2>1, <2>2, <2>3 DEF IInv, StatesAgree
    <3>2. c \in InPool'
      BY <1>1, <2>1, <2>2, <3>1 DEF InPool
    <3> QED BY <2>1, <2>2, <3>1, <3>2 DEF AtWork, tcp
  <2>6. FullAtWork'
    BY <1>1, <2>1 DEF IInv, FullAtWork, mgr
  <2> QED BY <1>1, <2>1, <2>4, <2>5, <2>6 DEF IInv
<1> QED BY <1>2, <1>3, <1>4

(* The end of a checker: onClosed out of closeNow, and onCheckerDone.      *)
LEMMA EndsKeepsIInv ==
    ASSUME IInv, fault = "none", pc \in {"read", "write"}, Ends(cur),
           left' \in [Checkers -> 0..Units],
           verdict' \in [Checkers -> Verdicts],
           \A c \in Checkers \ {cur} : verdict'[c] = verdict[c]
    PROVE  IInv'
<1>1. /\ lists' = AfterReturn(lists, wrapper[cur])
      /\ conn' = [conn EXCEPT ![wrapper[cur]] = NoChecker]
      /\ wrapper' = [wrapper EXCEPT ![cur] = Null]
      /\ fd' = [fd EXCEPT ![cur] = FALSE]
      /\ output' = [output EXCEPT ![cur] = FALSE]
      /\ status' = [status EXCEPT ![verdict'[cur]] = @ + 1]
      /\ state' = [state EXCEPT ![cur] = "gone"]
      /\ done' = done + 1
      /\ pc' = "refill" /\ cur' = NoChecker /\ evt' = {}
      /\ UNCHANGED <<args, leaked, rp, again, taskset, running, batch, fault>>
  BY DEF Ends, RemoveTask, OnClosed, OnCheckerDone
<1>2. /\ running /\ cur \in InPool /\ cur \in Checkers /\ fd[cur]
      /\ wrapper[cur] \in lists.made
  BY RunningAtWork, PoolParts DEF IInv, AtWork, StatesAgree, WrappersMade
<1>3. /\ InPool' = InPool \ {cur} /\ Gone' = Gone \cup {cur}
      /\ Made' = Made /\ cur \notin Gone
  BY <1>1, <1>2 DEF IInv, TypeOK, InPool, Gone, Made
<1>4. /\ Cardinality(InPool') = Cardinality(InPool) - 1
      /\ Cardinality(Gone') = Cardinality(Gone) + 1
      /\ Cardinality(InPool) > 0
  BY <1>2, <1>3, AddOne, DropOne, PoolParts
<1>5. /\ done \in Nat /\ args.total \in Nat /\ args.pool \in Nat
      /\ Cardinality(InPool) \in Nat
      /\ Cardinality(InPool) <= args.pool
      /\ Cardinality(InPool) + done <= args.total
      /\ done = Cardinality(Gone)
  BY Counts, PoolParts, ClientAssumption DEF IInv, TypeOK, AccountsBalance
<1>6. Linked(lists') /\ lists'.made = lists.made
  BY <1>1, <1>2, ReturnLinked DEF IInv, WrappersMade
<1>7. TypeOK'
  <2>1. done' \in 0..args.total
    BY <1>1, <1>4, <1>5
  <2>2. status' \in [Verdicts -> Nat]
    BY <1>1, <1>2 DEF IInv, TypeOK
  <2>3. /\ conn' \in [Wrapper -> Checkers \cup {NoChecker}]
        /\ wrapper' \in [Checkers -> Wrapper \cup {Null}]
        /\ fd' \in [Checkers -> BOOLEAN] /\ output' \in [Checkers -> BOOLEAN]
    BY <1>1 DEF IInv, TypeOK
  <2> QED BY <1>1, <1>6, <2>1, <2>2, <2>3 DEF IInv, TypeOK, Linked
<1>8. WrappersMade'
  BY <1>1, <1>2, <1>6 DEF IInv, TypeOK, WrappersMade
<1>9. StatesAgree'
  BY <1>1, <1>2 DEF IInv, TypeOK, StatesAgree, OutputWatched, Watched
<1>10. CheckersInOrder'
  BY <1>3 DEF IInv, CheckersInOrder
<1>11. AccountsBalance'
  <2>1. ASSUME NEW v \in Verdicts
        PROVE  status'[v] = Cardinality({c \in Gone' : verdict'[c] = v})
    <3> DEFINE S == {c \in Gone : verdict[c] = v}
    <3>1. S \in SUBSET Checkers /\ cur \notin S /\ status[v] = Cardinality(S)
      BY <1>3, PoolParts DEF IInv, AccountsBalance
    <3>2. CASE verdict'[cur] = v
      <4>1. {c \in Gone' : verdict'[c] = v} = S \cup {cur}
        BY <1>3, <3>2, PoolParts
      <4>2. status'[v] = status[v] + 1
        BY <1>1, <3>2 DEF IInv, TypeOK
      <4> HIDE DEF S
      <4> QED BY <1>2, <3>1, <4>1, <4>2, AddOne
    <3>3. CASE verdict'[cur] # v
      <4>1. {c \in Gone' : verdict'[c] = v} = S
        BY <1>3, <3>3, PoolParts
      <4>2. status'[v] = status[v]
        BY <1>1, <3>3 DEF IInv, TypeOK
      <4> QED BY <3>1, <4>1, <4>2
    <3> QED BY <3>2, <3>3
  <2> QED BY <1>1, <1>4, <1>5, <2>1 DEF AccountsBalance
<1>12. AtWork' /\ FullAtWork'
  BY <1>1, <1>2 DEF AtWork, FullAtWork
<1> QED BY <1>7, <1>8, <1>9, <1>10, <1>11, <1>12 DEF IInv

-----------------------------------------------------------------------------
(* After a handler that leaves its checker in the pool.                    *)
LEMMA GoesOn ==
    ASSUME IInv, fault = "none", pc \in {"read", "write"},
           NEW label \in {"write", "run"}, Goes(label),
           InPool' = InPool, fd' = fd, UNCHANGED <<args, mgr, fault>>
    PROVE  /\ AtWork' /\ FullAtWork'
           /\ pc' \in {"write", "run"} /\ cur' \in Checkers \cup {NoChecker}
           /\ evt' \subseteq Bits
  BY DEF Goes, IInv, TypeOK, AtWork, FullAtWork, mgr

(* onEvent goes on with a checker that onRead has deleted.                 *)
LEMMA UseDeletedKeepsIInv ==
    ASSUME IInv, fault = "none", pc = "read", UseDeleted,
           left' \in [Checkers -> 0..Units],
           verdict' \in [Checkers -> Verdicts],
           \A c \in Checkers \ {cur} : verdict'[c] = verdict[c]
    PROVE  IInv'
<1>1. /\ fault' = "deleted"
      /\ UNCHANGED <<args, pool, leaked, tcp, mgr, batch, at>>
  BY DEF UseDeleted
<1>2. TypeOK'
  BY <1>1 DEF IInv, TypeOK, pool, tcp, mgr, at
<1>3. InPool' = InPool /\ Gone' = Gone
  BY <1>1, PoolSame DEF tcp
<1>4. \A c \in Gone : verdict'[c] = verdict[c]
  BY RunningAtWork, PoolParts
<1>5. CheckersInOrder' /\ AccountsBalance'
  BY <1>1, <1>3, <1>4, CountsKept DEF IInv, mgr
<1>6. WrappersMade' /\ StatesAgree'
  BY <1>1, WrappersKept, StatesKept DEF IInv, pool, tcp
<1>7. AtWork' /\ FullAtWork'
  BY <1>1, <1>3 DEF IInv, AtWork, FullAtWork, mgr, at
<1> QED BY <1>2, <1>5, <1>6, <1>7 DEF IInv

(* closeSoon out of onRead, which has compared what came.                  *)
LEMMA CloseSoonKeepsIInv ==
    ASSUME IInv, fault = "none", Receives, "IN" \in evt, CloseSoon(cur),
           left' \in [Checkers -> 0..Units],
           verdict' \in [Checkers -> Verdicts],
           \A c \in Checkers \ {cur} : verdict'[c] = verdict[c]
    PROVE  IInv'
<1>0. pc = "read"
  BY DEF Receives
<1>1. CASE output[cur]
  <2>1. /\ state' = [state EXCEPT ![cur] = "FLUSHING"]
        /\ taskset' = [taskset EXCEPT ![cur] = (@ \ {"IN"}) \cup {"OUT"}]
        /\ Goes(AfterRead)
        /\ UNCHANGED <<args, pool, leaked, fd, rp, again, output, mgr, batch,
                       fault>>
    BY <1>1 DEF CloseSoon
  <2>2. /\ cur \in InPool /\ cur \in Checkers /\ fd[cur]
        /\ state[cur] = "CONNECTED"
    BY <1>0, RunningAtWork, PoolParts DEF IInv, AtWork, Receives
  <2>3. InPool' = InPool /\ Gone' = Gone
    BY <2>1, <2>2, PoolKept DEF IInv
  <2>4. /\ AtWork' /\ FullAtWork'
        /\ pc' \in {"write", "run"} /\ cur' \in Checkers \cup {NoChecker}
        /\ evt' \subseteq Bits
    BY <1>0, <2>1, <2>3, GoesOn DEF AfterRead
  <2>5. taskset' \in [Checkers -> SUBSET {"IN", "OUT"}]
    BY <2>1 DEF IInv, TypeOK
  <2>6. TypeOK'
    BY <2>1, <2>4, <2>5 DEF IInv, TypeOK, pool, mgr
  <2>7. CheckersInOrder' /\ AccountsBalance'
    BY <2>1, <2>2, <2>3, PoolParts, CountsKept DEF IInv, mgr
  <2>8. WrappersMade'
    BY <2>1, WrappersKept DEF IInv
  <2>9. StatesAgree'
    BY <1>1, <2>1, <2>2 DEF IInv, TypeOK, StatesAgree, OutputWatched, Watched,
                            pool
  <2> QED BY <2>4, <2>6, <2>7, <2>8, <2>9 DEF IInv
<1>2. CASE ~output[cur]
  BY <1>0, <1>2, EndsKeepsIInv, UseDeletedKeepsIInv DEF CloseSoon
<1> QED BY <1>1, <1>2

(* The read half of onEvent.                                               *)
LEMMA ReadKeepsIInv ==
    ASSUME IInv, fault = "none",
           \/ Refused \/ ReadNothing \/ ReadEnd
           \/ \E n \in 0..Units, wrong \in BOOLEAN : ReadUnits(n, wrong)
    PROVE  IInv'
<1>1. /\ left \in [Checkers -> 0..Units] /\ verdict \in [Checkers -> Verdicts]
      /\ Units \in Nat
  BY ClientAssumption DEF IInv, TypeOK
<1>2. CASE Refused \/ ReadEnd
  <2>1. /\ pc = "read" /\ Ends(cur)
        /\ UNCHANGED <<left, verdict>>
    BY <1>2 DEF Refused, ReadEnd, Receives
  <2> QED BY <1>1, <2>1, EndsKeepsIInv
<1>3. ASSUME pc = "read", Goes(AfterRead),
             UNCHANGED <<args, pool, leaked, tcp, mgr, batch, fault>>,
             left' \in [Checkers -> 0..Units],
             verdict' \in [Checkers -> Verdicts],
             \A c \in Checkers \ {cur} : verdict'[c] = verdict[c]
      PROVE  IInv'
  <2>1. InPool' = InPool /\ Gone' = Gone
    BY <1>3, PoolSame DEF tcp
  <2>2. /\ AtWork' /\ FullAtWork'
        /\ pc' \in {"write", "run"} /\ cur' \in Checkers \cup {NoChecker}
        /\ evt' \subseteq Bits
    BY <1>3, <2>1, GoesOn DEF AfterRead, tcp
  <2>3. TypeOK'
    BY <1>3, <2>2 DEF IInv, TypeOK, pool, tcp, mgr
  <2>4. \A c \in Gone : verdict'[c] = verdict[c]
    BY <1>3, RunningAtWork, PoolParts
  <2>5. CheckersInOrder' /\ AccountsBalance'
    BY <1>3, <2>1, <2>4, CountsKept DEF IInv, mgr
  <2>6. WrappersMade' /\ StatesAgree'
    BY <1>3, WrappersKept, StatesKept DEF IInv, pool, tcp
  <2> QED BY <2>2, <2>3, <2>5, <2>6 DEF IInv
<1>4. CASE ReadNothing
  BY <1>1, <1>3, <1>4 DEF ReadNothing, Receives
<1>5. ASSUME NEW n \in 0..Units, NEW wrong \in BOOLEAN, ReadUnits(n, wrong)
      PROVE  IInv'
  <2> DEFINE v == CASE wrong -> "MISMATCH"
                    [] ~wrong /\ n = left[cur] -> "CHECKED"
                    [] OTHER -> "OK"
  <2>1. /\ Receives /\ "IN" \in evt /\ n <= left[cur]
        /\ left' = [left EXCEPT ![cur] = @ - n]
        /\ verdict' = [verdict EXCEPT ![cur] = v]
        /\ IF verdict'[cur] # "OK"
           THEN CloseSoon(cur)
           ELSE /\ Goes(AfterRead)
                /\ UNCHANGED <<args, pool, leaked, tcp, mgr, batch, fault>>
    BY <1>5 DEF ReadUnits
  <2>2. v \in Verdicts
    BY DEF Verdicts
  <2> HIDE DEF v
  <2>3. cur \in Checkers /\ pc = "read"
    BY <2>1, RunningAtWork, PoolParts DEF Receives
  <2>4. /\ left' \in [Checkers -> 0..Units]
        /\ verdict' \in [Checkers -> Verdicts]
        /\ \A c \in Checkers \ {cur} : verdict'[c] = verdict[c]
    <3>1. left[cur] - n \in 0..Units
      BY <1>1, <2>1, <2>3
    <3> QED BY <1>1, <2>1, <2>2, <2>3, <3>1
  <2> QED BY <1>3, <2>1, <2>3, <2>4, CloseSoonKeepsIInv
<1> QED BY <1>2, <1>4, <1>5

(* The write half of onEvent.                                              *)
LEMMA WriteKeepsIInv ==
    ASSUME IInv, fault = "none",
           Connected \/ Reconnects \/ WritesSome \/ WritesAll \/ WriteFails
    PROVE  IInv'
<1>1. /\ pc = "write" /\ cur \in InPool /\ cur \in Checkers /\ fd[cur]
      /\ wrapper[cur] # Null /\ running
      /\ left \in [Checkers -> 0..Units] /\ verdict \in [Checkers -> Verdicts]
  BY RunningAtWork, PoolParts
     DEF IInv, TypeOK, AtWork, StatesAgree, Connected, Reconnects, WritesSome,
         WritesAll, WriteFails, Writes
<1>2. CASE Connected
  <2>1. /\ state' = [state EXCEPT ![cur] = "CONNECTED"]
        /\ output' = [output EXCEPT ![cur] = TRUE]
        /\ taskset' = [taskset EXCEPT ![cur] = {"IN", "OUT"}]
        /\ Goes("run")
        /\ UNCHANGED <<args, pool, leaked, fd, rp, again, left, verdict, mgr,
                       batch, fault>>
    BY <1>2 DEF Connected
  <2>2. InPool' = InPool /\ Gone' = Gone
    BY <1>1, <2>1, PoolKept DEF IInv
  <2>3. /\ AtWork' /\ FullAtWork'
        /\ pc' \in {"write", "run"} /\ cur' \in Checkers \cup {NoChecker}
        /\ evt' \subseteq Bits
    BY <1>1, <2>1, <2>2, GoesOn
  <2>4. TypeOK'
    BY <2>1, <2>3 DEF IInv, TypeOK, pool, mgr
  <2>5. CheckersInOrder' /\ AccountsBalance'
    BY <2>1, <2>2, CountsKept DEF IInv, mgr
  <2>6. WrappersMade'
    BY <2>1, WrappersKept DEF IInv
  <2>7. StatesAgree'
    BY <1>1, <2>1 DEF IInv, TypeOK, StatesAgree, OutputWatched, Watched, pool
  <2> QED BY <2>3, <2>4, <2>5, <2>6, <2>7 DEF IInv
<1>3. CASE Reconnects
  <2>1. /\ state[cur] = "CONNECTING"
        /\ leaked' = leaked \cup {wrapper[cur]}
        /\ fd' = [fd EXCEPT ![cur] = FALSE]
        /\ pc' = "reconnect"
        /\ UNCHANGED <<args, pool, state, rp, again, taskset, output, left,
                       verdict, mgr, batch, cur, evt, fault>>
    BY <1>3 DEF Reconnects
  <2>2. InPool' = InPool /\ Gone' = Gone
    BY <2>1, PoolSame
  <2>3. TypeOK'
    BY <1>1, <2>1 DEF IInv, TypeOK, pool, mgr
  <2>4. CheckersInOrder' /\ AccountsBalance'
    BY <2>1, <2>2, CountsKept DEF IInv, mgr
  <2>5. WrappersMade'
    BY <2>1, WrappersKept DEF IInv
  <2>6. StatesAgree'
    BY <1>1, <2>1 DEF IInv, TypeOK, StatesAgree, OutputWatched, Watched, pool
  <2>7. AtWork' /\ FullAtWork'
    BY <1>1, <2>1, <2>2 DEF IInv, AtWork, FullAtWork, mgr
  <2> QED BY <2>3, <2>4, <2>5, <2>6, <2>7 DEF IInv
<1>4. CASE WritesSome
  <2>1. /\ Goes("run")
        /\ UNCHANGED <<args, pool, leaked, tcp, left, verdict, mgr, batch,
                       fault>>
    BY <1>4 DEF WritesSome
  <2>2. InPool' = InPool /\ Gone' = Gone
    BY <2>1, PoolSame DEF tcp
  <2>3. /\ AtWork' /\ FullAtWork'
        /\ pc' \in {"write", "run"} /\ cur' \in Checkers \cup {NoChecker}
        /\ evt' \subseteq Bits
    BY <1>1, <2>1, <2>2, GoesOn DEF tcp
  <2>4. TypeOK'
    BY <2>1, <2>3 DEF IInv, TypeOK, pool, tcp, mgr
  <2>5. CheckersInOrder' /\ AccountsBalance'
    BY <2>1, <2>2, CountsKept DEF IInv, mgr
  <2>6. WrappersMade' /\ StatesAgree'
    BY <2>1, WrappersKept, StatesKept DEF IInv, pool, tcp
  <2> QED BY <2>3, <2>4, <2>5, <2>6 DEF IInv
<1>5. CASE WriteFails \/ (WritesAll /\ state[cur] = "FLUSHING")
  <2>1. Ends(cur) /\ UNCHANGED <<left, verdict>>
    BY <1>5 DEF WriteFails, WritesAll
  <2> QED BY <1>1, <2>1, EndsKeepsIInv
<1>6. CASE WritesAll /\ state[cur] # "FLUSHING"
  <2>1. /\ state[cur] = "CONNECTED"
        /\ output' = [output EXCEPT ![cur] = FALSE]
        /\ taskset' = [taskset EXCEPT ![cur] = @ \ {"OUT"}]
        /\ Goes("run")
        /\ UNCHANGED <<left, verdict>>
        /\ UNCHANGED <<args, pool, leaked, state, fd, rp, again, mgr, batch,
                       fault>>
    BY <1>6 DEF WritesAll, Writes
  <2>2. InPool' = InPool /\ Gone' = Gone
    BY <2>1, PoolSame
  <2>3. /\ AtWork' /\ FullAtWork'
        /\ pc' \in {"write", "run"} /\ cur' \in Checkers \cup {NoChecker}
        /\ evt' \subseteq Bits
    BY <1>1, <2>1, <2>2, GoesOn
  <2>4. TypeOK'
    BY <2>1, <2>3 DEF IInv, TypeOK, pool, mgr
  <2>5. CheckersInOrder' /\ AccountsBalance'
    BY <2>1, <2>2, CountsKept DEF IInv, mgr
  <2>6. WrappersMade'
    BY <2>1, WrappersKept DEF IInv
  <2>7. StatesAgree'
    BY <1>1, <2>1 DEF IInv, TypeOK, StatesAgree, OutputWatched, Watched, pool
  <2> QED BY <2>3, <2>4, <2>5, <2>6, <2>7 DEF IInv
<1> QED BY <1>2, <1>3, <1>4, <1>5, <1>6

-----------------------------------------------------------------------------
LEMMA StepKeepsIInv == IInv /\ [Next]_vars => IInv'
<1> SUFFICES ASSUME IInv, [Next]_vars PROVE IInv'
  OBVIOUS
<1>1. CASE UNCHANGED vars
  <2>1. InPool' = InPool /\ Gone' = Gone
    BY <1>1, PoolSame DEF vars, tcp
  <2>2. CheckersInOrder' /\ AccountsBalance'
    BY <1>1, <2>1, CountsKept DEF IInv, vars, mgr
  <2>3. WrappersMade' /\ StatesAgree'
    BY <1>1, WrappersKept, StatesKept DEF IInv, vars, pool, tcp
  <2>4. TypeOK' /\ AtWork' /\ FullAtWork'
    BY <1>1, <2>1 DEF IInv, TypeOK, AtWork, FullAtWork, vars, pool, tcp, mgr, at
  <2> QED BY <2>2, <2>3, <2>4 DEF IInv
<1>2. CASE Next
  BY <1>2, CreateKeepsIInv, RefilledKeepsIInv, ConnectKeepsIInv,
     EventKeepsIInv, ReadKeepsIInv, WriteKeepsIInv DEF Next, Handle
<1> QED BY <1>1, <1>2

LEMMA IInvAlways == Spec => []IInv
  BY InitIInv, StepKeepsIInv, PTL DEF Spec

(* The variables of the client keep their types: done_ never passes the    *)
(* total, and rp_ and chain_ never run past their ends.                    *)
THEOREM TypeCorrect == Spec => []TypeOK
  BY IInvAlways, PTL DEF IInv

(* However connections end - refused, broken, closed by the peer, with a   *)
(* wrong answer or with all bytes checked - every checker is counted once, *)
(* under the verdict it ended with, and onCheckerDone exceeds neither the  *)
(* pool nor the total.                                                     *)
THEOREM AccountsAlwaysBalance == Spec => []AccountsBalance
  BY IInvAlways, PTL DEF IInv

(* When the thread waits for events the pool is full or holds all that is  *)
(* left of the total, and run_ is cleared exactly when all are done: the   *)
(* client neither starves nor stops early (onCheckerDone, Loop::stop).     *)
THEOREM PoolAlwaysFull == Spec => []PoolFull
<1>1. IInv => PoolFull
  BY DEF IInv, FullAtWork, PoolFull
<1> QED BY <1>1, IInvAlways, PTL

(* A connection that is up is in epoll and asks for OUT exactly while it   *)
(* has output, for IN exactly until it flushes (onConnected, writeSome,    *)
(* closeSoon).                                                             *)
THEOREM OutputAlwaysWatched == Spec => []OutputWatched
<1>1. IInv => OutputWatched
  BY DEF IInv, StatesAgree
<1> QED BY <1>1, IInvAlways, PTL
=============================================================================
