------------------------------ MODULE ServerProofs ------------------------------
(***************************************************************************)
(* Proofs about Server for any threads, wrappers, connections and          *)
(* programs.                                                               *)
(***************************************************************************)
EXTENDS Server, FiniteSetTheorems, SequenceTheorems, TLAPS

(* The pointers of the lists lead only to wrappers that were made, or to   *)
(* the heads, although a wrapper may be on both lists.                     *)
Places(L) == L.made \cup {Free, Used}

Good(L) ==
    /\ L \in Lists
    /\ \A w \in L.made : L.back[w] \in Places(L)
    /\ \A a \in Address : L.cell[a] \in L.made \cup {Null}
    /\ \A h \in {Free, Used} : L.last[h] \in Places(L)

(* Nothing was given back yet.                                             *)
Unreturned(L) == L.cell[Free] = Null /\ L.last[Used] # Free

-----------------------------------------------------------------------------
LEMMA Distinct ==
    /\ Free \notin Wrapper /\ Used \notin Wrapper /\ Null \notin Wrapper
    /\ Free # Used /\ Null # Free /\ Null # Used
    /\ \A w \in Wrapper : w # Null /\ w # Free /\ w # Used
    /\ Null \notin Address
  BY WrapperAssumption DEF Address

LEMMA ListParts ==
    ASSUME NEW L, L \in Lists
    PROVE  /\ L.cell \in [Address -> Wrapper \cup {Null}]
           /\ L.back \in [Wrapper -> Address \cup {Null}]
           /\ L.last \in [{Free, Used} -> Address]
           /\ L.made \subseteq Wrapper
           /\ L = [cell |-> L.cell, back |-> L.back, last |-> L.last,
                   made |-> L.made]
  BY DEF Lists

LEMMA InsertGood ==
    ASSUME NEW L, L \in Lists,
           NEW h \in {Free, Used}, NEW w \in L.made,
           \A v \in L.made \ {w} : L.back[v] \in Places(L),
           \A a \in Address : L.cell[a] \in L.made \cup {Null},
           \A g \in {Free, Used} : L.last[g] \in Places(L)
    PROVE  Good(InsertTail(L, h, w))
<1> DEFINE K == InsertTail(L, h, w)
<1>1. /\ K.cell = [L.cell EXCEPT ![w] = Null, ![L.last[h]] = w]
      /\ K.back = [L.back EXCEPT ![w] = L.last[h]]
      /\ K.last = [L.last EXCEPT ![h] = w]
      /\ K.made = L.made
      /\ K = [cell |-> K.cell, back |-> K.back, last |-> K.last, made |-> K.made]
  BY DEF InsertTail
<1> HIDE DEF K
<1>2. /\ L.cell \in [Address -> Wrapper \cup {Null}]
      /\ L.back \in [Wrapper -> Address \cup {Null}]
      /\ L.last \in [{Free, Used} -> Address]
      /\ L.made \subseteq Wrapper
  BY ListParts
<1>3. w \in Wrapper /\ w \in Address /\ L.last[h] \in Address
      /\ L.last[h] \in Places(L)
  BY <1>2 DEF Address
<1>4. K.cell \in [Address -> Wrapper \cup {Null}]
      /\ \A a \in Address : K.cell[a] \in K.made \cup {Null}
  BY <1>1, <1>2, <1>3
<1>5. K.back \in [Wrapper -> Address \cup {Null}]
      /\ \A v \in K.made : K.back[v] \in Places(K)
  BY <1>1, <1>2, <1>3 DEF Places
<1>6. K.last \in [{Free, Used} -> Address]
      /\ \A g \in {Free, Used} : K.last[g] \in Places(K)
  BY <1>1, <1>2, <1>3 DEF Places
<1>7. K \in Lists
  BY <1>1, <1>2, <1>4, <1>5, <1>6 DEF Lists
<1> QED BY <1>4, <1>5, <1>6, <1>7 DEF Good, K

LEMMA UnlinkGood ==
    ASSUME NEW L, Good(L), NEW w \in L.made
    PROVE  Good(Unlink(L, w)) /\ Unlink(L, w).made = L.made
<1> DEFINE K == Unlink(L, w)
<1>1. /\ K.cell = [L.cell EXCEPT ![L.back[w]] = L.cell[w]]
      /\ K.back = L.back /\ K.last = L.last /\ K.made = L.made
      /\ K = [cell |-> K.cell, back |-> K.back, last |-> K.last, made |-> K.made]
  BY ListParts DEF Good, Unlink, Lists
<1> HIDE DEF K
<1>2. /\ L.cell \in [Address -> Wrapper \cup {Null}]
      /\ L.back \in [Wrapper -> Address \cup {Null}]
      /\ L.last \in [{Free, Used} -> Address]
      /\ L.made \subseteq Wrapper
  BY ListParts DEF Good
<1>3. w \in Address /\ L.back[w] \in Address
  BY <1>2 DEF Address, Good, Places
<1>4. K.cell \in [Address -> Wrapper \cup {Null}]
      /\ \A a \in Address : K.cell[a] \in K.made \cup {Null}
  BY <1>1, <1>2, <1>3 DEF Good
<1>5. K \in Lists
  BY <1>1, <1>2, <1>4 DEF Lists
<1> QED BY <1>1, <1>4, <1>5 DEF Good, K, Places

LEMMA RemoveGood ==
    ASSUME NEW L, Good(L), NEW h \in {Free, Used}, NEW w \in L.made
    PROVE  Good(Remove(L, h, w)) /\ Remove(L, h, w).made = L.made
<1>0. /\ L.cell \in [Address -> Wrapper \cup {Null}]
      /\ L.back \in [Wrapper -> Address \cup {Null}]
      /\ L.last \in [{Free, Used} -> Address]
      /\ L.made \subseteq Wrapper
      /\ L = [cell |-> L.cell, back |-> L.back, last |-> L.last, made |-> L.made]
      /\ w \in Address
  BY ListParts DEF Good, Address
<1>1. CASE L.cell[w] # Null
  <2> DEFINE K == [L EXCEPT !.back[L.cell[w]] = L.back[w]]
  <2>1. /\ K.back = [L.back EXCEPT ![L.cell[w]] = L.back[w]]
        /\ K.cell = L.cell /\ K.last = L.last /\ K.made = L.made
        /\ K = [cell |-> K.cell, back |-> K.back, last |-> K.last, made |-> K.made]
    BY <1>0
  <2>2. Remove(L, h, w) = Unlink(K, w)
    BY <1>1 DEF Remove
  <2> HIDE DEF K
  <2>3. L.cell[w] \in L.made /\ L.back[w] \in Places(L) /\ L.back[w] \in Address
    BY <1>0, <1>1 DEF Good, Places, Address
  <2>4. K.back \in [Wrapper -> Address \cup {Null}]
        /\ \A v \in K.made : K.back[v] \in Places(K)
    BY <1>0, <2>1, <2>3 DEF Good, Places
  <2>5. K \in Lists
    BY <1>0, <2>1, <2>4 DEF Lists
  <2>6. Good(K)
    BY <2>1, <2>4, <2>5 DEF Good, Places
  <2> QED BY <2>1, <2>2, <2>6, UnlinkGood
<1>2. CASE L.cell[w] = Null
  <2> DEFINE K == [L EXCEPT !.last[h] = L.back[w]]
  <2>1. /\ K.last = [L.last EXCEPT ![h] = L.back[w]]
        /\ K.cell = L.cell /\ K.back = L.back /\ K.made = L.made
        /\ K = [cell |-> K.cell, back |-> K.back, last |-> K.last, made |-> K.made]
    BY <1>0
  <2>2. Remove(L, h, w) = Unlink(K, w)
    BY <1>2 DEF Remove
  <2> HIDE DEF K
  <2>3. L.back[w] \in Places(L) /\ L.back[w] \in Address
    BY <1>0 DEF Good, Places, Address
  <2>4. K.last \in [{Free, Used} -> Address]
        /\ \A g \in {Free, Used} : K.last[g] \in Places(K)
    BY <1>0, <2>1, <2>3 DEF Good, Places
  <2>5. K \in Lists
    BY <1>0, <2>1, <2>4 DEF Lists
  <2>6. Good(K)
    BY <2>1, <2>4, <2>5 DEF Good, Places
  <2> QED BY <2>1, <2>2, <2>6, UnlinkGood
<1> QED BY <1>1, <1>2

(* connectWrapper and disconnectWrapper.                                   *)
LEMMA TakeGood ==
    ASSUME NEW L, Good(L), CanTake(L)
    PROVE  /\ Taken(L) \in Wrapper
           /\ Good(AfterTake(L))
           /\ AfterTake(L).made = L.made \cup {Taken(L)}
           /\ Unreturned(L) => Taken(L) \notin L.made /\ Unreturned(AfterTake(L))
<1>0. /\ L.cell \in [Address -> Wrapper \cup {Null}]
      /\ L.back \in [Wrapper -> Address \cup {Null}]
      /\ L.last \in [{Free, Used} -> Address]
      /\ L.made \subseteq Wrapper
      /\ L = [cell |-> L.cell, back |-> L.back, last |-> L.last, made |-> L.made]
      /\ Free \in Address
  BY ListParts DEF Good, Address
<1>1. CASE L.cell[Free] # Null
  <2>1. Taken(L) = L.cell[Free] /\ Taken(L) \in L.made
    BY <1>0, <1>1 DEF Taken, Good
  <2> DEFINE K == Remove(L, Free, Taken(L))
  <2>2. Good(K) /\ K.made = L.made
    BY <2>1, RemoveGood
  <2>3. AfterTake(L) = InsertTail(K, Used, Taken(L))
    BY <1>1, <2>1 DEF AfterTake
  <2> HIDE DEF K
  <2>4. Good(InsertTail(K, Used, Taken(L)))
    BY <2>1, <2>2, InsertGood DEF Good
  <2>5. InsertTail(K, Used, Taken(L)).made = K.made
    BY DEF InsertTail
  <2> QED BY <1>0, <1>1, <2>1, <2>2, <2>3, <2>4, <2>5 DEF Unreturned
<1>2. CASE L.cell[Free] = Null
  <2>1. Taken(L) = Fresh(L) /\ Taken(L) \in Wrapper /\ Taken(L) \notin L.made
    <3>1. \E w \in Wrapper : w \notin L.made
      BY <1>0, <1>2 DEF CanTake
    <3> QED BY <1>2, <3>1 DEF Taken, Fresh
  <2> DEFINE w == Taken(L)
             K == [L EXCEPT !.made = L.made \cup {w}]
  <2>2. /\ K.made = L.made \cup {w}
        /\ K.cell = L.cell /\ K.back = L.back /\ K.last = L.last
        /\ K = [cell |-> K.cell, back |-> K.back, last |-> K.last, made |-> K.made]
    BY <1>0
  <2>3. AfterTake(L) = InsertTail(K, Used, w)
    BY <1>2 DEF AfterTake
  <2> HIDE DEF K, w
  <2>4. K \in Lists /\ w \in K.made
    BY <1>0, <2>1, <2>2 DEF Lists, w
  <2>5. Good(InsertTail(K, Used, w))
    <3>1. /\ \A v \in K.made \ {w} : K.back[v] \in Places(K)
          /\ \A a \in Address : K.cell[a] \in K.made \cup {Null}
          /\ \A g \in {Free, Used} : K.last[g] \in Places(K)
      BY <2>2 DEF Good, Places
    <3> QED BY <2>4, <3>1, InsertGood
  <2>6. /\ InsertTail(K, Used, w).made = K.made
        /\ InsertTail(K, Used, w).cell =
             [L.cell EXCEPT ![w] = Null, ![L.last[Used]] = w]
        /\ InsertTail(K, Used, w).last = [L.last EXCEPT ![Used] = w]
    BY <2>2 DEF InsertTail
  <2>7. ASSUME Unreturned(L) PROVE Unreturned(InsertTail(K, Used, w))
    <3>1. w # Free /\ w \in Wrapper
      BY <2>1, Distinct DEF w
    <3> QED BY <1>0, <2>6, <2>7, <3>1 DEF Unreturned
  <2> QED BY <2>1, <2>2, <2>3, <2>5, <2>6, <2>7 DEF w
<1> QED BY <1>1, <1>2

LEMMA ReturnGood ==
    ASSUME NEW L, Good(L), NEW w \in L.made
    PROVE  Good(AfterReturn(L, w)) /\ AfterReturn(L, w).made = L.made
<1> DEFINE K == InsertTail(L, Free, w)
<1>1. Good(K) /\ K.made = L.made
  BY InsertGood DEF Good, InsertTail
<1> HIDE DEF K
<1>2. Good(Remove(K, Used, w)) /\ Remove(K, Used, w).made = K.made
  BY <1>1, RemoveGood
<1> QED BY <1>1, <1>2 DEF AfterReturn, K

-----------------------------------------------------------------------------
(* A wrapper that is in use was made; connections have one exactly while   *)
(* they live, the acceptor from the moment it listens.                     *)
WrappersMade ==
    /\ \A w \in Wrapper : conn[w] # NoObject => w \in lists.made
    /\ \A o \in Objects : wrapper[o] # Null => wrapper[o] \in lists.made

Wrapped == \A c \in Conns : Alive(c) <=> wrapper[c] # Null

NotYet == \A c \in Conns : c > taken => state[c] = "away"

AcceptorWrapped ==
    /\ pc[Listener] = "start" => wrapper[Acceptor] = Null
    /\ acc = "LISTEN" => wrapper[Acceptor] # Null

(* A thread inside of a handler has locked the wrapper its event points    *)
(* to, and a connection it handles knows that wrapper, even when another   *)
(* object was given the same one in the meantime.                          *)
Changes == {"made", "emplace", "ended", "erase"}

Inside == {"accept", "made", "emplace", "handle", "ended", "erase", "leave"}

InHandler ==
    \A t \in Threads :
        /\ pc[t] \in Inside \cup {"event"} => event[t] \in Events
        /\ pc[t] \in Inside => lock[event[t].w] = t
        /\ pc[t] = "handle" =>
             cur[t] \in Conns /\ wrapper[cur[t]] = event[t].w
        /\ pc[t] \in Changes => cur[t] \in Conns

SInv ==
    /\ TypeOK
    /\ Good(lists)
    /\ WrappersMade
    /\ Wrapped
    /\ NotYet
    /\ AcceptorWrapped
    /\ InHandler
    /\ WrapperPointsBack

-----------------------------------------------------------------------------
LEMMA Constants ==
    /\ MaxConns \in Nat
    /\ Acceptor \in Objects /\ Acceptor \notin Conns
    /\ \A c \in Conns : c \in Objects /\ c \in Nat /\ c # Acceptor
    /\ NoObject \notin Objects /\ NoObject \notin Conns
    /\ NoThread \notin Threads /\ Listener \in Threads
    /\ Null \notin Wrapper
  BY ServerAssumption, Distinct DEF Acceptor, Objects, Conns

LEMMA EventParts ==
    ASSUME NEW e \in Events
    PROVE  /\ e.w \in Wrapper /\ e.w # Null
           /\ e.kind \in Tasks
           /\ e # NoEvent
  BY Distinct DEF Events, NoEvent

(* A program's peers are bounded by MaxConns, so that the next one to be   *)
(* accepted is a connection.                                               *)
LEMMA NextConn ==
    ASSUME TypeOK, Waiting
    PROVE  /\ taken + 1 \in Conns
           /\ taken + 1 \in 0..arrived
           /\ taken \in Nat /\ arrived \in Nat
           /\ taken + 1 > taken
  BY Constants DEF TypeOK, Waiting, Conns

(* A handled connection lives.                                             *)
LEMMA Handled ==
    ASSUME SInv, NEW t \in Threads, pc[t] = "handle"
    PROVE  /\ cur[t] \in Conns /\ cur[t] \in Objects
           /\ Alive(cur[t])
           /\ event[t] \in Events
           /\ wrapper[cur[t]] = event[t].w
           /\ event[t].w \in lists.made
           /\ lock[event[t].w] = t
<1>1. /\ cur[t] \in Conns /\ wrapper[cur[t]] = event[t].w
      /\ event[t] \in Events /\ lock[event[t].w] = t
  BY DEF SInv, InHandler, Inside
<1>2. cur[t] \in Objects /\ event[t].w # Null
  BY <1>1, Constants, EventParts
<1> QED BY <1>1, <1>2 DEF SInv, Wrapped, WrappersMade

(* The wrapper that an object gets.                                        *)
LEMMA Connected ==
    ASSUME TypeOK, Good(lists), WrappersMade, NEW o \in Objects, Connect(o)
    PROVE  /\ Taken(lists) \in Wrapper
           /\ lists' \in Lists /\ Good(lists')
           /\ lists'.made = lists.made \cup {Taken(lists)}
           /\ conn' \in [Wrapper -> Objects \cup {NoObject}]
           /\ conn'[Taken(lists)] = o
           /\ \A w \in Wrapper \ {Taken(lists)} : conn'[w] = conn[w]
           /\ wrapper' \in [Objects -> Wrapper \cup {Null}]
           /\ wrapper'[o] = Taken(lists)
           /\ \A x \in Objects \ {o} : wrapper'[x] = wrapper[x]
           /\ WrappersMade'
<1>1. /\ Taken(lists) \in Wrapper
      /\ lists' \in Lists /\ Good(lists')
      /\ lists'.made = lists.made \cup {Taken(lists)}
  BY TakeGood DEF Connect, Good
<1>2. /\ conn \in [Wrapper -> Objects \cup {NoObject}]
      /\ wrapper \in [Objects -> Wrapper \cup {Null}]
      /\ conn' = [conn EXCEPT ![Taken(lists)] = o]
      /\ wrapper' = [wrapper EXCEPT ![o] = Taken(lists)]
  BY DEF TypeOK, Connect
<1>3. /\ conn' \in [Wrapper -> Objects \cup {NoObject}]
      /\ conn'[Taken(lists)] = o
      /\ \A w \in Wrapper \ {Taken(lists)} : conn'[w] = conn[w]
      /\ wrapper' \in [Objects -> Wrapper \cup {Null}]
      /\ wrapper'[o] = Taken(lists)
      /\ \A x \in Objects \ {o} : wrapper'[x] = wrapper[x]
  BY <1>1, <1>2
<1>4. WrappersMade'
  <2>1. ASSUME NEW w \in Wrapper, conn'[w] # NoObject PROVE w \in lists'.made
    BY <1>1, <1>3, <2>1 DEF WrappersMade
  <2>2. ASSUME NEW x \in Objects, wrapper'[x] # Null
        PROVE  wrapper'[x] \in lists'.made
    BY <1>1, <1>3, <2>2 DEF WrappersMade
  <2> QED BY <2>1, <2>2 DEF WrappersMade
<1> QED BY <1>1, <1>3, <1>4

LEMMA Disconnected ==
    ASSUME TypeOK, Good(lists), WrappersMade,
           NEW o \in Objects, wrapper[o] \in lists.made, Disconnect(o)
    PROVE  /\ lists' \in Lists /\ Good(lists') /\ lists'.made = lists.made
           /\ conn' \in [Wrapper -> Objects \cup {NoObject}]
           /\ conn'[wrapper[o]] = NoObject
           /\ \A w \in Wrapper \ {wrapper[o]} : conn'[w] = conn[w]
           /\ wrapper' \in [Objects -> Wrapper \cup {Null}]
           /\ wrapper'[o] = Null
           /\ \A x \in Objects \ {o} : wrapper'[x] = wrapper[x]
           /\ WrappersMade'
<1>1. lists' \in Lists /\ Good(lists') /\ lists'.made = lists.made
  BY ReturnGood DEF Disconnect, Good
<1>2. /\ conn \in [Wrapper -> Objects \cup {NoObject}]
      /\ wrapper \in [Objects -> Wrapper \cup {Null}]
      /\ conn' = [conn EXCEPT ![wrapper[o]] = NoObject]
      /\ wrapper' = [wrapper EXCEPT ![o] = Null]
      /\ wrapper[o] \in Wrapper
  BY ListParts DEF TypeOK, Disconnect, Good
<1>3. /\ conn' \in [Wrapper -> Objects \cup {NoObject}]
      /\ conn'[wrapper[o]] = NoObject
      /\ \A w \in Wrapper \ {wrapper[o]} : conn'[w] = conn[w]
      /\ wrapper' \in [Objects -> Wrapper \cup {Null}]
      /\ wrapper'[o] = Null
      /\ \A x \in Objects \ {o} : wrapper'[x] = wrapper[x]
  BY <1>2
<1>4. WrappersMade'
  <2>1. ASSUME NEW w \in Wrapper, conn'[w] # NoObject PROVE w \in lists'.made
    BY <1>1, <1>3, <2>1 DEF WrappersMade
  <2>2. ASSUME NEW x \in Objects, wrapper'[x] # Null
        PROVE  wrapper'[x] \in lists'.made
    BY <1>1, <1>3, <2>2 DEF WrappersMade
  <2> QED BY <2>1, <2>2 DEF WrappersMade
<1> QED BY <1>1, <1>3, <1>4

-----------------------------------------------------------------------------
PCs == {"start", "wait", "event", "accept", "made", "emplace", "handle",
        "ended", "erase", "leave"}

LEMMA GotoType ==
    ASSUME TypeOK, NEW t \in Threads, NEW label \in PCs, Goto(t, label)
    PROVE  /\ pc' \in [Threads -> PCs]
           /\ pc'[t] = label
           /\ \A u \in Threads \ {t} : pc'[u] = pc[u]
  BY DEF TypeOK, Goto, PCs

(* A step that leaves wrappers and connections alone.                      *)
LEMMA ObjectsKept ==
    ASSUME SInv, UNCHANGED pool, UNCHANGED <<state, taken>>
    PROVE  /\ Good(lists') /\ lists' \in Lists
           /\ WrappersMade' /\ Wrapped' /\ NotYet' /\ WrapperPointsBack'
  BY DEF SInv, pool, Good, WrappersMade, Wrapped, Alive, NotYet, WrapperPointsBack

(* A handler that returns.                                                 *)
LEMMA UnlockKeeps ==
    ASSUME SInv, NEW t \in Threads, pc[t] \in Inside, Unlock(t),
           UNCHANGED wrapper
    PROVE  /\ lock' \in [Wrapper -> Threads \cup {NoThread}]
           /\ pc' \in [Threads -> PCs]
           /\ event' \in [Threads -> Events \cup {NoEvent}]
           /\ cur' \in [Threads -> Objects \cup {NoObject}]
           /\ InHandler'
           /\ pc'[Listener] = "start" => pc[Listener] = "start"
<1>0. TypeOK /\ InHandler
  BY DEF SInv
<1>1. /\ event[t] \in Events /\ lock[event[t].w] = t /\ event[t].w \in Wrapper
  BY <1>0, EventParts DEF InHandler
<1>2. /\ lock' = [lock EXCEPT ![event[t].w] = NoThread]
      /\ event' = [event EXCEPT ![t] = NoEvent]
      /\ cur' = [cur EXCEPT ![t] = NoObject]
      /\ lock \in [Wrapper -> Threads \cup {NoThread}]
      /\ event \in [Threads -> Events \cup {NoEvent}]
      /\ cur \in [Threads -> Objects \cup {NoObject}]
  BY <1>0 DEF Unlock, TypeOK
<1>3. /\ pc' \in [Threads -> PCs] /\ pc'[t] = "wait"
      /\ \A u \in Threads \ {t} : pc'[u] = pc[u]
  BY <1>0, GotoType DEF Unlock, PCs
<1>4. InHandler'
  <2> SUFFICES ASSUME NEW u \in Threads
      PROVE  /\ pc'[u] \in Inside \cup {"event"} => event'[u] \in Events
             /\ pc'[u] \in Inside => lock'[event'[u].w] = u
             /\ pc'[u] = "handle" =>
                  cur'[u] \in Conns /\ wrapper[cur'[u]] = event'[u].w
             /\ pc'[u] \in Changes => cur'[u] \in Conns
    BY DEF InHandler
  <2>1. CASE u = t
    BY <1>3, <2>1 DEF Inside, Changes
  <2>2. CASE u # t
    <3>1. pc'[u] = pc[u] /\ event'[u] = event[u] /\ cur'[u] = cur[u]
      BY <1>2, <1>3, <2>2
    <3>2. pc[u] \in Inside => event[u].w # event[t].w /\ event[u].w \in Wrapper
      BY <1>0, <1>1, <2>2, EventParts DEF InHandler
    <3>3. pc[u] \in Inside => lock'[event[u].w] = u
      BY <1>0, <1>2, <3>2 DEF InHandler
    <3> QED BY <1>0, <3>1, <3>3 DEF InHandler
  <2> QED BY <2>1, <2>2
<1> QED BY <1>1, <1>2, <1>3, <1>4, Constants

LEMMA KeepsUnlocking ==
    ASSUME SInv, NEW t \in Threads,
           \/ AcceptDone(t) \/ AcceptPauses(t) \/ AcceptFails(t)
           \/ GoesOn(t) \/ Leave(t)
    PROVE  SInv'
<1>0. TypeOK /\ Good(lists) /\ AcceptorWrapped /\ taken \in Nat /\ arrived \in Nat
      /\ taken <= arrived
  BY Constants DEF SInv, TypeOK
<1>1. /\ Unlock(t) /\ UNCHANGED pool /\ UNCHANGED wrapper
      /\ UNCHANGED <<program, deal, state, registry, raced, arrived>>
      /\ pc[t] \in Inside
      /\ acc' \in {acc, "LISTEN_PAUSED", "CLOSED"}
      /\ taken' \in {taken, arrived}
      /\ input' \in [Conns -> {"none", "data", "end"}]
      /\ fault' \in {"none", "wild", "acceptor", "connection", "registry", "race"}
  BY <1>0 DEF AcceptDone, AcceptPauses, AcceptFails, GoesOn, Leave, CloseListener,
     Inside, queue, table, pool, TypeOK
<1>2. taken' \in Nat /\ taken <= taken' /\ taken' \in 0..arrived
  BY <1>0, <1>1
<1>3. /\ lock' \in [Wrapper -> Threads \cup {NoThread}]
      /\ pc' \in [Threads -> PCs]
      /\ event' \in [Threads -> Events \cup {NoEvent}]
      /\ cur' \in [Threads -> Objects \cup {NoObject}]
      /\ InHandler'
      /\ pc'[Listener] = "start" => pc[Listener] = "start"
  BY <1>1, UnlockKeeps
<1>4. Good(lists') /\ WrappersMade' /\ Wrapped' /\ WrapperPointsBack'
  BY <1>0, <1>1 DEF SInv, pool, WrappersMade, Wrapped, Alive, WrapperPointsBack
<1>5. NotYet'
  <2>1. \A c \in Conns : c > taken' => c > taken
    BY <1>0, <1>2, Constants
  <2> QED BY <1>1, <2>1 DEF SInv, NotYet
<1>6. AcceptorWrapped'
  BY <1>0, <1>1, <1>3 DEF AcceptorWrapped
<1>7. TypeOK'
  BY <1>0, <1>1, <1>2, <1>3 DEF TypeOK, pool, deal, AcceptorStates, PCs
<1> QED BY <1>3, <1>4, <1>5, <1>6, <1>7 DEF SInv

LEMMA KeepsFlushes ==
    ASSUME SInv, NEW t \in Threads, Flushes(t)
    PROVE  SInv'
<1>0. TypeOK /\ Good(lists) /\ AcceptorWrapped /\ taken \in Nat
  BY Constants DEF SInv, TypeOK
<1>1. /\ Unlock(t) /\ UNCHANGED pool /\ UNCHANGED wrapper
      /\ UNCHANGED <<program, acc, deal, registry, raced, arrived, taken, fault>>
      /\ pc[t] = "handle" /\ pc[t] \in Inside
      /\ state' = [state EXCEPT ![cur[t]] = "FLUSHING"]
      /\ state \in [Conns -> {"away", "CONNECTED", "FLUSHING", "CLOSED", "leaked"}]
      /\ input' \in [Conns -> {"none", "data", "end"}]
  BY <1>0 DEF Flushes, Inside, queue, table, pool, TypeOK
<1>2. /\ lock' \in [Wrapper -> Threads \cup {NoThread}]
      /\ pc' \in [Threads -> PCs]
      /\ event' \in [Threads -> Events \cup {NoEvent}]
      /\ cur' \in [Threads -> Objects \cup {NoObject}]
      /\ InHandler'
      /\ pc'[Listener] = "start" => pc[Listener] = "start"
  BY <1>1, UnlockKeeps
<1>3. cur[t] \in Conns /\ Alive(cur[t])
  BY <1>1, Handled
<1>4. \A c \in Conns : Alive(c)' <=> Alive(c)
  BY <1>1, <1>3 DEF Alive
<1>5. Good(lists') /\ WrappersMade' /\ Wrapped' /\ WrapperPointsBack'
  BY <1>0, <1>1, <1>4 DEF SInv, pool, WrappersMade, Wrapped, WrapperPointsBack
<1>6. NotYet'
  BY <1>1, <1>3 DEF SInv, NotYet, Alive
<1>7. AcceptorWrapped'
  BY <1>0, <1>1, <1>2 DEF AcceptorWrapped
<1>8. TypeOK'
  BY <1>0, <1>1, <1>2 DEF TypeOK, pool, deal, PCs
<1> QED BY <1>2, <1>5, <1>6, <1>7, <1>8 DEF SInv

-----------------------------------------------------------------------------
(* A step of a thread that is not inside of a handler, by which it does    *)
(* not get into one.                                                       *)
LEMMA OutsideKeeps ==
    ASSUME SInv, NEW t \in Threads, NEW label \in {"wait", "event"},
           Goto(t, label), UNCHANGED <<lock, wrapper, cur, taken>>,
           \A u \in Threads \ {t} : event'[u] = event[u],
           label = "event" => event'[t] \in Events
    PROVE  InHandler'
<1>0. TypeOK /\ InHandler /\ label \in PCs
  BY DEF SInv, PCs
<1>1. /\ pc' \in [Threads -> PCs] /\ pc'[t] = label
      /\ \A u \in Threads \ {t} : pc'[u] = pc[u]
  BY <1>0, GotoType
<1> SUFFICES ASSUME NEW u \in Threads
    PROVE  /\ pc'[u] \in Inside \cup {"event"} => event'[u] \in Events
           /\ pc'[u] \in Inside => lock[event'[u].w] = u
           /\ pc'[u] = "handle" =>
                cur[u] \in Conns /\ wrapper[cur[u]] = event'[u].w
           /\ pc'[u] \in Changes => cur[u] \in Conns
  BY DEF InHandler
<1>2. CASE u = t
  BY <1>1, <1>2 DEF Inside, Changes
<1>3. CASE u # t
  BY <1>0, <1>1, <1>3 DEF InHandler
<1> QED BY <1>2, <1>3

LEMMA KeepsStart ==
    ASSUME SInv, NEW t \in Threads, Start(t)
    PROVE  SInv'
<1>0. /\ TypeOK /\ Good(lists) /\ AcceptorWrapped /\ WrappersMade /\ Wrapped
      /\ WrapperPointsBack /\ NotYet /\ InHandler
  BY DEF SInv
<1>1. CASE Bind(t)
  <2>1. /\ Connect(Acceptor) /\ Goto(t, "wait") /\ t = Listener
        /\ pc[t] = "start" /\ acc' = "LISTEN"
        /\ UNCHANGED <<program, lock, servs, idx, dealt, state, registry, raced,
                       arrived, taken, input, event, cur, fault>>
    BY <1>1 DEF Bind, deal, queue, table
  <2>2. /\ Taken(lists) \in Wrapper
        /\ lists' \in Lists /\ Good(lists')
        /\ conn' \in [Wrapper -> Objects \cup {NoObject}]
        /\ conn'[Taken(lists)] = Acceptor
        /\ \A w \in Wrapper \ {Taken(lists)} : conn'[w] = conn[w]
        /\ wrapper' \in [Objects -> Wrapper \cup {Null}]
        /\ wrapper'[Acceptor] = Taken(lists)
        /\ \A x \in Objects \ {Acceptor} : wrapper'[x] = wrapper[x]
        /\ WrappersMade'
    BY <1>0, <2>1, Connected, Constants
  <2>3. wrapper[Acceptor] = Null
    BY <1>0, <2>1 DEF AcceptorWrapped
  <2>4. \A c \in Conns : wrapper'[c] = wrapper[c] /\ state'[c] = state[c]
    BY <2>1, <2>2, Constants
  <2>5. /\ pc' \in [Threads -> PCs] /\ pc'[t] = "wait"
        /\ \A u \in Threads \ {t} : pc'[u] = pc[u]
    BY <1>0, <2>1, GotoType DEF PCs
  <2>6. Wrapped' /\ NotYet'
    BY <1>0, <2>1, <2>4 DEF Wrapped, Alive, NotYet
  <2>7. AcceptorWrapped'
    BY <2>1, <2>2, <2>5, Constants DEF AcceptorWrapped
  <2>8. WrapperPointsBack'
    <3> SUFFICES ASSUME NEW w \in Wrapper, conn'[w] # NoObject
                 PROVE  /\ wrapper'[conn'[w]] = w
                        /\ conn'[w] \in Conns => Alive(conn[w])
      BY <2>1, <2>2, Constants DEF WrapperPointsBack, Alive
    <3>1. CASE w = Taken(lists)
      BY <2>2, <3>1, Constants
    <3>2. CASE w # Taken(lists)
      <4>1. conn'[w] = conn[w] /\ wrapper[conn[w]] = w /\ conn[w] \in Objects
            /\ (conn[w] \in Conns => Alive(conn[w]))
        BY <1>0, <2>2, <3>2 DEF WrapperPointsBack, TypeOK
      <4>2. conn[w] # Acceptor
        BY <2>3, <4>1, Constants
      <4> QED BY <2>2, <4>1, <4>2
    <3> QED BY <3>1, <3>2
  <2>9. InHandler'
    <3> SUFFICES ASSUME NEW u \in Threads
        PROVE  /\ pc'[u] \in Inside \cup {"event"} => event[u] \in Events
               /\ pc'[u] \in Inside => lock[event[u].w] = u
               /\ pc'[u] = "handle" =>
                    cur[u] \in Conns /\ wrapper'[cur[u]] = event[u].w
               /\ pc'[u] \in Changes => cur[u] \in Conns
      BY <2>1 DEF InHandler
    <3>1. CASE u = t
      BY <2>5, <3>1 DEF Inside, Changes
    <3>2. CASE u # t
      BY <1>0, <2>4, <2>5, <3>2 DEF InHandler
    <3> QED BY <3>1, <3>2
  <2>10. TypeOK'
    BY <1>0, <2>1, <2>2, <2>5 DEF TypeOK, AcceptorStates, PCs
  <2> QED BY <2>2, <2>6, <2>7, <2>8, <2>9, <2>10 DEF SInv
<1>2. CASE NoAddress(t) \/ StartThread(t)
  <2>1. /\ Goto(t, "wait") /\ UNCHANGED pool /\ UNCHANGED <<state, taken>>
        /\ UNCHANGED <<program, lock, acc, idx, state, dealt, registry, raced,
                       arrived, input, event, cur, fault, wrapper>>
    BY <1>2 DEF NoAddress, StartThread, deal, queue, table, pool
  <2>2. servs' \in Seq(Threads)
    <3>1. CASE servs' = servs
      BY <1>0, <3>1 DEF TypeOK
    <3>2. CASE servs' = Append(servs, t)
      BY <1>0, <3>2, AppendProperties DEF TypeOK
    <3> QED BY <1>2, <3>1, <3>2 DEF NoAddress, StartThread, SetServ, deal
  <2>3. /\ pc' \in [Threads -> PCs] /\ pc'[t] = "wait"
        /\ \A u \in Threads \ {t} : pc'[u] = pc[u]
    BY <1>0, <2>1, GotoType DEF PCs
  <2>4. AcceptorWrapped'
    BY <1>0, <2>1, <2>3, Constants DEF AcceptorWrapped
  <2>5. InHandler'
    BY <2>1, OutsideKeeps
  <2>6. TypeOK'
    BY <1>0, <2>1, <2>2, <2>3 DEF TypeOK, pool, PCs
  <2> QED BY <2>1, <2>4, <2>5, <2>6, ObjectsKept DEF SInv
<1>3. CASE BindFails(t)
  <2>1. /\ UNCHANGED pool /\ UNCHANGED <<state, taken>>
        /\ UNCHANGED <<program, lock, acc, servs, idx, dealt, registry, raced,
                       arrived, input, pc, event, cur, wrapper>>
        /\ fault' = "wild"
    BY <1>3 DEF BindFails, Die, deal, queue, table, pool
  <2>2. AcceptorWrapped' /\ InHandler'
    BY <1>0, <2>1 DEF AcceptorWrapped, InHandler
  <2>3. TypeOK'
    BY <1>0, <2>1 DEF TypeOK, pool
  <2> QED BY <2>1, <2>2, <2>3, ObjectsKept DEF SInv
<1> QED BY <1>1, <1>2, <1>3 DEF Start

LEMMA KeepsOutside ==
    ASSUME SInv,
           \/ PeerConnects
           \/ \E c \in Conns, what \in {"data", "end"} : PeerSends(c, what)
    PROVE  SInv'
<1>0. TypeOK /\ AcceptorWrapped /\ InHandler
  BY DEF SInv
<1>1. /\ UNCHANGED pool /\ UNCHANGED <<state, taken>>
      /\ UNCHANGED <<program, lock, acc, servs, idx, dealt, registry, raced,
                     pc, event, cur, fault, wrapper>>
  BY DEF PeerConnects, PeerSends, deal, queue, table, pool
<1>2. AcceptorWrapped' /\ InHandler'
  BY <1>0, <1>1 DEF AcceptorWrapped, InHandler
<1>3. arrived' \in 0..MaxConns /\ taken' \in 0..arrived'
      /\ input' \in [Conns -> {"none", "data", "end"}]
  <2>1. CASE PeerConnects
    <3>1. program.peers \in 0..MaxConns
      BY <1>0, ServerAssumption DEF TypeOK
    <3>2. input' = input /\ arrived' = arrived + 1 /\ arrived < program.peers
      BY <2>1 DEF PeerConnects
    <3> QED BY <1>0, <1>1, <3>1, <3>2, Constants DEF TypeOK
  <2>2. ASSUME NEW c \in Conns, NEW what \in {"data", "end"}, PeerSends(c, what)
        PROVE  arrived' \in 0..MaxConns /\ taken' \in 0..arrived'
               /\ input' \in [Conns -> {"none", "data", "end"}]
    BY <1>0, <1>1, <2>2 DEF PeerSends, TypeOK, queue
  <2> QED BY <2>1, <2>2
<1>4. TypeOK'
  BY <1>0, <1>1, <1>3 DEF TypeOK, pool
<1> QED BY <1>1, <1>2, <1>4, ObjectsKept DEF SInv

LEMMA KeepsEvents ==
    ASSUME SInv, NEW t \in Threads,
           \/ \E o \in Objects, kind \in Tasks : EpollWait(t, o, kind)
           \/ Drop(t)
    PROVE  SInv'
<1>0. TypeOK /\ AcceptorWrapped /\ InHandler /\ Wrapped
  BY DEF SInv
<1>1. /\ UNCHANGED pool /\ UNCHANGED <<state, taken>>
      /\ UNCHANGED <<program, lock, acc, servs, idx, dealt, registry, raced,
                     arrived, input, cur, fault, wrapper>>
  BY DEF EpollWait, Drop, deal, queue, table, pool
<1>2. PICK label \in {"wait", "event"} :
        /\ Goto(t, label) /\ pc[t] \in {"wait", "event"}
        /\ event' \in [Threads -> Events \cup {NoEvent}]
        /\ \A u \in Threads \ {t} : event'[u] = event[u]
        /\ label = "event" => event'[t] \in Events
  <2>1. ASSUME NEW o \in Objects, NEW kind \in Tasks, EpollWait(t, o, kind)
        PROVE  /\ Goto(t, "event") /\ pc[t] = "wait"
               /\ event' \in [Threads -> Events \cup {NoEvent}]
               /\ \A u \in Threads \ {t} : event'[u] = event[u]
               /\ event'[t] \in Events
    <3>1. wrapper[o] # Null
      <4>1. CASE o = Acceptor
        BY <1>0, <2>1, <4>1 DEF EpollWait, Ready, AcceptorWrapped
      <4>2. CASE o # Acceptor
        <5>1. o \in Conns
          BY <4>2, Constants DEF Objects, Conns, Acceptor
        <5>2. Alive(o)
          BY <2>1, <4>2 DEF EpollWait, Ready, Alive
        <5> QED BY <1>0, <5>1, <5>2 DEF Wrapped
      <4> QED BY <4>1, <4>2
    <3>2. [w |-> wrapper[o], kind |-> kind] \in Events
      BY <1>0, <3>1 DEF Events, TypeOK
    <3> QED BY <1>0, <2>1, <3>2 DEF EpollWait, TypeOK
  <2>2. CASE Drop(t)
    BY <1>0, <2>2 DEF Drop, TypeOK
  <2> QED BY <2>1, <2>2
<1>3. InHandler'
  BY <1>1, <1>2, OutsideKeeps
<1>4. /\ pc' \in [Threads -> PCs] /\ pc'[t] = label
      /\ \A u \in Threads \ {t} : pc'[u] = pc[u]
  BY <1>0, <1>2, GotoType DEF PCs
<1>5. AcceptorWrapped'
  BY <1>0, <1>1, <1>2, <1>4, Constants DEF AcceptorWrapped
<1>6. TypeOK'
  BY <1>0, <1>1, <1>2, <1>4 DEF TypeOK, pool, PCs
<1> QED BY <1>1, <1>3, <1>5, <1>6, ObjectsKept DEF SInv

LEMMA KeepsDispatch ==
    ASSUME SInv, NEW t \in Threads, Dispatch(t)
    PROVE  SInv'
<1> DEFINE w == event[t].w
           o == conn[w]
<1>0. TypeOK /\ AcceptorWrapped /\ InHandler /\ WrapperPointsBack
  BY DEF SInv
<1>1. /\ UNCHANGED pool /\ UNCHANGED <<state, taken>>
      /\ UNCHANGED <<program, acc, servs, idx, dealt, registry, raced, arrived,
                     input, event, wrapper>>
      /\ pc[t] = "event" /\ lock[w] = NoThread /\ o # NoObject
      /\ lock' = [lock EXCEPT ![w] = t]
      /\ cur' = [cur EXCEPT ![t] = o]
      /\ Goto(t, IF o = Acceptor THEN "accept" ELSE "handle")
      /\ fault' \in {fault, "acceptor", "connection"}
  BY DEF Dispatch, Die, Locked, deal, queue, table, pool
<1>2. event[t] \in Events /\ w \in Wrapper /\ o \in Objects /\ wrapper[o] = w
  <2>1. event[t] \in Events /\ w \in Wrapper
    BY <1>0, <1>1, EventParts DEF InHandler
  <2> QED BY <1>0, <1>1, <2>1 DEF TypeOK, WrapperPointsBack
<1>3. /\ pc' \in [Threads -> PCs]
      /\ pc'[t] = IF o = Acceptor THEN "accept" ELSE "handle"
      /\ \A u \in Threads \ {t} : pc'[u] = pc[u]
  BY <1>0, <1>1, GotoType DEF PCs
<1>4. InHandler'
  <2> SUFFICES ASSUME NEW u \in Threads
      PROVE  /\ pc'[u] \in Inside \cup {"event"} => event[u] \in Events
             /\ pc'[u] \in Inside => lock'[event[u].w] = u
             /\ pc'[u] = "handle" =>
                  cur'[u] \in Conns /\ wrapper[cur'[u]] = event[u].w
             /\ pc'[u] \in Changes => cur'[u] \in Conns
    BY <1>1 DEF InHandler
  <2>1. CASE u = t
    <3>1. lock'[w] = t /\ cur'[t] = o
      BY <1>0, <1>1, <1>2 DEF TypeOK
    <3>2. o # Acceptor => o \in Conns
      BY <1>2, Constants DEF Objects, Conns, Acceptor
    <3> QED BY <1>2, <1>3, <2>1, <3>1, <3>2 DEF Changes
  <2>2. CASE u # t
    <3>1. pc'[u] = pc[u] /\ cur'[u] = cur[u]
      BY <1>0, <1>1, <1>3, <2>2 DEF TypeOK
    <3>2. pc[u] \in Inside => event[u].w # w /\ event[u].w \in Wrapper
      BY <1>0, <1>1, Constants, EventParts DEF InHandler
    <3>3. pc[u] \in Inside => lock'[event[u].w] = u
      BY <1>0, <1>1, <3>2 DEF TypeOK, InHandler
    <3> QED BY <1>0, <3>1, <3>3 DEF InHandler
  <2> QED BY <2>1, <2>2
<1>5. AcceptorWrapped'
  BY <1>0, <1>1, <1>3, Constants DEF AcceptorWrapped
<1>6. TypeOK'
  <2>1. /\ lock' \in [Wrapper -> Threads \cup {NoThread}]
        /\ cur' \in [Threads -> Objects \cup {NoObject}]
    BY <1>0, <1>1, <1>2 DEF TypeOK
  <2> QED BY <1>0, <1>1, <1>3, <2>1 DEF TypeOK, pool, PCs
<1> QED BY <1>1, <1>4, <1>5, <1>6, ObjectsKept DEF SInv

LEMMA KeepsAccept ==
    ASSUME SInv, NEW t \in Threads, Accept(t)
    PROVE  SInv'
<1> DEFINE c == taken + 1
<1>0. /\ TypeOK /\ Good(lists) /\ AcceptorWrapped /\ WrappersMade /\ Wrapped
      /\ WrapperPointsBack /\ NotYet /\ InHandler
  BY DEF SInv
<1>1. /\ pc[t] = "accept" /\ Waiting /\ ~NobodyServes
      /\ taken' = c /\ OnAccept(c) /\ Connect(c)
      /\ state' = [state EXCEPT ![c] = "CONNECTED"]
      /\ cur' = [cur EXCEPT ![t] = c]
      /\ Goto(t, "made")
      /\ UNCHANGED <<program, lock, acc, servs, arrived, registry, raced, input,
                     event, fault>>
  BY DEF Accept, table
<1>2. c \in Conns /\ c \in Objects /\ c \in 0..arrived /\ c # Acceptor
      /\ taken \in Nat /\ c > taken
  BY <1>0, <1>1, NextConn, Constants
<1>3. state[c] = "away" /\ wrapper[c] = Null
  <2>1. state[c] = "away"
    BY <1>0, <1>2 DEF NotYet
  <2> QED BY <1>0, <1>2, <2>1 DEF Wrapped, Alive
<1> HIDE DEF c
<1>4. /\ Taken(lists) \in Wrapper
      /\ lists' \in Lists /\ Good(lists')
      /\ conn' \in [Wrapper -> Objects \cup {NoObject}]
      /\ conn'[Taken(lists)] = c
      /\ \A w \in Wrapper \ {Taken(lists)} : conn'[w] = conn[w]
      /\ wrapper' \in [Objects -> Wrapper \cup {Null}]
      /\ wrapper'[c] = Taken(lists)
      /\ \A x \in Objects \ {c} : wrapper'[x] = wrapper[x]
      /\ WrappersMade'
  BY <1>0, <1>1, <1>2, Connected
<1>5. /\ pc' \in [Threads -> PCs] /\ pc'[t] = "made"
      /\ \A u \in Threads \ {t} : pc'[u] = pc[u]
  BY <1>0, <1>1, GotoType DEF PCs
<1>6. /\ state' \in [Conns -> {"away", "CONNECTED", "FLUSHING", "CLOSED", "leaked"}]
      /\ state'[c] = "CONNECTED"
      /\ \A d \in Conns \ {c} : state'[d] = state[d]
  BY <1>0, <1>1, <1>2 DEF TypeOK
<1>7. Wrapped'
  <2> SUFFICES ASSUME NEW d \in Conns
               PROVE  Alive(d)' <=> wrapper'[d] # Null
    BY DEF Wrapped
  <2>1. CASE d = c
    BY <1>4, <1>6, <2>1, Constants DEF Alive
  <2>2. CASE d # c
    BY <1>0, <1>4, <1>6, <2>2, Constants DEF Wrapped, Alive
  <2> QED BY <2>1, <2>2
<1>8. NotYet'
  <2> SUFFICES ASSUME NEW d \in Conns, d > c PROVE state'[d] = "away"
    BY <1>1 DEF NotYet
  <2>1. d > taken /\ d # c
    BY <1>2, Constants
  <2> QED BY <1>0, <1>6, <2>1 DEF NotYet
<1>9. AcceptorWrapped'
  <2>1. wrapper'[Acceptor] = wrapper[Acceptor]
    BY <1>2, <1>4, Constants
  <2> QED BY <1>0, <1>1, <1>5, <2>1, Constants DEF AcceptorWrapped
<1>10. WrapperPointsBack'
  <2> SUFFICES ASSUME NEW w \in Wrapper, conn'[w] # NoObject
               PROVE  /\ wrapper'[conn'[w]] = w
                      /\ conn'[w] \in Conns =>
                           state'[conn'[w]] \in {"CONNECTED", "FLUSHING"}
    BY DEF WrapperPointsBack, Alive
  <2>1. CASE w = Taken(lists)
    BY <1>4, <1>6, <2>1
  <2>2. CASE w # Taken(lists)
    <3>1. conn'[w] = conn[w] /\ wrapper[conn[w]] = w /\ conn[w] \in Objects
          /\ (conn[w] \in Conns => Alive(conn[w]))
      BY <1>0, <1>4, <2>2 DEF WrapperPointsBack, TypeOK
    <3>2. conn[w] # c
      BY <1>3, <3>1, Constants
    <3> QED BY <1>4, <1>6, <3>1, <3>2 DEF Alive
  <2> QED BY <2>1, <2>2
<1>11. InHandler'
  <2> SUFFICES ASSUME NEW u \in Threads
      PROVE  /\ pc'[u] \in Inside \cup {"event"} => event[u] \in Events
             /\ pc'[u] \in Inside => lock[event[u].w] = u
             /\ pc'[u] = "handle" =>
                  cur'[u] \in Conns /\ wrapper'[cur'[u]] = event[u].w
             /\ pc'[u] \in Changes => cur'[u] \in Conns
    BY <1>1 DEF InHandler
  <2>1. CASE u = t
    <3>1. cur'[t] = c
      BY <1>0, <1>1 DEF TypeOK
    <3>2. event[t] \in Events /\ lock[event[t].w] = t
      BY <1>0, <1>1 DEF InHandler, Inside
    <3> QED BY <1>2, <1>5, <2>1, <3>1, <3>2, Constants
  <2>2. CASE u # t
    <3>1. pc'[u] = pc[u] /\ cur'[u] = cur[u]
      BY <1>0, <1>1, <1>5, <2>2 DEF TypeOK
    <3>2. pc[u] = "handle" => cur[u] \in Conns /\ wrapper'[cur[u]] = event[u].w
      <4> SUFFICES ASSUME pc[u] = "handle"
                   PROVE  cur[u] \in Conns /\ wrapper'[cur[u]] = event[u].w
        OBVIOUS
      <4>1. /\ cur[u] \in Conns /\ cur[u] \in Objects /\ Alive(cur[u])
            /\ wrapper[cur[u]] = event[u].w
        BY Handled
      <4>2. cur[u] # c
        BY <1>3, <4>1 DEF Alive
      <4> QED BY <1>4, <4>1, <4>2
    <3> QED BY <1>0, <3>1, <3>2 DEF InHandler
  <2> QED BY <2>1, <2>2
<1>12. idx' \in Nat
       /\ dealt' \in [Conns -> [to : Threads \cup {NoThread}, of : Nat]]
  <2>1. CASE program.shared
    BY <1>0, <1>1, <2>1 DEF OnAccept, DealHere, TypeOK
  <2>2. CASE ~program.shared
    <3> DEFINE n == Len(servs)
    <3>1. servs \in Seq(Threads) /\ n \in Nat /\ n # 0
      BY <1>0, <1>1, <2>2 DEF NobodyServes, TypeOK
    <3>2. idx \in Nat /\ (idx % n) + 1 \in 1..n /\ NextIdx \in Nat
      BY <1>0, <3>1 DEF TypeOK, NextIdx
    <3>3. [to |-> servs[(idx % n) + 1], of |-> n]
            \in [to : Threads \cup {NoThread}, of : Nat]
      BY <3>1, <3>2
    <3> QED BY <1>0, <1>1, <2>2, <3>2, <3>3, SMTT(20)
        DEF OnAccept, DealInTurn, TypeOK
  <2> QED BY <2>1, <2>2
<1>13. TypeOK'
  <2>1. cur' \in [Threads -> Objects \cup {NoObject}]
    BY <1>0, <1>1, <1>2 DEF TypeOK
  <2> QED BY <1>0, <1>1, <1>2, <1>4, <1>5, <1>6, <1>12, <2>1 DEF TypeOK, PCs
<1> QED BY <1>4, <1>7, <1>8, <1>9, <1>10, <1>11, <1>13 DEF SInv

LEMMA KeepsAcceptForNobody ==
    ASSUME SInv, NEW t \in Threads, AcceptForNobody(t)
    PROVE  SInv'
<1>0. /\ TypeOK /\ Good(lists) /\ AcceptorWrapped /\ WrappersMade /\ Wrapped
      /\ WrapperPointsBack /\ NotYet /\ InHandler
  BY DEF SInv
<1> DEFINE c == taken + 1
<1>1. /\ Waiting /\ taken' = c
      /\ state' = [state EXCEPT ![c] = "leaked"]
      /\ UNCHANGED <<program, lists, conn, wrapper, lock, acc, servs, idx, dealt,
                     arrived, registry, raced, input, pc, event, cur, fault>>
  BY DEF AcceptForNobody, pool, deal, table
<1>2. c \in Conns /\ c \in 0..arrived /\ taken \in Nat /\ c > taken /\ c \in Nat
  BY <1>0, <1>1, NextConn, Constants
<1> HIDE DEF c
<1>3. state[c] = "away" /\ wrapper[c] = Null
  <2>1. state[c] = "away"
    BY <1>0, <1>2 DEF NotYet
  <2> QED BY <1>0, <1>2, <2>1 DEF Wrapped, Alive
<1>4. /\ state' \in [Conns -> {"away", "CONNECTED", "FLUSHING", "CLOSED", "leaked"}]
      /\ state'[c] = "leaked"
      /\ \A d \in Conns \ {c} : state'[d] = state[d]
  BY <1>0, <1>1, <1>2 DEF TypeOK
<1>5. \A d \in Conns : Alive(d)' <=> Alive(d)
  BY <1>3, <1>4 DEF Alive
<1>6. NotYet'
  <2> SUFFICES ASSUME NEW d \in Conns, d > c PROVE state'[d] = "away"
    BY <1>1 DEF NotYet
  <2>1. d > taken /\ d # c
    BY <1>2, Constants
  <2> QED BY <1>0, <1>4, <2>1 DEF NotYet
<1>7. WrappersMade' /\ Wrapped' /\ AcceptorWrapped' /\ WrapperPointsBack'
  BY <1>0, <1>1, <1>5 DEF WrappersMade, Wrapped, AcceptorWrapped,
     WrapperPointsBack
<1>8. InHandler'
  BY <1>0, <1>1 DEF InHandler
<1>9. TypeOK'
  BY <1>0, <1>1, <1>2, <1>4 DEF TypeOK
<1> QED BY <1>0, <1>1, <1>6, <1>7, <1>8, <1>9 DEF SInv

(* The steps that change conns_, of which only the acceptor's second one   *)
(* turns to another object.                                                *)
LEMMA KeepsTable ==
    ASSUME SInv, NEW t \in Threads,
           GotConn(t) \/ Emplaced(t) \/ OnClosed(t) \/ Erased(t)
    PROVE  SInv'
<1>0. TypeOK /\ AcceptorWrapped /\ InHandler
  BY DEF SInv
<1>1. /\ pc[t] \in Changes /\ UNCHANGED pool /\ UNCHANGED <<state, taken>>
      /\ UNCHANGED <<program, lock, acc, servs, idx, dealt, arrived, input,
                     event, wrapper>>
  BY DEF GotConn, Emplaced, OnClosed, Erased, Changes, deal, queue, pool
<1>2. cur[t] \in Conns /\ event[t] \in Events /\ lock[event[t].w] = t
  BY <1>0, <1>1 DEF InHandler, Inside, Changes
<1>3. PICK label \in {"emplace", "accept", "erase", "leave"} :
        /\ Goto(t, label)
        /\ IF label = "accept" THEN cur' = [cur EXCEPT ![t] = Acceptor] ELSE cur' = cur
  BY DEF GotConn, Emplaced, OnClosed, Erased
<1>4. /\ pc' \in [Threads -> PCs] /\ pc'[t] = label
      /\ \A u \in Threads \ {t} : pc'[u] = pc[u]
  BY <1>0, <1>3, GotoType DEF PCs
<1>5. /\ cur' \in [Threads -> Objects \cup {NoObject}]
      /\ \A u \in Threads \ {t} : cur'[u] = cur[u]
      /\ label # "accept" => cur'[t] = cur[t]
  <2>1. cur \in [Threads -> Objects \cup {NoObject}] /\ Acceptor \in Objects
    BY <1>0, Constants DEF TypeOK
  <2>2. CASE label = "accept"
    BY <1>3, <2>1, <2>2
  <2>3. CASE label # "accept"
    BY <1>3, <2>1, <2>3
  <2> QED BY <2>2, <2>3
<1>6. InHandler'
  <2> SUFFICES ASSUME NEW u \in Threads
      PROVE  /\ pc'[u] \in Inside \cup {"event"} => event[u] \in Events
             /\ pc'[u] \in Inside => lock[event[u].w] = u
             /\ pc'[u] = "handle" =>
                  cur'[u] \in Conns /\ wrapper[cur'[u]] = event[u].w
             /\ pc'[u] \in Changes => cur'[u] \in Conns
    BY <1>1 DEF InHandler
  <2>1. CASE u = t
    BY <1>2, <1>4, <1>5, <2>1 DEF Changes
  <2>2. CASE u # t
    BY <1>0, <1>4, <1>5, <2>2 DEF InHandler
  <2> QED BY <2>1, <2>2
<1>7. AcceptorWrapped'
  BY <1>0, <1>1, <1>4, Constants DEF AcceptorWrapped
<1>8. /\ registry' \subseteq Conns
      /\ raced' \subseteq Threads \cup {NoThread}
      /\ fault' \in {fault, "registry", "race"}
  <2>1. Serv(cur[t]) \in Threads \cup {NoThread}
    BY <1>0, <1>2, Constants DEF Serv, TypeOK
  <2>2. CASE GotConn(t) \/ OnClosed(t)
    BY <1>0, <2>1, <2>2 DEF GotConn, OnClosed, BeginChange, TypeOK
  <2>3. CASE Emplaced(t) \/ Erased(t)
    BY <1>0, <1>2, <2>3
       DEF Emplaced, Erased, Wrecked, Register, Unregister, Die, TypeOK
  <2> QED BY <2>2, <2>3
<1>9. TypeOK'
  BY <1>0, <1>1, <1>4, <1>5, <1>8 DEF TypeOK, pool, PCs
<1> QED BY <1>1, <1>6, <1>7, <1>9, ObjectsKept DEF SInv

LEMMA KeepsEnds ==
    ASSUME SInv, NEW t \in Threads, Ends(t)
    PROVE  SInv'
<1>0. /\ TypeOK /\ Good(lists) /\ AcceptorWrapped /\ WrappersMade /\ Wrapped
      /\ WrapperPointsBack /\ NotYet /\ InHandler
  BY DEF SInv
<1>1. PICK c \in Conns : c = cur[t]
  BY Handled DEF Ends
<1>2. /\ pc[t] = "handle" /\ Disconnect(c)
      /\ state' = [state EXCEPT ![c] = "CLOSED"]
      /\ input' = [input EXCEPT ![c] = "none"]
      /\ Goto(t, "ended")
      /\ UNCHANGED <<program, lock, acc, servs, idx, dealt, registry, raced,
                     arrived, taken, event, cur, fault>>
  BY <1>1 DEF Ends, deal, queue, table
<1>3. /\ c \in Objects /\ c # Acceptor /\ Alive(c)
      /\ event[t] \in Events /\ wrapper[c] = event[t].w
      /\ wrapper[c] \in lists.made /\ lock[wrapper[c]] = t
  BY <1>1, <1>2, Handled, Constants
<1>4. /\ lists' \in Lists /\ Good(lists') /\ lists'.made = lists.made
      /\ conn' \in [Wrapper -> Objects \cup {NoObject}]
      /\ conn'[wrapper[c]] = NoObject
      /\ \A w \in Wrapper \ {wrapper[c]} : conn'[w] = conn[w]
      /\ wrapper' \in [Objects -> Wrapper \cup {Null}]
      /\ wrapper'[c] = Null
      /\ \A x \in Objects \ {c} : wrapper'[x] = wrapper[x]
      /\ WrappersMade'
  BY <1>0, <1>2, <1>3, Disconnected
<1>5. /\ pc' \in [Threads -> PCs] /\ pc'[t] = "ended"
      /\ \A u \in Threads \ {t} : pc'[u] = pc[u]
  BY <1>0, <1>2, GotoType DEF PCs
<1>6. /\ state' \in [Conns -> {"away", "CONNECTED", "FLUSHING", "CLOSED", "leaked"}]
      /\ state'[c] = "CLOSED"
      /\ \A d \in Conns \ {c} : state'[d] = state[d]
  BY <1>0, <1>2 DEF TypeOK
<1>7. Wrapped'
  <2> SUFFICES ASSUME NEW d \in Conns
               PROVE  Alive(d)' <=> wrapper'[d] # Null
    BY DEF Wrapped
  <2>1. CASE d = c
    BY <1>4, <1>6, <2>1 DEF Alive
  <2>2. CASE d # c
    BY <1>0, <1>4, <1>6, <2>2, Constants DEF Wrapped, Alive
  <2> QED BY <2>1, <2>2
<1>8. NotYet'
  BY <1>0, <1>2, <1>3, <1>6 DEF NotYet, Alive
<1>9. AcceptorWrapped'
  <2>1. wrapper'[Acceptor] = wrapper[Acceptor]
    BY <1>3, <1>4, Constants
  <2> QED BY <1>0, <1>2, <1>5, <2>1, Constants DEF AcceptorWrapped
<1>10. WrapperPointsBack'
  <2> SUFFICES ASSUME NEW w \in Wrapper, conn'[w] # NoObject
               PROVE  /\ wrapper'[conn'[w]] = w
                      /\ conn'[w] \in Conns =>
                           state'[conn'[w]] \in {"CONNECTED", "FLUSHING"}
    BY DEF WrapperPointsBack, Alive
  <2>1. w # wrapper[c] /\ conn'[w] = conn[w]
    BY <1>4
  <2>2. wrapper[conn[w]] = w /\ conn[w] \in Objects
        /\ (conn[w] \in Conns => Alive(conn[w]))
    BY <1>0, <2>1 DEF WrapperPointsBack, TypeOK
  <2>3. conn[w] # c
    BY <2>1, <2>2
  <2> QED BY <1>4, <1>6, <2>1, <2>2, <2>3 DEF Alive
<1>11. InHandler'
  <2> SUFFICES ASSUME NEW u \in Threads
      PROVE  /\ pc'[u] \in Inside \cup {"event"} => event[u] \in Events
             /\ pc'[u] \in Inside => lock[event[u].w] = u
             /\ pc'[u] = "handle" =>
                  cur[u] \in Conns /\ wrapper'[cur[u]] = event[u].w
             /\ pc'[u] \in Changes => cur[u] \in Conns
    BY <1>2 DEF InHandler
  <2>1. CASE u = t
    BY <1>1, <1>3, <1>5, <2>1
  <2>2. CASE u # t
    <3>1. pc[u] = "handle" => cur[u] \in Conns /\ wrapper'[cur[u]] = event[u].w
      <4> SUFFICES ASSUME pc[u] = "handle"
                   PROVE  cur[u] \in Conns /\ wrapper'[cur[u]] = event[u].w
        OBVIOUS
      <4>1. /\ cur[u] \in Conns /\ cur[u] \in Objects
            /\ wrapper[cur[u]] = event[u].w /\ lock[event[u].w] = u
        BY Handled
      <4>2. cur[u] # c
        BY <1>3, <2>2, <4>1
      <4> QED BY <1>4, <4>1, <4>2
    <3> QED BY <1>0, <1>5, <2>2, <3>1 DEF InHandler
  <2> QED BY <2>1, <2>2
<1>12. TypeOK'
  <2>1. input' \in [Conns -> {"none", "data", "end"}]
    BY <1>0, <1>2 DEF TypeOK
  <2> QED BY <1>0, <1>2, <1>4, <1>5, <1>6, <2>1 DEF TypeOK, PCs
<1> QED BY <1>4, <1>7, <1>8, <1>9, <1>10, <1>11, <1>12 DEF SInv

-----------------------------------------------------------------------------
LEMMA InitSInv == Init => SInv
<1> SUFFICES ASSUME Init PROVE SInv
  OBVIOUS
<1>1. /\ lists = EmptyLists
      /\ conn = [w \in Wrapper |-> NoObject]
      /\ lock = [w \in Wrapper |-> NoThread]
      /\ wrapper = [o \in Objects |-> Null]
      /\ state = [c \in Conns |-> "away"]
      /\ servs = << >> /\ idx = 0 /\ dealt = [c \in Conns |-> NotDealt]
      /\ registry = {} /\ raced = {}
      /\ program \in Programs /\ acc = "WAIT_BIND" /\ arrived = 0 /\ taken = 0
      /\ input = [c \in Conns |-> "none"]
      /\ pc = [t \in Threads |-> "start"]
      /\ event = [t \in Threads |-> NoEvent]
      /\ cur = [t \in Threads |-> NoObject]
      /\ fault = "none"
  BY DEF Init, NewWrappers, NewConns, NewMultiAccept, NewServ
<1>2. lists \in Lists /\ Good(lists)
  <2>1. /\ EmptyLists.cell = [a \in Address |-> Null]
        /\ EmptyLists.back = [w \in Wrapper |-> Null]
        /\ EmptyLists.last = [h \in {Free, Used} |-> h]
        /\ EmptyLists.made = {}
    BY DEF EmptyLists
  <2>2. EmptyLists \in Lists
    BY DEF EmptyLists, Lists, Address
  <2> QED BY <1>1, <2>1, <2>2 DEF Good, Places
<1>3. TypeOK
  <2>1. NotDealt \in [to : Threads \cup {NoThread}, of : Nat]
    BY DEF NotDealt
  <2>2. << >> \in Seq(Threads)
    OBVIOUS
  <2> QED BY <1>1, <1>2, <2>1, <2>2, Constants DEF TypeOK, AcceptorStates
<1>4. WrappersMade /\ Wrapped /\ NotYet /\ AcceptorWrapped
  BY <1>1, Constants DEF WrappersMade, Wrapped, Alive, NotYet, AcceptorWrapped
<1>5. InHandler /\ WrapperPointsBack
  BY <1>1 DEF InHandler, Inside, Changes, WrapperPointsBack
<1> QED BY <1>2, <1>3, <1>4, <1>5 DEF SInv

LEMMA StepSInv == SInv /\ [Next]_vars => SInv'
<1> SUFFICES ASSUME SInv, [Next]_vars PROVE SInv'
  OBVIOUS
<1>1. CASE UNCHANGED vars
  BY <1>1 DEF vars, SInv, TypeOK, WrappersMade, Wrapped, Alive, NotYet,
     AcceptorWrapped, InHandler, WrapperPointsBack
<1>2. ASSUME NEW t \in Threads, Start(t) PROVE SInv'
  BY <1>2, KeepsStart
<1>3. ASSUME NEW t \in Threads, Handle(t) PROVE SInv'
  <2>1. CASE Drop(t)
    BY <2>1, KeepsEvents
  <2>2. CASE Dispatch(t)
    BY <2>2, KeepsDispatch
  <2>3. CASE Accept(t)
    BY <2>3, KeepsAccept
  <2>4. CASE AcceptForNobody(t)
    BY <2>4, KeepsAcceptForNobody
  <2>5. CASE AcceptDone(t) \/ AcceptPauses(t) \/ AcceptFails(t)
    BY <2>5, KeepsUnlocking
  <2>6. CASE GoesOn(t) \/ Leave(t)
    BY <2>6, KeepsUnlocking
  <2>7. CASE Flushes(t)
    BY <2>7, KeepsFlushes
  <2>8. CASE Ends(t)
    BY <2>8, KeepsEnds
  <2>9. CASE GotConn(t) \/ Emplaced(t) \/ OnClosed(t) \/ Erased(t)
    BY <2>9, KeepsTable
  <2> QED BY <1>3, <2>1, <2>2, <2>3, <2>4, <2>5, <2>6, <2>7, <2>8, <2>9
          DEF Handle
<1>4. ASSUME NEW t \in Threads, NEW o \in Objects, NEW kind \in Tasks,
             EpollWait(t, o, kind)
      PROVE  SInv'
  BY <1>4, KeepsEvents
<1>5. CASE PeerConnects
  BY <1>5, KeepsOutside
<1>6. ASSUME NEW c \in Conns, NEW what \in {"data", "end"}, PeerSends(c, what)
      PROVE  SInv'
  BY <1>6, KeepsOutside
<1> QED BY <1>1, <1>2, <1>3, <1>4, <1>5, <1>6 DEF Next

(* The variables keep their types: the links of the two lists lead to      *)
(* wrappers and heads, although wrappers end up on both (Loop.cpp:77-110). *)
THEOREM ServerTypeCorrect == Spec => []TypeOK
<1>1. SInv => TypeOK
  BY DEF SInv
<1> QED BY <1>1, InitSInv, StepSInv, PTL DEF Spec

(* A handler runs on an object that lives, and alone on it                 *)
(* (Loop.hpp:108-115): the lock of the wrapper that the event points to    *)
(* protects the object, as an object has one wrapper at a time.            *)
THEOREM HandlersAlwaysSafe == Spec => []HandlersSafe
<1>1. SInv => HandlersSafe
  <2> SUFFICES ASSUME SInv, NEW t \in Threads, pc[t] = "handle"
               PROVE  /\ Alive(cur[t])
                      /\ \A u \in Threads \ {t} :
                           pc[u] = "handle" => cur[u] # cur[t]
    BY DEF HandlersSafe
  <2>1. Alive(cur[t]) /\ wrapper[cur[t]] = event[t].w /\ lock[event[t].w] = t
    BY Handled
  <2>2. \A u \in Threads \ {t} : pc[u] = "handle" =>
          wrapper[cur[u]] = event[u].w /\ lock[event[u].w] = u
    BY Handled
  <2> QED BY <2>1, <2>2
<1> QED BY <1>1, InitSInv, StepSInv, PTL DEF Spec

(* A wrapper stands for an object that lives and that knows it             *)
(* (Loop.cpp:93-94, :108-109).                                             *)
THEOREM WrappersPointBack == Spec => []WrapperPointsBack
<1>1. SInv => WrapperPointsBack
  BY DEF SInv
<1> QED BY <1>1, InitSInv, StepSInv, PTL DEF Spec

-----------------------------------------------------------------------------
(* Until something was given back the free list is empty and every wrapper *)
(* is new, so that no two objects get one.                                 *)
NoneClosed == \A c \in Conns : state[c] # "CLOSED"

Alone ==
    NoneClosed =>
        /\ Unreturned(lists)
        /\ \A o \in Objects : wrapper[o] # Null => conn[wrapper[o]] = o

(* A connection that is closed stays so.                                   *)
ClosedKept == \A c \in Conns : state[c] = "CLOSED" => state'[c] = "CLOSED"

LEMMA ConnectKeepsAlone ==
    ASSUME SInv, Alone, NEW o \in Objects, wrapper[o] = Null, Connect(o),
           ClosedKept
    PROVE  Alone'
<1>0. TypeOK /\ Good(lists) /\ WrappersMade
  BY DEF SInv
<1> SUFFICES ASSUME NoneClosed'
             PROVE  /\ Unreturned(lists')
                    /\ \A x \in Objects :
                         wrapper'[x] # Null => conn'[wrapper'[x]] = x
  BY DEF Alone
<1>1. /\ Unreturned(lists)
      /\ \A x \in Objects : wrapper[x] # Null => conn[wrapper[x]] = x
  BY DEF Alone, NoneClosed, ClosedKept
<1>2. /\ CanTake(lists) /\ lists' = AfterTake(lists)
      /\ conn'[Taken(lists)] = o
      /\ \A w \in Wrapper \ {Taken(lists)} : conn'[w] = conn[w]
      /\ wrapper'[o] = Taken(lists)
      /\ \A x \in Objects \ {o} : wrapper'[x] = wrapper[x]
  BY <1>0, Connected DEF Connect
<1>3. Taken(lists) \notin lists.made /\ Unreturned(lists')
  BY <1>0, <1>1, <1>2, TakeGood
<1>4. ASSUME NEW x \in Objects, wrapper'[x] # Null
      PROVE  conn'[wrapper'[x]] = x
  <2>1. CASE x = o
    BY <1>2, <2>1
  <2>2. CASE x # o
    <3>1. wrapper'[x] = wrapper[x] /\ wrapper[x] \in lists.made
      BY <1>0, <1>2, <1>4, <2>2 DEF WrappersMade
    <3>2. wrapper[x] \in Wrapper \ {Taken(lists)}
      BY <1>0, <1>3, <3>1 DEF TypeOK, Lists
    <3> QED BY <1>1, <1>2, <1>4, <3>1, <3>2
  <2> QED BY <2>1, <2>2
<1> QED BY <1>3, <1>4

LEMMA StepAlone == SInv /\ Alone /\ [Next]_vars => Alone'
<1> SUFFICES ASSUME SInv, Alone, [Next]_vars PROVE Alone'
  OBVIOUS
<1>0. TypeOK /\ NotYet /\ Wrapped /\ AcceptorWrapped
  BY DEF SInv
<1>1. ASSUME UNCHANGED pool, ClosedKept PROVE Alone'
  BY <1>1 DEF pool, ClosedKept, Alone, NoneClosed
<1>2. CASE UNCHANGED vars
  BY <1>1, <1>2 DEF vars, pool, ClosedKept
<1>3. ASSUME NEW t \in Threads, Start(t) PROVE Alone'
  <2>1. CASE Bind(t)
    <3>1. Connect(Acceptor) /\ wrapper[Acceptor] = Null /\ UNCHANGED state
      BY <1>0, <2>1 DEF Bind, AcceptorWrapped
    <3> QED BY <3>1, Constants, ConnectKeepsAlone DEF ClosedKept
  <2>2. CASE NoAddress(t) \/ BindFails(t) \/ StartThread(t)
    BY <1>1, <2>2 DEF NoAddress, BindFails, StartThread, pool, ClosedKept
  <2> QED BY <1>3, <2>1, <2>2 DEF Start
<1>4. ASSUME NEW t \in Threads, Handle(t) PROVE Alone'
  <2>1. CASE Accept(t)
    <3>1. /\ taken + 1 \in Conns /\ taken + 1 \in Objects
          /\ state[taken + 1] = "away"
      BY <1>0, <2>1, NextConn, Constants DEF Accept, NotYet
    <3>2. wrapper[taken + 1] = Null
      BY <1>0, <3>1 DEF Wrapped, Alive
    <3>3. Connect(taken + 1) /\ ClosedKept
      BY <1>0, <2>1, <3>1 DEF Accept, ClosedKept, TypeOK
    <3> QED BY <3>1, <3>2, <3>3, ConnectKeepsAlone
  <2>2. CASE AcceptForNobody(t)
    <3>1. taken + 1 \in Conns /\ state[taken + 1] = "away"
      BY <1>0, <2>2, NextConn DEF AcceptForNobody, NotYet
    <3>2. UNCHANGED pool /\ ClosedKept
      BY <1>0, <2>2, <3>1 DEF AcceptForNobody, ClosedKept, TypeOK
    <3> QED BY <1>1, <3>2
  <2>3. CASE Flushes(t)
    <3>1. cur[t] \in Conns /\ Alive(cur[t])
      BY <2>3, Handled DEF Flushes
    <3>2. UNCHANGED pool /\ ClosedKept
      BY <1>0, <2>3, <3>1 DEF Flushes, ClosedKept, TypeOK, Alive
    <3> QED BY <1>1, <3>2
  <2>4. CASE Ends(t)
    <3>1. cur[t] \in Conns /\ state' = [state EXCEPT ![cur[t]] = "CLOSED"]
      BY <2>4, Handled DEF Ends
    <3> QED BY <1>0, <3>1 DEF TypeOK, Alone, NoneClosed
  <2>5. CASE Drop(t) \/ Dispatch(t) \/ AcceptDone(t)
    BY <1>1, <2>5 DEF Drop, Dispatch, AcceptDone, ClosedKept
  <2>6. CASE AcceptPauses(t) \/ AcceptFails(t) \/ GoesOn(t) \/ Leave(t)
    BY <1>1, <2>6 DEF AcceptPauses, AcceptFails, GoesOn, Leave, ClosedKept
  <2>7. CASE GotConn(t) \/ Emplaced(t) \/ OnClosed(t) \/ Erased(t)
    BY <1>1, <2>7 DEF GotConn, Emplaced, OnClosed, Erased, ClosedKept
  <2> QED BY <1>4, <2>1, <2>2, <2>3, <2>4, <2>5, <2>6, <2>7 DEF Handle
<1>5. ASSUME NEW t \in Threads, NEW o \in Objects, NEW kind \in Tasks,
             EpollWait(t, o, kind)
      PROVE  Alone'
  BY <1>1, <1>5 DEF EpollWait, ClosedKept
<1>6. CASE PeerConnects
  BY <1>1, <1>6 DEF PeerConnects, ClosedKept
<1>7. ASSUME NEW c \in Conns, NEW what \in {"data", "end"}, PeerSends(c, what)
      PROVE  Alone'
  BY <1>1, <1>7 DEF PeerSends, ClosedKept
<1> QED BY <1>2, <1>3, <1>4, <1>5, <1>6, <1>7 DEF Next

(* While no connection has ended, no two objects share a wrapper: every    *)
(* event reaches the object it was reported for (Loop.cpp:77-95).          *)
THEOREM EventsReachTheirObject == Spec => []SharedOnlyAfterAnEnd
<1>1. Init => Alone
  <2> SUFFICES ASSUME Init PROVE Alone
    OBVIOUS
  <2>1. lists = EmptyLists /\ wrapper = [o \in Objects |-> Null]
    BY DEF Init, NewWrappers, NewConns
  <2>2. Unreturned(lists)
    BY <2>1, Distinct DEF EmptyLists, Unreturned, Address
  <2> QED BY <2>1, <2>2 DEF Alone
<1>2. Alone => SharedOnlyAfterAnEnd
  BY DEF Alone, NoneClosed, SharedOnlyAfterAnEnd
<1> QED BY <1>1, <1>2, StepAlone, InitSInv, StepSInv, PTL DEF Spec

-----------------------------------------------------------------------------
(* The threads that change conns_: the acceptor's, each with a connection  *)
(* of its own from the end of its constructor to the end of emplace, and   *)
(* those from closeNow to the end of erase.                                *)
Entering == {"made", "emplace"}
Leaving  == {"ended", "erase"}

(* The connections of those threads and of the tables have arrived; a      *)
(* thread enters, and another one erases, one that nobody else does.       *)
Come ==
    /\ \A c \in registry : state[c] # "away"
    /\ \A t \in Threads : pc[t] \in Changes => state[cur[t]] # "away"
    /\ \A t \in Threads : pc[t] \in Leaving => state[cur[t]] = "CLOSED"
    /\ \A t, u \in Threads :
         t # u /\ (\/ pc[t] \in Entering /\ pc[u] \in Entering
                   \/ pc[t] \in Leaving /\ pc[u] \in Leaving)
           => cur[t] # cur[u]

Exact(c) ==
    c \in registry \/ AboutToEnter(c) <=> Alive(c) \/ AboutToErase(c)

RegInv ==
    /\ Come
    /\ \A t \in Threads : pc[t] \in Entering /\ Serv(cur[t]) \notin raced
                            => cur[t] \notin registry
    /\ \A c \in Conns : Serv(c) \notin raced => Exact(c)

Registered == fault = "none" => RegInv

LEMMA About ==
    ASSUME NEW c
    PROVE  /\ AboutToEnter(c) <=> \E t \in Threads : pc[t] \in Entering /\ cur[t] = c
           /\ AboutToErase(c) <=> \E t \in Threads : pc[t] \in Leaving /\ cur[t] = c
  BY DEF AboutToEnter, AboutToErase, Entering, Leaving

(* A step after which the same threads change conns_ for the same          *)
(* connections, and none comes or ends.                                    *)
LEMMA RegKept ==
    ASSUME SInv, RegInv, registry' = registry, raced \subseteq raced',
           UNCHANGED <<program, dealt>>,
           \A c \in Conns : /\ Alive(c)' <=> Alive(c)
                            /\ state[c] # "away" => state'[c] # "away"
                            /\ state[c] = "CLOSED" => state'[c] = "CLOSED",
           \A u \in Threads : /\ pc'[u] \in Entering <=> pc[u] \in Entering
                              /\ pc'[u] \in Leaving <=> pc[u] \in Leaving
                              /\ pc[u] \in Changes => cur'[u] = cur[u]
    PROVE  RegInv'
<1>1. \A u \in Threads : pc[u] \in Changes <=> pc[u] \in Entering \/ pc[u] \in Leaving
  BY DEF Changes, Entering, Leaving
<1>2. \A u \in Threads : pc'[u] \in Changes <=> pc[u] \in Changes
  BY <1>1 DEF Changes, Entering, Leaving
<1>3. /\ \A u \in Threads : pc[u] \in Changes => cur[u] \in Conns
      /\ registry \subseteq Conns
  BY DEF SInv, InHandler, TypeOK
<1>4. Come'
  BY <1>1, <1>2, <1>3 DEF RegInv, Come
<1>5. \A c : Serv(c)' = Serv(c)
  BY DEF Serv
<1>6. \A c \in Conns : /\ AboutToEnter(c)' <=> AboutToEnter(c)
                       /\ AboutToErase(c)' <=> AboutToErase(c)
  BY <1>1, About DEF AboutToEnter, AboutToErase, Entering, Leaving
<1>7. \A u \in Threads : pc'[u] \in Entering /\ Serv(cur'[u]) \notin raced'
                           => cur'[u] \notin registry
  BY <1>1, <1>5 DEF RegInv
<1>8. \A c \in Conns : Serv(c) \notin raced' => Exact(c)'
  BY <1>6 DEF RegInv, Exact
<1> QED BY <1>4, <1>5, <1>7, <1>8 DEF RegInv, Serv

(* A thread that was and is in no such place.                              *)
LEMMA GotoRegKept ==
    ASSUME SInv, RegInv, UNCHANGED <<table, program, dealt>>, NEW t \in Threads,
           NEW label \in PCs \ Changes, pc[t] \notin Changes, Goto(t, label),
           \A u \in Threads \ {t} : cur'[u] = cur[u],
           \A c \in Conns : /\ Alive(c)' <=> Alive(c)
                            /\ state[c] # "away" => state'[c] # "away"
                            /\ state[c] = "CLOSED" => state'[c] = "CLOSED"
    PROVE  RegInv'
<1>1. /\ pc'[t] = label
      /\ \A u \in Threads \ {t} : pc'[u] = pc[u]
  BY GotoType DEF SInv
<1>2. \A u \in Threads : /\ pc'[u] \in Entering <=> pc[u] \in Entering
                         /\ pc'[u] \in Leaving <=> pc[u] \in Leaving
                         /\ pc[u] \in Changes => cur'[u] = cur[u]
  BY <1>1 DEF Changes, Entering, Leaving
<1>3. registry' = registry /\ raced' = raced
  BY DEF table
<1> QED BY <1>2, <1>3, RegKept

(* The first steps of gotConn and of onClosed.                             *)
LEMMA BeginKeeps ==
    ASSUME SInv, RegInv, NEW t \in Threads, GotConn(t) \/ OnClosed(t)
    PROVE  RegInv'
<1>1. /\ UNCHANGED <<registry, program, servs, idx, dealt, state, cur>>
      /\ raced \subseteq raced'
  BY DEF GotConn, OnClosed, BeginChange, deal
<1>2. \/ pc[t] = "made" /\ Goto(t, "emplace")
      \/ pc[t] = "ended" /\ Goto(t, "erase")
  BY DEF GotConn, OnClosed
<1>3. /\ \/ pc[t] = "made" /\ pc'[t] = "emplace"
         \/ pc[t] = "ended" /\ pc'[t] = "erase"
      /\ \A u \in Threads \ {t} : pc'[u] = pc[u]
  BY <1>2, GotoType DEF PCs, SInv
<1>4. \A u \in Threads : /\ pc'[u] \in Entering <=> pc[u] \in Entering
                         /\ pc'[u] \in Leaving <=> pc[u] \in Leaving
  BY <1>3 DEF Entering, Leaving
<1> QED BY <1>1, <1>4, RegKept DEF Alive

LEMMA AcceptRegisters ==
    ASSUME SInv, RegInv, NEW t \in Threads, Accept(t)
    PROVE  RegInv'
<1>0. TypeOK /\ NotYet /\ InHandler
  BY DEF SInv
<1>a. PICK c \in Conns : c = taken + 1
  BY <1>0, NextConn DEF Accept
<1>1. /\ pc[t] = "accept" /\ UNCHANGED <<registry, raced, program>>
      /\ state' = [state EXCEPT ![c] = "CONNECTED"]
      /\ cur' = [cur EXCEPT ![t] = c]
      /\ Goto(t, "made")
  BY <1>a DEF Accept, table
<1>2. c \in Conns /\ state[c] = "away"
  BY <1>0, <1>a, NextConn DEF Accept, NotYet
<1>3. \A d \in Conns \ {c} : Serv(d)' = Serv(d)
  <2>1. OnAccept(c)
    BY <1>a DEF Accept
  <2>2. CASE program.shared
    BY <1>1, <2>2 DEF Serv
  <2>3. CASE ~program.shared
    BY <1>0, <1>1, <2>1, <2>3 DEF OnAccept, DealInTurn, Serv, TypeOK
  <2> QED BY <2>2, <2>3
<1>4. /\ pc'[t] = "made" /\ cur'[t] = c
      /\ \A u \in Threads \ {t} : pc'[u] = pc[u] /\ cur'[u] = cur[u]
  BY <1>0, <1>1, GotoType DEF PCs, TypeOK
<1>5. /\ state'[c] = "CONNECTED"
      /\ \A d \in Conns \ {c} : state'[d] = state[d]
  BY <1>0, <1>1, <1>2 DEF TypeOK
<1>6. /\ c \notin registry
      /\ \A u \in Threads : pc[u] \in Changes => cur[u] \in Conns \ {c}
  BY <1>0, <1>2 DEF RegInv, Come, InHandler
<1>7. \A u \in Threads : /\ pc'[u] \in Leaving <=> pc[u] \in Leaving
                         /\ pc'[u] \in Entering <=> pc[u] \in Entering \/ u = t
                         /\ pc[u] \in Entering \/ pc[u] \in Leaving
                              <=> pc[u] \in Changes
                         /\ pc'[u] \in Changes <=> pc[u] \in Changes \/ u = t
                         /\ pc[u] \in Changes => u # t
  BY <1>1, <1>4 DEF Entering, Leaving, Changes
<1>8. Come'
  <2>1. \A d \in registry' : state'[d] # "away"
    BY <1>0, <1>1, <1>5, <1>6 DEF RegInv, Come, TypeOK
  <2>2. ASSUME NEW u \in Threads, pc'[u] \in Changes
        PROVE  /\ state'[cur'[u]] # "away"
               /\ pc'[u] \in Leaving => state'[cur'[u]] = "CLOSED"
    <3>1. CASE u = t
      BY <1>4, <1>5, <1>7, <3>1
    <3>2. CASE u # t
      BY <1>4, <1>5, <1>6, <1>7, <2>2, <3>2 DEF RegInv, Come
    <3> QED BY <3>1, <3>2
  <2>3. \A u \in Threads : pc'[u] \in Leaving => pc'[u] \in Changes
    BY DEF Leaving, Changes
  <2>4. ASSUME NEW u \in Threads, NEW v \in Threads, u # v,
               \/ pc'[u] \in Entering /\ pc'[v] \in Entering
               \/ pc'[u] \in Leaving /\ pc'[v] \in Leaving
        PROVE  cur'[u] # cur'[v]
    <3>1. CASE u = t
      BY <1>4, <1>6, <1>7, <2>4, <3>1
    <3>2. CASE v = t
      BY <1>4, <1>6, <1>7, <2>4, <3>2
    <3>3. CASE u # t /\ v # t
      BY <1>4, <1>7, <2>4, <3>3 DEF RegInv, Come
    <3> QED BY <3>1, <3>2, <3>3
  <2> QED BY <2>1, <2>2, <2>3, <2>4 DEF Come
<1>9. \A u \in Threads : pc'[u] \in Entering /\ Serv(cur[u])' \notin raced'
                           => cur'[u] \notin registry'
  <2> SUFFICES ASSUME NEW u \in Threads, pc'[u] \in Entering,
                      Serv(cur[u])' \notin raced'
               PROVE  cur'[u] \notin registry
    BY <1>1
  <2>1. CASE u = t
    BY <1>4, <1>6, <2>1
  <2>2. CASE u # t
    <3>1. cur'[u] = cur[u] /\ cur[u] \in Conns \ {c} /\ pc[u] \in Entering
      BY <1>4, <1>6, <1>7, <2>2
    <3>2. Serv(cur[u])' = Serv(cur[u])
      BY <1>3, <3>1 DEF Serv
    <3> QED BY <1>1, <3>1, <3>2 DEF RegInv
  <2> QED BY <2>1, <2>2
<1>10. \A d \in Conns : Serv(d)' \notin raced' => Exact(d)'
  <2> SUFFICES ASSUME NEW d \in Conns, Serv(d)' \notin raced' PROVE Exact(d)'
    OBVIOUS
  <2>1. CASE d = c
    <3>1. AboutToEnter(c)'
      BY <1>4 DEF AboutToEnter
    <3>2. Alive(c)'
      BY <1>5 DEF Alive
    <3> QED BY <2>1, <3>1, <3>2 DEF Exact, AboutToEnter, Alive
  <2>2. CASE d # c
    <3>1. Serv(d) \notin raced
      BY <1>1, <1>3, <2>2
    <3>2. AboutToEnter(d)' <=> AboutToEnter(d)
      BY <1>1, <1>4, <2>2 DEF AboutToEnter
    <3>3. AboutToErase(d)' <=> AboutToErase(d)
      BY <1>1, <1>4, <2>2 DEF AboutToErase
    <3>4. Alive(d)' <=> Alive(d)
      BY <1>5, <2>2 DEF Alive
    <3> QED BY <1>1, <3>1, <3>2, <3>3, <3>4 DEF RegInv, Exact
  <2> QED BY <2>1, <2>2
<1> QED BY <1>8, <1>9, <1>10 DEF RegInv

LEMMA EndsRegisters ==
    ASSUME SInv, RegInv, NEW t \in Threads, Ends(t)
    PROVE  RegInv'
<1>a. PICK c \in Conns : c = cur[t]
  BY Handled DEF Ends
<1>0. TypeOK /\ InHandler /\ Alive(c)
  BY <1>a, Handled DEF SInv, Ends
<1>1. /\ pc[t] = "handle" /\ Goto(t, "ended") /\ cur' = cur
      /\ state' = [state EXCEPT ![c] = "CLOSED"]
      /\ UNCHANGED <<registry, raced, program, dealt>>
  BY <1>a DEF Ends, table, deal
<1>2. /\ pc'[t] = "ended"
      /\ \A u \in Threads \ {t} : pc'[u] = pc[u]
  BY <1>0, <1>1, GotoType DEF PCs
<1>3. /\ state'[c] = "CLOSED"
      /\ \A d \in Conns \ {c} : state'[d] = state[d]
  BY <1>0, <1>1 DEF TypeOK
<1>4. \A u \in Threads : /\ pc'[u] \in Leaving <=> pc[u] \in Leaving \/ u = t
                         /\ pc'[u] \in Entering <=> pc[u] \in Entering
                         /\ pc[u] \in Entering \/ pc[u] \in Leaving
                              <=> pc[u] \in Changes
                         /\ pc'[u] \in Changes <=> pc[u] \in Changes \/ u = t
                         /\ pc[u] \in Changes => u # t /\ cur[u] \in Conns
  BY <1>0, <1>1, <1>2 DEF Entering, Leaving, Changes, InHandler
<1>5. \A u \in Threads : pc[u] \in Leaving => cur[u] # c
  BY <1>0 DEF RegInv, Come, Alive
<1>6. \A u \in Threads : pc'[u] \in Leaving => pc'[u] \in Changes
  BY DEF Leaving, Changes
<1>7. Come'
  <2>1. \A d \in registry' : state'[d] # "away"
    BY <1>0, <1>1, <1>3 DEF RegInv, Come, TypeOK
  <2>2. ASSUME NEW u \in Threads, pc'[u] \in Changes
        PROVE  /\ state'[cur[u]] # "away"
               /\ pc'[u] \in Leaving => state'[cur[u]] = "CLOSED"
    <3>1. CASE cur[u] = c
      BY <1>3, <3>1
    <3>2. CASE cur[u] # c
      <4>1. u # t /\ pc[u] \in Changes /\ cur[u] \in Conns \ {c}
        BY <1>4, <1>a, <2>2, <3>2
      <4> QED BY <1>3, <1>4, <4>1 DEF RegInv, Come
    <3> QED BY <3>1, <3>2
  <2>3. ASSUME NEW u \in Threads, NEW v \in Threads, u # v,
               \/ pc'[u] \in Entering /\ pc'[v] \in Entering
               \/ pc'[u] \in Leaving /\ pc'[v] \in Leaving
        PROVE  cur[u] # cur[v]
    <3>1. CASE pc[u] \in Entering /\ pc[v] \in Entering
      BY <2>3, <3>1 DEF RegInv, Come
    <3>2. CASE pc'[u] \in Leaving /\ pc'[v] \in Leaving
      <4>1. CASE u = t
        BY <1>4, <1>5, <1>a, <2>3, <3>2, <4>1
      <4>2. CASE v = t
        BY <1>4, <1>5, <1>a, <2>3, <3>2, <4>2
      <4>3. CASE u # t /\ v # t
        BY <1>4, <2>3, <3>2, <4>3 DEF RegInv, Come
      <4> QED BY <4>1, <4>2, <4>3
    <3> QED BY <1>4, <2>3, <3>1, <3>2
  <2> QED BY <1>1, <1>6, <2>1, <2>2, <2>3 DEF Come
<1>8. \A d : Serv(d)' = Serv(d)
  BY <1>1 DEF Serv
<1>9. \A u \in Threads : pc'[u] \in Entering /\ Serv(cur[u]) \notin raced
                           => cur[u] \notin registry
  BY <1>4 DEF RegInv
<1>10. \A d \in Conns : Serv(d) \notin raced => Exact(d)'
  <2> SUFFICES ASSUME NEW d \in Conns, Serv(d) \notin raced PROVE Exact(d)'
    OBVIOUS
  <2>1. AboutToEnter(d)' <=> AboutToEnter(d)
    BY <1>1, <1>2 DEF AboutToEnter
  <2>2. AboutToErase(d)' <=> AboutToErase(d) \/ d = c
    BY <1>1, <1>2, <1>a DEF AboutToErase
  <2>3. CASE d = c
    BY <1>0, <1>1, <2>1, <2>2, <2>3 DEF RegInv, Exact
  <2>4. CASE d # c
    <3>1. Alive(d)' <=> Alive(d)
      BY <1>3, <2>4 DEF Alive
    <3> QED BY <1>1, <2>1, <2>2, <2>4, <3>1 DEF RegInv, Exact
  <2> QED BY <2>3, <2>4
<1> QED BY <1>1, <1>7, <1>8, <1>9, <1>10 DEF RegInv, Serv

(* The threads other than t and their connections when t has changed       *)
(* conns_.                                                                 *)
LEMMA OthersCome ==
    ASSUME SInv, RegInv, NEW t \in Threads, pc'[t] \notin Changes,
           \A u \in Threads \ {t} : pc'[u] = pc[u] /\ cur'[u] = cur[u],
           state' = state, \A c \in registry' : state[c] # "away"
    PROVE  Come'
<1>1. \A u \in Threads : pc'[u] \in Entering \/ pc'[u] \in Leaving
                           => pc'[u] \in Changes
  BY DEF Entering, Leaving, Changes
<1>2. \A u \in Threads : pc'[u] \in Changes =>
        u # t /\ pc'[u] = pc[u] /\ cur'[u] = cur[u]
  OBVIOUS
<1> QED BY <1>1, <1>2 DEF RegInv, Come

(* The last step of emplace and of erase.  After a race on the table there *)
(* is no more to say of its entries, and the other tables are left alone.  *)
LEMMA ChangedRegisters ==
    ASSUME SInv, RegInv, NEW t \in Threads, Emplaced(t) \/ Erased(t),
           fault' = "none"
    PROVE  RegInv'
<1>0. TypeOK /\ InHandler
  BY DEF SInv
<1>a. PICK c \in Conns : c = cur[t]
  BY <1>0 DEF Emplaced, Erased, InHandler, Changes
<1>1. /\ pc[t] \in {"emplace", "erase"} /\ c \in Conns
      /\ state[c] # "away"
      /\ UNCHANGED <<program, dealt, state, raced>>
  BY <1>0, <1>a DEF Emplaced, Erased, InHandler, Changes, RegInv, Come, deal
<1>2. PICK label \in {"accept", "leave"} :
        /\ Goto(t, label)
        /\ IF label = "accept" THEN cur' = [cur EXCEPT ![t] = Acceptor] ELSE cur' = cur
  BY DEF Emplaced, Erased
<1>3. /\ pc'[t] = label
      /\ \A u \in Threads \ {t} : pc'[u] = pc[u] /\ cur'[u] = cur[u]
  BY <1>0, <1>2, GotoType DEF PCs, TypeOK
<1>4. pc'[t] \notin Changes /\ pc'[t] \notin Entering /\ pc'[t] \notin Leaving
  BY <1>3 DEF Changes, Entering, Leaving
<1>5. \/ /\ Serv(c) \in raced
         /\ registry' = {d \in registry : Serv(d) # Serv(c)}
      \/ /\ Serv(c) \notin raced /\ pc[t] = "emplace"
         /\ registry' = registry \cup {c}
      \/ /\ Serv(c) \notin raced /\ pc[t] = "erase"
         /\ c \in registry /\ registry' = registry \ {c}
  BY <1>a DEF Emplaced, Erased, Wrecked, Register, Unregister, Die
<1>6. \A d : Serv(d)' = Serv(d)
  BY <1>1 DEF Serv
<1>7. registry' \subseteq registry \cup {c}
  BY <1>5
<1>8. Come'
  <2>1. \A d \in registry' : state[d] # "away"
    BY <1>1, <1>7 DEF RegInv, Come
  <2> QED BY <1>1, <1>3, <1>4, <2>1, OthersCome
<1>9. ASSUME NEW u \in Threads, pc'[u] \in Entering, Serv(cur'[u]) \notin raced
      PROVE  cur'[u] \notin registry'
  <2>1. u # t /\ pc[u] \in Entering /\ cur'[u] = cur[u]
    BY <1>3, <1>4, <1>9
  <2>2. cur[u] \notin registry
    BY <1>9, <2>1 DEF RegInv
  <2>3. pc[t] = "emplace" => cur[u] # c
    BY <1>a, <2>1 DEF RegInv, Come, Entering
  <2> QED BY <1>5, <2>1, <2>2, <2>3
<1>10. ASSUME NEW d \in Conns, Serv(d) \notin raced PROVE Exact(d)'
  <2>0. Exact(d)
    BY <1>10 DEF RegInv
  <2>1. CASE d # c
    <3>1. AboutToEnter(d)' <=> AboutToEnter(d)
      BY <1>a, <1>1, <1>3, <1>4, <2>1 DEF AboutToEnter, Entering
    <3>2. AboutToErase(d)' <=> AboutToErase(d)
      BY <1>a, <1>1, <1>3, <1>4, <2>1 DEF AboutToErase, Leaving
    <3>3. d \in registry' <=> d \in registry
      BY <1>5, <1>10, <2>1
    <3>4. Alive(d)' <=> Alive(d)
      BY <1>1 DEF Alive
    <3> QED BY <2>0, <3>1, <3>2, <3>3, <3>4 DEF Exact
  <2>2. CASE d = c /\ pc[t] = "emplace"
    <3>1. c \in registry'
      BY <1>5, <1>10, <2>2
    <3>2. AboutToEnter(c)
      BY <1>a, <2>2 DEF AboutToEnter
    <3>3. AboutToErase(c)' <=> AboutToErase(c)
      BY <1>a, <1>3, <1>4, <2>2 DEF AboutToErase, Leaving
    <3>4. Alive(c)' <=> Alive(c)
      BY <1>1 DEF Alive
    <3> QED BY <2>0, <2>2, <3>1, <3>2, <3>3, <3>4 DEF Exact, AboutToErase, Alive
  <2>3. CASE d = c /\ pc[t] = "erase"
    <3>1. c \in registry /\ c \notin registry'
      BY <1>5, <1>10, <2>3
    <3>2. ~AboutToEnter(c)'
      <4>1. \A u \in Threads : pc[u] \in Entering => cur[u] # c
        BY <1>10, <2>3, <3>1 DEF RegInv
      <4> QED BY <1>3, <1>4, <4>1 DEF AboutToEnter, Entering
    <3>3. ~AboutToErase(c)'
      <4>1. \A u \in Threads \ {t} : pc[u] \in Leaving => cur[u] # c
        BY <1>a, <2>3 DEF RegInv, Come, Leaving
      <4> QED BY <1>3, <1>4, <4>1 DEF AboutToErase, Leaving
    <3>4. ~Alive(c)'
      BY <1>a, <1>1, <2>3 DEF RegInv, Come, Leaving, Alive
    <3> QED BY <2>3, <3>1, <3>2, <3>3, <3>4
            DEF Exact, AboutToEnter, AboutToErase, Alive
  <2> QED BY <1>1, <2>1, <2>2, <2>3
<1> QED BY <1>1, <1>6, <1>8, <1>9, <1>10 DEF RegInv, Serv

LEMMA StepRegistered == SInv /\ Registered /\ [Next]_vars => Registered'
<1> SUFFICES ASSUME SInv, Registered, [Next]_vars, fault' = "none"
             PROVE  RegInv'
  BY DEF Registered
<1>0. TypeOK /\ NotYet
  BY DEF SInv
<1>1. CASE UNCHANGED vars
  BY <1>1, RegKept DEF vars, Registered, Alive
<1> SUFFICES ASSUME Next, RegInv PROVE RegInv'
  BY <1>1 DEF Next, Registered
<1>2. ASSUME NEW t \in Threads, Start(t) PROVE RegInv'
  <2>1. /\ pc[t] \notin Changes
        /\ UNCHANGED <<registry, raced, program, dealt, cur, state>>
    BY <1>2 DEF Start, Bind, NoAddress, BindFails, StartThread, Changes, table, deal
  <2>2. UNCHANGED pc \/ Goto(t, "wait")
    BY <1>2 DEF Start, Bind, NoAddress, BindFails, StartThread
  <2>3. CASE UNCHANGED pc
    BY <2>1, <2>3, RegKept DEF Alive
  <2>4. CASE Goto(t, "wait")
    <3>1. "wait" \in PCs \ Changes
      BY DEF PCs, Changes
    <3> QED BY <2>1, <2>4, <3>1, GotoRegKept DEF Alive, table
  <2> QED BY <2>2, <2>3, <2>4
<1>3. ASSUME NEW t \in Threads, Handle(t) PROVE RegInv'
  <2>1. CASE Accept(t)
    BY <2>1, AcceptRegisters
  <2>2. CASE GotConn(t) \/ OnClosed(t)
    BY <2>2, BeginKeeps
  <2>3. CASE Ends(t)
    BY <2>3, EndsRegisters
  <2>4. CASE Emplaced(t) \/ Erased(t)
    BY <2>4, ChangedRegisters
  <2>5. CASE AcceptForNobody(t)
    <3>1. taken + 1 \in Conns /\ state[taken + 1] = "away"
      BY <1>0, <2>5, NextConn DEF AcceptForNobody, NotYet
    <3>2. \A d \in Conns : /\ Alive(d)' <=> Alive(d)
                           /\ state[d] # "away" => state'[d] # "away"
                           /\ state[d] = "CLOSED" => state'[d] = "CLOSED"
      BY <1>0, <2>5, <3>1 DEF AcceptForNobody, TypeOK, Alive
    <3> QED BY <2>5, <3>2, RegKept DEF AcceptForNobody, table, deal
  <2>6. CASE Drop(t)
    BY <2>6, GotoRegKept DEF Drop, Alive, PCs, Changes, deal
  <2>7. CASE Dispatch(t)
    <3> DEFINE label == IF conn[event[t].w] = Acceptor THEN "accept" ELSE "handle"
    <3>1. /\ pc[t] = "event" /\ Goto(t, label)
          /\ cur' = [cur EXCEPT ![t] = conn[event[t].w]]
          /\ UNCHANGED <<table, program, dealt, state>>
      BY <2>7 DEF Dispatch, deal
    <3>2. label \in PCs \ Changes /\ pc[t] \notin Changes
      BY <3>1 DEF PCs, Changes
    <3> HIDE DEF label
    <3>3. \A u \in Threads \ {t} : cur'[u] = cur[u]
      BY <1>0, <3>1 DEF TypeOK
    <3> QED BY <3>1, <3>2, <3>3, GotoRegKept DEF Alive
  <2>8. CASE AcceptDone(t) \/ AcceptPauses(t) \/ AcceptFails(t)
             \/ GoesOn(t) \/ Leave(t) \/ Flushes(t)
    <3>1. /\ pc[t] \notin Changes /\ Unlock(t)
          /\ UNCHANGED <<table, program, dealt>>
      BY <2>8 DEF AcceptDone, AcceptPauses, AcceptFails, GoesOn, Leave, Flushes,
         Changes, deal
    <3>2. \A d \in Conns : /\ Alive(d)' <=> Alive(d)
                           /\ state[d] # "away" => state'[d] # "away"
                           /\ state[d] = "CLOSED" => state'[d] = "CLOSED"
      <4>1. CASE Flushes(t)
        <5>1. cur[t] \in Conns /\ Alive(cur[t])
          BY <4>1, Handled DEF Flushes
        <5> QED BY <1>0, <4>1, <5>1 DEF Flushes, TypeOK, Alive
      <4>2. CASE ~Flushes(t)
        BY <2>8, <4>2
           DEF AcceptDone, AcceptPauses, AcceptFails, GoesOn, Leave, Alive
      <4> QED BY <4>1, <4>2
    <3>3. Goto(t, "wait") /\ \A u \in Threads \ {t} : cur'[u] = cur[u]
      BY <1>0, <3>1 DEF Unlock, TypeOK
    <3>4. "wait" \in PCs \ Changes
      BY DEF PCs, Changes
    <3> QED BY <3>1, <3>2, <3>3, <3>4, GotoRegKept
  <2> QED BY <1>3, <2>1, <2>2, <2>3, <2>4, <2>5, <2>6, <2>7, <2>8 DEF Handle
<1>4. ASSUME NEW t \in Threads, NEW o \in Objects, NEW kind \in Tasks,
             EpollWait(t, o, kind)
      PROVE  RegInv'
  BY <1>4, GotoRegKept DEF EpollWait, Alive, PCs, Changes, deal
<1>5. CASE PeerConnects
  BY <1>5, RegKept DEF PeerConnects, Alive, table, deal
<1>6. ASSUME NEW c \in Conns, NEW what \in {"data", "end"}, PeerSends(c, what)
      PROVE  RegInv'
  BY <1>6, RegKept DEF PeerSends, Alive, table, deal
<1> QED BY <1>2, <1>3, <1>4, <1>5, <1>6 DEF Next

(* Until two threads have changed a table conns_ at once, and for ever if  *)
(* none does, the table owns exactly the connections of its GrpcServ that  *)
(* live, but for those that the acceptor is about to enter and with those  *)
(* that are about to be erased, whoever handles their events meanwhile     *)
(* (GrpcServ.cpp:6-11, :19-44).                                            *)
THEOREM RegistryExactUntilRaced == Spec => []RegistryExact
<1>1. Init => Registered
  <2> SUFFICES ASSUME Init PROVE RegInv
    BY DEF Registered
  <2>1. /\ state = [c \in Conns |-> "away"] /\ registry = {}
        /\ pc = [t \in Threads |-> "start"]
    BY DEF Init, NewConns, NewServ
  <2>2. \A t \in Threads : pc[t] \notin Changes /\ pc[t] \notin Entering
                           /\ pc[t] \notin Leaving
    BY <2>1 DEF Changes, Entering, Leaving
  <2>3. \A c \in Conns : ~AboutToEnter(c) /\ ~AboutToErase(c) /\ ~Alive(c)
    BY <2>1 DEF AboutToEnter, AboutToErase, Alive
  <2> QED BY <2>1, <2>2, <2>3 DEF RegInv, Come, Exact
<1>2. Registered => RegistryExact
  BY DEF Registered, RegInv, Exact, RegistryExact
<1> QED BY <1>1, <1>2, StepRegistered, InitSInv, StepSInv, PTL DEF Spec

-----------------------------------------------------------------------------
(* The loops have got q connections each since the last was added, and     *)
(* those in the window from i0 to idx one more.                            *)
InWindow(i0, k, j) == IF i0 <= k THEN i0 <= j /\ j < k ELSE i0 <= j \/ j < k

Share(q, i0, j) == IF InWindow(i0, idx, j - 1) THEN q + 1 ELSE q

EvenFrom(q, i0) ==
    /\ i0 < Len(servs) \/ i0 = 0
    /\ \A j \in 1..Len(servs) : DealtTo(servs[j], Len(servs)) = Share(q, i0, j)

DealInv ==
    /\ idx < Len(servs) \/ idx = 0
    /\ \A i, j \in 1..Len(servs) : servs[i] = servs[j] => i = j
    /\ \A i \in 1..Len(servs) : pc[servs[i]] # "start"
    /\ \A c \in Conns :
         /\ dealt[c].of <= Len(servs)
         /\ c > taken => dealt[c] = NotDealt
    /\ RoundRobin
    /\ \E q, i0 \in Nat : EvenFrom(q, i0)

LEMMA DealtCount ==
    ASSUME NEW s, NEW n
    PROVE  DealtTo(s, n) \in Nat
<1> DEFINE S == {c \in Conns : dealt[c] = [to |-> s, of |-> n]}
<1>1. IsFiniteSet(Conns)
  BY Constants, FS_Interval DEF Conns
<1>2. IsFiniteSet(S)
  BY <1>1, FS_Subset
<1> QED BY <1>2, FS_CardinalityType DEF DealtTo

(* A step that deals nothing and adds no loop.                             *)
LEMMA DealKept ==
    ASSUME TypeOK, DealInv, UNCHANGED deal,
           taken' \in Nat, taken <= taken',
           \A u \in Threads : pc[u] # "start" => pc'[u] # "start"
    PROVE  DealInv'
<1>1. /\ servs' = servs /\ idx' = idx /\ dealt' = dealt
      /\ servs \in Seq(Threads) /\ taken \in Nat
      /\ \A i \in 1..Len(servs) : servs[i] \in Threads
  BY Constants DEF deal, TypeOK
<1>2. \A i \in 1..Len(servs) : pc'[servs[i]] # "start"
  BY <1>1 DEF DealInv
<1>3. \A c \in Conns : c > taken' => dealt[c] = NotDealt
  <2> SUFFICES ASSUME NEW c \in Conns, c > taken' PROVE dealt[c] = NotDealt
    OBVIOUS
  <2>1. c \in Nat
    BY Constants
  <2>2. c > taken
    BY <1>1, <2>1
  <2> QED BY <2>2 DEF DealInv
<1>4. RoundRobin'
  <2>1. \A s, n : DealtTo(s, n)' = DealtTo(s, n)
    BY <1>1 DEF DealtTo
  <2> QED BY <1>1, <2>1 DEF DealInv, RoundRobin
<1>5. \E q, i0 \in Nat : EvenFrom(q, i0)'
  <2>1. PICK q \in Nat, i0 \in Nat : EvenFrom(q, i0)
    BY DEF DealInv
  <2>2. \A s, n : DealtTo(s, n)' = DealtTo(s, n)
    BY <1>1 DEF DealtTo
  <2>3. EvenFrom(q, i0)'
    BY <1>1, <2>1, <2>2 DEF EvenFrom, Share
  <2> QED BY <2>3
<1> QED BY <1>1, <1>2, <1>3, <1>4, <1>5 DEF DealInv

(* setServ of another thread: none of its connections yet, and none of     *)
(* anybody while it takes part.                                            *)
LEMMA SetServDeals ==
    ASSUME SInv, DealInv, NEW t \in Threads, pc[t] = "start",
           SetServ(t), Goto(t, "wait"), UNCHANGED <<idx, dealt, taken>>
    PROVE  DealInv'
<1> DEFINE n == Len(servs)
<1>0. TypeOK
  BY DEF SInv
<1>1. /\ servs \in Seq(Threads) /\ n \in Nat /\ idx \in Nat
      /\ \A i \in 1..n : servs[i] \in Threads /\ servs[i] # t
  BY <1>0 DEF TypeOK, DealInv
<1>2. /\ Len(servs') = n + 1 /\ servs'[n + 1] = t
      /\ \A i \in 1..n : servs'[i] = servs[i]
  BY <1>1 DEF SetServ
<1>3. /\ pc'[t] = "wait" /\ \A u \in Threads \ {t} : pc'[u] = pc[u]
  BY <1>0, GotoType DEF PCs
<1>4. \A s, k : DealtTo(s, k)' = DealtTo(s, k)
  BY DEF DealtTo
<1>5. \A s : DealtTo(s, n + 1) = 0
  <2> TAKE s
  <2>1. \A c \in Conns : dealt[c].of <= n /\ dealt[c].of \in Nat
    BY <1>0 DEF DealInv, TypeOK
  <2>2. \A c \in Conns : dealt[c] # [to |-> s, of |-> n + 1]
    BY <1>1, <2>1
  <2>3. {c \in Conns : dealt[c] = [to |-> s, of |-> n + 1]} = {}
    BY <2>2
  <2> QED BY <2>3, FS_EmptySet DEF DealtTo
<1> HIDE DEF n
<1>6. idx < n + 1
  BY <1>1 DEF DealInv, n
<1>7. \A i, j \in 1..n + 1 : servs'[i] = servs'[j] => i = j
  <2>1. \A i \in 1..n + 1 : i \in 1..n \/ i = n + 1
    BY <1>1
  <2>2. \A i, j \in 1..n : servs[i] = servs[j] => i = j
    BY DEF DealInv, n
  <2> QED BY <1>1, <1>2, <2>1, <2>2
<1>8. \A i \in 1..n + 1 : pc'[servs'[i]] # "start"
  <2>1. \A i \in 1..n + 1 : i \in 1..n \/ i = n + 1
    BY <1>1
  <2>2. \A i \in 1..n : pc[servs[i]] # "start"
    BY DEF DealInv, n
  <2> QED BY <1>1, <1>2, <1>3, <2>1, <2>2
<1>9. \A c \in Conns : dealt[c].of <= n + 1 /\ (c > taken => dealt[c] = NotDealt)
  BY <1>0, <1>1 DEF DealInv, TypeOK, n
<1>10. RoundRobin'
  <2> SUFFICES ASSUME NEW m \in 1..n + 1, NEW i \in 1..n + 1, NEW j \in 1..n + 1,
                      i <= m, j <= m
               PROVE  DealtTo(servs'[i], m) <= DealtTo(servs'[j], m) + 1
    BY <1>2, <1>4 DEF RoundRobin, n
  <2>1. CASE m = n + 1
    BY <1>5, <2>1
  <2>2. CASE m # n + 1
    <3>1. m \in 1..n /\ i \in 1..n /\ j \in 1..n
      BY <1>1, <2>2
    <3>2. DealtTo(servs[i], m) <= DealtTo(servs[j], m) + 1
      BY <3>1 DEF DealInv, RoundRobin, n
    <3> QED BY <1>2, <3>1, <3>2
  <2> QED BY <2>1, <2>2
<1>11. EvenFrom(0, idx)'
  <2>1. \A j \in 1..n + 1 : ~InWindow(idx, idx, j - 1)
    BY <1>1 DEF InWindow
  <2> QED BY <1>2, <1>4, <1>5, <1>6, <2>1 DEF EvenFrom, Share, n
<1> QED BY <1>1, <1>2, <1>6, <1>7, <1>8, <1>9, <1>10, <1>11 DEF DealInv

LEMMA TurnNext ==
    ASSUME NEW n \in Nat, NEW k \in Nat, k < n
    PROVE  /\ k % n = k
           /\ (k + 1) % n = IF k + 1 = n THEN 0 ELSE k + 1
<1>1. n \in Nat \ {0} /\ k \in 0..(n - 1)
  OBVIOUS
<1>2. k % n = k
  BY <1>1
<1>3. CASE k + 1 = n
  BY <1>3, n % n = 0
<1>4. CASE k + 1 # n
  BY <1>1, <1>4
<1> QED BY <1>2, <1>3, <1>4

LEMMA AcceptDeals ==
    ASSUME SInv, DealInv, NEW t \in Threads, Accept(t), ~program.shared
    PROVE  DealInv'
<1> DEFINE c == taken + 1
           n == Len(servs)
           s == servs[idx + 1]
           Dealt(x, m) ==
             Cardinality({d \in Conns : dealt'[d] = [to |-> x, of |-> m]})
<1>0. TypeOK
  BY DEF SInv
<1>1. c \in Conns /\ taken \in Nat /\ dealt[c] = NotDealt
  BY <1>0, NextConn DEF Accept, DealInv
<1>2. /\ servs \in Seq(Threads) /\ n \in Nat /\ n # 0
      /\ idx \in Nat /\ idx < n
      /\ \A i \in 1..n : servs[i] \in Threads
  BY <1>0 DEF Accept, NobodyServes, TypeOK, DealInv
<1>3. idx % n = idx /\ NextIdx = IF idx + 1 = n THEN 0 ELSE idx + 1
  BY <1>2, TurnNext DEF NextIdx
<1>4. /\ dealt' = [dealt EXCEPT ![c] = [to |-> s, of |-> n]]
      /\ idx' = NextIdx /\ servs' = servs /\ taken' = c
      /\ Goto(t, "made")
  BY <1>3 DEF Accept, OnAccept, DealInTurn
<1>5. /\ pc'[t] = "made" /\ \A u \in Threads \ {t} : pc'[u] = pc[u]
  BY <1>0, <1>4, GotoType DEF PCs
<1> HIDE DEF c, n, s, Dealt
<1>6. /\ dealt'[c] = [to |-> s, of |-> n]
      /\ \A d \in Conns \ {c} : dealt'[d] = dealt[d]
  BY <1>0, <1>1, <1>4 DEF TypeOK
<1>7. ASSUME NEW x, NEW m \in Nat \ {0}, m # n \/ x # s
      PROVE  Dealt(x, m) = DealtTo(x, m)
  <2>1. \A d \in Conns : dealt'[d] = [to |-> x, of |-> m]
                        <=> dealt[d] = [to |-> x, of |-> m]
    BY <1>1, <1>6, <1>7 DEF NotDealt
  <2> QED BY <2>1 DEF DealtTo, Dealt
<1>8. Dealt(s, n) = DealtTo(s, n) + 1
  <2> DEFINE S == {d \in Conns : dealt[d] = [to |-> s, of |-> n]}
             T == {d \in Conns : dealt'[d] = [to |-> s, of |-> n]}
  <2>1. c \notin S /\ T = S \cup {c}
    BY <1>1, <1>2, <1>6 DEF NotDealt
  <2>2. IsFiniteSet(S)
    <3>1. IsFiniteSet(Conns)
      BY Constants, FS_Interval DEF Conns
    <3> QED BY <3>1, FS_Subset
  <2>3. Cardinality(T) = Cardinality(S) + 1
    BY <2>1, <2>2, FS_AddElement
  <2> QED BY <2>3 DEF DealtTo, Dealt
<1>9. \A j \in 1..n : servs[j] = s <=> j = idx + 1
  BY <1>2 DEF DealInv, n, s
<1>10. PICK q \in Nat, i0 \in Nat : EvenFrom(q, i0)
  BY DEF DealInv
<1>11. /\ i0 < n
       /\ \A j \in 1..n : DealtTo(servs[j], n)
                            = IF InWindow(i0, idx, j - 1) THEN q + 1 ELSE q
  BY <1>2, <1>10 DEF EvenFrom, Share, n
<1>12. \A j \in 1..n : Dealt(servs[j], n) =
            IF j = idx + 1 \/ InWindow(i0, idx, j - 1) THEN q + 1 ELSE q
  <2> SUFFICES ASSUME NEW j \in 1..n
        PROVE  Dealt(servs[j], n) =
                 IF j = idx + 1 \/ InWindow(i0, idx, j - 1) THEN q + 1 ELSE q
    OBVIOUS
  <2>1. CASE j = idx + 1
    <3>1. ~InWindow(i0, idx, j - 1)
      BY <1>2, <1>10, <2>1 DEF InWindow
    <3> QED BY <1>8, <1>9, <1>11, <2>1, <3>1
  <2>2. CASE j # idx + 1
    <3>1. Dealt(servs[j], n) = DealtTo(servs[j], n)
      BY <1>2, <1>7, <1>9, <2>2
    <3> QED BY <1>11, <2>2, <3>1
  <2> QED BY <2>1, <2>2
<1>13. \E q1, i1 \in Nat :
         /\ i1 < n
         /\ \A j \in 1..n : Dealt(servs[j], n) =
              IF InWindow(i1, NextIdx, j - 1) THEN q1 + 1 ELSE q1
  <2>1. CASE NextIdx = i0
    <3>1. \A j \in 1..n : j = idx + 1 \/ InWindow(i0, idx, j - 1)
      BY <1>2, <1>3, <1>11, <2>1 DEF InWindow
    <3>2. \A j \in 1..n : ~InWindow(i0, NextIdx, j - 1)
      BY <1>2, <1>10, <2>1 DEF InWindow
    <3>3. \A j \in 1..n : Dealt(servs[j], n) =
            IF InWindow(i0, NextIdx, j - 1) THEN (q + 1) + 1 ELSE q + 1
      BY <1>12, <3>1, <3>2
    <3> QED BY <1>10, <1>11, <3>3
  <2>2. CASE NextIdx # i0
    <3>1. \A j \in 1..n : j = idx + 1 \/ InWindow(i0, idx, j - 1)
                           <=> InWindow(i0, NextIdx, j - 1)
      BY <1>2, <1>3, <1>10, <1>11, <2>2 DEF InWindow
    <3> QED BY <1>10, <1>11, <1>12, <3>1
  <2> QED BY <2>1, <2>2
<1>14. /\ NextIdx \in Nat /\ NextIdx < n
  BY <1>2, <1>3
<1>15. RoundRobin'
  <2> SUFFICES ASSUME NEW m \in 1..n, NEW i \in 1..n, NEW j \in 1..n,
                      i <= m, j <= m
               PROVE  Dealt(servs[i], m) <= Dealt(servs[j], m) + 1
    BY <1>4 DEF RoundRobin, DealtTo, Dealt, n
  <2>1. CASE m = n
    <3>1. Dealt(servs[i], m) \in {q, q + 1} /\ Dealt(servs[j], m) \in {q, q + 1}
      BY <1>12, <2>1
    <3> QED BY <3>1
  <2>2. CASE m # n
    <3>1. DealtTo(servs[i], m) <= DealtTo(servs[j], m) + 1
      BY DEF DealInv, RoundRobin, n
    <3> QED BY <1>2, <1>7, <2>2, <3>1
  <2> QED BY <2>1, <2>2
<1>16. \A d \in Conns : dealt'[d].of <= n /\ (d > c => dealt'[d] = NotDealt)
  <2> SUFFICES ASSUME NEW d \in Conns
               PROVE  dealt'[d].of <= n /\ (d > c => dealt'[d] = NotDealt)
    OBVIOUS
  <2>1. CASE d = c
    BY <1>1, <1>2, <1>6, <2>1, Constants
  <2>2. CASE d # c
    <3>1. d > c => d > taken
      BY <1>1, Constants DEF c
    <3> QED BY <1>6, <2>2, <3>1 DEF DealInv, n
  <2> QED BY <2>1, <2>2
<1>17. \A i \in 1..n : pc'[servs[i]] # "start"
  BY <1>2, <1>5 DEF DealInv, n
<1>18. \E q1, i1 \in Nat : EvenFrom(q1, i1)'
  <2>1. PICK q1 \in Nat, i1 \in Nat :
         /\ i1 < n
         /\ \A j \in 1..n : Dealt(servs[j], n) =
              IF InWindow(i1, NextIdx, j - 1) THEN q1 + 1 ELSE q1
    BY <1>13
  <2>2. \A x, m : DealtTo(x, m)' = Dealt(x, m)
    BY DEF DealtTo, Dealt
  <2>3. \A j \in 1..n : InWindow(i1, idx, j - 1)' <=> InWindow(i1, NextIdx, j - 1)
    BY <1>4 DEF InWindow
  <2>4. EvenFrom(q1, i1)'
    BY <1>4, <2>1, <2>2, <2>3 DEF EvenFrom, Share, n
  <2> QED BY <2>4
<1> QED BY <1>2, <1>4, <1>14, <1>15, <1>16, <1>17, <1>18 DEF DealInv, n

LEMMA StepDeals == SInv /\ DealInv /\ [Next]_vars => DealInv'
<1> SUFFICES ASSUME SInv, DealInv, [Next]_vars PROVE DealInv'
  OBVIOUS
<1>0. TypeOK /\ taken \in Nat /\ arrived \in Nat /\ taken <= arrived
  BY Constants DEF SInv, TypeOK
<1>a. ASSUME UNCHANGED <<deal, taken>>, UNCHANGED pc PROVE DealInv'
  BY <1>0, <1>a, DealKept
<1>b. ASSUME UNCHANGED deal, taken' \in Nat, taken <= taken',
             NEW t \in Threads, NEW label \in PCs \ {"start"}, Goto(t, label)
      PROVE  DealInv'
  <2>1. \A u \in Threads : pc[u] # "start" => pc'[u] # "start"
    BY <1>0, <1>b, GotoType
  <2> QED BY <1>0, <1>b, <2>1, DealKept
<1>1. CASE UNCHANGED vars
  BY <1>a, <1>1 DEF vars, deal
<1>2. ASSUME NEW t \in Threads, Start(t) PROVE DealInv'
  <2>1. CASE Bind(t) \/ NoAddress(t)
    BY <1>0, <1>b, <2>1 DEF Bind, NoAddress, queue, PCs
  <2>2. CASE BindFails(t)
    BY <1>a, <2>2 DEF BindFails, queue
  <2>3. CASE StartThread(t)
    <3>1. Goto(t, "wait") /\ pc[t] = "start" /\ UNCHANGED <<idx, dealt, taken>>
      BY <2>3 DEF StartThread, queue
    <3>2. UNCHANGED servs \/ SetServ(t)
      BY <2>3 DEF StartThread
    <3>3. CASE UNCHANGED servs
      BY <1>0, <1>b, <3>1, <3>3 DEF deal, PCs
    <3>4. CASE SetServ(t)
      BY <3>1, <3>4, SetServDeals
    <3> QED BY <3>2, <3>3, <3>4
  <2> QED BY <1>2, <2>1, <2>2, <2>3 DEF Start
<1>3. ASSUME NEW t \in Threads, Handle(t) PROVE DealInv'
  <2>1. CASE Accept(t)
    <3>1. CASE program.shared
      <4>1. UNCHANGED deal /\ taken' = taken + 1 /\ Goto(t, "made")
        BY <2>1, <3>1 DEF Accept, OnAccept, DealHere, deal
      <4> QED BY <1>0, <1>b, <4>1 DEF PCs
    <3>2. CASE ~program.shared
      BY <2>1, <3>2, AcceptDeals
    <3> QED BY <3>1, <3>2
  <2>2. CASE AcceptForNobody(t)
    BY <1>0, <2>2, DealKept DEF AcceptForNobody
  <2>3. CASE GotConn(t) \/ Emplaced(t) \/ OnClosed(t) \/ Erased(t)
    BY <1>0, <1>b, <2>3 DEF GotConn, Emplaced, OnClosed, Erased, queue, PCs
  <2>4. CASE Drop(t)
    BY <1>0, <1>b, <2>4 DEF Drop, queue, PCs
  <2>5. CASE Dispatch(t)
    <3> DEFINE label == IF conn[event[t].w] = Acceptor THEN "accept" ELSE "handle"
    <3>1. Goto(t, label) /\ UNCHANGED <<deal, queue>>
      BY <2>5 DEF Dispatch
    <3>2. label \in PCs \ {"start"}
      BY DEF PCs
    <3> HIDE DEF label
    <3> QED BY <1>0, <1>b, <3>1, <3>2 DEF queue
  <2>6. CASE AcceptFails(t)
    BY <1>0, <1>b, <2>6 DEF AcceptFails, CloseListener, Unlock, PCs
  <2>7. CASE AcceptDone(t) \/ AcceptPauses(t) \/ GoesOn(t) \/ Leave(t)
             \/ Flushes(t)
    BY <1>0, <1>b, <2>7
       DEF AcceptDone, AcceptPauses, GoesOn, Leave, Flushes, Unlock, queue, PCs
  <2>8. CASE Ends(t)
    BY <1>0, <1>b, <2>8 DEF Ends, queue, PCs
  <2> QED BY <1>3, <2>1, <2>2, <2>3, <2>4, <2>5, <2>6, <2>7, <2>8 DEF Handle
<1>4. ASSUME NEW t \in Threads, NEW o \in Objects, NEW kind \in Tasks,
             EpollWait(t, o, kind)
      PROVE  DealInv'
  BY <1>0, <1>b, <1>4 DEF EpollWait, queue, PCs
<1>5. CASE PeerConnects
  BY <1>a, <1>5 DEF PeerConnects
<1>6. ASSUME NEW c \in Conns, NEW what \in {"data", "end"}, PeerSends(c, what)
      PROVE  DealInv'
  BY <1>a, <1>6 DEF PeerSends, queue
<1> QED BY <1>1, <1>2, <1>3, <1>4, <1>5, <1>6 DEF Next

(* Of the connections dealt out while the same loops took part no loop has *)
(* two more than another, for any number of loops and connections and      *)
(* wherever idx_ stood when a loop was added (GrpcMultiAccept.cpp:15-16).  *)
THEOREM DealtFairly == Spec => []RoundRobin
<1>1. Init => DealInv
  <2> SUFFICES ASSUME Init PROVE DealInv
    OBVIOUS
  <2>1. /\ servs = << >> /\ Len(servs) = 0 /\ idx = 0
        /\ dealt = [c \in Conns |-> NotDealt]
    BY DEF Init, NewMultiAccept
  <2>2. RoundRobin /\ EvenFrom(0, 0)
    BY <2>1 DEF RoundRobin, EvenFrom
  <2> QED BY <2>1, <2>2 DEF DealInv, NotDealt
<1>2. DealInv => RoundRobin
  BY DEF DealInv
<1> QED BY <1>1, <1>2, StepDeals, InitSInv, StepSInv, PTL DEF Spec
=============================================================================
