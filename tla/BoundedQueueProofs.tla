--------------------------- MODULE BoundedQueueProofs ---------------------------
(***************************************************************************)
(* Proofs about BoundedQueue for any limit, any finite set of threads and  *)
(* any values.                                                             *)
(***************************************************************************)
EXTENDS BoundedQueue, FiniteSetTheorems, SequenceTheorems, TLAPS

(* What a push brings is a value.                                          *)
PushesValues == \A t \in Threads : op[t].kind = "push" => op[t].val \in Values

QInv ==
    /\ TypeOK
    /\ PushesValues
    /\ RingShape
    /\ NoLostWakeup

-----------------------------------------------------------------------------
(* The remainder by Limit of a number below twice Limit.                   *)
LEMMA Remainder ==
    ASSUME NEW a \in Nat, a < 2 * Limit
    PROVE  a % Limit = IF a < Limit THEN a ELSE a - Limit
  BY LimitAssumption

(* Where the items lie, without the remainder.                             *)
LEMMA PlaceFrom ==
    ASSUME NEW s \in 0..(Limit - 1), NEW i \in 0..(Limit - 1)
    PROVE  ((s + i) % Limit) + 1 = IF s + i < Limit THEN s + i + 1
                                   ELSE s + i - Limit + 1
<1>1. s + i \in Nat /\ s + i < 2 * Limit
  BY LimitAssumption
<1>2. (s + i) % Limit = IF s + i < Limit THEN s + i ELSE s + i - Limit
  BY <1>1, Remainder, LimitAssumption
<1> QED BY <1>1, <1>2, LimitAssumption

LEMMA PlaceIs ==
    ASSUME start \in 0..(Limit - 1), NEW i \in 0..(Limit - 1)
    PROVE  Place(i) = IF start + i < Limit THEN start + i + 1
                      ELSE start + i - Limit + 1
  BY PlaceFrom DEF Place

LEMMA AdvancedIs ==
    ASSUME start \in 0..(Limit - 1)
    PROVE  Advanced = IF start + 1 < Limit THEN start + 1 ELSE 0
<1>1. start + 1 \in Nat /\ start + 1 < 2 * Limit
  BY LimitAssumption
<1> QED BY <1>1, Remainder, LimitAssumption DEF Advanced

(* An item lies in a slot of the ring that exists.                         *)
LEMMA ItemInRing ==
    ASSUME TypeOK, RingShape, NEW i \in 0..(size - 1)
    PROVE  Place(i) \in 1..Len(ring) /\ ring[Place(i)] \in Values
<1>1. i \in 0..(Limit - 1) /\ start \in 0..(Limit - 1)
  BY LimitAssumption DEF TypeOK
<1>2. Place(i) = IF start + i < Limit THEN start + i + 1
                 ELSE start + i - Limit + 1
  BY <1>1, PlaceIs
<1>3. Len(ring) \in Nat /\ size \in 0..Limit
  BY DEF TypeOK
<1>4. Place(i) \in 1..Len(ring)
  BY <1>1, <1>2, <1>3, LimitAssumption DEF RingShape
<1> QED BY <1>4 DEF TypeOK
-----------------------------------------------------------------------------
(* What a step does to op is a call with its flags changed, or no call.    *)
LEMMA StepOp ==
    ASSUME TypeOK, PushesValues, NEW t \in Threads, Step(t) \/ Spurious(t)
    PROVE  op' \in [Threads -> Calls \cup {NoCall}] /\ PushesValues'
<1>1. \A u \in Threads : op[u] \in Calls => Woken(u) \in Calls
  BY DEF Woken, Calls
<1>2. \A u \in Threads : op[u].asleep => op[u] \in Calls
  BY DEF TypeOK, NoCall
<1>3. NoCall.kind = "none"
  BY DEF NoCall
<1>4. ASSUME NEW sleepers \in {SleepingReaders, SleepingWriters},
             ReturnNotify(t, sleepers)
      PROVE  op' \in [Threads -> Calls \cup {NoCall}] /\ PushesValues'
  <2>1. CASE sleepers = {}
    BY <1>3, <1>4, <2>1 DEF ReturnNotify, Return, TypeOK, PushesValues
  <2>2. CASE sleepers # {}
    <3>1. PICK u \in sleepers :
            op' = [op EXCEPT ![t] = NoCall, ![u] = Woken(u)]
      BY <1>4, <2>2 DEF ReturnNotify
    <3>2. u \in Threads /\ op[u].asleep
      BY <1>4 DEF SleepingReaders, SleepingWriters
    <3>3. Woken(u) \in Calls /\ Woken(u).kind = op[u].kind
                             /\ Woken(u).val = op[u].val
      BY <1>1, <1>2, <3>2 DEF Woken, Calls
    <3>4. op' \in [Threads -> Calls \cup {NoCall}]
      BY <3>1, <3>2, <3>3 DEF TypeOK
    <3>5. PushesValues'
      BY <1>3, <3>1, <3>2, <3>3 DEF TypeOK, PushesValues
    <3> QED BY <3>4, <3>5
  <2> QED BY <2>1, <2>2
<1>5. ASSUME Return(t)
      PROVE  op' \in [Threads -> Calls \cup {NoCall}] /\ PushesValues'
  BY <1>3, <1>5 DEF Return, TypeOK, PushesValues
<1>6. CASE Push(t)
  BY <1>4, <1>6 DEF Push
<1>7. CASE Pop(t)
  BY <1>4, <1>7 DEF Pop
<1>8. CASE Front(t) \/ Back(t)
  BY <1>4, <1>5, <1>8 DEF Front, Back, PeekReturn
<1>9. CASE SleepFull(t) \/ SleepEmpty(t)
  <2>1. op[t] \in Calls
    BY <1>9 DEF SleepFull, SleepEmpty, Ready, Readers, TypeOK, NoCall
  <2>2. op' = [op EXCEPT ![t].asleep = TRUE]
    BY <1>9 DEF SleepFull, SleepEmpty, Sleep
  <2>3. op'[t] \in Calls /\ op'[t].kind = op[t].kind /\ op'[t].val = op[t].val
    BY <2>1, <2>2 DEF Calls, TypeOK
  <2> QED BY <2>2, <2>3 DEF TypeOK, PushesValues
<1>10. CASE Spurious(t)
  <2>1. op' = [op EXCEPT ![t] = Woken(t)] /\ op[t] \in Calls
    BY <1>2, <1>10 DEF Spurious
  <2>2. Woken(t) \in Calls /\ Woken(t).kind = op[t].kind
                           /\ Woken(t).val = op[t].val
    BY <2>1 DEF Woken, Calls
  <2> QED BY <2>1, <2>2 DEF TypeOK, PushesValues
<1> QED BY <1>6, <1>7, <1>8, <1>9, <1>10 DEF Step

LEMMA StepType ==
    ASSUME TypeOK, PushesValues, RingShape, [Next]_vars
    PROVE  TypeOK' /\ PushesValues' /\ RingShape'
<1>1. CASE UNCHANGED vars
  BY <1>1 DEF vars, TypeOK, PushesValues, RingShape
<1>2. ASSUME NEW t \in Threads, NEW kind \in Kinds, NEW v \in Values \cup {Nothing},
             Call(t, kind, v), kind = "push" => v \in Values
      PROVE  TypeOK' /\ PushesValues' /\ RingShape'
  <2>1. [kind |-> kind, val |-> v, asleep |-> FALSE, slept |-> FALSE] \in Calls
    BY DEF Calls
  <2>2. op' \in [Threads -> Calls \cup {NoCall}] /\ PushesValues'
    BY <1>2, <2>1 DEF Call, TypeOK, PushesValues
  <2> QED BY <1>2, <2>2 DEF Call, TypeOK, RingShape
<1>3. ASSUME NEW t \in Threads, Step(t) \/ Spurious(t)
      PROVE  TypeOK' /\ PushesValues' /\ RingShape'
  <2>1. op' \in [Threads -> Calls \cup {NoCall}] /\ PushesValues'
    BY <1>3, StepOp
  <2>2. CASE Push(t)
    <3>1. op[t].val \in Values /\ size # Limit /\ size' = size + 1
      BY <2>2 DEF Push, Ready, PushesValues
    <3>2. size' \in 0..Limit
      BY <3>1, LimitAssumption DEF TypeOK
    <3>3. CASE Len(ring) # Limit
      <4>1. ring' = Append(ring, op[t].val)
        BY <2>2, <3>3 DEF Push, Stored
      <4>2. ring' \in Seq(Values) /\ Len(ring') = Len(ring) + 1
        BY <3>1, <4>1 DEF TypeOK
      <4>3. RingShape'
        BY <2>2, <3>1, <3>3, <4>2, LimitAssumption
           DEF RingShape, TypeOK, Push
      <4> QED BY <2>1, <2>2, <3>2, <4>2, <4>3 DEF Push, TypeOK
    <3>4. CASE Len(ring) = Limit
      <4>1. ring' = [ring EXCEPT ![Place(size)] = op[t].val]
        BY <2>2, <3>4 DEF Push, Stored
      <4>2. Place(size) \in 1..Len(ring)
        <5>1. size \in 0..(Limit - 1) /\ start \in 0..(Limit - 1)
          BY <3>1, LimitAssumption DEF TypeOK
        <5> QED BY <5>1, <3>4, PlaceIs, LimitAssumption
      <4>3. ring' \in Seq(Values) /\ Len(ring') = Len(ring)
        BY <3>1, <4>1, <4>2, ExceptSeq DEF TypeOK
      <4>4. RingShape'
        BY <3>4, <4>3, LimitAssumption DEF RingShape, TypeOK
      <4> QED BY <2>1, <2>2, <3>2, <4>3, <4>4 DEF Push, TypeOK
    <3> QED BY <3>3, <3>4
  <2>3. CASE Pop(t)
    <3>1. size - 1 \in 0..Limit /\ 0 \in 0..(size - 1)
      BY <2>3, LimitAssumption DEF Pop, TypeOK
    <3>2. ring[Place(0)] \in Values
      BY <3>1, ItemInRing
    <3>3. Advanced = IF start + 1 < Limit THEN start + 1 ELSE 0
      BY AdvancedIs DEF TypeOK
    <3>4. start' \in 0..(Limit - 1)
      BY <2>3, <3>3, LimitAssumption DEF Pop, TypeOK
    <3>5. RingShape'
      BY <2>3, <3>1, <3>3, LimitAssumption DEF Pop, TypeOK, RingShape
    <3>6. result' \in [Threads -> Values \cup {Nothing}]
      BY <2>3, <3>2 DEF Pop, TypeOK
    <3> QED BY <2>1, <2>3, <3>1, <3>4, <3>5, <3>6 DEF Pop, TypeOK
  <2>4. CASE Front(t) \/ Back(t)
    <3>1. 0 \in 0..(size - 1) /\ size - 1 \in 0..(size - 1)
      BY <2>4, LimitAssumption DEF Front, Back, TypeOK
    <3>2. ring[Place(0)] \in Values /\ ring[Place(size - 1)] \in Values
      BY <3>1, ItemInRing
    <3>3. result' \in [Threads -> Values \cup {Nothing}]
      BY <2>4, <3>2 DEF Front, Back, TypeOK
    <3> QED BY <2>1, <2>4, <3>3 DEF Front, Back, TypeOK, RingShape
  <2>5. CASE SleepFull(t) \/ SleepEmpty(t) \/ Spurious(t)
    BY <2>1, <2>5 DEF SleepFull, SleepEmpty, Sleep, Spurious, TypeOK, RingShape
  <2> QED BY <1>3, <2>2, <2>3, <2>4, <2>5 DEF Step
<1>4. CASE Next
  BY <1>2, <1>3, <1>4 DEF Next, Kinds, Readers
<1> QED BY <1>1, <1>4
-----------------------------------------------------------------------------
(* How a step of a call changes the sets of sleepers and of the woken.     *)
LEMMA WokenIs ==
    ASSUME NEW u \in Threads, op[u] \in Calls
    PROVE  /\ Woken(u) \in Calls
           /\ Woken(u).kind = op[u].kind
           /\ Woken(u).asleep = FALSE
           /\ Woken(u).slept = TRUE
  BY DEF Woken, Calls

LEMMA NoCallIs ==
    NoCall.kind = "none" /\ NoCall.asleep = FALSE /\ NoCall.slept = FALSE
  BY DEF NoCall

LEMMA WokenFinite ==
    /\ IsFiniteSet(WokenReaders) /\ Cardinality(WokenReaders) \in Nat
    /\ IsFiniteSet(WokenWriters) /\ Cardinality(WokenWriters) \in Nat
<1>1. WokenReaders \in SUBSET Threads /\ WokenWriters \in SUBSET Threads
  BY DEF WokenReaders, WokenWriters
<1>2. IsFiniteSet(WokenReaders) /\ IsFiniteSet(WokenWriters)
  BY <1>1, ThreadsAssumption, FS_Subset
<1> QED BY <1>2, FS_CardinalityType

LEMMA WokenFiniteNext ==
    /\ IsFiniteSet(WokenReaders') /\ Cardinality(WokenReaders') \in Nat
    /\ IsFiniteSet(WokenWriters') /\ Cardinality(WokenWriters') \in Nat
<1>1. WokenReaders' \in SUBSET Threads /\ WokenWriters' \in SUBSET Threads
  BY DEF WokenReaders, WokenWriters
<1>2. IsFiniteSet(WokenReaders') /\ IsFiniteSet(WokenWriters')
  BY <1>1, ThreadsAssumption, FS_Subset
<1> QED BY <1>2, FS_CardinalityType

LEMMA CardRemove ==
    ASSUME NEW S, IsFiniteSet(S), NEW x
    PROVE  /\ IsFiniteSet(S \ {x})
           /\ Cardinality(S \ {x}) \in Nat
           /\ Cardinality(S \ {x}) >= Cardinality(S) - 1
<1>1. IsFiniteSet(S \ {x})
  BY FS_RemoveElement
<1>2. Cardinality(S) \in Nat /\ Cardinality(S \ {x}) \in Nat
  BY <1>1, FS_CardinalityType
<1>3. Cardinality(S \ {x}) = IF x \in S THEN Cardinality(S) - 1
                             ELSE Cardinality(S)
  BY FS_RemoveElement
<1> QED BY <1>1, <1>2, <1>3

LEMMA CardAdd ==
    ASSUME NEW S, IsFiniteSet(S), NEW x, x \notin S
    PROVE  Cardinality(S \cup {x}) = Cardinality(S) + 1
  BY FS_AddElement

LEMMA AfterReturn ==
    ASSUME TypeOK, NEW t \in Threads, ~op[t].asleep, Return(t)
    PROVE  /\ SleepingReaders' = SleepingReaders
           /\ SleepingWriters' = SleepingWriters
           /\ WokenReaders' = WokenReaders \ {t}
           /\ WokenWriters' = WokenWriters \ {t}
<1>1. \A x \in Threads : op'[x] = IF x = t THEN NoCall ELSE op[x]
  BY DEF Return, TypeOK
<1> QED BY <1>1, NoCallIs DEF SleepingReaders, SleepingWriters, WokenReaders,
           WokenWriters, Readers

LEMMA AfterNotify ==
    ASSUME TypeOK, NEW t \in Threads, ~op[t].asleep,
           NEW u \in Threads, op[u].asleep, op[u] \in Calls,
           op' = [op EXCEPT ![t] = NoCall, ![u] = Woken(u)]
    PROVE  /\ SleepingReaders' = SleepingReaders \ {u}
           /\ SleepingWriters' = SleepingWriters \ {u}
           /\ WokenReaders' = IF op[u].kind \in Readers
                              THEN (WokenReaders \ {t}) \cup {u}
                              ELSE WokenReaders \ {t}
           /\ WokenWriters' = IF op[u].kind = "push"
                              THEN (WokenWriters \ {t}) \cup {u}
                              ELSE WokenWriters \ {t}
<1>1. \A x \in Threads : op'[x] = IF x = u THEN Woken(u)
                                  ELSE IF x = t THEN NoCall ELSE op[x]
  BY DEF TypeOK
<1>2. Woken(u).kind = op[u].kind /\ ~Woken(u).asleep /\ Woken(u).slept
  BY WokenIs
<1>3. u # t
  OBVIOUS
<1>4. SleepingReaders' = SleepingReaders \ {u}
  BY <1>1, <1>2, <1>3, NoCallIs DEF SleepingReaders, Readers
<1>5. SleepingWriters' = SleepingWriters \ {u}
  BY <1>1, <1>2, <1>3, NoCallIs DEF SleepingWriters
<1>6. \A x \in Threads \ {t, u} : op'[x] = op[x]
  BY <1>1
<1>7. t \notin WokenReaders' /\ t \notin WokenWriters'
  BY <1>1, <1>3, NoCallIs DEF WokenReaders, WokenWriters, Readers
<1>8. /\ u \in WokenReaders' <=> op[u].kind \in Readers
      /\ u \in WokenWriters' <=> op[u].kind = "push"
      /\ u \notin WokenReaders /\ u \notin WokenWriters
  BY <1>1, <1>2 DEF WokenReaders, WokenWriters
<1>9. \A x \in Threads \ {t, u} : /\ x \in WokenReaders' <=> x \in WokenReaders
                                  /\ x \in WokenWriters' <=> x \in WokenWriters
  BY <1>6 DEF WokenReaders, WokenWriters
<1>10. /\ WokenReaders \subseteq Threads /\ WokenReaders' \subseteq Threads
       /\ WokenWriters \subseteq Threads /\ WokenWriters' \subseteq Threads
  BY DEF WokenReaders, WokenWriters
<1> QED BY <1>4, <1>5, <1>7, <1>8, <1>9, <1>10

LEMMA AfterSleep ==
    ASSUME TypeOK, NEW t \in Threads, op[t] \in Calls,
           op' = [op EXCEPT ![t].asleep = TRUE]
    PROVE  /\ op[t].kind \in Readers => /\ SleepingWriters' = SleepingWriters
                                        /\ WokenWriters' = WokenWriters
           /\ op[t].kind = "push" => /\ SleepingReaders' = SleepingReaders
                                     /\ WokenReaders' = WokenReaders
<1>1. \A x \in Threads : x # t => op'[x] = op[x]
  BY DEF TypeOK
<1>2. op'[t].kind = op[t].kind
  BY DEF TypeOK, Calls
<1> QED BY <1>1, <1>2 DEF SleepingReaders, SleepingWriters, WokenReaders,
           WokenWriters, Readers
LEMMA StepNoLostWakeup ==
    ASSUME TypeOK, NoLostWakeup, [Next]_vars
    PROVE  NoLostWakeup'
<1>0. /\ size \in Nat /\ Limit \in Nat /\ size <= Limit
      /\ Cardinality(WokenReaders) \in Nat /\ Cardinality(WokenWriters) \in Nat
      /\ IsFiniteSet(WokenReaders) /\ IsFiniteSet(WokenWriters)
  BY WokenFinite, LimitAssumption DEF TypeOK
<1>1. CASE UNCHANGED vars
  BY <1>1 DEF vars, NoLostWakeup, SleepingReaders, SleepingWriters,
              WokenReaders, WokenWriters
<1>2. ASSUME NEW t \in Threads, NEW kind, NEW v, Call(t, kind, v)
      PROVE  NoLostWakeup'
  <2>1. op' = [op EXCEPT ![t] = [kind |-> kind, val |-> v,
                                 asleep |-> FALSE, slept |-> FALSE]]
    BY <1>2 DEF Call
  <2>2. \A x \in Threads : x # t => op'[x] = op[x]
    BY <2>1 DEF TypeOK
  <2>3. ~op'[t].asleep /\ ~op'[t].slept /\ ~op[t].asleep /\ ~op[t].slept
    BY <1>2, <2>1, NoCallIs DEF Call, TypeOK
  <2>4. /\ SleepingReaders' = SleepingReaders
        /\ SleepingWriters' = SleepingWriters
        /\ WokenReaders' = WokenReaders
        /\ WokenWriters' = WokenWriters
    BY <2>2, <2>3 DEF SleepingReaders, SleepingWriters, WokenReaders,
                      WokenWriters
  <2> QED BY <1>2, <2>4 DEF NoLostWakeup, Call
<1>3. ASSUME NEW t \in Threads, Push(t)
      PROVE  NoLostWakeup'
  <2>1. /\ op[t].kind = "push" /\ ~op[t].asleep /\ t \notin WokenReaders
        /\ size' = size + 1
    BY <1>3 DEF Push, Ready, WokenReaders, Readers
  <2>2. Cardinality(WokenWriters \ {t}) >= Cardinality(WokenWriters) - 1
        /\ Cardinality(WokenWriters \ {t}) \in Nat
    BY <1>0, CardRemove
  <2>3. CASE SleepingReaders = {}
    <3>1. /\ SleepingReaders' = {} /\ SleepingWriters' = SleepingWriters
          /\ WokenWriters' = WokenWriters \ {t}
      BY <1>3, <2>1, <2>3, AfterReturn DEF Push, ReturnNotify
    <3> QED BY <1>0, <2>1, <2>2, <3>1 DEF NoLostWakeup
  <2>4. CASE SleepingReaders # {}
    <3>1. PICK u \in SleepingReaders :
            op' = [op EXCEPT ![t] = NoCall, ![u] = Woken(u)]
      BY <1>3, <2>4 DEF Push, ReturnNotify
    <3>2. /\ u \in Threads /\ op[u].asleep /\ op[u] \in Calls
          /\ op[u].kind \in Readers /\ op[u].kind # "push" /\ u \notin WokenReaders
      BY NoCallIs DEF SleepingReaders, TypeOK, Readers, WokenReaders
    <3>3. /\ WokenReaders' = (WokenReaders \ {t}) \cup {u}
          /\ WokenWriters' = WokenWriters \ {t}
          /\ SleepingWriters' = SleepingWriters \ {u}
      BY <2>1, <3>1, <3>2, AfterNotify
    <3>4. (WokenReaders \ {t}) \cup {u} = WokenReaders \cup {u}
      BY <2>1
    <3>5. Cardinality(WokenReaders \cup {u}) = Cardinality(WokenReaders) + 1
      BY <1>0, <3>2, CardAdd
    <3>6. size' <= Cardinality(WokenReaders')
      <4>1. size <= Cardinality(WokenReaders)
        BY <2>4 DEF NoLostWakeup
      <4>2. Cardinality(WokenReaders') = Cardinality(WokenReaders) + 1
        BY <3>3, <3>4, <3>5
      <4> QED BY <1>0, <2>1, <4>1, <4>2
    <3>7. SleepingWriters' # {} => Limit - size' <= Cardinality(WokenWriters')
      BY <1>0, <2>1, <2>2, <3>3 DEF NoLostWakeup
    <3> QED BY <3>6, <3>7 DEF NoLostWakeup
  <2> QED BY <2>3, <2>4
<1>4. ASSUME NEW t \in Threads, Pop(t)
      PROVE  NoLostWakeup'
  <2>1. /\ op[t].kind = "pop" /\ ~op[t].asleep /\ t \notin WokenWriters
        /\ size' = size - 1
    BY <1>4 DEF Pop, Ready, WokenWriters
  <2>2. Cardinality(WokenReaders \ {t}) >= Cardinality(WokenReaders) - 1
        /\ Cardinality(WokenReaders \ {t}) \in Nat
    BY <1>0, CardRemove
  <2>3. CASE SleepingWriters = {}
    <3>1. /\ SleepingWriters' = {} /\ SleepingReaders' = SleepingReaders
          /\ WokenReaders' = WokenReaders \ {t}
      BY <1>4, <2>1, <2>3, AfterReturn DEF Pop, ReturnNotify
    <3> QED BY <1>0, <2>1, <2>2, <3>1 DEF NoLostWakeup
  <2>4. CASE SleepingWriters # {}
    <3>1. PICK u \in SleepingWriters :
            op' = [op EXCEPT ![t] = NoCall, ![u] = Woken(u)]
      BY <1>4, <2>4 DEF Pop, ReturnNotify
    <3>2. /\ u \in Threads /\ op[u].asleep /\ op[u] \in Calls
          /\ op[u].kind = "push" /\ op[u].kind \notin Readers /\ u \notin WokenWriters
      BY NoCallIs DEF SleepingWriters, TypeOK, Readers, WokenWriters
    <3>3. /\ WokenWriters' = (WokenWriters \ {t}) \cup {u}
          /\ WokenReaders' = WokenReaders \ {t}
          /\ SleepingReaders' = SleepingReaders \ {u}
      BY <2>1, <3>1, <3>2, AfterNotify
    <3>4. (WokenWriters \ {t}) \cup {u} = WokenWriters \cup {u}
      BY <2>1
    <3>5. Cardinality(WokenWriters \cup {u}) = Cardinality(WokenWriters) + 1
      BY <1>0, <3>2, CardAdd
    <3>6. Limit - size' <= Cardinality(WokenWriters')
      <4>1. Limit - size <= Cardinality(WokenWriters)
        BY <2>4 DEF NoLostWakeup
      <4>2. Cardinality(WokenWriters') = Cardinality(WokenWriters) + 1
        BY <3>3, <3>4, <3>5
      <4> QED BY <1>0, <2>1, <4>1, <4>2
    <3>7. SleepingReaders' # {} => size' <= Cardinality(WokenReaders')
      BY <1>0, <2>1, <2>2, <3>3 DEF NoLostWakeup
    <3> QED BY <3>6, <3>7 DEF NoLostWakeup
  <2> QED BY <2>3, <2>4
<1>5. ASSUME NEW t \in Threads, Front(t) \/ Back(t)
      PROVE  NoLostWakeup'
  <2>1. /\ op[t].kind \in Readers /\ op[t].kind # "push" /\ ~op[t].asleep
        /\ size' = size /\ PeekReturn(t) /\ t \notin WokenWriters
    BY <1>5 DEF Front, Back, Ready, Readers, WokenWriters
  <2>2. CASE Return(t) /\ (~op[t].slept \/ SleepingReaders = {})
    <3>1. /\ SleepingReaders' = SleepingReaders
          /\ SleepingWriters' = SleepingWriters
          /\ WokenReaders' = WokenReaders \ {t} /\ WokenWriters' = WokenWriters \ {t}
      BY <2>1, <2>2, AfterReturn
    <3>2. WokenWriters \ {t} = WokenWriters /\ (~op[t].slept => WokenReaders \ {t} = WokenReaders)
      BY <2>1 DEF WokenReaders
    <3> QED BY <2>1, <2>2, <3>1, <3>2 DEF NoLostWakeup
  <2>3. CASE op[t].slept /\ SleepingReaders # {}
    <3>1. PICK u \in SleepingReaders :
            op' = [op EXCEPT ![t] = NoCall, ![u] = Woken(u)]
      BY <2>1, <2>3 DEF PeekReturn, ReturnNotify
    <3>2. /\ u \in Threads /\ op[u].asleep /\ op[u] \in Calls
          /\ op[u].kind \in Readers /\ op[u].kind # "push" /\ u \notin WokenReaders
      BY NoCallIs DEF SleepingReaders, TypeOK, Readers, WokenReaders
    <3>3. /\ WokenReaders' = (WokenReaders \ {t}) \cup {u}
          /\ WokenWriters' = WokenWriters \ {t}
          /\ SleepingWriters' = SleepingWriters \ {u}
      BY <2>1, <3>1, <3>2, AfterNotify
    <3>4. WokenWriters \ {t} = WokenWriters
      BY <2>1
    <3>5. /\ IsFiniteSet(WokenReaders \ {t})
          /\ Cardinality(WokenReaders \ {t}) >= Cardinality(WokenReaders) - 1
          /\ Cardinality(WokenReaders \ {t}) \in Nat
      BY <1>0, CardRemove
    <3>6. Cardinality((WokenReaders \ {t}) \cup {u}) = Cardinality(WokenReaders \ {t}) + 1
      BY <3>2, <3>5, CardAdd
    <3>7. size' <= Cardinality(WokenReaders')
      <4>1. size <= Cardinality(WokenReaders)
        BY <2>3 DEF NoLostWakeup
      <4>2. Cardinality(WokenReaders') = Cardinality(WokenReaders \ {t}) + 1
        BY <3>3, <3>6
      <4> QED BY <1>0, <2>1, <3>5, <4>1, <4>2
    <3>8. SleepingWriters' # {} => Limit - size' <= Cardinality(WokenWriters')
      BY <2>1, <3>3, <3>4 DEF NoLostWakeup
    <3> QED BY <3>7, <3>8 DEF NoLostWakeup
  <2> QED BY <2>1, <2>2, <2>3 DEF PeekReturn, ReturnNotify
<1>6. ASSUME NEW t \in Threads, SleepEmpty(t)
      PROVE  NoLostWakeup'
  <2>1. /\ op' = [op EXCEPT ![t].asleep = TRUE] /\ op[t] \in Calls
        /\ op[t].kind \in Readers /\ size = 0 /\ size' = 0
    BY <1>6, NoCallIs DEF SleepEmpty, Sleep, Ready, Readers, TypeOK
  <2>2. SleepingWriters' = SleepingWriters /\ WokenWriters' = WokenWriters
    BY <2>1, AfterSleep
  <2>3. Cardinality(WokenReaders') \in Nat
    BY WokenFiniteNext
  <2> QED BY <2>1, <2>2, <2>3 DEF NoLostWakeup
<1>7. ASSUME NEW t \in Threads, SleepFull(t)
      PROVE  NoLostWakeup'
  <2>1. /\ op' = [op EXCEPT ![t].asleep = TRUE] /\ op[t] \in Calls
        /\ op[t].kind = "push" /\ size = Limit /\ size' = Limit
    BY <1>7, NoCallIs DEF SleepFull, Sleep, Ready, TypeOK
  <2>2. SleepingReaders' = SleepingReaders /\ WokenReaders' = WokenReaders
    BY <2>1, AfterSleep
  <2>3. Cardinality(WokenWriters') \in Nat
    BY WokenFiniteNext
  <2> QED BY <1>0, <2>1, <2>2, <2>3 DEF NoLostWakeup
<1>8. ASSUME NEW t \in Threads, Spurious(t)
      PROVE  NoLostWakeup'
  <2>1. /\ op' = [op EXCEPT ![t] = Woken(t)] /\ op[t] \in Calls
        /\ op[t].asleep /\ size' = size
    BY <1>8, NoCallIs DEF Spurious, TypeOK
  <2>2. \A x \in Threads : op'[x] = IF x = t THEN Woken(t) ELSE op[x]
    BY <2>1 DEF TypeOK
  <2>3. Woken(t).kind = op[t].kind /\ ~Woken(t).asleep /\ Woken(t).slept
    BY <2>1, WokenIs
  <2>4. SleepingReaders' \subseteq SleepingReaders
        /\ SleepingWriters' \subseteq SleepingWriters
    BY <2>2, <2>3 DEF SleepingReaders, SleepingWriters
  <2>5. WokenReaders \subseteq WokenReaders' /\ WokenWriters \subseteq WokenWriters'
    BY <2>1, <2>2, <2>3 DEF WokenReaders, WokenWriters
  <2>6. IsFiniteSet(WokenReaders') /\ IsFiniteSet(WokenWriters')
    BY WokenFiniteNext
  <2>7. Cardinality(WokenReaders) <= Cardinality(WokenReaders')
        /\ Cardinality(WokenWriters) <= Cardinality(WokenWriters')
    BY <2>5, <2>6, FS_Subset
  <2>8. Cardinality(WokenReaders') \in Nat /\ Cardinality(WokenWriters') \in Nat
    BY WokenFiniteNext
  <2> QED BY <1>0, <2>1, <2>4, <2>7, <2>8 DEF NoLostWakeup
<1> QED BY <1>1, <1>2, <1>3, <1>4, <1>5, <1>6, <1>7, <1>8 DEF Next, Step

-----------------------------------------------------------------------------
LEMMA InitQInv == Init => QInv
<1> SUFFICES ASSUME Init PROVE QInv
  OBVIOUS
<1>1. TypeOK
  <2>1. 0 \in 0..(Limit - 1) /\ 0 \in 0..Limit
    BY LimitAssumption
  <2>2. << >> \in Seq(Values)
    OBVIOUS
  <2> QED BY <2>1, <2>2 DEF Init, TypeOK
<1>2. \A t \in Threads : op[t].kind = "none" /\ ~op[t].asleep
  BY NoCallIs DEF Init
<1>3. PushesValues
  BY <1>2 DEF PushesValues
<1>4. RingShape
  BY LimitAssumption DEF Init, RingShape
<1>5. NoLostWakeup
  BY <1>2 DEF NoLostWakeup, SleepingReaders, SleepingWriters
<1> QED BY <1>1, <1>3, <1>4, <1>5 DEF QInv

LEMMA QInvAlways == Spec => []QInv
<1>1. Init => QInv
  BY InitQInv
<1>2. QInv /\ [Next]_vars => QInv'
  BY StepType, StepNoLostWakeup DEF QInv
<1> QED BY <1>1, <1>2, PTL DEF Spec

(* The variables of the queue keep their types: among them, start_ stays   *)
(* below the limit and size_ does not pass it.                             *)
THEOREM QueueTypeCorrect == Spec => []TypeOK
<1>1. QInv => TypeOK
  BY DEF QInv
<1> QED BY <1>1, QInvAlways, PTL

(* While the vector still grows, the queue ends where the vector ends.     *)
THEOREM RingShapeAlways == Spec => []RingShape
<1>1. QInv => RingShape
  BY DEF QInv
<1> QED BY <1>1, QInvAlways, PTL

(* No call of notify_one is wasted on a thread that has no use for it: a   *)
(* thread sleeps only while there is less to do than threads already woken *)
(* to do it.                                                               *)
THEOREM NoWakeupLost == Spec => []NoLostWakeup
<1>1. QInv => NoLostWakeup
  BY DEF QInv
<1> QED BY <1>1, QInvAlways, PTL
-----------------------------------------------------------------------------
(* The steps of BoundedQueue as steps of Fifo.                             *)
Inv == TypeOK /\ PushesValues /\ RingShape

LEMMA PlaceIsNext ==
    ASSUME start' \in 0..(Limit - 1), NEW i \in 0..(Limit - 1)
    PROVE  Place(i)' = IF start' + i < Limit THEN start' + i + 1
                       ELSE start' + i - Limit + 1
  BY PlaceFrom DEF Place

ItemsAre ==
    /\ absItems \in Seq(Values)
    /\ Len(absItems) = size
    /\ \A i \in 1..size : absItems[i] = ring[Place(i - 1)]

LEMMA ItemsAreValues == Inv => ItemsAre
<1> SUFFICES ASSUME Inv PROVE ItemsAre
  OBVIOUS
<1>1. size \in Nat
  BY LimitAssumption DEF Inv, TypeOK
<1>2. \A i \in 1..size : ring[Place(i - 1)] \in Values
  <2>1. TAKE i \in 1..size
  <2>2. i - 1 \in 0..(size - 1)
    BY <1>1
  <2> QED BY <2>2, ItemInRing DEF Inv
<1> QED BY <1>1, <1>2 DEF absItems, ItemsAre

LEMMA ItemsAreValuesNext == Inv' => ItemsAre'
  BY ItemsAreValues, PTL

(* A push adds one item at the end and moves none.                         *)
LEMMA PushIsPut ==
    ASSUME Inv, Inv', NEW t \in Threads, Push(t)
    PROVE  absItems' = Append(absItems, op[t].val)
<1> DEFINE v == op[t].val
<1>1. /\ v \in Values /\ size \in Nat /\ size < Limit /\ size' = size + 1
      /\ start' = start /\ start \in 0..(Limit - 1) /\ Limit \in Nat
  BY LimitAssumption DEF Inv, TypeOK, PushesValues, Push, Ready
<1>2. \A i \in 0..size : Place(i)' = Place(i)
  BY <1>1 DEF Place
<1>3. \A i \in 0..size :
         Place(i) = IF start + i < Limit THEN start + i + 1
                    ELSE start + i - Limit + 1
  BY <1>1, PlaceIs
<1>4. \A i \in 0..(size - 1) : Place(i) \in 1..Len(ring)
  BY ItemInRing DEF Inv
<1>5. /\ \A i \in 0..(size - 1) : ring'[Place(i)] = ring[Place(i)]
      /\ ring'[Place(size)] = v
  <2>1. CASE Len(ring) # Limit
    <3>1. ring' = Append(ring, v) /\ ring \in Seq(Values)
      BY <2>1 DEF Push, Stored, Inv, TypeOK
    <3>2. Place(size) = Len(ring) + 1
      BY <1>1, <1>3, <2>1 DEF Inv, RingShape, TypeOK
    <3> QED BY <1>1, <1>4, <3>1, <3>2
  <2>2. CASE Len(ring) = Limit
    <3>1. ring' = [ring EXCEPT ![Place(size)] = v] /\ ring \in Seq(Values)
      BY <2>2 DEF Push, Stored, Inv, TypeOK
    <3>2. Place(size) \in 1..Len(ring)
      BY <1>1, <1>3, <2>2
    <3>3. \A i \in 0..(size - 1) : Place(i) # Place(size)
      BY <1>1, <1>3
    <3> QED BY <1>1, <1>4, <3>1, <3>2, <3>3
  <2> QED BY <2>1, <2>2
<1>6. /\ absItems \in Seq(Values) /\ Len(absItems) = size
      /\ \A i \in 1..size : absItems[i] = ring[Place(i - 1)]
  BY ItemsAreValues DEF ItemsAre
<1>7. /\ absItems' \in Seq(Values) /\ Len(absItems') = size + 1
      /\ \A i \in 1..(size + 1) : absItems'[i] = ring'[Place(i - 1)']
  BY <1>1, ItemsAreValuesNext DEF ItemsAre
<1>8. /\ Append(absItems, v) \in Seq(Values)
      /\ Len(Append(absItems, v)) = size + 1
      /\ \A i \in 1..size : Append(absItems, v)[i] = absItems[i]
      /\ Append(absItems, v)[size + 1] = v
  BY <1>1, <1>6
<1>9. \A i \in 1..(size + 1) : absItems'[i] = Append(absItems, v)[i]
  <2>1. TAKE i \in 1..(size + 1)
  <2>2. i - 1 \in 0..size /\ absItems'[i] = ring'[Place(i - 1)]
    BY <1>1, <1>2, <1>7
  <2>3. CASE i = size + 1
    BY <1>1, <1>5, <1>8, <2>2, <2>3
  <2>4. CASE i # size + 1
    <3>1. i \in 1..size /\ i - 1 \in 0..(size - 1)
      BY <1>1, <2>4
    <3> QED BY <1>5, <1>6, <1>8, <2>2, <3>1
  <2> QED BY <2>3, <2>4
<1> HIDE DEF v
<1> QED BY <1>7, <1>8, <1>9, SeqEqual DEF v

(* A pop takes the first item and moves none of the others.                *)
LEMMA PopIsTake ==
    ASSUME Inv, Inv', NEW t \in Threads, Pop(t)
    PROVE  /\ absItems # << >>
           /\ absItems' = Tail(absItems)
           /\ Head(absItems) = ring[Place(0)]
<1>1. /\ size \in 1..Limit /\ size' = size - 1 /\ ring' = ring
      /\ start \in 0..(Limit - 1) /\ start' \in 0..(Limit - 1)
      /\ Limit \in Nat \ {0}
  BY LimitAssumption DEF Inv, TypeOK, Pop
<1>2. start' = IF start + 1 < Limit THEN start + 1 ELSE 0
  BY <1>1, AdvancedIs DEF Pop
<1>3. \A i \in 0..(size - 2) : Place(i)' = Place(i + 1)
  <2>1. TAKE i \in 0..(size - 2)
  <2>2. i \in 0..(Limit - 1) /\ i + 1 \in 0..(Limit - 1)
    BY <1>1
  <2>3. Place(i)' = IF start' + i < Limit THEN start' + i + 1
                    ELSE start' + i - Limit + 1
    BY <1>1, <2>2, PlaceIsNext
  <2>4. Place(i + 1) = IF start + (i + 1) < Limit THEN start + (i + 1) + 1
                       ELSE start + (i + 1) - Limit + 1
    BY <1>1, <2>2, PlaceIs
  <2> QED BY <1>1, <1>2, <2>2, <2>3, <2>4
<1>4. /\ absItems \in Seq(Values) /\ Len(absItems) = size
      /\ \A i \in 1..size : absItems[i] = ring[Place(i - 1)]
  BY ItemsAreValues DEF ItemsAre
<1>5. /\ absItems' \in Seq(Values) /\ Len(absItems') = size - 1
      /\ \A i \in 1..(size - 1) : absItems'[i] = ring[Place(i - 1)']
  BY <1>1, ItemsAreValuesNext DEF ItemsAre
<1>6. absItems # << >> /\ Head(absItems) = ring[Place(0)]
  BY <1>1, <1>4
<1>7. /\ Tail(absItems) \in Seq(Values) /\ Len(Tail(absItems)) = size - 1
      /\ \A i \in 1..(size - 1) : Tail(absItems)[i] = absItems[i + 1]
  BY <1>1, <1>4, <1>6
<1>8. \A i \in 1..(size - 1) : absItems'[i] = Tail(absItems)[i]
  <2>1. TAKE i \in 1..(size - 1)
  <2>2. i - 1 \in 0..(size - 2) /\ i + 1 \in 1..size /\ (i - 1) + 1 = i
        /\ (i + 1) - 1 = i
    BY <1>1
  <2>3. absItems'[i] = ring[Place(i)]
    BY <1>3, <1>5, <2>2
  <2>4. Tail(absItems)[i] = ring[Place(i)]
    BY <1>4, <1>7, <2>2
  <2> QED BY <2>3, <2>4
<1>9. absItems' = Tail(absItems)
  BY <1>5, <1>7, <1>8, SeqEqual
<1> QED BY <1>6, <1>9
(* A peek returns an end of the queue.                                     *)
LEMMA EndsOfItems ==
    ASSUME Inv, size # 0
    PROVE  /\ absItems # << >>
           /\ Head(absItems) = ring[Place(0)]
           /\ absItems[Len(absItems)] = ring[Place(size - 1)]
<1>1. size \in Nat \ {0}
  BY LimitAssumption DEF Inv, TypeOK
<1>2. ItemsAre
  BY ItemsAreValues
<1> QED BY <1>1, <1>2 DEF ItemsAre

LEMMA ItemsUnchanged ==
    ASSUME UNCHANGED <<ring, start, size>>
    PROVE  absItems' = absItems
  BY DEF absItems, Place

LEMMA InitRefines == Init => Abstract!Init
<1> SUFFICES ASSUME Init PROVE Abstract!Init
  OBVIOUS
<1>1. Inv
  BY InitQInv DEF QInv, Inv
<1>2. ItemsAre /\ size = 0
  BY <1>1, ItemsAreValues DEF Init
<1>3. absItems = << >>
  BY <1>2 DEF ItemsAre
<1> QED BY <1>3 DEF Init, Abstract!Init

LEMMA StepRefines ==
    ASSUME Inv, Inv', [Next]_vars
    PROVE  [Abstract!Next]_<<absItems, result>>
<1>1. CASE UNCHANGED vars
  BY <1>1, ItemsUnchanged DEF vars
<1>2. ASSUME NEW t \in Threads, NEW kind, NEW v, Call(t, kind, v)
      PROVE  Abstract!Next
  <2>1. Abstract!Begin(t)
    BY <1>2, ItemsUnchanged DEF Call, Abstract!Begin
  <2> QED BY <2>1 DEF Abstract!Next
<1>3. ASSUME NEW t \in Threads, SleepFull(t) \/ SleepEmpty(t) \/ Spurious(t)
      PROVE  UNCHANGED <<absItems, result>>
  BY <1>3, ItemsUnchanged DEF SleepFull, SleepEmpty, Sleep, Spurious
<1>4. ASSUME NEW t \in Threads, Push(t)
      PROVE  Abstract!Next
  <2>1. op[t].val \in Values /\ size < Limit /\ result' = result
    BY <1>4, LimitAssumption
       DEF Push, Ready, Inv, PushesValues, TypeOK
  <2>2. Len(absItems) < Limit
    BY <2>1, ItemsAreValues DEF ItemsAre
  <2>3. Abstract!Put(t, op[t].val)
    BY <1>4, <2>1, <2>2, PushIsPut DEF Abstract!Put
  <2> QED BY <2>1, <2>3 DEF Abstract!Next
<1>5. ASSUME NEW t \in Threads, Pop(t)
      PROVE  Abstract!Next
  <2>1. Abstract!Take(t)
    BY <1>5, PopIsTake DEF Pop, Abstract!Take
  <2> QED BY <2>1 DEF Abstract!Next
<1>6. ASSUME NEW t \in Threads, Front(t)
      PROVE  Abstract!Next
  <2>1. Abstract!Front(t)
    BY <1>6, EndsOfItems, ItemsUnchanged DEF Front, Abstract!Front
  <2> QED BY <2>1 DEF Abstract!Next
<1>7. ASSUME NEW t \in Threads, Back(t)
      PROVE  Abstract!Next
  <2>1. Abstract!Back(t)
    BY <1>7, EndsOfItems, ItemsUnchanged DEF Back, Abstract!Back
  <2> QED BY <2>1 DEF Abstract!Next
<1> QED BY <1>1, <1>2, <1>3, <1>4, <1>5, <1>6, <1>7 DEF Next, Step

(* The ring buffer under its mutex is a first-in first-out queue of at     *)
(* most Limit items, each operation of which takes effect at one instant.  *)
THEOREM QueueImplementsFifo == Spec => ImplementsFifo
<1>1. Spec => []Inv
  <2>1. QInv => Inv
    BY DEF QInv, Inv
  <2> QED BY <2>1, QInvAlways, PTL
<1>2. Init => Abstract!Init
  BY InitRefines
<1>3. Inv /\ Inv' /\ [Next]_vars => [Abstract!Next]_<<absItems, result>>
  BY StepRefines
<1> QED BY <1>1, <1>2, <1>3, PTL DEF Spec, ImplementsFifo, Abstract!Spec
=============================================================================
