----------------------------- MODULE WorkersProofs -----------------------------
(***************************************************************************)
(* Proofs about Workers for any finite sets of workers and streams, any    *)
(* handlers and patterns and any bounds.                                   *)
(***************************************************************************)
EXTENDS Workers, FiniteSetTheorems, SequenceTheorems, TLAPS

(* A stream has not made more requests than all streams may, and what is   *)
(* on its way has been made.                                               *)
SentBound == \A c \in Streams : Len(sent[c]) <= MaxRequests

AskedSent == \A e \in Elems : Asked(e) => e[2] <= Len(sent[e[1]])

InvType == TypeOK /\ SentBound /\ AskedSent

-----------------------------------------------------------------------------
LEMMA ElemPair ==
    ASSUME NEW c \in Streams, NEW n \in 1..MaxRequests
    PROVE  /\ <<c, n>> \in Elems
           /\ <<c, n>>[1] = c
           /\ <<c, n>>[2] = n
  BY DEF Elems

LEMMA ElemParts ==
    ASSUME NEW e \in Elems
    PROVE  /\ e[1] \in Streams
           /\ e[2] \in 1..MaxRequests
           /\ e[2] \in Nat
           /\ e = <<e[1], e[2]>>
           /\ e # Nothing
<1>1. MaxRequests \in Nat /\ Nothing \notin Streams \X Nat
  BY WorkersAssumption
<1> QED BY <1>1 DEF Elems

LEMMA MadeFinite == IsFiniteSet(Elems) /\ IsFiniteSet(Made)
<1>1. IsFiniteSet(1..MaxRequests)
  BY WorkersAssumption, FS_Interval
<1>2. IsFiniteSet(Elems)
  BY <1>1, WorkersAssumption, FS_Product DEF Elems
<1> QED BY <1>2, FS_Subset DEF Made

(* There is room for the next request of a stream.                         *)
LEMMA NextFits ==
    ASSUME InvType, NEW c \in Streams, Cardinality(Made) < MaxRequests
    PROVE  Len(sent[c]) + 1 \in 1..MaxRequests
<1> DEFINE n == Len(sent[c])
           S == {c} \X (1..n)
<1>0. n \in Nat /\ n <= MaxRequests /\ MaxRequests \in Nat
  BY WorkersAssumption DEF InvType, TypeOK, SentBound
<1>1. S \subseteq Made
  BY <1>0 DEF Made, Elems
<1>2. IsFiniteSet({c}) /\ Cardinality({c}) = 1
  BY FS_Singleton
<1>3. IsFiniteSet(1..n) /\ Cardinality(1..n) = n
  <2>1. IsFiniteSet(1..n) /\ Cardinality(1..n) = IF 1 > n THEN 0 ELSE n - 1 + 1
    <3>1. n \in Int /\ 1 \in Int
      BY <1>0
    <3> HIDE DEF n
    <3> QED BY <3>1, FS_Interval
  <2> QED BY <1>0, <2>1
<1>4. IsFiniteSet(S) /\ Cardinality(S) = n
  <2>1. Cardinality(S) = Cardinality({c}) * Cardinality(1..n) /\ IsFiniteSet(S)
    BY <1>2, <1>3, FS_Product
  <2> QED BY <2>1, <1>0, <1>2, <1>3
<1>5. Cardinality(S) <= Cardinality(Made) /\ Cardinality(Made) \in Nat
  BY <1>1, MadeFinite, FS_Subset, FS_CardinalityType
<1> QED BY <1>0, <1>4, <1>5

(* What the handlers and workers do to the pending requests.               *)
LEMMA AskType ==
    ASSUME InvType, NEW h \in Handlers, NEW c \in Streams,
           NEW type \in Kinds, NEW pats \in SUBSET Patterns,
           Ask(h, c, type, pats)
    PROVE  /\ sent' \in [Streams -> Seq(Requests)]
           /\ Len(sent'[c]) = Len(sent[c]) + 1
           /\ \A i \in 1..Len(sent[c]) : sent'[c][i] = sent[c][i]
           /\ sent'[c][Len(sent[c]) + 1] = [type |-> type, pats |-> pats]
           /\ \A d \in Streams \ {c} : sent'[d] = sent[d]
           /\ pushing' \in [Handlers -> Elems \cup {Nothing}]
           /\ SentBound'
<1> DEFINE r == [type |-> type, pats |-> pats]
           n == Len(sent[c]) + 1
<1>1. r \in Requests /\ sent \in [Streams -> Seq(Requests)]
      /\ pushing \in [Handlers -> Elems \cup {Nothing}]
  BY DEF Requests, InvType, TypeOK
<1>2. n \in 1..MaxRequests
  BY NextFits DEF Ask
<1>3. sent' = [sent EXCEPT ![c] = Append(sent[c], r)]
  BY DEF Ask
<1>4. /\ Append(sent[c], r) \in Seq(Requests)
      /\ Len(Append(sent[c], r)) = Len(sent[c]) + 1
      /\ \A i \in 1..Len(sent[c]) : Append(sent[c], r)[i] = sent[c][i]
      /\ Append(sent[c], r)[Len(sent[c]) + 1] = r
  <2>1. sent[c] \in Seq(Requests)
    BY <1>1
  <2> HIDE DEF r
  <2> QED BY <1>1, <2>1, AppendProperties
<1>5. sent'[c] = Append(sent[c], r) /\ \A d \in Streams \ {c} : sent'[d] = sent[d]
  BY <1>1, <1>3
<1>6. sent' \in [Streams -> Seq(Requests)]
  BY <1>1, <1>3, <1>4
<1>7. pushing' \in [Handlers -> Elems \cup {Nothing}]
  <2>1. <<c, n>> \in Elems
    BY <1>2, ElemPair
  <2> QED BY <1>1, <2>1 DEF Ask
<1>8. SentBound'
  <2> SUFFICES ASSUME NEW d \in Streams PROVE Len(sent'[d]) <= MaxRequests
    BY DEF SentBound
  <2> QED BY <1>2, <1>4, <1>5 DEF InvType, SentBound
<1> QED BY <1>4, <1>5, <1>6, <1>7, <1>8

LEMMA AskedAfterAsk ==
    ASSUME InvType, NEW h \in Handlers, NEW c \in Streams,
           NEW type \in Kinds, NEW pats \in SUBSET Patterns,
           pushing[h] = Nothing,
           Ask(h, c, type, pats), UNCHANGED <<bbq, held>>
    PROVE  \A e \in Elems : Asked(e)' <=> Asked(e) \/ e = <<c, Len(sent[c]) + 1>>
<1>1. pushing' = [pushing EXCEPT ![h] = <<c, Len(sent[c]) + 1>>]
      /\ pushing \in [Handlers -> Elems \cup {Nothing}]
  BY DEF Ask, InvType, TypeOK
<1>2. bbq' = bbq /\ held' = held
  OBVIOUS
<1>3. \A e \in Elems : e # Nothing
  BY ElemParts
<1> QED BY <1>1, <1>2, <1>3 DEF Asked

LEMMA AskedAfterPush ==
    ASSUME InvType, NEW h \in Handlers, Push(h)
    PROVE  /\ \A e \in Elems : Asked(e)' <=> Asked(e)
           /\ Len(bbq') = Len(bbq) + 1
           /\ \A i \in 1..Len(bbq) : bbq'[i] = bbq[i]
           /\ bbq'[Len(bbq) + 1] = pushing[h]
           /\ bbq' \in Seq(Elems)
<1>1. pushing[h] \in Elems /\ bbq \in Seq(Elems)
      /\ pushing \in [Handlers -> Elems \cup {Nothing}]
  BY DEF Push, InvType, TypeOK
<1>2. /\ bbq' \in Seq(Elems) /\ Len(bbq') = Len(bbq) + 1
      /\ \A i \in 1..Len(bbq) : bbq'[i] = bbq[i]
      /\ bbq'[Len(bbq) + 1] = pushing[h]
  BY <1>1, AppendProperties DEF Push
<1>3. pushing' = [pushing EXCEPT ![h] = Nothing] /\ held' = held
  BY DEF Push
<1>4. Len(bbq) \in Nat
  BY <1>1
<1>5. ASSUME NEW e \in Elems PROVE Asked(e)' <=> Asked(e)
  <2>1. e # Nothing
    BY ElemParts
  <2>2. ASSUME Asked(e)' PROVE Asked(e)
    <3>1. CASE \E g \in Handlers : pushing'[g] = e
      BY <3>1, <1>1, <1>3, <2>1 DEF Asked
    <3>2. CASE \E i \in 1..Len(bbq') : bbq'[i] = e
      <4>1. PICK i \in 1..Len(bbq') : bbq'[i] = e
        BY <3>2
      <4>2. CASE i = Len(bbq) + 1
        BY <4>1, <4>2, <1>2 DEF Asked
      <4>3. CASE i \in 1..Len(bbq)
        BY <4>1, <4>3, <1>2 DEF Asked
      <4> QED BY <4>1, <4>2, <4>3, <1>2, <1>4
    <3>3. CASE \E w \in Workers : held'[w] = e
      BY <3>3, <1>3 DEF Asked
    <3> QED BY <2>2, <3>1, <3>2, <3>3 DEF Asked
  <2>3. ASSUME Asked(e) PROVE Asked(e)'
    <3>1. CASE \E g \in Handlers : pushing[g] = e
      <4>1. PICK g \in Handlers : pushing[g] = e
        BY <3>1
      <4>2. CASE g = h
        <5>1. Len(bbq) + 1 \in 1..Len(bbq')
          BY <1>2, <1>4
        <5> QED BY <4>1, <4>2, <5>1, <1>2 DEF Asked
      <4>3. CASE g # h
        BY <4>1, <4>3, <1>1, <1>3 DEF Asked
      <4> QED BY <4>2, <4>3
    <3>2. CASE \E i \in 1..Len(bbq) : bbq[i] = e
      <4>1. PICK i \in 1..Len(bbq) : bbq[i] = e
        BY <3>2
      <4>2. i \in 1..Len(bbq')
        BY <4>1, <1>2, <1>4
      <4> QED BY <4>1, <4>2, <1>2 DEF Asked
    <3>3. CASE \E w \in Workers : held[w] = e
      BY <3>3, <1>3 DEF Asked
    <3> QED BY <2>3, <3>1, <3>2, <3>3 DEF Asked
  <2> QED BY <2>2, <2>3
<1> QED BY <1>2, <1>5

LEMMA AskedAfterTake ==
    ASSUME InvType, NEW w \in Workers, Take(w)
    PROVE  /\ \A e \in Elems : Asked(e)' <=> Asked(e)
           /\ Len(bbq') = Len(bbq) - 1
           /\ Len(bbq) \in Nat /\ Len(bbq) >= 1
           /\ \A i \in 1..Len(bbq') : bbq'[i] = bbq[i + 1]
           /\ held' = [held EXCEPT ![w] = bbq[1]]
           /\ bbq[1] \in Elems
           /\ bbq' \in Seq(Elems)
<1>1. bbq \in Seq(Elems) /\ bbq # << >>
      /\ held \in [Workers -> Elems \cup {Nothing}] /\ held[w] = Nothing
  BY DEF Take, InvType, TypeOK
<1>2. /\ bbq' \in Seq(Elems) /\ Len(bbq') = Len(bbq) - 1
      /\ \A i \in 1..Len(bbq') : bbq'[i] = bbq[i + 1]
  BY <1>1, HeadTailProperties DEF Take, TakenFromFront
<1>3. Len(bbq) \in Nat /\ Len(bbq) >= 1 /\ Head(bbq) = bbq[1] /\ bbq[1] \in Elems
  BY <1>1
<1>4. held' = [held EXCEPT ![w] = bbq[1]] /\ pushing' = pushing
  BY <1>3 DEF Take, TakenFromFront
<1>5. ASSUME NEW e \in Elems PROVE Asked(e)' <=> Asked(e)
  <2>1. e # Nothing
    BY ElemParts
  <2>2. ASSUME Asked(e)' PROVE Asked(e)
    <3>1. CASE \E h \in Handlers : pushing'[h] = e
      BY <3>1, <1>4 DEF Asked
    <3>2. CASE \E i \in 1..Len(bbq') : bbq'[i] = e
      <4>1. PICK i \in 1..Len(bbq') : bbq'[i] = e
        BY <3>2
      <4>2. i + 1 \in 1..Len(bbq) /\ bbq[i + 1] = e
        BY <4>1, <1>2, <1>3
      <4> QED BY <4>2 DEF Asked
    <3>3. CASE \E v \in Workers : held'[v] = e
      <4>1. PICK v \in Workers : held'[v] = e
        BY <3>3
      <4>2. CASE v = w
        <5>1. 1 \in 1..Len(bbq) /\ bbq[1] = e
          BY <4>1, <4>2, <1>1, <1>3, <1>4
        <5> QED BY <5>1 DEF Asked
      <4>3. CASE v # w
        BY <4>1, <4>3, <1>1, <1>4 DEF Asked
      <4> QED BY <4>2, <4>3
    <3> QED BY <2>2, <3>1, <3>2, <3>3 DEF Asked
  <2>3. ASSUME Asked(e) PROVE Asked(e)'
    <3>1. CASE \E h \in Handlers : pushing[h] = e
      BY <3>1, <1>4 DEF Asked
    <3>2. CASE \E i \in 1..Len(bbq) : bbq[i] = e
      <4>1. PICK i \in 1..Len(bbq) : bbq[i] = e
        BY <3>2
      <4>2. CASE i = 1
        BY <4>1, <4>2, <1>1, <1>4 DEF Asked
      <4>3. CASE i # 1
        <5>1. i - 1 \in 1..Len(bbq') /\ (i - 1) + 1 = i
          BY <4>1, <4>3, <1>2, <1>3
        <5>2. bbq'[i - 1] = e
          BY <5>1, <4>1, <1>2
        <5> QED BY <5>1, <5>2 DEF Asked
      <4> QED BY <4>2, <4>3
    <3>3. CASE \E v \in Workers : held[v] = e
      BY <3>3, <1>1, <1>4, <2>1 DEF Asked
    <3> QED BY <2>3, <3>1, <3>2, <3>3 DEF Asked
  <2> QED BY <2>2, <2>3
<1> QED BY <1>2, <1>3, <1>4, <1>5

LEMMA AskedAfterDone ==
    ASSUME InvType, NEW w \in Workers, held[w] # Nothing, Done(w)
    PROVE  /\ held[w] \in Elems /\ Asked(held[w])
           /\ held' = [held EXCEPT ![w] = Nothing]
           /\ UNCHANGED <<running, stream, sent, pushing, bbq>>
           /\ \A e \in Elems : Asked(e)' => Asked(e)
           /\ \A e \in Elems : Asked(e) /\ e # held[w] => Asked(e)'
<1>1. held \in [Workers -> Elems \cup {Nothing}]
  BY DEF InvType, TypeOK
<1>2. held' = [held EXCEPT ![w] = Nothing] /\ UNCHANGED <<running, stream, sent, pushing, bbq>>
  BY DEF Done
<1>3. held[w] \in Elems /\ \A e \in Elems : e # Nothing
  BY <1>1, ElemParts
<1>4. \A e \in Elems : Asked(e)' => Asked(e)
  BY <1>1, <1>2, <1>3 DEF Asked
<1>5. \A e \in Elems : Asked(e) /\ e # held[w] => Asked(e)'
  BY <1>1, <1>2, <1>3 DEF Asked
<1> QED BY <1>2, <1>3, <1>4, <1>5 DEF Asked

LEMMA AskedParts ==
    ASSUME InvType, NEW e \in Elems, Asked(e)
    PROVE  /\ Request(e) \in Requests
           /\ Request(e).pats \subseteq Patterns
           /\ e[2] \in 1..Len(sent[e[1]])
<1>1. e[1] \in Streams /\ e[2] \in 1..MaxRequests /\ e[2] <= Len(sent[e[1]])
  BY ElemParts DEF InvType, AskedSent
<1>2. sent[e[1]] \in Seq(Requests) /\ Len(sent[e[1]]) \in Nat /\ MaxRequests \in Nat
  BY <1>1, WorkersAssumption DEF InvType, TypeOK
<1>3. e[2] \in 1..Len(sent[e[1]])
  BY <1>1, <1>2
<1>4. Request(e) \in Requests
  BY <1>2, <1>3 DEF Request
<1> QED BY <1>3, <1>4 DEF Requests

LEMMA InitType == Init => InvType
<1> SUFFICES ASSUME Init PROVE InvType
  OBVIOUS
<1>1. << >> \in Seq(Requests) /\ << >> \in Seq(Elems) /\ Len(<< >>) = 0
  OBVIOUS
<1>2. TypeOK
  BY <1>1, WorkersAssumption DEF Init, NewGrpcRepl, TypeOK
<1>3. SentBound
  BY <1>1, WorkersAssumption DEF Init, SentBound
<1>4. AskedSent
  <2>1. \A e \in Elems : ~Asked(e)
    BY ElemParts DEF Init, NewGrpcRepl, Asked
  <2> QED BY <2>1 DEF AskedSent
<1> QED BY <1>2, <1>3, <1>4 DEF InvType

LEMMA AskKeepsSent ==
    ASSUME InvType, NEW h \in Handlers, NEW c \in Streams,
           NEW type \in Kinds, NEW pats \in SUBSET Patterns,
           pushing[h] = Nothing,
           Ask(h, c, type, pats), UNCHANGED <<bbq, held>>
    PROVE  AskedSent'
<1> SUFFICES ASSUME NEW e \in Elems, Asked(e)' PROVE e[2] <= Len(sent'[e[1]])
  BY DEF AskedSent
<1>1. e[1] \in Streams /\ e[2] \in Nat
  BY ElemParts
<1>2. /\ Len(sent'[c]) = Len(sent[c]) + 1
      /\ \A d \in Streams \ {c} : sent'[d] = sent[d]
  BY AskType
<1>3. Len(sent[e[1]]) \in Nat /\ Len(sent[c]) \in Nat
  BY <1>1 DEF InvType, TypeOK
<1>4. CASE Asked(e)
  <2>1. e[2] <= Len(sent[e[1]])
    BY <1>4 DEF InvType, AskedSent
  <2> QED BY <2>1, <1>1, <1>2, <1>3
<1>5. CASE e = <<c, Len(sent[c]) + 1>>
  BY <1>5, <1>2, <1>3
<1> QED BY <1>4, <1>5, AskedAfterAsk

LEMMA StepType == InvType /\ [Next]_vars => InvType'
<1> SUFFICES ASSUME InvType, [Next]_vars PROVE InvType'
  OBVIOUS
<1>0. TypeOK /\ SentBound /\ AskedSent
  BY DEF InvType
<1> USE DEF TypeOK, repl
<1>a. ASSUME UNCHANGED <<sent, pushing, bbq, held>>
      PROVE  SentBound' /\ AskedSent'
  BY <1>a, <1>0 DEF SentBound, AskedSent, Asked
<1>b. ASSUME UNCHANGED sent, \A e \in Elems : Asked(e)' => Asked(e)
      PROVE  SentBound' /\ AskedSent'
  BY <1>b, <1>0 DEF SentBound, AskedSent
<1>1. CASE UNCHANGED vars
  BY <1>1, <1>a, <1>0 DEF vars, InvType
<1>2. ASSUME NEW h \in Handlers, NEW c \in Streams, Open(h, c)
      PROVE  InvType'
  <2>1. "ADD" \in Kinds /\ {} \in SUBSET Patterns /\ Ask(h, c, "ADD", {})
    BY <1>2 DEF Open, Kinds
  <2>2. AskedSent'
    BY <1>2, <2>1, AskKeepsSent DEF Open, Free
  <2> QED BY <1>0, <1>2, <2>1, <2>2, AskType DEF Open, InvType
<1>3. ASSUME NEW h \in Handlers, NEW c \in Streams, NEW type \in Kinds,
             NEW pats \in SUBSET Patterns, Async(h, c, type, pats)
      PROVE  InvType'
  <2>1. Ask(h, c, type, pats)
    BY <1>3 DEF Async
  <2>2. AskedSent'
    BY <1>3, <2>1, AskKeepsSent DEF Async, Free
  <2> QED BY <1>0, <1>3, <2>1, <2>2, AskType DEF Async, InvType
<1>4. ASSUME NEW h \in Handlers, NEW c \in Streams, Close(h, c)
      PROVE  InvType'
  BY <1>0, <1>4, <1>a DEF Close, InvType
<1>5. ASSUME NEW h \in Handlers, Push(h)
      PROVE  InvType'
  <2>1. bbq' \in Seq(Elems) /\ Len(bbq') = Len(bbq) + 1
    BY <1>5, AskedAfterPush
  <2>2. Len(bbq') <= Limit
    BY <1>0, <1>5, <2>1, WorkersAssumption DEF Push, Room
  <2>3. SentBound' /\ AskedSent'
    BY <1>5, <1>b, AskedAfterPush DEF Push
  <2> QED BY <1>0, <1>5, <2>1, <2>2, <2>3 DEF Push, InvType
<1>6. ASSUME NEW w \in Workers, Take(w)
      PROVE  InvType'
  <2>1. /\ Len(bbq') = Len(bbq) - 1
        /\ held' = [held EXCEPT ![w] = bbq[1]]
        /\ bbq[1] \in Elems /\ bbq' \in Seq(Elems) /\ Len(bbq) \in Nat
    BY <1>6, AskedAfterTake
  <2>2. Len(bbq') <= Limit
    BY <1>0, <2>1, WorkersAssumption
  <2>3. SentBound' /\ AskedSent'
    BY <1>6, <1>b, AskedAfterTake DEF Take
  <2> QED BY <1>0, <1>6, <2>1, <2>2, <2>3 DEF Take, InvType
<1>7. ASSUME NEW w \in Workers, Apply(w)
      PROVE  InvType'
  <2>0. held[w] # Nothing /\ Done(w)
    BY <1>7 DEF Apply, ApplySub, ApplyUsub, ApplyCons, ApplyAdd, Holds
  <2>1. held[w] \in Elems /\ held' \in [Workers -> Elems \cup {Nothing}]
    BY <1>0, <2>0, AskedAfterDone
  <2>2. held[w][1] \in Streams /\ Request(held[w]).pats \subseteq Patterns
    BY <2>0, <2>1, ElemParts, AskedParts, AskedAfterDone
  <2>3. SentBound' /\ AskedSent'
    BY <2>0, <1>b, AskedAfterDone DEF Done
  <2>4. UNCHANGED <<running, stream, sent, pushing, bbq>>
    BY <2>0 DEF Done
  <2>5. members' \subseteq Streams /\ rel' \subseteq Streams \X Patterns
        /\ consumed' \subseteq Elems /\ late' \subseteq Streams
    BY <1>0, <1>7, <2>1, <2>2
    DEF Apply, ApplySub, ApplyUsub, ApplyCons, ApplyAdd, Subscribed
  <2>6. overtaken' \subseteq Streams
    BY <1>0, <2>0, <2>2 DEF Done, NoteOrder
  <2> QED BY <1>0, <2>1, <2>3, <2>4, <2>5, <2>6 DEF InvType
<1>8. {"CONS", "SUB", "USUB"} \subseteq Kinds /\ {} \in SUBSET Patterns
  BY DEF Kinds
<1> QED
  BY <1>1, <1>2, <1>3, <1>4, <1>5, <1>6, <1>7, <1>8 DEF Next

(* The variables keep their types; above all the queue never holds more    *)
(* than its limit, however many handlers wait in front of it.              *)
THEOREM WorkersTypeCorrect == Spec => []TypeOK
<1>1. Init => InvType
  BY InitType
<1>2. InvType /\ [Next]_vars => InvType'
  BY StepType
<1>3. InvType => TypeOK
  BY DEF InvType
<1> QED BY <1>1, <1>2, <1>3, PTL DEF Spec

-----------------------------------------------------------------------------
DeadInv == InvType /\ DeadServedOnlyIfLate

(* What a stream that has ended leaves in the queue brings it back into    *)
(* the replicator only if its ADD is there too: subscribeBatch of a        *)
(* consumer that is not a member does nothing (Repl.h:485).                *)
THEOREM DeadStaysDead == Spec => []DeadServedOnlyIfLate
<1>1. Init => DeadInv
  <2> SUFFICES ASSUME Init PROVE DeadInv
    OBVIOUS
  <2>1. \A c \in Streams : stream[c] = "new"
    BY DEF Init
  <2> QED BY <2>1, InitType DEF DeadInv, DeadServedOnlyIfLate
<1>2. DeadInv /\ [Next]_vars => DeadInv'
  <2> SUFFICES ASSUME DeadInv, [Next]_vars PROVE DeadInv'
    OBVIOUS
  <2>0. InvType /\ InvType' /\ TypeOK
    BY StepType DEF DeadInv, InvType
  <2> USE DEF TypeOK, repl
  <2> SUFFICES ASSUME NEW c \in Streams, stream'[c] = "closed", c \notin late'
               PROVE  c \notin members' /\ \A p \in Patterns : <<c, p>> \notin rel'
    BY <2>0 DEF DeadInv, DeadServedOnlyIfLate
  <2>a. ASSUME stream[c] = "closed", c \notin late
        PROVE  c \notin members /\ \A p \in Patterns : <<c, p>> \notin rel
    BY <2>a DEF DeadInv, DeadServedOnlyIfLate
  <2>1. CASE UNCHANGED <<stream, members, rel, late>>
    BY <2>1, <2>a
  <2>2. ASSUME NEW h \in Handlers, NEW d \in Streams, NEW type, NEW pats,
               Open(h, d) \/ Async(h, d, type, pats)
        PROVE  c \notin members' /\ \A p \in Patterns : <<c, p>> \notin rel'
    BY <2>0, <2>2, <2>a DEF Open, Async
  <2>3. ASSUME NEW h \in Handlers, NEW d \in Streams, Close(h, d)
        PROVE  c \notin members' /\ \A p \in Patterns : <<c, p>> \notin rel'
    <3>1. CASE c = d
      BY <2>0, <2>3, <3>1 DEF Close
    <3>2. CASE c # d
      BY <2>0, <2>3, <2>a, <3>2 DEF Close
    <3> QED BY <3>1, <3>2
  <2>4. ASSUME NEW w \in Workers, Apply(w)
        PROVE  c \notin members' /\ \A p \in Patterns : <<c, p>> \notin rel'
    <3>1. stream' = stream /\ held[w] \in Elems /\ held[w][1] \in Streams
      BY <2>0, <2>4, ElemParts
      DEF Apply, ApplySub, ApplyUsub, ApplyCons, ApplyAdd, Holds, Done
    <3>2. c \notin late
      BY <2>4, <3>1 DEF Apply, ApplySub, ApplyUsub, ApplyCons, ApplyAdd
    <3>3. c \notin members /\ \A p \in Patterns : <<c, p>> \notin rel
      BY <3>1, <3>2, <2>a
    <3>4. CASE ApplySub(w)
      BY <3>3, <3>4 DEF ApplySub, Subscribed
    <3>5. CASE ApplyUsub(w)
      BY <3>3, <3>5 DEF ApplyUsub
    <3>6. CASE ApplyCons(w)
      BY <3>3, <3>6 DEF ApplyCons
    <3>7. CASE ApplyAdd(w)
      BY <3>1, <3>3, <3>7 DEF ApplyAdd
    <3> QED BY <2>4, <3>4, <3>5, <3>6, <3>7 DEF Apply
  <2>5. ASSUME NEW h \in Handlers, Push(h)
        PROVE  c \notin members' /\ \A p \in Patterns : <<c, p>> \notin rel'
    BY <2>5, <2>1 DEF Push
  <2>6. ASSUME NEW w \in Workers, Take(w)
        PROVE  c \notin members' /\ \A p \in Patterns : <<c, p>> \notin rel'
    BY <2>6, <2>1 DEF Take
  <2> QED BY <2>1, <2>2, <2>3, <2>4, <2>5, <2>6 DEF Next, vars
<1>3. DeadInv => DeadServedOnlyIfLate
  BY DEF DeadInv
<1> QED BY <1>1, <1>2, <1>3, PTL DEF Spec

-----------------------------------------------------------------------------
(* The requests of a stream are in the queue in the order it made them,    *)
(* the one about to be pushed is its last, and one that a worker holds, it *)
(* alone, is older than those in the queue.                                *)
QueueOrder ==
    \A i, j \in 1..Len(bbq) :
        i < j /\ bbq[i][1] = bbq[j][1] => bbq[i][2] < bbq[j][2]

PushLast ==
    \A h \in Handlers : pushing[h] # Nothing =>
        /\ pushing[h][2] = Len(sent[pushing[h][1]])
        /\ \A i \in 1..Len(bbq) :
             bbq[i][1] = pushing[h][1] => bbq[i][2] < pushing[h][2]
        /\ \A g \in Handlers :
             pushing[g] # Nothing /\ pushing[g][1] = pushing[h][1] => g = h

HeldFirst ==
    \A w \in Workers : held[w] # Nothing =>
        /\ w \in running
        /\ \A i \in 1..Len(bbq) :
             bbq[i][1] = held[w][1] => held[w][2] < bbq[i][2]
        /\ \A h \in Handlers :
             pushing[h] # Nothing /\ pushing[h][1] = held[w][1]
                => held[w][2] < pushing[h][2]
        /\ \A v \in Workers : held[v] = held[w] => v = w

NewClean ==
    \A c \in Streams : stream[c] = "new" =>
        /\ sent[c] = << >>
        /\ c \notin members
        /\ \A p \in Patterns : <<c, p>> \notin rel

OrderInv == InvType /\ QueueOrder /\ PushLast /\ HeldFirst /\ NewClean

(* Of a stream to which no overtaking has happened, the requests that were *)
(* applied are the oldest ones, and the subscriptions are what these say.  *)
AskedUp ==
    \A e \in Elems : Asked(e) /\ e[1] \notin overtaken =>
        \A n \in e[2]..Len(sent[e[1]]) : Asked(<<e[1], n>>)

Known ==
    \A c \in Streams \ overtaken : stream[c] = "open" =>
        /\ Len(sent[c]) >= 1
        /\ sent[c][1].type = "ADD"
        /\ c \in members <=> ~Asked(<<c, 1>>)

Wants(c, p, i)  == sent[c][i].type = "SUB" /\ p \in sent[c][i].pats
Leaves(c, p, j) == sent[c][j].type = "USUB" /\ p \in sent[c][j].pats

Settled(c, p) ==
    \E i \in 1..Len(sent[c]) :
        /\ ~Asked(<<c, i>>)
        /\ Wants(c, p, i)
        /\ \A j \in i..Len(sent[c]) : Leaves(c, p, j) => Asked(<<c, j>>)

RelSettled ==
    \A c \in Streams \ overtaken, p \in Patterns :
        stream[c] = "open" => (<<c, p>> \in rel <=> Settled(c, p))

InOrder == AskedUp /\ Known /\ RelSettled

-----------------------------------------------------------------------------
LEMMA SentLen ==
    ASSUME InvType, NEW c \in Streams
    PROVE  /\ Len(sent[c]) \in Nat
           /\ \A n \in 1..Len(sent[c]) :
                /\ <<c, n>> \in Elems
                /\ n \in 1..MaxRequests /\ n \in Nat
<1>1. Len(sent[c]) \in Nat /\ Len(sent[c]) <= MaxRequests /\ MaxRequests \in Nat
  BY WorkersAssumption DEF InvType, TypeOK, SentBound
<1>2. \A n \in 1..Len(sent[c]) : n \in 1..MaxRequests /\ n \in Nat
  BY <1>1
<1> QED BY <1>1, <1>2, ElemPair

LEMMA NewNotAsked ==
    ASSUME OrderInv, NEW c \in Streams, stream[c] = "new",
           NEW e \in Elems, e[1] = c
    PROVE  ~Asked(e)
<1>1. Len(sent[c]) = 0
  BY DEF OrderInv, NewClean
<1>2. e[2] \in 1..MaxRequests
  BY ElemParts
<1> QED BY <1>1, <1>2 DEF OrderInv, InvType, AskedSent

LEMMA BbqAsked ==
    ASSUME InvType, NEW i \in 1..Len(bbq)
    PROVE  /\ bbq[i] \in Elems /\ Asked(bbq[i])
           /\ bbq[i][2] <= Len(sent[bbq[i][1]])
<1>1. bbq[i] \in Elems /\ Asked(bbq[i])
  BY DEF InvType, TypeOK, Asked
<1> QED BY <1>1 DEF InvType, AskedSent

LEMMA HeldAsked ==
    ASSUME InvType, NEW w \in Workers, held[w] # Nothing
    PROVE  /\ held[w] \in Elems /\ Asked(held[w])
           /\ held[w][2] <= Len(sent[held[w][1]])
<1>1. held[w] \in Elems /\ Asked(held[w])
  BY DEF InvType, TypeOK, Asked
<1> QED BY <1>1 DEF InvType, AskedSent

LEMMA PushingAsked ==
    ASSUME InvType, NEW h \in Handlers, pushing[h] # Nothing
    PROVE  /\ pushing[h] \in Elems /\ Asked(pushing[h])
           /\ pushing[h][2] <= Len(sent[pushing[h][1]])
<1>1. pushing[h] \in Elems /\ Asked(pushing[h])
  BY DEF InvType, TypeOK, Asked
<1> QED BY <1>1 DEF InvType, AskedSent

-----------------------------------------------------------------------------
(* The order is kept by every step.                                        *)
LEMMA OrderAsk ==
    ASSUME OrderInv, NEW h \in Handlers, NEW c \in Streams,
           NEW type \in Kinds, NEW pats \in SUBSET Patterns, Free(h, c),
           Ask(h, c, type, pats), UNCHANGED <<running, bbq, held>>
    PROVE  QueueOrder' /\ PushLast' /\ HeldFirst'
<1> DEFINE n == Len(sent[c]) + 1
<1>0. /\ InvType /\ QueueOrder /\ PushLast /\ HeldFirst
      /\ pushing[h] = Nothing /\ n \in Nat
      /\ <<c, n>>[1] = c /\ <<c, n>>[2] = n
  BY SentLen DEF OrderInv, Free
<1>1. /\ pushing' = [pushing EXCEPT ![h] = <<c, n>>]
      /\ pushing \in [Handlers -> Elems \cup {Nothing}]
  BY <1>0 DEF Ask, InvType, TypeOK
<1>2. /\ Len(sent'[c]) = n
      /\ \A d \in Streams \ {c} : sent'[d] = sent[d]
  BY <1>0, AskType
<1>3. ASSUME NEW e \in Elems, Asked(e), e[1] = c PROVE e[2] < n
  <2>1. e[2] <= Len(sent[c]) /\ e[2] \in Nat /\ Len(sent[c]) \in Nat
    BY <1>0, <1>3, ElemParts, SentLen DEF InvType, AskedSent
  <2> QED BY <2>1
<1>4. QueueOrder'
  BY <1>0 DEF QueueOrder
<1>5. PushLast'
  <2> SUFFICES ASSUME NEW g \in Handlers, pushing'[g] # Nothing
               PROVE  /\ pushing'[g][2] = Len(sent'[pushing'[g][1]])
                      /\ \A i \in 1..Len(bbq) : bbq[i][1] = pushing'[g][1]
                           => bbq[i][2] < pushing'[g][2]
                      /\ \A k \in Handlers :
                           pushing'[k] # Nothing /\ pushing'[k][1] = pushing'[g][1]
                             => k = g
    BY DEF PushLast
  <2>1. CASE g = h
    <3>1. pushing'[g] = <<c, n>>
      BY <1>1, <2>1
    <3>2. \A i \in 1..Len(bbq) : bbq[i][1] = c => bbq[i][2] < n
      BY <1>0, <1>3, BbqAsked
    <3>3. \A k \in Handlers \ {h} : pushing'[k] # Nothing => pushing'[k][1] # c
      BY <1>1 DEF Free
    <3> QED BY <3>1, <3>2, <3>3, <1>0, <1>2, <2>1
  <2>2. CASE g # h
    <3>1. pushing'[g] = pushing[g] /\ pushing[g] # Nothing
      BY <1>1, <2>2
    <3>2. pushing[g][1] # c /\ pushing[g][1] \in Streams
      BY <1>0, <3>1, PushingAsked, ElemParts DEF Free
    <3>3. pushing[g][2] = Len(sent'[pushing[g][1]])
      BY <1>0, <1>2, <3>1, <3>2 DEF PushLast
    <3>4. \A i \in 1..Len(bbq) :
            bbq[i][1] = pushing[g][1] => bbq[i][2] < pushing[g][2]
      BY <1>0, <3>1 DEF PushLast
    <3>5. ASSUME NEW k \in Handlers, pushing'[k] # Nothing,
                 pushing'[k][1] = pushing[g][1]
          PROVE  k = g
      <4>1. k # h
        BY <1>0, <1>1, <3>2, <3>5
      <4>2. pushing'[k] = pushing[k]
        BY <1>1, <4>1
      <4> QED BY <1>0, <3>1, <3>5, <4>2 DEF PushLast
    <3> QED BY <3>1, <3>3, <3>4, <3>5
  <2> QED BY <2>1, <2>2
<1>6. HeldFirst'
  <2> SUFFICES ASSUME NEW w \in Workers, held[w] # Nothing
               PROVE  /\ w \in running
                      /\ \A i \in 1..Len(bbq) :
                           bbq[i][1] = held[w][1] => held[w][2] < bbq[i][2]
                      /\ \A g \in Handlers :
                           pushing'[g] # Nothing /\ pushing'[g][1] = held[w][1]
                             => held[w][2] < pushing'[g][2]
                      /\ \A v \in Workers : held[v] = held[w] => v = w
    BY DEF HeldFirst
  <2>1. /\ w \in running
        /\ \A i \in 1..Len(bbq) :
             bbq[i][1] = held[w][1] => held[w][2] < bbq[i][2]
        /\ \A v \in Workers : held[v] = held[w] => v = w
    BY <1>0 DEF HeldFirst
  <2>2. ASSUME NEW g \in Handlers, pushing'[g] # Nothing,
               pushing'[g][1] = held[w][1]
        PROVE  held[w][2] < pushing'[g][2]
    <3>1. CASE g = h
      <4>1. pushing'[g] = <<c, n>>
        BY <1>1, <3>1
      <4>2. held[w] \in Elems /\ Asked(held[w]) /\ held[w][1] = c
        BY <1>0, <2>2, <4>1, HeldAsked
      <4> QED BY <1>0, <1>3, <4>1, <4>2
    <3>2. CASE g # h
      BY <1>0, <1>1, <2>2, <3>2 DEF HeldFirst
    <3> QED BY <3>1, <3>2
  <2> QED BY <2>1, <2>2
<1> QED BY <1>4, <1>5, <1>6

LEMMA OrderPush ==
    ASSUME OrderInv, NEW h \in Handlers, Push(h)
    PROVE  QueueOrder' /\ PushLast' /\ HeldFirst'
<1>0. InvType /\ QueueOrder /\ PushLast /\ HeldFirst
  BY DEF OrderInv
<1>1. /\ pushing' = [pushing EXCEPT ![h] = Nothing]
      /\ pushing \in [Handlers -> Elems \cup {Nothing}]
      /\ pushing[h] # Nothing
      /\ UNCHANGED <<running, sent, held>>
      /\ Len(bbq) \in Nat
  BY <1>0 DEF Push, InvType, TypeOK, repl
<1>2. /\ Len(bbq') = Len(bbq) + 1
      /\ \A i \in 1..Len(bbq) : bbq'[i] = bbq[i]
      /\ bbq'[Len(bbq) + 1] = pushing[h]
  BY <1>0, AskedAfterPush
<1>3. ASSUME NEW i \in 1..Len(bbq')
      PROVE  \/ i \in 1..Len(bbq) /\ bbq'[i] = bbq[i]
             \/ i = Len(bbq) + 1 /\ bbq'[i] = pushing[h]
  BY <1>1, <1>2
<1>4. QueueOrder'
  <2> SUFFICES ASSUME NEW i \in 1..Len(bbq'), NEW j \in 1..Len(bbq'),
                      i < j, bbq'[i][1] = bbq'[j][1]
               PROVE  bbq'[i][2] < bbq'[j][2]
    BY DEF QueueOrder
  <2>1. i \in 1..Len(bbq) /\ bbq'[i] = bbq[i]
    BY <1>1, <1>2, <1>3
  <2>2. CASE j \in 1..Len(bbq) /\ bbq'[j] = bbq[j]
    BY <1>0, <2>1, <2>2 DEF QueueOrder
  <2>3. CASE bbq'[j] = pushing[h]
    BY <1>0, <1>1, <2>1, <2>3 DEF PushLast
  <2> QED BY <1>3, <2>2, <2>3
<1>5. PushLast'
  <2> SUFFICES ASSUME NEW g \in Handlers, pushing'[g] # Nothing
               PROVE  /\ pushing'[g][2] = Len(sent[pushing'[g][1]])
                      /\ \A i \in 1..Len(bbq') : bbq'[i][1] = pushing'[g][1]
                           => bbq'[i][2] < pushing'[g][2]
                      /\ \A k \in Handlers :
                           pushing'[k] # Nothing /\ pushing'[k][1] = pushing'[g][1]
                             => k = g
    BY <1>1 DEF PushLast
  <2>1. g # h /\ pushing'[g] = pushing[g] /\ pushing[g] # Nothing
    BY <1>1
  <2>2. pushing[h][1] # pushing[g][1]
    BY <1>0, <1>1, <2>1 DEF PushLast
  <2>3. \A i \in 1..Len(bbq') :
          bbq'[i][1] = pushing[g][1] => bbq'[i][2] < pushing[g][2]
    BY <1>0, <1>3, <2>1, <2>2 DEF PushLast
  <2>4. \A k \in Handlers :
          pushing'[k] # Nothing => pushing'[k] = pushing[k]
    BY <1>1
  <2> QED BY <1>0, <2>1, <2>3, <2>4 DEF PushLast
<1>6. HeldFirst'
  <2> SUFFICES ASSUME NEW w \in Workers, held[w] # Nothing
               PROVE  /\ w \in running
                      /\ \A i \in 1..Len(bbq') :
                           bbq'[i][1] = held[w][1] => held[w][2] < bbq'[i][2]
                      /\ \A g \in Handlers :
                           pushing'[g] # Nothing /\ pushing'[g][1] = held[w][1]
                             => held[w][2] < pushing'[g][2]
                      /\ \A v \in Workers : held[v] = held[w] => v = w
    BY <1>1 DEF HeldFirst
  <2>1. \A i \in 1..Len(bbq') :
          bbq'[i][1] = held[w][1] => held[w][2] < bbq'[i][2]
    BY <1>0, <1>1, <1>3 DEF HeldFirst
  <2>2. \A g \in Handlers : pushing'[g] # Nothing => pushing'[g] = pushing[g]
    BY <1>1
  <2> QED BY <1>0, <2>1, <2>2 DEF HeldFirst
<1> QED BY <1>4, <1>5, <1>6

LEMMA OrderTake ==
    ASSUME OrderInv, NEW w \in Workers, Take(w)
    PROVE  QueueOrder' /\ PushLast' /\ HeldFirst'
<1>0. InvType /\ QueueOrder /\ PushLast /\ HeldFirst
  BY DEF OrderInv
<1>1. /\ held \in [Workers -> Elems \cup {Nothing}]
      /\ w \in running
      /\ UNCHANGED <<running, sent, pushing>>
  BY <1>0 DEF Take, InvType, TypeOK, repl
<1>2. /\ Len(bbq') = Len(bbq) - 1 /\ Len(bbq) \in Nat /\ Len(bbq) >= 1
      /\ \A i \in 1..Len(bbq') : bbq'[i] = bbq[i + 1]
      /\ held' = [held EXCEPT ![w] = bbq[1]]
  BY <1>0, AskedAfterTake
<1>3. \A i \in 1..Len(bbq') :
        bbq'[i] = bbq[i + 1] /\ i + 1 \in 1..Len(bbq) /\ 1 < i + 1
  BY <1>2
<1>4. QueueOrder'
  BY <1>0, <1>3 DEF QueueOrder
<1>5. PushLast'
  BY <1>0, <1>1, <1>3 DEF PushLast
<1>6. HeldFirst'
  <2> SUFFICES ASSUME NEW v \in Workers, held'[v] # Nothing
               PROVE  /\ v \in running
                      /\ \A i \in 1..Len(bbq') :
                           bbq'[i][1] = held'[v][1] => held'[v][2] < bbq'[i][2]
                      /\ \A h \in Handlers :
                           pushing[h] # Nothing /\ pushing[h][1] = held'[v][1]
                             => held'[v][2] < pushing[h][2]
                      /\ \A u \in Workers : held'[u] = held'[v] => u = v
    BY <1>1 DEF HeldFirst
  <2>0. ASSUME NEW u \in Workers, held[u] = bbq[1] PROVE FALSE
    <3>1. 1 \in 1..Len(bbq) /\ bbq[1] # Nothing /\ bbq[1][2] \in Nat
      BY <1>0, <1>2, BbqAsked, ElemParts
    <3>2. held[u][2] < bbq[1][2]
      BY <1>0, <2>0, <3>1 DEF HeldFirst
    <3> QED BY <2>0, <3>1, <3>2
  <2>1. CASE v = w
    <3>1. held'[v] = bbq[1] /\ 1 \in 1..Len(bbq)
      BY <1>1, <1>2, <2>1
    <3>2. \A i \in 1..Len(bbq') :
            bbq'[i][1] = bbq[1][1] => bbq[1][2] < bbq'[i][2]
      BY <1>0, <1>3, <3>1 DEF QueueOrder
    <3>3. \A h \in Handlers :
            pushing[h] # Nothing /\ pushing[h][1] = bbq[1][1]
              => bbq[1][2] < pushing[h][2]
      BY <1>0, <3>1 DEF PushLast
    <3>4. \A u \in Workers : held'[u] = bbq[1] => u = w
      BY <1>1, <1>2, <2>0
    <3> QED BY <1>1, <2>1, <3>1, <3>2, <3>3, <3>4
  <2>2. CASE v # w
    <3>1. held'[v] = held[v]
      BY <1>1, <1>2, <2>2
    <3>2. ASSUME NEW u \in Workers, held'[u] = held'[v] PROVE u = v
      <4>1. u # w
        BY <1>1, <1>2, <2>0, <3>1, <3>2
      <4>2. held[u] = held[v]
        BY <1>1, <1>2, <3>1, <3>2, <4>1
      <4> QED BY <1>0, <3>1, <4>2 DEF HeldFirst
    <3> QED BY <1>0, <1>3, <3>1, <3>2 DEF HeldFirst
  <2> QED BY <2>1, <2>2
<1> QED BY <1>4, <1>5, <1>6

LEMMA OrderDone ==
    ASSUME OrderInv, NEW w \in Workers, held[w] # Nothing, Done(w)
    PROVE  QueueOrder' /\ PushLast' /\ HeldFirst'
<1>0. InvType /\ QueueOrder /\ PushLast /\ HeldFirst
  BY DEF OrderInv
<1>1. /\ held' = [held EXCEPT ![w] = Nothing]
      /\ held \in [Workers -> Elems \cup {Nothing}]
      /\ UNCHANGED <<running, sent, pushing, bbq>>
  BY <1>0 DEF Done, InvType, TypeOK
<1>2. QueueOrder' /\ PushLast'
  BY <1>0, <1>1 DEF QueueOrder, PushLast
<1>3. \A v \in Workers : held'[v] # Nothing => held'[v] = held[v]
  BY <1>1
<1>4. HeldFirst'
  BY <1>0, <1>1, <1>3 DEF HeldFirst
<1> QED BY <1>2, <1>4

LEMMA InitOrder == Init => OrderInv
<1> SUFFICES ASSUME Init PROVE OrderInv
  OBVIOUS
<1>1. \A i \in 1..Len(bbq) : FALSE
  BY DEF Init, NewGrpcRepl
<1>2. /\ \A h \in Handlers : pushing[h] = Nothing
      /\ \A w \in Workers : held[w] = Nothing
  BY DEF Init
<1>3. QueueOrder /\ PushLast /\ HeldFirst
  BY <1>1, <1>2 DEF QueueOrder, PushLast, HeldFirst
<1>4. NewClean
  BY DEF Init, NewGrpcRepl, NewClean
<1> QED BY <1>3, <1>4, InitType DEF OrderInv

LEMMA StepOrder == OrderInv /\ [Next]_vars => OrderInv'
<1> SUFFICES ASSUME OrderInv, [Next]_vars PROVE OrderInv'
  OBVIOUS
<1>0. InvType /\ InvType' /\ TypeOK /\ NewClean
  BY StepType DEF OrderInv, InvType
<1> USE DEF repl
<1>1. CASE UNCHANGED vars
  BY <1>0, <1>1 DEF vars, OrderInv, QueueOrder, PushLast, HeldFirst, NewClean
<1>2. ASSUME NEW h \in Handlers, NEW c \in Streams, Open(h, c)
      PROVE  OrderInv'
  <2>1. "ADD" \in Kinds /\ {} \in SUBSET Patterns /\ Ask(h, c, "ADD", {})
    BY <1>2 DEF Open, Kinds
  <2>2. QueueOrder' /\ PushLast' /\ HeldFirst'
    BY <1>2, <2>1, OrderAsk DEF Open
  <2>3. \A d \in Streams \ {c} : sent'[d] = sent[d]
    BY <1>0, <1>2, <2>1, AskType DEF Open
  <2>4. NewClean'
    BY <1>0, <1>2, <2>3 DEF Open, TypeOK, NewClean
  <2> QED BY <1>0, <2>2, <2>4 DEF OrderInv
<1>3. ASSUME NEW h \in Handlers, NEW c \in Streams, NEW type \in Kinds,
             NEW pats \in SUBSET Patterns, Async(h, c, type, pats)
      PROVE  OrderInv'
  <2>1. Ask(h, c, type, pats)
    BY <1>3 DEF Async
  <2>2. QueueOrder' /\ PushLast' /\ HeldFirst'
    BY <1>3, <2>1, OrderAsk DEF Async
  <2>3. \A d \in Streams \ {c} : sent'[d] = sent[d]
    BY <1>0, <1>3, <2>1, AskType DEF Async
  <2>4. NewClean'
    BY <1>0, <1>3, <2>3 DEF Async, NewClean
  <2> QED BY <1>0, <2>2, <2>4 DEF OrderInv
<1>4. ASSUME NEW h \in Handlers, NEW c \in Streams, Close(h, c)
      PROVE  OrderInv'
  <2>1. QueueOrder' /\ PushLast' /\ HeldFirst'
    BY <1>4 DEF Close, OrderInv, QueueOrder, PushLast, HeldFirst
  <2>2. NewClean'
    BY <1>0, <1>4 DEF Close, TypeOK, NewClean
  <2> QED BY <1>0, <2>1, <2>2 DEF OrderInv
<1>5. ASSUME NEW h \in Handlers, Push(h)
      PROVE  OrderInv'
  <2>1. NewClean'
    BY <1>0, <1>5 DEF Push, NewClean
  <2> QED BY <1>0, <1>5, <2>1, OrderPush DEF OrderInv
<1>6. ASSUME NEW w \in Workers, Take(w)
      PROVE  OrderInv'
  <2>1. NewClean'
    BY <1>0, <1>6 DEF Take, NewClean
  <2> QED BY <1>0, <1>6, <2>1, OrderTake DEF OrderInv
<1>7. ASSUME NEW w \in Workers, Apply(w)
      PROVE  OrderInv'
  <2>1. held[w] # Nothing /\ Done(w)
    BY <1>7 DEF Apply, ApplySub, ApplyUsub, ApplyCons, ApplyAdd, Holds
  <2>2. /\ held[w] \in Elems /\ Asked(held[w])
        /\ UNCHANGED <<stream, sent>>
    BY <1>0, <2>1, AskedAfterDone
  <2>3. ASSUME NEW c \in Streams, stream[c] = "new"
        PROVE  c # held[w][1]
    BY <2>2, <2>3, NewNotAsked
  <2>4. \A c \in Streams, p \in Patterns :
          c # held[w][1] => (<<c, p>> \in rel' <=> <<c, p>> \in rel)
    BY <1>7 DEF Apply, ApplySub, ApplyUsub, ApplyCons, ApplyAdd, Subscribed
  <2>5. \A c \in Streams : c # held[w][1] => (c \in members' <=> c \in members)
    BY <1>7 DEF Apply, ApplySub, ApplyUsub, ApplyCons, ApplyAdd
  <2>6. NewClean'
    BY <1>0, <2>2, <2>3, <2>4, <2>5 DEF NewClean
  <2> QED BY <1>0, <2>1, <2>6, OrderDone DEF OrderInv
<1>8. {"CONS", "SUB", "USUB"} \subseteq Kinds /\ {} \in SUBSET Patterns
  BY DEF Kinds
<1> QED
  BY <1>1, <1>2, <1>3, <1>4, <1>5, <1>6, <1>7, <1>8 DEF Next, Kinds

-----------------------------------------------------------------------------
(* Steps that change neither what was made nor what is pending.            *)
LEMMA OrderlyKept ==
    ASSUME OrderInv, AskedUp /\ Known /\ RelSettled,
           UNCHANGED <<sent, stream, members, rel, overtaken>>,
           \A e \in Elems : Asked(e)' <=> Asked(e)
    PROVE  AskedUp' /\ Known' /\ RelSettled'
<1>0. InvType
  BY DEF OrderInv
<1>1. AskedUp'
  <2> SUFFICES ASSUME NEW e \in Elems, Asked(e)', e[1] \notin overtaken,
                      NEW n \in e[2]..Len(sent[e[1]])
               PROVE  Asked(<<e[1], n>>)'
    BY DEF AskedUp
  <2>1. Asked(<<e[1], n>>)
    BY DEF AskedUp
  <2>2. e[1] \in Streams /\ e[2] \in 1..MaxRequests
    BY ElemParts
  <2>3. n \in 1..Len(sent[e[1]])
    BY <2>2
  <2>4. <<e[1], n>> \in Elems
    BY <1>0, <2>2, <2>3, SentLen
  <2> QED BY <2>1, <2>4
<1>2. \A c \in Streams : \A n \in 1..Len(sent[c]) :
        Asked(<<c, n>>)' <=> Asked(<<c, n>>)
  BY <1>0, SentLen
<1>3. Known'
  <2> SUFFICES ASSUME NEW c \in Streams \ overtaken, stream[c] = "open"
               PROVE  /\ Len(sent[c]) >= 1 /\ sent[c][1].type = "ADD"
                      /\ c \in members <=> ~Asked(<<c, 1>>)'
    BY DEF Known
  <2>1. Len(sent[c]) >= 1 /\ Len(sent[c]) \in Nat
    BY <1>0, SentLen DEF Known
  <2>2. Asked(<<c, 1>>)' <=> Asked(<<c, 1>>)
    BY <1>2, <2>1
  <2> QED BY <2>1, <2>2 DEF Known
<1>4. \A c \in Streams, p \in Patterns : Settled(c, p)' <=> Settled(c, p)
  <2> SUFFICES ASSUME NEW c \in Streams, NEW p \in Patterns
               PROVE  Settled(c, p)' <=> Settled(c, p)
    OBVIOUS
  <2>1. Len(sent[c]) \in Nat
    BY <1>0, SentLen
  <2>2. \A i \in 1..Len(sent[c]) : \A j \in i..Len(sent[c]) :
          j \in 1..Len(sent[c])
    BY <2>1
  <2> QED BY <1>2, <2>2 DEF Settled, Wants, Leaves
<1>5. RelSettled'
  BY <1>4 DEF RelSettled
<1> QED BY <1>1, <1>3, <1>5

(* A new request changes nothing about those made before.                  *)
LEMMA PendingAfterAsk ==
    ASSUME OrderInv, NEW h \in Handlers, NEW c \in Streams,
           NEW type \in Kinds, NEW pats \in SUBSET Patterns, Free(h, c),
           Ask(h, c, type, pats), UNCHANGED <<bbq, held, overtaken>>,
           NEW n \in Nat, n = Len(sent[c]) + 1
    PROVE  /\ \A d \in Streams : \A i \in 1..Len(sent[d]) :
                /\ Asked(<<d, i>>)' <=> Asked(<<d, i>>)
                /\ sent'[d][i] = sent[d][i]
           /\ Asked(<<c, n>>)'
           /\ AskedUp => AskedUp'
           /\ \A d \in Streams, p \in Patterns : Settled(d, p)' <=> Settled(d, p)
<1>0. InvType /\ pushing[h] = Nothing /\ Len(sent[c]) \in Nat /\ n \in Nat
  BY SentLen DEF OrderInv, Free
<1>1. <<c, n>> \in Elems /\ <<c, n>>[1] = c /\ <<c, n>>[2] = n
  BY <1>0, NextFits, ElemPair DEF Ask
<1>2. \A e \in Elems : Asked(e)' <=> Asked(e) \/ e = <<c, n>>
  BY <1>0, AskedAfterAsk
<1>3. /\ Len(sent'[c]) = n
      /\ \A i \in 1..Len(sent[c]) : sent'[c][i] = sent[c][i]
      /\ \A d \in Streams \ {c} : sent'[d] = sent[d]
  BY <1>0, AskType
<1>4. ASSUME NEW d \in Streams, NEW i \in 1..Len(sent[d])
      PROVE  /\ Asked(<<d, i>>)' <=> Asked(<<d, i>>)
             /\ sent'[d][i] = sent[d][i]
  <2>1. <<d, i>> \in Elems /\ i \in Nat
    BY <1>0, SentLen
  <2>2. <<d, i>> # <<c, n>>
    BY <1>0
  <2> QED BY <1>2, <1>3, <2>1, <2>2
<1>5. Asked(<<c, n>>)'
  BY <1>1, <1>2
<1>6. ASSUME NEW d \in Streams, NEW i \in 1..Len(sent'[d])
      PROVE  i \in 1..Len(sent[d]) \/ (d = c /\ i = n)
  BY <1>0, <1>3
<1>7. ASSUME AskedUp PROVE AskedUp'
  <2> SUFFICES ASSUME NEW e \in Elems, Asked(e)', e[1] \notin overtaken,
                      NEW m \in e[2]..Len(sent'[e[1]])
               PROVE  Asked(<<e[1], m>>)'
    BY DEF AskedUp
  <2>1. e[1] \in Streams /\ e[2] \in 1..MaxRequests /\ Len(sent[e[1]]) \in Nat
    BY <1>0, ElemParts, SentLen
  <2>2. m \in 1..Len(sent'[e[1]])
    BY <2>1
  <2>3. CASE e[1] = c /\ m = n
    BY <2>3, <1>5
  <2>4. CASE m \in 1..Len(sent[e[1]])
    <3>1. e # <<c, n>>
      BY <1>0, <2>1, <2>4
    <3>2. Asked(e) /\ m \in e[2]..Len(sent[e[1]])
      BY <1>2, <2>1, <2>4, <3>1
    <3>3. Asked(<<e[1], m>>)
      BY <1>7, <3>2 DEF AskedUp
    <3> QED BY <1>4, <2>1, <2>4, <3>3
  <2> QED BY <1>6, <2>1, <2>2, <2>3, <2>4
<1>8. ASSUME NEW d \in Streams, NEW p \in Patterns
      PROVE  Settled(d, p)' <=> Settled(d, p)
  <2>0. Len(sent[d]) \in Nat /\ Len(sent'[d]) \in Nat
    BY <1>0, <1>3, SentLen
  <2>a. \A i \in 1..Len(sent[d]) :
          /\ Wants(d, p, i)' <=> Wants(d, p, i)
          /\ Leaves(d, p, i)' <=> Leaves(d, p, i)
    BY <1>4 DEF Wants, Leaves
  <2>b. \A i \in 1..Len(sent[d]) : i \in 1..Len(sent'[d])
    BY <1>0, <1>3, <2>0
  <2>1. ASSUME Settled(d, p) PROVE Settled(d, p)'
    <3>1. PICK i \in 1..Len(sent[d]) :
            /\ ~Asked(<<d, i>>) /\ Wants(d, p, i)
            /\ \A j \in i..Len(sent[d]) : Leaves(d, p, j) => Asked(<<d, j>>)
      BY <2>1 DEF Settled
    <3>2. ~Asked(<<d, i>>)' /\ Wants(d, p, i)'
      BY <3>1, <1>4, <2>a
    <3>3. ASSUME NEW j \in i..Len(sent'[d]), Leaves(d, p, j)'
          PROVE  Asked(<<d, j>>)'
      <4>1. j \in 1..Len(sent'[d])
        BY <2>0
      <4>2. CASE d = c /\ j = n
        BY <4>2, <1>5
      <4>3. CASE j \in 1..Len(sent[d])
        <5>1. j \in i..Len(sent[d])
          BY <4>3, <2>0
        <5> QED BY <3>1, <3>3, <4>3, <5>1, <1>4, <2>a
      <4> QED BY <4>1, <4>2, <4>3, <1>6
    <3> QED BY <2>b, <3>2, <3>3 DEF Settled
  <2>2. ASSUME Settled(d, p)' PROVE Settled(d, p)
    <3>1. PICK i \in 1..Len(sent'[d]) :
            /\ ~Asked(<<d, i>>)' /\ Wants(d, p, i)'
            /\ \A j \in i..Len(sent'[d]) : Leaves(d, p, j)' => Asked(<<d, j>>)'
      BY <2>2 DEF Settled
    <3>2. i \in 1..Len(sent[d])
      BY <3>1, <1>5, <1>6
    <3>3. ~Asked(<<d, i>>) /\ Wants(d, p, i)
      BY <3>1, <3>2, <1>4, <2>a
    <3>4. ASSUME NEW j \in i..Len(sent[d]), Leaves(d, p, j)
          PROVE  Asked(<<d, j>>)
      <4>1. j \in 1..Len(sent[d])
        BY <2>0
      <4>2. j \in i..Len(sent'[d])
        BY <4>1, <2>b, <2>0
      <4> QED BY <3>1, <3>4, <4>1, <4>2, <1>4, <2>a
    <3> QED BY <3>2, <3>3, <3>4 DEF Settled
  <2> QED BY <2>1, <2>2
<1> QED BY <1>4, <1>5, <1>7, <1>8

LEMMA OrderlyOpen ==
    ASSUME OrderInv, AskedUp /\ Known /\ RelSettled,
           NEW h \in Handlers, NEW c \in Streams, Open(h, c)
    PROVE  AskedUp' /\ Known' /\ RelSettled'
<1>0. /\ InvType /\ NewClean /\ Free(h, c) /\ stream[c] = "new"
      /\ UNCHANGED <<bbq, held, members, rel, overtaken>>
      /\ stream' = [stream EXCEPT ![c] = "open"]
      /\ stream \in [Streams -> {"new", "open", "closed"}]
  BY DEF OrderInv, Open, repl, InvType, TypeOK
<1>1. "ADD" \in Kinds /\ {} \in SUBSET Patterns /\ Ask(h, c, "ADD", {})
  BY DEF Open, Kinds
<1>2. sent[c] = << >> /\ Len(sent[c]) = 0 /\ c \notin members
      /\ \A p \in Patterns : <<c, p>> \notin rel
  BY <1>0 DEF NewClean
<1>3. /\ \A d \in Streams : \A i \in 1..Len(sent[d]) :
           /\ Asked(<<d, i>>)' <=> Asked(<<d, i>>)
           /\ sent'[d][i] = sent[d][i]
      /\ Asked(<<c, 1>>)'
      /\ AskedUp'
      /\ \A d \in Streams, p \in Patterns : Settled(d, p)' <=> Settled(d, p)
  <2>1. 1 \in Nat /\ 1 = Len(sent[c]) + 1
    BY <1>2
  <2> QED BY <1>0, <1>1, <2>1, PendingAfterAsk
<1>4. /\ Len(sent'[c]) = 1 /\ sent'[c][1].type = "ADD"
      /\ \A d \in Streams \ {c} : sent'[d] = sent[d]
  <2>1. /\ Len(sent'[c]) = Len(sent[c]) + 1
        /\ sent'[c][Len(sent[c]) + 1] = [type |-> "ADD", pats |-> {}]
        /\ \A d \in Streams \ {c} : sent'[d] = sent[d]
    <3>0. InvType
      BY <1>0
    <3>1. PICK type \in Kinds, pats \in SUBSET Patterns :
            type = "ADD" /\ pats = {} /\ Ask(h, c, type, pats)
      BY <1>1
    <3>2. sent'[c][Len(sent[c]) + 1] = [type |-> type, pats |-> pats]
      BY <3>0, <3>1, AskType, ZenonT(30)
    <3>3. /\ Len(sent'[c]) = Len(sent[c]) + 1
          /\ \A d \in Streams \ {c} : sent'[d] = sent[d]
      BY <3>0, <3>1, AskType
    <3> QED BY <3>1, <3>2, <3>3
  <2>2. Len(sent[c]) + 1 = 1
    BY <1>2
  <2>3. sent'[c][1] = [type |-> "ADD", pats |-> {}]
    BY <2>1, <2>2
  <2> QED BY <2>1, <2>2, <2>3
<1>5. Known'
  <2> SUFFICES ASSUME NEW d \in Streams \ overtaken, stream'[d] = "open"
               PROVE  /\ Len(sent'[d]) >= 1 /\ sent'[d][1].type = "ADD"
                      /\ d \in members' <=> ~Asked(<<d, 1>>)'
    BY <1>0 DEF Known
  <2>1. CASE d = c
    BY <1>0, <1>2, <1>3, <1>4, <2>1
  <2>2. CASE d # c
    <3>1. stream[d] = "open" /\ sent'[d] = sent[d]
      BY <1>0, <1>4, <2>2
    <3>2. 1 \in 1..Len(sent[d])
      <4>1. Len(sent[d]) >= 1
        BY <3>1 DEF Known
      <4> QED BY <1>0, <4>1, SentLen
    <3> QED BY <1>0, <1>3, <3>1, <3>2 DEF Known
  <2> QED BY <2>1, <2>2
<1>6. RelSettled'
  <2> SUFFICES ASSUME NEW d \in Streams \ overtaken, NEW p \in Patterns,
                      stream'[d] = "open"
               PROVE  <<d, p>> \in rel <=> Settled(d, p)
    BY <1>0, <1>3 DEF RelSettled
  <2>1. CASE d = c
    <3>1. \A i \in 1..Len(sent[c]) : FALSE
      BY <1>2
    <3> QED BY <1>2, <2>1, <3>1 DEF Settled
  <2>2. CASE d # c
    BY <1>0, <2>2 DEF RelSettled
  <2> QED BY <2>1, <2>2
<1> QED BY <1>3, <1>5, <1>6

LEMMA OrderlyAsync ==
    ASSUME OrderInv, AskedUp /\ Known /\ RelSettled,
           NEW h \in Handlers, NEW c \in Streams, NEW type \in Kinds,
           NEW pats \in SUBSET Patterns, Async(h, c, type, pats)
    PROVE  AskedUp' /\ Known' /\ RelSettled'
<1>0. /\ InvType /\ Free(h, c) /\ Ask(h, c, type, pats)
      /\ UNCHANGED <<bbq, held, members, rel, overtaken, stream>>
  BY DEF OrderInv, Async, repl
<1>1. /\ \A d \in Streams : \A i \in 1..Len(sent[d]) :
           /\ Asked(<<d, i>>)' <=> Asked(<<d, i>>)
           /\ sent'[d][i] = sent[d][i]
      /\ AskedUp'
      /\ \A d \in Streams, p \in Patterns : Settled(d, p)' <=> Settled(d, p)
  <2>1. PICK n \in Nat : n = Len(sent[c]) + 1
    BY <1>0, SentLen
  <2> QED BY <1>0, <2>1, PendingAfterAsk
<1>2. /\ Len(sent'[c]) = Len(sent[c]) + 1
      /\ \A d \in Streams \ {c} : sent'[d] = sent[d]
  BY <1>0, AskType
<1>3. Known'
  <2> SUFFICES ASSUME NEW d \in Streams \ overtaken, stream[d] = "open"
               PROVE  /\ Len(sent'[d]) >= 1 /\ sent'[d][1].type = "ADD"
                      /\ d \in members <=> ~Asked(<<d, 1>>)'
    BY <1>0 DEF Known
  <2>0. Len(sent[d]) >= 1
    BY DEF Known
  <2>1. Len(sent[d]) \in Nat /\ 1 \in 1..Len(sent[d])
    BY <1>0, <2>0, SentLen
  <2>2. Len(sent'[d]) >= 1
    BY <1>2, <2>1
  <2> QED BY <1>1, <2>1, <2>2 DEF Known
<1>4. RelSettled'
  BY <1>0, <1>1 DEF RelSettled
<1> QED BY <1>1, <1>3, <1>4

LEMMA OrderlyClose ==
    ASSUME OrderInv, AskedUp /\ Known /\ RelSettled,
           NEW h \in Handlers, NEW c \in Streams, Close(h, c)
    PROVE  AskedUp' /\ Known' /\ RelSettled'
<1>0. /\ stream' = [stream EXCEPT ![c] = "closed"]
      /\ stream \in [Streams -> {"new", "open", "closed"}]
      /\ members' = members \ {c}
      /\ rel' = {s \in rel : s[1] # c}
      /\ UNCHANGED <<sent, pushing, bbq, held, overtaken>>
  BY DEF Close, OrderInv, InvType, TypeOK
<1>1. AskedUp'
  BY <1>0 DEF AskedUp, Asked
<1>2. \A d \in Streams : stream'[d] = "open" => d # c /\ stream[d] = "open"
  BY <1>0
<1>3. Known'
  BY <1>0, <1>2 DEF Known, Asked
<1>4. \A d \in Streams, p \in Patterns : Settled(d, p)' <=> Settled(d, p)
  BY <1>0 DEF Settled, Wants, Leaves, Asked
<1>5. \A d \in Streams, p \in Patterns :
        d # c => (<<d, p>> \in rel' <=> <<d, p>> \in rel)
  BY <1>0
<1>6. RelSettled'
  BY <1>0, <1>2, <1>4, <1>5 DEF RelSettled
<1> QED BY <1>1, <1>3, <1>6

(* A worker is done with the oldest request of the stream that was         *)
(* pending, unless that one overtakes another.                             *)
LEMMA OldestDone ==
    ASSUME OrderInv, AskedUp,
           NEW w \in Workers, held[w] # Nothing, Done(w)
    PROVE  /\ \A e \in Elems : Asked(e)' <=> Asked(e) /\ e # held[w]
           /\ \A e \in Elems :
                Asked(e) /\ e[1] = held[w][1] /\ e[1] \notin overtaken'
                  => held[w][2] <= e[2]
           /\ overtaken \subseteq overtaken'
           /\ AskedUp'
<1>0. InvType /\ HeldFirst /\ held \in [Workers -> Elems \cup {Nothing}]
  BY DEF OrderInv, InvType, TypeOK
<1>1. /\ held[w] \in Elems /\ Asked(held[w])
      /\ held' = [held EXCEPT ![w] = Nothing]
      /\ UNCHANGED <<running, stream, sent, pushing, bbq>>
      /\ \A e \in Elems : Asked(e)' => Asked(e)
      /\ \A e \in Elems : Asked(e) /\ e # held[w] => Asked(e)'
  BY <1>0, AskedAfterDone
<1>2. /\ overtaken \subseteq overtaken'
      /\ held[w][1] \notin overtaken' => ~Overtakes(w)
  BY DEF Done, NoteOrder
<1>3. held[w][2] \in Nat /\ held[w] = <<held[w][1], held[w][2]>>
  BY <1>1, ElemParts
<1>4. ASSUME NEW e \in Elems, Asked(e), e[1] = held[w][1], e[1] \notin overtaken'
      PROVE  held[w][2] <= e[2] /\ (held[w][2] < e[2] \/ e = held[w])
  <2>1. e # Nothing /\ e[2] \in Nat /\ e = <<e[1], e[2]>>
    BY ElemParts
  <2>2. CASE \E h \in Handlers : pushing[h] = e
    BY <1>0, <1>3, <1>4, <2>1, <2>2 DEF HeldFirst
  <2>3. CASE \E i \in 1..Len(bbq) : bbq[i] = e
    BY <1>0, <1>3, <1>4, <2>1, <2>3 DEF HeldFirst
  <2>4. CASE \E v \in Workers : held[v] = e
    <3>1. ~(e[2] < held[w][2])
      BY <1>2, <1>4, <2>1, <2>4 DEF Overtakes
    <3>2. e[2] = held[w][2] => e = held[w]
      BY <1>3, <1>4, <2>1
    <3> QED BY <1>3, <2>1, <3>1, <3>2
  <2> QED BY <1>4, <2>2, <2>3, <2>4 DEF Asked
<1>5. ASSUME NEW e \in Elems, e = held[w] PROVE ~Asked(e)'
  <2>1. \A h \in Handlers : pushing[h] # held[w]
    <3> SUFFICES ASSUME NEW h \in Handlers, pushing[h] = held[w] PROVE FALSE
      OBVIOUS
    <3>1. held[w][2] < held[w][2]
      BY <1>0 DEF HeldFirst
    <3> QED BY <1>3, <3>1
  <2>2. \A i \in 1..Len(bbq) : bbq[i] # held[w]
    <3> SUFFICES ASSUME NEW i \in 1..Len(bbq), bbq[i] = held[w] PROVE FALSE
      OBVIOUS
    <3>1. held[w][2] < held[w][2]
      BY <1>0 DEF HeldFirst
    <3> QED BY <1>3, <3>1
  <2>4. e # Nothing
    BY ElemParts
  <2>3. ASSUME NEW v \in Workers, held'[v] = held[w] PROVE FALSE
    <3>1. v # w
      BY <1>0, <1>1, <1>5, <2>3, <2>4
    <3>2. held[v] = held[w]
      BY <1>0, <1>1, <2>3, <3>1
    <3> QED BY <1>0, <3>1, <3>2 DEF HeldFirst
  <2> QED BY <1>1, <1>5, <2>1, <2>2, <2>3, <2>4 DEF Asked
<1>6. \A e \in Elems : Asked(e)' <=> Asked(e) /\ e # held[w]
  BY <1>1, <1>5
<1>7. AskedUp'
  <2> SUFFICES ASSUME NEW e \in Elems, Asked(e)', e[1] \notin overtaken',
                      NEW n \in e[2]..Len(sent[e[1]])
               PROVE  Asked(<<e[1], n>>)'
    BY <1>1 DEF AskedUp
  <2>1. e[1] \in Streams /\ e[2] \in 1..MaxRequests /\ e[2] \in Nat
    BY ElemParts
  <2>2. Asked(e) /\ e # held[w]
    BY <1>6
  <2>3. Asked(<<e[1], n>>)
    BY <1>2, <2>2 DEF AskedUp
  <2>4. n \in 1..Len(sent[e[1]])
    BY <2>1
  <2>5. <<e[1], n>> \in Elems /\ <<e[1], n>>[1] = e[1] /\ <<e[1], n>>[2] = n
        /\ n \in Nat
    BY <1>0, <2>1, <2>4, SentLen, ElemPair
  <2>6. <<e[1], n>> # held[w]
    <3>1. CASE e[1] = held[w][1]
      <4>1. held[w][2] < e[2]
        BY <1>4, <2>2, <3>1
      <4> QED BY <1>3, <2>1, <2>5, <4>1
    <3>2. CASE e[1] # held[w][1]
      BY <2>5, <3>2
    <3> QED BY <3>1, <3>2
  <2> QED BY <1>6, <2>3, <2>5, <2>6
<1> QED BY <1>2, <1>4, <1>6, <1>7

(* Before the k-th request of c nothing of c is pending, behind it all is. *)
LEMMA AroundOldest ==
    ASSUME OrderInv, AskedUp,
           NEW w \in Workers, held[w] # Nothing, Done(w),
           NEW c \in Streams, NEW k \in Nat, held[w] = <<c, k>>
    PROVE  /\ k \in 1..Len(sent[c]) /\ Asked(<<c, k>>) /\ ~Asked(<<c, k>>)'
           /\ \A i \in 1..Len(sent[c]) : i < k /\ c \notin overtaken' =>
                ~Asked(<<c, i>>) /\ ~Asked(<<c, i>>)'
           /\ \A i \in 1..Len(sent[c]) : k < i /\ c \notin overtaken' =>
                Asked(<<c, i>>) /\ Asked(<<c, i>>)'
           /\ \A d \in Streams \ {c} : \A i \in 1..Len(sent[d]) :
                Asked(<<d, i>>)' <=> Asked(<<d, i>>)
<1>0. InvType
  BY DEF OrderInv
<1>1. /\ \A e \in Elems : Asked(e)' <=> Asked(e) /\ e # <<c, k>>
      /\ \A e \in Elems :
           Asked(e) /\ e[1] = c /\ c \notin overtaken' => k <= e[2]
      /\ overtaken \subseteq overtaken'
  BY OldestDone
<1>2. <<c, k>> \in Elems /\ Asked(<<c, k>>) /\ k \in 1..Len(sent[c])
  <2>1. held[w] \in Elems /\ Asked(held[w])
    BY <1>0, HeldAsked
  <2>2. held[w][2] \in 1..Len(sent[held[w][1]])
    BY <1>0, <2>1, AskedParts
  <2> QED BY <2>1, <2>2
<1>3. \A d \in Streams : \A i \in 1..Len(sent[d]) :
        /\ <<d, i>> \in Elems /\ i \in Nat
        /\ <<d, i>>[1] = d /\ <<d, i>>[2] = i
  BY <1>0, SentLen
<1>4. ASSUME NEW i \in 1..Len(sent[c]), i < k, c \notin overtaken'
      PROVE  ~Asked(<<c, i>>) /\ ~Asked(<<c, i>>)'
  <2>1. ~(k <= i)
    BY <1>3, <1>4
  <2> QED BY <1>1, <1>3, <1>4, <2>1
<1>5. ASSUME NEW i \in 1..Len(sent[c]), k < i, c \notin overtaken'
      PROVE  Asked(<<c, i>>) /\ Asked(<<c, i>>)'
  <2>1. i \in k..Len(sent[c]) /\ i # k
    BY <1>0, <1>2, <1>3, <1>5, SentLen
  <2>2. Asked(<<c, i>>)
    BY <1>1, <1>2, <1>5, <2>1 DEF AskedUp
  <2>3. <<c, i>> # <<c, k>>
    BY <2>1
  <2> QED BY <1>1, <1>3, <2>2, <2>3
<1>6. ASSUME NEW d \in Streams \ {c}, NEW i \in 1..Len(sent[d])
      PROVE  Asked(<<d, i>>)' <=> Asked(<<d, i>>)
  <2>1. <<d, i>> # <<c, k>>
    OBVIOUS
  <2> QED BY <1>1, <1>3, <2>1
<1>7. ~Asked(<<c, k>>)'
  BY <1>1, <1>2
<1> QED BY <1>2, <1>4, <1>5, <1>6, <1>7

(* What an applied request does to the subscription of c to p that the     *)
(* requests applied so far say.                                            *)
LEMMA SettledAfter ==
    ASSUME OrderInv, AskedUp,
           NEW w \in Workers, held[w] # Nothing, Done(w),
           NEW c \in Streams, NEW k \in Nat, held[w] = <<c, k>>,
           NEW p \in Patterns
    PROVE  /\ \A d \in Streams \ {c} : Settled(d, p)' <=> Settled(d, p)
           /\ c \notin overtaken' =>
                /\ Wants(c, p, k) => Settled(c, p)'
                /\ Leaves(c, p, k) => ~Settled(c, p)'
                /\ ~Wants(c, p, k) /\ ~Leaves(c, p, k)
                     => (Settled(c, p)' <=> Settled(c, p))
<1>0. InvType /\ UNCHANGED sent
  BY DEF OrderInv, Done
<1>1. /\ k \in 1..Len(sent[c]) /\ Asked(<<c, k>>) /\ ~Asked(<<c, k>>)'
      /\ \A i \in 1..Len(sent[c]) : i < k /\ c \notin overtaken' =>
           ~Asked(<<c, i>>) /\ ~Asked(<<c, i>>)'
      /\ \A i \in 1..Len(sent[c]) : k < i /\ c \notin overtaken' =>
           Asked(<<c, i>>) /\ Asked(<<c, i>>)'
      /\ \A d \in Streams \ {c} : \A i \in 1..Len(sent[d]) :
           Asked(<<d, i>>)' <=> Asked(<<d, i>>)
  BY AroundOldest
<1>2. \A d \in Streams : \A i \in 1..Len(sent[d]) :
        /\ Wants(d, p, i)' <=> Wants(d, p, i)
        /\ Leaves(d, p, i)' <=> Leaves(d, p, i)
        /\ i \in Nat
        /\ \A j \in i..Len(sent[d]) : j \in 1..Len(sent[d]) /\ j >= i
  <2>1. \A d \in Streams : \A i \in 1..Len(sent[d]) :
          i \in Nat /\ \A j \in i..Len(sent[d]) : j \in 1..Len(sent[d]) /\ j >= i
    <3> SUFFICES ASSUME NEW d \in Streams, NEW i \in 1..Len(sent[d])
                 PROVE  i \in Nat /\ \A j \in i..Len(sent[d]) :
                                        j \in 1..Len(sent[d]) /\ j >= i
      OBVIOUS
    <3>1. Len(sent[d]) \in Nat
      BY <1>0, SentLen
    <3> QED BY <3>1
  <2> QED BY <1>0, <2>1 DEF Wants, Leaves
<1>3. \A d \in Streams \ {c} : Settled(d, p)' <=> Settled(d, p)
  BY <1>0, <1>1, <1>2 DEF Settled
<1>4. ~(Wants(c, p, k) /\ Leaves(c, p, k))
  BY DEF Wants, Leaves
<1>5. ASSUME c \notin overtaken', Wants(c, p, k) PROVE Settled(c, p)'
  <2>1. \A j \in k..Len(sent[c]) : Leaves(c, p, j)' => Asked(<<c, j>>)'
    <3> SUFFICES ASSUME NEW j \in k..Len(sent[c]), Leaves(c, p, j)'
                 PROVE  Asked(<<c, j>>)'
      OBVIOUS
    <3>1. j \in 1..Len(sent[c]) /\ j >= k /\ j \in Nat
      BY <1>1, <1>2
    <3>2. j # k
      BY <1>1, <1>2, <1>4, <1>5
    <3>3. k < j
      BY <3>1, <3>2
    <3> QED BY <1>1, <1>5, <3>1, <3>3
  <2> QED BY <1>0, <1>1, <1>2, <1>5, <2>1 DEF Settled
<1>6. ASSUME c \notin overtaken', Leaves(c, p, k), Settled(c, p)' PROVE FALSE
  <2>1. PICK i \in 1..Len(sent[c]) :
          /\ ~Asked(<<c, i>>)' /\ Wants(c, p, i)
          /\ \A j \in i..Len(sent[c]) : Leaves(c, p, j) => Asked(<<c, j>>)'
    BY <1>0, <1>2, <1>6 DEF Settled
  <2>2. i \in Nat /\ ~(k < i)
    BY <1>1, <1>2, <1>6, <2>1
  <2>3. k \in i..Len(sent[c])
    BY <1>1, <2>2
  <2> QED BY <1>1, <1>6, <2>1, <2>3
<1>7. ASSUME c \notin overtaken', ~Wants(c, p, k), ~Leaves(c, p, k)
      PROVE  Settled(c, p)' <=> Settled(c, p)
  <2>1. ASSUME NEW i \in 1..Len(sent[c]), i # k
        PROVE  Asked(<<c, i>>)' <=> Asked(<<c, i>>)
    <3>1. i < k \/ k < i
      BY <1>2, <2>1
    <3> QED BY <1>1, <1>7, <3>1
  <2>2. ASSUME NEW i \in 1..Len(sent[c]), Wants(c, p, i)
        PROVE  Asked(<<c, i>>)' <=> Asked(<<c, i>>)
    BY <1>7, <2>1, <2>2
  <2>3. ASSUME NEW i \in 1..Len(sent[c]), Leaves(c, p, i)
        PROVE  Asked(<<c, i>>)' <=> Asked(<<c, i>>)
    BY <1>7, <2>1, <2>3
  <2> QED BY <1>0, <1>2, <2>2, <2>3 DEF Settled
<1> QED BY <1>3, <1>5, <1>6, <1>7

LEMMA OrderlyApply ==
    ASSUME OrderInv, AskedUp /\ Known /\ RelSettled,
           NEW w \in Workers, Apply(w)
    PROVE  AskedUp' /\ Known' /\ RelSettled'
<1>0. InvType /\ held[w] # Nothing /\ Done(w) /\ UNCHANGED <<stream, sent>>
  BY DEF OrderInv, Apply, ApplySub, ApplyUsub, ApplyCons, ApplyAdd, Holds, Done
<1>1. PICK c \in Streams, k \in Nat : held[w] = <<c, k>>
  <2>1. held[w] \in Elems
    BY <1>0, HeldAsked
  <2> QED BY <2>1, ElemParts
<1>2. held[w][1] = c /\ Request(held[w]) = sent[c][k]
  BY <1>1 DEF Request
<1>3. /\ k \in 1..Len(sent[c]) /\ Asked(<<c, k>>) /\ ~Asked(<<c, k>>)'
      /\ \A i \in 1..Len(sent[c]) : i < k /\ c \notin overtaken' =>
           ~Asked(<<c, i>>) /\ ~Asked(<<c, i>>)'
      /\ \A d \in Streams \ {c} : \A i \in 1..Len(sent[d]) :
           Asked(<<d, i>>)' <=> Asked(<<d, i>>)
  BY <1>0, <1>1, AroundOldest
<1>4. /\ \A d \in Streams \ {c} : d \in members' <=> d \in members
      /\ \A d \in Streams \ {c}, p \in Patterns :
           <<d, p>> \in rel' <=> <<d, p>> \in rel
      /\ sent[c][k].type = "ADD" => c \in members'
      /\ sent[c][k].type # "ADD" => members' = members
  BY <1>2 DEF Apply, ApplySub, ApplyUsub, ApplyCons, ApplyAdd, Holds, Subscribed
<1>5. AskedUp' /\ overtaken \subseteq overtaken'
  BY <1>0, OldestDone
<1>6. \A d \in Streams \ overtaken : stream[d] = "open" => 1 \in 1..Len(sent[d])
  <2>1. \A d \in Streams \ overtaken : stream[d] = "open" => Len(sent[d]) >= 1
    BY DEF Known
  <2> QED BY <1>0, <2>1, SentLen
<1>7. ASSUME c \notin overtaken', stream[c] = "open", k # 1
      PROVE  c \in members /\ ~Asked(<<c, 1>>)'
  <2>1. 1 \in 1..Len(sent[c]) /\ 1 < k
    BY <1>3, <1>5, <1>6, <1>7
  <2> QED BY <1>3, <1>5, <1>7, <2>1 DEF Known
<1>8. Known'
  <2> SUFFICES ASSUME NEW d \in Streams \ overtaken', stream[d] = "open"
               PROVE  /\ Len(sent[d]) >= 1 /\ sent[d][1].type = "ADD"
                      /\ d \in members' <=> ~Asked(<<d, 1>>)'
    BY <1>0 DEF Known
  <2>1. Len(sent[d]) >= 1 /\ sent[d][1].type = "ADD" /\ d \in Streams \ overtaken
    BY <1>5 DEF Known
  <2>2. CASE d # c
    BY <1>3, <1>4, <1>6, <2>1, <2>2 DEF Known
  <2>3. CASE d = c /\ k = 1
    BY <1>3, <1>4, <2>1, <2>3
  <2>4. CASE d = c /\ k # 1
    BY <1>4, <1>7, <2>1, <2>4
  <2> QED BY <2>1, <2>2, <2>3, <2>4
<1>9. RelSettled'
  <2> SUFFICES ASSUME NEW d \in Streams \ overtaken', NEW p \in Patterns,
                      stream[d] = "open"
               PROVE  <<d, p>> \in rel' <=> Settled(d, p)'
    BY <1>0 DEF RelSettled
  <2>0. /\ \A e \in Streams \ {c} : Settled(e, p)' <=> Settled(e, p)
        /\ c \notin overtaken' =>
             /\ Wants(c, p, k) => Settled(c, p)'
             /\ Leaves(c, p, k) => ~Settled(c, p)'
             /\ ~Wants(c, p, k) /\ ~Leaves(c, p, k)
                  => (Settled(c, p)' <=> Settled(c, p))
    BY <1>0, <1>1, SettledAfter
  <2>1. d \notin overtaken /\ (<<d, p>> \in rel <=> Settled(d, p))
    BY <1>5 DEF RelSettled
  <2>2. CASE d # c
    BY <1>4, <2>0, <2>1, <2>2
  <2>3. CASE d = c
    <3>1. CASE ApplySub(w)
      <4>1. sent[c][k].type = "SUB"
        BY <1>2, <3>1 DEF ApplySub, Holds
      <4>2. k # 1
        BY <2>1, <2>3, <4>1 DEF Known
      <4>3. rel' = rel \cup ({c} \X sent[c][k].pats)
        BY <1>2, <1>7, <2>3, <3>1, <4>2 DEF ApplySub, Subscribed
      <4>4. CASE p \in sent[c][k].pats
        BY <2>0, <2>3, <4>1, <4>3, <4>4 DEF Wants
      <4>5. CASE p \notin sent[c][k].pats
        BY <2>0, <2>1, <2>3, <4>3, <4>5 DEF Wants, Leaves
      <4> QED BY <4>4, <4>5
    <3>2. CASE ApplyUsub(w)
      <4>1. sent[c][k].type = "USUB" /\ rel' = rel \ ({c} \X sent[c][k].pats)
        BY <1>2, <3>2 DEF ApplyUsub, Holds
      <4>2. CASE p \in sent[c][k].pats
        BY <2>0, <2>3, <4>1, <4>2 DEF Leaves
      <4>3. CASE p \notin sent[c][k].pats
        BY <2>0, <2>1, <2>3, <4>1, <4>3 DEF Wants, Leaves
      <4> QED BY <4>2, <4>3
    <3>3. CASE ApplyCons(w) \/ ApplyAdd(w)
      <4>1. rel' = rel /\ sent[c][k].type \in {"CONS", "ADD"}
        BY <1>2, <3>3 DEF ApplyCons, ApplyAdd, Holds
      <4> QED BY <2>0, <2>1, <2>3, <4>1 DEF Wants, Leaves
    <3> QED BY <3>1, <3>2, <3>3 DEF Apply
  <2> QED BY <2>2, <2>3
<1> QED BY <1>5, <1>8, <1>9

LEMMA InitInOrder == Init => InOrder
<1> SUFFICES ASSUME Init PROVE InOrder
  OBVIOUS
<1>1. \A e \in Elems : ~Asked(e)
  BY ElemParts DEF Init, NewGrpcRepl, Asked
<1>2. \A c \in Streams : stream[c] = "new"
  BY DEF Init
<1> QED BY <1>1, <1>2 DEF InOrder, AskedUp, Known, RelSettled

LEMMA StepInOrder == OrderInv /\ InOrder /\ [Next]_vars => InOrder'
<1> SUFFICES ASSUME OrderInv, InOrder, [Next]_vars
             PROVE  AskedUp' /\ Known' /\ RelSettled'
  BY DEF InOrder
<1>0. InvType
  BY DEF OrderInv
<1>2. AskedUp /\ Known /\ RelSettled
  BY DEF InOrder
<1>3. CASE UNCHANGED vars
  BY <1>2, <1>3, OrderlyKept DEF vars, Asked
<1>4. ASSUME NEW h \in Handlers, NEW c \in Streams, Open(h, c)
      PROVE  AskedUp' /\ Known' /\ RelSettled'
  BY <1>2, <1>4, OrderlyOpen
<1>5. ASSUME NEW h \in Handlers, NEW c \in Streams, NEW type \in Kinds,
             NEW pats \in SUBSET Patterns, Async(h, c, type, pats)
      PROVE  AskedUp' /\ Known' /\ RelSettled'
  BY <1>2, <1>5, OrderlyAsync
<1>6. ASSUME NEW h \in Handlers, NEW c \in Streams, Close(h, c)
      PROVE  AskedUp' /\ Known' /\ RelSettled'
  BY <1>2, <1>6, OrderlyClose
<1>7. ASSUME NEW h \in Handlers, Push(h)
      PROVE  AskedUp' /\ Known' /\ RelSettled'
  BY <1>0, <1>2, <1>7, OrderlyKept, AskedAfterPush DEF Push, repl
<1>8. ASSUME NEW w \in Workers, Take(w)
      PROVE  AskedUp' /\ Known' /\ RelSettled'
  BY <1>0, <1>2, <1>8, OrderlyKept, AskedAfterTake DEF Take, repl
<1>9. ASSUME NEW w \in Workers, Apply(w)
      PROVE  AskedUp' /\ Known' /\ RelSettled'
  BY <1>2, <1>9, OrderlyApply
<1>10. {"CONS", "SUB", "USUB"} \subseteq Kinds /\ {} \in SUBSET Patterns
  BY DEF Kinds
<1> QED
  BY <1>3, <1>4, <1>5, <1>6, <1>7, <1>8, <1>9, <1>10 DEF Next, Kinds

(* With any number of workers, when nothing that an open stream has asked  *)
(* for is pending, and no worker has applied one of its requests while     *)
(* another worker had an older one, the stream is subscribed to what its   *)
(* requests say in the order it made them: handlers that wait for a full   *)
(* queue and the queue itself never change that order (GrpcRepl.h:14-54).  *)
THEOREM SettledUnlessOvertaken == Spec => []SettledInOrder
<1>1. Init => OrderInv /\ InOrder
  BY InitOrder, InitInOrder
<1>2. OrderInv /\ InOrder /\ [Next]_vars => (OrderInv /\ InOrder)'
  BY StepOrder, StepInOrder
<1>3. OrderInv /\ InOrder => SettledInOrder
  <2> SUFFICES ASSUME OrderInv, InOrder,
                      NEW c \in Streams \ overtaken, stream[c] = "open",
                      \A e \in Elems : e[1] = c => ~Asked(e),
                      NEW p \in Patterns
               PROVE  <<c, p>> \in rel <=> EndsSubscribed(c, p)
    BY DEF SettledInOrder
  <2>1. \A i \in 1..Len(sent[c]) : ~Asked(<<c, i>>)
    BY SentLen DEF OrderInv
  <2>2. \A i \in 1..Len(sent[c]) : \A j \in i..Len(sent[c]) :
          j \in 1..Len(sent[c])
    BY SentLen DEF OrderInv
  <2>3. Settled(c, p) <=> EndsSubscribed(c, p)
    BY <2>1, <2>2 DEF Settled, EndsSubscribed, Wants, Leaves
  <2> QED BY <2>3 DEF InOrder, RelSettled
<1> QED BY <1>1, <1>2, <1>3, PTL DEF Spec
=============================================================================
