---------------------------- MODULE DeliveryProofs ----------------------------
(***************************************************************************)
(* Proofs about Delivery for any sets of threads and consumers and any     *)
(* bounds.                                                                 *)
(***************************************************************************)
EXTENDS Delivery, SequenceTheorems, TLAPS

(* A thread that is past the test of the connection's lock holds it.       *)
LockHeld ==
    \A t \in Threads :
        pc[t] \in {"stop", "splice", "write", "conn"} => connLock = t

DInv ==
    /\ TypeOK
    /\ LockHeld
    /\ PushTargetAlive
    /\ NoLostWakeup

-----------------------------------------------------------------------------
LEMMA StepPc ==
    ASSUME pc \in [Threads -> PC], NEW t \in Threads, NEW c \in Consumers,
           \/ Step(t) \/ EnterConn(t)
           \/ EpollWait(t, c) \/ BeginPush(t, c) \/ CloseStream(t, c)
    PROVE  pc' \in [Threads -> PC]
<1>1. CASE Enqueue(t)
  BY <1>1 DEF Enqueue, Goto, PC
<1>2. CASE SetEvent(t)
  BY <1>2 DEF SetEvent, Goto, PC
<1>3. CASE EnterEvent(t)
  BY <1>3 DEF EnterEvent, OnEvent, Goto, PC
<1>4. CASE LookUpLock(t) \/ TryConn(t) \/ UseDestroyed(t)
  BY <1>4 DEF LookUpLock, TryConn, Busy, UseDestroyed, Goto, PC
<1>5. CASE StopEvent(t) \/ Splice(t)
  BY <1>5 DEF StopEvent, Splice, Goto, PC
<1>6. CASE WriteData(t) \/ CloseStream(t, c)
  BY <1>6 DEF WriteData, CloseStream, DestroyEvent
<1>7. CASE EndWrite(t) \/ LeaveEvent(t)
  BY <1>7 DEF EndWrite, LeaveEvent, Goto, PC
<1>8. CASE LeaveConn(t) \/ EnterConn(t)
  BY <1>8 DEF LeaveConn, EnterConn, Goto, PC
<1>9. CASE EpollWait(t, c) \/ BeginPush(t, c)
  BY <1>9 DEF EpollWait, BeginPush, Goto, PC
<1> QED BY <1>1, <1>2, <1>3, <1>4, <1>5, <1>6, <1>7, <1>8, <1>9 DEF Step

LEMMA InitDInv == Init => DInv
<1> SUFFICES ASSUME Init PROVE DInv
  OBVIOUS
<1>1. TypeOK
  <2>1. << >> \in Seq(Nat)
    OBVIOUS
  <2>2. pc \in [Threads -> PC] /\ at \in [Threads -> Consumers]
    BY DEF Init, NewEvent, PC
  <2>3. connLock = NoThread /\ evLock \in [Consumers -> Threads \cup {NoThread}]
    BY DEF Init, NewEvent
  <2>4. queue \in [Consumers -> Seq(Nat)] /\ out \in [Consumers -> Seq(Nat)]
    BY <2>1 DEF Init, NewEvent
  <2>5. batch \in [Threads -> Seq(Nat)]
    BY <2>1 DEF Init, NewEvent
  <2>6. counter \in [Consumers -> Nat] /\ pushed \in [Consumers -> Nat]
    BY DEF Init, NewEvent
  <2>7. alive \in [Consumers -> BOOLEAN] /\ connEvents \in Nat
    BY DEF Init, NewEvent
  <2>8. crashed \in BOOLEAN
    BY DEF Init, NewEvent
  <2> QED BY <2>2, <2>3, <2>4, <2>5, <2>6, <2>7, <2>8 DEF TypeOK
<1>2. \A t \in Threads : pc[t] = "idle"
  BY DEF Init, NewEvent
<1>3. LockHeld /\ PushTargetAlive
  BY <1>2 DEF LockHeld, PushTargetAlive, Pushing
<1>4. NoLostWakeup
  BY DEF Init, NewEvent, NoLostWakeup
<1> QED BY <1>1, <1>3, <1>4 DEF DInv

LEMMA StepType == TypeOK /\ [Next]_vars => TypeOK'
<1> SUFFICES ASSUME TypeOK, [Next]_vars PROVE TypeOK'
  OBVIOUS
<1> USE DEF TypeOK, locks, data, life
<1>1. CASE UNCHANGED vars
  BY <1>1 DEF vars
<1>2. ASSUME NEW t \in Threads, Step(t) \/ EnterConn(t)
      PROVE  TypeOK'
  <2>0. pc' \in [Threads -> PC]
    BY <1>2, StepPc
  <2>1. CASE Enqueue(t)
    <3>1. at[t] \in Consumers /\ pushed[at[t]] + 1 \in Nat
      OBVIOUS
    <3>2. Queued(queue[at[t]], pushed[at[t]] + 1) \in Seq(Nat)
      BY <3>1 DEF Queued
    <3>3. queue' \in [Consumers -> Seq(Nat)] /\ pushed' \in [Consumers -> Nat]
      BY <2>1, <3>1, <3>2 DEF Enqueue
    <3> QED BY <2>0, <2>1, <3>3 DEF Enqueue
  <2>2. CASE SetEvent(t)
    BY <2>2, <2>0 DEF SetEvent
  <2>3. CASE EnterEvent(t)
    <3>1. evLock' = evLock \/ evLock' = [evLock EXCEPT ![at[t]] = t]
      BY <2>3 DEF EnterEvent
    <3>2. evLock' \in [Consumers -> Threads \cup {NoThread}]
      BY <3>1
    <3> QED BY <2>0, <2>3, <3>2 DEF EnterEvent, OnEvent
  <2>4. CASE TryConn(t)
    <3>1. connLock' \in Threads \cup {NoThread}
      BY <2>4 DEF TryConn, Busy
    <3>2. UNCHANGED <<queue, counter, batch, out, pushed>>
      BY <2>4 DEF TryConn, Busy
    <3> QED BY <2>0, <2>4, <3>1, <3>2 DEF TryConn
  <2>5. CASE StopEvent(t)
    <3>1. at[t] \in Consumers /\ counter[at[t]] \in Nat
      OBVIOUS
    <3>2. counter' \in [Consumers -> Nat]
      BY <2>5, <3>1 DEF StopEvent
    <3> QED BY <2>0, <2>5, <3>2 DEF StopEvent
  <2>6. CASE Splice(t)
    <3>1. at[t] \in Consumers /\ << >> \in Seq(Nat)
      OBVIOUS
    <3>2. queue' \in [Consumers -> Seq(Nat)]
      BY <2>6, <3>1 DEF Splice
    <3>3. batch' \in [Threads -> Seq(Nat)]
      BY <2>6, <3>1 DEF Splice
    <3> QED BY <2>0, <2>6, <3>2, <3>3 DEF Splice
  <2>7. CASE WriteData(t)
    <3>1. batch' \in [Threads -> Seq(Nat)]
      BY <2>7 DEF WriteData
    <3>2. out' \in [Consumers -> Seq(Nat)]
      BY <2>7, SMTT(20) DEF WriteData
    <3> QED BY <2>0, <2>7, <3>1, <3>2 DEF WriteData
  <2>8. CASE EndWrite(t)
    BY <2>8, <2>0 DEF EndWrite
  <2>9. CASE LeaveEvent(t)
    BY <2>9, <2>0 DEF LeaveEvent
  <2>10. CASE LeaveConn(t)
    BY <2>10, <2>0 DEF LeaveConn
  <2>11. CASE EnterConn(t)
    BY <2>11, <2>0 DEF EnterConn
  <2>12. CASE LookUpLock(t) \/ UseDestroyed(t)
    BY <2>12, <2>0 DEF LookUpLock, UseDestroyed
  <2> QED BY <1>2, <2>1, <2>2, <2>3, <2>4, <2>5, <2>6, <2>7, <2>8, <2>9,
             <2>10, <2>11, <2>12 DEF Step
<1>3. ASSUME NEW t \in Threads, NEW c \in Consumers,
             EpollWait(t, c) \/ BeginPush(t, c) \/ CloseStream(t, c)
      PROVE  TypeOK'
  <2>0. pc' \in [Threads -> PC]
    BY <1>3, StepPc
  <2>1. CASE EpollWait(t, c)
    BY <2>1, <2>0 DEF EpollWait
  <2>2. CASE BeginPush(t, c)
    BY <2>2, <2>0 DEF BeginPush
  <2>3. CASE CloseStream(t, c)
    <3>1. queue' \in [Consumers -> Seq(Nat)]
      <4>1. << >> \in Seq(Nat)
        OBVIOUS
      <4> QED BY <2>3, <4>1 DEF CloseStream, DestroyEvent
    <3>2. counter' \in [Consumers -> Nat]
      BY <2>3 DEF CloseStream, DestroyEvent
    <3>3. alive' \in [Consumers -> BOOLEAN]
      BY <2>3 DEF CloseStream, DestroyEvent
    <3> QED BY <2>0, <2>3, <3>1, <3>2, <3>3 DEF CloseStream, DestroyEvent
  <2> QED BY <1>3, <2>1, <2>2, <2>3
<1> QED BY <1>1, <1>2, <1>3 DEF Next

LEMMA StepLockHeld == TypeOK /\ LockHeld /\ [Next]_vars => LockHeld'
<1> SUFFICES ASSUME TypeOK, LockHeld, [Next]_vars PROVE LockHeld'
  OBVIOUS
<1> USE DEF TypeOK, LockHeld, locks, Goto
<1>1. CASE UNCHANGED vars
  BY <1>1 DEF vars
<1>2. ASSUME NEW t \in Threads, Step(t) \/ EnterConn(t)
      PROVE  LockHeld'
  <2>1. CASE Enqueue(t) \/ SetEvent(t) \/ EnterEvent(t) \/ LeaveEvent(t)
    BY <2>1 DEF Enqueue, SetEvent, EnterEvent, OnEvent, LeaveEvent
  <2>2. CASE TryConn(t)
    BY <2>2, DeliveryAssumption DEF TryConn, Busy, ConnFree
  <2>3. CASE StopEvent(t) \/ Splice(t) \/ WriteData(t)
    BY <2>3 DEF StopEvent, Splice, WriteData
  <2>4. CASE EndWrite(t) \/ LeaveConn(t)
    BY <2>4 DEF EndWrite, LeaveConn
  <2>5. CASE EnterConn(t)
    BY <2>5, DeliveryAssumption DEF EnterConn
  <2>6. CASE LookUpLock(t) \/ UseDestroyed(t)
    BY <2>6 DEF LookUpLock, UseDestroyed
  <2> QED BY <1>2, <2>1, <2>2, <2>3, <2>4, <2>5, <2>6 DEF Step
<1>3. ASSUME NEW t \in Threads, NEW c \in Consumers,
             EpollWait(t, c) \/ BeginPush(t, c) \/ CloseStream(t, c)
      PROVE  LockHeld'
  BY <1>3 DEF EpollWait, BeginPush, CloseStream, DestroyEvent
<1> QED BY <1>1, <1>2, <1>3 DEF Next

LEMMA StepPushTargetAlive ==
    TypeOK /\ PushTargetAlive /\ [Next]_vars => PushTargetAlive'
<1> SUFFICES ASSUME TypeOK, PushTargetAlive, [Next]_vars
             PROVE  PushTargetAlive'
  OBVIOUS
<1> USE DEF TypeOK, PushTargetAlive, Pushing, life, Goto
<1>1. CASE UNCHANGED vars
  BY <1>1 DEF vars
<1>2. ASSUME NEW t \in Threads, Step(t) \/ EnterConn(t)
      PROVE  PushTargetAlive'
  <2>1. CASE Enqueue(t) \/ SetEvent(t)
    BY <2>1 DEF Enqueue, SetEvent
  <2>2. CASE EnterEvent(t) \/ TryConn(t) \/ LeaveEvent(t)
    BY <2>2 DEF EnterEvent, OnEvent, TryConn, Busy, LeaveEvent
  <2>3. CASE StopEvent(t) \/ Splice(t) \/ WriteData(t) \/ EndWrite(t)
    BY <2>3 DEF StopEvent, Splice, WriteData, EndWrite
  <2>4. CASE LeaveConn(t) \/ EnterConn(t)
    BY <2>4 DEF LeaveConn, EnterConn
  <2>5. CASE LookUpLock(t) \/ UseDestroyed(t)
    BY <2>5 DEF LookUpLock, UseDestroyed
  <2> QED BY <1>2, <2>1, <2>2, <2>3, <2>4, <2>5 DEF Step
<1>3. ASSUME NEW t \in Threads, NEW c \in Consumers,
             EpollWait(t, c) \/ BeginPush(t, c) \/ CloseStream(t, c)
      PROVE  PushTargetAlive'
  BY <1>3 DEF EpollWait, BeginPush, CloseStream, DestroyEvent, NobodyPushes
<1> QED BY <1>1, <1>2, <1>3 DEF Next

(* The step that makes an eventfd unreadable leaves its thread just before *)
(* the splice, and the step that takes a queue leaves it empty.            *)
LEMMA StepNoLostWakeup ==
    TypeOK /\ NoLostWakeup /\ [Next]_vars => NoLostWakeup'
<1> SUFFICES ASSUME TypeOK, NoLostWakeup, [Next]_vars,
                    NEW c \in Consumers, queue'[c] # << >>
             PROVE  \/ counter'[c] > 0
                    \/ \E u \in Threads :
                         at'[u] = c /\ pc'[u] \in {"set", "splice"}
  BY DEF NoLostWakeup
<1> DEFINE Told == \/ counter[c] > 0
                   \/ \E u \in Threads : at[u] = c /\ pc[u] \in {"set", "splice"}
<1> USE DEF TypeOK, data, Goto
<1>1. queue[c] # << >> => Told
  BY DEF NoLostWakeup
<1>2. CASE UNCHANGED vars
  BY <1>1, <1>2 DEF vars
<1>3. ASSUME NEW t \in Threads, Step(t) \/ EnterConn(t)
      PROVE  \/ counter'[c] > 0
             \/ \E u \in Threads : at'[u] = c /\ pc'[u] \in {"set", "splice"}
  <2>1. CASE Enqueue(t)
    <3>1. CASE at[t] = c
      BY <2>1, <3>1 DEF Enqueue
    <3>2. CASE at[t] # c
      BY <1>1, <2>1, <3>2 DEF Enqueue
    <3> QED BY <3>1, <3>2
  <2>2. CASE SetEvent(t)
    BY <1>1, <2>2 DEF SetEvent
  <2>3. CASE EnterEvent(t) \/ LeaveEvent(t)
    BY <1>1, <2>3 DEF EnterEvent, OnEvent, LeaveEvent
  <2>4. CASE TryConn(t)
    BY <1>1, <2>4 DEF TryConn, Busy
  <2>5. CASE StopEvent(t)
    <3>1. CASE at[t] = c
      BY <2>5, <3>1 DEF StopEvent
    <3>2. CASE at[t] # c
      BY <1>1, <2>5, <3>2 DEF StopEvent
    <3> QED BY <3>1, <3>2
  <2>6. CASE Splice(t)
    <3>1. at[t] # c
      BY <2>6 DEF Splice
    <3> QED BY <1>1, <2>6, <3>1 DEF Splice
  <2>7. CASE WriteData(t) \/ EndWrite(t)
    BY <1>1, <2>7 DEF WriteData, EndWrite
  <2>8. CASE LeaveConn(t) \/ EnterConn(t)
    BY <1>1, <2>8 DEF LeaveConn, EnterConn
  <2>9. CASE LookUpLock(t) \/ UseDestroyed(t)
    BY <1>1, <2>9 DEF LookUpLock, UseDestroyed
  <2> QED BY <1>3, <2>1, <2>2, <2>3, <2>4, <2>5, <2>6, <2>7, <2>8, <2>9 DEF Step
<1>4. ASSUME NEW t \in Threads, NEW d \in Consumers,
             EpollWait(t, d) \/ BeginPush(t, d) \/ CloseStream(t, d)
      PROVE  \/ counter'[c] > 0
             \/ \E u \in Threads : at'[u] = c /\ pc'[u] \in {"set", "splice"}
  BY <1>1, <1>4 DEF EpollWait, BeginPush, CloseStream, DestroyEvent
<1> QED BY <1>2, <1>3, <1>4 DEF Next

-----------------------------------------------------------------------------
LEMMA DInvAlways == Spec => []DInv
<1>1. Init => DInv
  BY InitDInv
<1>2. DInv /\ [Next]_vars => DInv'
  BY StepType, StepLockHeld, StepPushTargetAlive, StepNoLostWakeup DEF DInv
<1> QED BY <1>1, <1>2, PTL DEF Spec

(* The variables of Delivery keep their types.                             *)
THEOREM DeliveryTypeCorrect == Spec => []TypeOK
<1>1. DInv => TypeOK
  BY DEF DInv
<1> QED BY <1>1, DInvAlways, PTL

(* A consumer with messages queued is never left without a wakeup on its   *)
(* way (pushData, stopEvent and the splice in onEvent).                    *)
THEOREM WakeupNeverLost == Spec => []NoLostWakeup
<1>1. DInv => NoLostWakeup
  BY DEF DInv
<1> QED BY <1>1, DInvAlways, PTL

(* The try-locks keep all but one thread out of the connection.            *)
THEOREM ConnectionExclusive == Spec => []OneUserOfConn
<1>1. DInv => OneUserOfConn
  BY DEF DInv, LockHeld, OneUserOfConn, UsesConn
<1> QED BY <1>1, DInvAlways, PTL

(* A push in progress finds its stream alive until it is done.             *)
THEOREM PushSafe == Spec => []PushTargetAlive
<1>1. DInv => PushTargetAlive
  BY DEF DInv
<1> QED BY <1>1, DInvAlways, PTL

-----------------------------------------------------------------------------
(***************************************************************************)
(* The order of delivery.                                                  *)
(***************************************************************************)

LEMMA MoveFirst ==
    ASSUME NEW o \in Seq(Nat), NEW b \in Seq(Nat), NEW q \in Seq(Nat), b # << >>
    PROVE  (Append(o, Head(b)) \o Tail(b)) \o q = (o \o b) \o q
<1>1. Append(o, Head(b)) \o Tail(b) = o \o b
  <2>1. /\ Head(b) \in Nat /\ Tail(b) \in Seq(Nat)
        /\ Len(b) \in Nat \ {0} /\ Len(Tail(b)) = Len(b) - 1
    OBVIOUS
  <2>2. \A i \in 1..(Len(b) - 1) : Tail(b)[i] = b[i + 1]
    OBVIOUS
  <2>3. /\ Append(o, Head(b)) \in Seq(Nat)
        /\ Len(Append(o, Head(b))) = Len(o) + 1
    BY <2>1
  <2>4. Append(o, Head(b)) \o Tail(b) \in Seq(Nat) /\ o \o b \in Seq(Nat)
    BY <2>1, <2>3
  <2>5. Len(Append(o, Head(b)) \o Tail(b)) = Len(o \o b)
    BY <2>1, <2>3
  <2>6. \A i \in 1..Len(o \o b) : (Append(o, Head(b)) \o Tail(b))[i] = (o \o b)[i]
    BY <2>1, <2>2, <2>3
  <2> QED BY <2>4, <2>5, <2>6, SeqEqual
<1> QED BY <1>1

LEMMA AppendOutside ==
    ASSUME NEW o \in Seq(Nat), NEW q \in Seq(Nat), NEW m \in Nat
    PROVE  o \o Append(q, m) = Append(o \o q, m)
<1>1. o \o Append(q, m) \in Seq(Nat) /\ Append(o \o q, m) \in Seq(Nat)
  OBVIOUS
<1>2. Len(o \o Append(q, m)) = Len(Append(o \o q, m))
  OBVIOUS
<1>3. \A i \in 1..Len(o \o Append(q, m)) :
         (o \o Append(q, m))[i] = Append(o \o q, m)[i]
  OBVIOUS
<1> QED BY <1>1, <1>2, <1>3, SeqEqual

LEMMA CountOn ==
    ASSUME NEW k \in Nat
    PROVE  [n \in 1..(k + 1) |-> n] = Append([n \in 1..k |-> n], k + 1)
<1>1. [n \in 1..k |-> n] \in Seq(Nat) /\ [n \in 1..(k + 1) |-> n] \in Seq(Nat)
  OBVIOUS
<1>2. Len([n \in 1..(k + 1) |-> n]) = k + 1 /\ Len([n \in 1..k |-> n]) = k
  OBVIOUS
<1>3. \A i \in 1..(k + 1) :
         [n \in 1..(k + 1) |-> n][i] = Append([n \in 1..k |-> n], k + 1)[i]
  BY <1>1, <1>2
<1> QED BY <1>1, <1>2, <1>3, SeqEqual

(* Since a writer holds the connection's lock, there is one at most.       *)
Writes(t, c) == pc[t] = "write" /\ at[t] = c

HandIs ==
    \A c \in Consumers :
        /\ \A t \in Threads : Writes(t, c) => InHand(c) = batch[t]
        /\ (\A t \in Threads : ~Writes(t, c)) => InHand(c) = << >>

LEMMA OneHand == LockHeld => HandIs
<1> SUFFICES ASSUME LockHeld, NEW c \in Consumers
             PROVE  /\ \A t \in Threads : Writes(t, c) => InHand(c) = batch[t]
                    /\ (\A t \in Threads : ~Writes(t, c)) => InHand(c) = << >>
  BY DEF HandIs
<1> DEFINE ws == {t \in Threads : pc[t] = "write" /\ at[t] = c}
<1>1. ASSUME NEW t \in Threads, Writes(t, c)
      PROVE  InHand(c) = batch[t]
  <2>1. \A u \in ws : u = t
    BY <1>1 DEF Writes, LockHeld
  <2>2. ws # {} /\ (CHOOSE u \in ws : TRUE) = t
    BY <1>1, <2>1 DEF Writes
  <2> QED BY <2>2 DEF InHand
<1>2. ASSUME \A t \in Threads : ~Writes(t, c)
      PROVE  InHand(c) = << >>
  <2>1. ws = {}
    BY <1>2 DEF Writes
  <2> QED BY <2>1 DEF InHand
<1> QED BY <1>1, <1>2

LEMMA OneHandNext == LockHeld' => HandIs'
  BY OneHand, PTL
(* A thread that begins or stops to write has nothing in its hands, and    *)
(* the others keep what they have.                                         *)
LEMMA HandUnchanged ==
    ASSUME LockHeld, LockHeld', NEW c \in Consumers,
           \A u \in Threads : /\ Writes(u, c)' <=> Writes(u, c)
                              /\ Writes(u, c) => batch'[u] = batch[u]
    PROVE  InHand(c)' = InHand(c)
<1>1. HandIs /\ HandIs'
  BY OneHand, OneHandNext
<1>2. CASE \E t \in Threads : Writes(t, c)
  <2>1. PICK t \in Threads : Writes(t, c)
    BY <1>2
  <2>2. Writes(t, c)' /\ batch'[t] = batch[t]
    BY <2>1
  <2>3. InHand(c) = batch[t]
    BY <1>1, <2>1 DEF HandIs
  <2>4. InHand(c)' = batch'[t]
    BY <1>1, <2>2 DEF HandIs
  <2> QED BY <2>2, <2>3, <2>4
<1>3. CASE \A t \in Threads : ~Writes(t, c)
  <2>1. InHand(c) = << >>
    BY <1>1, <1>3 DEF HandIs
  <2>2. \A t \in Threads : ~Writes(t, c)'
    BY <1>3
  <2>3. InHand(c)' = << >>
    BY <1>1, <2>2 DEF HandIs
  <2> QED BY <2>1, <2>3
<1> QED BY <1>2, <1>3

Sent(c) == out[c] \o InHand(c) \o queue[c]

LEMMA HandType ==
    ASSUME TypeOK, LockHeld, NEW c \in Consumers
    PROVE  InHand(c) \in Seq(Nat)
<1>1. HandIs
  BY OneHand
<1>2. CASE \E t \in Threads : Writes(t, c)
  BY <1>1, <1>2 DEF HandIs, TypeOK
<1>3. CASE \A t \in Threads : ~Writes(t, c)
  <2>1. InHand(c) = << >>
    BY <1>1, <1>3 DEF HandIs
  <2> QED BY <2>1
<1> QED BY <1>2, <1>3

LEMMA StepSent ==
    ASSUME TypeOK, TypeOK', LockHeld, LockHeld', [Next]_vars,
           NEW c \in Consumers, alive'[c]
    PROVE  /\ alive[c]
           /\ \/ Sent(c)' = Sent(c) /\ pushed'[c] = pushed[c]
              \/ /\ Sent(c)' = Append(Sent(c), pushed[c] + 1)
                 /\ pushed'[c] = pushed[c] + 1
<1> USE DEF locks, data, life
<1>0. /\ out[c] \in Seq(Nat) /\ queue[c] \in Seq(Nat) /\ InHand(c) \in Seq(Nat)
      /\ pushed[c] \in Nat
  BY HandType DEF TypeOK
<1>1. ASSUME alive[c], out' = out, queue' = queue, pushed' = pushed,
             batch' = batch,
             \A u \in Threads : Writes(u, c)' <=> Writes(u, c)
      PROVE  alive[c] /\ Sent(c)' = Sent(c) /\ pushed'[c] = pushed[c]
  <2>1. InHand(c)' = InHand(c)
    BY <1>1, HandUnchanged
  <2> QED BY <1>1, <2>1 DEF Sent
<1>2. CASE UNCHANGED vars
  BY <1>1, <1>2 DEF vars, Writes
<1>3. ASSUME NEW t \in Threads,
             \/ SetEvent(t) \/ EnterEvent(t)
             \/ LookUpLock(t) \/ TryConn(t) \/ UseDestroyed(t)
             \/ StopEvent(t) \/ LeaveEvent(t) \/ LeaveConn(t) \/ EnterConn(t)
      PROVE  /\ alive[c] /\ out' = out /\ queue' = queue /\ pushed' = pushed
             /\ batch' = batch
             /\ \A u \in Threads : Writes(u, c)' <=> Writes(u, c)
  <2>1. CASE SetEvent(t) \/ EnterEvent(t)
    BY <2>1 DEF SetEvent, EnterEvent, OnEvent, Goto, Writes, TypeOK
  <2>2. CASE TryConn(t)
    BY <2>2 DEF TryConn, Busy, Goto, Writes, TypeOK
  <2>3. CASE StopEvent(t) \/ LeaveEvent(t)
    BY <2>3 DEF StopEvent, LeaveEvent, Goto, Writes, TypeOK
  <2>4. CASE LeaveConn(t) \/ EnterConn(t)
    BY <2>4 DEF LeaveConn, EnterConn, Goto, Writes, TypeOK
  <2>5. CASE LookUpLock(t) \/ UseDestroyed(t)
    BY <2>5 DEF LookUpLock, UseDestroyed, Goto, Writes, TypeOK
  <2> QED BY <1>3, <2>1, <2>2, <2>3, <2>4, <2>5
<1>4. ASSUME NEW t \in Threads, NEW d \in Consumers,
             EpollWait(t, d) \/ BeginPush(t, d)
      PROVE  /\ alive[c] /\ out' = out /\ queue' = queue /\ pushed' = pushed
             /\ batch' = batch
             /\ \A u \in Threads : Writes(u, c)' <=> Writes(u, c)
  BY <1>4 DEF EpollWait, BeginPush, Goto, Writes, TypeOK
<1>5. ASSUME NEW t \in Threads, NEW d \in Consumers, CloseStream(t, d)
      PROVE  alive[c] /\ Sent(c)' = Sent(c) /\ pushed'[c] = pushed[c]
  <2>1. c # d /\ alive[c] /\ queue'[c] = queue[c]
        /\ out' = out /\ pushed' = pushed /\ batch' = batch
    BY <1>5 DEF CloseStream, DestroyEvent, TypeOK
  <2>2. \A u \in Threads : Writes(u, c)' <=> Writes(u, c)
    BY <1>5 DEF CloseStream, DestroyEvent, Writes
  <2>3. InHand(c)' = InHand(c)
    BY <2>1, <2>2, HandUnchanged
  <2> QED BY <2>1, <2>3 DEF Sent
<1>6. ASSUME NEW t \in Threads, Enqueue(t)
      PROVE  /\ alive[c]
             /\ \/ Sent(c)' = Sent(c) /\ pushed'[c] = pushed[c]
                \/ /\ Sent(c)' = Append(Sent(c), pushed[c] + 1)
                   /\ pushed'[c] = pushed[c] + 1
  <2>1. alive[c] /\ out' = out /\ batch' = batch
    BY <1>6 DEF Enqueue
  <2>2. \A u \in Threads : Writes(u, c)' <=> Writes(u, c)
    BY <1>6 DEF Enqueue, Goto, Writes, TypeOK
  <2>3. InHand(c)' = InHand(c)
    BY <2>1, <2>2, HandUnchanged
  <2>4. CASE at[t] # c
    <3>1. queue'[c] = queue[c] /\ pushed'[c] = pushed[c]
      BY <1>6, <2>4 DEF Enqueue, TypeOK
    <3> QED BY <2>1, <2>3, <3>1 DEF Sent
  <2>5. CASE at[t] = c
    <3>1. /\ queue'[c] = Append(queue[c], pushed[c] + 1)
          /\ pushed'[c] = pushed[c] + 1
      BY <1>6, <2>5 DEF Enqueue, Queued, TypeOK
    <3>2. Sent(c)' = (out[c] \o InHand(c)) \o Append(queue[c], pushed[c] + 1)
      BY <2>1, <2>3, <3>1 DEF Sent
    <3>3. out[c] \o InHand(c) \in Seq(Nat) /\ pushed[c] + 1 \in Nat
      BY <1>0
    <3>4. Sent(c)' = Append(Sent(c), pushed[c] + 1)
      BY <1>0, <3>2, <3>3, AppendOutside DEF Sent
    <3> QED BY <2>1, <3>1, <3>4
  <2> QED BY <2>4, <2>5
<1>7. ASSUME NEW t \in Threads, Splice(t)
      PROVE  alive[c] /\ Sent(c)' = Sent(c) /\ pushed'[c] = pushed[c]
  <2>1. alive[c] /\ out' = out /\ pushed' = pushed
    BY <1>7 DEF Splice
  <2>2. CASE at[t] # c
    <3>1. queue'[c] = queue[c]
      BY <1>7, <2>2 DEF Splice, TypeOK
    <3>2. \A u \in Threads : /\ Writes(u, c)' <=> Writes(u, c)
                             /\ Writes(u, c) => batch'[u] = batch[u]
      BY <1>7, <2>2 DEF Splice, Goto, Writes, TypeOK
    <3>3. InHand(c)' = InHand(c)
      BY <3>2, HandUnchanged
    <3> QED BY <2>1, <3>1, <3>3 DEF Sent
  <2>3. CASE at[t] = c
    <3>1. \A u \in Threads : ~Writes(u, c)
      BY <1>7 DEF Splice, LockHeld, Writes
    <3>2. InHand(c) = << >>
      BY <3>1, OneHand DEF HandIs
    <3>3. Writes(t, c)' /\ batch'[t] = queue[c] /\ queue'[c] = << >>
      BY <1>7, <2>3 DEF Splice, Goto, Writes, TypeOK
    <3>4. InHand(c)' = queue[c]
      BY <3>3, OneHandNext DEF HandIs
    <3>5. /\ (out[c] \o queue[c]) \o << >> = out[c] \o queue[c]
          /\ out[c] \o << >> = out[c]
      BY <1>0
    <3> QED BY <2>1, <3>2, <3>3, <3>4, <3>5 DEF Sent
  <2> QED BY <2>2, <2>3
<1>8. ASSUME NEW t \in Threads, WriteData(t)
      PROVE  alive[c] /\ Sent(c)' = Sent(c) /\ pushed'[c] = pushed[c]
  <2>1. alive[c] /\ queue' = queue /\ pushed' = pushed
    BY <1>8 DEF WriteData
  <2>2. CASE at[t] # c
    <3>1. out'[c] = out[c]
      BY <1>8, <2>2 DEF WriteData, TypeOK
    <3>2. \A u \in Threads : /\ Writes(u, c)' <=> Writes(u, c)
                             /\ Writes(u, c) => batch'[u] = batch[u]
      BY <1>8, <2>2 DEF WriteData, Writes, TypeOK
    <3>3. InHand(c)' = InHand(c)
      BY <3>2, HandUnchanged
    <3> QED BY <2>1, <3>1, <3>3 DEF Sent
  <2>3. CASE at[t] = c
    <3>1. /\ Writes(t, c) /\ Writes(t, c)' /\ batch[t] # << >>
          /\ batch'[t] = Tail(batch[t])
          /\ out'[c] = Append(out[c], Head(batch[t]))
          /\ batch[t] \in Seq(Nat)
      BY <1>8, <2>3 DEF WriteData, Writes, TypeOK
    <3>2. InHand(c) = batch[t]
      BY <3>1, OneHand DEF HandIs
    <3>3. InHand(c)' = Tail(batch[t])
      BY <3>1, OneHandNext DEF HandIs
    <3>4. (Append(out[c], Head(batch[t])) \o Tail(batch[t])) \o queue[c]
            = (out[c] \o batch[t]) \o queue[c]
      BY <1>0, <3>1, MoveFirst
    <3> QED BY <2>1, <3>1, <3>2, <3>3, <3>4 DEF Sent
  <2> QED BY <2>2, <2>3
<1>9. ASSUME NEW t \in Threads, EndWrite(t)
      PROVE  alive[c] /\ Sent(c)' = Sent(c) /\ pushed'[c] = pushed[c]
  <2>1. alive[c] /\ queue' = queue /\ pushed' = pushed /\ out' = out
    BY <1>9 DEF EndWrite
  <2>2. \A u \in Threads : ~Writes(u, c)'
    BY <1>9 DEF EndWrite, Goto, LockHeld, Writes, TypeOK
  <2>3. InHand(c)' = << >>
    BY <2>2, OneHandNext DEF HandIs
  <2>4. InHand(c) = << >>
    <3>1. \A u \in Threads : Writes(u, c) => u = t /\ batch[t] = << >>
      BY <1>9 DEF EndWrite, LockHeld, Writes
    <3> QED BY <3>1, OneHand DEF HandIs
  <2> QED BY <2>1, <2>3, <2>4 DEF Sent
<1> QED BY <1>1, <1>2, <1>3, <1>4, <1>5, <1>6, <1>7, <1>8, <1>9 DEF Next, Step

LEMMA StepInOrder ==
    ASSUME TypeOK, TypeOK', LockHeld, LockHeld', DeliveredInOrder, [Next]_vars
    PROVE  DeliveredInOrder'
<1>1. SUFFICES ASSUME NEW c \in Consumers, alive'[c]
               PROVE  Sent(c)' = [n \in 1..pushed'[c] |-> n]
  BY DEF DeliveredInOrder, Sent
<1>2. /\ alive[c]
      /\ \/ Sent(c)' = Sent(c) /\ pushed'[c] = pushed[c]
         \/ /\ Sent(c)' = Append(Sent(c), pushed[c] + 1)
            /\ pushed'[c] = pushed[c] + 1
  BY <1>1, StepSent
<1>3. Sent(c) = [n \in 1..pushed[c] |-> n]
  BY <1>2 DEF DeliveredInOrder, Sent
<1>4. pushed[c] \in Nat
  BY DEF TypeOK
<1> QED BY <1>2, <1>3, <1>4, CountOn

(* No message to an open stream is lost, doubled or overtaken on its way   *)
(* from pushData through the queue and the handler's local list to the     *)
(* connection.                                                             *)
THEOREM OrderKept == Spec => []DeliveredInOrder
<1>1. Init => DeliveredInOrder
  <2> SUFFICES ASSUME Init, NEW c \in Consumers
               PROVE  Sent(c) = [n \in 1..pushed[c] |-> n]
    BY DEF DeliveredInOrder, Sent
  <2>1. LockHeld /\ \A t \in Threads : ~Writes(t, c)
    BY DEF Init, NewEvent, LockHeld, Writes
  <2>2. InHand(c) = << >>
    BY <2>1, OneHand DEF HandIs
  <2>3. Sent(c) = << >>
    BY <2>2 DEF Init, NewEvent, Sent
  <2> QED BY <2>3 DEF Init, NewEvent
<1>2. /\ DInv /\ DInv' /\ DeliveredInOrder /\ [Next]_vars => DeliveredInOrder'
  BY StepInOrder DEF DInv
<1> QED BY <1>1, <1>2, DInvAlways, PTL DEF Spec
=============================================================================
