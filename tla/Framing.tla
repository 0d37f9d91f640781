-------------------------------- MODULE Framing --------------------------------
(***************************************************************************)
(* Length-prefixed messages of a stream: GrpcStream::readData (GrpcServ.cpp*)
(* :127) and the loops that call it in onRead of a consumer's stream and of*)
(* a producer's stream (GrpcRestr.cpp:64, :140).                           *)
(*                                                                         *)
(* Bytes are known by their position in the stream.  A wire is what the    *)
(* peer sends: message k has its prefix at start[k] and size[k] bytes      *)
(* behind it, and parses[k] says whether protobuf accepts these bytes.     *)
(* The chain lpm_ holds the bytes from drained up to received; DATA frames *)
(* cut the stream anywhere.  What is read at a position where no prefix    *)
(* starts may be any length in Garbage.                                    *)
(***************************************************************************)
EXTENDS Integers, Sequences

CONSTANTS
    Prefix,     \* LENGTH_PREFIX_LENGTH
    Wires,      \* what the peer may send
    Garbage     \* bound: lengths read at a wrong position

Messages(w) == 1..Len(w.size)

WellFormed(w) ==
    /\ w.size \in Seq(Nat)
    /\ w.parses \in [Messages(w) -> BOOLEAN]
    /\ w.start \in [1..(Len(w.size) + 1) -> Nat]
    /\ w.start[1] = 0
    /\ \A k \in Messages(w) : w.start[k + 1] = w.start[k] + Prefix + w.size[k]
    /\ \A j, k \in 1..(Len(w.size) + 1) : j < k => w.start[j] < w.start[k]

ASSUME FramingAssumption ==
    /\ Prefix \in Nat \ {0}
    /\ Garbage \subseteq Nat
    /\ \A w \in Wires : WellFormed(w)

VARIABLES
    wire,       \* what the peer of this stream sends
    kind,       \* "cons" or "prod": GrpcRestrStreamCons, GrpcRestrStreamProd
    pc,         \* "idle", or in onRead: the "first" call of readData, or "again"
    received,   \* bytes that were put into lpm_ so far
    drained,    \* bytes that were taken out of lpm_ so far
    lpmSize,    \* lpm_size_
    handled,    \* requests handed to Repl: their messages, 0 for garbage
    front,      \* history: the message at the front of lpm_, if in step
    overrun     \* history: a producer parsed while more than one message was held

stream == <<received, drained, lpmSize>>
vars   == <<wire, kind, pc, stream, handled, front, overrun>>

Init ==
    /\ wire \in Wires
    /\ kind \in {"cons", "prod"}
    /\ pc = "idle"
    /\ received = 0 /\ drained = 0 /\ lpmSize = 0
    /\ handled = << >>
    /\ front = 1
    /\ overrun = FALSE

-----------------------------------------------------------------------------
(***************************************************************************)
(* readData.  Its first call in onRead takes the new bytes; a further call *)
(* first drops what the caller left of the message it was given.           *)
(***************************************************************************)
DropsLast == pc = "again" /\ lpmSize <= received - drained

From == IF DropsLast THEN drained + lpmSize ELSE drained
Held == IF DropsLast THEN 0 ELSE lpmSize

HasPrefix == Held # 0 \/ received - From >= Prefix

Body == IF Held # 0 THEN From ELSE From + Prefix

DecodedWithPrefix(pos) ==    \* faulty
    LET here == {k \in Messages(wire) : wire.start[k] = pos}
    IN  IF here = {} THEN Garbage ELSE {wire.size[k] + Prefix : k \in here}

DecodedAt(pos) ==
    LET here == {k \in Messages(wire) : wire.start[k] = pos}
    IN  IF here = {} THEN Garbage ELSE {wire.size[k] : k \in here}

Announced == IF Held # 0 THEN {Held} ELSE DecodedAt(From)

Complete(len) == received - Body >= len

(* The messages that lie exactly in the len bytes behind Body: one or none.*)
Exactly(len) ==
    {k \in Messages(wire) : wire.start[k] + Prefix = Body /\ wire.size[k] = len}

Leave(from, len) ==
    /\ pc' = "idle"
    /\ drained' = from
    /\ lpmSize' = len

(* onRead with the payload of a DATA frame that is not empty.              *)
OnRead(n) ==
    /\ pc = "idle"
    /\ received + n <= wire.start[Len(wire.size) + 1]
    /\ received' = received + n
    /\ pc' = "first"
    /\ UNCHANGED <<wire, kind, drained, lpmSize, handled, front, overrun>>

(* "case 1": the prefix is not yet there.                                  *)
NoPrefix ==
    /\ pc # "idle"
    /\ ~HasPrefix
    /\ Leave(From, 0)
    /\ UNCHANGED <<wire, kind, received, handled, front, overrun>>

(* "case 2": the message is not yet there; its length is kept.             *)
Incomplete(len) ==
    /\ ~Complete(len)
    /\ Leave(Body, len)
    /\ UNCHANGED <<wire, kind, received, handled, front, overrun>>

(* A message without bytes looks like no message to the caller, which      *)
(* stops although more may be buffered.                                    *)
EmptyMessage(len) ==
    /\ len = 0
    /\ Complete(len)
    /\ Leave(Body, 0)
    /\ front' = front + 1
    /\ UNCHANGED <<wire, kind, received, handled, overrun>>

Handle(len) ==
    handled' = Append(handled, IF Exactly(len) = {} THEN 0
                               ELSE CHOOSE k \in Exactly(len) : TRUE)

(* What ParseFromString may say of the len bytes behind Body.              *)
ParsesAs(len) ==
    IF Exactly(len) = {} THEN BOOLEAN ELSE {wire.parses[k] : k \in Exactly(len)}

-----------------------------------------------------------------------------
(***************************************************************************)
(* A consumer's stream: the message is copied, drained and parsed.         *)
(***************************************************************************)
ConsumerTakesKeeping(len) ==    \* faulty
    /\ kind = "cons"
    /\ len > 0 /\ Complete(len)
    /\ drained' = Body + len
    /\ lpmSize' = len
    /\ front' = front + 1
    /\ \E ok \in ParsesAs(len) :
         IF ok THEN Handle(len) /\ pc' = "again"
               ELSE pc' = "idle" /\ UNCHANGED handled
    /\ UNCHANGED <<wire, kind, received, overrun>>

ConsumerTakesOne(len) ==    \* faulty
    /\ kind = "cons"
    /\ len > 0 /\ Complete(len)
    /\ drained' = Body + len
    /\ lpmSize' = 0
    /\ front' = front + 1
    /\ \E ok \in ParsesAs(len) :
         /\ pc' = "idle"
         /\ IF ok THEN Handle(len) ELSE UNCHANGED handled
    /\ UNCHANGED <<wire, kind, received, overrun>>

ConsumerTakes(len) ==
    /\ kind = "cons"
    /\ len > 0 /\ Complete(len)
    /\ drained' = Body + len
    /\ lpmSize' = 0
    /\ front' = front + 1
    /\ \E ok \in ParsesAs(len) :
         IF ok THEN Handle(len) /\ pc' = "again"
               ELSE pc' = "idle" /\ UNCHANGED handled
    /\ UNCHANGED <<wire, kind, received, overrun>>

(***************************************************************************)
(* A producer's stream: ParseFromIstream reads all that lpm_ holds (chains *)
(* longer than one of its blocks of 8192 bytes are not modelled) and       *)
(* accepts it only if the message ends there: behind the message comes a   *)
(* prefix, whose first byte is no tag.                                     *)
(***************************************************************************)
ParsesAllAs(len) ==
    IF Exactly(len) # {} /\ received > Body + len THEN {FALSE} ELSE ParsesAs(len)

ProducerTakes(len) ==
    /\ kind = "prod"
    /\ len > 0 /\ Complete(len)
    /\ drained' = received
    /\ lpmSize' = 0
    /\ front' = front + 1
    /\ overrun' = (overrun \/ received > Body + len)
    /\ \E ok \in ParsesAllAs(len) :
         IF ok THEN Handle(len) /\ pc' = "again"
               ELSE pc' = "idle" /\ UNCHANGED handled
    /\ UNCHANGED <<wire, kind, received>>

ReadData ==
    /\ pc # "idle"
    /\ HasPrefix
    /\ \E len \in Announced :
         \/ Incomplete(len)
         \/ EmptyMessage(len)
         \/ ConsumerTakes(len)
         \/ ProducerTakes(len)

Next ==
    \/ \E n \in 1..wire.start[Len(wire.size) + 1] : OnRead(n)
    \/ NoPrefix
    \/ ReadData

Spec == Init /\ [][Next]_vars

-----------------------------------------------------------------------------
TypeOK ==
    /\ wire \in Wires
    /\ kind \in {"cons", "prod"}
    /\ pc \in {"idle", "first", "again"}
    /\ received \in Nat /\ drained \in Nat /\ lpmSize \in Nat
    /\ drained <= received
    /\ handled \in Seq(Nat)
    /\ front \in Nat
    /\ overrun \in BOOLEAN

(* While a producer's chain never held more than the message it parsed,    *)
(* and always on a consumer's stream, lpm_ begins at the prefix of a       *)
(* message, or behind it with lpm_size_ the length it announced            *)
(* (GrpcServ.cpp:140-148).                                                 *)
InStep ==
    ~overrun =>
        /\ front \in 1..(Len(wire.size) + 1)
        /\ \/ lpmSize = 0 /\ drained = wire.start[front]
           \/ /\ front \in Messages(wire)
              /\ lpmSize # 0
              /\ lpmSize = wire.size[front]
              /\ drained = wire.start[front] + Prefix

Good(k) == wire.size[k] > 0 /\ wire.parses[k]

(* However the frames cut the stream, the requests handed to Repl are      *)
(* those that were sent and can be parsed, each once, in order             *)
(* (GrpcRestr.cpp:145-181).                                                *)
HandledInOrder ==
    ~overrun =>
        /\ \A i, j \in DOMAIN handled : i < j => handled[i] < handled[j]
        /\ {handled[i] : i \in DOMAIN handled}
             = {k \in Messages(wire) : k < front /\ Good(k)}

(* When onRead returns with a whole message still in lpm_, it is because   *)
(* the one before had no bytes or could not be parsed (the returns at      *)
(* GrpcRestr.cpp:148 and :155); nothing else leaves a request behind.      *)
NothingLeftBehind ==
    pc = "idle" /\ ~overrun /\ front \in Messages(wire)
      /\ received >= wire.start[front + 1]
    => front > 1 /\ ~Good(front - 1)

(* GrpcServ.hpp:26: a "Length-prefixed message, could be splitted by       *)
(* several DATA frames, so we need to reconstruct GRPC message using this  *)
(* buffer": messages that arrived whole, and are good like all before      *)
(* them, have been handled when onRead returns.  For a producer's stream   *)
(* this ends for good with the first message that was parsed while bytes   *)
(* of the next one were held (GrpcRestr.cpp:80).                           *)
MessagesReconstructed ==
    pc = "idle" /\ ~overrun =>
        \A k \in Messages(wire) :
            /\ received >= wire.start[k + 1]
            /\ \A j \in 1..k : Good(j)
            => \E i \in DOMAIN handled : handled[i] = k
=============================================================================
