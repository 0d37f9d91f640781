--------------------------------- MODULE Chain ---------------------------------
(***************************************************************************)
(* Chain (Chain.hpp): the bytes that wait on a connection or a stream, in  *)
(* a list of nodes.  A node (Dh) has a vector of room bytes, of which      *)
(* begin bytes have been drained and data follows.  Bytes are numbered in  *)
(* the order they were written; lo of them have been drained and hi were   *)
(* written, so that the chain should hold the bytes lo+1 .. hi.            *)
(***************************************************************************)
EXTENDS Integers, Sequences, FiniteSetsExt, SequencesExt

CONSTANTS
    BlockSize,  \* blockSize_, a page
    MaxAsk,     \* bound: what callers of readTo and emplaceBack ask for
    MaxBytes    \* bound: bytes written to the chain

ASSUME ChainAssumption ==
    /\ BlockSize \in Nat \ {0}
    /\ MaxAsk \in Nat
    /\ MaxBytes \in Nat

VARIABLES
    nodes,      \* chain_
    size,       \* size_
    lo, hi,     \* history: bytes drained, bytes written
    ret,        \* the buffer last returned: bytes wanted and got
    merged,     \* history: pullupFrom has been through its case 1
    failed,     \* an assertion failed, or memory was overwritten
    sbuf        \* the StreamBuf a parser reads the chain through

chainVars == <<nodes, size, lo, hi, ret, merged, failed, sbuf>>

NoBuffer == [want |-> 0, got |-> << >>]

(* Of a StreamBuf: area, the length of its get area (eback to egptr), done,*)
(* how much of that was read (eback to gptr), and, as history, the bytes   *)
(* drained before it (from) and those it has handed out (out).             *)
NoStream == [phase |-> "none", area |-> 0, done |-> 0, from |-> 0, out |-> << >>]

NewChain ==
    /\ nodes = << >>
    /\ size = 0
    /\ lo = 0 /\ hi = 0
    /\ ret = NoBuffer
    /\ merged = FALSE
    /\ failed = FALSE
    /\ sbuf = NoStream

Bytes(from, n) == [i \in 1..n |-> from + i]

Space(n) == n.room - n.begin - Len(n.data)

Content(ns) == FlattenSeq([i \in DOMAIN ns |-> ns[i].data])

(* The constructors of Dh: an empty node, and one full of given bytes.     *)
EmptyNode(room) == [room |-> room, begin |-> 0, data |-> << >>]
FullNode(bytes) == [room |-> Len(bytes), begin |-> 0, data |-> bytes]

-----------------------------------------------------------------------------
(* readTo: a node with as much space at the back.                          *)
ReadTo(ns, recommended) ==
    IF ns = << >> \/ Space(Last(ns)) < recommended
    THEN Append(ns, EmptyNode(Max({recommended, BlockSize})))
    ELSE ns

(* fill: bytes put behind the data of the back node become part of it.     *)
Fill(ns, bytes) ==
    IF bytes = << >> THEN ns ELSE [ns EXCEPT ![Len(ns)].data = @ \o bytes]

(* readTo, and fill with the n bytes that came; with none, readTo's node   *)
(* stays.                                                                  *)
Receive(recommended, n) ==
    LET ns == ReadTo(nodes, recommended) IN
    /\ n <= Space(Last(ns))
    /\ hi + n <= MaxBytes
    /\ nodes' = Fill(ns, Bytes(hi, n))
    /\ size' = size + n
    /\ hi' = hi + n
    /\ ret' = NoBuffer
    /\ UNCHANGED <<lo, merged, failed>>

EmplaceBack(n) ==
    /\ hi + n <= MaxBytes
    /\ nodes' = Append(nodes, FullNode(Bytes(hi, n)))
    /\ size' = size + n
    /\ hi' = hi + n
    /\ ret' = NoBuffer
    /\ UNCHANGED <<lo, merged, failed>>

-----------------------------------------------------------------------------
(* Dh::drain of the first n bytes of a node.                               *)
Cut(node, n) ==
    [room |-> node.room, begin |-> node.begin + n,
     data |-> SubSeq(node.data, n + 1, Len(node.data))]

(* k bytes of the front node are drained; it is removed if that was all.   *)
CutFront(ns, k) ==
    IF k = Len(ns[1].data) THEN Tail(ns) ELSE [ns EXCEPT ![1] = Cut(@, k)]

(* One turn of drain's loop; left is what is left to be drained.           *)
DrainFront(d) ==
    IF d.left = 0 \/ d.ns = << >> THEN d
    ELSE LET k == Min({Len(d.ns[1].data), d.left})
         IN  [ns |-> CutFront(d.ns, k), left |-> d.left - k]

(* drain: no more turns than there are nodes.                              *)
Drained(ns, n) ==
    LET after[i \in 0..Len(ns)] ==
          IF i = 0 THEN [ns |-> ns, left |-> n] ELSE DrainFront(after[i - 1])
    IN  after[Len(ns)]

DrainAsked(n) ==    \* faulty
    LET d == Drained(nodes, n) IN
    /\ nodes' = d.ns
    /\ size' = size - n
    /\ lo' = lo + n - d.left
    /\ ret' = NoBuffer
    /\ UNCHANGED <<hi, merged, failed>>

Drain(n) ==
    LET d == Drained(nodes, n) IN
    /\ nodes' = d.ns
    /\ size' = size - (n - d.left)
    /\ lo' = lo + n - d.left
    /\ ret' = NoBuffer
    /\ UNCHANGED <<hi, merged, failed>>

Clear ==
    /\ nodes' = << >>
    /\ size' = 0
    /\ lo' = hi
    /\ ret' = NoBuffer
    /\ UNCHANGED <<hi, merged, failed>>

-----------------------------------------------------------------------------
(* There is no front node although size_ says so: undefined behaviour.     *)
NoFront == size > 0 /\ nodes = << >>

UseNoFront ==
    /\ NoFront
    /\ failed' = TRUE
    /\ UNCHANGED <<nodes, size, lo, hi, ret, merged>>

(* writeFrom: what can be written at once, without changing the chain; at  *)
(* most a block if the caller does not say how much.                       *)
WriteFrom(recommended) ==
    LET most == IF recommended = 0 THEN BlockSize ELSE recommended IN
    /\ ~NoFront
    /\ ret' = IF size > 0
              THEN [want |-> 0,
                    got |-> SubSeq(Head(nodes).data, 1,
                              Min({Len(Head(nodes).data), most}))]
              ELSE NoBuffer
    /\ UNCHANGED <<nodes, size, lo, hi, merged, failed>>

(* pullupFrom, case 2: the front node is moved to the beginning of its     *)
(* vector and takes k bytes out of the node behind it, which is erased if  *)
(* that was all.                                                           *)
PullInPlace(ns, k) ==    \* faulty
    LET pulled == [ns EXCEPT ![1].data = @ \o SubSeq(ns[2].data, 1, k),
                             ![2] = Cut(@, k)]
    IN  IF k = Len(ns[2].data) THEN RemoveAt(pulled, 2) ELSE pulled

Pull(ns, k) ==
    LET front  == [room |-> ns[1].room, begin |-> 0,
                   data |-> ns[1].data \o SubSeq(ns[2].data, 1, k)]
        pulled == [ns EXCEPT ![1] = front, ![2] = Cut(@, k)]
    IN  IF k = Len(ns[2].data) THEN RemoveAt(pulled, 2) ELSE pulled

(* One turn of the loop: as much as there is room for.                     *)
PullNext(ns, n) ==
    IF Len(ns[1].data) >= n \/ Len(ns) = 1 THEN ns
    ELSE Pull(ns, Min({Len(ns[2].data), ns[1].room - Len(ns[1].data)}))

(* The loop: a turn removes a node or fills up the front one, so that no   *)
(* more turns are needed than there are other nodes.                       *)
GatheredOnce(ns, n) == PullNext(ns, n)    \* faulty

Gathered(ns, n) ==
    LET after[i \in 1..Len(ns)] ==
          IF i = 1 THEN ns ELSE PullNext(after[i - 1], n)
    IN  after[Len(ns)]

(* The bytes of as many nodes as hold n bytes together.                    *)
GotSize(n) ==
    LET upto == {i \in DOMAIN nodes : Len(Content(SubSeq(nodes, 1, i))) >= n}
    IN  IF upto = {} THEN Len(Content(nodes))
        ELSE Len(Content(SubSeq(nodes, 1, Min(upto))))

(* Case 1: no room in the front node.  Every node is copied to the         *)
(* beginning of a new one and erased: drain counts the size of the buffer  *)
(* r down to zero before it is used for fill and gotsize.  A node larger   *)
(* than the new one is copied beyond its end.                              *)
Merge(n) ==
    LET new == EmptyNode(GotSize(n)) IN
    /\ nodes' = IF new.room = 0 THEN <<new>> \o nodes ELSE <<new>>
    /\ ret' = [want |-> n, got |-> << >>]
    /\ merged' = TRUE
    /\ failed' = \/ new.room = 0
                 \/ \E i \in DOMAIN nodes : Len(nodes[i].data) > new.room

Gather(n) ==
    LET ns == Gathered(nodes, n) IN
    /\ nodes' = ns
    /\ ret' = [want |-> n, got |-> ns[1].data]
    /\ failed' = (Len(ns[1].data) < n)
    /\ UNCHANGED merged

Fits(n) == n <= Head(nodes).room

PullupFrom(n) ==
    /\ ~NoFront
    /\ IF size > 0 /\ n <= size
       THEN IF Fits(n) THEN Gather(n) ELSE Merge(n)
       ELSE ret' = NoBuffer /\ UNCHANGED <<nodes, merged, failed>>
    /\ UNCHANGED <<size, lo, hi>>

Operation ==
    \/ \E r \in 1..MaxAsk, n \in 0..MaxBytes : Receive(r, n)
    \/ \E n \in 1..MaxAsk : EmplaceBack(n)
    \/ \E n \in 0..MaxBytes : Drain(n) \/ PullupFrom(n) \/ WriteFrom(n)
    \/ UseNoFront
    \/ Clear

-----------------------------------------------------------------------------
(***************************************************************************)
(* StreamBuf: an istream over the chain, through which protobuf parses.    *)
(* The chain is its parser's alone until it is destroyed, and every node   *)
(* has bytes: GrpcStream fills what it reserves (GrpcServ.cpp:131).  The   *)
(* put area is left out, nobody writes to a chain by a stream.             *)
(***************************************************************************)
OpenStream ==
    /\ sbuf.phase \in {"none", "closed"}
    /\ \A i \in DOMAIN nodes : nodes[i].data # << >>
    /\ sbuf' = [NoStream EXCEPT !.phase = "open", !.from = lo]
    /\ ret' = NoBuffer
    /\ UNCHANGED <<nodes, size, lo, hi, merged, failed>>

(* The front node's bytes, at most a block of them.                        *)
GetArea(ns) ==
    IF ns = << >> THEN 0 ELSE Min({Len(Head(ns).data), BlockSize})

(* underflow, when the get area is used up: what was read is drained and   *)
(* the area set to what is in front then; at the end it stays as it was.   *)
(* Here too writeFrom may find no front node.                              *)
UnderflowKeeping ==    \* faulty
    /\ sbuf.phase = "open" /\ sbuf.done = sbuf.area
    /\ sbuf' = [sbuf EXCEPT !.area = GetArea(nodes), !.done = 0]
    /\ UNCHANGED <<nodes, size, lo, hi, ret, merged, failed>>

Underflow ==
    /\ sbuf.phase = "open" /\ sbuf.done = sbuf.area
    /\ LET d == Drained(nodes, sbuf.done) IN
       /\ nodes' = d.ns
       /\ size' = size - (sbuf.done - d.left)
       /\ lo' = lo + sbuf.done - d.left
       /\ sbuf' = IF GetArea(d.ns) > 0
                  THEN [sbuf EXCEPT !.area = GetArea(d.ns), !.done = 0]
                  ELSE [sbuf EXCEPT !.phase = "eof"]
    /\ failed' = NoFront'
    /\ UNCHANGED <<hi, ret, merged>>

(* The parser takes n bytes of the get area.                               *)
StreamRead(n) ==
    /\ sbuf.phase = "open" /\ n <= sbuf.area - sbuf.done
    /\ sbuf' = [sbuf EXCEPT
                 !.done = @ + n,
                 !.out = @ \o SubSeq(Head(nodes).data, sbuf.done + 1,
                                     sbuf.done + n)]
    /\ UNCHANGED <<nodes, size, lo, hi, ret, merged, failed>>

(* The destructor drains what was read of the last area; at the end of the *)
(* chain that was drained before, and nothing is left to drain again.      *)
CloseStream ==
    /\ sbuf.phase \in {"open", "eof"}
    /\ Drain(sbuf.done)
    /\ sbuf' = [sbuf EXCEPT !.phase = "closed"]

Stream ==
    \/ OpenStream
    \/ Underflow
    \/ \E n \in 1..BlockSize : StreamRead(n)
    \/ CloseStream

ChainNext ==
    /\ ~failed
    /\ \/ /\ sbuf.phase \in {"none", "closed"}
          /\ Operation
          /\ sbuf' = NoStream
       \/ Stream

ChainSpec == NewChain /\ [][ChainNext]_chainVars

-----------------------------------------------------------------------------
ChainTypeOK ==
    /\ \A i \in DOMAIN nodes :
         /\ nodes[i].data \in Seq(1..MaxBytes)
         /\ nodes[i].begin + Len(nodes[i].data) <= nodes[i].room
    /\ size \in Nat /\ lo \in Nat /\ hi \in 0..MaxBytes
    /\ merged \in BOOLEAN /\ failed \in BOOLEAN
    /\ sbuf.phase \in {"none", "open", "eof", "closed"}
    /\ sbuf.done <= sbuf.area /\ sbuf.area <= BlockSize

(* As long as case 1 was not taken, the chain holds the bytes that were    *)
(* written and not drained, in order, wherever they lie in its nodes, and  *)
(* size_ is their number (Chain.hpp:92-177).                               *)
ContentKept ==
    ~merged => /\ Content(nodes) = Bytes(lo, hi - lo)
               /\ size = hi - lo

(* As long as case 1 was not taken, a caller that pulls up bytes which are *)
(* there gets at least those, from the front, and the loop finds a next    *)
(* node as long as it needs one (the assertion of Chain.hpp:136).          *)
PulledUp ==
    ~merged =>
        /\ ~failed
        /\ Len(ret.got) >= ret.want
        /\ ret.got = Bytes(lo, Len(ret.got))

(* A parser gets the chain's bytes through the stream in order, none left  *)
(* out and none twice across the nodes, and when the stream is destroyed   *)
(* exactly what was read is gone from the chain (Chain.hpp:191-216).       *)
StreamInOrder ==
    ~merged =>
        /\ sbuf.out = Bytes(sbuf.from, Len(sbuf.out))
        /\ sbuf.phase = "closed" => lo = sbuf.from + Len(sbuf.out)

(* The same without the restriction: GrpcServ.hpp:26, messages "splitted   *)
(* by several DATA frames" are reconstructed "using this buffer".          *)
PulledUpWhole == ~failed => Len(ret.got) >= ret.want
=============================================================================
