-------------------------------- MODULE Workers --------------------------------
(***************************************************************************)
(* GrpcRepl: the requests of the streams go through one bounded queue to   *)
(* worker threads, which apply them to the replicator.                     *)
(*                                                                         *)
(* The parts it is built from are taken for what they are shown to be: the *)
(* queue for a Fifo (BoundedQueue implements it), a call of the replicator *)
(* for one instant of PubSub (Repl implements it).  A request is a pair    *)
(* <<c, n>>: the n-th of stream c.  The stream's handler runs under the    *)
(* lock of its connection and waits there while the queue is full.  The    *)
(* constructor of a consumer stream asks to be added (GrpcRestr.hpp:86     *)
(* names addConsumerEvent, which does not exist; addConsumerAsync is the   *)
(* one function of GrpcRepl.h that it can mean); its destructor removes    *)
(* the stream at once.  Nobody asks for RM.                                *)
(***************************************************************************)
EXTENDS Naturals, Sequences, FiniteSets

CONSTANTS
    Handlers,       \* threads of the event loop
    Workers,        \* threads that run loop()
    Streams,
    Patterns,
    Limit,          \* of the queue: 16 in the code
    MaxRequests,    \* bound: requests of all streams together
    Nothing

ASSUME WorkersAssumption ==
    /\ Limit \in Nat \ {0}
    /\ MaxRequests \in Nat \ {0}
    /\ IsFiniteSet(Streams) /\ IsFiniteSet(Workers)
    /\ Nothing \notin Streams \X Nat

VARIABLES
    running,     \* the workers that were started
    stream,      \* stream[c]: "new", "open" or "closed"
    sent,        \* sent[c]: the requests stream c has made, in order
    pushing,     \* pushing[h]: the request a handler is about to push
    bbq,         \* bbq_
    held,        \* held[w]: the element e of a worker
    members,     \* consumers_ of the replicator
    rel,         \* subscriptions, as in PubSub
    consumed,    \* publications that were handed to the replicator
    late,        \* streams that were added after their end
    overtaken    \* streams of which a request was applied while another
                 \* worker had an older one

vars == <<running, stream, sent, pushing, bbq, held, members, rel, consumed,
          late, overtaken>>

repl == <<members, rel, consumed, late, overtaken>>

Kinds    == {"CONS", "SUB", "USUB", "ADD"}
Requests == [type : Kinds, pats : SUBSET Patterns]
Elems    == Streams \X (1..MaxRequests)

Request(e) == sent[e[1]][e[2]]

TypeOK ==
    /\ running \subseteq Workers
    /\ stream \in [Streams -> {"new", "open", "closed"}]
    /\ sent \in [Streams -> Seq(Requests)]
    /\ pushing \in [Handlers -> Elems \cup {Nothing}]
    /\ bbq \in Seq(Elems)
    /\ Len(bbq) <= Limit
    /\ held \in [Workers -> Elems \cup {Nothing}]
    /\ members \subseteq Streams
    /\ rel \subseteq Streams \X Patterns
    /\ consumed \subseteq Elems
    /\ late \subseteq Streams
    /\ overtaken \subseteq Streams

NewGrpcRepl ==
    /\ bbq = << >>
    /\ members = {}
    /\ rel = {}
    /\ consumed = {}
    /\ late = {}
    /\ overtaken = {}

Init ==
    /\ running \in SUBSET Workers \ {{}}
    /\ stream = [c \in Streams |-> "new"]
    /\ sent = [c \in Streams |-> << >>]
    /\ pushing = [h \in Handlers |-> Nothing]
    /\ held = [w \in Workers |-> Nothing]
    /\ NewGrpcRepl

-----------------------------------------------------------------------------
(* One thread is in the handlers of a stream, and it is not waiting.       *)
Free(h, c) ==
    /\ pushing[h] = Nothing
    /\ \A g \in Handlers : pushing[g] # Nothing => pushing[g][1] # c

Made == {e \in Elems : e[2] <= Len(sent[e[1]])}

Ask(h, c, type, pats) ==
    /\ Cardinality(Made) < MaxRequests
    /\ sent' = [sent EXCEPT ![c] = Append(@, [type |-> type, pats |-> pats])]
    /\ pushing' = [pushing EXCEPT ![h] = <<c, Len(sent[c]) + 1>>]

(* The constructor of a consumer stream.                                   *)
Open(h, c) ==
    /\ stream[c] = "new" /\ Free(h, c)
    /\ stream' = [stream EXCEPT ![c] = "open"]
    /\ Ask(h, c, "ADD", {})
    /\ UNCHANGED <<running, bbq, held, repl>>

(* subscribeBatchAsync, unsubscribeBatchAsync and consumeAsync.            *)
Async(h, c, type, pats) ==
    /\ stream[c] = "open" /\ Free(h, c)
    /\ Ask(h, c, type, pats)
    /\ UNCHANGED <<running, stream, bbq, held, repl>>

(* The destructor of a consumer stream calls removeConsumer itself.        *)
Close(h, c) ==
    /\ stream[c] = "open" /\ Free(h, c)
    /\ stream' = [stream EXCEPT ![c] = "closed"]
    /\ members' = members \ {c}
    /\ rel' = {s \in rel : s[1] # c}
    /\ UNCHANGED <<running, sent, pushing, bbq, held, consumed, late, overtaken>>

(* push_back, which waits while the queue is full.                         *)
Room == Len(bbq) < Limit

Push(h) ==
    /\ pushing[h] # Nothing
    /\ Room
    /\ bbq' = Append(bbq, pushing[h])
    /\ pushing' = [pushing EXCEPT ![h] = Nothing]
    /\ UNCHANGED <<running, stream, sent, held, repl>>

-----------------------------------------------------------------------------
(* pop_front                                                               *)
TakenFromBack(w) ==    \* faulty
    /\ held' = [held EXCEPT ![w] = bbq[Len(bbq)]]
    /\ bbq' = SubSeq(bbq, 1, Len(bbq) - 1)

TakenFromFront(w) ==
    /\ held' = [held EXCEPT ![w] = Head(bbq)]
    /\ bbq' = Tail(bbq)

Take(w) ==
    /\ w \in running /\ held[w] = Nothing
    /\ bbq # << >>
    /\ TakenFromFront(w)
    /\ UNCHANGED <<running, stream, sent, pushing, repl>>

(* The switch of loop().  A request for a consumer that the replicator     *)
(* does not know is ignored there.                                         *)
SubscribedUnknown(c, pats) == rel \cup ({c} \X pats)    \* faulty

Subscribed(c, pats) == IF c \in members THEN rel \cup ({c} \X pats) ELSE rel

Overtakes(w) ==
    \E v \in Workers : /\ held[v] # Nothing
                       /\ held[v][1] = held[w][1] /\ held[v][2] < held[w][2]

NoteOrder(w) ==
    overtaken' = IF Overtakes(w) THEN overtaken \cup {held[w][1]} ELSE overtaken

DoneForEver(w) ==    \* faulty
    /\ held' = [held EXCEPT ![w] = Nothing]
    /\ running' = running \ {w}
    /\ NoteOrder(w)
    /\ UNCHANGED <<stream, sent, pushing, bbq>>

Done(w) ==
    /\ held' = [held EXCEPT ![w] = Nothing]
    /\ NoteOrder(w)
    /\ UNCHANGED <<running, stream, sent, pushing, bbq>>

Holds(w, type) == held[w] # Nothing /\ Request(held[w]).type = type

ApplySub(w) ==
    /\ Holds(w, "SUB")
    /\ rel' = Subscribed(held[w][1], Request(held[w]).pats)
    /\ Done(w)
    /\ UNCHANGED <<members, consumed, late>>

ApplyUsub(w) ==
    /\ Holds(w, "USUB")
    /\ rel' = rel \ ({held[w][1]} \X Request(held[w]).pats)
    /\ Done(w)
    /\ UNCHANGED <<members, consumed, late>>

ApplyCons(w) ==
    /\ Holds(w, "CONS")
    /\ consumed' = consumed \cup {held[w]}
    /\ Done(w)
    /\ UNCHANGED <<members, rel, late>>

ApplyAdd(w) ==
    /\ Holds(w, "ADD")
    /\ members' = members \cup {held[w][1]}
    /\ late' = IF stream[held[w][1]] = "closed"
               THEN late \cup {held[w][1]} ELSE late
    /\ Done(w)
    /\ UNCHANGED <<rel, consumed>>

Apply(w) ==
    ApplySub(w) \/ ApplyUsub(w) \/ ApplyCons(w) \/ ApplyAdd(w)

Next ==
    \/ \E h \in Handlers, c \in Streams :
         \/ Open(h, c) \/ Close(h, c) \/ Async(h, c, "CONS", {})
         \/ \E type \in {"SUB", "USUB"}, pats \in SUBSET Patterns \ {{}} :
              Async(h, c, type, pats)
    \/ \E h \in Handlers : Push(h)
    \/ \E w \in Workers : Take(w) \/ Apply(w)

Spec == Init /\ [][Next]_vars

(* A worker and a handler go on as soon as the queue lets them: a thread   *)
(* that waits for it is woken (NobodyForgotten of BoundedQueue) and, as    *)
(* others come and go, gets its turn again and again.                      *)
FairSpec ==
    /\ Spec
    /\ \A h \in Handlers : SF_vars(Push(h))
    /\ \A w \in Workers : SF_vars(Take(w)) /\ WF_vars(Apply(w))

-----------------------------------------------------------------------------
(* The stream has been promised that e will be applied.                    *)
Asked(e) ==
    \/ \E h \in Handlers : pushing[h] = e
    \/ \E i \in 1..Len(bbq) : bbq[i] = e
    \/ \E w \in Workers : held[w] = e

(* Every request of a stream, at whatever point the queue is full and      *)
(* whichever worker takes it, is applied in the end.                       *)
RequestsApplied == \A e \in Elems : Asked(e) ~> ~Asked(e)

(* The requests of c, applied in the order they were made, end with p      *)
(* subscribed.                                                             *)
EndsSubscribed(c, p) ==
    \E i \in 1..Len(sent[c]) :
        /\ sent[c][i].type = "SUB" /\ p \in sent[c][i].pats
        /\ \A j \in i..Len(sent[c]) :
             sent[c][j].type = "USUB" => p \notin sent[c][j].pats

(* The queue, its producers and its consumers keep the order of a stream's *)
(* requests, with any number of workers: only in the hands of two workers  *)
(* may one overtake another.  An open stream to which that has not         *)
(* happened, and all of whose requests were applied, has the subscriptions *)
(* that its requests say in the order it made them (GrpcRepl.h:14-54).     *)
SettledInOrder ==
    \A c \in Streams \ overtaken :
        stream[c] = "open" /\ (\A e \in Elems : e[1] = c => ~Asked(e))
            => \A p \in Patterns :
                 <<c, p>> \in rel <=> EndsSubscribed(c, p)

(* Requests of a stream that has ended are still in the queue; they bring  *)
(* it back into the replicator only when its ADD is among them.            *)
DeadServedOnlyIfLate ==
    \A c \in Streams :
        stream[c] = "closed"
            => c \in late \/ (c \notin members
                              /\ \A p \in Patterns : <<c, p>> \notin rel)
=============================================================================
