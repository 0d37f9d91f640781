--------------------------------- MODULE Repl ---------------------------------
(***************************************************************************)
(* The replicator, Repl.h: consumers, patterns, the index of patterns by   *)
(* token, and the reader-writer lock under which the threads of the server *)
(* use them.                                                               *)
(*                                                                         *)
(* A public operation is a lock acquisition, the body and a release; the   *)
(* body of a batch takes one step per pattern, that of removeConsumer one  *)
(* per pattern of the consumer, that of consume one per candidate pattern. *)
(* The lock itself is not a variable: op[t] says what thread t is inside   *)
(* of, and so whether it holds the lock and how.                           *)
(*                                                                         *)
(* A Pattern object is known by its text: one exists for a text p iff      *)
(* p \in patterns, and its vector of consumers is subs[p].  Vectors hold   *)
(* no element twice and are modelled as sets; hashes of topics and tokens  *)
(* are taken to be collision-free.                                         *)
(***************************************************************************)
EXTENDS Topic

CONSTANTS
    Threads,
    Consumers,
    Keys,       \* keys that are published
    Patterns,   \* patterns that are subscribed to
    MaxBatch    \* bound on the patterns of one batch request

ASSUME TopicsAssumption ==
    Keys \subseteq Seq(Word) /\ Patterns \subseteq Seq(PatWord)

ASSUME MaxBatchAssumption == MaxBatch \in Nat

VARIABLES
    patterns,   \* patterns_: texts for which a Pattern exists
    consumers,  \* consumers_: registered consumers
    subs,       \* subs[p]: Pattern::consumers
    pats,       \* pats[c]: Consumer::patterns
    index,      \* index_[w]; a token with no list is one mapped to {}
    anyindex,   \* anyindex_: patterns made of wildcards only
    op          \* op[t]: the operation thread t is inside of

tables == <<patterns, consumers, subs, pats, index, anyindex>>
vars   == <<tables, op>>

Token == UNION {TokenSet(p) : p \in Patterns \cup Keys}

Idle == [kind |-> "idle"]

WriteOp == [kind : {"sub", "unsub", "rm"},
            cons : Consumers,
            todo : SUBSET Patterns]

(* list and any are what is left of the two loops of consume.              *)
ReadOp == [kind : {"consume"},
           key  : Keys,
           list : SUBSET Patterns,
           any  : SUBSET Patterns,
           sent : SUBSET (Consumers \X Patterns)]

WriteKinds == {"sub", "unsub", "rm"}

TypeOK ==
    /\ patterns \subseteq Patterns
    /\ consumers \subseteq Consumers
    /\ subs \in [Patterns -> SUBSET Consumers]
    /\ pats \in [Consumers -> SUBSET Patterns]
    /\ index \in [Token -> SUBSET Patterns]
    /\ anyindex \subseteq Patterns
    /\ op \in [Threads -> {Idle} \cup WriteOp \cup ReadOp]

(* What a Pattern and a Consumer start with.                               *)
NewPattern  == {}
NewConsumer == {}

NoTables ==
    /\ patterns = {}
    /\ consumers = {}
    /\ index = [w \in Token |-> {}]
    /\ anyindex = {}

Init ==
    /\ NoTables
    /\ subs = [p \in Patterns |-> NewPattern]
    /\ pats = [c \in Consumers |-> NewConsumer]
    /\ op = [t \in Threads |-> Idle]

-----------------------------------------------------------------------------
(* The lock: std::shared_lock excludes writers, std::unique_lock everyone. *)
CanReadAlways(t) == op[t].kind = "idle"    \* faulty

CanRead(t) ==
    /\ op[t].kind = "idle"
    /\ \A u \in Threads : op[u].kind \notin WriteKinds

CanWriteBesideReaders(t) ==    \* faulty
    /\ op[t].kind = "idle"
    /\ \A u \in Threads : op[u].kind \notin WriteKinds

CanWrite(t) == \A u \in Threads : op[u].kind = "idle"

(* indexPattern and unindexPattern, on the values of index_ and anyindex_. *)
IndexedLastTokenOnly(p) ==    \* faulty
    [w \in Token |-> IF TokenSet(p) # {} /\ w = Tokens(p)[Len(Tokens(p))]
                     THEN index[w] \cup {p} ELSE index[w]]

Indexed(p) ==
    [w \in Token |-> IF w \in TokenSet(p) THEN index[w] \cup {p} ELSE index[w]]

Unindexed(p) ==
    [w \in Token |-> IF w \in TokenSet(p) THEN index[w] \ {p} ELSE index[w]]

AnyIndexedAlways(p) == anyindex \cup {p}    \* faulty

AnyIndexed(p)   == IF TokenSet(p) = {} THEN anyindex \cup {p} ELSE anyindex
AnyUnindexed(p) == IF TokenSet(p) = {} THEN anyindex \ {p} ELSE anyindex

(* Pattern p loses consumer c, and with its last consumer is unindexed,    *)
(* erased and deleted.                                                     *)
DropFromPatternKeepIndexed(c, p) ==    \* faulty
    /\ subs' = [subs EXCEPT ![p] = @ \ {c}]
    /\ patterns' = IF subs[p] = {c} THEN patterns \ {p} ELSE patterns
    /\ UNCHANGED <<index, anyindex>>

DropFromPattern(c, p) ==
    /\ subs' = [subs EXCEPT ![p] = @ \ {c}]
    /\ IF subs[p] \ {c} = {}
       THEN /\ patterns' = patterns \ {p}
            /\ index' = Unindexed(p)
            /\ anyindex' = AnyUnindexed(p)
       ELSE UNCHANGED <<patterns, index, anyindex>>

(* reindexToken: the tokens of a key that some pattern is filed under, and *)
(* the first of those with the fewest patterns.                            *)
Present(k) == {i \in 1..Len(Tokens(k)) : index[Tokens(k)[i]] # {}}

ListSize(k, i) == Cardinality(index[Tokens(k)[i]])

IsBest(k, i) ==
    \A j \in Present(k) :
        \/ ListSize(k, i) < ListSize(k, j)
        \/ ListSize(k, i) = ListSize(k, j) /\ i <= j

CandidateLists(k) ==
    IF Present(k) = {} THEN {{}}
    ELSE {index[Tokens(k)[i]] : i \in {j \in Present(k) : IsBest(k, j)}}

-----------------------------------------------------------------------------
(* addConsumer, called by the constructor of a consumer stream: the object *)
(* is new and so is its list of patterns.                                  *)
AddConsumer(t, c) ==
    /\ CanWrite(t)
    /\ c \notin consumers
    /\ consumers' = consumers \cup {c}
    /\ pats' = [pats EXCEPT ![c] = {}]
    /\ UNCHANGED <<patterns, subs, index, anyindex, op>>

(* subscribeBatch and unsubscribeBatch take the lock; the consumer may     *)
(* have been removed by then when the request came through the queue of    *)
(* GrpcRepl.                                                               *)
BeginBatch(t, c, kind, batch) ==
    /\ CanWrite(t)
    /\ op' = [op EXCEPT ![t] = [kind |-> kind, cons |-> c, todo |-> batch]]
    /\ UNCHANGED tables

Done(t, p) == op' = [op EXCEPT ![t].todo = @ \ {p}]

(* subscribeUnlocked *)
SubscribeOne(t, p) ==
    LET c == op[t].cons IN
    /\ op[t].kind = "sub"
    /\ p \in op[t].todo
    /\ Done(t, p)
    /\ IF c \in consumers
       THEN /\ patterns' = patterns \cup {p}
            /\ index' = IF p \in patterns THEN index ELSE Indexed(p)
            /\ anyindex' = IF p \in patterns THEN anyindex ELSE AnyIndexed(p)
            /\ subs' = [subs EXCEPT ![p] = @ \cup {c}]
            /\ pats' = [pats EXCEPT ![c] = @ \cup {p}]
       ELSE UNCHANGED <<patterns, index, anyindex, subs, pats>>
    /\ UNCHANGED consumers

(* unsubscribeUnlocked *)
UnsubscribeOne(t, p) ==
    LET c == op[t].cons IN
    /\ op[t].kind = "unsub"
    /\ p \in op[t].todo
    /\ Done(t, p)
    /\ IF c \in consumers /\ p \in patterns /\ c \in subs[p]
       THEN pats' = [pats EXCEPT ![c] = @ \ {p}] /\ DropFromPattern(c, p)
       ELSE UNCHANGED <<patterns, index, anyindex, subs, pats>>
    /\ UNCHANGED consumers

EndBatch(t) ==
    /\ op[t].kind \in {"sub", "unsub"}
    /\ op[t].todo = {}
    /\ op' = [op EXCEPT ![t] = Idle]
    /\ UNCHANGED tables

(* removeConsumer, called by the destructor of a consumer stream.  The     *)
(* consumer's own list is iterated, not changed.                           *)
BeginRemove(t, c) ==
    /\ CanWrite(t)
    /\ c \in consumers
    /\ op' = [op EXCEPT ![t] = [kind |-> "rm", cons |-> c, todo |-> pats[c]]]
    /\ UNCHANGED tables

RemoveOne(t, p) ==
    /\ op[t].kind = "rm"
    /\ p \in op[t].todo
    /\ Done(t, p)
    /\ DropFromPattern(op[t].cons, p)
    /\ UNCHANGED <<consumers, pats>>

EndRemove(t) ==
    /\ op[t].kind = "rm"
    /\ op[t].todo = {}
    /\ consumers' = consumers \ {op[t].cons}
    /\ op' = [op EXCEPT ![t] = Idle]
    /\ UNCHANGED <<patterns, subs, pats, index, anyindex>>

(* consume *)
BeginConsume(t, k) ==
    /\ CanRead(t)
    /\ \E list \in CandidateLists(k) :
         op' = [op EXCEPT ![t] = [kind |-> "consume", key |-> k, list |-> list,
                                  any |-> anyindex, sent |-> {}]]
    /\ UNCHANGED tables

(* tryConsume: every consumer of a matching pattern gets the message.      *)
Receivers(k, p) == IF Matches(k, p) THEN subs[p] \X {p} ELSE {}

TryListed(t, p) ==
    /\ op[t].kind = "consume"
    /\ p \in op[t].list
    /\ op' = [op EXCEPT ![t].list = @ \ {p},
                        ![t].sent = @ \cup Receivers(op[t].key, p)]
    /\ UNCHANGED tables

TryAny(t, p) ==
    /\ op[t].kind = "consume"
    /\ op[t].list = {}
    /\ p \in op[t].any
    /\ op' = [op EXCEPT ![t].any = @ \ {p},
                        ![t].sent = @ \cup Receivers(op[t].key, p)]
    /\ UNCHANGED tables

Finished(t) ==
    op[t].kind = "consume" /\ op[t].list = {} /\ op[t].any = {}

EndConsume(t) ==
    /\ Finished(t)
    /\ op' = [op EXCEPT ![t] = Idle]
    /\ UNCHANGED tables

Batches == {b \in SUBSET Patterns : b # {} /\ Cardinality(b) <= MaxBatch}

Next ==
    \E t \in Threads :
        \/ \E c \in Consumers :
             \/ AddConsumer(t, c)
             \/ BeginRemove(t, c)
             \/ \E kind \in {"sub", "unsub"}, b \in Batches :
                  BeginBatch(t, c, kind, b)
        \/ \E k \in Keys : BeginConsume(t, k)
        \/ \E p \in Patterns :
             \/ SubscribeOne(t, p)
             \/ UnsubscribeOne(t, p)
             \/ RemoveOne(t, p)
             \/ TryListed(t, p)
             \/ TryAny(t, p)
        \/ EndBatch(t)
        \/ EndRemove(t)
        \/ EndConsume(t)

Spec == Init /\ [][Next]_vars

-----------------------------------------------------------------------------
(***************************************************************************)
(* Properties.                                                             *)
(***************************************************************************)

(* A writer is alone with the tables: no other thread is inside of any     *)
(* operation, so no consume sees half a batch or half a removal.           *)
WriterAlone ==
    \A t, u \in Threads :
        t # u /\ op[t].kind \in WriteKinds => op[u].kind = "idle"

(* The two vectors that record a subscription agree (the asserts at        *)
(* Repl.h:365, :503, :509 and :534): a pattern names a consumer iff the    *)
(* consumer is registered and names the pattern, up to what an unfinished  *)
(* removal has already taken out of the patterns.                          *)
LinksAgree ==
    \A c \in Consumers, p \in Patterns :
        c \in subs[p] <=>
            /\ c \in consumers
            /\ p \in pats[c]
            /\ \A t \in Threads :
                 op[t].kind = "rm" /\ op[t].cons = c => p \in op[t].todo

(* A Pattern exists exactly while somebody is subscribed to it (Repl.h:372 *)
(* and :544): none leaks, and none is deleted under a subscriber.          *)
AliveIffSubscribed == patterns = {p \in Patterns : subs[p] # {}}

(* The index holds the existing patterns and no dangling pointer: each     *)
(* under all of its tokens, and those without a token apart (Repl.h:168,   *)
(* :208).                                                                  *)
IndexExact ==
    /\ \A w \in Token : index[w] = {p \in patterns : w \in TokenSet(p)}
    /\ anyindex = {p \in patterns : TokenSet(p) = {}}

(* The four tables never contradict each other in what the code relies on  *)
(* when it dereferences the result of a search (Repl.h:361-376, :500-546). *)
TablesAgree == LinksAgree /\ AliveIffSubscribed /\ IndexExact

(* A consume never touches a deleted pattern or hands a message to a       *)
(* removed consumer, whatever other threads remove meanwhile (Repl.h:361,  *)
(* :376 against :425).                                                     *)
ConsumeTouchesLiveObjects ==
    \A t \in Threads :
        op[t].kind = "consume" =>
            /\ op[t].list \cup op[t].any \subseteq patterns
            /\ \A s \in op[t].sent : s[1] \in consumers /\ s[1] \in subs[s[2]]

(* No subscription gets one message twice: the list chosen by token and    *)
(* the list of wildcard-only patterns have nothing in common, so what is   *)
(* still to be tried was not tried before (Repl.h:425, :430).              *)
AtMostOncePerSubscription ==
    \A t \in Threads :
        op[t].kind = "consume" =>
            /\ op[t].list \cap op[t].any = {}
            /\ \A s \in op[t].sent : s[2] \notin op[t].list \cup op[t].any

(* Whichever token of the key the index lookup settles on, pattern p is in *)
(* the list that it finds, or apart with the patterns without tokens.      *)
FoundByAnyToken(k, p) == TokenSet(p) = {} \/ TokenSet(k) \subseteq TokenSet(p)

(* What of the promise of rtkmb.proto:17-21 the code does keep: of the     *)
(* patterns a key matches, the subscriptions to those that any choice of   *)
(* reindexToken finds are all served (Repl.h:251, :425-446), the key       *)
(* itself and the patterns of wildcards only among them.                   *)
SureDelivery ==
    \A t \in Threads :
        Finished(t) =>
            \A c \in consumers : \A p \in pats[c] :
                /\ FoundByAnyToken(op[t].key, p)
                /\ WellFormed(p) /\ RefMatches(op[t].key, p)
                => <<c, p>> \in op[t].sent

(* rtkmb.proto:17-21: a consumer that has subscribed to a pattern the key  *)
(* matches gets the message.                                               *)
DeliveryComplete ==
    \A t \in Threads :
        Finished(t) =>
            \A c \in consumers, p \in Patterns :
                p \in pats[c] /\ RefMatches(op[t].key, p)
                    => \E s \in op[t].sent : s[1] = c

-----------------------------------------------------------------------------
(***************************************************************************)
(* Repl implements PubSub.  A batch or a removal counts as done from the   *)
(* moment its thread has the lock; a publication is made by the step that  *)
(* tries its last candidate and returned from when the lock is released.   *)
(***************************************************************************)
OpsOf(kind) == {t \in Threads : op[t].kind = kind}

Subscribed == {s \in Consumers \X Patterns : s[1] \in subs[s[2]]}

ToSubscribe ==
    {s \in consumers \X Patterns :
        \E t \in OpsOf("sub") : s[1] = op[t].cons /\ s[2] \in op[t].todo}

ToUnsubscribe ==
    {s \in Consumers \X Patterns :
        \E t \in OpsOf("unsub") \cup OpsOf("rm") :
            s[1] = op[t].cons /\ s[2] \in op[t].todo}

Leaving == {c \in Consumers : \E t \in OpsOf("rm") : op[t].cons = c}

absMembers == consumers \ Leaving
absRel     == (Subscribed \cup ToSubscribe) \ ToUnsubscribe
absPub     == [t \in Threads |->
                 IF Finished(t)
                 THEN [done |-> TRUE, key |-> op[t].key, to |-> op[t].sent]
                 ELSE [done |-> FALSE]]

Abstract == INSTANCE PubSub WITH
                Found <- FoundByAnyToken,
                members <- absMembers, rel <- absRel, pub <- absPub

(* Every step of the broker is a step of PubSub or invisible there: each   *)
(* request takes effect at one instant, and what a publication reaches is  *)
(* right for the subscriptions of one instant (Repl.h:320-475).            *)
ImplementsPubSub == Abstract!Spec
=============================================================================
