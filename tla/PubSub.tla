-------------------------------- MODULE PubSub --------------------------------
(***************************************************************************)
(* What the broker promises, with no index, no lock and no pattern object: *)
(* a relation between consumers and patterns.  Every request takes effect  *)
(* at one instant, a batch as a whole.  A publication goes, at one instant *)
(* and in the relation of that instant, to matching subscriptions only,    *)
(* once to each subscription it goes to, and at least to those matching    *)
(* ones that are found whatever way the index is used.                     *)
(*                                                                         *)
(* It does not promise that every matching subscription is served: the     *)
(* code does not keep that promise (Repl.tla, DeliveryComplete).           *)
(***************************************************************************)
CONSTANTS
    Threads, Consumers, Keys, Patterns,
    Matches(_, _),       \* does this key match this pattern
    Found(_, _)          \* is it found for this key in any case

VARIABLES
    members,    \* the consumers that may subscribe
    rel,        \* pairs <<consumer, pattern>>
    pub         \* the publication a thread has made and not yet returned from

vars == <<members, rel, pub>>

NoPub == [done |-> FALSE]

Publication == [done : {TRUE}, key : Keys, to : SUBSET (Consumers \X Patterns)]

Matching(k) == {s \in rel : Matches(k, s[2])}

Guaranteed(k) == {s \in Matching(k) : Found(k, s[2])}

-----------------------------------------------------------------------------
Init ==
    /\ members = {}
    /\ rel = {}
    /\ pub = [t \in Threads |-> NoPub]

Join(c) ==
    /\ members' = members \cup {c}
    /\ UNCHANGED <<rel, pub>>

Leave(c) ==
    /\ members' = members \ {c}
    /\ rel' = {s \in rel : s[1] # c}
    /\ UNCHANGED pub

Subscribe(c, batch) ==
    /\ UNCHANGED <<members, pub>>
    /\ rel' = rel \cup ({c} \X batch)

Unsubscribe(c, batch) ==
    /\ UNCHANGED <<members, pub>>
    /\ rel' = rel \ ({c} \X batch)

Publish(t, k) ==
    /\ pub[t] = NoPub
    /\ \E to \in SUBSET Matching(k) :
         /\ Guaranteed(k) \subseteq to
         /\ pub' = [pub EXCEPT ![t] = [done |-> TRUE, key |-> k, to |-> to]]
    /\ UNCHANGED <<members, rel>>

Return(t) ==
    /\ pub[t] # NoPub
    /\ pub' = [pub EXCEPT ![t] = NoPub]
    /\ UNCHANGED <<members, rel>>

Next ==
    \/ \E c \in Consumers : Join(c) \/ Leave(c)
    \/ \E c \in members, batch \in SUBSET Patterns :
         Subscribe(c, batch) \/ Unsubscribe(c, batch)
    \/ \E t \in Threads : Return(t) \/ \E k \in Keys : Publish(t, k)

Spec == Init /\ [][Next]_vars
=============================================================================
