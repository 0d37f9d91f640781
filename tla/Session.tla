------------------------------- MODULE Session -------------------------------
(***************************************************************************)
(* What a connection owes the streams it serves: a stream begins only on   *)
(* an open connection, and when the connection starts to close, for any    *)
(* reason, every stream it serves ends in that very step.  So no service   *)
(* (a consumer known to the replicator, say) outlives its connection, and  *)
(* none writes to a connection that is being flushed.                      *)
(***************************************************************************)
CONSTANT Ids

VARIABLES
    phase,    \* of the connection
    live      \* streams being served

vars == <<phase, live>>

Init == phase = "open" /\ live = {}

Begin(s) ==
    /\ phase = "open"
    /\ live' = live \cup {s}
    /\ UNCHANGED phase

End(s) ==
    /\ live' = live \ {s}
    /\ UNCHANGED phase

(* To be flushed first, or at once.                                        *)
Close ==
    /\ phase = "open"
    /\ phase' \in {"closing", "gone"}
    /\ live' = {}

Flushed ==
    /\ phase = "closing"
    /\ phase' = "gone"
    /\ UNCHANGED live

Next == (\E s \in Ids : Begin(s) \/ End(s)) \/ Close \/ Flushed

Spec == Init /\ [][Next]_vars
=============================================================================
