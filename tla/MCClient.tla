------------------------------- MODULE MCClient -------------------------------
(* The command lines of Client that TLC checks: one checker at a time, and *)
(* a pool of two out of which one more is made.                            *)
EXTENDS Client

OneOrTwoAtOnce == {[pool |-> 1, total |-> 2], [pool |-> 2, total |-> 3]}
=============================================================================
