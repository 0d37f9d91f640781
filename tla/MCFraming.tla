------------------------------- MODULE MCFraming -------------------------------
(* All streams of three messages of up to two bytes, with a prefix of two. *)
EXTENDS Framing

StartOf(size) ==
    LET at[k \in 1..(Len(size) + 1)] ==
            IF k = 1 THEN 0 ELSE at[k - 1] + Prefix + size[k - 1]
    IN  at

MCPrefix == 2
MCWires ==
    {[size |-> s, parses |-> p, start |-> StartOf(s)] :
        s \in [1..3 -> 0..2], p \in [1..3 -> BOOLEAN]}
MCGarbage == 0..3
=============================================================================
