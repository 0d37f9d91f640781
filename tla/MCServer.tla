------------------------------- MODULE MCServer -------------------------------
(* The programs of Server that TLC checks.                                 *)
EXTENDS Server

CONSTANTS t1, t2, t3

(* Two threads on the loop of main_single_loop, or the listening thread    *)
(* and two serving threads of main_multi_loop.                             *)
BothPrograms ==
    {[shared |-> TRUE, threads |-> {t1, t2}, peers |-> 3],
     [shared |-> FALSE, threads |-> {t1, t2, t3}, peers |-> 2]}

(* One thread, so that nothing but the order of its steps is at play.      *)
OneThread == {[shared |-> TRUE, threads |-> {t1}, peers |-> 3]}
=============================================================================
