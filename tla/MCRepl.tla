-------------------------------- MODULE MCRepl --------------------------------
(***************************************************************************)
(* Instances of Repl: keys and patterns over the words a and b, chosen so  *)
(* that patterns share tokens, that one list of the index is shorter than  *)
(* another for the same key, and that some patterns have wildcards only.   *)
(* A behaviour that begins with a pair of MCTopic first puts it aside.     *)
(***************************************************************************)
EXTENDS Repl, MCTopic, TLC

CONSTANTS a, b

KeyA  == <<a>>
KeyAB == <<a, b>>
KeyBA == <<b, a>>

(* "a.b", "a.*" and "#": an exact pattern, one that shares the token a     *)
(* with it, and one without tokens.                                        *)
OneKey        == {KeyAB}
ThreePatterns == {KeyAB, <<a, Star>>, <<HashMark>>}

(* Two keys over the same tokens and the patterns that tell them apart.    *)
TwoKeys       == {KeyAB, KeyA}
MixedPatterns == {KeyAB, KeyA, <<a, HashMark, b>>, <<Star>>}

PutAside == ~NoPair /\ aKey' = << >> /\ aPat' = << >> /\ UNCHANGED vars

MCInit == Init /\ AnyPair
MCNext == PutAside \/ (NoPair /\ Next /\ UNCHANGED <<aKey, aPat>>)
MCSpec == MCInit /\ [][MCNext]_<<vars, aKey, aPat>>

Symmetric == Permutations(Threads) \cup Permutations(Consumers)
=============================================================================
