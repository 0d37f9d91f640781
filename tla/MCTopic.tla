------------------------------- MODULE MCTopic -------------------------------
(***************************************************************************)
(* The matcher and the tokenizer against the meaning of the protocol file, *)
(* on a key of at most MaxKey words and a pattern of at most MaxPat words: *)
(* a behaviour begins with any of them.                                    *)
(***************************************************************************)
EXTENDS Topic

CONSTANTS MaxKey, MaxPat    \* bounds on the number of words

ASSUME BoundsAssumption == MaxKey \in Nat /\ MaxPat \in Nat

VARIABLES aKey, aPat        \* the pair that is looked at

Topics(words, max) == UNION {[1..n -> words] : n \in 0..max}

AnyPair == aKey \in Topics(Word, MaxKey) /\ aPat \in Topics(PatWord, MaxPat)
NoPair  == aKey = << >> /\ aPat = << >>

-----------------------------------------------------------------------------
(* Nothing is missed: a key a well-formed pattern stands for is matched,   *)
(* whatever mixture of '*' and '#' the pattern has (Match.cc:7).           *)
MatchComplete ==
    WellFormed(aPat) /\ RefMatches(aKey, aPat) => Matches(aKey, aPat)

(* Nothing extra is matched, for patterns without a '*' after a '#'.       *)
MatchSoundNoStarAfterHash ==
    /\ WellFormed(aPat) /\ NoStarAfterHash(aPat) /\ aKey # << >>
    /\ Matches(aKey, aPat)
    => RefMatches(aKey, aPat)

(* Why the token index may be used at all (Repl.h:251): a non-empty        *)
(* pattern that stands for a key has no token the key does not have, so    *)
(* looking only at patterns filed under tokens of the key loses nothing    *)
(* as long as all of those tokens are looked at.                           *)
TokensOfMatchInKey ==
    /\ WellFormed(aPat) /\ RefMatches(aKey, aPat)
    /\ aPat # << >>
    => TokenSet(aPat) \subseteq TokenSet(aKey)

(* Where word w is in src for the first time.                              *)
FirstOf(src, w) ==
    CHOOSE i \in 1..Len(src) :
        src[i] = w /\ \A j \in 1..(i - 1) : src[j] # w

(* A pattern is filed under each of its tokens once (Repl.h:174): Tokens   *)
(* lists every word that is not a wildcard exactly once, in the order the  *)
(* words first occur.  A second entry would deliver twice and leave a      *)
(* dangling pointer when the pattern goes.                                 *)
TokensExactlyOnce ==
    aPat # << >> =>
    LET toks == Tokens(aPat)
    IN  /\ TokenSet(aPat) = {aPat[i] : i \in 1..Len(aPat)} \ Wildcard
        /\ \A i, j \in 1..Len(toks) :
             i < j => FirstOf(aPat, toks[i]) < FirstOf(aPat, toks[j])

(* Both together are what makes a publication that looks at the lists of   *)
(* its key's tokens see each pattern once (Repl.h:160-180, :251-290).      *)
TokensServeIndex == TokensOfMatchInKey /\ TokensExactlyOnce
=============================================================================
