-------------------------------- MODULE Topic --------------------------------
(***************************************************************************)
(* Topics of the broker: Match.cc of the repository, at the level of       *)
(* words.  A key is a sequence of words, a pattern a sequence of words and *)
(* wildcards; the dots that separate them are the gaps of the sequence and *)
(* the terminating NUL is its end.  The empty string is the empty          *)
(* sequence.  Words are non-empty (rtkmb.proto admits only 0-9a-zA-Z), so  *)
(* "a..b" and a leading or trailing dot are out of scope.                  *)
(***************************************************************************)
EXTENDS Naturals, Sequences, FiniteSets

CONSTANTS
    Word,         \* plain words
    Star,         \* the word "*"
    HashMark,     \* the word "#"
    StarText,     \* a word that starts with '*' and goes on, such as "*x"
    HashText,     \* a word that starts with '#' and goes on, such as "#x"
    EmptyToken    \* the zero-length token Tokens returns for ""

Wildcard  == {Star, HashMark}
Malformed == {StarText, HashText}
PatWord   == Word \cup Wildcard \cup Malformed

ASSUME TopicAssumption ==
    /\ Cardinality(Wildcard \cup Malformed \cup {EmptyToken}) = 5
    /\ Word \cap (Wildcard \cup Malformed \cup {EmptyToken}) = {}

Results == {"Yes", "No", "Bad_pat"}

(***************************************************************************)
(* What follows a word both strings have just consumed: k words of the key *)
(* and p of the pattern are used up, m is the matcher.  Both go on past a  *)
(* dot; a pattern that goes on with ".#" while the key has ended goes on   *)
(* at the '#'; both ended is a match; anything else is not.                *)
(* (AfterWordNoEnd and the other definitions marked "faulty" are what a     *)
(* plausible bug would make of the definition that follows; nothing uses   *)
(* them, they are substituted for it to see which property notices.)       *)
(***************************************************************************)
AfterWordNoEnd(m, key, pat, k, p) ==    \* faulty
    IF k < Len(key) /\ p < Len(pat) THEN m[<<k, p>>]
    ELSE IF p = Len(pat) THEN "Yes" ELSE "No"

AfterWord(m, key, pat, k, p) ==
    IF \/ k < Len(key) /\ p < Len(pat)
       \/ k = Len(key) /\ p < Len(pat) /\ pat[p + 1] \in {HashMark, HashText}
    THEN m[<<k, p>>]
    ELSE IF k = Len(key) /\ p = Len(pat) THEN "Yes" ELSE "No"

(* '#': nothing left after it matches; otherwise try it as zero words,     *)
(* then drop one word of the key and try again.                            *)
AtHashNeverEmpty(m, key, pat, k, p) ==    \* faulty
    IF p + 1 = Len(pat) THEN "Yes"
    ELSE IF k = Len(key) THEN "No"
    ELSE IF m[<<k + 1, p + 1>>] # "No" THEN m[<<k + 1, p + 1>>]
    ELSE m[<<k + 1, p>>]

AtHash(m, key, pat, k, p) ==
    IF p + 1 = Len(pat) THEN "Yes"
    ELSE IF m[<<k, p + 1>>] # "No" THEN m[<<k, p + 1>>]
    ELSE IF k = Len(key) THEN "No"
    ELSE m[<<k + 1, p>>]

(***************************************************************************)
(* Match::Match.  MatchFrom(key, pat)[<<k, p>>] is its answer once k words *)
(* of the key and p of the pattern are consumed and both stand at the      *)
(* start of a word or at their end; AnswerAt is how it gets there from the *)
(* answers m further on.  A '*' reached when the key has ended is a match  *)
(* at once, and the rest of the pattern is not looked at.                  *)
(***************************************************************************)
AnswerAt(m, key, pat, k, p) ==
    IF p = Len(pat) THEN IF k = Len(key) THEN "Yes" ELSE "No"
    ELSE CASE pat[p + 1] \in {Star, StarText} /\ k = Len(key) -> "Yes"
           [] pat[p + 1] = Star /\ k < Len(key) ->
                 AfterWord(m, key, pat, k + 1, p + 1)
           [] pat[p + 1] = StarText /\ k < Len(key) -> "Bad_pat"
           [] pat[p + 1] = HashMark -> AtHash(m, key, pat, k, p)
           [] pat[p + 1] = HashText -> "Bad_pat"
           [] OTHER -> IF k < Len(key) /\ key[k + 1] = pat[p + 1]
                       THEN AfterWord(m, key, pat, k + 1, p + 1)
                       ELSE "No"

MatchFrom(key, pat) ==
    LET m[at \in (0..Len(key)) \X (0..Len(pat))] ==
          AnswerAt(m, key, pat, at[1], at[2])
    IN  m

Match(key, pat) == MatchFrom(key, pat)[<<0, 0>>]

Matches(key, pat) == Match(key, pat) = "Yes"

(* The words Tokens skips: the one-character ones '*' and '#'.             *)
IsToken(w) == w \notin Wildcard

(* The search for a word among the tokens found so far.                    *)
SeenJustBefore(toks, w) ==    \* faulty
    toks # << >> /\ toks[Len(toks)] = w

Seen(toks, w) == \E i \in 1..Len(toks) : toks[i] = w

(***************************************************************************)
(* Match::Tokens: the words of a topic other than wildcards, each once, in *)
(* the order of their first occurrence; the empty string has one token,    *)
(* the empty one.  TokensTo(src)[i] are those of the first i words.        *)
(***************************************************************************)
TokensTo(src) ==
    LET toks[i \in 0..Len(src)] ==
          IF i = 0 THEN << >>
          ELSE IF IsToken(src[i]) /\ ~Seen(toks[i - 1], src[i])
               THEN Append(toks[i - 1], src[i])
               ELSE toks[i - 1]
    IN  toks

Tokens(src) ==
    IF src = << >> THEN <<EmptyToken>> ELSE TokensTo(src)[Len(src)]

TokenSet(src) == {Tokens(src)[i] : i \in 1..Len(Tokens(src))}

-----------------------------------------------------------------------------
(***************************************************************************)
(* The meaning the protocol file gives to a pattern, independent of the    *)
(* code: a way to cut the key into consecutive segments, one per pattern   *)
(* word, where a plain word and '*' take one word and '#' takes any        *)
(* number.  cut[p] is the number of key words used by the first p words of *)
(* the pattern.                                                            *)
(***************************************************************************)
RefMatches(key, pat) ==
    \E cut \in [0..Len(pat) -> 0..Len(key)] :
        /\ cut[0] = 0
        /\ cut[Len(pat)] = Len(key)
        /\ \A p \in 1..Len(pat) :
             CASE pat[p] = HashMark -> cut[p] >= cut[p - 1]
               [] pat[p] = Star     -> cut[p] = cut[p - 1] + 1
               [] OTHER             -> /\ cut[p] = cut[p - 1] + 1
                                       /\ key[cut[p]] = pat[p]

WellFormed(pat) == \A p \in 1..Len(pat) : pat[p] \notin Malformed

(* No '*' comes later in the pattern than a '#'.                           *)
NoStarAfterHash(pat) ==
    \A p, q \in 1..Len(pat) : p < q /\ pat[p] = HashMark => pat[q] # Star
=============================================================================
