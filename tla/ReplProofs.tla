------------------------------ MODULE ReplProofs ------------------------------
(***************************************************************************)
(* Proofs about the broker's core, in three parts.                         *)
(*                                                                         *)
(* 1. Topics: what Match::Match and Match::Tokens compute, for keys and    *)
(*    patterns of any length.                                              *)
(* 2. Invariants of Repl, for any sets of threads, consumers, keys and     *)
(*    patterns, finite or infinite, and any MaxBatch.  Of topics this part *)
(*    uses the theorems of the first only.                                 *)
(* 3. Repl implements PubSub: every step of Repl, from a state that        *)
(*    satisfies the inductive invariant, is under the mapping of Repl.tla  *)
(*    a step of PubSub or leaves its variables unchanged.                  *)
(***************************************************************************)
EXTENDS Repl, MCTopic, FiniteSetTheorems, WellFoundedInduction, TLAPS

-----------------------------------------------------------------------------
(***************************************************************************)
(* Part 1: topics.  Induction is derived from the least number of a set,   *)
(* which exists because < is well-founded.                                 *)
(***************************************************************************)

(* A set of numbers that is not empty has a least one.                     *)
LEMMA LeastNat ==
    ASSUME NEW T, T \subseteq Nat, T # {}
    PROVE  \E x \in T : \A y \in T : x <= y
<1> DEFINE R == OpToRel(<, Nat)
<1>1. IsWellFoundedOn(R, Nat)
  BY NatLessThanWellFounded, Zenon
<1>2. \A x, y \in Nat : x < y => <<x, y>> \in R
  BY Zenon DEF OpToRel
<1> HIDE DEF R
<1>3. PICK x \in T : \A y \in T : ~ (<<y, x>> \in R)
  BY <1>1, WFMin, Zenon
<1>4. ASSUME NEW y \in T PROVE x <= y
  <2>1. x \in Nat /\ y \in Nat
    OBVIOUS
  <2>2. ~(y < x)
    BY <1>2, <1>3, <2>1
  <2> QED BY <2>1, <2>2
<1> QED BY <1>4

(* A set of numbers that has 0 and with each number its successor.         *)
LEMMA Induction ==
    ASSUME NEW S, 0 \in S, \A n \in Nat : n \in S => n + 1 \in S
    PROVE  Nat \subseteq S
<1> SUFFICES ASSUME Nat \ S # {} PROVE FALSE
  OBVIOUS
<1>1. PICK x \in Nat \ S : \A y \in Nat \ S : x <= y
  BY LeastNat
<1>2. x # 0 /\ x - 1 \in Nat /\ ~(x <= x - 1)
  BY <1>1
<1>3. x - 1 \in S
  BY <1>1, <1>2
<1> QED BY <1>1, <1>2, <1>3

-----------------------------------------------------------------------------
(***************************************************************************)
(* Match::Match, by induction on how much of the key and of the pattern is *)
(* left: first that the recursion defines what MatchFrom says it does,     *)
(* then that it misses nothing, then that it finds nothing else.           *)
(***************************************************************************)
Places(key, pat) == (0..Len(key)) \X (0..Len(pat))
Rest(key, pat, d) == (Len(key) - d[1]) + (Len(pat) - d[2])
Below(key, pat, n) == {d \in Places(key, pat) : Rest(key, pat, d) < n}

(* g and h give the same results to all places after <<k, p>>.             *)
AgreeAfter(g, h, key, pat, k, p) ==
    \A i \in 0..Len(key), j \in 0..Len(pat) :
        (Len(key) - i) + (Len(pat) - j) < (Len(key) - k) + (Len(pat) - p)
            => g[<<i, j>>] = h[<<i, j>>] /\ g[<<i, j>>] \in Results

(* AnswerAt looks at answers further on only, and yields a result.         *)
LEMMA AnswerLocal ==
    ASSUME NEW key \in Seq(Word), NEW pat \in Seq(PatWord),
           NEW k \in 0..Len(key), NEW p \in 0..Len(pat),
           NEW g, NEW h,
           AgreeAfter(g, h, key, pat, k, p)
    PROVE  /\ AnswerAt(g, key, pat, k, p) = AnswerAt(h, key, pat, k, p)
           /\ AnswerAt(g, key, pat, k, p) \in Results
<1>. DEFINE K == Len(key)
            P == Len(pat)
<1>0. K \in Nat /\ P \in Nat
  OBVIOUS
<1>1. CASE p = P
  BY <1>1 DEF AnswerAt, Results
<1>2. CASE p # P
  <2>1. p + 1 \in 0..P /\ k \in 0..K
    BY <1>2, <1>0
  <2>2. ASSUME k < K 
        PROVE  /\ AfterWord(g, key, pat, k + 1, p + 1)
                    = AfterWord(h, key, pat, k + 1, p + 1)
               /\ AfterWord(g, key, pat, k + 1, p + 1) \in Results
    <3>1. k + 1 \in 0..K /\ (K - (k+1)) + (P - (p+1)) < (K - k) + (P - p)
      BY <2>1, <2>2, <1>0
    <3>2. g[<<k+1, p+1>>] = h[<<k+1, p+1>>] /\ g[<<k+1, p+1>>] \in Results
      BY <2>1, <3>1 DEF AgreeAfter
    <3> QED BY <3>2 DEF AfterWord, Results
  <2>3. /\ AtHash(g, key, pat, k, p) = AtHash(h, key, pat, k, p)
        /\ AtHash(g, key, pat, k, p) \in Results
    <3>1. g[<<k, p+1>>] = h[<<k, p+1>>] /\ g[<<k, p+1>>] \in Results
      <4>1. (K - k) + (P - (p+1)) < (K - k) + (P - p)
        BY <2>1, <1>0
      <4> QED BY <2>1, <4>1 DEF AgreeAfter
    <3>2. CASE k = K
      BY <3>1, <3>2 DEF AtHash, Results
    <3>3. CASE k # K
      <4>1. k + 1 \in 0..K /\ (K - (k+1)) + (P - p) < (K - k) + (P - p)
        BY <3>3, <1>0
      <4>2. g[<<k+1, p>>] = h[<<k+1, p>>] /\ g[<<k+1, p>>] \in Results
        BY <2>1, <4>1 DEF AgreeAfter
      <4> QED BY <3>1, <4>2 DEF AtHash, Results
    <3> QED BY <3>2, <3>3
  <2> QED BY <1>2, <2>2, <2>3 DEF AnswerAt, Results
<1> QED BY <1>1, <1>2

(* The answers for the places less than n steps from the end.              *)
Answers(key, pat, n, g) ==
    /\ g \in [Below(key, pat, n) -> Results]
    /\ \A at \in Below(key, pat, n) :
         g[at] = AnswerAt(g, key, pat, at[1], at[2])

LEMMA AnswersExist ==
    ASSUME NEW key \in Seq(Word), NEW pat \in Seq(PatWord)
    PROVE  \A n \in Nat : \E g : Answers(key, pat, n, g)
<1> DEFINE S == {n \in Nat : \E g : Answers(key, pat, n, g)}
<1>1. 0 \in S
  <2>1. Below(key, pat, 0) = {}
    BY DEF Below, Places, Rest
  <2>2. Answers(key, pat, 0, [at \in {} |-> "Yes"])
    BY <2>1 DEF Answers
  <2> QED BY <2>2
<1>2. ASSUME NEW n \in Nat, n \in S PROVE n + 1 \in S
  <2>1. PICK g : Answers(key, pat, n, g)
    BY <1>2
  <2> DEFINE B == Below(key, pat, n)
             C == Below(key, pat, n + 1)
             h == [at \in C |-> IF at \in B THEN g[at]
                                ELSE AnswerAt(g, key, pat, at[1], at[2])]
  <2>2. B \subseteq C /\ C \subseteq Places(key, pat)
    BY SMTT(20) DEF Below, Places, Rest
  <2>3. ASSUME NEW at \in C
        PROVE  /\ AnswerAt(g, key, pat, at[1], at[2])
                    = AnswerAt(h, key, pat, at[1], at[2])
               /\ AnswerAt(g, key, pat, at[1], at[2]) \in Results
    <3>1. /\ at = <<at[1], at[2]>>
          /\ at[1] \in 0..Len(key) /\ at[2] \in 0..Len(pat)
          /\ (Len(key) - at[1]) + (Len(pat) - at[2]) < n + 1
      BY <2>2 DEF Below, Places, Rest
    <3>2. ASSUME NEW i \in 0..Len(key), NEW j \in 0..Len(pat),
                 (Len(key) - i) + (Len(pat) - j)
                   < (Len(key) - at[1]) + (Len(pat) - at[2])
          PROVE  g[<<i, j>>] = h[<<i, j>>] /\ g[<<i, j>>] \in Results
      <4>1. Len(key) \in Nat /\ Len(pat) \in Nat
        OBVIOUS
      <4>2. (Len(key) - i) + (Len(pat) - j) < n
        BY <3>1, <3>2, <4>1
      <4>3. <<i, j>> \in B
        BY <4>2 DEF Below, Places, Rest
      <4>4. <<i, j>> \in C
        BY <4>3, <2>2
      <4> HIDE DEF B, C
      <4> QED BY <4>3, <4>4, <2>1 DEF Answers, B
    <3>3. PICK k \in 0..Len(key), p \in 0..Len(pat) : k = at[1] /\ p = at[2]
      BY <3>1
    <3> HIDE DEF h
    <3>4. AgreeAfter(g, h, key, pat, k, p)
      BY <3>2, <3>3 DEF AgreeAfter
    <3>5. /\ AnswerAt(g, key, pat, k, p) = AnswerAt(h, key, pat, k, p)
          /\ AnswerAt(g, key, pat, k, p) \in Results
      BY <3>4, AnswerLocal
    <3> QED BY <3>3, <3>5
  <2>4. ASSUME NEW at \in C
        PROVE  h[at] \in Results /\ h[at] = AnswerAt(h, key, pat, at[1], at[2])
    <3>1. CASE at \in B
      <4>1. h[at] = g[at]
        BY <3>1
      <4>2. g[at] = AnswerAt(g, key, pat, at[1], at[2])
        BY <3>1, <2>1 DEF Answers
      <4> HIDE DEF h, B, C
      <4> QED BY <4>1, <4>2, <2>3
    <3>2. CASE at \notin B
      <4>1. h[at] = AnswerAt(g, key, pat, at[1], at[2])
        BY <3>2
      <4> HIDE DEF h, B, C
      <4> QED BY <4>1, <2>3
    <3> QED BY <3>1, <3>2
  <2>5. h \in [C -> Results]
    <3>1. h = [at \in C |-> h[at]]
      OBVIOUS
    <3> HIDE DEF h
    <3> QED BY <3>1, <2>4
  <2>6. Answers(key, pat, n + 1, h)
    <3> HIDE DEF h
    <3> QED BY <2>4, <2>5 DEF Answers
  <2> HIDE DEF h
  <2> QED BY <2>6
<1>3. Nat \subseteq S
  <2> HIDE DEF S
  <2> QED BY <1>1, <1>2, Induction
<1> QED BY <1>3

(* Match::Match as a recursion has the values its definition says.         *)
LEMMA MatchFromIs ==
    ASSUME NEW key \in Seq(Word), NEW pat \in Seq(PatWord),
           NEW k \in 0..Len(key), NEW p \in 0..Len(pat)
    PROVE  MatchFrom(key, pat)[<<k, p>>]
             = AnswerAt(MatchFrom(key, pat), key, pat, k, p)
<1> DEFINE n == Len(key) + Len(pat) + 1
           m == MatchFrom(key, pat)
           D == Places(key, pat)
<1>1. PICK g : Answers(key, pat, n, g)
  <2>1. n \in Nat
    OBVIOUS
  <2> QED BY <2>1, AnswersExist
<1>2. Below(key, pat, n) = D
  BY DEF Below, Places, Rest
<1>3. g = [at \in D |-> AnswerAt(g, key, pat, at[1], at[2])]
  BY <1>1, <1>2 DEF Answers
<1>4. m = [at \in D |-> AnswerAt(m, key, pat, at[1], at[2])]
  BY <1>3 DEF MatchFrom, Places
<1>5. <<k, p>> \in D
  BY DEF Places
<1> QED BY <1>4, <1>5

(* What word q of a pattern may do with the words i+1..j of a key.         *)
Segment(key, pat, i, j, q) ==
    CASE pat[q] = HashMark -> j >= i
      [] pat[q] = Star     -> j = i + 1
      [] OTHER             -> j = i + 1 /\ key[j] = pat[q]

(* What the pattern has after p words stands for the key after k.          *)
Remaining(key, pat, k, p) ==
    \E cut \in [p..Len(pat) -> 0..Len(key)] :
        /\ cut[p] = k
        /\ cut[Len(pat)] = Len(key)
        /\ \A q \in (p + 1)..Len(pat) : Segment(key, pat, cut[q - 1], cut[q], q)

(* Remaining from the start is the meaning of the whole pattern.           *)
LEMMA RemainingAll ==
    ASSUME NEW key \in Seq(Word), NEW pat \in Seq(PatWord)
    PROVE  RefMatches(key, pat) <=> Remaining(key, pat, 0, 0)
<1>1. 0 + 1 = 1
  OBVIOUS
<1>2. ASSUME NEW cut, NEW q \in 1..Len(pat)
      PROVE  (CASE pat[q] = HashMark -> cut[q] >= cut[q - 1]
                [] pat[q] = Star     -> cut[q] = cut[q - 1] + 1
                [] OTHER             -> /\ cut[q] = cut[q - 1] + 1
                                        /\ key[cut[q]] = pat[q])
             <=> Segment(key, pat, cut[q - 1], cut[q], q)
  BY DEF Segment
<1> QED BY <1>1, <1>2 DEF RefMatches, Remaining

(* With nothing left of the pattern, nothing may be left of the key.       *)
LEMMA RemainingEnd ==
    ASSUME NEW key \in Seq(Word), NEW pat \in Seq(PatWord),
           NEW k \in 0..Len(key)
    PROVE  Remaining(key, pat, k, Len(pat)) <=> k = Len(key)
<1>1. ASSUME k = Len(key) PROVE Remaining(key, pat, k, Len(pat))
  <2> DEFINE cut == [q \in Len(pat)..Len(pat) |-> k]
  <2>1. cut \in [Len(pat)..Len(pat) -> 0..Len(key)] /\ cut[Len(pat)] = k
    OBVIOUS
  <2>2. (Len(pat) + 1)..Len(pat) = {}
    OBVIOUS
  <2> QED BY <2>1, <2>2, <1>1 DEF Remaining
<1> QED BY <1>1 DEF Remaining

(* What a pattern stands for can be split after its first word ...         *)
LEMMA RemainingFirst ==
    ASSUME NEW key \in Seq(Word), NEW pat \in Seq(PatWord),
           NEW k \in 0..Len(key), NEW p \in 0..Len(pat), p # Len(pat),
           Remaining(key, pat, k, p)
    PROVE  \E j \in 0..Len(key) : /\ Segment(key, pat, k, j, p + 1)
                                  /\ Remaining(key, pat, j, p + 1)
<1>1. PICK cut \in [p..Len(pat) -> 0..Len(key)] :
        /\ cut[p] = k
        /\ cut[Len(pat)] = Len(key)
        /\ \A q \in (p + 1)..Len(pat) : Segment(key, pat, cut[q - 1], cut[q], q)
  BY DEF Remaining
<1>2. /\ p + 1 \in (p + 1)..Len(pat) /\ p + 1 \in p..Len(pat)
      /\ (p + 1) - 1 = p /\ Len(pat) \in (p + 1)..Len(pat)
  OBVIOUS
<1> DEFINE rest == [q \in (p + 1)..Len(pat) |-> cut[q]]
<1>3. rest \in [(p + 1)..Len(pat) -> 0..Len(key)]
  BY <1>1
<1>4. ASSUME NEW q \in ((p + 1) + 1)..Len(pat)
      PROVE  Segment(key, pat, rest[q - 1], rest[q], q)
  <2>1. q \in (p + 1)..Len(pat) /\ q - 1 \in (p + 1)..Len(pat)
    OBVIOUS
  <2> QED BY <2>1, <1>1
<1>5. Remaining(key, pat, cut[p + 1], p + 1)
  <2>1. rest[p + 1] = cut[p + 1] /\ rest[Len(pat)] = Len(key)
    BY <1>1, <1>2
  <2> HIDE DEF rest
  <2> QED BY <1>3, <1>4, <2>1 DEF Remaining
<1>6. Segment(key, pat, k, cut[p + 1], p + 1)
  BY <1>1, <1>2
<1> QED BY <1>1, <1>2, <1>5, <1>6

(* ... and put together again.                                             *)
LEMMA RemainingBefore ==
    ASSUME NEW key \in Seq(Word), NEW pat \in Seq(PatWord),
           NEW k \in 0..Len(key), NEW p \in 0..Len(pat), p # Len(pat),
           NEW j \in 0..Len(key),
           Segment(key, pat, k, j, p + 1), Remaining(key, pat, j, p + 1)
    PROVE  Remaining(key, pat, k, p)
<1>1. PICK cut \in [(p + 1)..Len(pat) -> 0..Len(key)] :
        /\ cut[p + 1] = j
        /\ cut[Len(pat)] = Len(key)
        /\ \A q \in ((p + 1) + 1)..Len(pat) :
             Segment(key, pat, cut[q - 1], cut[q], q)
  BY DEF Remaining
<1> DEFINE all == [q \in p..Len(pat) |-> IF q = p THEN k ELSE cut[q]]
<1>2. all \in [p..Len(pat) -> 0..Len(key)]
  BY <1>1
<1>3. all[p] = k /\ all[Len(pat)] = Len(key) /\ all[p + 1] = j
  BY <1>1
<1>4. ASSUME NEW q \in (p + 1)..Len(pat)
      PROVE  Segment(key, pat, all[q - 1], all[q], q)
  <2>1. CASE q = p + 1
    <3>1. all[q - 1] = k /\ all[q] = j
      BY <2>1, <1>3
    <3> QED BY <3>1, <2>1
  <2>2. CASE q # p + 1
    <3>1. q \in ((p + 1) + 1)..Len(pat)
      BY <2>2
    <3>2. all[q - 1] = cut[q - 1] /\ all[q] = cut[q]
      BY <3>1
    <3> QED BY <3>1, <3>2, <1>1
  <2> QED BY <2>1, <2>2
<1> HIDE DEF all
<1> QED BY <1>2, <1>3, <1>4 DEF Remaining

(* The answer at a place is right as far as nothing is missed.             *)
Finds(key, pat, k, p) ==
    /\ MatchFrom(key, pat)[<<k, p>>] \in {"Yes", "No"}
    /\ Remaining(key, pat, k, p) => MatchFrom(key, pat)[<<k, p>>] = "Yes"

FindsAfter(key, pat, k, p) ==
    \A i \in 0..Len(key), j \in 0..Len(pat) :
        (Len(key) - i) + (Len(pat) - j) < (Len(key) - k) + (Len(pat) - p)
            => Finds(key, pat, i, j)

(* The three places an answer may be taken from.                           *)
LEMMA After ==
    ASSUME NEW key \in Seq(Word), NEW pat \in Seq(PatWord),
           NEW k \in 0..Len(key), NEW p \in 0..Len(pat)
    PROVE  /\ p # Len(pat) =>
                /\ p + 1 \in 0..Len(pat)
                /\ (Len(key) - k) + (Len(pat) - (p + 1))
                     < (Len(key) - k) + (Len(pat) - p)
           /\ k # Len(key) =>
                /\ k + 1 \in 0..Len(key)
                /\ (Len(key) - (k + 1)) + (Len(pat) - p)
                     < (Len(key) - k) + (Len(pat) - p)
           /\ k # Len(key) /\ p # Len(pat) =>
                /\ (Len(key) - (k + 1)) + (Len(pat) - (p + 1))
                     < (Len(key) - k) + (Len(pat) - p)
<1>1. Len(key) \in Nat /\ Len(pat) \in Nat
  OBVIOUS
<1> QED BY <1>1

(* Four names are not five things; used for TopicAssumption.               *)
LEMMA AtMostFour ==
    ASSUME NEW a, NEW b, NEW c, NEW d
    PROVE  Cardinality({a, b, c, d}) # 5
<1>1. IsFiniteSet({a}) /\ Cardinality({a}) = 1
  BY FS_Singleton
<1>2. IsFiniteSet({a, b}) /\ Cardinality({a, b}) \in 1..2
  <2>1. {a, b} = {a} \cup {b}
    OBVIOUS
  <2> QED BY <2>1, <1>1, FS_AddElement
<1>3. IsFiniteSet({a, b, c}) /\ Cardinality({a, b, c}) \in 1..3
  <2>1. {a, b, c} = {a, b} \cup {c}
    OBVIOUS
  <2> QED BY <2>1, <1>2, FS_AddElement
<1>4. Cardinality({a, b, c, d}) \in 1..4
  <2>1. {a, b, c, d} = {a, b, c} \cup {d}
    OBVIOUS
  <2> QED BY <2>1, <1>3, FS_AddElement
<1> QED BY <1>4

(* The marks differ from each other and from the words.                    *)
LEMMA Distinct ==
    /\ Star # HashMark /\ Star # StarText /\ Star # HashText
    /\ HashMark # StarText /\ HashMark # HashText
    /\ EmptyToken # Star /\ EmptyToken # HashMark
    /\ \A w \in Word : w \notin Wildcard /\ w \notin Malformed /\ w # EmptyToken
<1> DEFINE Five == {Star, HashMark, StarText, HashText, EmptyToken}
<1>1. Cardinality(Five) = 5
  <2>1. Five = Wildcard \cup Malformed \cup {EmptyToken}
    BY DEF Wildcard, Malformed
  <2> QED BY <2>1, TopicAssumption
<1>2. \A a, b, c, d : Five # {a, b, c, d}
  BY <1>1, AtMostFour
<1>3. \A w \in Word : w \notin Wildcard /\ w \notin Malformed /\ w # EmptyToken
  BY TopicAssumption
<1>4. /\ Star = HashMark => Five = {HashMark, StarText, HashText, EmptyToken}
      /\ Star = StarText => Five = {HashMark, StarText, HashText, EmptyToken}
      /\ Star = HashText => Five = {HashMark, StarText, HashText, EmptyToken}
      /\ HashMark = StarText => Five = {Star, StarText, HashText, EmptyToken}
      /\ HashMark = HashText => Five = {Star, StarText, HashText, EmptyToken}
      /\ EmptyToken = Star => Five = {Star, HashMark, StarText, HashText}
      /\ EmptyToken = HashMark => Five = {Star, HashMark, StarText, HashText}
  OBVIOUS
<1> HIDE DEF Five
<1> QED BY <1>2, <1>3, <1>4

(* The recursion of MatchFrom at a place, for a well-formed pattern.       *)
LEMMA FindsOne ==
    ASSUME NEW key \in Seq(Word), NEW pat \in Seq(PatWord), WellFormed(pat),
           NEW k \in 0..Len(key), NEW p \in 0..Len(pat),
           FindsAfter(key, pat, k, p)
    PROVE  Finds(key, pat, k, p)
<1> DEFINE m == MatchFrom(key, pat)
<1>1. m[<<k, p>>] = AnswerAt(m, key, pat, k, p)
  BY MatchFromIs
<1>2. CASE p = Len(pat)
  BY <1>1, <1>2, RemainingEnd DEF AnswerAt, Finds
<1>3. CASE p # Len(pat)
  <2>1. pat[p + 1] \notin Malformed
    BY <1>3 DEF WellFormed
  <2>2. p + 1 \in 0..Len(pat)
    BY <1>3
  <2>3. CASE pat[p + 1] = HashMark
    <3>1. m[<<k, p>>] = AtHash(m, key, pat, k, p)
      BY <1>1, <1>3, <2>3, Distinct DEF AnswerAt
    <3>2. Finds(key, pat, k, p + 1)
      BY <1>3, After DEF FindsAfter
    <3>3. k # Len(key) => k + 1 \in 0..Len(key) /\ Finds(key, pat, k + 1, p)
      BY <1>3, After DEF FindsAfter
    <3>4. m[<<k, p>>] \in {"Yes", "No"}
      BY <3>1, <3>2, <3>3 DEF AtHash, Finds
    <3>5. ASSUME Remaining(key, pat, k, p), m[<<k, p>>] # "Yes" PROVE FALSE
      <4>1. p + 1 # Len(pat)
        BY <3>1, <3>5 DEF AtHash
      <4>2. m[<<k, p + 1>>] = "No"
        BY <3>1, <3>2, <3>5, <4>1 DEF AtHash, Finds
      <4>3. PICK j \in 0..Len(key) : /\ Segment(key, pat, k, j, p + 1)
                                     /\ Remaining(key, pat, j, p + 1)
        BY <1>3, <3>5, RemainingFirst
      <4>4. j >= k
        BY <4>3, <2>3, Distinct DEF Segment
      <4>5. j # k
        BY <4>2, <4>3, <3>2 DEF Finds
      <4>6. k # Len(key) /\ j >= k + 1
        BY <4>4, <4>5
      <4>7. Segment(key, pat, k + 1, j, p + 1)
        BY <4>6, <2>3, Distinct DEF Segment
      <4>8. Remaining(key, pat, k + 1, p)
        BY <4>6, <4>7, <4>3, <3>3, <1>3, RemainingBefore
      <4>9. m[<<k, p>>] = m[<<k + 1, p>>]
        BY <3>1, <4>1, <4>2, <4>6 DEF AtHash
      <4> QED BY <4>6, <4>8, <4>9, <3>3, <3>5 DEF Finds
    <3> QED BY <3>4, <3>5 DEF Finds
  <2>4. CASE pat[p + 1] # HashMark
    <3>1. ASSUME Remaining(key, pat, k, p)
          PROVE  /\ k # Len(key)
                 /\ Remaining(key, pat, k + 1, p + 1)
                 /\ pat[p + 1] # Star => key[k + 1] = pat[p + 1]
      <4>1. PICK j \in 0..Len(key) : /\ Segment(key, pat, k, j, p + 1)
                                     /\ Remaining(key, pat, j, p + 1)
        BY <1>3, <3>1, RemainingFirst
      <4>2. j = k + 1 /\ (pat[p + 1] # Star => key[j] = pat[p + 1])
        BY <4>1, <2>4 DEF Segment
      <4> QED BY <4>1, <4>2
    <3>2. ASSUME k # Len(key)
          PROVE  /\ AfterWord(m, key, pat, k + 1, p + 1) \in {"Yes", "No"}
                 /\ Remaining(key, pat, k + 1, p + 1)
                      => AfterWord(m, key, pat, k + 1, p + 1) = "Yes"
      <4>1. k + 1 \in 0..Len(key) /\ Finds(key, pat, k + 1, p + 1)
        BY <1>3, <3>2, After DEF FindsAfter
      <4>2. ASSUME Remaining(key, pat, k + 1, p + 1), k + 1 = Len(key),
                   p + 1 # Len(pat)
            PROVE  pat[(p + 1) + 1] = HashMark
        <5>1. PICK j \in 0..Len(key) : Segment(key, pat, k + 1, j, (p + 1) + 1)
          BY <4>1, <4>2, <2>2, RemainingFirst
        <5> QED BY <5>1, <4>2 DEF Segment
      <4>3. ASSUME Remaining(key, pat, k + 1, p + 1), p + 1 = Len(pat)
            PROVE  k + 1 = Len(key)
        BY <4>1, <4>3, RemainingEnd
      <4> QED BY <4>1, <4>2, <4>3, <2>2 DEF AfterWord, Finds
    <3>3. CASE pat[p + 1] = Star
      BY <3>1, <3>2, <3>3, <1>1, <1>3, Distinct DEF AnswerAt, Finds
    <3>4. CASE pat[p + 1] # Star
      BY <3>1, <3>2, <3>4, <1>1, <1>3, <2>1, <2>4 DEF AnswerAt, Finds, Malformed
    <3> QED BY <3>3, <3>4
  <2> QED BY <2>3, <2>4
<1> QED BY <1>2, <1>3

(* By induction on what is left of both strings.                           *)
LEMMA FindsEverywhere ==
    ASSUME NEW key \in Seq(Word), NEW pat \in Seq(PatWord), WellFormed(pat),
           NEW k \in 0..Len(key), NEW p \in 0..Len(pat)
    PROVE  Finds(key, pat, k, p)
<1> DEFINE Near(n) == \A i \in 0..Len(key), j \in 0..Len(pat) :
                         (Len(key) - i) + (Len(pat) - j) < n
                           => Finds(key, pat, i, j)
           S == {n \in Nat : Near(n)}
<1>1. 0 \in S
  <2>1. ASSUME NEW i \in 0..Len(key), NEW j \in 0..Len(pat)
        PROVE  ~((Len(key) - i) + (Len(pat) - j) < 0)
    OBVIOUS
  <2> QED BY <2>1
<1>2. ASSUME NEW n \in Nat, n \in S PROVE n + 1 \in S
  <2>1. ASSUME NEW i \in 0..Len(key), NEW j \in 0..Len(pat),
               (Len(key) - i) + (Len(pat) - j) < n + 1
        PROVE  Finds(key, pat, i, j)
    <3>1. ASSUME NEW x \in 0..Len(key), NEW y \in 0..Len(pat),
                 (Len(key) - x) + (Len(pat) - y)
                   < (Len(key) - i) + (Len(pat) - j)
          PROVE  (Len(key) - x) + (Len(pat) - y) < n
      <4>1. Len(key) \in Nat /\ Len(pat) \in Nat
        OBVIOUS
      <4> QED BY <2>1, <3>1, <4>1
    <3>2. FindsAfter(key, pat, i, j)
      BY <1>2, <3>1 DEF FindsAfter
    <3> QED BY <3>2, FindsOne
  <2> QED BY <2>1
<1>3. Nat \subseteq S
  <2> HIDE DEF S
  <2> QED BY <1>1, <1>2, Induction
<1>4. /\ (Len(key) - k) + (Len(pat) - p) + 1 \in Nat
      /\ (Len(key) - k) + (Len(pat) - p) < (Len(key) - k) + (Len(pat) - p) + 1
  OBVIOUS
<1> QED BY <1>3, <1>4

(* Match::Match misses nothing: whatever a well-formed pattern stands for  *)
(* is matched, for keys and patterns of any length (Match.cc:7-59).        *)
THEOREM MatchFindsAll ==
    ASSUME NEW key \in Seq(Word), NEW pat \in Seq(PatWord), WellFormed(pat),
           RefMatches(key, pat)
    PROVE  Matches(key, pat)
<1>1. 0 \in 0..Len(key) /\ 0 \in 0..Len(pat)
  OBVIOUS
<1>2. Finds(key, pat, 0, 0)
  BY <1>1, FindsEverywhere
<1> QED BY <1>2, RemainingAll DEF Finds, Matches, Match

(* Where an answer may be believed: not at a '*' with the key used up.     *)
Believable(key, pat, k, p) ==
    k # Len(key) \/ p = Len(pat) \/ pat[p + 1] # Star

Believed(key, pat, k, p) ==
    Believable(key, pat, k, p) /\ MatchFrom(key, pat)[<<k, p>>] = "Yes"
        => Remaining(key, pat, k, p)

BelievedAfter(key, pat, k, p) ==
    \A i \in 0..Len(key), j \in 0..Len(pat) :
        (Len(key) - i) + (Len(pat) - j) < (Len(key) - k) + (Len(pat) - p)
            => Believed(key, pat, i, j)

(* The recursion once more, for a pattern without a '*' after a '#'.       *)
LEMMA BelievedOne ==
    ASSUME NEW key \in Seq(Word), NEW pat \in Seq(PatWord), WellFormed(pat),
           NoStarAfterHash(pat),
           NEW k \in 0..Len(key), NEW p \in 0..Len(pat),
           BelievedAfter(key, pat, k, p)
    PROVE  Believed(key, pat, k, p)
<1> DEFINE m == MatchFrom(key, pat)
<1>1. m[<<k, p>>] = AnswerAt(m, key, pat, k, p)
  BY MatchFromIs
<1> SUFFICES ASSUME Believable(key, pat, k, p), m[<<k, p>>] = "Yes"
             PROVE  Remaining(key, pat, k, p)
  BY DEF Believed
<1>2. CASE p = Len(pat)
  BY <1>1, <1>2, RemainingEnd DEF AnswerAt
<1>3. CASE p # Len(pat)
  <2>1. pat[p + 1] \notin Malformed
    BY <1>3 DEF WellFormed
  <2>2. p + 1 \in 0..Len(pat)
    BY <1>3
  <2>3. CASE pat[p + 1] = HashMark
    <3>1. AtHash(m, key, pat, k, p) = "Yes"
      BY <1>1, <1>3, <2>3, Distinct DEF AnswerAt
    <3>2. CASE p + 1 = Len(pat)
      <4>1. Remaining(key, pat, Len(key), p + 1)
        BY <3>2, RemainingEnd
      <4>2. Segment(key, pat, k, Len(key), p + 1)
        BY <2>3, Distinct DEF Segment
      <4> QED BY <4>1, <4>2, <1>3, RemainingBefore
    <3>3. CASE p + 1 # Len(pat) /\ m[<<k, p + 1>>] # "No"
      <4>1. m[<<k, p + 1>>] = "Yes"
        BY <3>1, <3>3 DEF AtHash
      <4>2. pat[(p + 1) + 1] # Star
        <5>1. p + 1 \in 1..Len(pat) /\ (p + 1) + 1 \in 1..Len(pat)
              /\ p + 1 < (p + 1) + 1
          BY <2>2, <3>3
        <5> QED BY <5>1, <2>3 DEF NoStarAfterHash
      <4>3. Remaining(key, pat, k, p + 1)
        BY <4>1, <4>2, <1>3, After DEF BelievedAfter, Believed, Believable
      <4>4. Segment(key, pat, k, k, p + 1)
        BY <2>3, Distinct DEF Segment
      <4> QED BY <4>3, <4>4, <1>3, RemainingBefore
    <3>4. CASE p + 1 # Len(pat) /\ m[<<k, p + 1>>] = "No"
      <4>1. k # Len(key) /\ m[<<k + 1, p>>] = "Yes"
        BY <3>1, <3>4 DEF AtHash
      <4>2. Remaining(key, pat, k + 1, p) /\ k + 1 \in 0..Len(key)
        BY <4>1, <1>3, <2>3, After, Distinct
           DEF BelievedAfter, Believed, Believable
      <4>3. PICK j \in 0..Len(key) : /\ Segment(key, pat, k + 1, j, p + 1)
                                     /\ Remaining(key, pat, j, p + 1)
        BY <4>2, <1>3, RemainingFirst
      <4>4. Segment(key, pat, k, j, p + 1)
        BY <4>3, <2>3, Distinct DEF Segment
      <4> QED BY <4>3, <4>4, <1>3, RemainingBefore
    <3> QED BY <3>2, <3>3, <3>4
  <2>4. CASE pat[p + 1] # HashMark
    <3>1. /\ k # Len(key)
          /\ AfterWord(m, key, pat, k + 1, p + 1) = "Yes"
          /\ Segment(key, pat, k, k + 1, p + 1)
      <4>1. CASE pat[p + 1] = Star
        <5>1. k # Len(key)
          BY <4>1, <1>3 DEF Believable
        <5> QED BY <5>1, <4>1, <1>1, <1>3, Distinct DEF AnswerAt, Segment
      <4>2. CASE pat[p + 1] # Star
        BY <4>2, <1>1, <1>3, <2>1, <2>4 DEF AnswerAt, Segment, Malformed
      <4> QED BY <4>1, <4>2
    <3>2. k + 1 \in 0..Len(key) /\ Believed(key, pat, k + 1, p + 1)
      BY <3>1, <1>3, After DEF BelievedAfter
    <3>3. Remaining(key, pat, k + 1, p + 1)
      <4>1. CASE k + 1 = Len(key) /\ p + 1 = Len(pat)
        BY <4>1, RemainingEnd
      <4>2. CASE ~(k + 1 = Len(key) /\ p + 1 = Len(pat))
        <5>1. m[<<k + 1, p + 1>>] = "Yes"
          BY <4>2, <3>1, <3>2, <2>2 DEF AfterWord
        <5>2. Believable(key, pat, k + 1, p + 1)
          <6>1. \/ k + 1 # Len(key)
                \/ pat[(p + 1) + 1] \in {HashMark, HashText}
            BY <4>2, <3>1, <3>2, <2>2 DEF AfterWord
          <6> QED BY <6>1, Distinct DEF Believable
        <5> QED BY <5>1, <5>2, <3>2 DEF Believed
      <4> QED BY <4>1, <4>2
    <3> QED BY <3>1, <3>2, <3>3, <1>3, RemainingBefore
  <2> QED BY <2>3, <2>4
<1> QED BY <1>2, <1>3

(* By induction on what is left of both strings.                           *)
LEMMA BelievedEverywhere ==
    ASSUME NEW key \in Seq(Word), NEW pat \in Seq(PatWord), WellFormed(pat),
           NoStarAfterHash(pat),
           NEW k \in 0..Len(key), NEW p \in 0..Len(pat)
    PROVE  Believed(key, pat, k, p)
<1> DEFINE Near(n) == \A i \in 0..Len(key), j \in 0..Len(pat) :
                         (Len(key) - i) + (Len(pat) - j) < n
                           => Believed(key, pat, i, j)
           S == {n \in Nat : Near(n)}
<1>1. 0 \in S
  <2>1. ASSUME NEW i \in 0..Len(key), NEW j \in 0..Len(pat)
        PROVE  ~((Len(key) - i) + (Len(pat) - j) < 0)
    OBVIOUS
  <2> QED BY <2>1
<1>2. ASSUME NEW n \in Nat, n \in S PROVE n + 1 \in S
  <2>1. ASSUME NEW i \in 0..Len(key), NEW j \in 0..Len(pat),
               (Len(key) - i) + (Len(pat) - j) < n + 1
        PROVE  Believed(key, pat, i, j)
    <3>1. ASSUME NEW x \in 0..Len(key), NEW y \in 0..Len(pat),
                 (Len(key) - x) + (Len(pat) - y)
                   < (Len(key) - i) + (Len(pat) - j)
          PROVE  (Len(key) - x) + (Len(pat) - y) < n
      <4>1. Len(key) \in Nat /\ Len(pat) \in Nat
        OBVIOUS
      <4> QED BY <2>1, <3>1, <4>1
    <3>2. BelievedAfter(key, pat, i, j)
      BY <1>2, <3>1 DEF BelievedAfter
    <3> QED BY <3>2, BelievedOne
  <2> QED BY <2>1
<1>3. Nat \subseteq S
  <2> HIDE DEF S
  <2> QED BY <1>1, <1>2, Induction
<1>4. /\ (Len(key) - k) + (Len(pat) - p) + 1 \in Nat
      /\ (Len(key) - k) + (Len(pat) - p) < (Len(key) - k) + (Len(pat) - p) + 1
  OBVIOUS
<1> QED BY <1>3, <1>4

(* Match::Match matches nothing else, as long as no '*' comes after a '#'  *)
(* and the key is not empty (Match.cc:7-59).                               *)
THEOREM MatchFindsNoMore ==
    ASSUME NEW key \in Seq(Word), NEW pat \in Seq(PatWord), WellFormed(pat),
           NoStarAfterHash(pat), key # << >>, Matches(key, pat)
    PROVE  RefMatches(key, pat)
<1>1. 0 \in 0..Len(key) /\ 0 \in 0..Len(pat) /\ 0 # Len(key)
  OBVIOUS
<1>2. Believed(key, pat, 0, 0)
  BY <1>1, BelievedEverywhere
<1>3. Believable(key, pat, 0, 0)
  BY <1>1 DEF Believable
<1> QED BY <1>2, <1>3, RemainingAll DEF Believed, Matches, Match

-----------------------------------------------------------------------------
(***************************************************************************)
(* Tokens.                                                                 *)
(***************************************************************************)
TokensStep(f, src, i) ==
    IF i = 0 THEN << >>
    ELSE IF IsToken(src[i]) /\ ~Seen(f[i - 1], src[i])
         THEN Append(f[i - 1], src[i])
         ELSE f[i - 1]

TokensFn(src, n, f) == f = [i \in 0..n |-> TokensStep(f, src, i)]

(* Match::Tokens as a recursion has the values its definition says.        *)
LEMMA TokensToIs ==
    ASSUME NEW src, Len(src) \in Nat
    PROVE  /\ TokensTo(src)[0] = << >>
           /\ \A i \in 1..Len(src) :
                TokensTo(src)[i] =
                    IF IsToken(src[i]) /\ ~Seen(TokensTo(src)[i - 1], src[i])
                    THEN Append(TokensTo(src)[i - 1], src[i])
                    ELSE TokensTo(src)[i - 1]
<1> DEFINE S == {n \in Nat : \E f : TokensFn(src, n, f)}
<1>1. 0 \in S
  <2> DEFINE f == [i \in 0..0 |-> << >>]
  <2>1. f = [i \in 0..0 |-> TokensStep(f, src, i)]
    BY DEF TokensStep
  <2> HIDE DEF f
  <2> QED BY <2>1 DEF TokensFn
<1>2. ASSUME NEW n \in Nat, n \in S PROVE n + 1 \in S
  <2>1. PICK f : f = [i \in 0..n |-> TokensStep(f, src, i)]
    BY <1>2 DEF TokensFn
  <2> DEFINE g == [i \in 0..(n + 1) |->
                   IF i = n + 1 THEN TokensStep(f, src, n + 1) ELSE f[i]]
  <2>2. ASSUME NEW i \in 0..(n + 1) PROVE g[i] = TokensStep(g, src, i)
    <3>1. TokensStep(g, src, i) = TokensStep(f, src, i)
      <4>1. CASE i = 0
        BY <4>1 DEF TokensStep
      <4>2. CASE i # 0
        <5>1. i - 1 \in 0..(n + 1) /\ i - 1 # n + 1
          BY <4>2
        <5>2. g[i - 1] = f[i - 1]
          BY <5>1
        <5> HIDE DEF g
        <5> QED BY <5>2, <4>2 DEF TokensStep
      <4> QED BY <4>1, <4>2
    <3>2. CASE i = n + 1
      BY <3>1, <3>2
    <3>3. CASE i # n + 1
      <4>1. i \in 0..n
        BY <3>3
      <4>2. g[i] = f[i]
        BY <3>3
      <4>3. f[i] = TokensStep(f, src, i)
        BY <4>1, <2>1
      <4> QED BY <4>2, <4>3, <3>1
    <3> QED BY <3>2, <3>3
  <2>3. g = [i \in 0..(n + 1) |-> TokensStep(g, src, i)]
    <3>1. g = [i \in 0..(n + 1) |-> g[i]]
      OBVIOUS
    <3> HIDE DEF g
    <3> QED BY <2>2, <3>1
  <2> HIDE DEF g
  <2> QED BY <2>3 DEF TokensFn
<1>3. Nat \subseteq S
  <2> HIDE DEF S
  <2> QED BY <1>1, <1>2, Induction
<1>4. PICK f : f = [i \in 0..Len(src) |-> TokensStep(f, src, i)]
  BY <1>3 DEF TokensFn
<1> DEFINE t == TokensTo(src)
<1>5. t = [i \in 0..Len(src) |-> TokensStep(t, src, i)]
  BY <1>4 DEF TokensTo, TokensStep
<1> HIDE DEF t
<1>6. t[0] = << >>
  BY <1>5 DEF TokensStep
<1>7. ASSUME NEW i \in 1..Len(src)
      PROVE  t[i] = IF IsToken(src[i]) /\ ~Seen(t[i - 1], src[i])
                    THEN Append(t[i - 1], src[i]) ELSE t[i - 1]
  <2>1. i \in 0..Len(src) /\ i # 0
    OBVIOUS
  <2>2. t[i] = TokensStep(t, src, i)
    BY <2>1, <1>5
  <2> QED BY <2>1, <2>2 DEF TokensStep
<1> QED BY <1>6, <1>7 DEF t

(* FirstOf is the least place of a word.                                   *)
LEMMA FirstOfIs ==
    ASSUME NEW src \in Seq(PatWord), NEW n \in 1..Len(src)
    PROVE  /\ FirstOf(src, src[n]) \in 1..n
           /\ src[FirstOf(src, src[n])] = src[n]
           /\ \A j \in 1..(FirstOf(src, src[n]) - 1) : src[j] # src[n]
<1> DEFINE At == {i \in 1..Len(src) : src[i] = src[n]}
<1>1. PICK f \in At : \A i \in At : f <= i
  <2>1. At \subseteq Nat /\ At # {}
    OBVIOUS
  <2> HIDE DEF At
  <2> QED BY <2>1, LeastNat
<1>2. \A j \in 1..(f - 1) : src[j] # src[n]
  <2> SUFFICES ASSUME NEW j \in 1..(f - 1), src[j] = src[n] PROVE FALSE
    OBVIOUS
  <2>1. j \in At /\ ~(f <= j)
    BY <1>1
  <2> QED BY <2>1, <1>1
<1> DEFINE g == FirstOf(src, src[n])
<1>3. /\ g \in 1..Len(src)
      /\ src[g] = src[n]
      /\ \A j \in 1..(g - 1) : src[j] # src[n]
  <2>1. f \in 1..Len(src) /\ src[f] = src[n]
    BY <1>1
  <2> QED BY <2>1, <1>2 DEF FirstOf
<1> HIDE DEF g
<1>4. g <= n
  <2> SUFFICES ASSUME ~(g <= n) PROVE FALSE
    OBVIOUS
  <2>1. n \in 1..(g - 1)
    BY <1>3
  <2> QED BY <2>1, <1>3
<1> QED BY <1>3, <1>4 DEF g

(* What Tokens has found after n words.                                    *)
TokensSoFar(src, n) ==
    /\ TokensTo(src)[n] \in Seq(PatWord)
    /\ \A w : Seen(TokensTo(src)[n], w)
              <=> IsToken(w) /\ \E i \in 1..n : src[i] = w
    /\ \A i, j \in 1..Len(TokensTo(src)[n]) :
         i < j => FirstOf(src, TokensTo(src)[n][i])
                    < FirstOf(src, TokensTo(src)[n][j])

(* One more word of the topic.                                             *)
LEMMA TokensFoundOne ==
    ASSUME NEW src \in Seq(PatWord), NEW n \in Nat, n + 1 \in 1..Len(src),
           TokensSoFar(src, n)
    PROVE  TokensSoFar(src, n + 1)
<1> DEFINE T == TokensTo(src)[n]
           U == TokensTo(src)[n + 1]
           w == src[n + 1]
<1>1. U = IF IsToken(w) /\ ~Seen(T, w) THEN Append(T, w) ELSE T
  <2>1. (n + 1) - 1 = n /\ Len(src) \in Nat
    OBVIOUS
  <2> QED BY <2>1, TokensToIs
<1>2. /\ T \in Seq(PatWord) /\ w \in PatWord
      /\ \A v : Seen(T, v) <=> IsToken(v) /\ \E i \in 1..n : src[i] = v
      /\ \A i, j \in 1..Len(T) :
           i < j => FirstOf(src, T[i]) < FirstOf(src, T[j])
  BY DEF TokensSoFar
<1>3. \A v : (\E i \in 1..(n + 1) : src[i] = v)
               <=> v = w \/ \E i \in 1..n : src[i] = v
  OBVIOUS
<1> HIDE DEF T, U, w
<1>4. CASE IsToken(w) /\ ~Seen(T, w)
  <2>1. U = Append(T, w) /\ U \in Seq(PatWord) /\ Len(U) = Len(T) + 1
        /\ U[Len(T) + 1] = w /\ \A i \in 1..Len(T) : U[i] = T[i]
    BY <1>1, <1>2, <1>4
  <2>2. \A v : Seen(U, v) <=> v = w \/ Seen(T, v)
    BY <2>1, <1>2 DEF Seen
  <2>3. FirstOf(src, w) = n + 1
    <3>1. \A i \in 1..n : src[i] # w
      BY <1>2, <1>4
    <3>2. FirstOf(src, w) \in 1..(n + 1) /\ src[FirstOf(src, w)] = w
      BY FirstOfIs DEF w
    <3> QED BY <3>1, <3>2
  <2>4. ASSUME NEW i \in 1..Len(T) PROVE FirstOf(src, T[i]) \in 1..n
    <3>1. Seen(T, T[i])
      BY DEF Seen
    <3>2. PICK j \in 1..n : src[j] = T[i]
      BY <3>1, <1>2
    <3>3. j \in 1..Len(src) /\ FirstOf(src, src[j]) \in 1..j
      BY <3>2, FirstOfIs
    <3> QED BY <3>2, <3>3
  <2>5. ASSUME NEW i \in 1..Len(U), NEW j \in 1..Len(U), i < j
        PROVE  FirstOf(src, U[i]) < FirstOf(src, U[j])
    <3>0. Len(T) \in Nat
      BY <1>2
    <3>1. i \in 1..Len(T) /\ U[i] = T[i]
      BY <2>1, <2>5, <3>0
    <3>2. CASE j = Len(T) + 1
      <4>1. U[j] = w
        BY <2>1, <3>2
      <4> QED BY <3>1, <4>1, <2>3, <2>4
    <3>3. CASE j # Len(T) + 1
      <4>1. j \in 1..Len(T)
        BY <2>1, <3>3, <3>0
      <4>2. U[j] = T[j]
        BY <4>1, <2>1
      <4> QED BY <3>1, <4>1, <4>2, <2>5, <1>2
    <3> QED BY <3>2, <3>3
  <2> QED BY <2>1, <2>2, <2>5, <1>2, <1>3, <1>4 DEF TokensSoFar, U
<1>5. CASE ~(IsToken(w) /\ ~Seen(T, w))
  <2>1. U = T
    BY <1>1, <1>5
  <2>2. \A v : Seen(U, v) <=> IsToken(v) /\ \E i \in 1..(n + 1) : src[i] = v
    BY <2>1, <1>2, <1>3, <1>5
  <2> QED BY <2>1, <2>2, <1>2 DEF TokensSoFar, U
<1> QED BY <1>4, <1>5

(* By induction on the number of words.                                    *)
LEMMA TokensFound ==
    ASSUME NEW src \in Seq(PatWord)
    PROVE  \A n \in 0..Len(src) : TokensSoFar(src, n)
<1> DEFINE S == {n \in Nat : n <= Len(src) => TokensSoFar(src, n)}
<1>1. 0 \in S
  <2>1. TokensTo(src)[0] = << >>
    BY TokensToIs
  <2>2. \A w : ~Seen(<< >>, w)
    BY DEF Seen
  <2>3. << >> \in Seq(PatWord) /\ Len(<< >>) = 0 /\ 1..0 = {}
    OBVIOUS
  <2>4. TokensSoFar(src, 0)
    BY <2>1, <2>2, <2>3, Zenon DEF TokensSoFar
  <2> QED BY <2>4
<1>2. ASSUME NEW n \in Nat, n \in S PROVE n + 1 \in S
  <2>1. ASSUME n + 1 <= Len(src) PROVE TokensSoFar(src, n + 1)
    <3>1. n <= Len(src) /\ n + 1 \in 1..Len(src)
      BY <2>1
    <3> QED BY <3>1, <1>2, TokensFoundOne
  <2> QED BY <2>1
<1>3. Nat \subseteq S
  <2> HIDE DEF S
  <2> QED BY <1>1, <1>2, Induction
<1> QED BY <1>3

(* The tokens of a topic that is not empty.                                *)
LEMMA TokensOfTopic ==
    ASSUME NEW src \in Seq(PatWord), src # << >>
    PROVE  /\ Tokens(src) \in Seq(PatWord)
           /\ \A w : w \in TokenSet(src)
                      <=> w \notin Wildcard /\ \E i \in 1..Len(src) : src[i] = w
           /\ \A i, j \in 1..Len(Tokens(src)) :
                i < j => FirstOf(src, Tokens(src)[i])
                           < FirstOf(src, Tokens(src)[j])
<1>1. Tokens(src) = TokensTo(src)[Len(src)] /\ Len(src) \in 0..Len(src)
  BY DEF Tokens
<1>2. TokensSoFar(src, Len(src))
  BY <1>1, TokensFound
<1>3. \A w : w \in TokenSet(src) <=> Seen(Tokens(src), w)
  BY DEF TokenSet, Seen
<1> QED BY <1>1, <1>2, <1>3 DEF TokensSoFar, IsToken

(* A pattern that stands for a key has no token the key does not have      *)
(* (Match.cc:61-101, Repl.h:251).                                          *)
THEOREM TokensOfPatternInKey ==
    ASSUME NEW key \in Seq(Word), NEW pat \in Seq(PatWord), WellFormed(pat),
           pat # << >>, RefMatches(key, pat)
    PROVE  TokenSet(pat) \subseteq TokenSet(key)
<1> SUFFICES ASSUME NEW w \in TokenSet(pat) PROVE w \in TokenSet(key)
  OBVIOUS
<1>1. w \notin Wildcard
  BY TokensOfTopic
<1>2. PICK p \in 1..Len(pat) : pat[p] = w
  BY TokensOfTopic
<1>3. PICK cut \in [0..Len(pat) -> 0..Len(key)] :
        \A q \in 1..Len(pat) :
             CASE pat[q] = HashMark -> cut[q] >= cut[q - 1]
               [] pat[q] = Star     -> cut[q] = cut[q - 1] + 1
               [] OTHER             -> /\ cut[q] = cut[q - 1] + 1
                                       /\ key[cut[q]] = pat[q]
  BY DEF RefMatches
<1>4. cut[p] = cut[p - 1] + 1 /\ key[cut[p]] = w
  BY <1>1, <1>2, <1>3 DEF Wildcard
<1>5. cut[p] \in 1..Len(key)
  <2>1. p - 1 \in 0..Len(pat) /\ p \in 0..Len(pat)
    OBVIOUS
  <2> QED BY <2>1, <1>3, <1>4
<1>6. key # << >> /\ key \in Seq(PatWord)
  <2>1. key # << >>
    BY <1>5
  <2>2. key \in Seq(PatWord)
    BY DEF PatWord
  <2> QED BY <2>1, <2>2
<1> QED BY <1>1, <1>4, <1>5, <1>6, TokensOfTopic

(* A key is a pattern that stands for itself, and is filed under a token   *)
(* (Repl.h:174, :251).                                                     *)
THEOREM KeyMatchesItself ==
    ASSUME NEW key \in Seq(Word)
    PROVE  /\ WellFormed(key) /\ RefMatches(key, key)
           /\ Matches(key, key)
           /\ TokenSet(key) # {}
<1>1. key \in Seq(PatWord)
  BY DEF PatWord
<1>2. \A i \in 1..Len(key) : key[i] \in Word
  OBVIOUS
<1>3. WellFormed(key)
  BY <1>2, Distinct DEF WellFormed
<1>4. RefMatches(key, key)
  <2> DEFINE cut == [p \in 0..Len(key) |-> p]
  <2>1. /\ cut \in [0..Len(key) -> 0..Len(key)]
        /\ cut[0] = 0 /\ cut[Len(key)] = Len(key)
        /\ \A p \in 1..Len(key) : cut[p] = p /\ cut[p - 1] = p - 1
    OBVIOUS
  <2>2. \A p \in 1..Len(key) : key[p] # HashMark /\ key[p] # Star
    BY <1>2, Distinct DEF Wildcard
  <2> HIDE DEF cut
  <2> QED BY <2>1, <2>2 DEF RefMatches
<1>5. TokenSet(key) # {}
  <2>1. CASE key = << >>
    <3>1. Tokens(key) = <<EmptyToken>>
      BY <2>1 DEF Tokens
    <3>2. Tokens(key)[1] = EmptyToken /\ 1 \in 1..Len(Tokens(key))
      BY <3>1
    <3> QED BY <3>2 DEF TokenSet
  <2>2. CASE key # << >>
    <3>1. 1 \in 1..Len(key)
      BY <2>2
    <3>2. key[1] \in TokenSet(key)
      BY <3>1, <2>2, <1>1, <1>2, Distinct, TokensOfTopic
    <3> QED BY <3>2
  <2> QED BY <2>1, <2>2
<1> QED BY <1>1, <1>3, <1>4, <1>5, MatchFindsAll

-----------------------------------------------------------------------------
(***************************************************************************)
(* The properties of MCTopic, for any bounds on the number of words.       *)
(***************************************************************************)

(* Topics are sequences.                                                   *)
LEMMA TopicsAreSequences ==
    ASSUME NEW words, NEW max \in Nat, NEW topic \in Topics(words, max)
    PROVE  topic \in Seq(words)
<1>1. PICK n \in 0..max : topic \in [1..n -> words]
  BY DEF Topics
<1> QED BY <1>1

LEMMA PairOfTopics == AnyPair => aKey \in Seq(Word) /\ aPat \in Seq(PatWord)
  BY TopicsAreSequences, BoundsAssumption DEF AnyPair

(* A key a well-formed pattern stands for is matched.                      *)
THEOREM NoMatchMissed == AnyPair => MatchComplete
  BY PairOfTopics, MatchFindsAll DEF MatchComplete

(* Without a '*' after a '#', nothing else is.                             *)
THEOREM NoMatchTooMany == AnyPair => MatchSoundNoStarAfterHash
  BY PairOfTopics, MatchFindsNoMore DEF MatchSoundNoStarAfterHash

(* The tokens of a matching pattern are tokens of the key, and a topic is  *)
(* filed once under each of its words.                                     *)
THEOREM TokensAlwaysServeIndex == AnyPair => TokensServeIndex
<1> SUFFICES ASSUME aKey \in Seq(Word), aPat \in Seq(PatWord)
             PROVE  TokensServeIndex
  BY PairOfTopics
<1>1. TokensOfMatchInKey
  BY TokensOfPatternInKey DEF TokensOfMatchInKey
<1>2. TokensExactlyOnce
  <2> SUFFICES ASSUME aPat # << >>
               PROVE  /\ TokenSet(aPat)
                           = {aPat[i] : i \in 1..Len(aPat)} \ Wildcard
                      /\ \A i, j \in 1..Len(Tokens(aPat)) :
                           i < j => FirstOf(aPat, Tokens(aPat)[i])
                                      < FirstOf(aPat, Tokens(aPat)[j])
    BY DEF TokensExactlyOnce
  <2> QED BY TokensOfTopic
<1> QED BY <1>1, <1>2 DEF TokensServeIndex

-----------------------------------------------------------------------------
(***************************************************************************)
(* Part 2: invariants of Repl.                                             *)
(***************************************************************************)

(* The patterns a consume of key k is sure to try and to serve.            *)
Sure(k, p) == Matches(k, p) /\ FoundByAnyToken(k, p)

(* What is known about a consume on its way.                               *)
ReaderInv ==
    \A t \in Threads :
        op[t].kind = "consume" =>
            /\ op[t].list \cup op[t].any \subseteq patterns
            /\ \A p \in op[t].list : TokenSet(p) # {}
            /\ \A p \in op[t].any : TokenSet(p) = {}
            /\ \A s \in op[t].sent : /\ s[1] \in subs[s[2]]
                                     /\ Matches(op[t].key, s[2])
                                     /\ s[2] \notin op[t].list \cup op[t].any
            /\ \A p \in Patterns : Sure(op[t].key, p) =>
                 \/ p \in op[t].list \cup op[t].any
                 \/ \A c \in subs[p] : <<c, p>> \in op[t].sent

IInv ==
    /\ TypeOK
    /\ WriterAlone
    /\ LinksAgree
    /\ AliveIffSubscribed
    /\ IndexExact
    /\ ReaderInv

-----------------------------------------------------------------------------
(***************************************************************************)
(* Lemmas about the operators.                                             *)
(***************************************************************************)

LEMMA KeysAreTopics == \A k \in Keys : k \in Seq(Word)
  BY TopicsAssumption

LEMMA OpKinds ==
    ASSUME TypeOK, NEW t \in Threads
    PROVE  /\ op[t].kind = "idle" <=> op[t] = Idle
           /\ op[t].kind \in WriteKinds <=> op[t] \in WriteOp
           /\ op[t].kind = "consume" <=> op[t] \in ReadOp
           /\ op[t] \in {Idle} \cup WriteOp \cup ReadOp
  BY DEF TypeOK, Idle, WriteOp, ReadOp, WriteKinds

LEMMA TokenSetOfPattern ==
    ASSUME NEW p \in Patterns
    PROVE  TokenSet(p) \subseteq Token
  BY DEF Token

LEMMA TokenOfKey ==
    ASSUME NEW k \in Keys, NEW i \in 1..Len(Tokens(k))
    PROVE  Tokens(k)[i] \in TokenSet(k) /\ Tokens(k)[i] \in Token
  BY DEF TokenSet, Token

(* Every list reindexToken may return is empty or the list of a token of   *)
(* the key; it is empty only if no token of the key is indexed.            *)
LEMMA CandidateListCases ==
    ASSUME NEW k \in Keys, NEW list \in CandidateLists(k)
    PROVE  \/ list = {} /\ \A w \in TokenSet(k) : index[w] = {}
           \/ \E w \in TokenSet(k) : w \in Token /\ list = index[w]
<1>1. CASE Present(k) = {}
  BY <1>1 DEF CandidateLists, Present, TokenSet
<1>2. CASE Present(k) # {}
  <2>1. PICK i \in Present(k) : list = index[Tokens(k)[i]]
    BY <1>2 DEF CandidateLists
  <2>2. i \in 1..Len(Tokens(k))
    BY <2>1 DEF Present
  <2> QED BY <2>1, <2>2, TokenOfKey
<1> QED BY <1>1, <1>2

(* Taking a consumer out of a pattern keeps patterns, subscriptions and    *)
(* index in step.                                                          *)
LEMMA DropKeepsTables ==
    ASSUME TypeOK, AliveIffSubscribed, IndexExact,
           NEW c \in Consumers, NEW p \in Patterns,
           DropFromPattern(c, p)
    PROVE  /\ patterns' \subseteq Patterns
           /\ subs' \in [Patterns -> SUBSET Consumers]
           /\ index' \in [Token -> SUBSET Patterns]
           /\ anyindex' \subseteq Patterns
           /\ AliveIffSubscribed'
           /\ IndexExact'
           /\ \A q \in Patterns : subs'[q] = IF q = p THEN subs[p] \ {c}
                                             ELSE subs[q]
<1>1. \A q \in Patterns : subs'[q] = IF q = p THEN subs[p] \ {c} ELSE subs[q]
  BY DEF TypeOK, DropFromPattern
<1>2. subs' \in [Patterns -> SUBSET Consumers]
  BY DEF TypeOK, DropFromPattern
<1>3. CASE subs[p] \ {c} = {}
  <2>1. patterns' = patterns \ {p} /\ index' = Unindexed(p)
        /\ anyindex' = AnyUnindexed(p)
    BY <1>3 DEF DropFromPattern
  <2>2. AliveIffSubscribed'
    BY <2>1, <1>1, <1>3 DEF AliveIffSubscribed
  <2>3. index' \in [Token -> SUBSET Patterns] /\ anyindex' \subseteq Patterns
    BY <2>1 DEF TypeOK, Unindexed, AnyUnindexed
  <2>4. IndexExact'
    BY <2>1 DEF IndexExact, TypeOK, Unindexed, AnyUnindexed
  <2> QED BY <2>1, <2>2, <2>3, <2>4, <1>1, <1>2 DEF TypeOK
<1>4. CASE subs[p] \ {c} # {}
  <2>1. UNCHANGED <<patterns, index, anyindex>>
    BY <1>4 DEF DropFromPattern
  <2>2. AliveIffSubscribed'
    BY <2>1, <1>1, <1>4 DEF AliveIffSubscribed
  <2> QED BY <2>1, <2>2, <1>1, <1>2 DEF IndexExact, TypeOK
<1> QED BY <1>3, <1>4

(* With a writer at work nobody reads, so ReaderInv holds of itself.       *)
LEMMA WriterMeansNoReader ==
    ASSUME TypeOK, WriterAlone, NEW t \in Threads, op[t].kind \in WriteKinds
    PROVE  \A u \in Threads : op[u].kind # "consume"
  BY DEF WriterAlone, WriteKinds

-----------------------------------------------------------------------------
(***************************************************************************)
(* One lemma per action: it preserves the inductive invariant.             *)
(***************************************************************************)

LEMMA InitIInv == Init => IInv
<1> SUFFICES ASSUME Init PROVE IInv
  OBVIOUS
<1>1. TypeOK
  BY DEF Init, NoTables, NewPattern, NewConsumer, TypeOK
<1>2. \A t \in Threads : op[t].kind = "idle"
  BY DEF Init, NoTables, NewPattern, NewConsumer, Idle
<1>3. WriterAlone /\ ReaderInv
  BY <1>2 DEF WriterAlone, ReaderInv
<1>4. LinksAgree /\ AliveIffSubscribed /\ IndexExact
  BY DEF Init, NoTables, NewPattern, NewConsumer, LinksAgree,
         AliveIffSubscribed, IndexExact
<1> QED BY <1>1, <1>3, <1>4 DEF IInv

(* Nobody is inside of an operation: a new consumer has no links at all.   *)
LEMMA AddConsumerKeepsIInv ==
    ASSUME IInv, NEW t \in Threads, NEW c \in Consumers, AddConsumer(t, c)
    PROVE  IInv'
<1>1. \A u \in Threads : op'[u].kind = "idle" /\ op[u].kind = "idle"
  BY DEF AddConsumer, CanWrite
<1>2. TypeOK'
  BY DEF IInv, AddConsumer, TypeOK
<1>3. WriterAlone' /\ ReaderInv'
  BY <1>1 DEF WriterAlone, ReaderInv
<1>4. LinksAgree'
  BY <1>1 DEF IInv, TypeOK, AddConsumer, LinksAgree
<1>5. AliveIffSubscribed' /\ IndexExact'
  BY DEF IInv, AddConsumer, AliveIffSubscribed, IndexExact
<1> QED BY <1>2, <1>3, <1>4, <1>5 DEF IInv

LEMMA BeginBatchKeepsIInv ==
    ASSUME IInv, NEW t \in Threads, NEW c \in Consumers,
           NEW kind \in {"sub", "unsub"}, NEW batch \in Batches,
           BeginBatch(t, c, kind, batch)
    PROVE  IInv'
<1>1. /\ op'[t] = [kind |-> kind, cons |-> c, todo |-> batch]
      /\ \A u \in Threads : op[u].kind = "idle"
      /\ \A u \in Threads \ {t} : op'[u] = op[u]
  BY DEF BeginBatch, CanWrite, IInv, TypeOK
<1>2. op'[t] \in WriteOp
  BY <1>1 DEF Batches, WriteOp
<1>3. TypeOK'
  BY <1>2 DEF IInv, TypeOK, BeginBatch, tables
<1>4. op'[t].kind = kind
  BY <1>1
<1>5. WriterAlone' /\ ReaderInv'
  BY <1>1, <1>4 DEF WriterAlone, WriteKinds, ReaderInv
<1>6. LinksAgree'
  BY <1>1, <1>4 DEF IInv, LinksAgree, BeginBatch, tables
<1>7. AliveIffSubscribed' /\ IndexExact'
  BY DEF IInv, BeginBatch, tables, AliveIffSubscribed, IndexExact
<1> QED BY <1>3, <1>5, <1>6, <1>7 DEF IInv

(* What one step of a batch or of a removal does to op.                    *)
LEMMA DoneStep ==
    ASSUME TypeOK, WriterAlone, NEW t \in Threads, NEW p,
           op[t].kind \in WriteKinds, Done(t, p)
    PROVE  /\ op' \in [Threads -> {Idle} \cup WriteOp \cup ReadOp]
           /\ op'[t].kind = op[t].kind
           /\ op'[t].cons = op[t].cons
           /\ op'[t].todo = op[t].todo \ {p}
           /\ \A u \in Threads \ {t} :
                 op[u].kind = "idle" /\ op'[u].kind = "idle"
           /\ WriterAlone'
<1>1. op[t] \in WriteOp
  BY OpKinds
<1>2. op'[t] = [op[t] EXCEPT !.todo = @ \ {p}]
  BY DEF Done, TypeOK
<1>3. op'[t] \in WriteOp /\ op'[t].kind = op[t].kind
      /\ op'[t].cons = op[t].cons /\ op'[t].todo = op[t].todo \ {p}
  BY <1>1, <1>2 DEF WriteOp
<1>4. op' \in [Threads -> {Idle} \cup WriteOp \cup ReadOp]
  BY <1>3, <1>2 DEF Done, TypeOK
<1>5. \A u \in Threads \ {t} : op[u].kind = "idle" /\ op'[u].kind = "idle"
  BY DEF WriterAlone, Done, TypeOK
<1>6. WriterAlone'
  BY <1>5, <1>3 DEF WriterAlone, WriteKinds
<1> QED BY <1>3, <1>4, <1>5, <1>6

LEMMA SubscribeOneKeepsIInv ==
    ASSUME IInv, NEW t \in Threads, NEW p \in Patterns, SubscribeOne(t, p)
    PROVE  IInv'
<1> DEFINE c == op[t].cons
<1>1. op[t].kind = "sub" /\ Done(t, p) /\ UNCHANGED consumers
  BY DEF SubscribeOne
<1>2. op[t] \in WriteOp /\ op[t].kind \in WriteKinds
  BY <1>1, OpKinds DEF WriteKinds, IInv
<1>3. c \in Consumers
  BY <1>2 DEF WriteOp
<1>4. /\ op' \in [Threads -> {Idle} \cup WriteOp \cup ReadOp]
      /\ op'[t].kind = "sub"
      /\ \A u \in Threads \ {t} : op[u].kind = "idle" /\ op'[u].kind = "idle"
      /\ WriterAlone'
  BY <1>1, <1>2, DoneStep DEF IInv
<1>5. ReaderInv'
  BY <1>4 DEF ReaderInv
<1>6. CASE c \notin consumers
  <2>1. UNCHANGED <<patterns, index, anyindex, subs, pats, consumers>>
    BY <1>6, <1>1 DEF SubscribeOne
  <2>2. TypeOK' /\ AliveIffSubscribed' /\ IndexExact'
    BY <2>1, <1>4 DEF IInv, TypeOK, AliveIffSubscribed, IndexExact
  <2>3. LinksAgree'
    BY <2>1, <1>4, <1>1 DEF IInv, LinksAgree
  <2> QED BY <2>2, <2>3, <1>4, <1>5 DEF IInv
<1>7. CASE c \in consumers
  <2>1. /\ patterns' = patterns \cup {p}
        /\ index' = IF p \in patterns THEN index ELSE Indexed(p)
        /\ anyindex' = IF p \in patterns THEN anyindex ELSE AnyIndexed(p)
        /\ subs' = [subs EXCEPT ![p] = @ \cup {c}]
        /\ pats' = [pats EXCEPT ![c] = @ \cup {p}]
    BY <1>7 DEF SubscribeOne
  <2>2. index' \in [Token -> SUBSET Patterns] /\ anyindex' \subseteq Patterns
    BY <2>1 DEF IInv, TypeOK, Indexed, AnyIndexed
  <2>3. TypeOK'
    BY <2>1, <2>2, <1>1, <1>3, <1>4 DEF IInv, TypeOK
  <2>4. AliveIffSubscribed'
    BY <2>1, <1>3 DEF IInv, TypeOK, AliveIffSubscribed
  <2>5. IndexExact'
    BY <2>1 DEF IInv, TypeOK, IndexExact, Indexed, AnyIndexed
  <2>6. LinksAgree'
    <3> SUFFICES ASSUME NEW d \in Consumers, NEW q \in Patterns
                 PROVE  d \in subs'[q] <=> d \in consumers /\ q \in pats'[d]
      BY <1>4, <1>1 DEF LinksAgree
    <3>1. d \in subs[q] <=> d \in consumers /\ q \in pats[d]
      BY <1>4, <1>1 DEF IInv, LinksAgree
    <3>2. subs'[q] = IF q = p THEN subs[q] \cup {c} ELSE subs[q]
      BY <2>1 DEF IInv, TypeOK
    <3>3. pats'[d] = IF d = c THEN pats[d] \cup {p} ELSE pats[d]
      BY <2>1 DEF IInv, TypeOK
    <3> QED BY <3>1, <3>2, <3>3, <1>7
  <2> QED BY <2>3, <2>4, <2>5, <2>6, <1>4, <1>5 DEF IInv
<1> QED BY <1>6, <1>7

LEMMA UnsubscribeOneKeepsIInv ==
    ASSUME IInv, NEW t \in Threads, NEW p \in Patterns, UnsubscribeOne(t, p)
    PROVE  IInv'
<1> DEFINE c == op[t].cons
<1>1. op[t].kind = "unsub" /\ Done(t, p) /\ UNCHANGED consumers
  BY DEF UnsubscribeOne
<1>2. op[t] \in WriteOp /\ op[t].kind \in WriteKinds
  BY <1>1, OpKinds DEF WriteKinds, IInv
<1>3. c \in Consumers
  BY <1>2 DEF WriteOp
<1>4. /\ op' \in [Threads -> {Idle} \cup WriteOp \cup ReadOp]
      /\ op'[t].kind = "unsub"
      /\ \A u \in Threads \ {t} : op[u].kind = "idle" /\ op'[u].kind = "idle"
      /\ WriterAlone'
  BY <1>1, <1>2, DoneStep DEF IInv
<1>5. ReaderInv'
  BY <1>4 DEF ReaderInv
<1>6. CASE ~(c \in consumers /\ p \in patterns /\ c \in subs[p])
  <2>1. UNCHANGED <<patterns, index, anyindex, subs, pats, consumers>>
    BY <1>6, <1>1 DEF UnsubscribeOne
  <2>2. TypeOK' /\ AliveIffSubscribed' /\ IndexExact'
    BY <2>1, <1>4 DEF IInv, TypeOK, AliveIffSubscribed, IndexExact
  <2>3. LinksAgree'
    BY <2>1, <1>4, <1>1 DEF IInv, LinksAgree
  <2> QED BY <2>2, <2>3, <1>4, <1>5 DEF IInv
<1>7. CASE c \in consumers /\ p \in patterns /\ c \in subs[p]
  <2>1. DropFromPattern(c, p) /\ pats' = [pats EXCEPT ![c] = @ \ {p}]
    BY <1>7 DEF UnsubscribeOne
  <2>2. /\ patterns' \subseteq Patterns
        /\ subs' \in [Patterns -> SUBSET Consumers]
        /\ index' \in [Token -> SUBSET Patterns]
        /\ anyindex' \subseteq Patterns
        /\ AliveIffSubscribed'
        /\ IndexExact'
        /\ \A q \in Patterns : subs'[q] = IF q = p THEN subs[p] \ {c}
                                          ELSE subs[q]
    BY <2>1, <1>3, DropKeepsTables DEF IInv
  <2>3. TypeOK'
    BY <2>1, <2>2, <1>1, <1>3, <1>4 DEF IInv, TypeOK
  <2>4. LinksAgree'
    <3> SUFFICES ASSUME NEW d \in Consumers, NEW q \in Patterns
                 PROVE  d \in subs'[q] <=> d \in consumers /\ q \in pats'[d]
      BY <1>4, <1>1 DEF LinksAgree
    <3>1. d \in subs[q] <=> d \in consumers /\ q \in pats[d]
      BY <1>4, <1>1 DEF IInv, LinksAgree
    <3>2. pats'[d] = IF d = c THEN pats[d] \ {p} ELSE pats[d]
      BY <2>1 DEF IInv, TypeOK
    <3> QED BY <3>1, <3>2, <2>2
  <2> QED BY <2>2, <2>3, <2>4, <1>4, <1>5 DEF IInv
<1> QED BY <1>6, <1>7

LEMMA EndBatchKeepsIInv ==
    ASSUME IInv, NEW t \in Threads, EndBatch(t)
    PROVE  IInv'
<1>1. /\ op[t].kind \in {"sub", "unsub"}
      /\ op' = [op EXCEPT ![t] = Idle]
      /\ UNCHANGED tables
  BY DEF EndBatch
<1>2. \A u \in Threads : op'[u].kind = "idle"
  BY <1>1 DEF IInv, TypeOK, WriterAlone, WriteKinds, Idle
<1>3. TypeOK'
  BY <1>1 DEF IInv, TypeOK, tables
<1>4. WriterAlone' /\ ReaderInv'
  BY <1>2 DEF WriterAlone, ReaderInv
<1>5. \A u \in Threads : op[u].kind # "rm"
  BY <1>1 DEF IInv, WriterAlone, WriteKinds
<1>6. LinksAgree'
  BY <1>1, <1>2, <1>5 DEF IInv, LinksAgree, tables
<1>7. AliveIffSubscribed' /\ IndexExact'
  BY <1>1 DEF IInv, tables, AliveIffSubscribed, IndexExact
<1> QED BY <1>3, <1>4, <1>6, <1>7 DEF IInv

(* A removal starts with all of the consumer's patterns still to do.       *)
LEMMA BeginRemoveKeepsIInv ==
    ASSUME IInv, NEW t \in Threads, NEW c \in Consumers, BeginRemove(t, c)
    PROVE  IInv'
<1>1. /\ op'[t] = [kind |-> "rm", cons |-> c, todo |-> pats[c]]
      /\ \A u \in Threads : op[u].kind = "idle"
      /\ \A u \in Threads \ {t} : op'[u] = op[u]
      /\ UNCHANGED tables
  BY DEF BeginRemove, CanWrite, IInv, TypeOK
<1>2. op'[t] \in WriteOp
  BY <1>1 DEF IInv, TypeOK, WriteOp
<1>3. TypeOK'
  BY <1>2, <1>1 DEF IInv, TypeOK, BeginRemove, tables
<1>4. op'[t].kind = "rm" /\ op'[t].cons = c /\ op'[t].todo = pats[c]
  BY <1>1
<1>5. WriterAlone' /\ ReaderInv'
  BY <1>1, <1>4 DEF WriterAlone, WriteKinds, ReaderInv
<1>6. LinksAgree'
  BY <1>1, <1>4 DEF IInv, LinksAgree, tables
<1>7. AliveIffSubscribed' /\ IndexExact'
  BY <1>1 DEF IInv, tables, AliveIffSubscribed, IndexExact
<1> QED BY <1>3, <1>5, <1>6, <1>7 DEF IInv

(* One pattern of a removal: p is no longer to do, and no longer names c.  *)
LEMMA RemoveOneKeepsIInv ==
    ASSUME IInv, NEW t \in Threads, NEW p \in Patterns, RemoveOne(t, p)
    PROVE  IInv'
<1> DEFINE c == op[t].cons
<1>1. op[t].kind = "rm" /\ Done(t, p) /\ DropFromPattern(c, p)
      /\ UNCHANGED <<consumers, pats>>
  BY DEF RemoveOne
<1>2. op[t] \in WriteOp /\ op[t].kind \in WriteKinds
  BY <1>1, OpKinds DEF WriteKinds, IInv
<1>3. c \in Consumers
  BY <1>2 DEF WriteOp
<1>4. /\ op' \in [Threads -> {Idle} \cup WriteOp \cup ReadOp]
      /\ op'[t].kind = "rm"
      /\ op'[t].cons = c
      /\ op'[t].todo = op[t].todo \ {p}
      /\ \A u \in Threads \ {t} : op[u].kind = "idle" /\ op'[u].kind = "idle"
      /\ WriterAlone'
  BY <1>1, <1>2, DoneStep DEF IInv
<1>5. ReaderInv'
  BY <1>4 DEF ReaderInv
<1>6. /\ patterns' \subseteq Patterns
      /\ subs' \in [Patterns -> SUBSET Consumers]
      /\ index' \in [Token -> SUBSET Patterns]
      /\ anyindex' \subseteq Patterns
      /\ AliveIffSubscribed'
      /\ IndexExact'
      /\ \A q \in Patterns : subs'[q] = IF q = p THEN subs[p] \ {c}
                                        ELSE subs[q]
  BY <1>1, <1>3, DropKeepsTables DEF IInv
<1>7. TypeOK'
  BY <1>6, <1>1, <1>4 DEF IInv, TypeOK
<1>8. LinksAgree'
  <2> SUFFICES ASSUME NEW d \in Consumers, NEW q \in Patterns
               PROVE  d \in subs'[q] <=> /\ d \in consumers
                                         /\ q \in pats[d]
                                         /\ d = c => q \in op'[t].todo
    BY <1>4, <1>1 DEF LinksAgree
  <2>1. d \in subs[q] <=> /\ d \in consumers
                          /\ q \in pats[d]
                          /\ d = c => q \in op[t].todo
    BY <1>4, <1>1 DEF IInv, LinksAgree
  <2> QED BY <2>1, <1>4, <1>6
<1> QED BY <1>4, <1>5, <1>6, <1>7, <1>8 DEF IInv

(* The end of a removal: no pattern names the consumer any more.           *)
LEMMA EndRemoveKeepsIInv ==
    ASSUME IInv, NEW t \in Threads, EndRemove(t)
    PROVE  IInv'
<1> DEFINE c == op[t].cons
<1>1. /\ op[t].kind = "rm" /\ op[t].todo = {}
      /\ op' = [op EXCEPT ![t] = Idle]
      /\ consumers' = consumers \ {c}
      /\ UNCHANGED <<patterns, subs, pats, index, anyindex>>
  BY DEF EndRemove
<1>2. \A u \in Threads : op'[u].kind = "idle"
  BY <1>1 DEF IInv, TypeOK, WriterAlone, WriteKinds, Idle
<1>3. TypeOK'
  BY <1>1 DEF IInv, TypeOK
<1>4. WriterAlone' /\ ReaderInv'
  BY <1>2 DEF WriterAlone, ReaderInv
<1>5. \A u \in Threads : op[u].kind = "rm" => u = t
  BY <1>1 DEF IInv, WriterAlone, WriteKinds
<1>6. LinksAgree'
  <2> SUFFICES ASSUME NEW d \in Consumers, NEW q \in Patterns
               PROVE  d \in subs[q] <=> d \in consumers \ {c} /\ q \in pats[d]
    BY <1>1, <1>2 DEF LinksAgree
  <2>1. d \in subs[q] <=> /\ d \in consumers
                          /\ q \in pats[d]
                          /\ d # c
    BY <1>1, <1>5 DEF IInv, LinksAgree
  <2> QED BY <2>1
<1>7. AliveIffSubscribed' /\ IndexExact'
  BY <1>1 DEF IInv, AliveIffSubscribed, IndexExact
<1> QED BY <1>3, <1>4, <1>6, <1>7 DEF IInv

(* A consume starts from lists of existing patterns; a pattern that has    *)
(* all tokens of the key is in the list of each of them.                   *)
LEMMA BeginConsumeKeepsIInv ==
    ASSUME IInv, NEW t \in Threads, NEW k \in Keys, BeginConsume(t, k)
    PROVE  IInv'
<1>1. PICK list \in CandidateLists(k) :
        op' = [op EXCEPT ![t] = [kind |-> "consume", key |-> k, list |-> list,
                                 any |-> anyindex, sent |-> {}]]
  BY DEF BeginConsume
<1>2. /\ \A u \in Threads : op[u].kind \notin WriteKinds
      /\ UNCHANGED tables
  BY DEF BeginConsume, CanRead
<1>3. /\ list \subseteq patterns
      /\ \A p \in list : TokenSet(p) # {}
      /\ \A p \in patterns : TokenSet(k) \subseteq TokenSet(p) => p \in list
  <2>1. CASE list = {} /\ \A w \in TokenSet(k) : index[w] = {}
    <3>1. ASSUME NEW p \in patterns, TokenSet(k) \subseteq TokenSet(p)
          PROVE  FALSE
      <4>1. PICK w : w \in TokenSet(k)
        BY KeysAreTopics, KeyMatchesItself
      <4>2. w \in Token
        BY <4>1 DEF Token
      <4> QED BY <2>1, <3>1, <4>1, <4>2 DEF IInv, IndexExact
    <3> QED BY <2>1, <3>1
  <2>2. CASE \E w \in TokenSet(k) : w \in Token /\ list = index[w]
    BY <2>2 DEF IInv, IndexExact
  <2> QED BY <2>1, <2>2, CandidateListCases
<1>4. anyindex \subseteq patterns /\ \A p \in anyindex : TokenSet(p) = {}
  BY DEF IInv, IndexExact
<1>5. op'[t] \in ReadOp
  BY <1>1, <1>3, <1>4 DEF IInv, TypeOK, ReadOp
<1>6. TypeOK'
  BY <1>1, <1>2, <1>5 DEF IInv, TypeOK, tables
<1>7. /\ op'[t].kind = "consume" /\ op'[t].key = k /\ op'[t].list = list
      /\ op'[t].any = anyindex /\ op'[t].sent = {}
  BY <1>1 DEF IInv, TypeOK
<1>8. \A u \in Threads \ {t} : op'[u] = op[u]
  BY <1>1 DEF IInv, TypeOK
<1>9. WriterAlone'
  BY <1>2, <1>7, <1>8 DEF WriterAlone, WriteKinds
<1>10. \A u \in Threads : op[u].kind # "rm" /\ op'[u].kind # "rm"
  BY <1>2, <1>7, <1>8 DEF WriteKinds
<1>11. LinksAgree'
  BY <1>2, <1>10 DEF IInv, LinksAgree, tables
<1>12. AliveIffSubscribed' /\ IndexExact'
  BY <1>2 DEF IInv, tables, AliveIffSubscribed, IndexExact
<1>13. ASSUME NEW p \in Patterns, Sure(k, p), NEW c \in subs[p]
       PROVE  p \in list \cup anyindex
  <2>1. p \in patterns
    BY <1>13 DEF IInv, AliveIffSubscribed
  <2>2. CASE TokenSet(k) \subseteq TokenSet(p)
    BY <2>1, <2>2, <1>3
  <2>3. CASE TokenSet(p) = {}
    BY <2>1, <2>3 DEF IInv, IndexExact
  <2> QED BY <1>13, <2>2, <2>3 DEF Sure, FoundByAnyToken
<1>14. ReaderInv'
  BY <1>2, <1>3, <1>4, <1>7, <1>8, <1>13 DEF IInv, ReaderInv, tables
<1> QED BY <1>6, <1>9, <1>11, <1>12, <1>14 DEF IInv

(* One candidate of a consume, from either list.                           *)
LEMMA TryKeepsIInv ==
    ASSUME IInv, NEW t \in Threads, NEW p \in Patterns,
           TryListed(t, p) \/ TryAny(t, p)
    PROVE  IInv'
<1>1. op[t].kind = "consume" /\ UNCHANGED tables
      /\ p \in op[t].list \cup op[t].any
  BY DEF TryListed, TryAny
<1>2. op[t] \in ReadOp
  BY <1>1, OpKinds DEF IInv
<1>3. Receivers(op[t].key, p) \subseteq Consumers \X Patterns
  BY DEF Receivers, IInv, TypeOK
<1>4. /\ op'[t] \in ReadOp
      /\ op'[t].kind = "consume"
      /\ op'[t].key = op[t].key
      /\ op'[t].list \subseteq op[t].list
      /\ op'[t].any \subseteq op[t].any
      /\ \A q \in op[t].list \ {p} : q \in op'[t].list
      /\ \A q \in op[t].any \ {p} : q \in op'[t].any
      /\ p \notin op'[t].list \cup op'[t].any
      /\ op'[t].sent = op[t].sent \cup Receivers(op[t].key, p)
      /\ \A u \in Threads \ {t} : op'[u] = op[u]
      /\ op' \in [Threads -> {Idle} \cup WriteOp \cup ReadOp]
  <2>1. p \in op[t].list => p \notin op[t].any
    BY <1>1 DEF IInv, ReaderInv
  <2>2. CASE TryListed(t, p)
    <3>1. op' = [op EXCEPT ![t].list = @ \ {p},
                           ![t].sent = @ \cup Receivers(op[t].key, p)]
          /\ p \in op[t].list
      BY <2>2 DEF TryListed
    <3> QED BY <3>1, <2>1, <1>2, <1>3 DEF IInv, TypeOK, ReadOp
  <2>3. CASE TryAny(t, p)
    <3>1. op' = [op EXCEPT ![t].any = @ \ {p},
                           ![t].sent = @ \cup Receivers(op[t].key, p)]
          /\ p \in op[t].any /\ op[t].list = {}
      BY <2>3 DEF TryAny
    <3> QED BY <3>1, <1>2, <1>3 DEF IInv, TypeOK, ReadOp
  <2> QED BY <2>2, <2>3
<1>5. TypeOK'
  BY <1>1, <1>4 DEF IInv, TypeOK, tables
<1>6. WriterAlone'
  BY <1>1, <1>4 DEF IInv, WriterAlone, WriteKinds
<1>7. LinksAgree'
  <2>1. \A u \in Threads : op[u].kind # "rm" /\ op'[u].kind # "rm"
    BY <1>1, <1>4 DEF IInv, WriterAlone, WriteKinds
  <2> QED BY <1>1, <2>1 DEF IInv, LinksAgree, tables
<1>8. AliveIffSubscribed' /\ IndexExact'
  BY <1>1 DEF IInv, tables, AliveIffSubscribed, IndexExact
<1>9. /\ op'[t].list \cup op'[t].any \subseteq patterns
      /\ \A q \in op'[t].list : TokenSet(q) # {}
      /\ \A q \in op'[t].any : TokenSet(q) = {}
  BY <1>1, <1>4 DEF IInv, ReaderInv
<1>10. \A s \in op'[t].sent : /\ s[1] \in subs[s[2]]
                              /\ Matches(op[t].key, s[2])
                              /\ s[2] \notin op'[t].list \cup op'[t].any
  <2>1. \A s \in op[t].sent : /\ s[1] \in subs[s[2]]
                              /\ Matches(op[t].key, s[2])
                              /\ s[2] \notin op'[t].list \cup op'[t].any
    BY <1>1, <1>4 DEF IInv, ReaderInv
  <2>2. \A s \in Receivers(op[t].key, p) :
          s[1] \in subs[s[2]] /\ Matches(op[t].key, s[2]) /\ s[2] = p
    BY DEF Receivers
  <2> QED BY <2>1, <2>2, <1>4
<1>11. ASSUME NEW q \in Patterns, Sure(op[t].key, q)
       PROVE  \/ q \in op'[t].list \cup op'[t].any
              \/ \A c \in subs[q] : <<c, q>> \in op'[t].sent
  <2>1. \/ q \in op[t].list \cup op[t].any
        \/ \A c \in subs[q] : <<c, q>> \in op[t].sent
    BY <1>1, <1>11 DEF IInv, ReaderInv
  <2>2. CASE q = p
    <3>1. Receivers(op[t].key, p) = subs[p] \X {p}
      BY <2>2, <1>11 DEF Receivers, Sure
    <3> QED BY <3>1, <2>2, <1>4
  <2>3. CASE q # p
    BY <2>1, <2>3, <1>4
  <2> QED BY <2>2, <2>3
<1>12. ReaderInv'
  BY <1>1, <1>4, <1>9, <1>10, <1>11 DEF IInv, ReaderInv, tables
<1> QED BY <1>5, <1>6, <1>7, <1>8, <1>12 DEF IInv

LEMMA EndConsumeKeepsIInv ==
    ASSUME IInv, NEW t \in Threads, EndConsume(t)
    PROVE  IInv'
<1>1. /\ op[t].kind = "consume"
      /\ op' = [op EXCEPT ![t] = Idle]
      /\ UNCHANGED tables
  BY DEF EndConsume, Finished
<1>2. op'[t].kind = "idle" /\ \A u \in Threads \ {t} : op'[u] = op[u]
  BY <1>1 DEF IInv, TypeOK, Idle
<1>3. TypeOK'
  BY <1>1 DEF IInv, TypeOK, tables
<1>4. WriterAlone' /\ ReaderInv'
  BY <1>1, <1>2 DEF IInv, WriterAlone, WriteKinds, ReaderInv, tables
<1>5. \A u \in Threads : op[u].kind # "rm" /\ op'[u].kind # "rm"
  BY <1>1, <1>2 DEF IInv, WriterAlone, WriteKinds
<1>6. LinksAgree'
  BY <1>1, <1>5 DEF IInv, LinksAgree, tables
<1>7. AliveIffSubscribed' /\ IndexExact'
  BY <1>1 DEF IInv, tables, AliveIffSubscribed, IndexExact
<1> QED BY <1>3, <1>4, <1>6, <1>7 DEF IInv

-----------------------------------------------------------------------------
(***************************************************************************)
(* The theorems.                                                           *)
(***************************************************************************)

LEMMA StepKeepsIInv == IInv /\ [Next]_vars => IInv'
<1> SUFFICES ASSUME IInv, [Next]_vars PROVE IInv'
  OBVIOUS
<1>1. CASE UNCHANGED vars
  BY <1>1 DEF vars, tables, IInv, TypeOK, WriterAlone, LinksAgree,
              AliveIffSubscribed, IndexExact, ReaderInv
<1>2. ASSUME NEW t \in Threads, NEW c \in Consumers,
             \/ AddConsumer(t, c)
             \/ BeginRemove(t, c)
             \/ \E kind \in {"sub", "unsub"}, b \in Batches :
                  BeginBatch(t, c, kind, b)
      PROVE  IInv'
  BY <1>2, AddConsumerKeepsIInv, BeginRemoveKeepsIInv, BeginBatchKeepsIInv
<1>3. ASSUME NEW t \in Threads, NEW p \in Patterns,
             \/ SubscribeOne(t, p)
             \/ UnsubscribeOne(t, p)
             \/ RemoveOne(t, p)
             \/ TryListed(t, p)
             \/ TryAny(t, p)
      PROVE  IInv'
  BY <1>3, SubscribeOneKeepsIInv, UnsubscribeOneKeepsIInv, RemoveOneKeepsIInv,
     TryKeepsIInv
<1>4. ASSUME NEW t \in Threads,
             \/ EndBatch(t)
             \/ EndRemove(t)
             \/ EndConsume(t)
             \/ \E k \in Keys : BeginConsume(t, k)
      PROVE  IInv'
  BY <1>4, EndBatchKeepsIInv, EndRemoveKeepsIInv, EndConsumeKeepsIInv,
     BeginConsumeKeepsIInv
<1> QED BY <1>1, <1>2, <1>3, <1>4 DEF Next

(* The inductive invariant holds in every reachable state.                 *)
THEOREM IInvAlways == Spec => []IInv
<1>1. Init => IInv
  BY InitIInv
<1>2. IInv /\ [Next]_vars => IInv'
  BY StepKeepsIInv
<1> QED BY <1>1, <1>2, PTL DEF Spec

(* The tables and the per-thread operations keep their types.              *)
THEOREM TypeCorrect == Spec => []TypeOK
<1>1. IInv => TypeOK
  BY DEF IInv
<1> QED BY <1>1, IInvAlways, PTL

(* A thread that changes the tables is alone with them (rwmtx_).           *)
THEOREM WriterAloneAlways == Spec => []WriterAlone
<1>1. IInv => WriterAlone
  BY DEF IInv
<1> QED BY <1>1, IInvAlways, PTL

(* Pattern::consumers and Consumer::patterns record the same subscriptions.*)
THEOREM LinksAlwaysAgree == Spec => []LinksAgree
<1>1. IInv => LinksAgree
  BY DEF IInv
<1> QED BY <1>1, IInvAlways, PTL

(* A Pattern object exists exactly while somebody is subscribed to it.     *)
THEOREM NoPatternLeak == Spec => []AliveIffSubscribed
<1>1. IInv => AliveIffSubscribed
  BY DEF IInv
<1> QED BY <1>1, IInvAlways, PTL

(* The index has no dangling and no missing entry.                         *)
THEOREM IndexAlwaysExact == Spec => []IndexExact
<1>1. IInv => IndexExact
  BY DEF IInv
<1> QED BY <1>1, IInvAlways, PTL

(* The tables agree with each other in every reachable state.              *)
THEOREM TablesAlwaysAgree == Spec => []TablesAgree
<1>1. IInv => TablesAgree
  BY DEF IInv, TablesAgree
<1> QED BY <1>1, IInvAlways, PTL

(* A consume in progress only ever touches live patterns and registered    *)
(* consumers.                                                              *)
THEOREM ConsumeSafe == Spec => []ConsumeTouchesLiveObjects
<1>1. IInv => ConsumeTouchesLiveObjects
  <2> SUFFICES ASSUME IInv, NEW t \in Threads, op[t].kind = "consume"
               PROVE  /\ op[t].list \cup op[t].any \subseteq patterns
                      /\ \A s \in op[t].sent :
                            s[1] \in consumers /\ s[1] \in subs[s[2]]
    BY DEF ConsumeTouchesLiveObjects
  <2>1. op[t] \in ReadOp
    BY OpKinds DEF IInv
  <2>2. op[t].list \cup op[t].any \subseteq patterns
    BY DEF IInv, ReaderInv
  <2>3. \A s \in op[t].sent : s[1] \in subs[s[2]]
    BY DEF IInv, ReaderInv
  <2>4. \A s \in op[t].sent : s[1] \in Consumers /\ s[2] \in Patterns
    BY <2>1 DEF ReadOp
  <2>5. \A c \in Consumers, p \in Patterns : c \in subs[p] => c \in consumers
    BY DEF IInv, LinksAgree
  <2> QED BY <2>2, <2>3, <2>4, <2>5
<1> QED BY <1>1, IInvAlways, PTL

(* One message goes to one subscription at most once.                      *)
THEOREM NoDoubleDelivery == Spec => []AtMostOncePerSubscription
<1>1. IInv => AtMostOncePerSubscription
  BY DEF IInv, ReaderInv, AtMostOncePerSubscription
<1> QED BY <1>1, IInvAlways, PTL

(* A subscription to a matching pattern that has all tokens of the key, or *)
(* none at all, is served.                                                 *)
THEOREM SureAlwaysDelivered == Spec => []SureDelivery
<1>1. IInv => SureDelivery
  <2> SUFFICES ASSUME IInv, NEW t \in Threads, Finished(t),
                      NEW c \in consumers, NEW p \in pats[c],
                      WellFormed(p), RefMatches(op[t].key, p),
                      FoundByAnyToken(op[t].key, p)
               PROVE  <<c, p>> \in op[t].sent
    BY DEF SureDelivery
  <2>1. op[t].kind = "consume" /\ op[t].list = {} /\ op[t].any = {}
    BY DEF Finished
  <2>2. c \in Consumers /\ p \in Patterns
    BY DEF IInv, TypeOK
  <2>3. \A u \in Threads : op[u].kind # "rm"
    BY <2>1 DEF IInv, WriterAlone, WriteKinds
  <2>4. c \in subs[p]
    BY <2>2, <2>3 DEF IInv, LinksAgree
  <2>5. Matches(op[t].key, p)
    <3>1. op[t].key \in Keys
      BY <2>1, OpKinds DEF IInv, ReadOp
    <3>2. op[t].key \in Seq(Word) /\ p \in Seq(PatWord)
      BY <2>2, <3>1, TopicsAssumption
    <3> QED BY <3>2, MatchFindsAll
  <2>6. Sure(op[t].key, p)
    BY <2>5 DEF Sure
  <2> QED BY <2>1, <2>2, <2>4, <2>6 DEF IInv, ReaderInv
<1> QED BY <1>1, IInvAlways, PTL

(* Among them are the subscriptions to the published key itself.           *)
THEOREM ExactKeyDelivered ==
    Spec => [](\A t \in Threads :
                  Finished(t) =>
                    \A c \in consumers : op[t].key \in pats[c]
                                            => <<c, op[t].key>> \in op[t].sent)
<1> DEFINE Delivered ==
        \A t \in Threads :
            Finished(t) =>
                \A c \in consumers : op[t].key \in pats[c]
                                        => <<c, op[t].key>> \in op[t].sent
<1>1. IInv /\ SureDelivery => Delivered
  <2> SUFFICES ASSUME IInv, SureDelivery, NEW t \in Threads, Finished(t),
                      NEW c \in consumers, op[t].key \in pats[c]
               PROVE  <<c, op[t].key>> \in op[t].sent
    OBVIOUS
  <2>1. op[t].key \in Keys
    BY OpKinds DEF IInv, ReadOp, Finished
  <2>2. WellFormed(op[t].key) /\ RefMatches(op[t].key, op[t].key)
    BY <2>1, KeysAreTopics, KeyMatchesItself
  <2> QED BY <2>2 DEF SureDelivery, FoundByAnyToken
<1> QED BY <1>1, IInvAlways, SureAlwaysDelivered, PTL

-----------------------------------------------------------------------------
(***************************************************************************)
(* Part 3: Repl implements PubSub.                                         *)
(***************************************************************************)

(* What a step of Repl is to be shown to be.                               *)
AbstractStep == [Abstract!Next]_(Abstract!vars)

-----------------------------------------------------------------------------
(***************************************************************************)
(* What the mapping shows, by who is at work.  Each fact is needed in the  *)
(* state before and in the state after a step.                             *)
(***************************************************************************)

(* Without a writer the tables are shown as they are.                      *)
QuietMapping ==
    (\A t \in Threads : op[t].kind \notin WriteKinds) =>
        absMembers = consumers /\ absRel = Subscribed

(* A writer is shown as if it were done.                                   *)
Pending(t) == {s \in Consumers \X Patterns :
                    s[1] = op[t].cons /\ s[2] \in op[t].todo}

WriterMapping ==
    \A t \in Threads :
        /\ op[t].kind \in WriteKinds
        /\ \A u \in Threads \ {t} : op[u].kind = "idle"
        => /\ absMembers = IF op[t].kind = "rm"
                           THEN consumers \ {op[t].cons} ELSE consumers
           /\ absRel = IF op[t].kind = "sub"
                       THEN Subscribed \cup {s \in Pending(t) : s[1] \in consumers}
                       ELSE Subscribed \ Pending(t)

(* Only a consume that has run its course is a publication.                *)
PubMapping ==
    \A t \in Threads :
        absPub[t] = IF Finished(t)
                    THEN [done |-> TRUE, key |-> op[t].key, to |-> op[t].sent]
                    ELSE [done |-> FALSE]

LEMMA QuietMappingNow == QuietMapping
  BY DEF QuietMapping, absMembers, absRel, Leaving, ToSubscribe,
         ToUnsubscribe, OpsOf, WriteKinds

LEMMA QuietMappingNext == QuietMapping'
  BY QuietMappingNow, PTL

LEMMA WriterMappingNow == TypeOK => WriterMapping
<1> SUFFICES ASSUME TypeOK, NEW t \in Threads, op[t].kind \in WriteKinds,
                    \A u \in Threads \ {t} : op[u].kind = "idle"
             PROVE  /\ absMembers = IF op[t].kind = "rm"
                                    THEN consumers \ {op[t].cons} ELSE consumers
                    /\ absRel = IF op[t].kind = "sub"
                                THEN Subscribed \cup
                                       {s \in Pending(t) : s[1] \in consumers}
                                ELSE Subscribed \ Pending(t)
  BY DEF WriterMapping
<1>1. consumers \subseteq Consumers
  BY DEF TypeOK
<1>2. absMembers = IF op[t].kind = "rm"
                   THEN consumers \ {op[t].cons} ELSE consumers
  BY <1>1 DEF absMembers, Leaving, OpsOf
<1>3. CASE op[t].kind = "sub"
  <2>1. OpsOf("sub") = {t} /\ OpsOf("unsub") = {} /\ OpsOf("rm") = {}
    BY <1>3 DEF OpsOf
  <2>2. ToUnsubscribe = {}
    BY <2>1 DEF ToUnsubscribe
  <2>3. ToSubscribe = {s \in Pending(t) : s[1] \in consumers}
    BY <2>1, <1>1 DEF ToSubscribe, Pending
  <2> QED BY <1>2, <1>3, <2>2, <2>3 DEF absRel
<1>4. CASE op[t].kind # "sub"
  <2>1. OpsOf("sub") = {} /\ OpsOf("unsub") \cup OpsOf("rm") = {t}
    BY <1>4 DEF OpsOf, WriteKinds
  <2>2. ToSubscribe = {}
    BY <2>1 DEF ToSubscribe
  <2>3. ToUnsubscribe = Pending(t)
    BY <2>1 DEF ToUnsubscribe, Pending
  <2> QED BY <1>2, <1>4, <2>2, <2>3 DEF absRel
<1> QED BY <1>3, <1>4

LEMMA WriterMappingNext == TypeOK' => WriterMapping'
  BY WriterMappingNow, PTL

LEMMA PubMappingNow == PubMapping
  BY DEF PubMapping, absPub

LEMMA PubMappingNext == PubMapping'
  BY PubMappingNow, PTL

(* A step that finishes no consume and ends none publishes nothing.        *)
LEMMA PubUnchanged ==
    ASSUME \A t \in Threads : ~Finished(t) /\ ~Finished(t)'
    PROVE  absPub' = absPub
  BY DEF absPub

-----------------------------------------------------------------------------
(***************************************************************************)
(* One lemma per action.                                                   *)
(***************************************************************************)

LEMMA InitRefines == Init => Abstract!Init
<1> SUFFICES ASSUME Init PROVE Abstract!Init
  OBVIOUS
<1>1. \A t \in Threads : op[t].kind = "idle"
  BY DEF Init, NoTables, NewPattern, NewConsumer, Idle
<1>2. absMembers = {} /\ absRel = Subscribed
  BY <1>1, QuietMappingNow DEF QuietMapping, WriteKinds, Init, NoTables,
         NewPattern, NewConsumer
<1>3. Subscribed = {}
  BY DEF Init, NoTables, NewPattern, NewConsumer, Subscribed
<1>4. absPub = [t \in Threads |-> [done |-> FALSE]]
  BY <1>1 DEF absPub, Finished
<1> QED BY <1>2, <1>3, <1>4 DEF Abstract!Init, Abstract!NoPub

LEMMA StutterIsAbstractStep ==
    absMembers' = absMembers /\ absRel' = absRel /\ absPub' = absPub
        => AbstractStep
  BY DEF AbstractStep, Abstract!vars

(* addConsumer is Join.                                                    *)
LEMMA AddConsumerRefines ==
    ASSUME IInv, IInv', NEW t \in Threads, NEW c \in Consumers,
           AddConsumer(t, c)
    PROVE  AbstractStep
<1>1. \A u \in Threads : op'[u].kind = "idle" /\ op[u].kind = "idle"
  BY DEF AddConsumer, CanWrite
<1>2. absMembers = consumers /\ absRel = Subscribed
  BY <1>1, QuietMappingNow DEF QuietMapping, WriteKinds
<1>3. absMembers' = consumers' /\ absRel' = Subscribed'
  BY <1>1, QuietMappingNext DEF QuietMapping, WriteKinds
<1>4. absPub' = absPub
  BY <1>1, PubUnchanged DEF Finished
<1>5. Abstract!Join(c)
  BY <1>2, <1>3, <1>4 DEF Abstract!Join, AddConsumer, Subscribed
<1> QED BY <1>5 DEF AbstractStep, Abstract!Next

(* The start of a batch is Subscribe or Unsubscribe, or nothing when the   *)
(* consumer is not registered.                                             *)
LEMMA BeginBatchRefines ==
    ASSUME IInv, IInv', NEW t \in Threads, NEW c \in Consumers,
           NEW kind \in {"sub", "unsub"}, NEW batch \in Batches,
           BeginBatch(t, c, kind, batch)
    PROVE  AbstractStep
<1>1. /\ op' = [op EXCEPT ![t] = [kind |-> kind, cons |-> c, todo |-> batch]]
      /\ \A u \in Threads : op[u].kind = "idle"
      /\ UNCHANGED tables
  BY DEF BeginBatch, CanWrite
<1>2. /\ op'[t].kind = kind /\ op'[t].cons = c /\ op'[t].todo = batch
      /\ \A u \in Threads \ {t} : op'[u].kind = "idle"
      /\ op'[t].kind \in WriteKinds
  BY <1>1 DEF IInv, TypeOK, WriteKinds
<1>3. absMembers = consumers /\ absRel = Subscribed
  BY <1>1, QuietMappingNow DEF QuietMapping, WriteKinds
<1>4. /\ absMembers' = consumers
      /\ absRel' = IF kind = "sub"
                   THEN Subscribed \cup {s \in Pending(t)' : s[1] \in consumers}
                   ELSE Subscribed \ Pending(t)'
  <2>1. Subscribed' = Subscribed /\ consumers' = consumers
    BY <1>1 DEF Subscribed, tables
  <2> QED BY <1>2, <2>1, WriterMappingNext DEF IInv, WriterMapping
<1>5. absPub' = absPub
  BY <1>1, <1>2, PubUnchanged DEF Finished
<1>6. batch \in SUBSET Patterns
  BY DEF Batches
<1>7. Pending(t)' = {c} \X batch
  BY <1>2, <1>6 DEF Pending
<1>8. CASE c \in consumers /\ kind = "sub"
  <2>1. absRel' = absRel \cup ({c} \X batch)
    BY <1>3, <1>4, <1>7, <1>8
  <2>2. Abstract!Subscribe(c, batch) /\ c \in absMembers
    BY <2>1, <1>3, <1>4, <1>5, <1>8 DEF Abstract!Subscribe
  <2> QED BY <2>2, <1>6 DEF AbstractStep, Abstract!Next
<1>9. CASE c \in consumers /\ kind = "unsub"
  <2>1. Abstract!Unsubscribe(c, batch) /\ c \in absMembers
    BY <1>3, <1>4, <1>5, <1>7, <1>9 DEF Abstract!Unsubscribe
  <2> QED BY <2>1, <1>6 DEF AbstractStep, Abstract!Next
<1>10. CASE c \notin consumers
  <2>1. \A p \in Patterns : c \notin subs[p]
    BY <1>10 DEF IInv, LinksAgree
  <2>2. absRel' = absRel
    BY <2>1, <1>3, <1>4, <1>7, <1>10 DEF Subscribed
  <2> QED BY <2>2, <1>3, <1>4, <1>5, StutterIsAbstractStep
<1> QED BY <1>8, <1>9, <1>10

(* The steps of a batch and its end show nothing.                          *)
LEMMA SubscribeOneRefines ==
    ASSUME IInv, IInv', NEW t \in Threads, NEW p \in Patterns,
           SubscribeOne(t, p)
    PROVE  AbstractStep
<1> DEFINE c == op[t].cons
<1>1. op[t].kind = "sub" /\ p \in op[t].todo /\ Done(t, p)
      /\ UNCHANGED consumers
  BY DEF SubscribeOne
<1>2. op[t] \in WriteOp /\ op[t].kind \in WriteKinds /\ c \in Consumers
  BY <1>1, OpKinds DEF WriteKinds, WriteOp, IInv
<1>3. /\ op'[t].kind = "sub" /\ op'[t].cons = c
      /\ op'[t].todo = op[t].todo \ {p}
      /\ \A u \in Threads \ {t} : op[u].kind = "idle" /\ op'[u].kind = "idle"
  BY <1>1, <1>2, DoneStep DEF IInv
<1>4. absPub' = absPub
  BY <1>1, <1>3, PubUnchanged DEF Finished
<1>5. /\ absMembers = consumers
      /\ absRel = Subscribed \cup {s \in Pending(t) : s[1] \in consumers}
  BY <1>1, <1>2, <1>3, WriterMappingNow DEF WriterMapping, IInv
<1>6. /\ absMembers' = consumers
      /\ absRel' = Subscribed' \cup {s \in Pending(t)' : s[1] \in consumers}
  BY <1>1, <1>2, <1>3, WriterMappingNext DEF WriterMapping, IInv
<1>7. /\ Pending(t) = {c} \X op[t].todo
      /\ Pending(t)' = {c} \X (op[t].todo \ {p})
  BY <1>2, <1>3 DEF Pending, WriteOp
<1>8. CASE c \in consumers
  <2>1. subs' = [subs EXCEPT ![p] = @ \cup {c}]
    BY <1>8 DEF SubscribeOne
  <2>2. Subscribed' = Subscribed \cup {<<c, p>>}
    BY <2>1, <1>2 DEF Subscribed, IInv, TypeOK
  <2> QED BY <1>1, <1>4, <1>5, <1>6, <1>7, <1>8, <2>2, StutterIsAbstractStep
<1>9. CASE c \notin consumers
  <2>1. Subscribed' = Subscribed
    BY <1>9 DEF SubscribeOne, Subscribed
  <2> QED BY <1>4, <1>5, <1>6, <1>7, <1>9, <2>1, StutterIsAbstractStep
<1> QED BY <1>8, <1>9

LEMMA DropsOneSubscription ==
    ASSUME IInv, NEW c \in Consumers, NEW p \in Patterns,
           DropFromPattern(c, p)
    PROVE  Subscribed' = Subscribed \ {<<c, p>>}
<1>1. \A q \in Patterns : subs'[q] = IF q = p THEN subs[p] \ {c} ELSE subs[q]
  BY DropKeepsTables DEF IInv
<1> QED BY <1>1 DEF Subscribed

LEMMA UnsubscribeOneRefines ==
    ASSUME IInv, IInv', NEW t \in Threads, NEW p \in Patterns,
           UnsubscribeOne(t, p)
    PROVE  AbstractStep
<1> DEFINE c == op[t].cons
<1>1. op[t].kind = "unsub" /\ p \in op[t].todo /\ Done(t, p)
      /\ UNCHANGED consumers
  BY DEF UnsubscribeOne
<1>2. op[t] \in WriteOp /\ op[t].kind \in WriteKinds /\ c \in Consumers
  BY <1>1, OpKinds DEF WriteKinds, WriteOp, IInv
<1>3. /\ op'[t].kind = "unsub" /\ op'[t].cons = c
      /\ op'[t].todo = op[t].todo \ {p}
      /\ \A u \in Threads \ {t} : op[u].kind = "idle" /\ op'[u].kind = "idle"
  BY <1>1, <1>2, DoneStep DEF IInv
<1>4. absPub' = absPub
  BY <1>1, <1>3, PubUnchanged DEF Finished
<1>5. absMembers = consumers /\ absRel = Subscribed \ Pending(t)
  BY <1>1, <1>2, <1>3, WriterMappingNow DEF WriterMapping, IInv
<1>6. absMembers' = consumers /\ absRel' = Subscribed' \ Pending(t)'
  BY <1>1, <1>2, <1>3, WriterMappingNext DEF WriterMapping, IInv
<1>7. /\ Pending(t) = {c} \X op[t].todo
      /\ Pending(t)' = {c} \X (op[t].todo \ {p})
  BY <1>2, <1>3 DEF Pending, WriteOp
<1>8. Subscribed' = Subscribed \ {<<c, p>>}
  <2>1. CASE c \in consumers /\ p \in patterns /\ c \in subs[p]
    BY <2>1, <1>2, DropsOneSubscription DEF UnsubscribeOne
  <2>2. CASE ~(c \in consumers /\ p \in patterns /\ c \in subs[p])
    <3>1. c \notin subs[p]
      BY <2>2, <1>2 DEF IInv, LinksAgree, AliveIffSubscribed
    <3>2. subs' = subs
      BY <2>2 DEF UnsubscribeOne
    <3> QED BY <3>1, <3>2 DEF Subscribed
  <2> QED BY <2>1, <2>2
<1> QED BY <1>1, <1>4, <1>5, <1>6, <1>7, <1>8, StutterIsAbstractStep

LEMMA EndBatchRefines ==
    ASSUME IInv, IInv', NEW t \in Threads, EndBatch(t)
    PROVE  AbstractStep
<1>1. /\ op[t].kind \in {"sub", "unsub"} /\ op[t].todo = {}
      /\ op' = [op EXCEPT ![t] = Idle]
      /\ UNCHANGED tables
  BY DEF EndBatch
<1>2. /\ op[t].kind \in WriteKinds
      /\ \A u \in Threads \ {t} : op[u].kind = "idle"
  BY <1>1 DEF IInv, WriterAlone, WriteKinds
<1>3. \A u \in Threads : op'[u].kind = "idle"
  BY <1>1, <1>2 DEF IInv, TypeOK, Idle
<1>4. absPub' = absPub
  BY <1>1, <1>2, <1>3, PubUnchanged DEF Finished
<1>5. Pending(t) = {}
  BY <1>1 DEF Pending
<1>6. absMembers = consumers /\ absRel = Subscribed
  BY <1>1, <1>2, <1>5, WriterMappingNow DEF WriterMapping, IInv
<1>7. absMembers' = consumers' /\ absRel' = Subscribed'
  BY <1>3, QuietMappingNext DEF QuietMapping, WriteKinds
<1>8. consumers' = consumers /\ Subscribed' = Subscribed
  BY <1>1 DEF tables, Subscribed
<1> QED BY <1>4, <1>6, <1>7, <1>8, StutterIsAbstractStep

(* The start of a removal is Leave; the rest of it shows nothing.          *)
LEMMA BeginRemoveRefines ==
    ASSUME IInv, IInv', NEW t \in Threads, NEW c \in Consumers,
           BeginRemove(t, c)
    PROVE  AbstractStep
<1>1. /\ op' = [op EXCEPT ![t] = [kind |-> "rm", cons |-> c, todo |-> pats[c]]]
      /\ \A u \in Threads : op[u].kind = "idle"
      /\ UNCHANGED tables
  BY DEF BeginRemove, CanWrite
<1>2. /\ op'[t].kind = "rm" /\ op'[t].cons = c /\ op'[t].todo = pats[c]
      /\ \A u \in Threads \ {t} : op'[u].kind = "idle"
      /\ op'[t].kind \in WriteKinds
  BY <1>1 DEF IInv, TypeOK, WriteKinds
<1>3. absMembers = consumers /\ absRel = Subscribed
  BY <1>1, QuietMappingNow DEF QuietMapping, WriteKinds
<1>4. consumers' = consumers /\ Subscribed' = Subscribed
  BY <1>1 DEF tables, Subscribed
<1>5. absMembers' = consumers \ {c} /\ absRel' = Subscribed \ Pending(t)'
  BY <1>2, <1>4, WriterMappingNext DEF WriterMapping, IInv
<1>6. absPub' = absPub
  BY <1>1, <1>2, PubUnchanged DEF Finished
<1>7. \A p \in Patterns : c \in subs[p] => p \in pats[c]
  BY DEF IInv, LinksAgree
<1>8. Subscribed \ Pending(t)' = {s \in Subscribed : s[1] # c}
  BY <1>2, <1>7 DEF Pending, Subscribed
<1>9. Abstract!Leave(c)
  BY <1>3, <1>5, <1>6, <1>8 DEF Abstract!Leave
<1> QED BY <1>9 DEF AbstractStep, Abstract!Next

LEMMA RemoveOneRefines ==
    ASSUME IInv, IInv', NEW t \in Threads, NEW p \in Patterns, RemoveOne(t, p)
    PROVE  AbstractStep
<1> DEFINE c == op[t].cons
<1>1. op[t].kind = "rm" /\ p \in op[t].todo /\ Done(t, p)
      /\ DropFromPattern(c, p) /\ UNCHANGED consumers
  BY DEF RemoveOne
<1>2. op[t] \in WriteOp /\ op[t].kind \in WriteKinds /\ c \in Consumers
  BY <1>1, OpKinds DEF WriteKinds, WriteOp, IInv
<1>3. /\ op'[t].kind = "rm" /\ op'[t].cons = c
      /\ op'[t].todo = op[t].todo \ {p}
      /\ \A u \in Threads \ {t} : op[u].kind = "idle" /\ op'[u].kind = "idle"
  BY <1>1, <1>2, DoneStep DEF IInv
<1>4. absPub' = absPub
  BY <1>1, <1>3, PubUnchanged DEF Finished
<1>5. absMembers = consumers \ {c} /\ absRel = Subscribed \ Pending(t)
  BY <1>1, <1>2, <1>3, WriterMappingNow DEF WriterMapping, IInv
<1>6. absMembers' = consumers \ {c} /\ absRel' = Subscribed' \ Pending(t)'
  BY <1>1, <1>2, <1>3, WriterMappingNext DEF WriterMapping, IInv
<1>7. /\ Pending(t) = {c} \X op[t].todo
      /\ Pending(t)' = {c} \X (op[t].todo \ {p})
  BY <1>2, <1>3 DEF Pending, WriteOp
<1>8. Subscribed' = Subscribed \ {<<c, p>>}
  BY <1>1, <1>2, DropsOneSubscription
<1> QED BY <1>1, <1>4, <1>5, <1>6, <1>7, <1>8, StutterIsAbstractStep

LEMMA EndRemoveRefines ==
    ASSUME IInv, IInv', NEW t \in Threads, EndRemove(t)
    PROVE  AbstractStep
<1> DEFINE c == op[t].cons
<1>1. /\ op[t].kind = "rm" /\ op[t].todo = {}
      /\ op' = [op EXCEPT ![t] = Idle]
      /\ consumers' = consumers \ {c} /\ subs' = subs
  BY DEF EndRemove
<1>2. /\ op[t].kind \in WriteKinds
      /\ \A u \in Threads \ {t} : op[u].kind = "idle"
  BY <1>1 DEF IInv, WriterAlone, WriteKinds
<1>3. \A u \in Threads : op'[u].kind = "idle"
  BY <1>1, <1>2 DEF IInv, TypeOK, Idle
<1>4. absPub' = absPub
  BY <1>1, <1>2, <1>3, PubUnchanged DEF Finished
<1>5. Pending(t) = {}
  BY <1>1 DEF Pending
<1>6. absMembers = consumers \ {c} /\ absRel = Subscribed
  BY <1>1, <1>2, <1>5, WriterMappingNow, ZenonT(40) DEF WriterMapping, IInv
<1>7. absMembers' = consumers' /\ absRel' = Subscribed'
  BY <1>3, QuietMappingNext DEF QuietMapping, WriteKinds
<1>8. Subscribed' = Subscribed
  BY <1>1 DEF Subscribed
<1> QED BY <1>1, <1>4, <1>6, <1>7, <1>8, StutterIsAbstractStep

(* What a consume that has run its course has sent.                        *)
FinishedIsRight ==
    \A t \in Threads :
        Finished(t) =>
            /\ op[t].sent \subseteq {s \in Subscribed : Matches(op[t].key, s[2])}
            /\ {s \in Subscribed : Sure(op[t].key, s[2])} \subseteq op[t].sent

LEMMA FinishedIsRightNow == IInv => FinishedIsRight
<1> SUFFICES ASSUME IInv, NEW t \in Threads, Finished(t)
             PROVE  /\ \A s \in op[t].sent :
                          s \in Subscribed /\ Matches(op[t].key, s[2])
                    /\ \A s \in Subscribed :
                          Sure(op[t].key, s[2]) => s \in op[t].sent
  BY DEF FinishedIsRight
<1>1. op[t].kind = "consume" /\ op[t].list \cup op[t].any = {}
  BY DEF Finished
<1>2. op[t].sent \subseteq Consumers \X Patterns
  BY <1>1, OpKinds DEF IInv, ReadOp
<1>3. \A s \in op[t].sent : s \in Subscribed /\ Matches(op[t].key, s[2])
  BY <1>1, <1>2 DEF IInv, ReaderInv, Subscribed
<1>4. ASSUME NEW s \in Subscribed, Sure(op[t].key, s[2])
      PROVE  s \in op[t].sent
  <2>1. s[2] \in Patterns /\ s[1] \in subs[s[2]] /\ s = <<s[1], s[2]>>
    BY DEF Subscribed
  <2> QED BY <1>1, <1>4, <2>1 DEF IInv, ReaderInv
<1> QED BY <1>3, <1>4

LEMMA FinishedIsRightNext == IInv' => FinishedIsRight'
  BY FinishedIsRightNow, PTL

(* A reader's step that changes only its own operation is Publish when it  *)
(* leaves nothing to try, and shows nothing otherwise.                     *)
LEMMA ReadStepRefines ==
    ASSUME IInv, IInv', UNCHANGED tables, NEW t \in Threads, ~Finished(t),
           op'[t] \in ReadOp,
           op[t].kind \notin WriteKinds,
           op' = [op EXCEPT ![t] = op'[t]]
    PROVE  AbstractStep
<1>1. op'[t].kind = "consume" /\ op'[t].key \in Keys
  BY DEF ReadOp
<1>2. \A u \in Threads \ {t} : op'[u] = op[u]
  BY DEF IInv, TypeOK
<1>3. \A u \in Threads :
        op[u].kind \notin WriteKinds /\ op'[u].kind \notin WriteKinds
  BY <1>1, <1>2 DEF IInv, WriterAlone, WriteKinds
<1>4. absMembers = consumers /\ absRel = Subscribed
  BY <1>3, QuietMappingNow DEF QuietMapping
<1>5. absMembers' = consumers' /\ absRel' = Subscribed'
  BY <1>3, QuietMappingNext DEF QuietMapping
<1>6. absMembers' = absMembers /\ absRel' = absRel
  BY <1>4, <1>5 DEF tables, Subscribed
<1>7. \A u \in Threads \ {t} : Finished(u)' <=> Finished(u)
  BY <1>2 DEF Finished
<1>8. CASE ~Finished(t)'
  <2>1. absPub' = absPub
    BY <1>2, <1>7, <1>8 DEF absPub
  <2> QED BY <2>1, <1>6, StutterIsAbstractStep
<1>9. CASE Finished(t)'
  <2> DEFINE k  == op'[t].key
             to == op'[t].sent
  <2>1. absPub[t] = [done |-> FALSE]
    BY DEF absPub
  <2>2. absPub' = [absPub EXCEPT ![t] = [done |-> TRUE, key |-> k, to |-> to]]
    BY <1>2, <1>7, <1>9 DEF absPub
  <2>3. /\ to \subseteq {s \in Subscribed : Matches(k, s[2])}
        /\ {s \in Subscribed : Sure(k, s[2])} \subseteq to
    <3>1. Subscribed' = Subscribed
      BY DEF tables, Subscribed
    <3> QED BY <1>9, <3>1, FinishedIsRightNext DEF FinishedIsRight, Sure
  <2>4. Abstract!Matching(k) = {s \in Subscribed : Matches(k, s[2])}
    BY <1>4 DEF Abstract!Matching
  <2>5. Abstract!Guaranteed(k) = {s \in Subscribed : Sure(k, s[2])}
    BY <2>4 DEF Abstract!Guaranteed, Sure
  <2>6. Abstract!Publish(t, k)
    BY <1>6, <2>1, <2>2, <2>3, <2>4, <2>5 DEF Abstract!Publish, Abstract!NoPub
  <2> QED BY <2>6, <1>1 DEF AbstractStep, Abstract!Next
<1> QED BY <1>8, <1>9

LEMMA BeginConsumeRefines ==
    ASSUME IInv, IInv', NEW t \in Threads, NEW k \in Keys, BeginConsume(t, k)
    PROVE  AbstractStep
<1>1. PICK list \in CandidateLists(k) :
        op' = [op EXCEPT ![t] = [kind |-> "consume", key |-> k, list |-> list,
                                 any |-> anyindex, sent |-> {}]]
  BY DEF BeginConsume
<1>2. op[t].kind \notin WriteKinds /\ UNCHANGED tables
  BY DEF BeginConsume, CanRead
<1>3. op[t].kind = "idle"
  BY DEF BeginConsume, CanRead
<1>4. ~Finished(t)
  BY <1>3 DEF Finished
<1>5. op'[t].kind = "consume" /\ op' = [op EXCEPT ![t] = op'[t]]
  BY <1>1 DEF IInv, TypeOK
<1>6. op'[t] \in ReadOp
  BY <1>5, t \in Threads DEF IInv, TypeOK, Idle, WriteOp, ReadOp
<1> QED BY <1>2, <1>4, <1>5, <1>6, ReadStepRefines

LEMMA TryRefines ==
    ASSUME IInv, IInv', NEW t \in Threads, NEW p \in Patterns,
           TryListed(t, p) \/ TryAny(t, p)
    PROVE  AbstractStep
<1>1. op[t].kind = "consume" /\ UNCHANGED tables /\ ~Finished(t)
  BY DEF TryListed, TryAny, Finished
<1>2. op[t] \in ReadOp
  BY <1>1, OpKinds DEF IInv
<1>3. op' = [op EXCEPT ![t] = op'[t]] /\ op'[t].kind = "consume"
  <2>1. CASE TryListed(t, p)
    <3>1. op' = [op EXCEPT ![t].list = @ \ {p},
                           ![t].sent = @ \cup Receivers(op[t].key, p)]
      BY <2>1 DEF TryListed
    <3> QED BY <3>1, <1>2 DEF IInv, TypeOK, ReadOp
  <2>2. CASE TryAny(t, p)
    <3>1. op' = [op EXCEPT ![t].any = @ \ {p},
                           ![t].sent = @ \cup Receivers(op[t].key, p)]
      BY <2>2 DEF TryAny
    <3> QED BY <3>1, <1>2 DEF IInv, TypeOK, ReadOp
  <2> QED BY <2>1, <2>2
<1>4. op'[t] \in ReadOp
  BY <1>3, t \in Threads DEF IInv, TypeOK, Idle, WriteOp, ReadOp
<1> QED BY <1>1, <1>3, <1>4, ReadStepRefines DEF WriteKinds

LEMMA EndConsumeRefines ==
    ASSUME IInv, IInv', NEW t \in Threads, EndConsume(t)
    PROVE  AbstractStep
<1>1. /\ Finished(t)
      /\ op' = [op EXCEPT ![t] = Idle]
      /\ UNCHANGED tables
  BY DEF EndConsume
<1>2. op'[t].kind = "idle" /\ \A u \in Threads \ {t} : op'[u] = op[u]
  BY <1>1 DEF IInv, TypeOK, Idle
<1>3. \A u \in Threads :
        op[u].kind \notin WriteKinds /\ op'[u].kind \notin WriteKinds
  BY <1>1, <1>2 DEF IInv, WriterAlone, WriteKinds, Finished
<1>4. absMembers' = absMembers /\ absRel' = absRel
  BY <1>1, <1>3, QuietMappingNow, QuietMappingNext
     DEF QuietMapping, tables, Subscribed
<1>5. \A u \in Threads \ {t} : Finished(u)' <=> Finished(u)
  BY <1>2 DEF Finished
<1>6. absPub[t].done /\ absPub[t] # Abstract!NoPub
  BY <1>1 DEF absPub, Abstract!NoPub
<1>7. absPub' = [absPub EXCEPT ![t] = Abstract!NoPub]
  BY <1>2, <1>5 DEF absPub, Finished, Abstract!NoPub
<1>8. Abstract!Return(t)
  BY <1>4, <1>6, <1>7 DEF Abstract!Return
<1> QED BY <1>8 DEF AbstractStep, Abstract!Next

-----------------------------------------------------------------------------
LEMMA StepRefines == IInv /\ IInv' /\ [Next]_vars => AbstractStep
<1> SUFFICES ASSUME IInv, IInv', [Next]_vars PROVE AbstractStep
  OBVIOUS
<1>1. CASE UNCHANGED vars
  <2>1. UNCHANGED <<consumers, subs, op>>
    BY <1>1 DEF vars, tables
  <2>2. absMembers' = absMembers /\ absRel' = absRel /\ absPub' = absPub
    BY <2>1 DEF absMembers, absRel, absPub, Leaving, Subscribed, ToSubscribe,
                ToUnsubscribe, OpsOf, Finished
  <2> QED BY <2>2, StutterIsAbstractStep
<1>2. ASSUME NEW t \in Threads, NEW c \in Consumers,
             \/ AddConsumer(t, c)
             \/ BeginRemove(t, c)
             \/ \E kind \in {"sub", "unsub"}, b \in Batches :
                  BeginBatch(t, c, kind, b)
      PROVE  AbstractStep
  BY <1>2, AddConsumerRefines, BeginRemoveRefines, BeginBatchRefines
<1>3. ASSUME NEW t \in Threads, NEW p \in Patterns,
             \/ SubscribeOne(t, p)
             \/ UnsubscribeOne(t, p)
             \/ RemoveOne(t, p)
             \/ TryListed(t, p)
             \/ TryAny(t, p)
      PROVE  AbstractStep
  BY <1>3, SubscribeOneRefines, UnsubscribeOneRefines, RemoveOneRefines,
     TryRefines
<1>4. ASSUME NEW t \in Threads,
             \/ EndBatch(t)
             \/ EndRemove(t)
             \/ EndConsume(t)
             \/ \E k \in Keys : BeginConsume(t, k)
      PROVE  AbstractStep
  BY <1>4, EndBatchRefines, EndRemoveRefines, EndConsumeRefines,
     BeginConsumeRefines
<1> QED BY <1>1, <1>2, <1>3, <1>4 DEF Next

(* Every behaviour of the replicator is, under the mapping, a behaviour of *)
(* the abstract broker.                                                    *)
THEOREM ReplImplementsPubSub == Spec => ImplementsPubSub
<1>1. Init => Abstract!Init
  BY InitRefines
<1>2. IInv /\ IInv' /\ [Next]_vars => [Abstract!Next]_(Abstract!vars)
  BY StepRefines DEF AbstractStep
<1> QED BY <1>1, <1>2, IInvAlways, PTL DEF Spec, ImplementsPubSub, Abstract!Spec
=============================================================================
