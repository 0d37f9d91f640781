--------------------------- MODULE ByteStreamProofs ---------------------------
(***************************************************************************)
(* The bytes of a stream: the chain they wait in (Chain), for every block  *)
(* size, and the messages read out of it (Framing), for every prefix       *)
(* length and every wire.  The two specifications share no variable.       *)
(*                                                                         *)
(* What the loops of the chain do is proved by induction on their turns.   *)
(* The induction rule of the library takes an operator, so the one used    *)
(* here is for sets and comes from the well-foundedness of < on Nat.       *)
(***************************************************************************)
EXTENDS Framing, Chain, SequenceTheorems, WellFoundedInduction, TLAPS

-----------------------------------------------------------------------------
(***************************************************************************)
(* Numbers, and functions that are defined by iteration.                   *)
(***************************************************************************)

LEMMA LeastNat ==
    ASSUME NEW T, T \subseteq Nat, T # {}
    PROVE  \E x \in T : \A y \in T : x <= y
<1> DEFINE R == OpToRel(<, Nat)
<1>1. IsWellFoundedOn(R, Nat)
  BY NatLessThanWellFounded, Zenon
<1>2. \A x, y \in Nat : x < y => <<x, y>> \in R
  BY Zenon DEF OpToRel
<1> HIDE DEF R
<1>3. PICK x \in T : \A y \in T : ~ (<<y, x>> \in R)
  BY <1>1, WFMin, Zenon
<1>4. ASSUME NEW y \in T PROVE x <= y
  <2>1. x \in Nat /\ y \in Nat
    OBVIOUS
  <2>2. ~(y < x)
    BY <1>2, <1>3, <2>1
  <2> QED BY <2>1, <2>2
<1> QED BY <1>4

(* A set of numbers that has 0 and with each number its successor.         *)
LEMMA Induction ==
    ASSUME NEW S, 0 \in S, \A n \in Nat : n \in S => n + 1 \in S
    PROVE  Nat \subseteq S
<1> SUFFICES ASSUME Nat \ S # {} PROVE FALSE
  OBVIOUS
<1>1. PICK x \in Nat \ S : \A y \in Nat \ S : x <= y
  BY LeastNat
<1>2. x # 0 /\ x - 1 \in Nat /\ ~(x <= x - 1)
  BY <1>1
<1>3. x - 1 \in S
  BY <1>1, <1>2
<1> QED BY <1>1, <1>2, <1>3

LEMMA MinOfTwo ==
    ASSUME NEW a \in Int, NEW b \in Int
    PROVE  Min({a, b}) = IF a <= b THEN a ELSE b
<1>1. PICK m \in {a, b} : \A y \in {a, b} : m <= y
  <2>1. CASE a <= b
    BY <2>1
  <2>2. CASE ~(a <= b)
    BY <2>2
  <2> QED BY <2>1, <2>2
<1>2. /\ Min({a, b}) \in {a, b}
      /\ \A y \in {a, b} : Min({a, b}) <= y
  BY <1>1 DEF Min
<1> QED BY <1>2

LEMMA MaxOfTwo ==
    ASSUME NEW a \in Int, NEW b \in Int
    PROVE  Max({a, b}) = IF a >= b THEN a ELSE b
<1>1. PICK m \in {a, b} : \A y \in {a, b} : m >= y
  <2>1. CASE a >= b
    BY <2>1
  <2>2. CASE ~(a >= b)
    BY <2>2
  <2> QED BY <2>1, <2>2
<1>2. /\ Max({a, b}) \in {a, b}
      /\ \A y \in {a, b} : Max({a, b}) >= y
  BY <1>1 DEF Max
<1> QED BY <1>2

(* n turns of F from x on.                                                 *)
Turns(F, x, n, f) == f = [i \in 0..n |-> IF i = 0 THEN x ELSE F[f[i - 1]]]

LEMMA TurnsExist ==
    ASSUME NEW S, NEW F \in [S -> S], NEW x \in S
    PROVE  \A n \in Nat : \E f \in [0..n -> S] : Turns(F, x, n, f)
<1> DEFINE N == {n \in Nat : \E f \in [0..n -> S] : Turns(F, x, n, f)}
<1>1. 0 \in N
  <2> DEFINE f == [i \in 0..0 |-> x]
  <2>1. f \in [0..0 -> S]
    OBVIOUS
  <2>2. Turns(F, x, 0, f)
    BY DEF Turns
  <2> HIDE DEF f
  <2> QED BY <2>1, <2>2
<1>2. ASSUME NEW n \in Nat, n \in N PROVE n + 1 \in N
  <2>1. PICK f \in [0..n -> S] : Turns(F, x, n, f)
    BY <1>2
  <2>2. \A i \in 0..n : f[i] = IF i = 0 THEN x ELSE F[f[i - 1]]
    BY <2>1 DEF Turns
  <2> DEFINE g == [i \in 0..(n + 1) |-> IF i <= n THEN f[i] ELSE F[f[n]]]
  <2>3. g \in [0..(n + 1) -> S]
    OBVIOUS
  <2>4. \A i \in 0..n : g[i] = f[i]
    OBVIOUS
  <2>5. g[n + 1] = F[f[n]]
    OBVIOUS
  <2> HIDE DEF g
  <2>6. ASSUME NEW i \in 0..(n + 1)
        PROVE  g[i] = IF i = 0 THEN x ELSE F[g[i - 1]]
    <3>1. CASE i = 0
      BY <2>2, <2>4, <3>1
    <3>2. CASE i # 0
      <4>1. i - 1 \in 0..n /\ g[i - 1] = f[i - 1]
        BY <2>4, <3>2
      <4>2. CASE i \in 0..n
        BY <2>2, <2>4, <3>2, <4>1, <4>2
      <4>3. CASE i \notin 0..n
        <5>1. i = n + 1 /\ i - 1 = n
          BY <4>3
        <5> QED BY <2>5, <3>2, <4>1, <5>1
      <4> QED BY <4>2, <4>3
    <3> QED BY <3>1, <3>2
  <2>7. Turns(F, x, n + 1, g)
    BY <2>3, <2>6 DEF Turns
  <2> QED BY <2>3, <2>7
<1>3. Nat \subseteq N
  <2> HIDE DEF N
  <2> QED BY <1>1, <1>2, Induction
<1> QED BY <1>3

-----------------------------------------------------------------------------
(***************************************************************************)
(* Bytes and nodes.                                                        *)
(***************************************************************************)

LEMMA BytesAre ==
    ASSUME NEW a \in Nat, NEW n \in Nat
    PROVE  /\ Bytes(a, n) \in Seq((a + 1)..(a + n)) /\ Bytes(a, n) \in Seq(Nat)
           /\ Len(Bytes(a, n)) = n
           /\ \A i \in 1..n : Bytes(a, n)[i] = a + i
  BY DEF Bytes

LEMMA NoBytes ==
    ASSUME NEW a \in Nat, NEW n \in Nat
    PROVE  Bytes(a, n) = << >> <=> n = 0
<1>1. Len(Bytes(a, n)) = n /\ Bytes(a, n) \in Seq(Nat)
  BY BytesAre
<1>2. \A s \in Seq(Nat) : s = << >> <=> Len(s) = 0
  BY EmptySeq
<1> QED BY <1>1, <1>2

LEMMA BytesJoin ==
    ASSUME NEW a \in Nat, NEW n \in Nat, NEW m \in Nat
    PROVE  Bytes(a, n) \o Bytes(a + n, m) = Bytes(a, n + m)
<1> DEFINE s == Bytes(a, n) t == Bytes(a + n, m) u == Bytes(a, n + m)
<1>1. /\ s \in Seq(Nat) /\ t \in Seq(Nat) /\ u \in Seq(Nat)
      /\ Len(s) = n /\ Len(t) = m /\ Len(u) = n + m
      /\ \A i \in 1..n : s[i] = a + i
      /\ \A i \in 1..m : t[i] = a + n + i
      /\ \A i \in 1..(n + m) : u[i] = a + i
  <2>1. a + n \in Nat /\ n + m \in Nat
    OBVIOUS
  <2> QED BY <2>1, BytesAre
<1> HIDE DEF s, t, u
<1>2. /\ s \o t \in Seq(Nat) /\ Len(s \o t) = n + m
      /\ \A i \in 1..(n + m) : (s \o t)[i] = IF i <= n THEN s[i] ELSE t[i - n]
  BY <1>1, ConcatProperties, ZenonT(40)
<1>3. ASSUME NEW i \in 1..(n + m) PROVE (s \o t)[i] = u[i]
  <2>1. CASE i <= n
    BY <1>1, <1>2, <2>1
  <2>2. CASE ~(i <= n)
    <3>1. i - n \in 1..m
      BY <2>2
    <3>2. (s \o t)[i] = t[i - n] /\ t[i - n] = a + n + (i - n)
      BY <1>1, <1>2, <2>2, <3>1
    <3>3. a + n + (i - n) = a + i /\ u[i] = a + i
      BY <1>1
    <3> QED BY <3>2, <3>3
  <2> QED BY <2>1, <2>2
<1>4. Len(s \o t) = Len(u) /\ \A i \in 1..Len(s \o t) : (s \o t)[i] = u[i]
  BY <1>1, <1>2, <1>3
<1>5. s \o t = u
  BY <1>1, <1>2, <1>4, SeqEqual
<1> QED BY <1>5 DEF s, t, u

LEMMA BytesPart ==
    ASSUME NEW a \in Nat, NEW n \in Nat, NEW i \in Nat, NEW j \in 0..n, i <= j
    PROVE  SubSeq(Bytes(a, n), i + 1, j) = Bytes(a + i, j - i)
<1> DEFINE s == Bytes(a, n) t == Bytes(a + i, j - i) u == SubSeq(s, i + 1, j)
<1>1. /\ s \in Seq(Nat) /\ t \in Seq(Nat) /\ Len(s) = n /\ Len(t) = j - i
      /\ \A k \in 1..n : s[k] = a + k
      /\ \A k \in 1..(j - i) : t[k] = a + i + k
  <2>1. a + i \in Nat /\ j - i \in Nat
    OBVIOUS
  <2> QED BY <2>1, BytesAre
<1> HIDE DEF s, t
<1>2. /\ u \in Seq(Nat) /\ Len(u) = j - i
      /\ \A k \in 1..(j - i) : u[k] = s[i + k]
  BY <1>1, SMTT(20)
<1> HIDE DEF u
<1>3. \A k \in 1..(j - i) : u[k] = t[k]
  BY <1>1, <1>2
<1>4. u = t
  BY <1>1, <1>2, <1>3, SeqEqual
<1> QED BY <1>4 DEF s, t, u

Node == {x \in [room : Nat, begin : Nat, data : Seq(Nat)] :
            x.begin + Len(x.data) <= x.room}

LEMMA NodeParts ==
    ASSUME NEW x \in Node
    PROVE  /\ x.room \in Nat /\ x.begin \in Nat /\ x.data \in Seq(Nat)
           /\ Len(x.data) \in Nat /\ x.begin + Len(x.data) <= x.room
           /\ x = [room |-> x.room, begin |-> x.begin, data |-> x.data]
           /\ \A d : [x EXCEPT !.data = d]
                     = [room |-> x.room, begin |-> x.begin, data |-> d]
  BY DEF Node

LEMMA NodeMade ==
    ASSUME NEW r \in Nat, NEW c \in Nat, NEW d \in Seq(Nat), c + Len(d) <= r
    PROVE  [room |-> r, begin |-> c, data |-> d] \in Node
  BY DEF Node

(* at[i]: how many bytes come before those of node i.                      *)
Places(ns, a, b, at) ==
    /\ at \in [1..(Len(ns) + 1) -> Nat]
    /\ at[1] = a /\ at[Len(ns) + 1] = b
    /\ \A i, j \in 1..(Len(ns) + 1) : i <= j => at[i] <= at[j]
    /\ \A i \in 1..Len(ns) : ns[i].data = Bytes(at[i], at[i + 1] - at[i])

(* The nodes ns hold the bytes a+1 .. b.                                   *)
Holds(ns, a, b) ==
    /\ ns \in Seq(Node)
    /\ \E at : Places(ns, a, b, at)

(* What places say of nodes.                                               *)
LEMMA PlacesAre ==
    ASSUME NEW ns \in Seq(Node), NEW a, NEW b, NEW at, Places(ns, a, b, at)
    PROVE  /\ a \in Nat /\ b \in Nat /\ a <= b /\ Len(ns) \in Nat
           /\ \A i \in 1..Len(ns) :
                /\ at[i] \in Nat /\ at[i + 1] \in Nat
                /\ a <= at[i] /\ at[i] <= at[i + 1] /\ at[i + 1] <= b
                /\ ns[i] \in Node
                /\ Len(ns[i].data) = at[i + 1] - at[i]
<1>1. Len(ns) \in Nat
  OBVIOUS
<1>2. a \in Nat /\ b \in Nat /\ a <= b
  BY <1>1 DEF Places
<1>3. ASSUME NEW i \in 1..Len(ns)
      PROVE  /\ at[i] \in Nat /\ at[i + 1] \in Nat
             /\ a <= at[i] /\ at[i] <= at[i + 1] /\ at[i + 1] <= b
             /\ ns[i] \in Node
             /\ Len(ns[i].data) = at[i + 1] - at[i]
  <2>1. i \in 1..(Len(ns) + 1) /\ i + 1 \in 1..(Len(ns) + 1)
    BY <1>1
  <2>2. /\ at[i] \in Nat /\ at[i + 1] \in Nat
        /\ a <= at[i] /\ at[i] <= at[i + 1] /\ at[i + 1] <= b
    BY <1>1, <2>1 DEF Places
  <2>3. at[i + 1] - at[i] \in Nat
    BY <2>2
  <2>4. ns[i].data = Bytes(at[i], at[i + 1] - at[i])
    BY DEF Places
  <2>5. Len(ns[i].data) = at[i + 1] - at[i]
    <3> DEFINE p == at[i]
               m == at[i + 1] - at[i]
    <3>1. p \in Nat /\ m \in Nat /\ ns[i].data = Bytes(p, m)
      BY <2>2, <2>3, <2>4
    <3> HIDE DEF p, m
    <3>2. Len(ns[i].data) = m
      BY <3>1, BytesAre
    <3> QED BY <3>2 DEF m
  <2> QED BY <2>2, <2>5
<1> QED BY <1>1, <1>2, <1>3

LEMMA HoldsNone ==
    ASSUME NEW a \in Nat
    PROVE  Holds(<< >>, a, a)
<1> DEFINE at == [i \in 1..1 |-> a]
<1>1. Places(<< >>, a, a, at)
  BY DEF Places
<1>2. << >> \in Seq(Node)
  BY EmptySeq
<1> QED BY <1>1, <1>2 DEF Holds

LEMMA HoldsBounds ==
    ASSUME NEW ns, NEW a, NEW b, Holds(ns, a, b)
    PROVE  /\ a \in Nat /\ b \in Nat /\ a <= b /\ Len(ns) \in Nat
           /\ ns \in Seq(Node)
           /\ ns = << >> => a = b
           /\ \A i \in 1..Len(ns) : ns[i].data \in Seq((a + 1)..b)
           /\ ns # << >> =>
                /\ Len(ns[1].data) <= b - a
                /\ ns[1].data = Bytes(a, Len(ns[1].data))
           /\ Len(ns) = 1 => ns[1].data = Bytes(a, b - a)
<1>0. ns \in Seq(Node)
  BY DEF Holds
<1>1. PICK at : Places(ns, a, b, at)
  BY DEF Holds
<1>2. /\ a \in Nat /\ b \in Nat /\ a <= b /\ Len(ns) \in Nat
      /\ \A i \in 1..Len(ns) :
           /\ at[i] \in Nat /\ at[i + 1] \in Nat
           /\ a <= at[i] /\ at[i] <= at[i + 1] /\ at[i + 1] <= b
           /\ ns[i] \in Node
           /\ Len(ns[i].data) = at[i + 1] - at[i]
  BY <1>0, <1>1, PlacesAre
<1>3. ns = << >> => a = b
  BY <1>1, EmptySeq DEF Places
<1>4. ASSUME NEW i \in 1..Len(ns)
      PROVE  ns[i].data \in Seq((a + 1)..b)
  <2>1. ns[i].data = Bytes(at[i], at[i + 1] - at[i])
    BY <1>1 DEF Places
  <2>2. at[i] \in Nat /\ at[i + 1] - at[i] \in Nat
    BY <1>2
  <2>3. (at[i] + 1)..(at[i] + (at[i + 1] - at[i])) \subseteq (a + 1)..b
    BY <1>2
  <2>4. Bytes(at[i], at[i + 1] - at[i])
          \in Seq((at[i] + 1)..(at[i] + (at[i + 1] - at[i])))
    BY <2>2, BytesAre
  <2> QED BY <2>1, <2>3, <2>4, SeqMonotonic
<1>5. ASSUME ns # << >>
      PROVE  /\ Len(ns[1].data) <= b - a
             /\ ns[1].data = Bytes(a, Len(ns[1].data))
  <2>1. 1 \in 1..Len(ns)
    BY <1>0, <1>5, EmptySeq
  <2>2. at[1] = a /\ ns[1].data = Bytes(at[1], at[1 + 1] - at[1])
    BY <1>1, <2>1 DEF Places
  <2> QED BY <1>2, <2>1, <2>2
<1>6. ASSUME Len(ns) = 1
      PROVE  ns[1].data = Bytes(a, b - a)
  <2>1. /\ at[1] = a /\ at[1 + 1] = b
        /\ ns[1].data = Bytes(at[1], at[1 + 1] - at[1])
    BY <1>1, <1>6 DEF Places
  <2> QED BY <2>1
<1> QED BY <1>0, <1>2, <1>3, <1>4, <1>5, <1>6

(* It is enough that each node begins where the one before it ends.        *)
LEMMA StepwiseHolds ==
    ASSUME NEW ns \in Seq(Node), NEW at \in [1..(Len(ns) + 1) -> Nat],
           \A i \in 1..Len(ns) :
              /\ at[i] <= at[i + 1]
              /\ ns[i].data = Bytes(at[i], at[i + 1] - at[i])
    PROVE  Holds(ns, at[1], at[Len(ns) + 1])
<1> DEFINE n == Len(ns)
           D == {d \in Nat : \A i \in 1..(n + 1) :
                               i + d <= n + 1 => at[i] <= at[i + d]}
<1>0. n \in Nat
  OBVIOUS
<1>1. 0 \in D
  OBVIOUS
<1>2. ASSUME NEW d \in Nat, d \in D PROVE d + 1 \in D
  <2>1. ASSUME NEW i \in 1..(n + 1), i + (d + 1) <= n + 1
        PROVE  at[i] <= at[i + (d + 1)]
    <3>1. i + d \in 1..n /\ i + d \in 1..(n + 1) /\ (i + d) + 1 \in 1..(n + 1)
      BY <1>0, <2>1
    <3>2. at[i] <= at[i + d]
      BY <1>2, <2>1, <3>1
    <3>3. at[i + d] <= at[(i + d) + 1]
      BY <3>1
    <3>4. at[i] \in Nat /\ at[i + d] \in Nat /\ at[(i + d) + 1] \in Nat
      BY <3>1
    <3>5. at[i] <= at[(i + d) + 1]
      BY <3>2, <3>3, <3>4
    <3>6. (i + d) + 1 = i + (d + 1)
      BY <1>0
    <3> QED BY <3>5, <3>6
  <2> QED BY <2>1
<1>3. Nat \subseteq D
  <2> HIDE DEF D
  <2> QED BY <1>1, <1>2, Induction
<1>4. ASSUME NEW i \in 1..(n + 1), NEW j \in 1..(n + 1), i <= j
      PROVE  at[i] <= at[j]
  <2>1. j - i \in Nat /\ i + (j - i) = j /\ i + (j - i) <= n + 1
    BY <1>0, <1>4
  <2>2. j - i \in D
    BY <1>3, <2>1
  <2>3. at[i] <= at[i + (j - i)]
    BY <2>1, <2>2
  <2> QED BY <2>1, <2>3
<1>5. Places(ns, at[1], at[n + 1], at)
  BY <1>4 DEF Places
<1> QED BY <1>5 DEF Holds

(* The same, said of the bytes of each node.                               *)
LEMMA PlacesOf ==
    ASSUME NEW ns, NEW a, NEW b, Holds(ns, a, b)
    PROVE  /\ ns \in Seq(Node) /\ Len(ns) \in Nat
           /\ \E at \in [1..(Len(ns) + 1) -> Nat] :
                /\ at[1] = a /\ at[Len(ns) + 1] = b
                /\ \A i \in 1..Len(ns) :
                     /\ at[i] <= at[i + 1]
                     /\ ns[i].data = Bytes(at[i], at[i + 1] - at[i])
                     /\ Len(ns[i].data) = at[i + 1] - at[i]
<1>0. ns \in Seq(Node) /\ Len(ns) \in Nat
  BY DEF Holds
<1>1. PICK at : Places(ns, a, b, at)
  BY DEF Holds
<1>2. \A i \in 1..Len(ns) :
         at[i] <= at[i + 1] /\ Len(ns[i].data) = at[i + 1] - at[i]
  BY <1>0, <1>1, PlacesAre
<1>3. /\ at \in [1..(Len(ns) + 1) -> Nat] /\ at[1] = a /\ at[Len(ns) + 1] = b
      /\ \A i \in 1..Len(ns) : ns[i].data = Bytes(at[i], at[i + 1] - at[i])
  BY <1>1 DEF Places
<1> QED BY <1>0, <1>2, <1>3

(* A node behind the others.                                               *)
LEMMA AppendHolds ==
    ASSUME NEW ns, NEW a, NEW b, Holds(ns, a, b),
           NEW x \in Node, NEW c \in Nat, b <= c, x.data = Bytes(b, c - b)
    PROVE  Holds(Append(ns, x), a, c)
<1> DEFINE n == Len(ns)
           ms == Append(ns, x)
<1>1. ns \in Seq(Node) /\ n \in Nat
  BY PlacesOf
<1>2. PICK at \in [1..(n + 1) -> Nat] :
         /\ at[1] = a /\ at[n + 1] = b
         /\ \A i \in 1..n : /\ at[i] <= at[i + 1]
                            /\ ns[i].data = Bytes(at[i], at[i + 1] - at[i])
  BY PlacesOf
<1>3. /\ ms \in Seq(Node) /\ Len(ms) = n + 1 /\ ms[n + 1] = x
      /\ \A i \in 1..n : ms[i] = ns[i]
  BY <1>1
<1> HIDE DEF n, ms
<1> DEFINE to == [i \in 1..(n + 2) |-> IF i <= n + 1 THEN at[i] ELSE c]
<1>4. /\ to \in [1..(n + 2) -> Nat] /\ to[n + 2] = c
      /\ \A i \in 1..(n + 1) : to[i] = at[i]
  BY <1>1
<1> HIDE DEF to
<1>5. ASSUME NEW i \in 1..(n + 1)
      PROVE  to[i] <= to[i + 1] /\ ms[i].data = Bytes(to[i], to[i + 1] - to[i])
  <2>1. CASE i \in 1..n
    <3>1. i + 1 \in 1..(n + 1)
      BY <1>1, <2>1
    <3> QED BY <1>2, <1>3, <1>4, <2>1, <3>1
  <2>2. CASE i = n + 1
    <3>1. i + 1 = n + 2
      BY <1>1, <2>2
    <3> QED BY <1>2, <1>3, <1>4, <2>2, <3>1
  <2> QED BY <1>1, <2>1, <2>2
<1>6. Holds(ms, to[1], to[n + 2])
  <2>1. n + 2 = Len(ms) + 1
    BY <1>1, <1>3
  <2> QED BY <1>3, <1>4, <1>5, <2>1, StepwiseHolds
<1>7. to[1] = a
  BY <1>1, <1>2, <1>4
<1> QED BY <1>4, <1>6, <1>7 DEF ms

(* An empty node in front.                                                 *)
LEMMA PutBeforeHolds ==
    ASSUME NEW ns, NEW a, NEW b, Holds(ns, a, b),
           NEW x \in Node, x.data = << >>
    PROVE  Holds(<<x>> \o ns, a, b)
<1> DEFINE n == Len(ns)
           ms == <<x>> \o ns
<1>1. /\ ns \in Seq(Node) /\ n \in Nat /\ a \in Nat
  BY HoldsBounds
<1>2. PICK at \in [1..(n + 1) -> Nat] :
         /\ at[1] = a /\ at[n + 1] = b
         /\ \A i \in 1..n : /\ at[i] <= at[i + 1]
                            /\ ns[i].data = Bytes(at[i], at[i + 1] - at[i])
  BY PlacesOf
<1>3. /\ ms \in Seq(Node) /\ Len(ms) = n + 1 /\ ms[1] = x
      /\ \A i \in 2..(n + 1) : ms[i] = ns[i - 1]
  BY <1>1
<1> HIDE DEF n, ms
<1> DEFINE to == [i \in 1..(n + 2) |-> IF i = 1 THEN a ELSE at[i - 1]]
<1>4. /\ to \in [1..(n + 2) -> Nat] /\ to[1] = a
      /\ \A i \in 2..(n + 2) : to[i] = at[i - 1]
  BY <1>1
<1> HIDE DEF to
<1>5. ASSUME NEW i \in 1..(n + 1)
      PROVE  to[i] <= to[i + 1] /\ ms[i].data = Bytes(to[i], to[i + 1] - to[i])
  <2>1. i + 1 \in 2..(n + 2) /\ (i + 1) - 1 = i /\ to[i + 1] = at[i]
    <3>1. i + 1 \in 2..(n + 2) /\ (i + 1) - 1 = i
      BY <1>1
    <3>2. to[i + 1] = at[(i + 1) - 1]
      BY <1>4, <3>1
    <3> QED BY <3>1, <3>2
  <2>2. CASE i = 1
    <3>1. to[i] = a /\ to[i + 1] = a /\ a - a = 0 /\ a <= a
      BY <1>1, <1>2, <1>4, <2>1, <2>2
    <3>2. Bytes(a, 0) = << >>
      BY <1>1, NoBytes
    <3> QED BY <1>3, <2>2, <3>1, <3>2
  <2>3. CASE i # 1
    <3>1. i \in 2..(n + 1) /\ i \in 2..(n + 2) /\ i - 1 \in 1..n
          /\ (i - 1) + 1 = i
      BY <1>1, <2>3
    <3>2. to[i] = at[i - 1] /\ ms[i] = ns[i - 1]
      BY <1>3, <1>4, <3>1
    <3>3. /\ at[i - 1] <= at[(i - 1) + 1]
          /\ ns[i - 1].data = Bytes(at[i - 1], at[(i - 1) + 1] - at[i - 1])
      BY <1>2, <3>1
    <3> QED BY <2>1, <3>1, <3>2, <3>3
  <2> QED BY <2>2, <2>3
<1>6. Holds(ms, to[1], to[n + 2])
  <2>1. n + 2 = Len(ms) + 1
    BY <1>1, <1>3
  <2> QED BY <1>3, <1>4, <1>5, <2>1, StepwiseHolds
<1>7. to[n + 2] = b
  <2>1. n + 2 \in 2..(n + 2) /\ (n + 2) - 1 = n + 1
    BY <1>1
  <2>2. to[n + 2] = at[(n + 2) - 1]
    BY <1>4, <2>1
  <2> QED BY <1>2, <2>1, <2>2
<1> QED BY <1>4, <1>6, <1>7 DEF ms

(* Bytes behind those of the last node.                                    *)
LEMMA FillHolds ==
    ASSUME NEW ns, NEW a, NEW b, Holds(ns, a, b), ns # << >>,
           NEW m \in Nat, m <= Space(Last(ns))
    PROVE  Holds(Fill(ns, Bytes(b, m)), a, b + m)
<1> DEFINE n == Len(ns)
           x == [ns[n] EXCEPT !.data = @ \o Bytes(b, m)]
           ms == [ns EXCEPT ![n] = x]
<1>1. /\ ns \in Seq(Node) /\ n \in Nat \ {0} /\ ns[n] \in Node
      /\ a \in Nat /\ b \in Nat
  BY HoldsBounds, EmptySeq
<1>2. PICK at \in [1..(n + 1) -> Nat] :
         /\ at[1] = a /\ at[n + 1] = b
         /\ \A i \in 1..n : /\ at[i] <= at[i + 1]
                            /\ ns[i].data = Bytes(at[i], at[i + 1] - at[i])
                            /\ Len(ns[i].data) = at[i + 1] - at[i]
  BY PlacesOf
<1>3. CASE m = 0
  <2>1. Fill(ns, Bytes(b, m)) = ns
    BY <1>1, <1>3, NoBytes DEF Fill
  <2> QED BY <1>1, <1>3, <2>1
<1>4. CASE m # 0
  <2>1. Fill(ns, Bytes(b, m)) = ms
    BY <1>1, <1>4, NoBytes DEF Fill
  <2>2. /\ at[n] \in Nat /\ at[n] <= b /\ b - at[n] \in Nat
        /\ ns[n].data = Bytes(at[n], b - at[n])
        /\ Len(ns[n].data) = b - at[n]
    BY <1>1, <1>2, SMTT(20)
  <2>3. x = [room |-> ns[n].room, begin |-> ns[n].begin,
             data |-> Bytes(at[n], b + m - at[n])]
    <3>1. at[n] + (b - at[n]) = b /\ (b - at[n]) + m = b + m - at[n]
      BY <1>1, <2>2
    <3>2. Bytes(at[n], b - at[n]) \o Bytes(at[n] + (b - at[n]), m)
            = Bytes(at[n], (b - at[n]) + m)
      BY <2>2, BytesJoin
    <3>3. ns[n].data \o Bytes(b, m) = Bytes(at[n], b + m - at[n])
      BY <2>2, <3>1, <3>2
    <3> QED BY <1>1, <3>3, NodeParts
  <2>4. x \in Node /\ x.data = Bytes(at[n], b + m - at[n])
    <3> DEFINE p == at[n]
               k == b + m - at[n]
    <3>1. p \in Nat /\ k \in Nat
      BY <1>1, <2>2
    <3>2. k <= ns[n].room - ns[n].begin
      <4>1. /\ ns[n].room \in Nat /\ ns[n].begin \in Nat
            /\ m <= ns[n].room - ns[n].begin - (b - at[n])
        BY <1>1, <2>2, NodeParts DEF Space, Last
      <4> QED BY <1>1, <2>2, <4>1, SMTT(20)
    <3> HIDE DEF p, k
    <3>3. Bytes(p, k) \in Seq(Nat) /\ Len(Bytes(p, k)) = k
      BY <3>1, BytesAre
    <3>4. [room |-> ns[n].room, begin |-> ns[n].begin, data |-> Bytes(p, k)]
            \in Node
      <4>1. ns[n].room \in Nat /\ ns[n].begin \in Nat
        BY <1>1, NodeParts
      <4>2. ns[n].begin + Len(Bytes(p, k)) <= ns[n].room
        BY <3>1, <3>2, <3>3, <4>1
      <4> QED BY <3>3, <4>1, <4>2, NodeMade
    <3> HIDE DEF x
    <3> QED BY <2>3, <3>4 DEF p, k
  <2>5. /\ ms \in Seq(Node) /\ Len(ms) = n /\ ms[n] = x
        /\ \A i \in 1..n : i # n => ms[i] = ns[i]
    <3> HIDE DEF x
    <3> QED BY <1>1, <2>4
  <2> HIDE DEF n, ms, x
  <2> DEFINE to == [at EXCEPT ![n + 1] = b + m]
  <2>6. /\ to \in [1..(n + 1) -> Nat] /\ to[n + 1] = b + m
        /\ \A i \in 1..n : to[i] = at[i]
    BY <1>1
  <2> HIDE DEF to
  <2>7. ASSUME NEW i \in 1..n
        PROVE  /\ to[i] <= to[i + 1]
               /\ ms[i].data = Bytes(to[i], to[i + 1] - to[i])
    <3>1. CASE i = n
      BY <1>1, <2>2, <2>4, <2>5, <2>6, <3>1, SMTT(20)
    <3>2. CASE i # n
      <4>1. i + 1 \in 1..n
        BY <1>1, <3>2
      <4> QED BY <1>2, <2>5, <2>6, <3>2, <4>1
    <3> QED BY <3>1, <3>2
  <2>8. Holds(ms, to[1], to[n + 1])
    BY <2>5, <2>6, <2>7, StepwiseHolds
  <2>9. to[1] = a
    BY <1>1, <1>2, <2>6
  <2> QED BY <2>1, <2>6, <2>8, <2>9
<1> QED BY <1>3, <1>4

(* A node whose first k bytes were drained.                                *)
LEMMA CutNode ==
    ASSUME NEW x \in Node, NEW p \in Nat, NEW m \in Nat, x.data = Bytes(p, m),
           NEW k \in 0..m
    PROVE  /\ Cut(x, k) \in Node /\ Cut(x, k).data = Bytes(p + k, m - k)
           /\ Cut(x, k).room = x.room
<1>1. /\ x.room \in Nat /\ x.begin \in Nat /\ Len(x.data) = m
      /\ x.begin + m <= x.room
      /\ x = [room |-> x.room, begin |-> x.begin, data |-> x.data]
  BY NodeParts, BytesAre
<1>2. SubSeq(x.data, k + 1, Len(x.data)) = Bytes(p + k, m - k)
  <2>1. k \in Nat /\ m \in 0..m /\ k <= m
    OBVIOUS
  <2>2. SubSeq(Bytes(p, m), k + 1, m) = Bytes(p + k, m - k)
    BY <2>1, BytesPart
  <2> QED BY <1>1, <2>2
<1>3. Cut(x, k) = [room |-> x.room, begin |-> x.begin + k,
                   data |-> Bytes(p + k, m - k)]
  BY <1>2 DEF Cut
<1>4. p + k \in Nat /\ m - k \in Nat /\ x.begin + k \in Nat
      /\ (x.begin + k) + (m - k) <= x.room
  BY <1>1
<1>5. Bytes(p + k, m - k) \in Seq(Nat) /\ Len(Bytes(p + k, m - k)) = m - k
  BY <1>4, BytesAre
<1>6. [room |-> x.room, begin |-> x.begin + k, data |-> Bytes(p + k, m - k)]
        \in Node
  BY <1>1, <1>4, <1>5, NodeMade
<1> QED BY <1>3, <1>6

LEMMA CutHolds ==
    ASSUME NEW ns, NEW a, NEW b, Holds(ns, a, b), ns # << >>,
           NEW k \in 0..Len(ns[1].data)
    PROVE  Holds([ns EXCEPT ![1] = Cut(@, k)], a + k, b)
<1> DEFINE n == Len(ns)
           x == Cut(ns[1], k)
           ms == [ns EXCEPT ![1] = x]
<1>1. /\ ns \in Seq(Node) /\ n \in Nat \ {0} /\ ns[1] \in Node
      /\ a \in Nat /\ b \in Nat /\ 1 \in 1..n
  BY HoldsBounds, EmptySeq
<1>2. PICK at \in [1..(n + 1) -> Nat] :
         /\ at[1] = a /\ at[n + 1] = b
         /\ \A i \in 1..n : /\ at[i] <= at[i + 1]
                            /\ ns[i].data = Bytes(at[i], at[i + 1] - at[i])
                            /\ Len(ns[i].data) = at[i + 1] - at[i]
  BY PlacesOf
<1>3. /\ at[2] \in Nat /\ a <= at[2] /\ k \in 0..(at[2] - a)
      /\ ns[1].data = Bytes(a, at[2] - a) /\ at[2] - a \in Nat
  <2>1. /\ at[1] <= at[1 + 1] /\ ns[1].data = Bytes(at[1], at[1 + 1] - at[1])
        /\ Len(ns[1].data) = at[1 + 1] - at[1]
    BY <1>1, <1>2
  <2>2. 1 + 1 = 2 /\ at[2] \in Nat
    BY <1>1
  <2>3. /\ a <= at[2] /\ ns[1].data = Bytes(a, at[2] - a)
        /\ Len(ns[1].data) = at[2] - a
    BY <1>2, <2>1, <2>2
  <2> QED BY <1>1, <2>2, <2>3
<1>4. /\ x \in Node /\ x.data = Bytes(a + k, at[2] - (a + k))
      /\ a + k \in Nat /\ a + k <= at[2]
  <2>1. x \in Node /\ x.data = Bytes(a + k, (at[2] - a) - k)
    BY <1>1, <1>3, CutNode, SMTT(20)
  <2>2. (at[2] - a) - k = at[2] - (a + k)
    BY <1>1, <1>3
  <2> QED BY <1>1, <1>3, <2>1, <2>2
<1> HIDE DEF x
<1>5. /\ ms \in Seq(Node) /\ Len(ms) = n /\ ms[1] = x
      /\ \A i \in 1..n : i # 1 => ms[i] = ns[i]
  BY <1>1, <1>4
<1> HIDE DEF n, ms
<1> DEFINE to == [at EXCEPT ![1] = a + k]
<1>6. /\ to \in [1..(n + 1) -> Nat] /\ to[1] = a + k
      /\ \A i \in 1..(n + 1) : i # 1 => to[i] = at[i]
  BY <1>1, <1>4
<1> HIDE DEF to
<1>7. ASSUME NEW i \in 1..n
      PROVE  to[i] <= to[i + 1] /\ ms[i].data = Bytes(to[i], to[i + 1] - to[i])
  <2>1. i + 1 \in 1..(n + 1) /\ i + 1 # 1 /\ to[i + 1] = at[i + 1]
    BY <1>1, <1>6
  <2>2. CASE i = 1
    <3>1. i + 1 = 2
      BY <2>2
    <3> QED BY <1>4, <1>5, <1>6, <2>1, <2>2, <3>1
  <2>3. CASE i # 1
    <3>1. i \in 1..(n + 1) /\ to[i] = at[i] /\ ms[i] = ns[i]
      BY <1>1, <1>5, <1>6, <2>3
    <3> QED BY <1>2, <2>1, <3>1
  <2> QED BY <2>2, <2>3
<1>8. Holds(ms, to[1], to[n + 1])
  BY <1>5, <1>6, <1>7, StepwiseHolds
<1>9. to[n + 1] = b
  BY <1>1, <1>2, <1>6
<1> QED BY <1>6, <1>8, <1>9 DEF ms, x

(* Without the front node.                                                 *)
LEMMA TailHolds ==
    ASSUME NEW ns, NEW a, NEW b, Holds(ns, a, b), ns # << >>
    PROVE  Holds(Tail(ns), a + Len(ns[1].data), b)
<1> DEFINE n == Len(ns)
           ms == Tail(ns)
<1>1. /\ ns \in Seq(Node) /\ n \in Nat \ {0} /\ a \in Nat /\ 1 \in 1..n
  BY HoldsBounds, EmptySeq
<1>2. PICK at \in [1..(n + 1) -> Nat] :
         /\ at[1] = a /\ at[n + 1] = b
         /\ \A i \in 1..n : /\ at[i] <= at[i + 1]
                            /\ ns[i].data = Bytes(at[i], at[i + 1] - at[i])
                            /\ Len(ns[i].data) = at[i + 1] - at[i]
  BY PlacesOf
<1>3. at[2] = a + Len(ns[1].data)
  <2>1. Len(ns[1].data) = at[1 + 1] - at[1]
    BY <1>1, <1>2
  <2>2. 1 + 1 = 2 /\ at[2] \in Nat
    BY <1>1
  <2> QED BY <1>1, <1>2, <2>1, <2>2
<1>4. /\ ms \in Seq(Node) /\ Len(ms) = n - 1
      /\ \A i \in 1..(n - 1) : ms[i] = ns[i + 1]
  BY <1>1, HeadTailProperties
<1> HIDE DEF n, ms
<1> DEFINE to == [i \in 1..n |-> at[i + 1]]
<1>5. to \in [1..n -> Nat] /\ \A i \in 1..n : to[i] = at[i + 1]
  BY <1>1
<1> HIDE DEF to
<1>6. ASSUME NEW i \in 1..(n - 1)
      PROVE  to[i] <= to[i + 1] /\ ms[i].data = Bytes(to[i], to[i + 1] - to[i])
  <2>1. i \in 1..n /\ i + 1 \in 1..n
    BY <1>1
  <2>2. to[i] = at[i + 1] /\ to[i + 1] = at[(i + 1) + 1] /\ ms[i] = ns[i + 1]
    BY <1>4, <1>5, <2>1
  <2>3. /\ at[i + 1] <= at[(i + 1) + 1]
        /\ ns[i + 1].data = Bytes(at[i + 1], at[(i + 1) + 1] - at[i + 1])
    BY <1>2, <2>1
  <2> QED BY <2>2, <2>3
<1>7. Holds(ms, to[1], to[n])
  <2>1. Len(ms) + 1 = n
    BY <1>1, <1>4
  <2> QED BY <1>4, <1>5, <1>6, <2>1, StepwiseHolds
<1>8. to[1] = at[2] /\ to[n] = b
  BY <1>1, <1>2, <1>5
<1> QED BY <1>3, <1>7, <1>8 DEF ms

-----------------------------------------------------------------------------
(***************************************************************************)
(* drain: a turn of its loop, and the loop.                                *)
(***************************************************************************)
Full(ns) == \A i \in 1..Len(ns) : ns[i].data # << >>

Drains == [ns : Seq(Node), left : Nat]

(* d is on the way from ns, of which n bytes are to be drained.            *)
OnTheWay(d, a, b, n, full) ==
    /\ d.left <= n
    /\ Holds(d.ns, a + (n - d.left), b)
    /\ full => Full(d.ns)

LEMMA CutFrontHolds ==
    ASSUME NEW ns, NEW c, NEW b, Holds(ns, c, b), ns # << >>,
           NEW k \in 0..Len(ns[1].data)
    PROVE  /\ Holds(CutFront(ns, k), c + k, b)
           /\ k = Len(ns[1].data) => Len(CutFront(ns, k)) = Len(ns) - 1
           /\ Full(ns) => Full(CutFront(ns, k))
<1> DEFINE ms == CutFront(ns, k)
<1>1. /\ ns \in Seq(Node) /\ ns[1] \in Node
      /\ Len(ns) \in Nat /\ 1 \in 1..Len(ns)
      /\ Len(ns[1].data) \in Nat
  BY NodeParts, EmptySeq, HoldsBounds
<1>2. CASE k = Len(ns[1].data)
  <2>1. ms = Tail(ns)
    BY <1>2 DEF CutFront
  <2>2. Holds(ms, c + k, b)
    BY <1>2, <2>1, TailHolds
  <2>3. Len(ms) = Len(ns) - 1 /\ \A i \in 1..Len(ms) : ms[i] = ns[i + 1]
    BY <1>1, <2>1, HeadTailProperties
  <2> HIDE DEF ms
  <2>4. Full(ns) => Full(ms)
    BY <1>1, <2>3 DEF Full
  <2> QED BY <2>2, <2>3, <2>4 DEF ms
<1>3. CASE k # Len(ns[1].data)
  <2>1. ms = [ns EXCEPT ![1] = Cut(@, k)]
    BY <1>3 DEF CutFront
  <2> HIDE DEF ms
  <2>2. Holds(ms, c + k, b)
    BY <1>1, <2>1, CutHolds
  <2>3. Cut(ns[1], k).data # << >>
    <3> DEFINE m == Len(ns[1].data)
    <3>1. c \in Nat /\ ns[1].data = Bytes(c, m) /\ m \in Nat
      BY <1>1, HoldsBounds
    <3>2. Cut(ns[1], k).data = Bytes(c + k, m - k)
      <4> HIDE DEF m
      <4>1. k \in 0..m
        BY DEF m
      <4> QED BY <1>1, <3>1, <4>1, CutNode
    <3>3. c + k \in Nat /\ m - k \in Nat /\ m - k # 0
      BY <1>1, <1>3, <3>1
    <3> QED BY <3>2, <3>3, NoBytes
  <2>4. Full(ns) => Full(ms)
    <3>1. Len(ms) = Len(ns) /\ ms[1] = Cut(ns[1], k)
          /\ \A i \in 1..Len(ns) : i # 1 => ms[i] = ns[i]
      BY <1>1, <2>1
    <3> QED BY <2>3, <3>1 DEF Full
  <2> QED BY <1>3, <2>2, <2>4 DEF ms
<1> QED BY <1>2, <1>3

LEMMA DrainFrontHolds ==
    ASSUME NEW d \in Drains, NEW a \in Nat, NEW b, NEW n \in Nat,
           NEW full \in BOOLEAN, OnTheWay(d, a, b, n, full)
    PROVE  /\ OnTheWay(DrainFront(d), a, b, n, full)
           /\ \/ DrainFront(d).left = 0 \/ DrainFront(d).ns = << >>
              \/ Len(DrainFront(d).ns) = Len(d.ns) - 1
           /\ d.left = 0 \/ d.ns = << >> => DrainFront(d) = d
<1>1. CASE d.left = 0 \/ d.ns = << >>
  BY <1>1 DEF DrainFront
<1>2. CASE d.left # 0 /\ d.ns # << >>
  <2>1. PICK ns : ns = d.ns
    OBVIOUS
  <2>2. PICK c : c = a + (n - d.left)
    OBVIOUS
  <2>3. /\ ns \in Seq(Node) /\ d.left \in Nat /\ d.left <= n /\ ns # << >>
        /\ Holds(ns, c, b) /\ (full => Full(ns))
    BY <1>2, <2>1, <2>2 DEF Drains, OnTheWay
  <2>4. Len(ns[1].data) \in Nat
    BY <2>3, NodeParts, EmptySeq
  <2>5. PICK k \in Nat :
           /\ k = Min({Len(ns[1].data), d.left})
           /\ k <= Len(ns[1].data) /\ k <= d.left
           /\ k < Len(ns[1].data) => k = d.left
    <3>1. PICK u \in Nat, v \in Nat : u = Len(ns[1].data) /\ v = d.left
      BY <2>3, <2>4
    <3>2. Min({u, v}) = IF u <= v THEN u ELSE v
      BY MinOfTwo
    <3>3. PICK k \in Nat :
            k = Min({u, v}) /\ k <= u /\ k <= v /\ (k < u => k = v)
      BY <3>2
    <3> QED BY <3>1, <3>3
  <2>6. /\ DrainFront(d).ns = CutFront(ns, k)
        /\ DrainFront(d).left = d.left - k
    BY <1>2, <2>1, <2>5 DEF DrainFront
  <2>7. /\ Holds(CutFront(ns, k), c + k, b)
        /\ k = Len(ns[1].data) => Len(CutFront(ns, k)) = Len(ns) - 1
        /\ Full(ns) => Full(CutFront(ns, k))
    <3>1. k \in 0..Len(ns[1].data)
      BY <2>4, <2>5
    <3> QED BY <2>3, <3>1, CutFrontHolds
  <2>8. d.left - k <= n /\ c + k = a + (n - (d.left - k))
    <3>1. PICK l \in Nat : l = d.left
      BY <2>3
    <3>2. l <= n /\ k <= l /\ c = a + (n - l)
      BY <2>2, <2>3, <2>5, <3>1
    <3>3. l - k <= n /\ c + k = a + (n - (l - k))
      BY <3>2
    <3> QED BY <3>1, <3>3
  <2>9. k # Len(ns[1].data) => d.left - k = 0
    BY <2>3, <2>4, <2>5
  <2>10. OnTheWay(DrainFront(d), a, b, n, full)
    BY <2>3, <2>6, <2>7, <2>8 DEF OnTheWay
  <2> QED BY <1>2, <2>1, <2>6, <2>7, <2>9, <2>10
<1> QED BY <1>1, <1>2

(* What drain leaves: of n bytes it drains all or as many as there are.    *)
LEMMA DrainedHolds ==
    ASSUME NEW ns, NEW a, NEW b, Holds(ns, a, b), NEW n \in Nat,
           NEW full \in BOOLEAN, full => Full(ns)
    PROVE  /\ Drained(ns, n).left \in 0..n
           /\ Holds(Drained(ns, n).ns, a + (n - Drained(ns, n).left), b)
           /\ full => Full(Drained(ns, n).ns)
           /\ Drained(ns, n).left = 0 \/ Drained(ns, n).ns = << >>
<1> DEFINE N == Len(ns)
           x == [ns |-> ns, left |-> n]
           S == {d \in Drains : OnTheWay(d, a, b, n, full)}
           F == [d \in S |-> DrainFront(d)]
<1>1. ns \in Seq(Node) /\ N \in Nat /\ a \in Nat /\ b \in Nat
  BY HoldsBounds
<1>2. x \in S
  <2>1. x \in Drains /\ x.left = n /\ x.ns = ns
    BY <1>1 DEF Drains
  <2>2. a + (n - n) = a
    BY <1>1
  <2> QED BY <2>1, <2>2 DEF OnTheWay
<1>3. ASSUME NEW d \in S
      PROVE  /\ DrainFront(d) \in S
             /\ \/ DrainFront(d).left = 0 \/ DrainFront(d).ns = << >>
                \/ Len(DrainFront(d).ns) = Len(d.ns) - 1
             /\ d.left = 0 \/ d.ns = << >> => DrainFront(d) = d
  <2>1. d \in Drains /\ OnTheWay(d, a, b, n, full)
    OBVIOUS
  <2> DEFINE e == DrainFront(d)
  <2>2. /\ OnTheWay(e, a, b, n, full)
        /\ e.left = 0 \/ e.ns = << >> \/ Len(e.ns) = Len(d.ns) - 1
        /\ d.left = 0 \/ d.ns = << >> => e = d
    BY <1>1, <2>1, DrainFrontHolds
  <2>3. e \in Drains
    <3>1. e.ns \in Seq(Node)
      BY <2>2 DEF OnTheWay, Holds
    <3>2. e.left \in Nat
      <4>1. PICK k \in Nat : k = d.left
        BY <2>1 DEF Drains
      <4>2. CASE d.left = 0 \/ d.ns = << >>
        BY <2>2, <4>1, <4>2
      <4>3. CASE ~(d.left = 0 \/ d.ns = << >>)
        <5>1. PICK m \in Nat : m = Len(d.ns[1].data)
          <6>1. PICK q : q = d.ns
            OBVIOUS
          <6>2. q \in Seq(Node) /\ q # << >>
            BY <2>1, <4>3, <6>1 DEF Drains
          <6>3. q[1] \in Node
            BY <6>2, EmptySeq
          <6>4. Len(q[1].data) \in Nat
            BY <6>3, NodeParts
          <6> QED BY <6>1, <6>4
        <5>2. e.left = k - Min({m, k})
          BY <4>1, <4>3, <5>1 DEF DrainFront
        <5> QED BY <5>2, MinOfTwo
      <4> QED BY <4>2, <4>3
    <3>3. e = [ns |-> e.ns, left |-> e.left]
      BY <2>1 DEF DrainFront, Drains
    <3> HIDE DEF e
    <3> QED BY <3>1, <3>2, <3>3 DEF Drains
  <2> QED BY <2>2, <2>3
<1>4. F \in [S -> S]
  BY <1>3
<1>5. PICK f \in [0..N -> S] : Turns(F, x, N, f)
  <2> HIDE DEF N, x, S, F
  <2> QED BY <1>1, <1>2, <1>4, TurnsExist
<1>6. \A i \in 0..N : f[i] = IF i = 0 THEN x ELSE F[f[i - 1]]
  BY <1>5 DEF Turns
<1> HIDE DEF S
<1>7. f = [i \in 0..N |-> IF i = 0 THEN x ELSE DrainFront(f[i - 1])]
  <2>1. ASSUME NEW i \in 0..N
        PROVE  f[i] = IF i = 0 THEN x ELSE DrainFront(f[i - 1])
    <3>1. i # 0 => i - 1 \in 0..N
      BY <1>1
    <3> QED BY <1>6, <3>1
  <2> QED BY <2>1
<1> DEFINE g == CHOOSE h : h = [i \in 0..N |->
                                  IF i = 0 THEN x ELSE DrainFront(h[i - 1])]
<1>8. g = [i \in 0..N |-> IF i = 0 THEN x ELSE DrainFront(g[i - 1])]
  <2> HIDE DEF N, x
  <2> QED BY <1>7
<1>9. Drained(ns, n) = g[N]
  BY DEF Drained
<1> HIDE DEF g, F
<1> DEFINE Left(i) == \/ g[i].left = 0 \/ g[i].ns = << >>
                      \/ Len(g[i].ns) = N - i
           P == {i \in Nat : i <= N => g[i] \in S /\ Left(i)}
<1>10. 0 \in P
  <2>1. g[0] = x
    BY <1>1, <1>8
  <2> QED BY <1>1, <1>2, <2>1
<1>11. ASSUME NEW i \in Nat, i \in P PROVE i + 1 \in P
  <2> SUFFICES ASSUME i + 1 <= N PROVE g[i + 1] \in S /\ Left(i + 1)
    OBVIOUS
  <2>1. i <= N
    BY <1>1
  <2>2. g[i] \in S /\ Left(i)
    BY <1>11, <2>1
  <2>3. g[i + 1] = DrainFront(g[i])
    <3>1. i + 1 \in 0..N /\ i + 1 # 0 /\ (i + 1) - 1 = i
      BY <1>1
    <3> HIDE DEF x
    <3>2. g[i + 1] = DrainFront(g[(i + 1) - 1])
      BY <1>8, <3>1
    <3> QED BY <3>1, <3>2
  <2>4. /\ g[i + 1] \in S
        /\ \/ g[i + 1].left = 0 \/ g[i + 1].ns = << >>
           \/ Len(g[i + 1].ns) = Len(g[i].ns) - 1
        /\ g[i].left = 0 \/ g[i].ns = << >> => g[i + 1] = g[i]
    BY <1>3, <2>2, <2>3
  <2>5. (N - i) - 1 = N - (i + 1)
    BY <1>1
  <2> QED BY <2>2, <2>4, <2>5
<1>12. g[N] \in S /\ Left(N)
  <2>1. N \in P
    <3> HIDE DEF P
    <3> QED BY <1>1, <1>10, <1>11, Induction
  <2> QED BY <1>1, <2>1
<1> DEFINE ms == g[N].ns
           left == g[N].left
<1>13. g[N] \in Drains /\ OnTheWay(g[N], a, b, n, full)
  BY <1>12 DEF S
<1>14. g[N] = [ns |-> ms, left |-> left] /\ left \in Nat /\ ms \in Seq(Node)
  BY <1>13 DEF Drains
<1>15. left <= n /\ Holds(ms, a + (n - left), b) /\ (full => Full(ms))
  BY <1>13 DEF OnTheWay
<1>16. left = 0 \/ ms = << >>
  <2>1. Len(ms) = N - N => ms = << >>
    BY <1>1, <1>14, EmptySeq
  <2> QED BY <1>12, <2>1
<1>17. Drained(ns, n).ns = ms /\ Drained(ns, n).left = left
  BY <1>9
<1> HIDE DEF ms, left
<1> QED BY <1>14, <1>15, <1>16, <1>17

-----------------------------------------------------------------------------
(***************************************************************************)
(* pullupFrom, case 2: a turn of its loop, and the loop.                   *)
(***************************************************************************)

(* Without an empty second node.                                           *)
LEMMA EraseHolds ==
    ASSUME NEW ns, NEW a, NEW b, Holds(ns, a, b),
           Len(ns) >= 2, Len(ns[2].data) = 0
    PROVE  /\ Holds(RemoveAt(ns, 2), a, b)
           /\ Len(RemoveAt(ns, 2)) = Len(ns) - 1
           /\ RemoveAt(ns, 2)[1] = ns[1]
<1> DEFINE n == Len(ns)
           s == SubSeq(ns, 1, 1)
           t == SubSeq(ns, 3, n)
           ms == RemoveAt(ns, 2)
<1>1. /\ ns \in Seq(Node) /\ n \in Nat /\ n >= 2
      /\ 2 \in 1..n /\ 1 \in 1..n
  BY HoldsBounds
<1>2. PICK at \in [1..(n + 1) -> Nat] :
         /\ at[1] = a /\ at[n + 1] = b
         /\ \A i \in 1..n : /\ at[i] <= at[i + 1]
                            /\ ns[i].data = Bytes(at[i], at[i + 1] - at[i])
                            /\ Len(ns[i].data) = at[i + 1] - at[i]
  BY PlacesOf
<1>3. at[3] = at[2]
  <2>1. Len(ns[2].data) = at[2 + 1] - at[2]
    BY <1>1, <1>2
  <2>2. 2 + 1 = 3 /\ at[2] \in Nat /\ at[3] \in Nat
    BY <1>1
  <2> QED BY <2>1, <2>2
<1>4. /\ s \in Seq(Node) /\ Len(s) = 1 /\ s[1] = ns[1]
  BY <1>1
<1>5. /\ t \in Seq(Node) /\ Len(t) = n - 2
      /\ \A i \in 1..(n - 2) : t[i] = ns[i + 2]
  <2>1. 3 \in 1..(n + 1) /\ n \in 2..n /\ 3 - 1 = 2 /\ n - 3 + 1 = n - 2
    BY <1>1
  <2>2. /\ t \in Seq(Node) /\ Len(t) = n - 2
        /\ \A i \in 1..(n - 2) : t[i] = ns[3 + i - 1]
    BY <1>1, <2>1, SubSeqProperties
  <2>3. \A i \in 1..(n - 2) : 3 + i - 1 = i + 2
    BY <1>1
  <2> QED BY <2>1, <2>2
<1>6. ms = s \o t
  <2>1. 2 - 1 = 1 /\ 2 + 1 = 3
    OBVIOUS
  <2> QED BY <2>1 DEF RemoveAt
<1> HIDE DEF n, s, t, ms
<1>7. /\ ms \in Seq(Node) /\ Len(ms) = n - 1
      /\ \A i \in 1..(n - 1) : ms[i] = IF i <= 1 THEN s[i] ELSE t[i - 1]
  <2>1. 1 + (n - 2) = n - 1
    BY <1>1
  <2>2. /\ s \o t \in Seq(Node) /\ Len(s \o t) = Len(s) + Len(t)
        /\ \A i \in 1..(Len(s) + Len(t)) :
             (s \o t)[i] = IF i <= Len(s) THEN s[i] ELSE t[i - Len(s)]
    <3>1. s \in Seq(Node) /\ t \in Seq(Node)
      BY <1>4, <1>5
    <3> QED BY <3>1, ConcatProperties
  <2>3. Len(s) = 1 /\ Len(s) + Len(t) = n - 1
    BY <1>4, <1>5, <2>1
  <2> QED BY <1>6, <2>2, <2>3
<1>8. /\ ms[1] = ns[1]
      /\ \A i \in 2..(n - 1) : ms[i] = ns[i + 1]
  <2>1. ms[1] = ns[1]
    BY <1>1, <1>4, <1>7
  <2>2. ASSUME NEW i \in 2..(n - 1) PROVE ms[i] = ns[i + 1]
    <3>1. i \in 1..(n - 1) /\ ~(i <= 1) /\ i - 1 \in 1..(n - 2)
          /\ (i - 1) + 2 = i + 1
      BY <1>1
    <3>2. ms[i] = t[i - 1] /\ t[i - 1] = ns[(i - 1) + 2]
      BY <1>5, <1>7, <3>1
    <3> QED BY <3>1, <3>2
  <2> QED BY <2>1, <2>2
<1> DEFINE to == [i \in 1..n |-> IF i = 1 THEN at[1] ELSE at[i + 1]]
<1>9. /\ to \in [1..n -> Nat] /\ to[1] = at[1]
      /\ \A i \in 2..n : to[i] = at[i + 1]
  BY <1>1
<1> HIDE DEF to
<1>10. ASSUME NEW i \in 1..(n - 1)
      PROVE  to[i] <= to[i + 1] /\ ms[i].data = Bytes(to[i], to[i + 1] - to[i])
  <2>1. i + 1 \in 2..n /\ to[i + 1] = at[(i + 1) + 1]
    BY <1>1, <1>9
  <2>2. CASE i = 1
    <3>1. (i + 1) + 1 = 3 /\ i + 1 = 2
      BY <2>2
    <3>2. at[1] <= at[1 + 1] /\ ns[1].data = Bytes(at[1], at[1 + 1] - at[1])
      BY <1>1, <1>2
    <3> QED BY <1>3, <1>8, <1>9, <2>1, <2>2, <3>1, <3>2
  <2>3. CASE i # 1
    <3>1. i \in 2..n /\ i \in 2..(n - 1) /\ i + 1 \in 1..n
      BY <1>1, <2>3
    <3>2. to[i] = at[i + 1] /\ ms[i] = ns[i + 1]
      BY <1>8, <1>9, <3>1
    <3>3. /\ at[i + 1] <= at[(i + 1) + 1]
          /\ ns[i + 1].data = Bytes(at[i + 1], at[(i + 1) + 1] - at[i + 1])
      BY <1>2, <3>1
    <3> QED BY <2>1, <3>2, <3>3
  <2> QED BY <2>2, <2>3
<1>11. Holds(ms, to[1], to[n])
  <2>1. Len(ms) + 1 = n
    BY <1>1, <1>7
  <2> QED BY <1>7, <1>9, <1>10, <2>1, StepwiseHolds
<1>12. to[1] = a /\ to[n] = b
  BY <1>1, <1>2, <1>9
<1> QED BY <1>7, <1>8, <1>11, <1>12 DEF ms, n

LEMMA PullHolds ==
    ASSUME NEW ns, NEW a, NEW b, Holds(ns, a, b), Len(ns) >= 2,
           NEW k \in 0..Len(ns[2].data), Len(ns[1].data) + k <= ns[1].room
    PROVE  /\ Holds(Pull(ns, k), a, b)
           /\ Pull(ns, k)[1].room = ns[1].room
           /\ Len(Pull(ns, k)[1].data) = Len(ns[1].data) + k
           /\ Len(Pull(ns, k)) = IF k = Len(ns[2].data) THEN Len(ns) - 1
                                 ELSE Len(ns)
<1> DEFINE n == Len(ns)
           x == [room |-> ns[1].room, begin |-> 0,
                 data |-> ns[1].data \o SubSeq(ns[2].data, 1, k)]
           y == Cut(ns[2], k)
           ms == [ns EXCEPT ![1] = x, ![2] = Cut(@, k)]
<1>1. /\ ns \in Seq(Node) /\ n \in Nat /\ n >= 2 /\ 2 \in 1..n /\ 1 \in 1..n
      /\ a \in Nat /\ b \in Nat /\ ns[1] \in Node /\ ns[2] \in Node
      /\ Len(ns[2].data) \in Nat /\ Len(ns[1].data) \in Nat
      /\ ns[1].room \in Nat
  <2>1. ns \in Seq(Node) /\ n \in Nat /\ a \in Nat /\ b \in Nat
    BY HoldsBounds
  <2>2. 2 \in 1..n /\ 1 \in 1..n
    BY <2>1
  <2>3. ns[1] \in Node /\ ns[2] \in Node
    BY <2>1, <2>2
  <2> QED BY <2>1, <2>2, <2>3, NodeParts
<1>2. PICK at \in [1..(n + 1) -> Nat] :
         /\ at[1] = a /\ at[n + 1] = b
         /\ \A i \in 1..n : /\ at[i] <= at[i + 1]
                            /\ ns[i].data = Bytes(at[i], at[i + 1] - at[i])
                            /\ Len(ns[i].data) = at[i + 1] - at[i]
  BY PlacesOf
<1>3. PICK p \in Nat : p = at[2]
  BY <1>1, SMTT(20)
<1>4. PICK q \in Nat : q = at[3]
  BY <1>1
<1>5. /\ a <= p /\ ns[1].data = Bytes(a, p - a) /\ Len(ns[1].data) = p - a
  <2>1. /\ at[1] <= at[1 + 1] /\ ns[1].data = Bytes(at[1], at[1 + 1] - at[1])
        /\ Len(ns[1].data) = at[1 + 1] - at[1]
    BY <1>1, <1>2
  <2>2. 1 + 1 = 2
    OBVIOUS
  <2> QED BY <1>2, <1>3, <2>1, <2>2
<1>6. /\ p <= q /\ ns[2].data = Bytes(p, q - p) /\ Len(ns[2].data) = q - p
  <2>1. /\ at[2] <= at[2 + 1] /\ ns[2].data = Bytes(at[2], at[2 + 1] - at[2])
        /\ Len(ns[2].data) = at[2 + 1] - at[2]
    BY <1>1, <1>2
  <2>2. 2 + 1 = 3
    OBVIOUS
  <2> QED BY <1>3, <1>4, <2>1, <2>2
<1>7. /\ k \in 0..(q - p) /\ k \in Nat /\ k <= q - p /\ q - p \in Nat
      /\ a \in Nat /\ a <= p /\ p - a \in Nat /\ p + k \in Nat
  <2>1. k \in 0..(q - p)
    BY <1>6
  <2>2. a \in Nat /\ a <= p /\ p <= q
    BY <1>1, <1>5, <1>6
  <2> QED BY <2>1, <2>2
<1>8. SubSeq(ns[2].data, 1, k) = Bytes(p, k)
  <2> HIDE DEF x, y, ms, n
  <2>0. PICK e \in Nat : e = q - p
    BY <1>7
  <2>1. PICK z \in Nat : z = 0
    OBVIOUS
  <2>2. z <= k /\ k \in 0..e
    BY <1>7, <2>0, <2>1
  <2>3. SubSeq(Bytes(p, e), z + 1, k) = Bytes(p + z, k - z)
    BY <2>2, BytesPart
  <2>4. z + 1 = 1 /\ p + z = p /\ k - z = k
    BY <1>7, <2>1
  <2> QED BY <1>6, <2>0, <2>3, <2>4
<1>9. /\ x \in Node /\ x.data = Bytes(a, p + k - a) /\ x.room = ns[1].room
      /\ Len(x.data) = Len(ns[1].data) + k
  <2> HIDE DEF x, y, ms, n
  <2>0. PICK e \in Nat : e = p - a
    BY <1>7
  <2>1. a + e = p /\ e + k = p + k - a /\ p + k - a \in Nat
    BY <1>7, <2>0
  <2>2. Bytes(a, e) \o Bytes(a + e, k) = Bytes(a, e + k)
    BY <1>7, BytesJoin, ZenonT(40)
  <2>3. ns[1].data \o SubSeq(ns[2].data, 1, k) = Bytes(a, p + k - a)
    BY <1>5, <1>8, <2>0, <2>1, <2>2
  <2>4. PICK m \in Nat : m = p + k - a
    BY <2>1
  <2>5. Bytes(a, m) \in Seq(Nat) /\ Len(Bytes(a, m)) = m
    BY <1>1, BytesAre
  <2>6. m = Len(ns[1].data) + k /\ 0 + m <= ns[1].room
    <3>1. Len(ns[1].data) = e /\ m = e + k
      BY <1>5, <2>0, <2>1, <2>4
    <3>2. e + k <= ns[1].room
      BY <3>1
    <3> QED BY <1>1, <2>4, <3>1, <3>2, SMTT(20)
  <2>7. [room |-> ns[1].room, begin |-> 0, data |-> Bytes(a, m)] \in Node
    BY <1>1, <2>5, <2>6, NodeMade
  <2> QED BY <2>3, <2>4, <2>5, <2>6, <2>7 DEF x
<1>10. y \in Node /\ y.data = Bytes(p + k, q - (p + k)) /\ p + k <= q
  <2> HIDE DEF x, ms, n
  <2>0. PICK e \in Nat : e = q - p
    BY <1>7
  <2>1. Cut(ns[2], k) \in Node /\ Cut(ns[2], k).data = Bytes(p + k, e - k)
    <3>1. ns[2].data = Bytes(p, e) /\ k \in 0..e
      BY <1>6, <1>7, <2>0
    <3>2. PICK z \in Node : z = ns[2]
      BY <1>1
    <3>3. Cut(z, k) \in Node /\ Cut(z, k).data = Bytes(p + k, e - k)
      BY <3>1, <3>2, CutNode
    <3> QED BY <3>2, <3>3
  <2>2. e - k = q - (p + k) /\ p + k <= q
    BY <1>7, <2>0
  <2> QED BY <2>1, <2>2
<1>11. Pull(ns, k) = IF k = Len(ns[2].data) THEN RemoveAt(ms, 2) ELSE ms
  BY DEF Pull
<1> HIDE DEF x
<1>12. /\ ms \in Seq(Node) /\ Len(ms) = n /\ ms[1] = x /\ ms[2] = y
       /\ \A i \in 1..n : i # 1 /\ i # 2 => ms[i] = ns[i]
  <2>1. ms = [ns EXCEPT ![1] = x, ![2] = y]
    BY <1>1
  <2> HIDE DEF y, ms
  <2> QED BY <1>1, <1>9, <1>10, <2>1, SMTT(20)
<1> HIDE DEF n, ms, y
<1> DEFINE to == [at EXCEPT ![2] = p + k]
<1>13. /\ to \in [1..(n + 1) -> Nat] /\ to[2] = p + k
       /\ \A i \in 1..(n + 1) : i # 2 => to[i] = at[i]
  BY <1>1, <1>7
<1> HIDE DEF to
<1>14. ASSUME NEW i \in 1..n
      PROVE  to[i] <= to[i + 1] /\ ms[i].data = Bytes(to[i], to[i + 1] - to[i])
  <2>1. i \in 1..(n + 1) /\ i + 1 \in 1..(n + 1)
    BY <1>1
  <2>2. CASE i = 1
    <3>1. i + 1 = 2 /\ to[1] = a
      BY <1>1, <1>2, <1>13, <2>1, <2>2
    <3>2. a <= p + k
      BY <1>1, <1>5, <1>7, SMTT(20)
    <3>3. to[i] = a /\ to[i + 1] = p + k /\ ms[i] = x
      BY <1>12, <1>13, <2>2, <3>1
    <3>4. ms[i].data = Bytes(a, p + k - a)
      BY <1>9, <3>3
    <3>5. a \in Nat /\ p + k \in Nat
      BY <1>7
    <3> QED BY <3>2, <3>3, <3>4, <3>5
  <2>3. CASE i = 2
    <3>1. i + 1 = 3 /\ to[3] = q
      BY <1>1, <1>4, <1>13, <2>1, <2>3
    <3> QED BY <1>10, <1>12, <1>13, <2>3, <3>1
  <2>4. CASE i # 1 /\ i # 2
    <3>1. to[i] = at[i] /\ to[i + 1] = at[i + 1] /\ ms[i] = ns[i]
      <4>1. i + 1 # 2
        BY <1>1, <2>4
      <4> QED BY <1>12, <1>13, <2>1, <2>4, <4>1
    <3> QED BY <1>2, <3>1
  <2> QED BY <2>2, <2>3, <2>4
<1>15. Holds(ms, a, b)
  <2>1. Holds(ms, to[1], to[n + 1])
    BY <1>12, <1>13, <1>14, StepwiseHolds
  <2>2. to[1] = a /\ to[n + 1] = b
    BY <1>1, <1>2, <1>13
  <2> QED BY <2>1, <2>2
<1>16. CASE k = Len(ns[2].data)
  <2>1. q - (p + k) = 0 /\ p + k \in Nat /\ 0 \in Nat
    BY <1>6, <1>7, <1>16
  <2>2. Len(ms[2].data) = 0
    <3>1. Len(Bytes(p + k, 0)) = 0
      BY <2>1, BytesAre
    <3> QED BY <1>10, <1>12, <2>1, <3>1
  <2>3. /\ Holds(RemoveAt(ms, 2), a, b)
        /\ Len(RemoveAt(ms, 2)) = n - 1
        /\ RemoveAt(ms, 2)[1] = x
    BY <1>1, <1>12, <1>15, <2>2, EraseHolds
  <2> QED BY <1>9, <1>11, <1>16, <2>3 DEF n
<1>17. CASE k # Len(ns[2].data)
  BY <1>9, <1>11, <1>12, <1>15, <1>17 DEF n
<1> QED BY <1>16, <1>17

LEMMA PullNextHolds ==
    ASSUME NEW ns, NEW a, NEW b, Holds(ns, a, b), ns # << >>,
           NEW n \in Nat, n <= ns[1].room
    PROVE  /\ Holds(PullNext(ns, n), a, b) /\ PullNext(ns, n) # << >>
           /\ PullNext(ns, n)[1].room = ns[1].room
           /\ \/ Len(PullNext(ns, n)[1].data) >= n \/ Len(PullNext(ns, n)) = 1
              \/ Len(PullNext(ns, n)) = Len(ns) - 1
           /\ Len(ns[1].data) >= n \/ Len(ns) = 1 => PullNext(ns, n) = ns
<1> DEFINE ms == PullNext(ns, n)
<1>1. /\ ns \in Seq(Node) /\ Len(ns) \in Nat /\ Len(ns) # 0
      /\ 1 \in 1..Len(ns) /\ ns[1] \in Node
  <2>1. ns \in Seq(Node)
    BY HoldsBounds
  <2> QED BY <2>1, EmptySeq
<1>2. PICK l \in Nat : l = Len(ns[1].data)
  BY <1>1, NodeParts
<1>3. PICK r \in Nat : r = ns[1].room
  BY <1>1, NodeParts
<1>4. l <= r /\ n <= r
  <2>1. ns[1].begin \in Nat /\ ns[1].begin + l <= r
    BY <1>1, <1>2, <1>3, NodeParts
  <2> QED BY <1>3, <2>1
<1>5. CASE l >= n \/ Len(ns) = 1
  <2>1. ms = ns
    BY <1>2, <1>5 DEF PullNext
  <2> QED BY <1>1, <1>2, <1>5, <2>1
<1>6. CASE ~(l >= n \/ Len(ns) = 1)
  <2>0. Len(ns) >= 2
    <3>1. PICK N \in Nat : N = Len(ns) /\ N # 0
      BY <1>1
    <3>2. N # 1
      BY <1>6, <3>1
    <3>3. N >= 2
      BY <3>1, <3>2
    <3> QED BY <3>1, <3>3
  <2>1. 2 \in 1..Len(ns) /\ ns[2] \in Node
    BY <1>1, <2>0
  <2>2. PICK m \in Nat : m = Len(ns[2].data)
    BY <2>1, NodeParts
  <2>3. PICK k \in Nat : k = Min({m, r - l}) /\ k <= m /\ k <= r - l
                         /\ (k # m => k = r - l)
    BY <1>4, <2>2, MinOfTwo
  <2>4. ms = Pull(ns, k)
    <3>1. ms = Pull(ns, Min({Len(ns[2].data), ns[1].room - Len(ns[1].data)}))
      BY <1>2, <1>6 DEF PullNext
    <3> HIDE DEF ms
    <3> QED BY <1>2, <1>3, <2>2, <2>3, <3>1
  <2> HIDE DEF ms
  <2>5. /\ Holds(ms, a, b)
        /\ ms[1].room = ns[1].room
        /\ Len(ms[1].data) = l + k
        /\ Len(ms) = IF k = m THEN Len(ns) - 1 ELSE Len(ns)
    <3>1. k \in 0..Len(ns[2].data)
      BY <2>2, <2>3
    <3>2. Len(ns) >= 2 /\ Len(ns[1].data) + k <= ns[1].room
      BY <1>2, <1>3, <1>4, <2>0, <2>3
    <3>3. /\ Holds(Pull(ns, k), a, b)
          /\ Pull(ns, k)[1].room = ns[1].room
          /\ Len(Pull(ns, k)[1].data) = Len(ns[1].data) + k
          /\ Len(Pull(ns, k)) = IF k = Len(ns[2].data) THEN Len(ns) - 1
                                ELSE Len(ns)
      BY <3>1, <3>2, PullHolds
    <3> QED BY <1>2, <2>2, <2>4, <3>3
  <2>6. ms # << >>
    <3>1. Len(ms) # 0
      BY <1>1, <1>6, <2>5
    <3> QED BY <3>1, EmptySeq
  <2>7. k # m => l + k >= n
    BY <1>4, <2>3
  <2> QED BY <1>2, <1>6, <2>5, <2>6, <2>7 DEF ms
<1> QED BY <1>5, <1>6

(* The loop keeps the bytes where they are in order, and the front node    *)
(* has as many as are asked for, if there are so many.                     *)
LEMMA GatheredHolds ==
    ASSUME NEW ns, NEW a, NEW b, Holds(ns, a, b), ns # << >>,
           NEW n \in Nat, n <= ns[1].room
    PROVE  /\ Holds(Gathered(ns, n), a, b) /\ Gathered(ns, n) # << >>
           /\ n <= b - a => Len(Gathered(ns, n)[1].data) >= n
<1> DEFINE N == Len(ns)
           room == ns[1].room
           S == {ms \in Seq(Node) :
                   Holds(ms, a, b) /\ ms # << >> /\ ms[1].room = room}
           F == [ms \in S |-> PullNext(ms, n)]
<1>1. /\ ns \in Seq(Node) /\ N \in Nat /\ N # 0 /\ N - 1 \in Nat
      /\ a \in Nat /\ b \in Nat
  <2>1. N # 0
    BY HoldsBounds, EmptySeq
  <2>2. ns \in Seq(Node) /\ N \in Nat /\ a \in Nat /\ b \in Nat
    BY HoldsBounds
  <2> QED BY <2>1, <2>2
<1>2. ns \in S
  BY <1>1
<1>3. ASSUME NEW ms \in S
      PROVE  /\ PullNext(ms, n) \in S
             /\ \/ Len(PullNext(ms, n)[1].data) >= n
                \/ Len(PullNext(ms, n)) = 1
                \/ Len(PullNext(ms, n)) = Len(ms) - 1
             /\ Len(ms[1].data) >= n \/ Len(ms) = 1 => PullNext(ms, n) = ms
  <2>1. Holds(ms, a, b) /\ ms # << >> /\ ms[1].room = room
    OBVIOUS
  <2>2. n <= ms[1].room
    BY <2>1
  <2> DEFINE q == PullNext(ms, n)
  <2> HIDE DEF S, F, room
  <2>3. /\ Holds(q, a, b) /\ q # << >>
        /\ q[1].room = ms[1].room
        /\ \/ Len(q[1].data) >= n \/ Len(q) = 1
           \/ Len(q) = Len(ms) - 1
        /\ Len(ms[1].data) >= n \/ Len(ms) = 1 => q = ms
    BY <2>1, <2>2, PullNextHolds
  <2>4. q \in Seq(Node)
    BY <2>3, HoldsBounds
  <2> HIDE DEF q
  <2>5. q \in S
    BY <2>1, <2>3, <2>4 DEF S
  <2> QED BY <2>3, <2>5 DEF q
<1>4. F \in [S -> S]
  BY <1>3
<1>5. PICK f \in [0..(N - 1) -> S] : Turns(F, ns, N - 1, f)
  <2> HIDE DEF N, S, F
  <2> QED BY <1>1, <1>2, <1>4, TurnsExist
<1>6. \A i \in 0..(N - 1) : f[i] = IF i = 0 THEN ns ELSE F[f[i - 1]]
  BY <1>5 DEF Turns
<1> HIDE DEF S
<1> DEFINE e == [i \in 1..N |-> f[i - 1]]
<1>7. e = [i \in 1..N |-> IF i = 1 THEN ns ELSE PullNext(e[i - 1], n)]
  <2>1. ASSUME NEW i \in 1..N
        PROVE  e[i] = IF i = 1 THEN ns ELSE PullNext(e[i - 1], n)
    <3>1. i - 1 \in 0..(N - 1) /\ (i # 1 => i - 1 # 0)
      BY <1>1
    <3>2. CASE i = 1
      <4>0. 0 \in 0..(N - 1)
        BY <1>1
      <4>1. f[0] = ns
        <5> HIDE DEF e, F
        <5> QED BY <1>6, <4>0
      <4>2. i - 1 = 0 /\ e[i] = f[i - 1]
        BY <3>2
      <4> HIDE DEF e
      <4> QED BY <3>2, <4>1, <4>2
    <3>3. CASE i # 1
      <4>1. i - 1 \in 1..N /\ (i - 1) - 1 \in 0..(N - 1)
        BY <1>1, <3>3
      <4>2. e[i] = F[f[(i - 1) - 1]] /\ e[i - 1] = f[(i - 1) - 1]
        BY <1>6, <3>1, <3>3, <4>1
      <4>3. f[(i - 1) - 1] \in S
        BY <4>1
      <4> QED BY <3>3, <4>2, <4>3
    <3> QED BY <3>2, <3>3
  <2> QED BY <2>1
<1> DEFINE g == CHOOSE h : h = [i \in 1..N |->
                              IF i = 1 THEN ns ELSE PullNext(h[i - 1], n)]
<1>8. g = [i \in 1..N |-> IF i = 1 THEN ns ELSE PullNext(g[i - 1], n)]
  <2> HIDE DEF N, e
  <2> QED BY <1>7
<1>9. Gathered(ns, n) = g[N]
  BY DEF Gathered
<1> HIDE DEF g, F, e
<1> DEFINE Done(i) == \/ Len(g[i][1].data) >= n \/ Len(g[i]) = 1
                      \/ Len(g[i]) = N + 1 - i
           P == {i \in Nat : i + 1 <= N => g[i + 1] \in S /\ Done(i + 1)}
<1>10. 0 \in P
  <2>1. 0 + 1 = 1 /\ 1 \in 1..N
    BY <1>1
  <2>2. g[1] = ns
    BY <1>8, <2>1
  <2>3. Len(g[1]) = N + 1 - 1
    BY <1>1, <2>2
  <2> HIDE DEF N
  <2> QED BY <1>2, <2>1, <2>2, <2>3
<1>11. ASSUME NEW i \in Nat, i \in P PROVE i + 1 \in P
  <2> SUFFICES ASSUME (i + 1) + 1 <= N
               PROVE  g[(i + 1) + 1] \in S /\ Done((i + 1) + 1)
    OBVIOUS
  <2>1. i + 1 <= N
    BY <1>1
  <2>2. g[i + 1] \in S /\ Done(i + 1)
    BY <1>11, <2>1
  <2>3. PICK j \in Nat : j = i + 1
    OBVIOUS
  <2>4. g[j + 1] = PullNext(g[j], n)
    <3>1. j + 1 \in 1..N /\ j + 1 # 1 /\ (j + 1) - 1 = j
      BY <1>1, <2>3
    <3>2. g[j + 1] = PullNext(g[(j + 1) - 1], n)
      BY <1>8, <3>1
    <3> QED BY <3>1, <3>2
  <2>5. g[j] \in S /\ Done(j)
    BY <2>2, <2>3
  <2>6. /\ g[j + 1] \in S
        /\ \/ Len(g[j + 1][1].data) >= n \/ Len(g[j + 1]) = 1
           \/ Len(g[j + 1]) = Len(g[j]) - 1
        /\ Len(g[j][1].data) >= n \/ Len(g[j]) = 1 => g[j + 1] = g[j]
    BY <1>3, <2>4, <2>5
  <2>7. (N + 1 - j) - 1 = N + 1 - (j + 1)
    BY <1>1
  <2>8. g[j + 1] \in S /\ Done(j + 1)
    BY <2>5, <2>6, <2>7
  <2> QED BY <2>3, <2>8
<1>12. g[N] \in S /\ Done(N)
  <2>1. N - 1 \in P
    <3> HIDE DEF P
    <3> QED BY <1>1, <1>10, <1>11, Induction
  <2>2. (N - 1) + 1 = N /\ (N - 1) + 1 <= N
    BY <1>1
  <2>3. g[(N - 1) + 1] \in S /\ Done((N - 1) + 1)
    BY <2>1, <2>2
  <2> QED BY <2>2, <2>3
<1> DEFINE ms == g[N]
<1>13. Holds(ms, a, b) /\ ms # << >>
  BY <1>12 DEF S
<1>14. ASSUME n <= b - a PROVE Len(ms[1].data) >= n
  <2>1. N + 1 - N = 1
    BY <1>1
  <2>2. CASE Len(ms) = 1
    <3> HIDE DEF ms, N
    <3>1. ms[1].data = Bytes(a, b - a) /\ a <= b
      BY <1>13, <2>2, HoldsBounds
    <3>2. PICK k \in Nat : k = b - a
      BY <1>1, <3>1
    <3>3. Len(Bytes(a, k)) = k
      BY <1>1, BytesAre
    <3> QED BY <1>1, <1>14, <3>1, <3>2, <3>3
  <2> QED BY <1>12, <2>1, <2>2
<1> HIDE DEF ms
<1> QED BY <1>9, <1>13, <1>14 DEF ms

-----------------------------------------------------------------------------
(***************************************************************************)
(* The bytes of nodes, one after the other.                                *)
(***************************************************************************)
LEMMA ContentHeld ==
    ASSUME NEW ns, NEW a, NEW b, Holds(ns, a, b)
    PROVE  Content(ns) = Bytes(a, b - a)
<1> DEFINE N == Len(ns)
           ds == [i \in DOMAIN ns |-> ns[i].data]
<1>1. /\ ns \in Seq(Node) /\ N \in Nat /\ a \in Nat /\ b \in Nat /\ a <= b
      /\ ns = << >> => a = b
  BY HoldsBounds
<1>2. PICK at \in [1..(N + 1) -> Nat] :
         /\ at[1] = a /\ at[N + 1] = b
         /\ \A i \in 1..N : /\ a <= at[i] /\ at[i] <= at[i + 1]
                            /\ ns[i].data = Bytes(at[i], at[i + 1] - at[i])
  <2>1. PICK at : Places(ns, a, b, at)
    BY DEF Holds
  <2>2. \A i \in 1..N : a <= at[i] /\ at[i] <= at[i + 1]
    BY <1>1, <2>1, PlacesAre
  <2>3. /\ at \in [1..(N + 1) -> Nat] /\ at[1] = a /\ at[N + 1] = b
        /\ \A i \in 1..N : ns[i].data = Bytes(at[i], at[i + 1] - at[i])
    BY <2>1 DEF Places
  <2> QED BY <2>2, <2>3
<1>3. /\ DOMAIN ns = 1..N /\ ds \in Seq(Seq(Nat)) /\ Len(ds) = N
      /\ \A i \in 1..N : ds[i] = ns[i].data
  <2>1. DOMAIN ns = 1..N /\ \A i \in 1..N : ns[i] \in Node
    BY <1>1
  <2>2. \A i \in 1..N : ns[i].data \in Seq(Nat)
    BY <2>1, NodeParts
  <2>3. ds \in [1..N -> Seq(Nat)]
    BY <2>1, <2>2
  <2>4. ds \in Seq(Seq(Nat))
    <3> HIDE DEF ds, N
    <3> QED BY <1>1, <2>3, SeqDef
  <2>5. Len(ds) = N
    <3>1. DOMAIN ds = 1..N
      BY <2>1
    <3> HIDE DEF ds, N
    <3> QED BY <1>1, <2>4, <3>1, LenProperties
  <2> QED BY <2>1, <2>4, <2>5
<1> HIDE DEF N, ds
<1>4. Content(ns) = FlattenSeq(ds)
  BY DEF Content, ds
<1>5. CASE N = 0
  <2>1. ns = << >> /\ ds = << >>
    BY <1>1, <1>3, <1>5, EmptySeq DEF N
  <2>2. FlattenSeq(ds) = << >>
    BY <1>3, <1>5, <2>1 DEF FlattenSeq
  <2>3. b - a = 0
    BY <1>1, <2>1
  <2>4. Bytes(a, 0) = << >>
    BY <1>1, NoBytes
  <2> QED BY <1>4, <2>2, <2>3, <2>4
<1>6. CASE N # 0
  <2> DEFINE f == [i \in 1..N |-> Bytes(a, at[i + 1] - a)]
  <2>1. f = [i \in 1..N |-> IF i = 1 THEN ds[i] ELSE f[i - 1] \o ds[i]]
    <3>1. ASSUME NEW i \in 1..N
          PROVE  f[i] = IF i = 1 THEN ds[i] ELSE f[i - 1] \o ds[i]
      <4>1. PICK p \in Nat : p = at[i]
        BY <1>1
      <4>2. PICK q \in Nat : q = at[i + 1]
        BY <1>1
      <4>3. /\ p <= q /\ a <= p
            /\ ds[i] = Bytes(p, q - p) /\ f[i] = Bytes(a, q - a)
        <5>1. p <= q /\ a <= p /\ ds[i] = Bytes(p, q - p)
          BY <1>2, <1>3, <4>1, <4>2
        <5> QED BY <4>2, <5>1
      <4>4. CASE i = 1
        BY <1>2, <4>1, <4>3, <4>4
      <4>5. CASE i # 1
        <5>1. i - 1 \in 1..N /\ (i - 1) + 1 = i
          BY <1>1, <4>5
        <5>2. f[i - 1] = Bytes(a, p - a)
          BY <4>1, <5>1
        <5>3. PICK m \in Nat, l \in Nat : m = p - a /\ l = q - p
          BY <1>1, <4>3
        <5>4. a + m = p /\ m + l = q - a
          BY <1>1, <4>3, <5>3
        <5>5. Bytes(a, m) \o Bytes(a + m, l) = Bytes(a, m + l)
          BY <1>1, BytesJoin, ZenonT(40)
        <5> HIDE DEF f
        <5> QED BY <4>3, <4>5, <5>2, <5>3, <5>4, <5>5
      <4> QED BY <4>4, <4>5
    <3> QED BY <3>1
  <2> DEFINE g == CHOOSE h : h = [i \in 1..N |->
                              IF i = 1 THEN ds[i] ELSE h[i - 1] \o ds[i]]
  <2>2. g = [i \in 1..N |-> IF i = 1 THEN ds[i] ELSE g[i - 1] \o ds[i]]
    <3> HIDE DEF f
    <3> QED BY <2>1
  <2>3. FlattenSeq(ds) = g[N]
    BY <1>3, <1>6 DEF FlattenSeq
  <2> HIDE DEF g
  <2> DEFINE P == {i \in Nat : i + 1 <= N => g[i + 1] = f[i + 1]}
  <2>4. 0 \in P
    <3>1. 0 + 1 = 1 /\ 1 \in 1..N
      BY <1>1, <1>6
    <3>2. g[1] = ds[1]
      <4> HIDE DEF f
      <4> QED BY <2>2, <3>1
    <3>3. f[1] = ds[1]
      <4> HIDE DEF f
      <4> QED BY <2>1, <3>1
    <3> HIDE DEF f
    <3> QED BY <3>1, <3>2, <3>3
  <2> HIDE DEF f
  <2>5. ASSUME NEW i \in Nat, i \in P PROVE i + 1 \in P
    <3> SUFFICES ASSUME (i + 1) + 1 <= N PROVE g[(i + 1) + 1] = f[(i + 1) + 1]
      OBVIOUS
    <3>1. PICK j \in Nat : j = i + 1
      OBVIOUS
    <3>2. j \in 1..N /\ j + 1 \in 1..N /\ j + 1 # 1 /\ (j + 1) - 1 = j
      BY <1>1, <3>1
    <3>3. g[j] = f[j]
      BY <2>5, <3>1, <3>2
    <3>4. g[j + 1] = g[(j + 1) - 1] \o ds[j + 1]
      BY <2>2, <3>2
    <3>5. f[j + 1] = f[(j + 1) - 1] \o ds[j + 1]
      BY <2>1, <3>2
    <3> QED BY <3>1, <3>2, <3>3, <3>4, <3>5
  <2>6. g[N] = f[N]
    <3>1. N - 1 \in Nat
      BY <1>1, <1>6
    <3>2. N - 1 \in P
      <4> HIDE DEF P
      <4> QED BY <2>4, <2>5, <3>1, Induction
    <3>3. (N - 1) + 1 = N /\ (N - 1) + 1 <= N
      BY <1>1
    <3> QED BY <3>2, <3>3
  <2>7. f[N] = Bytes(a, b - a)
    <3>1. N \in 1..N
      BY <1>1, <1>6
    <3> QED BY <1>2, <3>1 DEF f
  <2> QED BY <1>4, <2>3, <2>6, <2>7
<1> QED BY <1>5, <1>6

(* The first nodes alone.                                                  *)
LEMMA PrefixHolds ==
    ASSUME NEW ns, NEW a, NEW b, Holds(ns, a, b), NEW k \in 0..Len(ns)
    PROVE  \E c \in a..b : Holds(SubSeq(ns, 1, k), a, c)
<1> DEFINE N == Len(ns)
           ms == SubSeq(ns, 1, k)
<1>1. ns \in Seq(Node) /\ N \in Nat /\ k \in Nat /\ k <= N
  <2>1. ns \in Seq(Node) /\ N \in Nat
    BY HoldsBounds
  <2> QED BY <2>1
<1>2. PICK at : Places(ns, a, b, at)
  BY DEF Holds
<1>3. /\ at \in [1..(N + 1) -> Nat] /\ at[1] = a /\ at[N + 1] = b
      /\ \A i \in 1..N : ns[i].data = Bytes(at[i], at[i + 1] - at[i])
      /\ \A i, j \in 1..(N + 1) : i <= j => at[i] <= at[j]
  BY <1>2 DEF Places
<1>4. /\ ms \in Seq(Node) /\ Len(ms) = k
      /\ \A i \in 1..k : ms[i] = ns[i]
  BY <1>1
<1> HIDE DEF N, ms
<1> DEFINE to == [i \in 1..(k + 1) |-> at[i]]
<1>5. to \in [1..(k + 1) -> Nat] /\ \A i \in 1..(k + 1) : to[i] = at[i]
  BY <1>1, <1>3
<1> HIDE DEF to
<1>6. ASSUME NEW i \in 1..k
      PROVE  to[i] <= to[i + 1] /\ ms[i].data = Bytes(to[i], to[i + 1] - to[i])
  <2>1. /\ i \in 1..N /\ i \in 1..(N + 1) /\ i + 1 \in 1..(N + 1) /\ i <= i + 1
        /\ i \in 1..(k + 1) /\ i + 1 \in 1..(k + 1)
    BY <1>1
  <2> QED BY <1>3, <1>4, <1>5, <2>1
<1>7. Holds(ms, to[1], to[k + 1])
  BY <1>4, <1>5, <1>6, StepwiseHolds
<1>8. to[1] = a /\ to[k + 1] = at[k + 1] /\ at[k + 1] \in a..b
  <2>1. /\ 1 \in 1..(k + 1) /\ k + 1 \in 1..(k + 1)
        /\ 1 <= k + 1 /\ k + 1 <= N + 1
        /\ 1 \in 1..(N + 1) /\ k + 1 \in 1..(N + 1) /\ N + 1 \in 1..(N + 1)
    BY <1>1
  <2>2. at[1] <= at[k + 1] /\ at[k + 1] <= at[N + 1] /\ at[k + 1] \in Nat
        /\ at[1] \in Nat /\ at[N + 1] \in Nat
    BY <1>3, <2>1
  <2> QED BY <1>3, <1>5, <2>1, <2>2
<1> QED BY <1>7, <1>8 DEF ms

LEMMA GotSizeIsNat ==
    ASSUME NEW a, NEW b, Holds(nodes, a, b), NEW n
    PROVE  GotSize(n) \in Nat
<1> DEFINE Size(i) == Len(Content(SubSeq(nodes, 1, i)))
           upto == {i \in DOMAIN nodes : Size(i) >= n}
<1>1. /\ nodes \in Seq(Node) /\ Len(nodes) \in Nat
      /\ DOMAIN nodes = 1..Len(nodes)
      /\ a \in Nat /\ b \in Nat /\ a <= b
  BY HoldsBounds
<1>2. Len(Content(nodes)) \in Nat
  <2>1. b - a \in Nat
    BY <1>1
  <2> QED BY <1>1, <2>1, ContentHeld, BytesAre
<1>3. ASSUME NEW i \in DOMAIN nodes PROVE Size(i) \in Nat
  <2>1. i \in 0..Len(nodes)
    BY <1>1
  <2>2. PICK c \in a..b : Holds(SubSeq(nodes, 1, i), a, c)
    BY <2>1, PrefixHolds
  <2>3. Content(SubSeq(nodes, 1, i)) = Bytes(a, c - a)
    BY <2>2, ContentHeld
  <2>4. c - a \in Nat
    BY <1>1
  <2> QED BY <1>1, <2>3, <2>4, BytesAre
<1>4. ASSUME upto # {} PROVE Min(upto) \in DOMAIN nodes
  <2>1. upto \subseteq Nat
    BY <1>1
  <2>2. PICK x \in upto : \A y \in upto : x <= y
    <3> HIDE DEF upto
    <3> QED BY <1>4, <2>1, LeastNat
  <2>3. Min(upto) \in upto
    <3> HIDE DEF upto
    <3> QED BY <2>2 DEF Min
  <2> QED BY <2>3
<1>5. GotSize(n) = IF upto = {} THEN Len(Content(nodes)) ELSE Size(Min(upto))
  BY DEF GotSize
<1> HIDE DEF upto, Size
<1> QED BY <1>2, <1>3, <1>4, <1>5

-----------------------------------------------------------------------------
(***************************************************************************)
(* The inductive invariant.                                                *)
(***************************************************************************)
Streams == [phase : {"none", "open", "eof", "closed"}, area : Nat, done : Nat,
            from : Nat, out : Seq(Nat)]

Buffers == [want : Nat, got : Seq(Nat)]

Counted ==
    /\ size \in Nat /\ lo \in Nat /\ hi \in 0..MaxBytes
    /\ merged \in BOOLEAN /\ failed \in BOOLEAN

(* The nodes hold the last bytes that were written, no more than size_     *)
(* says, whether case 1 was taken or not: that it loses some is all that   *)
(* is wrong then.                                                          *)
BytesHeld ==
    \E from \in 0..hi :
        /\ Holds(nodes, from, hi)
        /\ hi - from <= size
        /\ ~merged => from = lo /\ size = hi - lo

Returned ==
    /\ ret \in Buffers
    /\ sbuf.phase # "none" => ret = NoBuffer
    /\ ~merged => /\ ~failed
                  /\ Len(ret.got) >= ret.want
                  /\ ret.got = Bytes(lo, Len(ret.got))

(* What was read but not drained yet is in the front node; at the end      *)
(* there is nothing left.                                                  *)
Streaming ==
    /\ sbuf \in Streams
    /\ sbuf.done <= sbuf.area /\ sbuf.area <= BlockSize
    /\ sbuf.phase = "none" => sbuf = NoStream
    /\ sbuf.phase = "open" =>
         /\ Full(nodes)
         /\ sbuf.area > 0 => /\ nodes # << >>
                             /\ sbuf.area <= Len(nodes[1].data)
    /\ sbuf.phase = "eof" => nodes = << >>
    /\ ~merged =>
         /\ sbuf.out = Bytes(sbuf.from, Len(sbuf.out))
         /\ sbuf.phase = "open" => lo + sbuf.done = sbuf.from + Len(sbuf.out)
         /\ sbuf.phase \in {"eof", "closed"} => lo = sbuf.from + Len(sbuf.out)

ChainInv == Counted /\ BytesHeld /\ Returned /\ Streaming

LEMMA BlockIsNat ==
    BlockSize \in Nat \ {0} /\ MaxAsk \in Nat /\ MaxBytes \in Nat
  BY ChainAssumption DEF ChainAssumption

LEMMA NoStreamIsWell ==
    ASSUME NEW s, s = NoStream
    PROVE  /\ s \in Streams /\ s.done <= s.area /\ s.area <= BlockSize
           /\ s.phase = "none" /\ s.out = Bytes(s.from, Len(s.out))
<1>1. << >> \in Seq(Nat) /\ Len(<< >>) = 0
  BY EmptySeq
<1>2. Bytes(0, 0) = << >>
  BY NoBytes
<1>3. /\ s.phase = "none" /\ s.area = 0 /\ s.done = 0 /\ s.from = 0
      /\ s.out = << >>
  BY DEF NoStream
<1>4. s \in Streams
  BY <1>1 DEF NoStream, Streams
<1> QED BY <1>1, <1>2, <1>3, <1>4, BlockIsNat

LEMMA NoBufferIsWell ==
    ASSUME NEW r, r = NoBuffer, NEW l \in Nat
    PROVE  /\ r \in Buffers /\ Len(r.got) >= r.want
           /\ r.got = Bytes(l, Len(r.got))
<1>1. << >> \in Seq(Nat) /\ Len(<< >>) = 0
  BY EmptySeq
<1>2. Bytes(l, 0) = << >>
  BY NoBytes
<1>3. r.want = 0 /\ r.got = << >> /\ r \in Buffers
  BY <1>1 DEF NoBuffer, Buffers
<1> QED BY <1>1, <1>2, <1>3

LEMMA InitChainInv == NewChain => ChainInv
<1> SUFFICES ASSUME NewChain PROVE ChainInv
  OBVIOUS
<1> USE DEF NewChain
<1>1. Counted
  <2>1. size \in Nat /\ lo \in Nat /\ hi \in 0..MaxBytes
    BY BlockIsNat
  <2>2. merged \in BOOLEAN /\ failed \in BOOLEAN
    BY Zenon
  <2> QED BY <2>1, <2>2 DEF Counted
<1>2. BytesHeld
  <2>1. Holds(nodes, 0, 0)
    BY HoldsNone
  <2>2. 0 \in 0..hi /\ hi - 0 <= size /\ 0 = lo /\ size = hi - lo /\ hi = 0
    OBVIOUS
  <2> HIDE DEF NewChain
  <2> QED BY <2>1, <2>2 DEF BytesHeld
<1>3. Returned
  <2>1. ret = NoBuffer /\ lo \in Nat /\ failed = FALSE
    OBVIOUS
  <2> HIDE DEF NewChain
  <2> QED BY <2>1, NoBufferIsWell DEF Returned
<1>4. Streaming
  <2>1. sbuf = NoStream
    OBVIOUS
  <2> HIDE DEF NewChain
  <2> QED BY <2>1, NoStreamIsWell DEF Streaming
<1> QED BY <1>1, <1>2, <1>3, <1>4 DEF ChainInv

(* A step that is not of the stream, and returns no buffer.                *)
LEMMA AfterOperation ==
    ASSUME sbuf' = NoStream
    PROVE  /\ Streaming'
           /\ ret' = NoBuffer /\ lo' \in Nat /\ (~merged' => ~failed')
              => Returned'
<1>1. Streaming'
  BY NoStreamIsWell DEF Streaming
<1>2. ASSUME ret' = NoBuffer, lo' \in Nat, ~merged' => ~failed'
      PROVE  Returned'
  BY <1>2, NoBufferIsWell DEF Returned
<1> QED BY <1>1, <1>2

LEMMA ReadToHolds ==
    ASSUME NEW ns, NEW a, NEW b, Holds(ns, a, b), NEW r \in Nat
    PROVE  Holds(ReadTo(ns, r), a, b) /\ ReadTo(ns, r) # << >>
<1> DEFINE m == Max({r, BlockSize})
           x == EmptyNode(m)
<1>1. m \in Nat
  BY BlockIsNat, MaxOfTwo
<1>2. x \in Node /\ x.data = << >>
  <2> HIDE DEF m
  <2>1. << >> \in Seq(Nat) /\ 0 + Len(<< >>) <= m
    BY <1>1, EmptySeq
  <2> QED BY <1>1, <2>1, NodeMade DEF EmptyNode
<1>3. b \in Nat /\ ns \in Seq(Node) /\ b - b = 0
  BY HoldsBounds
<1>4. Bytes(b, b - b) = << >>
  BY <1>3, NoBytes
<1>5. \/ ReadTo(ns, r) = ns /\ ns # << >>
      \/ ReadTo(ns, r) = Append(ns, x)
  BY DEF ReadTo
<1> HIDE DEF x, m
<1>6. Holds(Append(ns, x), a, b)
  BY <1>2, <1>3, <1>4, AppendHolds
<1>7. Append(ns, x) # << >>
  <2>1. Len(Append(ns, x)) = Len(ns) + 1 /\ Len(ns) \in Nat
    BY <1>2, <1>3
  <2> QED BY <2>1, EmptySeq, SMTT(20)
<1> QED BY <1>5, <1>6, <1>7

(* The numbers and the nodes after bytes were added.                       *)
LEMMA Added ==
    ASSUME ChainInv, NEW n \in Nat, hi + n <= MaxBytes, hi' = hi + n,
           size' = size + n, lo' = lo, merged' = merged, failed' = failed,
           \A from \in 0..hi :
              Holds(nodes, from, hi) => Holds(nodes', from, hi + n)
    PROVE  Counted' /\ BytesHeld'
<1>1. Counted'
  BY BlockIsNat DEF ChainInv, Counted
<1>2. BytesHeld'
  <2>1. PICK from \in 0..hi : /\ Holds(nodes, from, hi)
                              /\ hi - from <= size
                              /\ ~merged => from = lo /\ size = hi - lo
    BY DEF ChainInv, BytesHeld
  <2>2. hi \in Nat /\ size \in Nat /\ lo \in Nat /\ from \in Nat
    BY BlockIsNat DEF ChainInv, Counted
  <2>3. /\ from \in 0..hi'
        /\ Holds(nodes', from, hi')
        /\ hi' - from <= size'
        /\ ~merged' => from = lo' /\ size' = hi' - lo'
    BY <2>1, <2>2
  <2> QED BY <2>3 DEF BytesHeld
<1> QED BY <1>1, <1>2

LEMMA ReceiveKeeps ==
    ASSUME ChainInv, ~failed, NEW r \in 1..MaxAsk, NEW n \in 0..MaxBytes,
           Receive(r, n), sbuf' = NoStream
    PROVE  ChainInv'
<1>1. r \in Nat /\ n \in Nat /\ hi \in Nat
  BY BlockIsNat DEF ChainInv, Counted
<1>2. ASSUME NEW from \in 0..hi, Holds(nodes, from, hi)
      PROVE  Holds(nodes', from, hi + n)
  <2> DEFINE ns == ReadTo(nodes, r)
  <2>1. Holds(ns, from, hi) /\ ns # << >>
    BY <1>1, <1>2, ReadToHolds
  <2>2. n <= Space(Last(ns)) /\ nodes' = Fill(ns, Bytes(hi, n))
    BY DEF Receive
  <2> HIDE DEF ns
  <2> QED BY <1>1, <2>1, <2>2, FillHolds
<1>3. Counted' /\ BytesHeld'
  <2>1. /\ hi + n <= MaxBytes /\ hi' = hi + n /\ size' = size + n /\ lo' = lo
        /\ merged' = merged /\ failed' = failed
    BY DEF Receive
  <2> QED BY <1>1, <1>2, <2>1, Added
<1>4. Streaming' /\ Returned'
  <2>1. ret' = NoBuffer /\ lo' \in Nat /\ ~failed'
    BY DEF Receive, ChainInv, Counted
  <2> QED BY <2>1, AfterOperation
<1> QED BY <1>3, <1>4 DEF ChainInv

LEMMA EmplaceBackKeeps ==
    ASSUME ChainInv, ~failed, NEW n \in 1..MaxAsk, EmplaceBack(n),
           sbuf' = NoStream
    PROVE  ChainInv'
<1>1. n \in Nat /\ hi \in Nat
  BY BlockIsNat DEF ChainInv, Counted
<1>2. ASSUME NEW from \in 0..hi, Holds(nodes, from, hi)
      PROVE  Holds(nodes', from, hi + n)
  <2> DEFINE x == FullNode(Bytes(hi, n))
  <2>1. x \in Node /\ x.data = Bytes(hi, n)
    <3>1. Bytes(hi, n) \in Seq(Nat) /\ Len(Bytes(hi, n)) = n
      BY <1>1, BytesAre
    <3>2. 0 + Len(Bytes(hi, n)) <= n
      BY <1>1, <3>1
    <3> QED BY <1>1, <3>1, <3>2, NodeMade DEF FullNode
  <2>2. nodes' = Append(nodes, x)
    BY DEF EmplaceBack
  <2>3. hi + n \in Nat /\ hi <= hi + n /\ (hi + n) - hi = n
    BY <1>1
  <2> HIDE DEF x
  <2> QED BY <1>2, <2>1, <2>2, <2>3, AppendHolds
<1>3. Counted' /\ BytesHeld'
  <2>1. /\ hi + n <= MaxBytes /\ hi' = hi + n /\ size' = size + n /\ lo' = lo
        /\ merged' = merged /\ failed' = failed
    BY DEF EmplaceBack
  <2> QED BY <1>1, <1>2, <2>1, Added
<1>4. Streaming' /\ Returned'
  <2>1. ret' = NoBuffer /\ lo' \in Nat /\ ~failed'
    BY DEF EmplaceBack, ChainInv, Counted
  <2> QED BY <2>1, AfterOperation
<1> QED BY <1>3, <1>4 DEF ChainInv

(* What drain leaves of the chain.                                         *)
LEMMA DrainedHeld ==
    ASSUME ChainInv, NEW n \in Nat, NEW full \in BOOLEAN, full => Full(nodes)
    PROVE  \E left \in 0..n :
              /\ Drained(nodes, n).left = left
              /\ n - left <= size
              /\ \E from \in 0..hi :
                   /\ Holds(Drained(nodes, n).ns, from, hi)
                   /\ hi - from <= size - (n - left)
                   /\ ~merged => /\ from = lo + (n - left)
                                 /\ size - (n - left) = hi - from
              /\ full => Full(Drained(nodes, n).ns)
              /\ nodes = << >> => n - left = 0
              /\ n = 0 \/ (nodes # << >> /\ n <= Len(nodes[1].data)) => left = 0
<1>1. hi \in Nat /\ size \in Nat /\ lo \in Nat
  BY BlockIsNat DEF ChainInv, Counted
<1>2. PICK a \in 0..hi : /\ Holds(nodes, a, hi)
                         /\ hi - a <= size
                         /\ ~merged => a = lo /\ size = hi - lo
  BY DEF ChainInv, BytesHeld
<1> DEFINE ms == Drained(nodes, n).ns
           left == Drained(nodes, n).left
<1>3. /\ left \in 0..n /\ Holds(ms, a + (n - left), hi)
      /\ full => Full(ms)
      /\ left = 0 \/ ms = << >>
  BY <1>2, DrainedHolds
<1> HIDE DEF ms, left
<1>4. /\ a + (n - left) <= hi /\ (ms = << >> => a + (n - left) = hi)
  BY <1>3, HoldsBounds
<1>5. a \in Nat /\ left \in Nat /\ left <= n
  BY <1>3
<1> DEFINE from == a + (n - left)
<1>6. from \in 0..hi /\ n - left <= size /\ hi - from <= size - (n - left)
  BY <1>1, <1>2, <1>4, <1>5
<1>7. ~merged => from = lo + (n - left) /\ size - (n - left) = hi - from
  BY <1>1, <1>2, <1>5
<1>8. ASSUME nodes = << >> PROVE n - left = 0
  <2>1. a = hi
    BY <1>2, <1>8, HoldsBounds
  <2> QED BY <1>1, <1>4, <1>5, <2>1
<1>9. ASSUME n = 0 \/ (nodes # << >> /\ n <= Len(nodes[1].data)) PROVE left = 0
  <2>1. CASE n = 0
    BY <1>5, <2>1
  <2>2. CASE nodes # << >> /\ n <= Len(nodes[1].data)
    <3>1. Len(nodes[1].data) <= hi - a /\ Len(nodes[1].data) \in Nat
      <4>1. nodes \in Seq(Node) /\ Len(nodes[1].data) <= hi - a
        BY <1>2, <2>2, HoldsBounds
      <4>2. nodes[1] \in Node
        BY <2>2, <4>1, EmptySeq
      <4> QED BY <4>1, <4>2, NodeParts
    <3>2. n <= hi - a
      BY <1>1, <1>5, <2>2, <3>1
    <3>3. CASE ms = << >>
      BY <1>1, <1>4, <1>5, <3>2, <3>3
    <3> QED BY <1>3, <3>3
  <2> QED BY <1>9, <2>1, <2>2
<1> HIDE DEF from
<1>10. Holds(ms, from, hi)
  BY <1>3 DEF from
<1> QED BY <1>3, <1>6, <1>7, <1>8, <1>9, <1>10 DEF ms, left

LEMMA DrainKeeps ==
    ASSUME ChainInv, NEW n \in Nat, Drain(n)
    PROVE  /\ Counted' /\ BytesHeld'
           /\ ret' = NoBuffer /\ lo' \in Nat /\ merged' = merged
           /\ failed' = failed
<1>1. hi \in Nat /\ size \in Nat /\ lo \in Nat
  BY BlockIsNat DEF ChainInv, Counted
<1> DEFINE ms == Drained(nodes, n).ns
<1>2. PICK left \in 0..n :
         /\ Drained(nodes, n).left = left
         /\ n - left <= size
         /\ \E from \in 0..hi :
               /\ Holds(ms, from, hi)
               /\ hi - from <= size - (n - left)
               /\ ~merged => /\ from = lo + (n - left)
                             /\ size - (n - left) = hi - from
  <2>1. PICK full \in BOOLEAN : ~full
    OBVIOUS
  <2> QED BY <2>1, DrainedHeld
<1>3. /\ nodes' = ms /\ size' = size - (n - left) /\ lo' = lo + n - left
      /\ ret' = NoBuffer /\ hi' = hi /\ merged' = merged /\ failed' = failed
  BY <1>2 DEF Drain
<1>4. left \in Nat /\ left <= n
  BY <1>2
<1>5. size' \in Nat /\ lo' \in Nat /\ lo' = lo + (n - left)
  BY <1>1, <1>2, <1>3, <1>4
<1>6. Counted'
  BY <1>3, <1>5 DEF ChainInv, Counted
<1> HIDE DEF ms
<1>7. BytesHeld'
  <2>0. PICK from \in 0..hi :
           /\ Holds(ms, from, hi)
           /\ hi - from <= size - (n - left)
           /\ ~merged => /\ from = lo + (n - left)
                         /\ size - (n - left) = hi - from
    BY <1>2
  <2>1. /\ from \in 0..hi' /\ Holds(nodes', from, hi')
        /\ hi' - from <= size'
    BY <1>3, <2>0
  <2>2. ~merged' => from = lo' /\ size' = hi' - lo'
    BY <1>3, <1>5, <2>0
  <2> QED BY <2>1, <2>2 DEF BytesHeld
<1> QED BY <1>3, <1>5, <1>6, <1>7

LEMMA ClearKeeps ==
    ASSUME ChainInv, ~failed, Clear, sbuf' = NoStream
    PROVE  ChainInv'
<1>1. /\ nodes' = << >> /\ size' = 0 /\ lo' = hi /\ ret' = NoBuffer /\ hi' = hi
      /\ merged' = merged /\ failed' = failed /\ hi \in Nat
  BY BlockIsNat DEF Clear, ChainInv, Counted
<1>2. Counted'
  BY <1>1 DEF ChainInv, Counted
<1>3. BytesHeld'
  <2>1. Holds(nodes', hi', hi')
    BY <1>1, HoldsNone
  <2>2. hi' \in 0..hi' /\ hi' - hi' <= size' /\ hi' = lo' /\ size' = hi' - lo'
    BY <1>1
  <2> QED BY <2>1, <2>2 DEF BytesHeld
<1>4. Streaming' /\ Returned'
  BY <1>1, AfterOperation
<1> QED BY <1>2, <1>3, <1>4 DEF ChainInv

(* As long as case 1 was not taken there is a front node if size_ says so. *)
LEMMA FrontIsThere == Counted /\ BytesHeld /\ NoFront => merged
<1> SUFFICES ASSUME Counted, BytesHeld, NoFront PROVE merged
  OBVIOUS
<1>1. hi \in Nat /\ size \in Nat /\ lo \in Nat
  BY BlockIsNat DEF Counted
<1>2. PICK a \in 0..hi : /\ Holds(nodes, a, hi)
                         /\ ~merged => a = lo /\ size = hi - lo
  BY DEF BytesHeld
<1>3. nodes = << >> /\ size > 0
  BY DEF NoFront
<1>4. a = hi
  BY <1>2, <1>3, HoldsBounds
<1> QED BY <1>1, <1>2, <1>3, <1>4

LEMMA UseNoFrontKeeps ==
    ASSUME ChainInv, UseNoFront, sbuf' = NoStream,
           sbuf.phase \in {"none", "closed"}
    PROVE  ChainInv'
<1>1. /\ nodes' = nodes /\ size' = size /\ lo' = lo /\ hi' = hi /\ ret' = ret
      /\ merged' = merged /\ failed' = TRUE
  BY DEF UseNoFront
<1>2. merged
  BY FrontIsThere DEF ChainInv, UseNoFront
<1>3. Counted'
  <2>1. failed' \in BOOLEAN /\ merged' \in BOOLEAN
    BY <1>1, Zenon DEF ChainInv, Counted
  <2>2. size' \in Nat /\ lo' \in Nat /\ hi' \in 0..MaxBytes
    BY <1>1 DEF ChainInv, Counted
  <2> QED BY <2>1, <2>2 DEF Counted
<1>4. BytesHeld'
  BY <1>1 DEF ChainInv, BytesHeld
<1>5. Streaming'
  BY AfterOperation
<1>6. Returned'
  <2>1. sbuf'.phase = "none"
    BY NoStreamIsWell
  <2> QED BY <1>1, <1>2, <2>1 DEF ChainInv, Returned
<1> QED BY <1>3, <1>4, <1>5, <1>6 DEF ChainInv

(* What the invariant says of the front node.                              *)
LEMMA FrontNode ==
    ASSUME NEW a, NEW b, Holds(nodes, a, b), nodes # << >>
    PROVE  /\ nodes[1] \in Node /\ Head(nodes) = nodes[1]
           /\ nodes[1].room \in Nat /\ Len(nodes[1].data) \in Nat
           /\ nodes[1].data = Bytes(a, Len(nodes[1].data))
           /\ nodes[1].data \in Seq(Nat)
<1>1. nodes \in Seq(Node) /\ nodes[1].data = Bytes(a, Len(nodes[1].data))
  BY HoldsBounds
<1>2. nodes[1] \in Node /\ Head(nodes) = nodes[1]
  BY <1>1, EmptySeq
<1> QED BY <1>1, <1>2, NodeParts

LEMMA WriteFromKeeps ==
    ASSUME ChainInv, ~failed, NEW n \in Nat, WriteFrom(n), sbuf' = NoStream
    PROVE  ChainInv'
<1>1. /\ nodes' = nodes /\ size' = size /\ lo' = lo /\ hi' = hi
      /\ merged' = merged /\ failed' = failed
  BY DEF WriteFrom
<1>2. Counted' /\ BytesHeld'
  BY <1>1 DEF ChainInv, Counted, BytesHeld
<1>3. Streaming' /\ sbuf'.phase = "none"
  BY AfterOperation, NoStreamIsWell
<1>4. lo \in Nat /\ size \in Nat
  BY DEF ChainInv, Counted
<1>5. CASE ~(size > 0)
  <2>1. ret' = NoBuffer
    BY <1>5 DEF WriteFrom
  <2>2. Returned'
    BY <1>1, <1>4, <2>1, AfterOperation
  <2> QED BY <1>2, <1>3, <2>2 DEF ChainInv
<1>6. CASE size > 0
  <2>1. PICK a \in 0..hi : Holds(nodes, a, hi) /\ (~merged => a = lo)
    BY DEF ChainInv, BytesHeld
  <2>2. nodes # << >>
    BY <1>6 DEF WriteFrom, NoFront
  <2>3. /\ Head(nodes) = nodes[1] /\ Len(nodes[1].data) \in Nat
        /\ nodes[1].data = Bytes(a, Len(nodes[1].data))
    BY <2>1, <2>2, FrontNode
  <2>4. PICK l \in Nat : l = Len(nodes[1].data)
    BY <2>3
  <2>5. PICK most \in Nat : most = IF n = 0 THEN BlockSize ELSE n
    BY BlockIsNat
  <2>6. PICK k \in Nat : k = Min({l, most}) /\ k <= l
    BY MinOfTwo
  <2>7. ret' = [want |-> 0, got |-> SubSeq(Bytes(a, l), 1, k)]
    BY <1>6, <2>3, <2>4, <2>5, <2>6 DEF WriteFrom
  <2>8. SubSeq(Bytes(a, l), 1, k) = Bytes(a, k)
    <3>1. PICK z \in Nat : z = 0
      OBVIOUS
    <3>2. z <= k /\ k \in 0..l /\ a \in Nat
      BY <2>6, <3>1
    <3>3. SubSeq(Bytes(a, l), z + 1, k) = Bytes(a + z, k - z)
      BY <3>2, BytesPart, ZenonT(40)
    <3>4. z + 1 = 1 /\ a + z = a /\ k - z = k
      BY <3>1, <3>2
    <3> QED BY <3>3, <3>4
  <2>9. Bytes(a, k) \in Seq(Nat) /\ Len(Bytes(a, k)) = k
    <3>1. a \in Nat
      OBVIOUS
    <3> QED BY <3>1, BytesAre
  <2>10. ret'.want = 0 /\ ret'.got = Bytes(a, k) /\ ret' \in Buffers
    BY <2>7, <2>8, <2>9 DEF Buffers
  <2>11. Returned'
    BY <1>1, <1>3, <2>1, <2>9, <2>10 DEF Returned
  <2> QED BY <1>2, <1>3, <2>11 DEF ChainInv
<1> QED BY <1>5, <1>6

LEMMA GatherKeeps ==
    ASSUME ChainInv, ~failed, NEW n \in Nat, nodes # << >>, n <= size, Fits(n),
           Gather(n), UNCHANGED <<size, lo, hi>>, sbuf' = NoStream
    PROVE  ChainInv'
<1> DEFINE ns == Gathered(nodes, n)
<1>1. /\ nodes' = ns /\ ret' = [want |-> n, got |-> ns[1].data]
      /\ failed' = (Len(ns[1].data) < n) /\ merged' = merged
      /\ size' = size /\ lo' = lo /\ hi' = hi
  BY DEF Gather
<1>2. PICK a \in 0..hi : /\ Holds(nodes, a, hi)
                         /\ hi - a <= size
                         /\ ~merged => a = lo /\ size = hi - lo
  BY DEF ChainInv, BytesHeld
<1>3. Holds(ns, a, hi) /\ ns # << >> /\ (n <= hi - a => Len(ns[1].data) >= n)
  <2>1. n <= nodes[1].room
    BY <1>2, FrontNode DEF Fits
  <2> QED BY <1>2, <2>1, GatheredHolds
<1> HIDE DEF ns
<1>4. ns[1].data = Bytes(a, Len(ns[1].data)) /\ ns \in Seq(Node)
  BY <1>3, HoldsBounds
<1>5. ns[1] \in Node
  BY <1>3, <1>4, EmptySeq
<1>6. ns[1].data \in Seq(Nat) /\ Len(ns[1].data) \in Nat
  BY <1>5, NodeParts
<1>7. Counted'
  <2>1. (Len(ns[1].data) < n) \in BOOLEAN
    OBVIOUS
  <2>2. failed' \in BOOLEAN /\ merged' \in BOOLEAN
    BY <1>1, <2>1, Zenon DEF ChainInv, Counted
  <2> QED BY <1>1, <2>2 DEF ChainInv, Counted
<1>8. BytesHeld'
  BY <1>1, <1>2, <1>3 DEF BytesHeld
<1>9. Streaming' /\ sbuf'.phase = "none"
  BY AfterOperation, NoStreamIsWell
<1>10. Returned'
  <2>1. ret'.want = n /\ ret'.got = ns[1].data /\ ret' \in Buffers
    BY <1>1, <1>6 DEF Buffers
  <2>2. ~merged' => Len(ns[1].data) >= n /\ a = lo'
    BY <1>1, <1>2, <1>3
  <2>3. Len(ns[1].data) >= n => ~failed'
    <3>1. failed' => Len(ns[1].data) < n
      BY <1>1, Zenon
    <3> QED BY <1>6, <3>1
  <2> QED BY <1>4, <1>9, <2>1, <2>2, <2>3 DEF Returned
<1> QED BY <1>7, <1>8, <1>9, <1>10 DEF ChainInv

LEMMA MergeKeeps ==
    ASSUME ChainInv, ~failed, NEW n \in Nat, Merge(n),
           UNCHANGED <<size, lo, hi>>, sbuf' = NoStream
    PROVE  ChainInv'
<1> DEFINE new == EmptyNode(GotSize(n))
<1>1. /\ nodes' = IF new.room = 0 THEN <<new>> \o nodes ELSE <<new>>
      /\ ret' = [want |-> n, got |-> << >>] /\ merged' = TRUE
      /\ size' = size /\ lo' = lo /\ hi' = hi
      /\ failed' = \/ new.room = 0
                   \/ \E i \in DOMAIN nodes : Len(nodes[i].data) > new.room
  BY DEF Merge
<1>2. PICK a \in 0..hi : Holds(nodes, a, hi) /\ hi - a <= size
  BY DEF ChainInv, BytesHeld
<1>3. hi \in Nat /\ size \in Nat /\ lo \in Nat
  BY BlockIsNat DEF ChainInv, Counted
<1>4. new \in Node /\ new.data = << >>
  <2>1. GotSize(n) \in Nat
    BY <1>2, GotSizeIsNat
  <2>2. << >> \in Seq(Nat) /\ 0 + Len(<< >>) <= GotSize(n)
    BY <2>1, EmptySeq
  <2> QED BY <2>1, <2>2, NodeMade DEF EmptyNode
<1> HIDE DEF new
<1>5. \E from \in 0..hi : Holds(nodes', from, hi) /\ hi - from <= size
  <2>1. CASE new.room # 0
    <3>1. Holds(<<new>>, hi, hi)
      <4>1. Holds(<< >>, hi, hi)
        BY <1>3, HoldsNone
      <4>2. Holds(<<new>> \o << >>, hi, hi)
        BY <1>4, <4>1, PutBeforeHolds
      <4>3. <<new>> \o << >> = <<new>>
        OBVIOUS
      <4> QED BY <4>2, <4>3
    <3>2. hi \in 0..hi /\ hi - hi <= size /\ nodes' = <<new>>
      BY <1>1, <1>3, <2>1
    <3> QED BY <3>1, <3>2
  <2>2. CASE new.room = 0
    <3>1. nodes' = <<new>> \o nodes
      BY <1>1, <2>2
    <3>2. Holds(<<new>> \o nodes, a, hi)
      BY <1>2, <1>4, PutBeforeHolds
    <3> QED BY <1>2, <3>1, <3>2
  <2> QED BY <2>1, <2>2
<1>6. Counted'
  <2>1. failed' \in BOOLEAN /\ merged' \in BOOLEAN
    BY <1>1, Zenon
  <2> QED BY <1>1, <2>1 DEF ChainInv, Counted
<1>7. BytesHeld'
  BY <1>1, <1>5 DEF BytesHeld
<1>8. Streaming' /\ sbuf'.phase = "none"
  BY AfterOperation, NoStreamIsWell
<1>9. Returned'
  <2>1. << >> \in Seq(Nat)
    BY EmptySeq
  <2>2. ret' \in Buffers /\ merged'
    BY <1>1, <2>1 DEF Buffers
  <2> QED BY <1>8, <2>2 DEF Returned
<1> QED BY <1>6, <1>7, <1>8, <1>9 DEF ChainInv

LEMMA PullupFromKeeps ==
    ASSUME ChainInv, ~failed, NEW n \in Nat, PullupFrom(n), sbuf' = NoStream
    PROVE  ChainInv'
<1>1. UNCHANGED <<size, lo, hi>> /\ ~NoFront
  BY DEF PullupFrom
<1>2. CASE size > 0 /\ n <= size
  <2>1. nodes # << >>
    BY <1>1, <1>2 DEF NoFront
  <2>2. CASE Fits(n)
    <3>1. Gather(n)
      BY <1>2, <2>2 DEF PullupFrom
    <3> QED BY <1>1, <1>2, <2>1, <2>2, <3>1, GatherKeeps
  <2>3. CASE ~Fits(n)
    <3>1. Merge(n)
      BY <1>2, <2>3 DEF PullupFrom
    <3> QED BY <1>1, <3>1, MergeKeeps
  <2> QED BY <2>2, <2>3
<1>3. CASE ~(size > 0 /\ n <= size)
  <2>1. /\ ret' = NoBuffer /\ nodes' = nodes /\ merged' = merged
        /\ failed' = failed
    BY <1>3 DEF PullupFrom
  <2>2. Counted' /\ BytesHeld'
    BY <1>1, <2>1 DEF ChainInv, Counted, BytesHeld
  <2>3. lo' \in Nat
    BY <1>1 DEF ChainInv, Counted
  <2>4. Streaming' /\ Returned'
    BY <2>1, <2>3, AfterOperation
  <2> QED BY <2>2, <2>4 DEF ChainInv
<1> QED BY <1>2, <1>3

LEMMA OpenStreamKeeps ==
    ASSUME ChainInv, ~failed, OpenStream
    PROVE  ChainInv'
<1>1. /\ nodes' = nodes /\ size' = size /\ lo' = lo /\ hi' = hi
      /\ merged' = merged /\ failed' = failed /\ ret' = NoBuffer
      /\ lo \in Nat
  BY DEF OpenStream, ChainInv, Counted
<1>2. Counted' /\ BytesHeld'
  BY <1>1 DEF ChainInv, Counted, BytesHeld
<1>3. Returned'
  BY <1>1, NoBufferIsWell DEF Returned
<1>4. << >> \in Seq(Nat) /\ Len(<< >>) = 0 /\ Bytes(lo, 0) = << >>
  BY <1>1, EmptySeq, NoBytes
<1>5. sbuf' = [phase |-> "open", area |-> 0, done |-> 0, from |-> lo,
               out |-> << >>]
  BY DEF OpenStream, NoStream
<1>6. /\ sbuf'.phase = "open" /\ sbuf'.area = 0 /\ sbuf'.done = 0
      /\ sbuf'.from = lo /\ sbuf'.out = << >> /\ sbuf' \in Streams
  BY <1>1, <1>4, <1>5 DEF Streams
<1>7. Full(nodes')
  <2>1. nodes \in Seq(Node)
    BY DEF ChainInv, BytesHeld, Holds
  <2>2. DOMAIN nodes = 1..Len(nodes)
    BY <2>1
  <2> QED BY <1>1, <2>2 DEF Full, OpenStream
<1>8. Streaming'
  <2>1. sbuf'.done <= sbuf'.area /\ sbuf'.area <= BlockSize /\ ~(sbuf'.area > 0)
    BY <1>6, BlockIsNat
  <2>2. sbuf'.out = Bytes(sbuf'.from, Len(sbuf'.out))
    BY <1>4, <1>6
  <2>3. lo' + sbuf'.done = sbuf'.from + Len(sbuf'.out)
    BY <1>1, <1>4, <1>6
  <2> QED BY <1>6, <1>7, <2>1, <2>2, <2>3 DEF Streaming
<1> QED BY <1>2, <1>3, <1>8 DEF ChainInv

LEMMA StreamParts ==
    ASSUME NEW s \in Streams
    PROVE  /\ s.area \in Nat /\ s.done \in Nat /\ s.from \in Nat
           /\ s.out \in Seq(Nat) /\ Len(s.out) \in Nat
  BY DEF Streams

LEMMA StreamReadKeeps ==
    ASSUME ChainInv, ~failed, NEW n \in 1..BlockSize, StreamRead(n)
    PROVE  ChainInv'
<1>1. /\ nodes' = nodes /\ size' = size /\ lo' = lo /\ hi' = hi /\ ret' = ret
      /\ merged' = merged /\ failed' = failed
      /\ lo \in Nat /\ n \in Nat /\ n >= 1
  BY BlockIsNat DEF StreamRead, ChainInv, Counted
<1>2. Counted' /\ BytesHeld'
  BY <1>1 DEF ChainInv, Counted, BytesHeld
<1>3. /\ sbuf \in Streams /\ sbuf.area <= BlockSize
      /\ Full(nodes) /\ sbuf.phase = "open"
      /\ sbuf.area > 0 => nodes # << >> /\ sbuf.area <= Len(nodes[1].data)
      /\ ~merged => /\ sbuf.out = Bytes(sbuf.from, Len(sbuf.out))
                    /\ lo + sbuf.done = sbuf.from + Len(sbuf.out)
  BY DEF ChainInv, Streaming, StreamRead
<1>4. PICK area \in Nat, done \in Nat, from \in Nat, out \in Seq(Nat) :
         /\ area = sbuf.area /\ done = sbuf.done /\ from = sbuf.from
         /\ out = sbuf.out /\ Len(out) \in Nat
  BY <1>3, StreamParts
<1>5. n <= area - done /\ area > 0
  BY <1>1, <1>4 DEF StreamRead
<1>6. PICK a \in 0..hi : Holds(nodes, a, hi) /\ (~merged => a = lo)
  BY DEF ChainInv, BytesHeld
<1>7. a \in Nat
  OBVIOUS
<1>8. PICK l \in Nat : l = Len(nodes[1].data) /\ nodes[1].data = Bytes(a, l)
                       /\ Head(nodes) = nodes[1]
  BY <1>3, <1>4, <1>5, <1>6, FrontNode
<1>9. done + n <= l
  BY <1>1, <1>3, <1>4, <1>5, <1>8
<1>10. SubSeq(Bytes(a, l), done + 1, done + n) = Bytes(a + done, n)
  <2>1. PICK j \in 0..l : j = done + n /\ done <= j
    BY <1>1, <1>4, <1>9
  <2>2. SubSeq(Bytes(a, l), done + 1, j) = Bytes(a + done, j - done)
    BY <1>7, <2>1, BytesPart, ZenonT(40)
  <2>3. j - done = n
    BY <1>1, <1>4, <2>1
  <2> QED BY <2>1, <2>2, <2>3
<1> DEFINE more == Bytes(a + done, n)
<1>11. more \in Seq(Nat) /\ Len(more) = n
  <2>1. a + done \in Nat
    BY <1>7
  <2> QED BY <1>1, <2>1, BytesAre
<1> HIDE DEF more
<1>12. out \o more \in Seq(Nat) /\ Len(out \o more) = Len(out) + n
  BY <1>11, SMTT(20)
<1>13. sbuf' = [sbuf EXCEPT !.done = done + n, !.out = out \o more]
  <2>1. SubSeq(Head(nodes).data, sbuf.done + 1, sbuf.done + n) = more
    BY <1>4, <1>8, <1>10 DEF more
  <2> QED BY <1>3, <1>4, <2>1 DEF StreamRead, Streams
<1>14. /\ sbuf'.phase = "open" /\ sbuf'.area = area /\ sbuf'.done = done + n
       /\ sbuf'.from = from /\ sbuf'.out = out \o more /\ sbuf' \in Streams
  <2> DEFINE o == out \o more
  <2>0. PICK d \in Nat : d = done + n
    BY <1>1
  <2>1. o \in Seq(Nat)
    BY <1>12
  <2> HIDE DEF o
  <2>2. sbuf' = [sbuf EXCEPT !.done = d, !.out = o]
    BY <1>13, <2>0 DEF o
  <2>3. /\ sbuf' \in Streams /\ sbuf'.done = d /\ sbuf'.out = o
        /\ sbuf'.phase = sbuf.phase /\ sbuf'.area = sbuf.area
        /\ sbuf'.from = sbuf.from
    BY <1>3, <2>1, <2>2 DEF Streams
  <2> QED BY <1>3, <1>4, <2>0, <2>3 DEF o
<1>15. ASSUME ~merged
       PROVE  /\ out \o more = Bytes(from, Len(out) + n)
              /\ lo + (done + n) = from + (Len(out) + n)
  <2>0. PICK k \in Nat : k = Len(out)
    BY <1>4
  <2>1. out = Bytes(from, k) /\ lo + done = from + k /\ a = lo
    BY <1>3, <1>4, <1>6, <1>15, <2>0
  <2>2. more = Bytes(from + k, n)
    BY <2>1 DEF more
  <2>3. n \in Nat /\ lo \in Nat
    BY <1>1
  <2>4. Bytes(from, k) \o Bytes(from + k, n) = Bytes(from, k + n)
    BY <2>3, BytesJoin, ZenonT(40)
  <2>5. lo + (done + n) = from + (k + n)
    BY <2>1, <2>3
  <2> QED BY <2>0, <2>1, <2>2, <2>4, <2>5
<1>16. Streaming'
  <2>1. sbuf'.done <= sbuf'.area /\ sbuf'.area <= BlockSize
    BY <1>1, <1>3, <1>4, <1>5, <1>14
  <2>2. /\ Full(nodes')
        /\ nodes' # << >> /\ sbuf'.area <= Len(nodes'[1].data)
    BY <1>1, <1>3, <1>4, <1>5, <1>14
  <2>3. ~merged' =>
          /\ sbuf'.out = Bytes(sbuf'.from, Len(sbuf'.out))
          /\ lo' + sbuf'.done = sbuf'.from + Len(sbuf'.out)
    BY <1>1, <1>12, <1>14, <1>15
  <2> QED BY <1>14, <2>1, <2>2, <2>3 DEF Streaming
<1>17. Returned'
  BY <1>1, <1>3 DEF ChainInv, Returned
<1> QED BY <1>2, <1>16, <1>17 DEF ChainInv

LEMMA UnderflowKeeps ==
    ASSUME ChainInv, ~failed, Underflow
    PROVE  ChainInv'
<1> DEFINE ms == Drained(nodes, sbuf.done).ns
           ga == GetArea(ms)
<1>1. hi \in Nat /\ size \in Nat /\ lo \in Nat
  BY BlockIsNat DEF ChainInv, Counted
<1>2. /\ sbuf \in Streams /\ sbuf.area <= BlockSize /\ sbuf.phase = "open"
      /\ sbuf.done = sbuf.area /\ Full(nodes)
      /\ sbuf.area > 0 => nodes # << >> /\ sbuf.area <= Len(nodes[1].data)
      /\ ~merged => /\ sbuf.out = Bytes(sbuf.from, Len(sbuf.out))
                    /\ lo + sbuf.done = sbuf.from + Len(sbuf.out)
      /\ ret = NoBuffer
  BY DEF ChainInv, Streaming, Returned, Underflow
<1>3. PICK n \in Nat : n = sbuf.done
  BY <1>2, StreamParts
<1>4. PICK left \in 0..n :
         /\ Drained(nodes, n).left = left
         /\ n - left <= size
         /\ \E from \in 0..hi :
               /\ Holds(ms, from, hi)
               /\ hi - from <= size - (n - left)
               /\ ~merged => /\ from = lo + (n - left)
                             /\ size - (n - left) = hi - from
         /\ Full(ms)
         /\ n = 0 \/ (nodes # << >> /\ n <= Len(nodes[1].data)) => left = 0
  <2>1. PICK full \in BOOLEAN : full
    OBVIOUS
  <2> QED BY <1>2, <1>3, <2>1, DrainedHeld
<1>5. left = 0
  <2>1. n = 0 \/ n > 0
    OBVIOUS
  <2> QED BY <1>2, <1>3, <1>4, <2>1
<1>6. /\ nodes' = ms /\ size' = size - n /\ lo' = lo + n
      /\ hi' = hi /\ ret' = NoBuffer /\ merged' = merged
      /\ sbuf' = IF ga > 0 THEN [sbuf EXCEPT !.area = ga, !.done = 0]
                 ELSE [sbuf EXCEPT !.phase = "eof"]
  <2>1. /\ nodes' = ms /\ size' = size - (n - left) /\ lo' = lo + n - left
        /\ hi' = hi /\ ret' = NoBuffer /\ merged' = merged
        /\ sbuf' = IF ga > 0 THEN [sbuf EXCEPT !.area = ga, !.done = 0]
                   ELSE [sbuf EXCEPT !.phase = "eof"]
    BY <1>2, <1>3, <1>4 DEF Underflow
  <2>2. n - left = n /\ lo + n - left = lo + n
    BY <1>1, <1>5
  <2> QED BY <2>1, <2>2
<1>7. failed' = NoFront'
  BY DEF Underflow
<1>8. PICK a \in 0..hi :
         /\ Holds(ms, a, hi) /\ hi - a <= size - n
         /\ ~merged => a = lo + n /\ size - n = hi - a
  <2>1. n - left = n
    BY <1>5
  <2> QED BY <1>4, <2>1
<1>9. Full(ms)
  BY <1>4
<1>10. /\ ga \in Nat /\ ga <= BlockSize
       /\ ga > 0 => ms # << >> /\ ga <= Len(ms[1].data)
       /\ ~(ga > 0) => ms = << >>
  <2> HIDE DEF ms
  <2>1. CASE ms = << >>
    <3>1. ga = 0
      BY <2>1 DEF GetArea
    <3> HIDE DEF ga
    <3> QED BY <2>1, <3>1, BlockIsNat
  <2>2. CASE ms # << >>
    <3>1. ms \in Seq(Node)
      BY <1>8, HoldsBounds
    <3>2. ms[1] \in Node /\ Head(ms) = ms[1] /\ 1 \in 1..Len(ms)
      BY <2>2, <3>1, EmptySeq
    <3>3. PICK l \in Nat : l = Len(ms[1].data) /\ l # 0
      <4>1. ms[1].data # << >> /\ ms[1].data \in Seq(Nat)
        BY <1>9, <3>2, NodeParts DEF Full
      <4>2. Len(ms[1].data) \in Nat \ {0}
        BY <4>1, EmptySeq
      <4> QED BY <4>2
    <3>4. ga = Min({l, BlockSize})
      BY <2>2, <3>2, <3>3 DEF GetArea
    <3> HIDE DEF ga
    <3>5. ga = IF l <= BlockSize THEN l ELSE BlockSize
      BY <3>3, <3>4, BlockIsNat, MinOfTwo
    <3> QED BY <2>2, <3>3, <3>5, BlockIsNat
  <2> QED BY <2>1, <2>2
<1> HIDE DEF ms, ga
<1>11. Counted'
  <2>1. failed' \in BOOLEAN
    <3>1. (size' > 0 /\ nodes' = << >>) \in BOOLEAN
      OBVIOUS
    <3> QED BY <1>7, <3>1, Zenon DEF NoFront
  <2>2. merged' \in BOOLEAN
    BY <1>6 DEF ChainInv, Counted
  <2>3. size' \in Nat /\ lo' \in Nat /\ hi' \in 0..MaxBytes
    <3>1. a \in Nat /\ a <= hi
      BY <1>1
    <3>2. size - n \in Nat
      BY <1>1, <1>8, <3>1
    <3>3. hi' \in 0..MaxBytes
      BY <1>6 DEF ChainInv, Counted
    <3> QED BY <1>1, <1>6, <3>2, <3>3
  <2> QED BY <2>1, <2>2, <2>3 DEF Counted
<1>12. BytesHeld'
  BY <1>6, <1>8 DEF BytesHeld
<1>13. Returned'
  <2>1. lo' \in Nat
    BY <1>11 DEF Counted
  <2>2. ~merged' => ~failed'
    <3>1. failed' => NoFront'
      BY <1>7, Zenon
    <3>2. Counted' /\ BytesHeld' /\ NoFront' => merged'
      BY FrontIsThere, PTL
    <3> QED BY <1>11, <1>12, <3>1, <3>2
  <2> QED BY <1>6, <2>1, <2>2, NoBufferIsWell DEF Returned
<1>14. PICK k \in Nat : k = Len(sbuf.out)
  BY <1>2, StreamParts
<1>15. PICK from \in Nat : from = sbuf.from
  BY <1>2, StreamParts
<1>16. ~merged => lo' = from + k /\ lo' + 0 = from + k
  BY <1>1, <1>2, <1>3, <1>6, <1>14, <1>15
<1>17. Streaming'
  <2>1. CASE ga > 0
    <3>1. /\ sbuf' \in Streams /\ sbuf'.area = ga /\ sbuf'.done = 0
          /\ sbuf'.phase = "open" /\ sbuf'.from = sbuf.from
          /\ sbuf'.out = sbuf.out
      <4>1. PICK z \in Nat : z = 0
        OBVIOUS
      <4>2. sbuf' = [sbuf EXCEPT !.area = ga, !.done = z]
        BY <1>6, <2>1, <4>1
      <4>3. sbuf \in Streams /\ ga \in Nat
        BY <1>2, <1>10
      <4>4. /\ sbuf' \in Streams /\ sbuf'.area = ga /\ sbuf'.done = z
            /\ sbuf'.phase = sbuf.phase /\ sbuf'.from = sbuf.from
            /\ sbuf'.out = sbuf.out
        BY <4>2, <4>3 DEF Streams
      <4> QED BY <1>2, <4>1, <4>4
    <3>2. sbuf'.done <= sbuf'.area /\ sbuf'.area <= BlockSize
      BY <1>10, <3>1
    <3>3. Full(nodes') /\ nodes' # << >> /\ sbuf'.area <= Len(nodes'[1].data)
      BY <1>6, <1>9, <1>10, <2>1, <3>1
    <3>4. ~merged' => /\ sbuf'.out = Bytes(sbuf'.from, Len(sbuf'.out))
                      /\ lo' + sbuf'.done = sbuf'.from + Len(sbuf'.out)
      BY <1>2, <1>6, <1>14, <1>15, <1>16, <3>1
    <3> QED BY <3>1, <3>2, <3>3, <3>4 DEF Streaming
  <2>2. CASE ~(ga > 0)
    <3>1. /\ sbuf' \in Streams /\ sbuf'.area = sbuf.area
          /\ sbuf'.done = sbuf.done
          /\ sbuf'.phase = "eof" /\ sbuf'.from = sbuf.from
          /\ sbuf'.out = sbuf.out
      <4>1. sbuf' = [sbuf EXCEPT !.phase = "eof"]
        BY <1>6, <2>2
      <4> QED BY <1>2, <4>1 DEF Streams
    <3>2. sbuf'.done <= sbuf'.area /\ sbuf'.area <= BlockSize
      BY <1>2, <1>3, <3>1
    <3>3. nodes' = << >>
      BY <1>6, <1>10, <2>2
    <3>4. ~merged' => /\ sbuf'.out = Bytes(sbuf'.from, Len(sbuf'.out))
                      /\ lo' = sbuf'.from + Len(sbuf'.out)
      BY <1>2, <1>6, <1>14, <1>15, <1>16, <3>1
    <3> QED BY <3>1, <3>2, <3>3, <3>4 DEF Streaming
  <2> QED BY <2>1, <2>2
<1> QED BY <1>11, <1>12, <1>13, <1>17 DEF ChainInv

LEMMA CloseStreamKeeps ==
    ASSUME ChainInv, ~failed, CloseStream
    PROVE  ChainInv'
<1>1. hi \in Nat /\ size \in Nat /\ lo \in Nat
  BY BlockIsNat DEF ChainInv, Counted
<1>2. /\ sbuf \in Streams /\ sbuf.done <= sbuf.area /\ sbuf.area <= BlockSize
      /\ sbuf.phase \in {"open", "eof"}
      /\ sbuf.phase = "open" /\ sbuf.area > 0 =>
           nodes # << >> /\ sbuf.area <= Len(nodes[1].data)
      /\ sbuf.phase = "eof" => nodes = << >>
      /\ ~merged =>
           /\ sbuf.out = Bytes(sbuf.from, Len(sbuf.out))
           /\ sbuf.phase = "open" => lo + sbuf.done = sbuf.from + Len(sbuf.out)
           /\ sbuf.phase = "eof" => lo = sbuf.from + Len(sbuf.out)
  BY DEF ChainInv, Streaming, CloseStream
<1>3. PICK n \in Nat : n = sbuf.done
  BY <1>2, StreamParts
<1>4. Drain(n) /\ sbuf' = [sbuf EXCEPT !.phase = "closed"]
  BY <1>3 DEF CloseStream
<1>5. /\ Counted' /\ BytesHeld' /\ ret' = NoBuffer /\ lo' \in Nat
      /\ merged' = merged /\ failed' = failed
  BY <1>4, DrainKeeps
<1>6. Returned'
  BY <1>5, NoBufferIsWell DEF Returned
<1>7. PICK left \in 0..n :
         /\ Drained(nodes, n).left = left
         /\ nodes = << >> => n - left = 0
         /\ n = 0 \/ (nodes # << >> /\ n <= Len(nodes[1].data)) => left = 0
  <2>1. PICK full \in BOOLEAN : ~full
    OBVIOUS
  <2> QED BY <2>1, DrainedHeld
<1>8. lo' = lo + n - left
  BY <1>4, <1>7 DEF Drain
<1>9. PICK k \in Nat : k = Len(sbuf.out)
  BY <1>2, StreamParts
<1>10. PICK from \in Nat : from = sbuf.from
  BY <1>2, StreamParts
<1>11. ASSUME ~merged PROVE lo' = from + k
  <2>1. CASE sbuf.phase = "open"
    <3>1. lo + n = from + k
      BY <1>2, <1>3, <1>9, <1>10, <1>11, <2>1
    <3>2. left = 0
      <4>1. PICK area \in Nat : area = sbuf.area
        BY <1>2, StreamParts
      <4>2. CASE n = 0
        BY <1>7, <4>2
      <4>3. CASE n # 0
        <5>1. area > 0 /\ n <= area
          BY <1>2, <1>3, <4>1, <4>3
        <5>2. nodes # << >> /\ area <= Len(nodes[1].data)
          BY <1>2, <2>1, <4>1, <5>1
        <5>3. Len(nodes[1].data) \in Nat
          <6>1. PICK a \in 0..hi : Holds(nodes, a, hi)
            BY DEF ChainInv, BytesHeld
          <6> QED BY <5>2, <6>1, FrontNode
        <5>4. n <= Len(nodes[1].data)
          BY <4>1, <5>1, <5>2, <5>3
        <5> QED BY <1>7, <5>2, <5>4
      <4> QED BY <4>2, <4>3
    <3> QED BY <1>1, <1>8, <3>1, <3>2
  <2>2. CASE sbuf.phase = "eof"
    <3>1. lo = from + k /\ n - left = 0
      BY <1>2, <1>7, <1>9, <1>10, <1>11, <2>2
    <3> QED BY <1>1, <1>8, <3>1
  <2> QED BY <1>2, <2>1, <2>2
<1>12. Streaming'
  <2>1. /\ sbuf' \in Streams /\ sbuf'.phase = "closed" /\ sbuf'.area = sbuf.area
        /\ sbuf'.done = sbuf.done /\ sbuf'.from = sbuf.from
        /\ sbuf'.out = sbuf.out
    BY <1>2, <1>4 DEF Streams
  <2>2. sbuf'.done <= sbuf'.area /\ sbuf'.area <= BlockSize
    BY <1>2, <2>1
  <2>3. ~merged' => /\ sbuf'.out = Bytes(sbuf'.from, Len(sbuf'.out))
                    /\ lo' = sbuf'.from + Len(sbuf'.out)
    BY <1>2, <1>5, <1>9, <1>10, <1>11, <2>1
  <2> QED BY <2>1, <2>2, <2>3 DEF Streaming
<1> QED BY <1>5, <1>6, <1>12 DEF ChainInv

LEMMA StepChainInv == ChainInv /\ [ChainNext]_chainVars => ChainInv'
<1> SUFFICES ASSUME ChainInv, [ChainNext]_chainVars PROVE ChainInv'
  OBVIOUS
<1>1. CASE UNCHANGED chainVars
  BY <1>1 DEF chainVars, ChainInv, Counted, BytesHeld, Returned, Streaming
<1>2. CASE ChainNext
  <2>1. ~failed
    BY <1>2 DEF ChainNext
  <2>2. ASSUME Operation, sbuf' = NoStream, sbuf.phase \in {"none", "closed"}
        PROVE  ChainInv'
    <3>1. ASSUME NEW r \in 1..MaxAsk, NEW n \in 0..MaxBytes, Receive(r, n)
          PROVE  ChainInv'
      BY <2>1, <2>2, <3>1, ReceiveKeeps
    <3>2. ASSUME NEW n \in 1..MaxAsk, EmplaceBack(n) PROVE ChainInv'
      BY <2>1, <2>2, <3>2, EmplaceBackKeeps
    <3>3. ASSUME NEW n \in 0..MaxBytes, Drain(n) PROVE ChainInv'
      <4>1. /\ Counted' /\ BytesHeld' /\ ret' = NoBuffer /\ lo' \in Nat
            /\ failed' = failed
        BY <3>3, BlockIsNat, DrainKeeps
      <4>2. Streaming' /\ Returned'
        BY <2>1, <2>2, <4>1, AfterOperation
      <4> QED BY <4>1, <4>2 DEF ChainInv
    <3>4. ASSUME NEW n \in 0..MaxBytes, PullupFrom(n) PROVE ChainInv'
      <4>1. n \in Nat
        BY BlockIsNat
      <4> QED BY <2>1, <2>2, <3>4, <4>1, PullupFromKeeps
    <3>5. ASSUME NEW n \in 0..MaxBytes, WriteFrom(n) PROVE ChainInv'
      <4>1. n \in Nat
        BY BlockIsNat
      <4> QED BY <2>1, <2>2, <3>5, <4>1, WriteFromKeeps
    <3>6. CASE UseNoFront
      BY <2>2, <3>6, UseNoFrontKeeps
    <3>7. CASE Clear
      BY <2>1, <2>2, <3>7, ClearKeeps
    <3> QED
      BY <2>2, <3>1, <3>2, <3>3, <3>4, <3>5, <3>6, <3>7 DEF Operation
  <2>3. CASE Stream
    <3>1. CASE OpenStream
      BY <2>1, <3>1, OpenStreamKeeps
    <3>2. CASE Underflow
      BY <2>1, <3>2, UnderflowKeeps
    <3>3. ASSUME NEW n \in 1..BlockSize, StreamRead(n) PROVE ChainInv'
      BY <2>1, <3>3, StreamReadKeeps
    <3>4. CASE CloseStream
      BY <2>1, <3>4, CloseStreamKeeps
    <3> QED BY <2>3, <3>1, <3>2, <3>3, <3>4 DEF Stream
  <2> QED BY <1>2, <2>2, <2>3 DEF ChainNext
<1> QED BY <1>1, <1>2

LEMMA AlwaysChainInv == ChainSpec => []ChainInv
<1> QED BY InitChainInv, StepChainInv, PTL DEF ChainSpec

LEMMA InvChainTypeOK == ChainInv => ChainTypeOK
<1> SUFFICES ASSUME ChainInv PROVE ChainTypeOK
  OBVIOUS
<1>1. /\ size \in Nat /\ lo \in Nat /\ hi \in 0..MaxBytes
      /\ merged \in BOOLEAN /\ failed \in BOOLEAN /\ hi \in Nat
  BY BlockIsNat DEF ChainInv, Counted
<1>2. /\ sbuf.phase \in {"none", "open", "eof", "closed"}
      /\ sbuf.done <= sbuf.area /\ sbuf.area <= BlockSize
  BY DEF ChainInv, Streaming, Streams
<1>3. ASSUME NEW i \in DOMAIN nodes
      PROVE  /\ nodes[i].data \in Seq(1..MaxBytes)
             /\ nodes[i].begin + Len(nodes[i].data) <= nodes[i].room
  <2>1. PICK a \in 0..hi : Holds(nodes, a, hi)
    BY DEF ChainInv, BytesHeld
  <2>2. nodes \in Seq(Node) /\ i \in 1..Len(nodes)
    BY <2>1, HoldsBounds
  <2>3. nodes[i].data \in Seq((a + 1)..hi)
    BY <2>1, <2>2, HoldsBounds
  <2>4. (a + 1)..hi \subseteq 1..MaxBytes
    <3>1. a \in Nat /\ hi <= MaxBytes
      BY <1>1
    <3> QED BY <1>1, <3>1, BlockIsNat
  <2>5. nodes[i].data \in Seq(1..MaxBytes)
    BY <2>3, <2>4, SeqMonotonic
  <2>6. nodes[i] \in Node
    BY <2>2
  <2> QED BY <2>5, <2>6, NodeParts
<1> QED BY <1>1, <1>2, <1>3 DEF ChainTypeOK

(* Every node holds bytes that were written, within the room of its        *)
(* vector, and the stream never reads beyond its get area.                 *)
THEOREM ChainTypeCorrect == ChainSpec => []ChainTypeOK
<1> QED BY AlwaysChainInv, InvChainTypeOK, PTL

LEMMA InvContentKept == ChainInv => ContentKept
<1> SUFFICES ASSUME ChainInv, ~merged
             PROVE  Content(nodes) = Bytes(lo, hi - lo) /\ size = hi - lo
  BY DEF ContentKept
<1>1. Holds(nodes, lo, hi) /\ size = hi - lo
  BY DEF ChainInv, BytesHeld
<1> QED BY <1>1, ContentHeld

(* Until pullupFrom has to merge, the nodes together hold exactly the      *)
(* bytes that were written and not drained, in order, and size_ is their   *)
(* number: whatever the sizes of the blocks, of the writes and of what is  *)
(* drained or pulled up.                                                   *)
THEOREM ContentAlwaysKept == ChainSpec => []ContentKept
<1> QED BY AlwaysChainInv, InvContentKept, PTL

LEMMA InvPulledUp == ChainInv => PulledUp
  BY DEF ChainInv, Returned, PulledUp

(* Until pullupFrom has to merge, a caller that pulls up bytes that are    *)
(* there gets at least those, from the front of the chain, and no loop     *)
(* looks for a node that is not there.                                     *)
THEOREM AlwaysPulledUp == ChainSpec => []PulledUp
<1> QED BY AlwaysChainInv, InvPulledUp, PTL

LEMMA InvStreamInOrder == ChainInv => StreamInOrder
  BY DEF ChainInv, Streaming, StreamInOrder

(* Until pullupFrom has to merge, a parser reads the bytes of the chain in *)
(* order through the stream, and what it has read is gone from the chain   *)
(* when the stream is destroyed.                                           *)
THEOREM StreamAlwaysInOrder == ChainSpec => []StreamInOrder
<1> QED BY AlwaysChainInv, InvStreamInOrder, PTL

-----------------------------------------------------------------------------
(***************************************************************************)
(* Framing.                                                                *)
(***************************************************************************)
LastStart(w) == w.start[Len(w.size) + 1]

(* What makes the invariants inductive: a loop that goes on in onRead has  *)
(* settled the message before, only producers run over, and nothing comes  *)
(* from behind the end of the wire.                                        *)
FInv ==
    /\ TypeOK
    /\ InStep
    /\ HandledInOrder
    /\ NothingLeftBehind
    /\ pc = "again" => lpmSize = 0
    /\ kind = "cons" => ~overrun
    /\ received <= LastStart(wire)

(* Where the messages of a wire begin.                                     *)
LEMMA WireFacts ==
    ASSUME NEW w \in Wires
    PROVE  /\ Len(w.size) \in Nat
           /\ \A k \in Messages(w) : w.size[k] \in Nat /\ w.parses[k] \in BOOLEAN
           /\ \A k \in 1..(Len(w.size) + 1) : w.start[k] \in Nat
           /\ w.start[1] = 0
           /\ \A k \in Messages(w) :
                w.start[k + 1] = w.start[k] + Prefix + w.size[k]
           /\ \A j, k \in 1..(Len(w.size) + 1) : j < k => w.start[j] < w.start[k]
<1>1. WellFormed(w)
  BY FramingAssumption
<1>2. w.size \in Seq(Nat) /\ w.parses \in [Messages(w) -> BOOLEAN]
  BY <1>1 DEF WellFormed
<1>3. Len(w.size) \in Nat /\ \A k \in Messages(w) : w.size[k] \in Nat
  BY <1>2 DEF Messages
<1>4. \A k \in Messages(w) : w.parses[k] \in BOOLEAN
  BY <1>2
<1>5. \A k \in 1..(Len(w.size) + 1) : w.start[k] \in Nat
  BY <1>1 DEF WellFormed
<1>6. QED
  BY <1>1, <1>3, <1>4, <1>5 DEF WellFormed

(* readData begins where lpm_ begins: there is nothing left to be dropped. *)
LEMMA NothingToDrop ==
    ASSUME FInv
    PROVE  From = drained /\ Held = lpmSize
BY DEF FInv, TypeOK, From, Held, DropsLast

(* The lengths readData can announce are lengths.                          *)
LEMMA AnnouncedType ==
    ASSUME FInv, NEW len \in Announced
    PROVE  len \in Nat
<1>1. From = drained /\ Held = lpmSize
  BY NothingToDrop
<1>2. CASE lpmSize # 0
  BY <1>1, <1>2 DEF Announced, FInv, TypeOK
<1>3. CASE lpmSize = 0
  <2>1. len \in DecodedAt(drained)
    BY <1>1, <1>3 DEF Announced
  <2>2. \A k \in Messages(wire) : wire.size[k] \in Nat
    BY WireFacts DEF FInv, TypeOK
  <2>3. QED
    BY <2>1, <2>2, FramingAssumption DEF DecodedAt
<1>4. QED
  BY <1>2, <1>3

(* The body readData looks for lies within lpm_.                           *)
LEMMA BodyBuffered ==
    ASSUME FInv, HasPrefix
    PROVE  Body \in Nat /\ drained <= Body /\ Body <= received
<1>1. From = drained /\ Held = lpmSize
  BY NothingToDrop
<1>2. QED
  BY <1>1, FramingAssumption DEF HasPrefix, Body, FInv, TypeOK

(* A chain that is in step yields the message at its front.                *)
LEMMA FrontAnnounced ==
    ASSUME FInv, HasPrefix, ~overrun, NEW len \in Announced
    PROVE  /\ front \in Messages(wire)
           /\ len = wire.size[front]
           /\ Body = wire.start[front] + Prefix
           /\ Exactly(len) = {front}
           /\ Body + len = wire.start[front + 1]
<1> USE DEF Messages
<1>1. From = drained /\ Held = lpmSize
  BY NothingToDrop
<1>2. wire \in Wires /\ InStep /\ received <= LastStart(wire)
  BY DEF FInv, TypeOK
<1>3. /\ front \in Messages(wire)
      /\ len = wire.size[front]
      /\ Body = wire.start[front] + Prefix
  <2>1. CASE lpmSize # 0
    BY <1>1, <1>2, <2>1 DEF InStep, Announced, Body
  <2>2. CASE lpmSize = 0
    <3>1. drained = wire.start[front] /\ front \in 1..(Len(wire.size) + 1)
      BY <1>2, <2>2, WireFacts DEF InStep
    <3>2. received - drained >= Prefix
      BY <1>1, <2>2 DEF HasPrefix
    <3>3. front # Len(wire.size) + 1
      BY <1>2, <3>1, <3>2, WireFacts, FramingAssumption DEF LastStart, FInv, TypeOK
    <3>4. front \in Messages(wire)
      BY <1>2, <3>1, <3>3, WireFacts
    <3>5. \A k \in Messages(wire) : wire.start[k] = drained <=> k = front
      BY <1>2, <3>1, <3>4, WireFacts
    <3>6. DecodedAt(drained) = {wire.size[front]}
      BY <3>4, <3>5 DEF DecodedAt
    <3>7. QED
      BY <1>1, <2>2, <3>1, <3>4, <3>6 DEF Announced, Body
  <2>3. QED
    BY <2>1, <2>2
<1>4. \A k \in Messages(wire) :
        wire.start[k] + Prefix = wire.start[front] + Prefix <=> k = front
  <2> SUFFICES ASSUME NEW k \in Messages(wire), k # front
               PROVE  wire.start[k] + Prefix # wire.start[front] + Prefix
    OBVIOUS
  <2>1. Len(wire.size) \in Nat /\ k \in Int /\ front \in Int
    BY <1>2, <1>3, WireFacts
  <2>2. k < front \/ front < k
    BY <2>1
  <2>3. wire.start[k] < wire.start[front] \/ wire.start[front] < wire.start[k]
    <3>1. k \in 1..(Len(wire.size) + 1) /\ front \in 1..(Len(wire.size) + 1)
      BY <1>3, <2>1
    <3>2. QED
      BY <1>2, <2>2, <3>1, WireFacts
  <2>4. wire.start[k] \in Nat /\ wire.start[front] \in Nat
    BY <1>2, <1>3, <2>1, WireFacts
  <2>5. QED
    BY <2>3, <2>4, FramingAssumption
<1>5. Exactly(len) = {front}
  BY <1>3, <1>4 DEF Exactly
<1>6. QED
  BY <1>2, <1>3, <1>5, WireFacts, FramingAssumption

(* Handing over the message at the front keeps the requests in order.      *)
LEMMA HandleFront ==
    ASSUME FInv, HasPrefix, ~overrun, NEW len \in Announced,
           Good(front), Handle(len), UNCHANGED wire,
           front' = front + 1
    PROVE  /\ \A i, j \in DOMAIN handled' : i < j => handled'[i] < handled'[j]
           /\ {handled'[i] : i \in DOMAIN handled'}
                = {k \in Messages(wire) : k < front + 1 /\ Good(k)}
<1>1. front \in Messages(wire) /\ Exactly(len) = {front}
  BY FrontAnnounced
<1>2. handled' = Append(handled, front)
  BY <1>1 DEF Handle
<1>3. handled \in Seq(Nat) /\ front \in Nat /\ wire \in Wires
  BY DEF FInv, TypeOK
<1>4. /\ \A i, j \in DOMAIN handled : i < j => handled[i] < handled[j]
      /\ {handled[i] : i \in DOMAIN handled}
           = {k \in Messages(wire) : k < front /\ Good(k)}
  BY DEF FInv, HandledInOrder
<1>5. /\ DOMAIN handled = 1..Len(handled) /\ Len(handled) \in Nat
      /\ DOMAIN handled' = 1..(Len(handled) + 1)
      /\ \A i \in DOMAIN handled : handled'[i] = handled[i]
      /\ handled'[Len(handled) + 1] = front
  BY <1>2, <1>3
<1>6. \A i \in DOMAIN handled : handled[i] < front
  BY <1>4
<1>7. \A i, j \in DOMAIN handled' : i < j => handled'[i] < handled'[j]
  BY <1>4, <1>5, <1>6
<1>8. {handled'[i] : i \in DOMAIN handled'}
        = {handled[i] : i \in DOMAIN handled} \cup {front}
  BY <1>5
<1>9. {k \in Messages(wire) : k < front + 1 /\ Good(k)}
        = {k \in Messages(wire) : k < front /\ Good(k)} \cup {front}
  BY <1>1, <1>3, WireFacts DEF Messages
<1>10. QED
  BY <1>4, <1>7, <1>8, <1>9

(* Passing over a message that is not good keeps them in order as well.    *)
LEMMA SkipFront ==
    ASSUME FInv, HasPrefix, ~overrun, NEW len \in Announced, ~Good(front)
    PROVE  {k \in Messages(wire) : k < front + 1 /\ Good(k)}
             = {k \in Messages(wire) : k < front /\ Good(k)}
<1>1. front \in Messages(wire) /\ wire \in Wires /\ front \in Nat
  BY FrontAnnounced DEF FInv, TypeOK
<1>2. QED
  BY <1>1, WireFacts DEF Messages

(* A new stream satisfies the invariant.                                   *)
THEOREM FInitInv == Init => FInv
<1> SUFFICES ASSUME Init PROVE FInv
  OBVIOUS
<1>1. wire \in Wires /\ Len(wire.size) \in Nat /\ wire.start[1] = 0
  BY WireFacts DEF Init
<1>2. TypeOK
  <2>1. handled \in Seq(Nat)
    BY DEF Init
  <2>2. overrun \in BOOLEAN
    BY DEF Init
  <2>3. kind \in {"cons", "prod"} /\ pc \in {"idle", "first", "again"}
    BY DEF Init
  <2>4. QED
    BY <2>1, <2>2, <2>3 DEF Init, TypeOK
<1>3. InStep
  BY <1>1 DEF Init, InStep
<1>4. HandledInOrder
  <2>1. DOMAIN handled = {}
    BY DEF Init
  <2>2. {k \in Messages(wire) : k < front /\ Good(k)} = {}
    BY <1>1 DEF Init, Messages
  <2>3. QED
    BY <2>1, <2>2 DEF HandledInOrder
<1>5. NothingLeftBehind
  <2>1. SUFFICES ASSUME front \in Messages(wire), received >= wire.start[front + 1]
                 PROVE  FALSE
    BY DEF NothingLeftBehind
  <2>2. 1 \in Messages(wire) /\ received = 0 /\ received >= wire.start[2]
    BY <2>1 DEF Init
  <2>3. wire.start[2] = wire.start[1] + Prefix + wire.size[1] /\ wire.size[1] \in Nat
    BY <1>1, <2>2, WireFacts
  <2>4. QED
    BY <1>1, <2>2, <2>3, FramingAssumption
<1>6. received <= LastStart(wire)
  BY <1>1, WireFacts DEF Init, LastStart
<1>7. QED
  BY <1>2, <1>3, <1>4, <1>5, <1>6 DEF FInv, Init
(***************************************************************************)
(* Steps.  Each action is one lemma.                                       *)
(***************************************************************************)
(* onRead: bytes are added behind what lpm_ holds.                         *)
LEMMA OnReadInv ==
    ASSUME FInv, NEW n \in 1..LastStart(wire), OnRead(n)
    PROVE  FInv'
<1> USE DEF OnRead
<1>1. wire \in Wires /\ LastStart(wire) \in Nat /\ n \in Nat
  BY WireFacts DEF FInv, TypeOK, LastStart
<1>2. TypeOK'
  BY <1>1 DEF FInv, TypeOK
<1>3. InStep'
  BY DEF FInv, InStep
<1>4. HandledInOrder'
  BY DEF FInv, HandledInOrder, Messages, Good
<1>5. NothingLeftBehind'
  BY DEF NothingLeftBehind
<1>6. QED
  BY <1>2, <1>3, <1>4, <1>5 DEF FInv, LastStart

(* Case 1: nothing is taken but the prefix is not complete.                *)
LEMMA NoPrefixInv == ASSUME FInv, NoPrefix PROVE FInv'
<1> USE DEF NoPrefix, Leave
<1>1. From = drained /\ Held = lpmSize
  BY NothingToDrop
<1>2. lpmSize = 0 /\ received - drained < Prefix
  BY <1>1, FramingAssumption DEF HasPrefix, FInv, TypeOK
<1>3. TypeOK'
  BY <1>1 DEF FInv, TypeOK
<1>4. InStep'
  BY <1>1, <1>2 DEF FInv, InStep
<1>5. HandledInOrder'
  BY DEF FInv, HandledInOrder, Messages, Good
<1>6. NothingLeftBehind'
  <2>1. SUFFICES ASSUME ~overrun, front \in Messages(wire),
                        received >= wire.start[front + 1]
                 PROVE  FALSE
    BY DEF NothingLeftBehind, Messages
  <2>2. wire \in Wires /\ drained = wire.start[front]
    BY <1>2, <2>1 DEF FInv, TypeOK, InStep
  <2>3. /\ wire.start[front + 1] = wire.start[front] + Prefix + wire.size[front]
        /\ wire.size[front] \in Nat
    BY <2>1, <2>2, WireFacts
  <2>4. received >= drained + Prefix + wire.size[front]
    BY <2>1, <2>2, <2>3
  <2>5. drained \in Nat /\ received \in Nat
    BY DEF FInv, TypeOK
  <2>6. QED
    BY <1>2, <2>3, <2>4, <2>5, FramingAssumption
<1>7. QED
  BY <1>3, <1>4, <1>5, <1>6 DEF FInv, LastStart

(* Case 2: behind the prefix, lpm_size_ is what it announced.              *)
LEMMA IncompleteInv ==
    ASSUME FInv, HasPrefix, NEW len \in Announced, Incomplete(len)
    PROVE  FInv'
<1> USE DEF Incomplete, Leave
<1>1. Body \in Nat /\ drained <= Body /\ Body <= received /\ len \in Nat
  BY BodyBuffered, AnnouncedType
<1>2. received \in Nat /\ received - Body < len
  BY <1>1 DEF Complete, FInv, TypeOK
<1>3. TypeOK'
  BY <1>1 DEF FInv, TypeOK
<1>4. InStep'
  <2>1. SUFFICES ASSUME ~overrun PROVE InStep'
    BY DEF InStep
  <2>2. front \in Messages(wire) /\ len = wire.size[front]
        /\ Body = wire.start[front] + Prefix
    BY <2>1, FrontAnnounced
  <2>3. len # 0
    BY <1>1, <1>2
  <2>4. front \in 1..(Len(wire.size) + 1)
    BY <2>1 DEF FInv, InStep
  <2>5. QED
    BY <2>2, <2>3, <2>4 DEF InStep, Messages
<1>5. HandledInOrder'
  BY DEF FInv, HandledInOrder, Messages, Good
<1>6. NothingLeftBehind'
  <2>1. SUFFICES ASSUME ~overrun, received >= wire.start[front + 1]
                 PROVE  FALSE
    BY DEF NothingLeftBehind, Messages
  <2>2. Body + len = wire.start[front + 1]
    BY <2>1, FrontAnnounced
  <2>3. QED
    BY <1>1, <1>2, <2>1, <2>2
<1>7. QED
  BY <1>3, <1>4, <1>5, <1>6 DEF FInv, LastStart

(* A message that was taken whole leaves lpm_ in step with the next one.   *)
LEMMA AfterMessage ==
    ASSUME FInv, HasPrefix, ~overrun, NEW len \in Announced, Complete(len),
           UNCHANGED wire, lpmSize' = 0, front' = front + 1,
           drained' = Body + len
    PROVE  InStep'
<1>1. front \in Messages(wire) /\ Body + len = wire.start[front + 1]
  BY FrontAnnounced
<1>2. Len(wire.size) \in Nat
  BY WireFacts DEF FInv, TypeOK
<1>3. front + 1 \in 1..(Len(wire.size) + 1)
  BY <1>1, <1>2 DEF Messages
<1>4. QED
  BY <1>1, <1>3 DEF InStep

(* A message without bytes is passed over.                                 *)
LEMMA EmptyMessageInv ==
    ASSUME FInv, HasPrefix, NEW len \in Announced, EmptyMessage(len)
    PROVE  FInv'
<1> USE DEF EmptyMessage, Leave
<1>1. Body \in Nat /\ drained <= Body /\ Body <= received /\ len = 0
  BY BodyBuffered
<1>2. TypeOK'
  BY <1>1 DEF FInv, TypeOK
<1>3. ~overrun => ~Good(front) /\ front \in Messages(wire)
  BY <1>1, FrontAnnounced DEF Good
<1>4. InStep'
  <2>1. CASE overrun
    BY <2>1 DEF InStep
  <2>2. CASE ~overrun
    BY <1>1, <2>2, AfterMessage
  <2>3. QED
    BY <2>1, <2>2 DEF FInv, TypeOK
<1>5. HandledInOrder'
  <2>1. SUFFICES ASSUME ~overrun PROVE HandledInOrder'
    BY DEF HandledInOrder
  <2>2. {k \in Messages(wire) : k < front + 1 /\ Good(k)}
          = {k \in Messages(wire) : k < front /\ Good(k)}
    BY <1>3, <2>1, SkipFront
  <2>3. QED
    BY <2>1, <2>2 DEF FInv, HandledInOrder, Messages, Good
<1>6. NothingLeftBehind'
  <2>1. CASE overrun
    BY <2>1 DEF NothingLeftBehind
  <2>2. CASE ~overrun
    <3>1. front \in Nat /\ front >= 1
      BY <1>3, <2>2 DEF Messages, FInv, TypeOK
    <3>2. front' - 1 = front /\ front' > 1
      BY <3>1
    <3>3. ~(wire'.size[front' - 1] > 0 /\ wire'.parses[front' - 1])
      BY <1>3, <2>2, <3>2 DEF Good
    <3>4. QED
      BY <3>2, <3>3 DEF NothingLeftBehind, Good
  <2>3. QED
    BY <2>1, <2>2 DEF FInv, TypeOK
<1>7. QED
  BY <1>2, <1>4, <1>5, <1>6 DEF FInv, LastStart

(* A consumer's stream takes the message at its front.                     *)
LEMMA ConsumerTakesInv ==
    ASSUME FInv, HasPrefix, NEW len \in Announced, ConsumerTakes(len)
    PROVE  FInv'
<1> USE DEF ConsumerTakes
<1>1. Body \in Nat /\ len \in Nat /\ received \in Nat /\ Body + len <= received
  BY BodyBuffered, AnnouncedType DEF Complete, FInv, TypeOK
<1>2. kind = "cons" /\ ~overrun
  BY DEF FInv
<1>3. /\ front \in Messages(wire)
      /\ len = wire.size[front]
      /\ Exactly(len) = {front}
  BY <1>2, FrontAnnounced
<1>4. ParsesAs(len) = {wire.parses[front]}
  BY <1>3 DEF ParsesAs
<1>5. wire.parses[front] \in BOOLEAN /\ front \in Nat /\ handled \in Seq(Nat)
  BY <1>3, WireFacts DEF FInv, TypeOK
<1>6. PICK ok \in ParsesAs(len) :
        IF ok THEN Handle(len) /\ pc' = "again"
              ELSE pc' = "idle" /\ UNCHANGED handled
  OBVIOUS
<1>7. ok = wire.parses[front] /\ (ok <=> Good(front))
  BY <1>1, <1>3, <1>4, <1>6 DEF Good
<1>8. handled' \in Seq(Nat)
  BY <1>3, <1>5, <1>6, <1>7 DEF Handle
<1>9. TypeOK'
  BY <1>1, <1>5, <1>6, <1>8 DEF FInv, TypeOK
<1>10. InStep'
  BY <1>2, AfterMessage
<1>11. HandledInOrder'
  <2>1. CASE Good(front)
    <3>1. Handle(len)
      BY <1>6, <1>7, <2>1
    <3>2. QED
      BY <1>2, <2>1, <3>1, HandleFront DEF HandledInOrder, Messages, Good
  <2>2. CASE ~Good(front)
    <3>1. UNCHANGED handled
      BY <1>5, <1>6, <1>7, <2>2
    <3>2. {k \in Messages(wire) : k < front + 1 /\ Good(k)}
            = {k \in Messages(wire) : k < front /\ Good(k)}
      BY <1>2, <2>2, SkipFront
    <3>3. QED
      BY <1>2, <3>1, <3>2 DEF FInv, HandledInOrder, Messages, Good
  <2>3. QED
    BY <2>1, <2>2
<1>12. NothingLeftBehind'
  <2>1. CASE Good(front)
    BY <1>6, <1>7, <2>1 DEF NothingLeftBehind
  <2>2. CASE ~Good(front)
    <3>1. front' - 1 = front /\ front' > 1
      BY <1>3, <1>5 DEF Messages
    <3>2. ~(wire'.size[front' - 1] > 0 /\ wire'.parses[front' - 1])
      BY <2>2, <3>1 DEF Good
    <3>3. QED
      BY <3>1, <3>2 DEF NothingLeftBehind, Good
  <2>3. QED
    BY <2>1, <2>2
<1>13. QED
  BY <1>2, <1>9, <1>10, <1>11, <1>12 DEF FInv, LastStart

(* A producer's stream takes all, which is the message or an overrun.      *)
LEMMA ProducerTakesInv ==
    ASSUME FInv, HasPrefix, NEW len \in Announced, ProducerTakes(len)
    PROVE  FInv'
<1> USE DEF ProducerTakes
<1>1. Body \in Nat /\ len \in Nat /\ received \in Nat /\ Body + len <= received
  BY BodyBuffered, AnnouncedType DEF Complete, FInv, TypeOK
<1>2. handled' \in Seq(Nat) /\ pc' \in {"idle", "again"}
  <2>1. \A k \in Exactly(len) : k \in Nat
    BY WireFacts DEF Exactly, Messages, FInv, TypeOK
  <2>2. handled \in Seq(Nat)
    BY DEF FInv, TypeOK
  <2>3. QED
    BY <2>1, <2>2, SMTT(20) DEF Handle
<1>3. TypeOK'
  BY <1>1, <1>2 DEF FInv, TypeOK
<1>4. kind' # "cons"
  OBVIOUS
<1>5. CASE overrun'
  BY <1>3, <1>4, <1>5 DEF FInv, InStep, HandledInOrder, NothingLeftBehind, LastStart
<1>6. CASE ~overrun'
  <2>1. ~overrun /\ received = Body + len
    <3>1. ~overrun /\ ~(received > Body + len)
      BY <1>6
    <3>2. QED
      BY <1>1, <3>1
  <2>2. /\ front \in Messages(wire)
        /\ len = wire.size[front]
        /\ Exactly(len) = {front}
        /\ Body + len = wire.start[front + 1]
    BY <2>1, FrontAnnounced
  <2>3. ParsesAllAs(len) = {wire.parses[front]}
    <3>1. ~(received > Body + len)
      BY <1>1, <2>1
    <3>2. ParsesAllAs(len) = ParsesAs(len)
      BY <3>1 DEF ParsesAllAs
    <3>3. QED
      BY <2>2, <3>2 DEF ParsesAs
  <2>4. wire.parses[front] \in BOOLEAN /\ front \in Nat /\ wire \in Wires
    BY <2>2, WireFacts DEF FInv, TypeOK
  <2>5. PICK ok \in ParsesAllAs(len) :
          IF ok THEN Handle(len) /\ pc' = "again"
                ELSE pc' = "idle" /\ UNCHANGED handled
    OBVIOUS
  <2>6. ok = wire.parses[front] /\ (ok <=> Good(front))
    BY <1>1, <2>2, <2>3, <2>5 DEF Good
  <2>7. InStep'
    BY <2>1, AfterMessage
  <2>8. HandledInOrder'
    <3>1. CASE Good(front)
      <4>1. Handle(len)
        BY <2>5, <2>6, <3>1
      <4>2. QED
        BY <2>1, <3>1, <4>1, HandleFront DEF HandledInOrder, Messages, Good
    <3>2. CASE ~Good(front)
      <4>1. UNCHANGED handled
        BY <2>4, <2>5, <2>6, <3>2
      <4>2. {k \in Messages(wire) : k < front + 1 /\ Good(k)}
              = {k \in Messages(wire) : k < front /\ Good(k)}
        BY <2>1, <3>2, SkipFront
      <4>3. QED
        BY <2>1, <4>1, <4>2 DEF FInv, HandledInOrder, Messages, Good
    <3>3. QED
      BY <3>1, <3>2
  <2>9. NothingLeftBehind'
    <3>1. SUFFICES ASSUME front + 1 \in Messages(wire),
                          received >= wire.start[front + 2]
                   PROVE  FALSE
      BY <2>4 DEF NothingLeftBehind, Messages
    <3>2. /\ wire.start[(front + 1) + 1]
               = wire.start[front + 1] + Prefix + wire.size[front + 1]
          /\ wire.size[front + 1] \in Nat
      BY <2>4, <3>1, WireFacts
    <3>3. (front + 1) + 1 = front + 2
      BY <2>4
    <3>4. received >= received + Prefix + wire.size[front + 1]
      BY <2>1, <2>2, <3>1, <3>2, <3>3
    <3>5. QED
      BY <1>1, <3>2, <3>4, FramingAssumption
  <2>10. QED
    BY <1>3, <1>4, <2>7, <2>8, <2>9 DEF FInv, LastStart
<1>7. QED
  BY <1>5, <1>6

(* A frame and each outcome of readData (GrpcServ.cpp:127) keep it.         *)
THEOREM FNextInv == FInv /\ [Next]_vars => FInv'
<1> SUFFICES ASSUME FInv, [Next]_vars PROVE FInv'
  OBVIOUS
<1>1. CASE \E n \in 1..wire.start[Len(wire.size) + 1] : OnRead(n)
  BY <1>1, OnReadInv DEF LastStart
<1>2. CASE NoPrefix
  BY <1>2, NoPrefixInv
<1>3. CASE ReadData
  <2>1. HasPrefix
    BY <1>3 DEF ReadData
  <2>2. PICK len \in Announced :
          \/ Incomplete(len)
          \/ EmptyMessage(len)
          \/ ConsumerTakes(len)
          \/ ProducerTakes(len)
    BY <1>3 DEF ReadData
  <2>3. CASE Incomplete(len)
    BY <2>1, <2>3, IncompleteInv
  <2>4. CASE EmptyMessage(len)
    BY <2>1, <2>4, EmptyMessageInv
  <2>5. CASE ConsumerTakes(len)
    BY <2>1, <2>5, ConsumerTakesInv
  <2>6. CASE ProducerTakes(len)
    BY <2>1, <2>6, ProducerTakesInv
  <2>7. QED
    BY <2>2, <2>3, <2>4, <2>5, <2>6
<1>4. CASE UNCHANGED vars
  BY <1>4 DEF vars, stream, FInv, TypeOK, InStep, HandledInOrder,
              NothingLeftBehind, LastStart, Messages, Good
<1>5. QED
  BY <1>1, <1>2, <1>3, <1>4 DEF Next

(* The invariant holds of all runs.                                        *)
LEMMA FInvAlways == Spec => []FInv
BY FInitInv, FNextInv, PTL DEF Spec

(* Types of the framing layer; nothing is drained that was not received.   *)
THEOREM FramingTypeCorrect == Spec => []TypeOK
<1>1. FInv => TypeOK
  BY DEF FInv
<1>2. QED
  BY <1>1, FInvAlways, PTL

(* lpm_ stays in step with the messages of the wire.                       *)
THEOREM AlwaysInStep == Spec => []InStep
<1>1. FInv => InStep
  BY DEF FInv
<1>2. QED
  BY <1>1, FInvAlways, PTL

(* On a consumer's stream the requests handed to Repl are exactly the good *)
(* ones before the front of lpm_, each once and in order, however the peer *)
(* and the network cut the stream.                                         *)
ConsumerInOrder ==
    kind = "cons" =>
        /\ \A i, j \in DOMAIN handled : i < j => handled[i] < handled[j]
        /\ {handled[i] : i \in DOMAIN handled}
             = {k \in Messages(wire) : k < front /\ Good(k)}

(* Requests keep their order; on a consumer's stream without condition,    *)
(* since it never takes more than the message at the front.                *)
THEOREM ConsumerRequestsInOrder == Spec => [](HandledInOrder /\ ConsumerInOrder)
<1>1. FInv => HandledInOrder /\ ConsumerInOrder
  BY DEF FInv, HandledInOrder, ConsumerInOrder
<1>2. QED
  BY <1>1, FInvAlways, PTL

(* onRead leaves a whole message behind only after one that is not good.   *)
THEOREM NothingLeftUnexplained == Spec => []NothingLeftBehind
<1>1. FInv => NothingLeftBehind
  BY DEF FInv
<1>2. QED
  BY <1>1, FInvAlways, PTL

(* A message that arrived whole, and is good like all before it, has been  *)
(* handled when onRead returns (GrpcServ.hpp:26): were it not before the   *)
(* front, a whole message would be at the front, and the one before that   *)
(* not be good.                                                            *)
THEOREM WholeMessagesHandled == Spec => []MessagesReconstructed
<1>1. FInv => MessagesReconstructed
  <2> SUFFICES ASSUME FInv, pc = "idle", ~overrun, NEW k \in Messages(wire),
                      received >= wire.start[k + 1],
                      \A j \in 1..k : Good(j)
               PROVE  \E i \in DOMAIN handled : handled[i] = k
    BY DEF MessagesReconstructed
  <2>1. /\ Len(wire.size) \in Nat
        /\ \A j \in 1..(Len(wire.size) + 1) : wire.start[j] \in Nat
        /\ \A i, j \in 1..(Len(wire.size) + 1) :
             i < j => wire.start[i] < wire.start[j]
    BY WireFacts DEF FInv, TypeOK
  <2>2. k \in 1..Len(wire.size) /\ front \in 1..(Len(wire.size) + 1)
    BY DEF FInv, InStep, Messages
  <2>3. ASSUME front <= k PROVE FALSE
    <3>1. /\ front \in Messages(wire)
          /\ front + 1 \in 1..(Len(wire.size) + 1)
          /\ k + 1 \in 1..(Len(wire.size) + 1)
      BY <2>1, <2>2, <2>3 DEF Messages
    <3>2. wire.start[front + 1] <= wire.start[k + 1]
      BY <2>1, <2>2, <2>3, <3>1
    <3>3. received >= wire.start[front + 1]
      BY <2>1, <3>1, <3>2 DEF FInv, TypeOK
    <3>4. front > 1 /\ ~Good(front - 1)
      BY <3>1, <3>3 DEF FInv, NothingLeftBehind
    <3> QED BY <2>2, <2>3, <3>4
  <2>4. k < front /\ Good(k)
    BY <2>2, <2>3
  <2>5. k \in {j \in Messages(wire) : j < front /\ Good(j)}
    BY <2>4
  <2> QED BY <2>5 DEF FInv, HandledInOrder
<1> QED BY <1>1, FInvAlways, PTL
=============================================================================
