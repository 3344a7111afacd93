---------------------------- MODULE DataTheorems ----------------------------
(***************************************************************************)
(* Induction over data, first order: the library's induction theorems take *)
(* an operator, these take a set, so that every backend can use them.      *)
(***************************************************************************)
EXTENDS Integers, SequencesExt, SequenceTheorems, WellFoundedInduction, TLAPS

\* A nonempty set of naturals has a least element.
LEMMA Least ==
  ASSUME NEW T, T \subseteq Nat, T # {}
  PROVE  \E x \in T : \A y \in T : x <= y
<1> DEFINE R == OpToRel(<, Nat)
<1>1. IsWellFoundedOn(R, Nat)
  BY NatLessThanWellFounded
<1>2. \A x, y \in Nat : y < x => <<y, x>> \in R
  BY DEF OpToRel
<1> HIDE DEF R
<1>3. PICK x \in T : \A y \in T : ~ (<<y, x>> \in R)
  BY <1>1, WFMin
<1>4. ASSUME NEW y \in T PROVE x <= y
  <2>1. x \in Nat /\ y \in Nat
    OBVIOUS
  <2>2. ~ (y < x)
    BY <1>2, <1>3, <2>1
  <2> QED BY <2>1, <2>2
<1> QED BY <1>4

\* A nonempty set of naturals below a bound has a greatest element.
LEMMA Greatest ==
  ASSUME NEW T, T \subseteq Nat, T # {}, NEW b \in Nat, \A x \in T : x <= b
  PROVE  \E x \in T : \A y \in T : y <= x
<1> DEFINE D == {b - x : x \in T}
<1>1. D \subseteq Nat /\ D # {}
  <2>1. \A x \in T : x \in Nat /\ x <= b
    OBVIOUS
  <2>2. \A x \in T : b - x \in Nat
    BY <2>1
  <2>3. PICK x : x \in T
    OBVIOUS
  <2>4. b - x \in D
    BY <2>3
  <2> QED BY <2>2, <2>4
<1>2. PICK d \in D : \A e \in D : d <= e
  <2> HIDE DEF D
  <2> QED BY <1>1, Least
<1>3. PICK x \in T : d = b - x
  BY <1>2
<1>4. ASSUME NEW y \in T PROVE y <= x
  <2>1. b - y \in D
    OBVIOUS
  <2>2. d <= b - y
    BY <1>2, <2>1
  <2> QED BY <1>3, <2>2
<1> QED BY <1>4

LEMMA MinIs ==
  ASSUME NEW T, T \subseteq Nat, T # {}
  PROVE  Min(T) \in T /\ \A y \in T : Min(T) <= y
BY Least DEF Min

LEMMA MaxIs ==
  ASSUME NEW T, T \subseteq Nat, T # {}, NEW b \in Nat, \A x \in T : x <= b
  PROVE  Max(T) \in T /\ \A y \in T : y <= Max(T)
<1>1. \E x \in T : \A y \in T : y <= x
  BY Greatest
<1>2. \E x \in T : \A y \in T : x >= y
  BY <1>1
<1>3. Max(T) \in T /\ \A y \in T : Max(T) >= y
  BY <1>2 DEF Max
<1> QED BY <1>3

\* What holds of 0, and of n + 1 when it holds of n, holds of every natural.
LEMMA SetInduction ==
  ASSUME NEW S, 0 \in S, \A n \in Nat : n \in S => n + 1 \in S
  PROVE  Nat \subseteq S
<1> SUFFICES ASSUME Nat \ S # {} PROVE FALSE
  OBVIOUS
<1>1. PICK x \in Nat \ S : \A y \in Nat \ S : x <= y
  BY Least
<1>2. x - 1 \in Nat
  BY <1>1
<1>3. x - 1 \in S
  BY <1>1, <1>2
<1> QED BY <1>1, <1>2, <1>3

\* A function may be defined by its value at 0 and from each value to the next.
Follows(f, n, V, c, step) ==
  f \in [0 .. n -> V] /\ f[0] = c /\ \A i \in 1 .. n : f[i] = step[i][f[i - 1]]

LEMMA Recursion ==
  ASSUME NEW n \in Nat, NEW V, NEW c \in V, NEW step, step \in [1 .. n -> [V -> V]]
  PROVE  \E f : Follows(f, n, V, c, step)
<1> DEFINE Good(k, f) == f[0] = c /\ \A i \in 1 .. k : f[i] = step[i][f[i - 1]]
           S == {k \in Nat : k <= n => \E f \in [0 .. k -> V] : Good(k, f)}
<1>1. 0 \in S
  <2>1. [i \in 0 .. 0 |-> c] \in [0 .. 0 -> V] /\ Good(0, [i \in 0 .. 0 |-> c])
    OBVIOUS
  <2> QED BY <2>1
<1>2. ASSUME NEW k \in Nat, k \in S PROVE k + 1 \in S
  <2> SUFFICES ASSUME k + 1 <= n PROVE \E f \in [0 .. k + 1 -> V] : Good(k + 1, f)
    OBVIOUS
  <2>1. PICK f \in [0 .. k -> V] : Good(k, f)
    BY <1>2
  <2> DEFINE g == [i \in 0 .. k + 1 |-> IF i = k + 1 THEN step[k + 1][f[k]] ELSE f[i]]
  <2>2. k + 1 \in 1 .. n /\ k \in 0 .. k
    OBVIOUS
  <2>3. step[k + 1] \in [V -> V] /\ f[k] \in V
    BY <2>2
  <2>4. g \in [0 .. k + 1 -> V]
    BY <2>3
  <2>5. ASSUME NEW i \in 1 .. k + 1 PROVE g[i] = step[i][g[i - 1]]
    <3>1. CASE i = k + 1
      BY <3>1
    <3>2. CASE i # k + 1
      BY <2>1, <3>2
    <3> QED BY <3>1, <3>2
  <2>6. g[0] = c
    BY <2>1
  <2> QED BY <2>4, <2>5, <2>6
<1>3. Nat \subseteq S
  <2> HIDE DEF S
  <2> QED BY <1>1, <1>2, SetInduction
<1> QED BY <1>3 DEF Follows

\* FlattenSeq appends the sequences one after the other.
LEMMA Flatten ==
  ASSUME NEW T, NEW seqs \in Seq(Seq(T))
  PROVE  \E f \in [0 .. Len(seqs) -> Seq(T)] :
           /\ f[0] = <<>> /\ FlattenSeq(seqs) = f[Len(seqs)]
           /\ \A i \in 1 .. Len(seqs) : f[i] = f[i - 1] \o seqs[i]
<1> DEFINE n == Len(seqs)
           step == [i \in 1 .. n |-> [s \in Seq(T) |-> s \o seqs[i]]]
           Body(g) == [i \in 1 .. Len(seqs) |-> IF i = 1 THEN seqs[i] ELSE g[i - 1] \o seqs[i]]
<1>1. n \in Nat /\ \A i \in 1 .. n : seqs[i] \in Seq(T)
  OBVIOUS
<1> DEFINE V == Seq(T)
           c == <<>>
<1>2. step \in [1 .. n -> [V -> V]]
  BY <1>1
<1>3. c \in V
  OBVIOUS
<1>4. n \in Nat
  BY <1>1
<1>5. \E f : Follows(f, n, V, c, step)
  <2> HIDE DEF step, n, V, c
  <2> QED BY <1>4, <1>2, <1>3, Recursion
<1>6. PICK f \in [0 .. n -> Seq(T)] : f[0] = <<>> /\ \A i \in 1 .. n : f[i] = step[i][f[i - 1]]
  BY <1>5 DEF Follows
<1>7. ASSUME NEW i \in 1 .. n PROVE f[i] = f[i - 1] \o seqs[i]
  <2>1. i - 1 \in 0 .. n
    BY <1>1
  <2>2. f[i - 1] \in Seq(T)
    BY <2>1
  <2> QED BY <1>6, <2>2
<1>8. FlattenSeq(seqs) = f[n]
  <2>1. CASE n = 0
    BY <1>6, <2>1 DEF FlattenSeq
  <2>2. CASE n # 0
    <3> DEFINE h == CHOOSE g : g = Body(g)
               e == [i \in 1 .. n |-> f[i]]
    <3>1. FlattenSeq(seqs) = h[Len(seqs)]
      BY <2>2, Zenon DEF FlattenSeq
    <3>2. e = Body(e)
      <4>1. ASSUME NEW i \in 1 .. n PROVE e[i] = Body(e)[i]
        <5>1. CASE i = 1
          <6>1. f[1] = <<>> \o seqs[1]
            BY <1>6, <1>7, <5>1, 1 - 1 = 0
          <6> QED BY <1>1, <5>1, <6>1
        <5>2. CASE i # 1
          <6>1. i - 1 \in 1 .. n
            BY <1>1, <5>2
          <6> QED BY <1>7, <5>2, <6>1
        <5> QED BY <5>1, <5>2
      <4> QED BY <4>1
    <3>3. h = Body(h)
      <4> HIDE DEF Body, e
      <4> QED BY <3>2
    <3> DEFINE S == {k \in Nat : k + 1 <= n => f[k + 1] = h[k + 1]}
    <3>4. \A i \in 1 .. n : h[i] = IF i = 1 THEN seqs[i] ELSE h[i - 1] \o seqs[i]
      <4> HIDE DEF h
      <4> QED BY <3>3
    <3> HIDE DEF h
    <3>5. 0 \in S
      <4>1. 1 \in 1 .. n /\ 1 - 1 = 0
        BY <1>1, <2>2
      <4>2. f[1] = <<>> \o seqs[1] /\ h[1] = seqs[1] /\ seqs[1] \in Seq(T)
        BY <1>1, <1>6, <1>7, <3>4, <4>1, ZenonT(40)
      <4> QED BY <4>2
    <3>6. ASSUME NEW k \in Nat, k \in S PROVE k + 1 \in S
      <4> SUFFICES ASSUME k + 2 <= n PROVE f[k + 2] = h[k + 2]
        OBVIOUS
      <4>1. k + 2 \in 1 .. n /\ k + 2 # 1 /\ (k + 2) - 1 = k + 1 /\ f[k + 1] = h[k + 1]
        BY <1>1, <3>6
      <4>2. f[k + 2] = f[k + 1] \o seqs[k + 2]
        BY <1>7, <4>1
      <4>3. h[k + 2] = h[k + 1] \o seqs[k + 2]
        BY <3>4, <4>1
      <4> QED BY <4>1, <4>2, <4>3
    <3>7. Nat \subseteq S
      <4> HIDE DEF S
      <4> QED BY <3>5, <3>6, SetInduction
    <3>8. PICK k \in Nat : k + 1 = n
      <4>1. n - 1 \in Nat /\ (n - 1) + 1 = n
        BY <1>1, <2>2
      <4> QED BY <4>1
    <3>9. f[k + 1] = h[k + 1]
      <4>1. k \in S
        BY <3>7
      <4> QED BY <1>1, <3>8, <4>1
    <3> QED BY <3>1, <3>8, <3>9
  <2> QED BY <2>1, <2>2
<1> QED BY <1>6, <1>7, <1>8
=============================================================================
