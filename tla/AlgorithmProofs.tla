-------------------------- MODULE AlgorithmProofs ---------------------------
(***************************************************************************)
(* The algorithms without shared state, next to the codec (CodecProofs).   *)
(*                                                                         *)
(* cmp_coord is a total preorder of the names, so that sorting with it     *)
(* orders a listing whatever the order in which its entries are read, and  *)
(* dedup after the sort leaves every name once.                            *)
(*                                                                         *)
(* civil_from_days (s3/sigv4.rs) gives the date of the Gregorian calendar  *)
(* on every day from 1970 on, without a bound.                             *)
(*                                                                         *)
(* The last part carries these results and those of CodecProofs to the     *)
(* specification of MCCodec, in which each of them is a behaviour.         *)
(***************************************************************************)
EXTENDS MCCodec, CodecProofs

Vectors == Seq(Int)

-----------------------------------------------------------------------------
\* Numbers and coordinates.

LEMMA ValueOf ==
  ASSUME NEW s \in Seq(Nat)
  PROVE  value_of(s) \in Int
<1> DEFINE n == Len(s)
           V == Int
           c == 0
           step == [i \in 1 .. n |-> [u \in V |-> 10 * u + (s[i] - 48)]]
           Body(g) == [i \in 0 .. Len(s) |-> IF i = 0 THEN 0 ELSE 10 * g[i - 1] + (s[i] - 48)]
           h == CHOOSE g : g = Body(g)
<1>1. n \in Nat /\ c \in V /\ \A i \in 1 .. n : s[i] \in Nat
  OBVIOUS
<1>2. step \in [1 .. n -> [V -> V]]
  BY <1>1
<1>3. \E f : Follows(f, n, V, c, step)
  <2> HIDE DEF step, n, V, c
  <2> QED BY <1>1, <1>2, Recursion
<1>4. PICK f \in [0 .. n -> V] : f[0] = c /\ \A i \in 1 .. n : f[i] = step[i][f[i - 1]]
  BY <1>3 DEF Follows
<1>5. f = Body(f)
  <2>1. ASSUME NEW i \in 0 .. n PROVE f[i] = Body(f)[i]
    <3>1. CASE i = 0
      BY <1>4, <3>1
    <3>2. CASE i # 0
      <4>1. i \in 1 .. n /\ i - 1 \in 0 .. n
        BY <1>1, <3>2
      <4>2. f[i - 1] \in V
        BY <4>1
      <4> QED BY <1>4, <3>2, <4>1, <4>2
    <3> QED BY <3>1, <3>2
  <2> QED BY <2>1
<1>6. value_of(s) = h[Len(s)]
  BY Zenon DEF value_of
<1>7. h = Body(h)
  <2> HIDE DEF Body
  <2> QED BY <1>5
<1>8. \A i \in 0 .. n : h[i] = IF i = 0 THEN 0 ELSE 10 * h[i - 1] + (s[i] - 48)
  <2> HIDE DEF h
  <2> QED BY <1>7
<1> HIDE DEF h
<1> DEFINE S == {k \in Nat : k <= n => h[k] \in Int}
<1>9. 0 \in S
  BY <1>8
<1>10. ASSUME NEW k \in Nat, k \in S PROVE k + 1 \in S
  <2> SUFFICES ASSUME k + 1 <= n PROVE h[k + 1] \in Int
    OBVIOUS
  <2>1. k + 1 \in 1 .. n /\ k + 1 \in 0 .. n /\ k + 1 # 0 /\ (k + 1) - 1 = k /\ h[k] \in Int
    BY <1>1, <1>10
  <2>2. h[k + 1] = 10 * h[k] + (s[k + 1] - 48) /\ s[k + 1] \in Nat
    BY <1>1, <1>8, <2>1
  <2> QED BY <2>1, <2>2
<1>11. Nat \subseteq S
  <2> HIDE DEF S
  <2> QED BY <1>9, <1>10, SetInduction
<1> QED BY <1>1, <1>6, <1>11

LEMMA PartsType ==
  ASSUME NEW s \in Seq(Nat)
  PROVE  parts(s) \in Seq(Seq(Nat))
<1> DEFINE n == Len(s)
           V == {u \in Seq(Seq(Nat)) : u # <<>>}
           c == <<<<>>>>
           Add(u, x) == IF x = CommaB THEN Append(u, <<>>) ELSE [u EXCEPT ![Len(u)] = Append(@, x)]
           step == [i \in 1 .. n |-> [u \in V |-> Add(u, s[i])]]
           Body(g) == [i \in 0 .. Len(s) |->
                         IF i = 0 THEN <<<<>>>>
                         ELSE IF s[i] = CommaB THEN Append(g[i - 1], <<>>)
                         ELSE [g[i - 1] EXCEPT ![Len(g[i - 1])] = Append(@, s[i])]]
           h == CHOOSE g : g = Body(g)
<1>1. n \in Nat /\ \A i \in 1 .. n : s[i] \in Nat
  OBVIOUS
<1>2. c \in V
  <2>1. <<>> \in Seq(Nat)
    OBVIOUS
  <2> QED BY <2>1
<1>3. ASSUME NEW u \in V, NEW x \in Nat PROVE Add(u, x) \in V
  <2>1. u \in Seq(Seq(Nat)) /\ Len(u) \in Nat /\ Len(u) # 0 /\ Len(u) \in 1 .. Len(u) /\ <<>> \in Seq(Nat)
    OBVIOUS
  <2>2. u[Len(u)] \in Seq(Nat)
    BY <2>1
  <2> DEFINE z == Append(u[Len(u)], x)
             a == Append(u, <<>>)
             b == [u EXCEPT ![Len(u)] = z]
  <2>3. z \in Seq(Nat)
    BY <2>2
  <2>4. a \in Seq(Seq(Nat)) /\ Len(a) = Len(u) + 1
    BY <2>1
  <2>5. b \in Seq(Seq(Nat)) /\ Len(b) = Len(u)
    <3> HIDE DEF z
    <3> QED BY <2>1, <2>3
  <2>6. Add(u, x) = IF x = CommaB THEN a ELSE b
    OBVIOUS
  <2> HIDE DEF a, b, Add
  <2>7. a # <<>> /\ b # <<>>
    <3>1. Len(a) # 0 /\ Len(b) # 0
      BY <2>1, <2>4, <2>5
    <3> QED BY <3>1
  <2> QED BY <2>4, <2>5, <2>6, <2>7
<1> HIDE DEF Add
<1>4. step \in [1 .. n -> [V -> V]]
  BY <1>1, <1>3
<1>5. \E f : Follows(f, n, V, c, step)
  <2> HIDE DEF step, n, V, c
  <2> QED BY <1>1, <1>2, <1>4, Recursion
<1>6. PICK f \in [0 .. n -> V] : f[0] = c /\ \A i \in 1 .. n : f[i] = step[i][f[i - 1]]
  BY <1>5 DEF Follows
<1>7. f = Body(f)
  <2>1. ASSUME NEW i \in 0 .. n PROVE f[i] = Body(f)[i]
    <3>1. CASE i = 0
      BY <1>6, <3>1
    <3>2. CASE i # 0
      <4>1. i \in 1 .. n /\ i - 1 \in 0 .. n
        BY <1>1, <3>2
      <4>2. f[i - 1] \in V
        BY <4>1
      <4>3. f[i] = Add(f[i - 1], s[i])
        BY <1>6, <4>1, <4>2
      <4> QED BY <3>2, <4>1, <4>3 DEF Add
    <3> QED BY <3>1, <3>2
  <2> QED BY <2>1
<1>8. parts(s) = h[Len(s)]
  BY Zenon DEF parts
<1>9. h = Body(h)
  <2> HIDE DEF Body
  <2> QED BY <1>7
<1>10. h[0] = c /\ \A i \in 1 .. n : h[i] = Add(h[i - 1], s[i])
  <2> HIDE DEF h
  <2>1. 0 \in 0 .. n /\ \A i \in 1 .. n : i \in 0 .. n /\ i # 0
    BY <1>1
  <2> QED BY <1>9, <2>1 DEF Add
<1> HIDE DEF h, V, c
<1> DEFINE S == {k \in Nat : k <= n => h[k] \in V}
<1>11. 0 \in S
  BY <1>2, <1>10
<1>12. ASSUME NEW k \in Nat, k \in S PROVE k + 1 \in S
  <2> SUFFICES ASSUME k + 1 <= n PROVE h[k + 1] \in V
    OBVIOUS
  <2>1. k + 1 \in 1 .. n /\ (k + 1) - 1 = k /\ h[k] \in V
    BY <1>1, <1>12
  <2>2. h[k + 1] = Add(h[k], s[k + 1]) /\ s[k + 1] \in Nat
    BY <1>1, <1>10, <2>1
  <2> QED BY <1>3, <2>1, <2>2
<1>13. Nat \subseteq S
  <2> HIDE DEF S
  <2> QED BY <1>11, <1>12, SetInduction
<1>14. h[n] \in V
  BY <1>1, <1>13
<1> QED BY <1>8, <1>14 DEF V

LEMMA ParseType ==
  ASSUME NEW name \in Seq(Nat), is_coord(name)
  PROVE  parse_coord(name) \in Vectors
<1> DEFINE ps == parts(inner(name))
           v == [i \in DOMAIN ps |-> value_of(ps[i])]
<1>1. inner(name) \in Seq(Nat)
  BY DEF inner, is_coord
<1>2. ps \in Seq(Seq(Nat))
  BY <1>1, PartsType
<1>3. <<>> \in Vectors
  BY DEF Vectors
<1>4. parse_coord(name) = v \/ parse_coord(name) = <<>>
  BY DEF parse_coord
<1> HIDE DEF ps
<1>5. Len(ps) \in Nat /\ DOMAIN ps = 1 .. Len(ps) /\ \A i \in 1 .. Len(ps) : ps[i] \in Seq(Nat)
  BY <1>2
<1>6. \A i \in 1 .. Len(ps) : value_of(ps[i]) \in Int
  BY <1>5, ValueOf
<1>7. v \in [1 .. Len(ps) -> Int]
  BY <1>5, <1>6
<1> HIDE DEF v
<1>8. v \in Vectors
  BY <1>5, <1>7 DEF Vectors
<1> QED BY <1>3, <1>4, <1>8

-----------------------------------------------------------------------------
\* The lexicographic order.

\* s and t differ first at position i, where s is smaller or has ended.
LessAt(s, t, i) ==
  /\ i \in 1 .. Len(t) /\ i <= Len(s) + 1
  /\ \A j \in 1 .. i - 1 : s[j] = t[j]
  /\ i <= Len(s) => s[i] < t[i]
Less(s, t) == \E i \in Nat : LessAt(s, t, i)

LEMMA CmpIs ==
  ASSUME NEW s \in Vectors, NEW t \in Vectors
  PROVE  /\ Cmp(s, t) = "Equal" <=> s = t
         /\ Cmp(s, t) = "Less" => Less(s, t)
         /\ Cmp(s, t) = "Greater" => Less(t, s)
         /\ Cmp(s, t) \in {"Equal", "Less", "Greater"}
<1> DEFINE differ == {i \in DOMAIN s \cap DOMAIN t : s[i] # t[i]}
           m == Min(differ)
           less == IF differ = {} THEN Len(s) < Len(t) ELSE s[m] < t[m]
<1>1. /\ Len(s) \in Nat /\ Len(t) \in Nat /\ DOMAIN s = 1 .. Len(s) /\ DOMAIN t = 1 .. Len(t)
      /\ \A i \in 1 .. Len(s) : s[i] \in Int
      /\ \A i \in 1 .. Len(t) : t[i] \in Int
  BY DEF Vectors
<1>2. Cmp(s, t) = IF s = t THEN "Equal" ELSE IF less THEN "Less" ELSE "Greater"
  BY DEF Cmp
<1>3. CASE s = t
  BY <1>2, <1>3
<1>4. CASE s # t /\ differ = {}
  <2>1. \A i \in 1 .. Len(s) : i <= Len(t) => s[i] = t[i]
    BY <1>1, <1>4
  <2>2. Len(s) # Len(t)
    <3>1. Len(s) = Len(t) => \A i \in 1 .. Len(s) : s[i] = t[i]
      BY <1>1, <2>1
    <3> QED BY <1>4, <3>1, SeqEqual DEF Vectors
  <2> HIDE DEF differ
  <2>3. CASE Len(s) < Len(t)
    <3>1. LessAt(s, t, Len(s) + 1)
      BY <1>1, <2>1, <2>3 DEF LessAt
    <3>2. Less(s, t) /\ less
      BY <1>1, <1>4, <2>3, <3>1 DEF Less
    <3> QED BY <1>2, <1>4, <3>2
  <2>4. CASE ~ (Len(s) < Len(t))
    <3> DEFINE l == Len(t)
               n == Len(s)
    <3>3. l \in Nat /\ n \in Nat /\ l < n
      <4>1. l \in Nat /\ n \in Nat
        BY <1>1
      <4>2. n # l /\ ~ (n < l)
        BY <2>2, <2>4
      <4> HIDE DEF l, n
      <4> QED BY <4>1, <4>2
    <3>4. \A i \in 1 .. n : i <= l => s[i] = t[i]
      BY <2>1
    <3> HIDE DEF l, n
    <3>5. l + 1 \in 1 .. n /\ (l + 1) - 1 = l /\ ~ (l + 1 <= l)
      BY <3>3
    <3>6. \A j \in 1 .. l : t[j] = s[j]
      BY <3>3, <3>4
    <3>1. LessAt(t, s, Len(t) + 1)
      BY <3>3, <3>5, <3>6 DEF LessAt, l, n
    <3>2. Less(t, s) /\ ~ less
      BY <1>1, <1>4, <2>4, <3>1 DEF Less
    <3> QED BY <1>2, <1>4, <3>2
  <2> QED BY <2>3, <2>4
<1>5. CASE s # t /\ differ # {}
  <2>1. differ \subseteq Nat
    BY <1>1
  <2>2. m \in differ /\ \A y \in differ : m <= y
    <3> HIDE DEF differ
    <3> QED BY <1>5, <2>1, MinIs
  <2>3. m \in 1 .. Len(s) /\ m \in 1 .. Len(t) /\ s[m] # t[m] /\ s[m] \in Int /\ t[m] \in Int
    BY <1>1, <2>2
  <2>4. \A j \in 1 .. m - 1 : s[j] = t[j]
    <3> SUFFICES ASSUME NEW j \in 1 .. m - 1, s[j] # t[j] PROVE FALSE
      OBVIOUS
    <3> HIDE DEF m
    <3>1. j \in differ
      BY <1>1, <2>3
    <3> HIDE DEF differ
    <3>2. m <= j /\ m \in Nat
      BY <2>2, <2>3, <3>1
    <3> QED BY <3>2
  <2>5. less <=> s[m] < t[m]
    BY <1>5
  <2> HIDE DEF differ, m, less
  <2>6. CASE less
    <3>1. LessAt(s, t, m)
      BY <1>1, <2>3, <2>4, <2>5, <2>6 DEF LessAt
    <3>2. Less(s, t)
      BY <2>3, <3>1 DEF Less
    <3> QED BY <1>2, <1>5, <2>6, <3>2
  <2>7. CASE ~ less
    <3>1. LessAt(t, s, m)
      BY <1>1, <2>3, <2>4, <2>5, <2>7 DEF LessAt
    <3>2. Less(t, s)
      BY <2>3, <3>1 DEF Less
    <3> QED BY <1>2, <1>5, <2>7, <3>2
  <2> QED BY <2>6, <2>7
<1> QED BY <1>3, <1>4, <1>5

LEMMA LessTransitive ==
  ASSUME NEW s \in Vectors, NEW t \in Vectors, NEW u \in Vectors, Less(s, t), Less(t, u)
  PROVE  Less(s, u)
<1>1. /\ Len(s) \in Nat /\ Len(t) \in Nat /\ Len(u) \in Nat
      /\ \A i \in 1 .. Len(s) : s[i] \in Int
      /\ \A i \in 1 .. Len(t) : t[i] \in Int
      /\ \A i \in 1 .. Len(u) : u[i] \in Int
  BY DEF Vectors
<1>2. PICK i \in Nat : LessAt(s, t, i)
  BY DEF Less
<1>3. PICK k \in Nat : LessAt(t, u, k)
  BY DEF Less
<1>4. CASE i < k
  <2>1. LessAt(s, u, i)
    <3>1. i \in 1 .. Len(u) /\ i <= Len(s) + 1
      BY <1>1, <1>2, <1>3, <1>4 DEF LessAt
    <3>2. \A j \in 1 .. i - 1 : s[j] = u[j]
      BY <1>1, <1>2, <1>3, <1>4 DEF LessAt
    <3>3. t[i] = u[i]
      BY <1>1, <1>2, <1>3, <1>4 DEF LessAt
    <3> QED BY <1>2, <3>1, <3>2, <3>3 DEF LessAt
  <2> QED BY <2>1 DEF Less
<1>5. CASE k < i
  <2>1. LessAt(s, u, k)
    <3>1. k \in 1 .. Len(u) /\ k <= Len(s)
      BY <1>1, <1>2, <1>3, <1>5 DEF LessAt
    <3>2. \A j \in 1 .. k - 1 : s[j] = u[j]
      BY <1>1, <1>2, <1>3, <1>5 DEF LessAt
    <3>3. s[k] = t[k] /\ k <= Len(t)
      BY <1>1, <1>2, <1>3, <1>5 DEF LessAt
    <3> QED BY <1>3, <3>1, <3>2, <3>3 DEF LessAt
  <2> QED BY <2>1 DEF Less
<1>6. CASE i = k
  <2>1. LessAt(s, u, i)
    <3>1. i \in 1 .. Len(u) /\ i <= Len(s) + 1 /\ i \in 1 .. Len(t)
      BY <1>2, <1>3, <1>6 DEF LessAt
    <3>2. \A j \in 1 .. i - 1 : s[j] = u[j]
      BY <1>2, <1>3, <1>6 DEF LessAt
    <3>3. i <= Len(s) => s[i] < u[i]
      <4> SUFFICES ASSUME i <= Len(s) PROVE s[i] < u[i]
        OBVIOUS
      <4>1. s[i] < t[i] /\ t[i] < u[i]
        BY <1>1, <1>2, <1>3, <1>6, <3>1 DEF LessAt
      <4>2. s[i] \in Int /\ t[i] \in Int /\ u[i] \in Int
        BY <1>1, <3>1
      <4> QED BY <4>1, <4>2
    <3> QED BY <3>1, <3>2, <3>3 DEF LessAt
  <2> QED BY <2>1 DEF Less
<1> QED BY <1>4, <1>5, <1>6

LEMMA LessIrreflexive ==
  ASSUME NEW s \in Vectors
  PROVE  ~ Less(s, s)
<1> SUFFICES ASSUME NEW i \in Nat, LessAt(s, s, i) PROVE FALSE
  BY DEF Less
<1>1. i \in 1 .. Len(s) /\ s[i] < s[i]
  BY DEF LessAt, Vectors
<1>2. s[i] \in Int
  BY <1>1 DEF Vectors
<1> QED BY <1>1, <1>2

\* Not greater: the order in which a sort leaves two vectors.
LexLe(s, t) == Cmp(s, t) # "Greater"

LEMMA LexOrder ==
  ASSUME NEW s \in Vectors, NEW t \in Vectors
  PROVE  /\ LexLe(s, t) <=> s = t \/ Less(s, t)
         /\ LexLe(s, t) \/ LexLe(t, s)
         /\ LexLe(s, t) /\ LexLe(t, s) => s = t
<1>1. Less(s, t) => ~ Less(t, s)
  BY LessTransitive, LessIrreflexive
<1>2. s = t => ~ Less(s, t) /\ ~ Less(t, s)
  BY LessIrreflexive
<1> QED BY <1>1, <1>2, CmpIs DEF LexLe

LEMMA LexTransitive ==
  ASSUME NEW s \in Vectors, NEW t \in Vectors, NEW u \in Vectors, LexLe(s, t), LexLe(t, u)
  PROVE  LexLe(s, u)
<1>1. (s = t \/ Less(s, t)) /\ (t = u \/ Less(t, u))
  BY LexOrder
<1>2. s = u \/ Less(s, u)
  BY <1>1, LessTransitive
<1> QED BY <1>2, LexOrder

-----------------------------------------------------------------------------
\* The order of names.

IsNumber(n) == is_coord(n) /\ parse_coord(n) # <<>>
Rank(n) == IF IsNumber(n) THEN 0 ELSE IF is_coord(n) THEN 1 ELSE 2
KeyOf(n) == IF IsNumber(n) THEN parse_coord(n) ELSE n
NotAfter(a, b) == cmp_coord(a, b) # "Greater"

LEMMA NameOrder ==
  ASSUME NEW a \in Seq(Nat), NEW b \in Seq(Nat)
  PROVE  /\ NotAfter(a, b) <=> Rank(a) < Rank(b) \/ (Rank(a) = Rank(b) /\ LexLe(KeyOf(a), KeyOf(b)))
         /\ cmp_coord(a, b) = "Equal" <=> Rank(a) = Rank(b) /\ KeyOf(a) = KeyOf(b)
         /\ KeyOf(a) \in Vectors /\ KeyOf(b) \in Vectors
<1>1. \A n \in Seq(Nat) : n \in Vectors
  BY SeqMonotonic, Nat \subseteq Int DEF Vectors
<1>2. KeyOf(a) \in Vectors /\ KeyOf(b) \in Vectors
  BY <1>1, ParseType DEF KeyOf, IsNumber
<1>3. ASSUME NEW x \in Seq(Nat), NEW y \in Seq(Nat), is_coord(x), ~ is_coord(y)
      PROVE  cmp_coord(x, y) = "Less" /\ cmp_coord(y, x) = "Greater" /\ Rank(x) < Rank(y)
  <2>1. cmp_coord(x, y) = "Less"
    BY <1>3 DEF cmp_coord
  <2>2. cmp_coord(y, x) = "Greater"
    BY <1>3 DEF cmp_coord
  <2> QED BY <1>3, <2>1, <2>2 DEF Rank, IsNumber
<1>4. ASSUME NEW x \in Seq(Nat), NEW y \in Seq(Nat), is_coord(x), is_coord(y), IsNumber(x), ~ IsNumber(y)
      PROVE  cmp_coord(x, y) = "Less" /\ cmp_coord(y, x) = "Greater" /\ Rank(x) < Rank(y)
  <2>1. cmp_coord(x, y) = "Less"
    BY <1>4 DEF cmp_coord, IsNumber
  <2>2. cmp_coord(y, x) = "Greater"
    BY <1>4 DEF cmp_coord, IsNumber
  <2> QED BY <1>4, <2>1, <2>2 DEF Rank
<1>5. CASE IsNumber(a) /\ IsNumber(b)
  <2>1. cmp_coord(a, b) = Cmp(KeyOf(a), KeyOf(b)) /\ Rank(a) = Rank(b)
    BY <1>5 DEF cmp_coord, Rank, IsNumber, KeyOf
  <2> QED BY <1>2, <2>1, CmpIs DEF NotAfter, LexLe, Rank
<1>6. CASE (is_coord(a) <=> is_coord(b)) /\ ~ IsNumber(a) /\ ~ IsNumber(b)
  <2>1. cmp_coord(a, b) = Cmp(a, b)
    <3>1. CASE is_coord(a) /\ is_coord(b)
      BY <1>6, <3>1 DEF cmp_coord, IsNumber
    <3>2. CASE ~ is_coord(a) /\ ~ is_coord(b)
      BY <3>2 DEF cmp_coord
    <3> QED BY <1>6, <3>1, <3>2
  <2>2. KeyOf(a) = a /\ KeyOf(b) = b /\ Rank(a) = Rank(b)
    BY <1>6 DEF Rank, KeyOf
  <2> QED BY <1>2, <2>1, <2>2, CmpIs DEF NotAfter, LexLe, Rank
<1>7. Rank(a) \in Nat /\ Rank(b) \in Nat
  BY DEF Rank
<1>8. CASE is_coord(a) /\ ~ is_coord(b)
  BY <1>2, <1>3, <1>7, <1>8 DEF NotAfter
<1>9. CASE is_coord(b) /\ ~ is_coord(a)
  BY <1>2, <1>3, <1>7, <1>9 DEF NotAfter
<1>10. CASE is_coord(a) /\ is_coord(b) /\ IsNumber(a) /\ ~ IsNumber(b)
  BY <1>2, <1>4, <1>7, <1>10 DEF NotAfter
<1>11. CASE is_coord(a) /\ is_coord(b) /\ IsNumber(b) /\ ~ IsNumber(a)
  BY <1>2, <1>4, <1>7, <1>11 DEF NotAfter
<1> QED BY <1>5, <1>6, <1>8, <1>9, <1>10, <1>11 DEF IsNumber

LEMMA NamesTotal ==
  ASSUME NEW a \in Seq(Nat), NEW b \in Seq(Nat)
  PROVE  /\ NotAfter(a, b) \/ NotAfter(b, a)
         /\ NotAfter(a, b) /\ NotAfter(b, a) => cmp_coord(a, b) = "Equal"
<1>1. Rank(a) \in Nat /\ Rank(b) \in Nat
  BY DEF Rank
<1>2. /\ NotAfter(a, b) <=> Rank(a) < Rank(b) \/ (Rank(a) = Rank(b) /\ LexLe(KeyOf(a), KeyOf(b)))
      /\ NotAfter(b, a) <=> Rank(b) < Rank(a) \/ (Rank(b) = Rank(a) /\ LexLe(KeyOf(b), KeyOf(a)))
      /\ cmp_coord(a, b) = "Equal" <=> Rank(a) = Rank(b) /\ KeyOf(a) = KeyOf(b)
      /\ KeyOf(a) \in Vectors /\ KeyOf(b) \in Vectors
  BY NameOrder
<1>3. /\ LexLe(KeyOf(a), KeyOf(b)) \/ LexLe(KeyOf(b), KeyOf(a))
      /\ LexLe(KeyOf(a), KeyOf(b)) /\ LexLe(KeyOf(b), KeyOf(a)) => KeyOf(a) = KeyOf(b)
  BY <1>2, LexOrder
<1> QED BY <1>1, <1>2, <1>3

LEMMA NamesTransitive ==
  ASSUME NEW a \in Seq(Nat), NEW b \in Seq(Nat), NEW c \in Seq(Nat), NotAfter(a, b), NotAfter(b, c)
  PROVE  NotAfter(a, c)
<1>1. Rank(a) \in Nat /\ Rank(b) \in Nat /\ Rank(c) \in Nat
  BY DEF Rank
<1>2. /\ Rank(a) < Rank(b) \/ (Rank(a) = Rank(b) /\ LexLe(KeyOf(a), KeyOf(b)))
      /\ Rank(b) < Rank(c) \/ (Rank(b) = Rank(c) /\ LexLe(KeyOf(b), KeyOf(c)))
      /\ KeyOf(a) \in Vectors /\ KeyOf(b) \in Vectors /\ KeyOf(c) \in Vectors
  BY NameOrder
<1>3. LexLe(KeyOf(a), KeyOf(b)) /\ LexLe(KeyOf(b), KeyOf(c)) => LexLe(KeyOf(a), KeyOf(c))
  BY <1>2, LexTransitive
<1>4. Rank(a) < Rank(c) \/ (Rank(a) = Rank(c) /\ LexLe(KeyOf(a), KeyOf(c)))
  BY <1>1, <1>2, <1>3
<1> QED BY <1>4, NameOrder

-----------------------------------------------------------------------------
\* A listing stays in order.

InOrder(s) == \A i, j \in DOMAIN s : i < j => NotAfter(s[i], s[j])

LEMMA InsertIs ==
  ASSUME NEW s \in Seq(Names), NEW name \in Names, NEW p \in 0 .. Len(s)
  PROVE  LET t == InsertAt(s, p + 1, name)
         IN /\ t \in Seq(Names) /\ Len(t) = Len(s) + 1 /\ t[p + 1] = name
            /\ \A i \in 1 .. p : t[i] = s[i]
            /\ \A i \in p + 2 .. Len(s) + 1 : t[i] = s[i - 1]
<1> DEFINE a == SubSeq(s, 1, p)
           b == SubSeq(s, p + 1, Len(s))
           one == <<name>>
           t == InsertAt(s, p + 1, name)
<1>1. Len(s) \in Nat /\ p \in Nat /\ p <= Len(s) /\ (p + 1) - 1 = p
  OBVIOUS
<1>2. t = a \o one \o b
  BY <1>1 DEF InsertAt
<1>3. a \in Seq(Names) /\ Len(a) = p /\ \A i \in 1 .. p : a[i] = s[i]
  BY <1>1
<1>4. b \in Seq(Names) /\ Len(b) = Len(s) - p /\ \A i \in 1 .. Len(s) - p : b[i] = s[p + i]
  BY <1>1
<1>5. one \in Seq(Names) /\ Len(one) = 1 /\ one[1] = name
  OBVIOUS
<1> HIDE DEF a, b, one, t
<1>6. /\ a \o one \in Seq(Names) /\ Len(a \o one) = p + 1 /\ (a \o one)[p + 1] = name
      /\ \A i \in 1 .. p : (a \o one)[i] = s[i]
  <2>1. /\ a \o one \in Seq(Names) /\ Len(a \o one) = Len(a) + Len(one)
        /\ \A i \in 1 .. Len(a) + Len(one) : (a \o one)[i] = IF i <= Len(a) THEN a[i] ELSE one[i - Len(a)]
    BY <1>3, <1>5, ConcatProperties
  <2>2. p + 1 \in 1 .. p + 1 /\ ~ (p + 1 <= p) /\ (p + 1) - p = 1 /\ \A i \in 1 .. p : i \in 1 .. p + 1 /\ i <= p
    BY <1>1
  <2> QED BY <1>3, <1>5, <2>1, <2>2
<1> DEFINE c == a \o one
<1> HIDE DEF c
<1>7. /\ c \in Seq(Names) /\ Len(c) = p + 1 /\ c[p + 1] = name /\ (\A i \in 1 .. p : c[i] = s[i])
      /\ t = c \o b
  BY <1>2, <1>6 DEF c
<1>8. /\ t \in Seq(Names) /\ Len(t) = (p + 1) + (Len(s) - p)
      /\ \A i \in 1 .. p + 1 : t[i] = c[i]
      /\ \A i \in p + 2 .. (p + 1) + (Len(s) - p) : t[i] = b[i - (p + 1)]
  <2>1. /\ c \o b \in Seq(Names) /\ Len(c \o b) = Len(c) + Len(b)
        /\ \A i \in 1 .. Len(c) + Len(b) : (c \o b)[i] = IF i <= Len(c) THEN c[i] ELSE b[i - Len(c)]
    BY <1>4, <1>7, ConcatProperties
  <2> DEFINE n == Len(s) - p
             k == p + 1
  <2>2. n \in Nat /\ k \in Nat /\ k + 1 = p + 2
    BY <1>1
  <2>3. Len(c) = k /\ Len(b) = n
    BY <1>4, <1>7
  <2> HIDE DEF n, k
  <2>4. /\ \A i \in 1 .. k : i \in 1 .. k + n /\ i <= k
        /\ \A i \in k + 1 .. k + n : i \in 1 .. k + n /\ ~ (i <= k)
    BY <2>2
  <2>5. /\ \A i \in 1 .. k : t[i] = c[i]
        /\ \A i \in k + 1 .. k + n : t[i] = b[i - k]
    BY <1>7, <2>1, <2>3, <2>4
  <2>6. t \in Seq(Names) /\ Len(t) = k + n
    BY <1>7, <2>1, <2>3
  <2> QED BY <2>2, <2>5, <2>6 DEF n, k
<1>9. (p + 1) + (Len(s) - p) = Len(s) + 1
  BY <1>1
<1>10. t[p + 1] = name /\ \A i \in 1 .. p : t[i] = s[i]
  BY <1>1, <1>7, <1>8
<1>11. ASSUME NEW i \in p + 2 .. Len(s) + 1 PROVE t[i] = s[i - 1]
  <2>1. i - (p + 1) \in 1 .. Len(s) - p /\ p + (i - (p + 1)) = i - 1
    BY <1>1
  <2>2. t[i] = b[i - (p + 1)]
    BY <1>8, <1>9
  <2> QED BY <1>4, <2>1, <2>2
<1> QED BY <1>8, <1>9, <1>10, <1>11 DEF t

LEMMA InsertOrdered ==
  ASSUME NEW s \in Seq(Names), InOrder(s), NEW name \in Names
  PROVE  insert(s, name) \in Seq(Names) /\ InOrder(insert(s, name))
<1> DEFINE B == {i \in DOMAIN s : cmp_coord(s[i], name) # "Greater"}
           T == {0} \cup B
           p == Max(T)
           t == InsertAt(s, p + 1, name)
<1>1. Len(s) \in Nat /\ DOMAIN s = 1 .. Len(s) /\ (\A i \in 1 .. Len(s) : s[i] \in Names) /\ Names \subseteq Seq(Nat)
  BY NamesAssumption
<1>2. T \subseteq Nat /\ T # {} /\ \A x \in T : x <= Len(s)
  BY <1>1
<1>3. insert(s, name) = t
  BY DEF insert
<1>4. p \in T /\ \A y \in T : y <= p
  <2> HIDE DEF T
  <2> QED BY <1>1, <1>2, MaxIs
<1>5. \A i \in 1 .. Len(s) : i \in B <=> NotAfter(s[i], name)
  BY <1>1 DEF NotAfter
<1>6. p \in 0 .. Len(s) /\ (p = 0 \/ p \in B)
  BY <1>1, <1>4
<1> HIDE DEF p, B
<1>7. ASSUME NEW i \in 1 .. p PROVE NotAfter(s[i], name)
  <2>1. p \in B /\ p \in 1 .. Len(s) /\ i \in 1 .. Len(s)
    BY <1>1, <1>6
  <2>2. NotAfter(s[p], name)
    BY <1>5, <2>1
  <2>3. CASE i = p
    BY <2>2, <2>3
  <2>4. CASE i # p
    <3>1. i \in DOMAIN s /\ p \in DOMAIN s /\ i < p
      BY <1>1, <2>1, <2>4
    <3>2. NotAfter(s[i], s[p])
      BY <3>1 DEF InOrder
    <3> QED BY <1>1, <2>1, <2>2, <3>2, NamesTransitive
  <2> QED BY <2>3, <2>4
<1>8. ASSUME NEW i \in p + 1 .. Len(s) PROVE NotAfter(name, s[i])
  <2>1. i \in 1 .. Len(s) /\ ~ (i <= p) /\ i \in Nat
    BY <1>1, <1>6
  <2>2. i \notin B
    BY <1>4, <2>1
  <2>3. ~ NotAfter(s[i], name)
    BY <1>5, <2>1, <2>2
  <2> QED BY <1>1, <2>1, <2>3, NamesTotal
<1>9. /\ t \in Seq(Names) /\ Len(t) = Len(s) + 1 /\ t[p + 1] = name
      /\ \A i \in 1 .. p : t[i] = s[i]
      /\ \A i \in p + 2 .. Len(s) + 1 : t[i] = s[i - 1]
  BY <1>6, InsertIs
<1> HIDE DEF t
<1>10. DOMAIN t = 1 .. Len(s) + 1
  BY <1>9
<1>11. ASSUME NEW i \in 1 .. Len(s) + 1, NEW j \in 1 .. Len(s) + 1, i < j
       PROVE  NotAfter(t[i], t[j])
  <2>1. p \in Nat /\ p <= Len(s) /\ i \in Nat /\ j \in Nat
    BY <1>6
  <2>2. CASE j <= p
    <3>1. i \in 1 .. p /\ j \in 1 .. p /\ i \in 1 .. Len(s) /\ j \in 1 .. Len(s)
      BY <1>1, <1>11, <2>1, <2>2
    <3> QED BY <1>1, <1>9, <1>11, <3>1 DEF InOrder
  <2>3. CASE j = p + 1
    <3>1. i \in 1 .. p
      BY <1>11, <2>1, <2>3
    <3> QED BY <1>7, <1>9, <2>3, <3>1
  <2>4. CASE j > p + 1 /\ i = p + 1
    <3>1. j \in p + 2 .. Len(s) + 1 /\ j - 1 \in p + 1 .. Len(s)
      BY <1>1, <2>1, <2>4
    <3> QED BY <1>8, <1>9, <2>4, <3>1
  <2>5. CASE j > p + 1 /\ i <= p
    <3>1. j \in p + 2 .. Len(s) + 1 /\ j - 1 \in 1 .. Len(s) /\ i \in 1 .. p /\ i \in 1 .. Len(s) /\ i < j - 1
      BY <1>1, <2>1, <2>5
    <3>2. NotAfter(s[i], s[j - 1])
      BY <1>1, <3>1 DEF InOrder
    <3> QED BY <1>9, <3>1, <3>2
  <2>6. CASE j > p + 1 /\ i > p + 1
    <3>1. /\ j \in p + 2 .. Len(s) + 1 /\ i \in p + 2 .. Len(s) + 1
          /\ j - 1 \in 1 .. Len(s) /\ i - 1 \in 1 .. Len(s) /\ i - 1 < j - 1
      BY <1>1, <1>11, <2>1, <2>6
    <3>2. NotAfter(s[i - 1], s[j - 1])
      BY <1>1, <3>1 DEF InOrder
    <3> QED BY <1>9, <3>1, <3>2
  <2> QED BY <2>1, <2>2, <2>3, <2>4, <2>5, <2>6
<1>12. InOrder(t)
  BY <1>10, <1>11 DEF InOrder
<1> QED BY <1>3, <1>9, <1>12

CoordInv == listed \in Seq(Names) /\ InOrder(listed)

LEMMA CoordHolds == CoordSpec => []CoordInv
<1>1. CoordInit => CoordInv
  BY DEF CoordInit, CoordInv, InOrder
<1>2. ASSUME CoordInv, [CoordNext]_listed PROVE CoordInv'
  <2>1. CASE UNCHANGED listed
    BY <1>2, <2>1 DEF CoordInv, InOrder
  <2>2. CASE CoordNext
    <3>1. PICK name \in Names : listed' = insert(listed, name)
      BY <2>2 DEF CoordNext, ReadEntry
    <3>2. listed' \in Seq(Names) /\ InOrder(listed')
      BY <1>2, <3>1, InsertOrdered DEF CoordInv
    <3> QED BY <3>2 DEF CoordInv, InOrder
  <2> QED BY <1>2, <2>1, <2>2
<1> QED BY <1>1, <1>2, PTL DEF CoordSpec

\* However many entries a directory has and in whatever order they are read, the
\* listing is sorted: coord.rs cmp_coord is a total preorder, as sort_by
\* requires, with coordinates before other names.
THEOREM ListingSorted == CoordSpec => []Sorted
<1>1. ASSUME CoordInv PROVE Sorted
  <2> SUFFICES ASSUME NEW i \in DOMAIN listed, NEW j \in DOMAIN listed, i < j
               PROVE  /\ cmp_coord(listed[i], listed[j]) # "Greater"
                      /\ is_coord(listed[j]) => is_coord(listed[i])
    BY DEF Sorted
  <2> DEFINE a == listed[i]
             b == listed[j]
  <2>1. NotAfter(a, b) /\ a \in Seq(Nat) /\ b \in Seq(Nat)
    BY <1>1, NamesAssumption DEF CoordInv, InOrder
  <2> HIDE DEF a, b
  <2>2. is_coord(b) => is_coord(a)
    <3>1. is_coord(b) /\ ~ is_coord(a) => cmp_coord(a, b) = "Greater"
      BY DEF cmp_coord
    <3> QED BY <2>1, <3>1 DEF NotAfter
  <2> QED BY <2>1, <2>2 DEF NotAfter, a, b
<1> QED BY <1>1, CoordHolds, PTL

-----------------------------------------------------------------------------
\* dedup of a listing in order.

\* u is what dedup has kept of the first k names of s: some of them, in order,
\* ending with the k-th, no two neighbours alike.
Kept(s, k, u) ==
  /\ u \in Seq(Names) /\ (k = 0 <=> u = <<>>)
  /\ k > 0 => u[Len(u)] = s[k]
  /\ \A i \in DOMAIN u : \E j \in 1 .. k : u[i] = s[j]
  /\ InOrder(u)
  /\ \A i \in 1 .. Len(u) - 1 : u[i] # u[i + 1]

LEMMA KeepNext ==
  ASSUME NEW s \in Seq(Names), InOrder(s), NEW k \in Nat, k + 1 <= Len(s), NEW u, Kept(s, k, u)
  PROVE  Kept(s, k + 1, IF k + 1 > 1 /\ s[k + 1] = s[k] THEN u ELSE Append(u, s[k + 1]))
<1> DEFINE x == s[k + 1]
           a == Append(u, x)
           n == Len(u)
<1>1. /\ Len(s) \in Nat /\ DOMAIN s = 1 .. Len(s) /\ k + 1 \in 1 .. Len(s) /\ x \in Names
      /\ u \in Seq(Names) /\ n \in Nat /\ DOMAIN u = 1 .. n
      /\ (\A i \in DOMAIN u : \E j \in 1 .. k : u[i] = s[j])
      /\ InOrder(u) /\ (\A i \in 1 .. n - 1 : u[i] # u[i + 1])
      /\ (k = 0 <=> u = <<>>) /\ (k > 0 => u[n] = s[k])
  BY DEF Kept
<1>2. CASE k + 1 > 1 /\ x = s[k]
  <2>1. k > 0 /\ k + 1 # 0 /\ u # <<>> /\ u[n] = x
    BY <1>1, <1>2
  <2>2. \A i \in DOMAIN u : \E j \in 1 .. k + 1 : u[i] = s[j]
    BY <1>1
  <2>3. Kept(s, k + 1, u)
    BY <1>1, <2>1, <2>2 DEF Kept
  <2> QED BY <1>2, <2>3
<1>3. CASE ~ (k + 1 > 1 /\ x = s[k])
  <2>1. /\ a \in Seq(Names) /\ a # <<>> /\ Len(a) = n + 1 /\ a[n + 1] = x
        /\ \A i \in 1 .. n : a[i] = u[i]
    <3> HIDE DEF x
    <3> QED BY <1>1, AppendProperties
  <2>2. DOMAIN a = 1 .. n + 1
    BY <2>1
  <2> HIDE DEF a, n
  <2>3. ASSUME NEW i \in DOMAIN a PROVE \E j \in 1 .. k + 1 : a[i] = s[j]
    <3>1. CASE i = n + 1
      BY <1>1, <2>1, <3>1
    <3>2. CASE i # n + 1
      <4>1. i \in 1 .. n
        BY <1>1, <2>2, <3>2
      <4>2. PICK j \in 1 .. k : u[i] = s[j]
        BY <1>1, <4>1
      <4>3. j \in 1 .. k + 1
        OBVIOUS
      <4> QED BY <2>1, <4>1, <4>2, <4>3
    <3> QED BY <3>1, <3>2
  <2>4. ASSUME NEW i \in 1 .. n PROVE NotAfter(a[i], x)
    <3>1. PICK j \in 1 .. k : u[i] = s[j]
      BY <1>1
    <3>2. j \in DOMAIN s /\ k + 1 \in DOMAIN s /\ j < k + 1
      BY <1>1
    <3>3. NotAfter(s[j], s[k + 1])
      BY <3>2 DEF InOrder
    <3> QED BY <2>1, <3>1, <3>3
  <2>5. InOrder(a)
    <3> SUFFICES ASSUME NEW i \in 1 .. n + 1, NEW j \in 1 .. n + 1, i < j
                 PROVE  NotAfter(a[i], a[j])
      BY <2>2 DEF InOrder
    <3>1. CASE j = n + 1
      <4>1. i \in 1 .. n
        BY <1>1, <3>1
      <4> QED BY <2>1, <2>4, <3>1, <4>1
    <3>2. CASE j # n + 1
      <4>1. i \in 1 .. n /\ j \in 1 .. n
        BY <1>1, <3>2
      <4> QED BY <1>1, <2>1, <4>1, ZenonT(40) DEF InOrder
    <3> QED BY <3>1, <3>2
  <2>6. ASSUME NEW i \in 1 .. (n + 1) - 1 PROVE a[i] # a[i + 1]
    <3>1. i \in 1 .. n
      BY <1>1
    <3>2. CASE i = n
      <4>1. n # 0 /\ u # <<>>
        BY <1>1, <3>1 DEF n
      <4>2. k > 0 /\ u[n] = s[k] /\ x # s[k]
        BY <1>1, <1>3, <4>1
      <4> QED BY <2>1, <3>1, <3>2, <4>2
    <3>3. CASE i # n
      <4>1. i \in 1 .. n - 1 /\ i + 1 \in 1 .. n
        BY <1>1, <3>1, <3>3
      <4> QED BY <1>1, <2>1, <3>1, <4>1
    <3> QED BY <3>2, <3>3
  <2>7. k + 1 # 0 /\ k + 1 > 0
    OBVIOUS
  <2>8. Kept(s, k + 1, a)
    BY <2>1, <2>3, <2>5, <2>6, <2>7 DEF Kept
  <2> QED BY <1>3, <2>8 DEF a
<1> QED BY <1>2, <1>3

LEMMA DedupKeeps ==
  ASSUME NEW s \in Seq(Names), InOrder(s)
  PROVE  Kept(s, Len(s), dedup(s))
<1> DEFINE n == Len(s)
           V == Seq(Names)
           c == <<>>
           Add(u, i) == IF i > 1 /\ s[i] = s[i - 1] THEN u ELSE Append(u, s[i])
           step == [i \in 1 .. n |-> [u \in V |-> Add(u, i)]]
           Body(g) == [i \in 0 .. Len(s) |->
                         IF i = 0 THEN <<>>
                         ELSE IF i > 1 /\ s[i] = s[i - 1] THEN g[i - 1] ELSE Append(g[i - 1], s[i])]
           h == CHOOSE g : g = Body(g)
<1>1. n \in Nat /\ c \in V /\ \A i \in 1 .. n : s[i] \in Names
  OBVIOUS
<1>2. step \in [1 .. n -> [V -> V]]
  BY <1>1
<1>3. \E f : Follows(f, n, V, c, step)
  <2> HIDE DEF step, n, V, c
  <2> QED BY <1>1, <1>2, Recursion
<1>4. PICK f \in [0 .. n -> V] : f[0] = c /\ \A i \in 1 .. n : f[i] = step[i][f[i - 1]]
  BY <1>3 DEF Follows
<1>5. f = Body(f)
  <2>1. ASSUME NEW i \in 0 .. n PROVE f[i] = Body(f)[i]
    <3>1. CASE i = 0
      BY <1>4, <3>1
    <3>2. CASE i # 0
      <4>1. i \in 1 .. n /\ i - 1 \in 0 .. n
        BY <1>1, <3>2
      <4>2. f[i - 1] \in V
        BY <4>1
      <4> QED BY <1>4, <3>2, <4>1, <4>2
    <3> QED BY <3>1, <3>2
  <2> QED BY <2>1
<1>6. dedup(s) = h[Len(s)]
  BY Zenon DEF dedup
<1>7. h = Body(h)
  <2> HIDE DEF Body
  <2> QED BY <1>5
<1>8. h[0] = <<>> /\ \A i \in 1 .. n : h[i] = IF i > 1 /\ s[i] = s[i - 1] THEN h[i - 1] ELSE Append(h[i - 1], s[i])
  <2> HIDE DEF h
  <2>1. 0 \in 0 .. n /\ \A i \in 1 .. n : i \in 0 .. n /\ i # 0
    BY <1>1
  <2> QED BY <1>7, <2>1
<1> HIDE DEF h
<1> DEFINE S == {k \in Nat : k <= n => Kept(s, k, h[k])}
<1>9. 0 \in S
  <2>1. Kept(s, 0, <<>>)
    <3>1. Len(<<>>) = 0 /\ DOMAIN <<>> = {} /\ <<>> \in Seq(Names) /\ 1 .. 0 - 1 = {}
      OBVIOUS
    <3> QED BY <3>1 DEF Kept, InOrder
  <2> QED BY <1>8, <2>1
<1>10. ASSUME NEW k \in Nat, k \in S PROVE k + 1 \in S
  <2> SUFFICES ASSUME k + 1 <= n PROVE Kept(s, k + 1, h[k + 1])
    OBVIOUS
  <2>1. k + 1 \in 1 .. n /\ (k + 1) - 1 = k /\ Kept(s, k, h[k]) /\ k + 1 <= Len(s)
    BY <1>1, <1>10
  <2>2. h[k + 1] = IF k + 1 > 1 /\ s[k + 1] = s[k] THEN h[k] ELSE Append(h[k], s[k + 1])
    BY <1>8, <2>1
  <2> QED BY <2>1, <2>2, KeepNext
<1>11. Nat \subseteq S
  <2> HIDE DEF S
  <2> QED BY <1>9, <1>10, SetInduction
<1> QED BY <1>1, <1>6, <1>11

\* dir_children sorts and calls Vec::dedup, which compares neighbours only: in
\* every listing it leaves each name once, unless another spelling of the same
\* coordinate is listed too.
THEOREM DedupSuffices == CoordSpec => []ListedOnce
<1>1. ASSUME CoordInv PROVE ListedOnce
  <2> DEFINE s == dedup(listed)
             n == Len(s)
  <2>1. Kept(listed, Len(listed), s)
    BY <1>1, DedupKeeps DEF CoordInv
  <2> HIDE DEF s
  <2>2. /\ s \in Seq(Names) /\ n \in Nat /\ DOMAIN s = 1 .. n /\ InOrder(s)
        /\ (\A i \in 1 .. n - 1 : s[i] # s[i + 1]) /\ (\A i \in 1 .. n : s[i] \in Seq(Nat))
    BY <2>1, NamesAssumption DEF Kept
  <2> HIDE DEF n
  <2>3. ASSUME NEW i \in 1 .. n, NEW j \in 1 .. n, i < j, s[i] = s[j]
        PROVE  \E k \in 1 .. n : s[k] # s[i] /\ cmp_coord(s[k], s[i]) = "Equal"
    <3>1. i \in 1 .. n - 1 /\ i + 1 \in 1 .. n /\ i < i + 1 /\ (i + 1 = j \/ i + 1 < j)
      BY <2>2, <2>3
    <3>2. s[i] # s[i + 1] /\ i + 1 # j
      BY <2>2, <2>3, <3>1
    <3>3. NotAfter(s[i], s[i + 1]) /\ NotAfter(s[i + 1], s[j])
      BY <2>2, <3>1, <3>2 DEF InOrder
    <3>4. cmp_coord(s[i + 1], s[i]) = "Equal"
      BY <2>2, <2>3, <3>1, <3>3, NamesTotal
    <3> QED BY <3>1, <3>2, <3>4
  <2>4. ASSUME NEW i \in 1 .. n, NEW j \in 1 .. n, i # j, s[i] = s[j]
        PROVE  \E k \in 1 .. n : s[k] # s[i] /\ cmp_coord(s[k], s[i]) = "Equal"
    <3>1. i < j \/ j < i
      BY <2>4
    <3> QED BY <2>3, <2>4, <3>1
  <2> QED BY <2>2, <2>4 DEF ListedOnce, s
<1> QED BY <1>1, CoordHolds, PTL

-----------------------------------------------------------------------------
\* The calendar.  The code counts in eras of 400 years that begin in March.
\* Start(y) and End(y) are the first day of the y-th year of an era and the day
\* after its last; the code's quotient Yoe is the one year a day lies in, so it
\* stays when a day is added, or advances by one at the end of February.

Yoe(doe) == (doe - doe \div 1460 + doe \div 36524 - doe \div 146096) \div 365
Start(y) == 365 * y + y \div 4 - y \div 100
End(y) == IF y = 399 THEN 146097 ELSE Start(y + 1)

\* Month and day of the doy-th day of a year that begins in March.
Mp(doy) == (5 * doy + 2) \div 153
Month(mp) == IF mp < 10 THEN mp + 3 ELSE mp - 9
DateOf(era, y, doy) ==
  <<y + era * 400 + (IF Month(Mp(doy)) <= 2 THEN 1 ELSE 0), Month(Mp(doy)),
    doy - (153 * Mp(doy) + 2) \div 5 + 1>>

\* The date after that of the calendar.
After(d) ==
  IF d[3] < DaysIn(d[1], d[2]) THEN <<d[1], d[2], d[3] + 1>>
  ELSE IF d[2] < 12 THEN <<d[1], d[2] + 1, 1>>
  ELSE <<d[1] + 1, 1, 1>>

\* The code's quotient, which corrects doe / 365 by the leap days, is the year
\* in which day doe of an era lies.
LEMMA YearOfDay ==
  ASSUME NEW doe \in Int, 0 <= doe, doe <= 146096
  PROVE  /\ Yoe(doe) \in Int /\ 0 <= Yoe(doe) /\ Yoe(doe) <= 399
         /\ Start(Yoe(doe)) <= doe /\ doe < End(Yoe(doe))
  <1>1. Yoe(doe) \in Int /\ 0 <= Yoe(doe) /\ Yoe(doe) <= 399
    BY SMTT(60) DEF Yoe
  <1>2. Start(Yoe(doe)) <= doe
    BY SMTT(60) DEF Yoe, Start
  <1>3. CASE Yoe(doe) = 399
    BY <1>1, <1>2, <1>3, SMTT(30) DEF End
  <1>4. CASE Yoe(doe) # 399
    <2>1. doe < Start(Yoe(doe) + 1)
      BY <1>4, SMTT(60) DEF Yoe, Start
    <2>. QED BY <1>1, <1>2, <1>4, <2>1, SMTT(30) DEF End
  <1>. QED BY <1>3, <1>4, SMTT(30)

\* The years of an era do not overlap.
LEMMA OneYear ==
  ASSUME NEW d \in Int, NEW y \in Int, 0 <= y, y <= 399, Start(y) <= d, d < End(y),
         NEW x \in Int, 0 <= x, x <= 399, Start(x) <= d, d < End(x)
  PROVE  x = y
  <1>1. \A a, b \in Int : 0 <= a /\ a < b /\ b <= 399 => End(a) <= Start(b)
    BY SMTT(30) DEF Start, End
  <1>2. \A a \in Int : Start(a) \in Int /\ End(a) \in Int
    BY SMTT(30) DEF Start, End
  <1>3. CASE x < y
    <2>1. End(x) <= Start(y)
      BY <1>1, <1>3, SMTT(30)
    <2>. QED BY <1>2, <2>1, SMTT(30)
  <1>4. CASE y < x
    <2>1. End(y) <= Start(x)
      BY <1>1, <1>4, SMTT(30)
    <2>. QED BY <1>2, <2>1, SMTT(30)
  <1>. QED BY <1>3, <1>4, SMTT(30)

\* A year that begins in March has the leap day of the next calendar year.
LEMMA YearLength ==
  ASSUME NEW era \in Int, NEW y \in Int, 0 <= y, y <= 399
  PROVE  End(y) - Start(y) = IF Leap(y + era * 400 + 1) THEN 366 ELSE 365
  BY SMTT(60) DEF Start, End, Leap

\* Within a year the next day is the next date.
LEMMA SameYear ==
  ASSUME NEW era \in Int, NEW y \in Int, NEW doy \in Int, 0 <= doy,
         doy + 1 < IF Leap(y + era * 400 + 1) THEN 366 ELSE 365
  PROVE  DateOf(era, y, doy + 1) = After(DateOf(era, y, doy))
  <1>1. CASE doy <= 305
    BY <1>1, SMTT(60) DEF DateOf, After, Mp, Month, DaysIn
  <1>2. CASE doy > 305
    BY <1>2, SMTT(60) DEF DateOf, After, Mp, Month, DaysIn
  <1>. QED BY <1>1, <1>2, SMTT(30)

\* The last day of a year is the last of February, and March follows.
LEMMA NewYear ==
  ASSUME NEW era \in Int, NEW y \in Int, NEW doy \in Int,
         NEW next \in Int, next = y + era * 400 + 1,
         ((Leap(next) /\ doy = 365) \/ (~ Leap(next) /\ doy = 364))
  PROVE  After(DateOf(era, y, doy)) = <<next, 3, 1>>
  <1>1. doy \in {364, 365}
    OBVIOUS
  <1>2. Mp(doy) = 11 /\ Month(11) = 2
    BY <1>1, SMTT(30) DEF Mp, Month
  <1>. QED BY <1>1, <1>2, SMTT(30) DEF DateOf, After, DaysIn

LEMMA MarchFirst ==
  ASSUME NEW era \in Int, NEW y \in Int
  PROVE  DateOf(era, y, 0) = <<y + era * 400, 3, 1>>
  <1>1. Mp(0) = 0 /\ Month(0) = 3
    BY SMTT(30) DEF Mp, Month
  <1>. QED BY <1>1, SMTT(30) DEF DateOf

\* What the code computes, in these terms.
LEMMA CivilDef ==
  ASSUME NEW n \in Int, NEW era \in Int, NEW doe \in Int,
         n + 719468 = era * 146097 + doe, 0 <= doe, doe <= 146096
  PROVE  civil_from_days(n) = DateOf(era, Yoe(doe), doe - Start(Yoe(doe)))
  <1>1. (n + 719468) \div 146097 = era
    OBVIOUS
  <1>2. (n + 719468) - era * 146097 = doe
    OBVIOUS
  <1>. DEFINE e == (n + 719468) \div 146097
              d == (n + 719468) - e * 146097
  <1>3. civil_from_days(n) = DateOf(e, Yoe(d), d - Start(Yoe(d)))
    BY SMTT(30) DEF civil_from_days, DateOf, Yoe, Start, Mp, Month
  <1>4. e = era /\ d = doe
    BY <1>1, <1>2, SMTT(30)
  <1>. HIDE DEF e, d
  <1>. QED BY ONLY <1>3, <1>4, SMTT(30)

\* The code's dates advance as the calendar does.
LEMMA CivilSucc ==
  ASSUME NEW n \in Nat
  PROVE  civil_from_days(n + 1) = After(civil_from_days(n))
  <1> DEFINE era == (n + 719468) \div 146097
             doe == (n + 719468) - era * 146097
             y == Yoe(doe)
             doy == doe - Start(y)
  <1>1. era \in Int /\ doe \in Int /\ 0 <= doe /\ doe <= 146096 /\ n + 719468 = era * 146097 + doe
    OBVIOUS
  <1>0. y = Yoe(doe) /\ doy = doe - Start(y)
    BY SMTT(30)
  <1>. HIDE DEF era, doe, y, doy
  <1>2. civil_from_days(n) = DateOf(era, y, doy)
    BY <1>0, <1>1, CivilDef, SMTT(30)
  <1>3. y \in Int /\ 0 <= y /\ y <= 399 /\ Start(y) <= doe /\ doe < End(y)
    BY <1>0, <1>1, YearOfDay, SMTT(30)
  <1>4. Start(y) \in Int /\ End(y) \in Int /\ doy \in Int /\ 0 <= doy
    <2>1. \A a \in Int : Start(a) \in Int /\ End(a) \in Int
      BY SMTT(30) DEF Start, End
    <2>. QED BY <1>0, <1>1, <1>3, <2>1, SMTT(30)
  <1>5. End(y) - Start(y) = IF Leap(y + era * 400 + 1) THEN 366 ELSE 365
    BY <1>1, <1>3, YearLength, SMTT(30)
  <1>6. CASE doe + 1 < End(y)
    <2>1. doe + 1 <= 146096
      BY <1>1, <1>3, <1>6, SMTT(60) DEF End, Start
    <2>2. Yoe(doe + 1) = y
      <3>1. /\ Yoe(doe + 1) \in Int /\ 0 <= Yoe(doe + 1) /\ Yoe(doe + 1) <= 399
            /\ Start(Yoe(doe + 1)) <= doe + 1 /\ doe + 1 < End(Yoe(doe + 1))
        BY <1>1, <2>1, YearOfDay, SMTT(30)
      <3>2. Start(y) <= doe + 1 /\ doe + 1 \in Int
        BY <1>1, <1>3, <1>4, SMTT(30)
      <3>. QED BY <1>3, <1>6, <3>1, <3>2, OneYear, SMTT(30)
    <2>3. civil_from_days(n + 1) = DateOf(era, y, (doe + 1) - Start(y))
      <3>. DEFINE m == n + 1
                  d == doe + 1
      <3>1. m \in Int /\ era \in Int /\ d \in Int /\ m + 719468 = era * 146097 + d /\ 0 <= d /\ d <= 146096
        BY <1>1, <2>1, SMTT(30)
      <3>2. Yoe(d) = y
        BY <2>2, SMTT(30)
      <3>3. civil_from_days(m) = DateOf(era, Yoe(d), d - Start(Yoe(d)))
        <4>. HIDE DEF m, d
        <4>. QED BY ONLY <3>1, CivilDef, SMTT(30)
      <3>4. civil_from_days(m) = DateOf(era, y, d - Start(y))
        BY ONLY <3>2, <3>3, ZenonT(30)
      <3>. QED BY ONLY <3>4, ZenonT(30) DEF m, d
    <2>4. (doe + 1) - Start(y) = doy + 1
      BY <1>0, <1>1, <1>4, SMTT(30)
    <2>5. doy + 1 < IF Leap(y + era * 400 + 1) THEN 366 ELSE 365
      BY <1>0, <1>1, <1>4, <1>5, <1>6, SMTT(30)
    <2>6. DateOf(era, y, doy + 1) = After(DateOf(era, y, doy))
      BY <1>1, <1>3, <1>4, <2>5, SameYear, SMTT(30)
    <2>. QED BY <1>2, <2>3, <2>4, <2>6, SMTT(30)
  <1>7. CASE doe + 1 = End(y)
    <2>1. doy + 1 = IF Leap(y + era * 400 + 1) THEN 366 ELSE 365
      BY <1>0, <1>1, <1>4, <1>5, <1>7, SMTT(30)
    <2>2. After(DateOf(era, y, doy)) = <<y + era * 400 + 1, 3, 1>>
      <3>. DEFINE next == y + era * 400 + 1
      <3>1. /\ era \in Int /\ y \in Int /\ doy \in Int /\ next \in Int /\ next = y + era * 400 + 1
            /\ ((Leap(next) /\ doy = 365) \/ (~ Leap(next) /\ doy = 364))
        BY <1>1, <1>3, <1>4, <2>1, SMTT(30)
      <3>2. After(DateOf(era, y, doy)) = <<next, 3, 1>>
        <4>. HIDE DEF next
        <4>. QED BY ONLY <3>1, NewYear, SMTT(30)
      <3>. QED BY ONLY <3>2, ZenonT(30) DEF next
    <2>3. CASE y = 399
      <3>1. doe = 146096
        BY <1>1, <1>7, <2>3, SMTT(30) DEF End
      <3>2. Yoe(0) = 0 /\ Start(0) = 0
        BY SMTT(30) DEF Yoe, Start
      <3>3. civil_from_days(n + 1) = DateOf(era + 1, 0, 0)
        BY <1>1, <3>1, <3>2, CivilDef, SMTT(30)
      <3>4. DateOf(era + 1, 0, 0) = <<0 + (era + 1) * 400, 3, 1>>
        BY <1>1, MarchFirst, SMTT(30)
      <3>. QED BY <1>1, <1>2, <2>2, <2>3, <3>3, <3>4, SMTT(30)
    <2>4. CASE y # 399
      <3>1. doe + 1 = Start(y + 1) /\ doe + 1 <= 146096
        BY <1>1, <1>3, <1>7, <2>4, SMTT(60) DEF End, Start
      <3>2. y + 1 \in Int /\ 0 <= y + 1 /\ y + 1 <= 399 /\ doe + 1 < End(y + 1)
        BY <1>1, <1>3, <2>4, <3>1, SMTT(60) DEF End, Start
      <3>3. /\ Yoe(doe + 1) \in Int /\ 0 <= Yoe(doe + 1) /\ Yoe(doe + 1) <= 399
            /\ Start(Yoe(doe + 1)) <= doe + 1 /\ doe + 1 < End(Yoe(doe + 1))
        BY <1>1, <3>1, YearOfDay, SMTT(30)
      <3>4. Yoe(doe + 1) = y + 1
        <4>1. Start(y + 1) <= doe + 1 /\ doe + 1 \in Int
          BY <1>1, <3>1, SMTT(30)
        <4>. QED BY <3>2, <3>3, <4>1, OneYear, SMTT(30)
      <3>5. doe + 1 - Start(y + 1) = 0
        BY <1>1, <3>1, SMTT(30)
      <3>6. civil_from_days(n + 1) = DateOf(era, y + 1, 0)
        BY <1>1, <3>1, <3>4, <3>5, CivilDef, SMTT(30)
      <3>7. DateOf(era, y + 1, 0) = <<y + 1 + era * 400, 3, 1>>
        <4>. DEFINE next == y + 1
        <4>1. era \in Int /\ next \in Int
          BY <1>1, <1>3, SMTT(30)
        <4>2. DateOf(era, next, 0) = <<next + era * 400, 3, 1>>
          <5>. HIDE DEF next
          <5>. QED BY ONLY <4>1, MarchFirst, SMTT(30)
        <4>. QED BY ONLY <4>2, SMTT(30)
      <3>. QED BY <1>1, <1>2, <1>3, <2>2, <3>6, <3>7, SMTT(30)
    <2>. QED BY <2>3, <2>4, SMTT(30)
  <1>. QED BY <1>1, <1>3, <1>4, <1>6, <1>7, SMTT(30)

\* On every day from 1970-01-01 on the date a request is signed with is that of
\* the Gregorian calendar: one step of the calendar is one step of the code.
THEOREM DatesAgree == DateSpec => []DateAgrees
  <1> DEFINE Inv == day \in Nat /\ DateAgrees
  <1>1. DateInit => Inv
    BY SMTT(30) DEF DateInit, DateAgrees, civil_from_days
  <1>2. Inv /\ [NextDay]_date_vars => Inv'
    <2> SUFFICES ASSUME Inv, [NextDay]_date_vars PROVE Inv'
      OBVIOUS
    <2>1. CASE NextDay
      <3>1. day' = day + 1 /\ date' = After(date)
        BY <2>1, SMTT(30) DEF NextDay, After
      <3>2. date = civil_from_days(day) /\ day \in Nat
        BY SMTT(30) DEF DateAgrees
      <3>3. civil_from_days(day + 1) = After(civil_from_days(day))
        BY <3>2, CivilSucc, SMTT(30)
      <3>. QED BY <3>1, <3>2, <3>3, SMTT(30) DEF DateAgrees
    <2>2. CASE UNCHANGED date_vars
      BY <2>2, SMTT(30) DEF date_vars, DateAgrees
    <2>. QED BY <2>1, <2>2, SMTT(30)
  <1>3. Inv => DateAgrees
    OBVIOUS
  <1>. QED BY <1>1, <1>2, <1>3, PTL DEF DateSpec

-----------------------------------------------------------------------------
\* All of them in one specification.

\* A behaviour of MCCodec is one of each of the three parts, two of them resting.
LEMMA Parts == Spec => CodecSpec /\ CoordSpec /\ DateSpec
<1>1. Init => CodecInit /\ CoordInit /\ DateInit
  BY DEF Init
<1>2. [Next]_mc_vars => [CodecNext]_codec_vars /\ [CoordNext]_listed /\ [NextDay]_date_vars
  <2>1. CASE UNCHANGED mc_vars
    BY <2>1 DEF mc_vars
  <2>2. CASE Next
    BY <2>2 DEF Next
  <2> QED BY <2>1, <2>2
<1> QED BY <1>1, <1>2, PTL DEF Spec, CodecSpec, CoordSpec, DateSpec

LEMMA DateTyped == DateSpec => [](date \in Nat \X (1 .. 12) \X (1 .. 31))
<1> DEFINE T == Nat \X (1 .. 12) \X (1 .. 31)
           Typed == date \in T
<1>1. DateInit => Typed
  BY DEF DateInit
<1>2. Typed /\ [NextDay]_date_vars => Typed'
  <2> SUFFICES ASSUME Typed, [NextDay]_date_vars PROVE Typed'
    OBVIOUS
  <2>1. CASE UNCHANGED date_vars
    BY <2>1 DEF date_vars
  <2>2. CASE NextDay
    <3>1. PICK y \in Nat, m \in 1 .. 12, d \in 1 .. 31 : date = <<y, m, d>>
      BY SMTT(30)
    <3>2. DaysIn(y, m) \in Nat /\ DaysIn(y, m) <= 31
      BY SMTT(30) DEF DaysIn
    <3>3. date' = IF d < DaysIn(y, m) THEN <<y, m, d + 1>>
                  ELSE IF m < 12 THEN <<y, m + 1, 1>> ELSE <<y + 1, 1, 1>>
      BY <2>2, <3>1, SMTT(30) DEF NextDay
    <3> QED BY <3>2, <3>3, SMTT(30)
  <2> QED BY <2>1, <2>2
<1> QED BY <1>1, <1>2, PTL DEF DateSpec

\* Whatever is built, patched and stored again, every stored byte fits a byte
\* (raw_bytes splits what is wider, the lengths are checked against the fields
\* of the head), listings hold names only, and the calendar never leaves the
\* months and days there are: the codec's write paths (xvalue.rs to_wire,
\* headlenpow.rs to_wire_varlen, set_part), coord.rs and s3/sigv4.rs.
THEOREM AlgorithmsTyped == Spec => []TypeOK
<1>1. CodecInv => CodecTypeOK
  BY Elements DEF CodecInv, CodecTypeOK
<1>2. CoordInv => listed \in Seq(Names)
  BY DEF CoordInv
<1>3. CodecTypeOK /\ listed \in Seq(Names) /\ date \in Nat \X (1 .. 12) \X (1 .. 31) => TypeOK
  BY DEF TypeOK
<1> QED BY <1>1, <1>2, <1>3, Parts, CodecInvariant, CoordHolds, DateTyped, PTL
=============================================================================
