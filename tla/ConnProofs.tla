----------------------------- MODULE ConnProofs -----------------------------
(***************************************************************************)
(* Proofs about the stores behind conn (Conn, RedisStore, S3Store).        *)
(***************************************************************************)
EXTENDS Conn, DataTheorems

-----------------------------------------------------------------------------
\* The framing of RESP replies.

Token == [kind : {"+", "-", ":", "$", "*", "data"}, n : Int, val : Word, by : Nat]

\* f counts, after each piece of got, the pieces that are still needed.
Counts(f, got) ==
  /\ f \in [0 .. Len(got) -> Int]
  /\ f[0] = 1
  /\ \A i \in 1 .. Len(got) : f[i] = Took(got[i], f[i - 1])

\* Reading got leaves k pieces to read, and no earlier end.
Reads(got, k) ==
  \E f : Counts(f, got) /\ f[Len(got)] = k /\ \A i \in 0 .. Len(got) - 1 : f[i] > 0

LEMMA TookType ==
  ASSUME NEW t \in Token, NEW k \in Int
  PROVE  Took(t, k) \in Int
BY DEF Took, Token

\* The recursive definition of Needed is the count of the pieces.
LEMMA NeededCounts ==
  ASSUME NEW got \in Seq(Token), NEW f, Counts(f, got)
  PROVE  Needed(got) = f[Len(got)]
<1> DEFINE n == Len(got)
           Body(g) == [i \in 0 .. Len(got) |-> IF i = 0 THEN 1 ELSE Took(got[i], g[i - 1])]
<1>1. n \in Nat /\ \A i \in 1 .. n : got[i] \in Token
  OBVIOUS
<1>3. f = Body(f)
  <2>1. \A i \in 0 .. n : f[i] = Body(f)[i]
    BY <1>1 DEF Counts
  <2> QED BY <2>1 DEF Counts
<1>4. Needed(got) = (CHOOSE g : g = Body(g))[Len(got)]
  BY Zenon DEF Needed
<1> DEFINE h == CHOOSE g : g = Body(g)
<1>5. h = Body(h)
  <2> HIDE DEF Body
  <2> QED BY <1>3
<1>6. h[0] = 1 /\ \A i \in 1 .. n : h[i] = Took(got[i], h[i - 1])
  <2> HIDE DEF h
  <2> QED BY <1>1, <1>5
<1>7. \A i \in 0 .. n : f[i] = h[i]
  <2> HIDE DEF h
  <2> DEFINE S == {k \in Nat : k <= n => f[k] = h[k]}
  <2>1. 0 \in S
    BY <1>6 DEF Counts
  <2>2. ASSUME NEW k \in Nat, k \in S PROVE k + 1 \in S
    <3> SUFFICES ASSUME k + 1 <= n PROVE f[k + 1] = h[k + 1]
      OBVIOUS
    <3>1. k + 1 \in 1 .. n /\ (k + 1) - 1 = k /\ f[k] = h[k]
      BY <1>1, <2>2
    <3> QED BY <1>6, <3>1 DEF Counts
  <2>3. Nat \subseteq S
    <3> HIDE DEF S
    <3> QED BY <2>1, <2>2, SetInduction
  <2> QED BY <2>3
<1>8. n \in 0 .. n
  BY <1>1
<1> HIDE DEF h
<1> QED BY <1>4, <1>7, <1>8 DEF h

LEMMA ReadsNeeded ==
  ASSUME NEW whole \in Seq(Token), NEW k, Reads(whole, k), NEW n \in 1 .. Len(whole)
  PROVE  /\ n < Len(whole) => Needed(SubSeq(whole, 1, n)) > 0
         /\ n = Len(whole) => Needed(SubSeq(whole, 1, n)) = k
<1>1. PICK f : Counts(f, whole) /\ f[Len(whole)] = k /\ \A i \in 0 .. Len(whole) - 1 : f[i] > 0
  BY DEF Reads
<1> DEFINE got == SubSeq(whole, 1, n)
           g == [i \in 0 .. n |-> f[i]]
<1>2. got \in Seq(Token) /\ Len(got) = n /\ \A i \in 1 .. n : got[i] = whole[i]
  OBVIOUS
<1>3. Counts(g, got)
  <2> HIDE DEF got
  <2>1. g \in [0 .. n -> Int] /\ g[0] = 1
    <3>1. 0 \in 0 .. n /\ \A i \in 0 .. n : i \in 0 .. Len(whole)
      OBVIOUS
    <3>2. f[0] = 1 /\ \A i \in 0 .. n : f[i] \in Int
      BY <1>1, <3>1 DEF Counts
    <3> QED BY <3>1, <3>2
  <2>2. ASSUME NEW i \in 1 .. n PROVE g[i] = Took(got[i], g[i - 1])
    <3>1. i \in 1 .. Len(whole) /\ i - 1 \in 0 .. n
      OBVIOUS
    <3> QED BY <1>1, <1>2, <3>1, SMTT(20) DEF Counts
  <2> QED BY <1>2, <2>1, <2>2 DEF Counts
<1>4. Needed(got) = g[n]
  BY <1>2, <1>3, NeededCounts
<1>5. n \in 0 .. n /\ g[n] = f[n]
  OBVIOUS
<1> QED BY <1>1, <1>4, <1>5

LEMMA ReadsNothing == Reads(<<>>, 1)
<1> DEFINE f == [i \in 0 .. 0 |-> 1]
<1>1. Counts(f, <<>>) /\ f[Len(<<>>)] = 1 /\ \A i \in 0 .. Len(<<>>) - 1 : f[i] > 0
  BY DEF Counts
<1> QED BY <1>1 DEF Reads

LEMMA ReadsOne ==
  ASSUME NEW got \in Seq(Token), NEW k \in Int, Reads(got, k), k > 0, NEW t \in Token
  PROVE  Reads(Append(got, t), Took(t, k))
<1>1. PICK f : Counts(f, got) /\ f[Len(got)] = k /\ \A i \in 0 .. Len(got) - 1 : f[i] > 0
  BY DEF Reads
<1> DEFINE n == Len(got)
           g == [i \in 0 .. n + 1 |-> IF i = n + 1 THEN Took(t, k) ELSE f[i]]
           all == Append(got, t)
<1>2. /\ n \in Nat /\ Len(all) = n + 1 /\ all[n + 1] = t
      /\ \A i \in 1 .. n : all[i] = got[i]
  OBVIOUS
<1>3. Took(t, k) \in Int
  BY TookType
<1>4. Counts(g, all)
  <2> HIDE DEF all
  <2>1. g \in [0 .. Len(all) -> Int] /\ g[0] = 1
    BY <1>1, <1>2, <1>3 DEF Counts
  <2>2. ASSUME NEW i \in 1 .. n + 1 PROVE g[i] = Took(all[i], g[i - 1])
    <3>1. CASE i = n + 1
      BY <1>1, <1>2, <3>1
    <3>2. CASE i # n + 1
      BY <1>1, <1>2, <3>2 DEF Counts
    <3> QED BY <3>1, <3>2
  <2> QED BY <1>2, <2>1, <2>2 DEF Counts
<1>5. g[Len(all)] = Took(t, k) /\ \A i \in 0 .. Len(all) - 1 : g[i] > 0
  <2> HIDE DEF all
  <2> QED BY <1>1, <1>2
<1> QED BY <1>4, <1>5 DEF Reads

\* f is, after each element of s, what of it Filter keeps.
Filters(f, T, s, P) ==
  /\ f \in [0 .. Len(s) -> Seq(T)] /\ f[0] = <<>> /\ Filter(s, P) = f[Len(s)]
  /\ \A i \in 1 .. Len(s) : f[i] = IF s[i] \in P THEN Append(f[i - 1], s[i]) ELSE f[i - 1]

LEMMA FilterDef ==
  ASSUME NEW T, NEW s \in Seq(T), NEW P
  PROVE  \E f : Filters(f, T, s, P)
<1> DEFINE n == Len(s)
           V == Seq(T)
           c == <<>>
           step == [i \in 1 .. n |-> [u \in V |-> IF s[i] \in P THEN Append(u, s[i]) ELSE u]]
           Body(g) == [i \in 0 .. Len(s) |->
                         IF i = 0 THEN <<>> ELSE IF s[i] \in P THEN Append(g[i - 1], s[i]) ELSE g[i - 1]]
           h == CHOOSE g : g = Body(g)
<1>1. n \in Nat
  OBVIOUS
<1>2. c \in V
  OBVIOUS
<1>3. step \in [1 .. n -> [V -> V]]
  OBVIOUS
<1>4. \E f : Follows(f, n, V, c, step)
  <2> HIDE DEF step, n, V, c
  <2> QED BY <1>1, <1>2, <1>3, Recursion
<1>5. PICK f \in [0 .. n -> V] : f[0] = c /\ \A i \in 1 .. n : f[i] = step[i][f[i - 1]]
  BY <1>4 DEF Follows
<1>6. ASSUME NEW i \in 1 .. n
      PROVE  f[i] = IF s[i] \in P THEN Append(f[i - 1], s[i]) ELSE f[i - 1]
  <2>1. i - 1 \in 0 .. n
    BY <1>1
  <2>2. f[i - 1] \in V
    BY <2>1
  <2> QED BY <1>5, <2>2
<1>7. f = Body(f)
  <2>1. ASSUME NEW i \in 0 .. n PROVE f[i] = Body(f)[i]
    <3>1. CASE i = 0
      BY <1>5, <3>1
    <3>2. CASE i # 0
      <4>1. i \in 1 .. n
        BY <1>1, <3>2
      <4> QED BY <1>6, <3>2, <4>1
    <3> QED BY <3>1, <3>2
  <2> QED BY <2>1
<1>8. Filter(s, P) = h[Len(s)]
  BY Zenon DEF Filter
<1>9. h = Body(h)
  <2> HIDE DEF Body
  <2> QED BY <1>7
<1>10. \A i \in 0 .. n : h[i] = IF i = 0 THEN <<>> ELSE IF s[i] \in P THEN Append(h[i - 1], s[i]) ELSE h[i - 1]
  <2> HIDE DEF h
  <2> QED BY <1>9
<1> HIDE DEF h
<1> DEFINE S == {k \in Nat : k <= n => f[k] = h[k]}
<1>11. 0 \in S
  BY <1>5, <1>10
<1>12. ASSUME NEW k \in Nat, k \in S PROVE k + 1 \in S
  <2> SUFFICES ASSUME k + 1 <= n PROVE f[k + 1] = h[k + 1]
    OBVIOUS
  <2>1. k + 1 \in 1 .. n /\ k + 1 \in 0 .. n /\ k + 1 # 0 /\ (k + 1) - 1 = k /\ f[k] = h[k]
    BY <1>1, <1>12
  <2>2. f[k + 1] = IF s[k + 1] \in P THEN Append(f[k], s[k + 1]) ELSE f[k]
    BY <1>6, <2>1
  <2>3. h[k + 1] = IF s[k + 1] \in P THEN Append(h[k], s[k + 1]) ELSE h[k]
    BY <1>10, <2>1
  <2> QED BY <2>1, <2>2, <2>3
<1>13. Nat \subseteq S
  <2> HIDE DEF S
  <2> QED BY <1>11, <1>12, SetInduction
<1>14. f[n] = h[n]
  <2>1. n \in S
    BY <1>1, <1>13
  <2> QED BY <1>1, <2>1
<1> QED BY <1>5, <1>6, <1>8, <1>14 DEF Filters

LEMMA FilterType ==
  ASSUME NEW T, NEW s \in Seq(T), NEW P
  PROVE  Filter(s, P) \in Seq(T)
<1>1. PICK f : Filters(f, T, s, P)
  BY FilterDef
<1>2. Len(s) \in 0 .. Len(s)
  OBVIOUS
<1> QED BY <1>1, <1>2 DEF Filters

\* A bulk string is one of the pieces a reply needs.
LEMMA ReadsBulk ==
  ASSUME NEW got \in Seq(Token), NEW k \in Int, Reads(got, k), k > 0, NEW v \in Word
  PROVE  /\ Bulk(v) \in Seq(Token)
         /\ got \o Bulk(v) \in Seq(Token)
         /\ Reads(got \o Bulk(v), k - 1)
<1> DEFINE line(n) == Tok("$", n, <<>>)
           data == Tok("data", 0, v)
<1>1. <<>> \in Word /\ \A n \in Int : line(n) \in Token
  BY DEF Tok, Token, Word
<1>2. data \in Token
  BY DEF Tok, Token
<1>3. CASE v = Missing
  <2>1. Bulk(v) = <<line(-1)>>
    BY <1>3 DEF Bulk
  <2>2. got \o Bulk(v) = Append(got, line(-1))
    BY <1>1, <2>1
  <2>3. Took(line(-1), k) = k - 1
    BY DEF Took, Tok
  <2>4. Reads(Append(got, line(-1)), k - 1)
    <3> HIDE DEF line
    <3> QED BY <1>1, <2>3, ReadsOne
  <2>5. line(-1) \in Token
    BY <1>1
  <2> HIDE DEF line
  <2>6. Bulk(v) \in Seq(Token)
    BY <2>1, <2>5
  <2> QED BY <2>2, <2>4, <2>6
<1>4. CASE v # Missing
  <2> DEFINE l == line(Len(v))
  <2>1. Len(v) \in Nat
    BY DEF Word
  <2>2. l \in Token
    BY <1>1, <2>1
  <2>3. Bulk(v) = <<l, data>>
    BY <1>4 DEF Bulk
  <2>4. Took(l, k) = k
    BY <2>1 DEF Took, Tok
  <2>5. Took(data, k) = k - 1
    BY DEF Took, Tok
  <2> HIDE DEF line, data, l
  <2>6. Reads(Append(got, l), k) /\ Append(got, l) \in Seq(Token)
    BY <2>2, <2>4, ReadsOne
  <2>7. Reads(Append(Append(got, l), data), k - 1)
    BY <1>2, <2>5, <2>6, ReadsOne
  <2>8. got \o Bulk(v) = Append(Append(got, l), data)
    BY <1>2, <2>2, <2>3
  <2>9. Bulk(v) \in Seq(Token)
    BY <1>2, <2>2, <2>3
  <2>10. got \o Bulk(v) \in Seq(Token)
    BY <2>9, ConcatProperties
  <2> QED BY <2>7, <2>8, <2>9, <2>10
<1> QED BY <1>3, <1>4

LEMMA TokensConcat ==
  \A x, y, z \in Seq(Token) : (x \o y) \o z = x \o (y \o z)
BY ConcatAssociative

\* So is an array of them.
LEMMA ReadsArray ==
  ASSUME NEW got \in Seq(Token), NEW k \in Int, Reads(got, k), k > 0,
         NEW items, NEW m \in Nat, NEW v \in [1 .. m -> Word], items = [i \in 1 .. m |-> Bulk(v[i])]
  PROVE  /\ Array(items) \in Seq(Token)
         /\ got \o Array(items) \in Seq(Token)
         /\ Reads(got \o Array(items), k - 1)
<1> DEFINE line == Tok("*", m, <<>>)
           start == Append(got, line)
<1>1. line \in Token
  BY DEF Tok, Token, Word
<1>2. \A i \in 1 .. m : Bulk(v[i]) \in Seq(Token)
  BY ReadsNothing, ReadsBulk, <<>> \in Seq(Token), 1 > 0
<1>3. items \in Seq(Seq(Token)) /\ Len(items) = m
  BY <1>2
<1>4. PICK f \in [0 .. m -> Seq(Token)] :
        /\ f[0] = <<>> /\ FlattenSeq(items) = f[m]
        /\ \A i \in 1 .. m : f[i] = f[i - 1] \o items[i]
  <2>1. PICK f \in [0 .. Len(items) -> Seq(Token)] :
          /\ f[0] = <<>> /\ FlattenSeq(items) = f[Len(items)]
          /\ \A i \in 1 .. Len(items) : f[i] = f[i - 1] \o items[i]
    BY <1>3, Flatten, ZenonT(40)
  <2> QED BY <1>3, <2>1
<1>5. start \in Seq(Token) /\ Reads(start, k - 1 + m)
  <2>1. Took(line, k) = k - 1 + m
    BY DEF Took, Tok
  <2> HIDE DEF line
  <2> QED BY <1>1, <2>1, ReadsOne
<1> DEFINE J == {j \in Nat : j <= m => Reads(start \o f[j], k - 1 + m - j)}
<1> HIDE DEF start
<1>6. 0 \in J
  <2>1. start \o f[0] = start
    BY <1>4, <1>5, ConcatEmptySeq
  <2>2. k - 1 + m = k - 1 + m - 0
    OBVIOUS
  <2> QED BY <1>5, <2>1, <2>2
<1>7. ASSUME NEW j \in Nat, j \in J PROVE j + 1 \in J
  <2> SUFFICES ASSUME j + 1 <= m PROVE Reads(start \o f[j + 1], k - 1 + m - (j + 1))
    OBVIOUS
  <2>1. /\ j \in 0 .. m /\ j + 1 \in 1 .. m /\ (j + 1) - 1 = j
        /\ k - 1 + m - j \in Int /\ k - 1 + m - j > 0
        /\ (k - 1 + m - j) - 1 = k - 1 + m - (j + 1)
    OBVIOUS
  <2>2. Reads(start \o f[j], k - 1 + m - j)
    BY <1>7, <2>1
  <2>3. f[j] \in Seq(Token) /\ v[j + 1] \in Word
    BY <2>1
  <2>4. start \o f[j] \in Seq(Token)
    BY <1>5, <2>3
  <2>5. Reads((start \o f[j]) \o Bulk(v[j + 1]), (k - 1 + m - j) - 1)
    BY <2>1, <2>2, <2>3, <2>4, ReadsBulk
  <2>6. f[j + 1] = f[j] \o Bulk(v[j + 1])
    BY <1>4, <2>1
  <2>7. (start \o f[j]) \o Bulk(v[j + 1]) = start \o f[j + 1]
    <3>1. Bulk(v[j + 1]) \in Seq(Token)
      BY <1>2, <2>1
    <3>2. (start \o f[j]) \o Bulk(v[j + 1]) = start \o (f[j] \o Bulk(v[j + 1]))
      <4>1. start \in Seq(Token) /\ f[j] \in Seq(Token) /\ Bulk(v[j + 1]) \in Seq(Token)
        BY <1>5, <2>3, <3>1
      <4> QED BY <4>1, TokensConcat
    <3> QED BY <2>6, <3>2
  <2> QED BY <2>1, <2>5, <2>7
<1>8. Nat \subseteq J
  <2> HIDE DEF J
  <2> QED BY <1>6, <1>7, SetInduction
<1>9. f[m] \in Seq(Token) /\ Reads(start \o f[m], k - 1)
  <2>1. m \in J /\ m \in 0 .. m /\ k - 1 + m - m = k - 1
    BY <1>8
  <2> QED BY <2>1
<1>10. Array(items) = <<line>> \o f[m]
  BY <1>3, <1>4 DEF Array
<1>11. Array(items) \in Seq(Token) /\ got \o Array(items) = start \o f[m]
  <2> HIDE DEF line
  <2>1. <<line>> \in Seq(Token)
    BY <1>1
  <2>2. start = got \o <<line>>
    BY <1>1, AppendIsConcat DEF start
  <2>3. (got \o <<line>>) \o f[m] = got \o (<<line>> \o f[m])
    BY <1>9, <2>1, ConcatAssociative
  <2>4. <<line>> \o f[m] \in Seq(Token)
    BY <1>9, <2>1, ConcatProperties
  <2> QED BY <1>10, <2>2, <2>3, <2>4
<1>12. got \o Array(items) \in Seq(Token)
  BY <1>11, ConcatProperties
<1> QED BY <1>9, <1>11, <1>12

\* The number of the command a piece answers does not matter to its reader.
Numbered(reply, b) == [i \in DOMAIN reply |-> [reply[i] EXCEPT !.by = b]]

LEMMA ReadsNumbered ==
  ASSUME NEW reply \in Seq(Token), NEW k, Reads(reply, k), NEW b \in Nat
  PROVE  /\ Numbered(reply, b) \in Seq(Token) /\ Len(Numbered(reply, b)) = Len(reply)
         /\ Reads(Numbered(reply, b), k)
         /\ \A i \in 1 .. Len(reply) : /\ Numbered(reply, b)[i].by = b
                                      /\ Numbered(reply, b)[i].n = reply[i].n
                                      /\ Numbered(reply, b)[i].kind = reply[i].kind
<1> DEFINE r == Numbered(reply, b)
<1>1. DOMAIN reply = 1 .. Len(reply) /\ Len(reply) \in Nat /\ \A i \in 1 .. Len(reply) : reply[i] \in Token
  OBVIOUS
<1>2. \A t \in Token : LET u == [t EXCEPT !.by = b]
                       IN u \in Token /\ u.by = b /\ u.n = t.n /\ u.kind = t.kind
  BY DEF Token
<1>3. r \in Seq(Token) /\ Len(r) = Len(reply)
  BY <1>1, <1>2 DEF Numbered
<1>4. \A i \in 1 .. Len(reply) : r[i].by = b /\ r[i].n = reply[i].n /\ r[i].kind = reply[i].kind
  BY <1>1, <1>2 DEF Numbered
<1>5. \A i \in 1 .. Len(reply), j \in Int : Took(r[i], j) = Took(reply[i], j)
  BY <1>4 DEF Took
<1> HIDE DEF r
<1>6. Reads(r, k)
  <2>1. PICK f : Counts(f, reply) /\ f[Len(reply)] = k /\ \A i \in 0 .. Len(reply) - 1 : f[i] > 0
    BY DEF Reads
  <2>2. Counts(f, r)
    <3>1. ASSUME NEW i \in 1 .. Len(r) PROVE f[i] = Took(r[i], f[i - 1])
      <4>1. i \in 1 .. Len(reply) /\ i - 1 \in 0 .. Len(reply)
        BY <1>1, <1>3
      <4>2. f[i - 1] \in Int
        BY <2>1, <4>1 DEF Counts
      <4> QED BY <1>5, <2>1, <4>1, <4>2 DEF Counts
    <3> QED BY <1>3, <2>1, <3>1 DEF Counts
  <2> QED BY <1>3, <2>1, <2>2 DEF Reads
<1> QED BY <1>3, <1>4, <1>6 DEF r

-----------------------------------------------------------------------------
\* The contents of a store are words.

HoldsWords(s) == \A k \in DOMAIN s : s[k] \in Word

LEMMA WordsBasic == <<>> \in Word /\ Root \in Word
BY LettersAssumption DEF Word, Root

LEMMA ValueType ==
  ASSUME NEW s, HoldsWords(s), NEW k
  PROVE  Value(s, k) \in Word
BY WordsBasic DEF Value, HoldsWords, Missing

LEMMA PatchType ==
  ASSUME NEW v \in Word, NEW off \in Nat, NEW buf \in Word
  PROVE  patch(v, off, buf) \in Word
<1> DEFINE T == {Len(v), off + Len(buf)}
<1>1. T \subseteq Nat /\ T # {} /\ Len(v) \in Nat /\ Len(buf) \in Nat
  BY DEF Word
<1>2. Max(T) \in Nat /\ \A i \in T : i <= Max(T)
  <2>1. Len(v) + off + Len(buf) \in Nat /\ \A i \in T : i <= Len(v) + off + Len(buf)
    BY <1>1
  <2> HIDE DEF T
  <2> QED BY <1>1, <2>1, MaxIs
<1>3. ASSUME NEW i \in 1 .. Max(T)
      PROVE  (IF i \in off + 1 .. off + Len(buf) THEN buf[i - off]
              ELSE IF i <= Len(v) THEN v[i] ELSE "0") \in Letters
  <2>1. CASE i \in off + 1 .. off + Len(buf)
    <3>1. i - off \in 1 .. Len(buf)
      BY <1>1, <2>1
    <3> QED BY <2>1, <3>1 DEF Word
  <2>2. CASE i \notin off + 1 .. off + Len(buf) /\ i <= Len(v)
    <3>1. i \in 1 .. Len(v)
      BY <1>1, <1>2, <2>2
    <3> QED BY <2>2, <3>1 DEF Word
  <2>3. CASE i \notin off + 1 .. off + Len(buf) /\ ~ (i <= Len(v))
    BY <2>3, LettersAssumption
  <2> QED BY <2>1, <2>2, <2>3
<1> HIDE DEF T
<1>4. [i \in 1 .. Max(T) |-> IF i \in off + 1 .. off + Len(buf) THEN buf[i - off]
                             ELSE IF i <= Len(v) THEN v[i] ELSE "0"] \in Seq(Letters)
  BY <1>2, <1>3
<1> QED BY <1>4 DEF patch, T, Word

LEMMA SliceType ==
  ASSUME NEW v \in Word, NEW off \in Nat, NEW len \in Nat
  PROVE  slice(v, off, len) \in Word
<1> DEFINE T == {off + len, Len(v)}
<1>1. T \subseteq Nat /\ T # {} /\ Len(v) \in Nat
  BY DEF Word
<1>2. Min(T) \in T /\ \A i \in T : Min(T) <= i
  <2> HIDE DEF T
  <2> QED BY <1>1, MinIs
<1>3. Min(T) \in Nat /\ Min(T) <= Len(v)
  BY <1>1, <1>2
<1> HIDE DEF T
<1>4. \A i \in off + 1 .. Min(T) : v[i] \in Letters
  BY <1>1, <1>3 DEF Word
<1>5. SubSeq(v, off + 1, Min(T)) \in Seq(Letters)
  <2>1. off + 1 \in Int /\ Min(T) \in Int
    BY <1>3
  <2> QED BY <1>4, <2>1, SubSeqProperties
<1> QED BY <1>5 DEF slice, T, Word

LEMMA WithType ==
  ASSUME NEW s, HoldsWords(s), NEW k, NEW v \in Word
  PROVE  HoldsWords(With(s, k, v))
BY DEF HoldsWords, With

\* The commands of a redis client.
CmdType ==
  [op : {"none", "get", "get_many", "getrange", "exists", "scan", "set", "setrange", "del", "flush"},
   keys : Seq(Word), val : Word, off : Nat, len : Nat]

LEMMA EffectType ==
  ASSUME NEW e \in CmdType, NEW s, HoldsWords(s)
  PROVE  HoldsWords(Effect(e, s))
<1>1. e.val \in Word /\ e.off \in Nat
  BY DEF CmdType
<1>2. CASE e.op = "set"
  BY <1>1, <1>2, WithType DEF Effect
<1>3. CASE e.op = "setrange"
  <2>1. patch(Value(s, e.keys[1]), e.off, e.val) \in Word
    BY <1>1, ValueType, PatchType
  <2> QED BY <1>3, <2>1, WithType DEF Effect
<1>4. CASE e.op = "del"
  BY <1>4 DEF Effect, Without, HoldsWords
<1>5. CASE e.op = "flush"
  BY <1>5 DEF Effect, Nothing, HoldsWords
<1>6. CASE e.op \notin {"set", "setrange", "del", "flush"}
  BY <1>6 DEF Effect
<1> QED BY <1>2, <1>3, <1>4, <1>5, <1>6

\* What the server may send in answer to a command.
IsAnswer(m, reply) ==
  /\ reply \in Seq(Token) /\ Reads(reply, 0)
  /\ m.op = "scan" => Len(reply) >= 3 /\ reply[3].n \in Nat

LEMMA ShortAnswer ==
  ASSUME NEW t \in Token, NEW k \in Int, Took(t, 1) = k
  PROVE  <<t>> \in Seq(Token) /\ Reads(<<t>>, k)
<1> DEFINE e == <<>>
           one == 1
<1>1. e \in Seq(Token) /\ Append(e, t) = <<t>> /\ <<t>> \in Seq(Token) /\ one \in Int /\ one > 0
  OBVIOUS
<1>2. Reads(e, one) /\ Took(t, one) = k
  BY ReadsNothing
<1> HIDE DEF e, one
<1>3. Reads(Append(e, t), Took(t, one))
  BY <1>1, <1>2, ReadsOne
<1> QED BY <1>1, <1>2, <1>3

LEMMA BulkAnswer ==
  ASSUME NEW v \in Word
  PROVE  Bulk(v) \in Seq(Token) /\ Reads(Bulk(v), 0)
<1> DEFINE e == <<>>
           one == 1
<1>1. e \in Seq(Token) /\ one \in Int /\ one > 0 /\ one - 1 = 0
  OBVIOUS
<1>2. Reads(e, one)
  BY ReadsNothing
<1>3. Bulk(v) \in Seq(Token) /\ Reads(e \o Bulk(v), one - 1)
  <2> HIDE DEF e, one
  <2> QED BY <1>1, <1>2, ReadsBulk
<1>4. e \o Bulk(v) = Bulk(v)
  BY <1>3, ConcatEmptySeq
<1> HIDE DEF e, one
<1> QED BY <1>1, <1>3, <1>4

LEMMA ArrayAnswer ==
  ASSUME NEW m \in Nat, NEW v \in [1 .. m -> Word]
  PROVE  LET a == Array([i \in 1 .. m |-> Bulk(v[i])])
         IN a \in Seq(Token) /\ Reads(a, 0)
<1> DEFINE items == [i \in 1 .. m |-> Bulk(v[i])]
           a == Array(items)
<1> DEFINE e == <<>>
           one == 1
<1>1. e \in Seq(Token) /\ one \in Int /\ one > 0 /\ one - 1 = 0
  OBVIOUS
<1>2. Reads(e, one)
  BY ReadsNothing
<1>3. a \in Seq(Token) /\ Reads(e \o a, one - 1)
  <2>1. items = [i \in 1 .. m |-> Bulk(v[i])]
    OBVIOUS
  <2> HIDE DEF items, e, one
  <2> QED BY <1>1, <1>2, <2>1, ReadsArray
<1> HIDE DEF a
<1>4. e \o a = a
  BY <1>3, ConcatEmptySeq
<1> HIDE DEF e, one
<1> QED BY <1>1, <1>3, <1>4 DEF a

LEMMA ConcatHead ==
  ASSUME NEW T, NEW s \in Seq(T), NEW t \in Seq(T), NEW i \in 1 .. Len(s)
  PROVE  Len(s \o t) = Len(s) + Len(t) /\ (s \o t)[i] = s[i]
OBVIOUS

LEMMA PageAnswer ==
  ASSUME NEW s, NEW p, NEW cursor \in Nat, NEW upto \in cursor + 1 .. Len(ScanOrder)
  PROVE  LET r == Page(s, p, cursor, upto)
         IN r \in Seq(Token) /\ Reads(r, 0) /\ Len(r) >= 3 /\ r[3].n \in Nat
<1> DEFINE here == SubSeq(ScanOrder, cursor + 1, upto)
           P == {k \in DOMAIN s : starts_with(k, scan_pattern(p))}
           keys == Filter(here, P)
           items == [i \in DOMAIN keys |-> Bulk(keys[i])]
           a == Tok("*", 2, <<>>)
           b == Tok("$", 1, <<>>)
           c == Tok("data", IF upto = Len(ScanOrder) THEN 0 ELSE upto, <<>>)
           head == <<a, b, c>>
<1>1. here \in Seq(Word)
  <2>1. \A i \in cursor + 1 .. upto : ScanOrder[i] \in Word
    BY ServerAssumption
  <2>2. cursor + 1 \in Int /\ upto \in Int
    OBVIOUS
  <2> QED BY <2>1, <2>2, SubSeqProperties
<1>2. keys \in Seq(Word)
  <2> HIDE DEF here, P
  <2> QED BY <1>1, FilterType
<1>3. a \in Token /\ b \in Token /\ c \in Token /\ c.n \in Nat
  BY DEF Tok, Token, Word
<1>4. Took(a, 1) = 2 /\ Took(b, 2) = 2 /\ Took(c, 2) = 1
  BY DEF Tok, Took
<1>5. Page(s, p, cursor, upto) = head \o Array(items)
  BY DEF Page
<1> HIDE DEF here, P, keys, a, b, c
<1>6. head \in Seq(Token) /\ Reads(head, 1)
  <2> DEFINE g == <<a>>
             h == <<a, b>>
             two == 2
  <2>1. g \in Seq(Token) /\ Reads(g, two)
    BY <1>3, <1>4, ShortAnswer
  <2>2. h \in Seq(Token) /\ h = Append(g, b)
    BY <1>3
  <2>3. head \in Seq(Token) /\ head = Append(h, c)
    BY <1>3
  <2>4. two \in Int /\ two > 0 /\ Took(b, two) = two /\ Took(c, two) = 1
    BY <1>4
  <2> HIDE DEF g, h, two, head
  <2>5. Reads(h, two)
    BY <1>3, <2>1, <2>2, <2>4, ReadsOne
  <2>6. Reads(head, 1)
    BY <1>3, <2>2, <2>3, <2>4, <2>5, ReadsOne
  <2> QED BY <2>3, <2>6
<1>7. Len(head) = 3 /\ head[3] = c
  OBVIOUS
<1> HIDE DEF head
<1>8. /\ Array(items) \in Seq(Token) /\ head \o Array(items) \in Seq(Token)
      /\ Reads(head \o Array(items), 1 - 1)
  <2> DEFINE m == Len(keys)
  <2>1. m \in Nat /\ keys \in [1 .. m -> Word]
    BY <1>2
  <2>2. items = [i \in 1 .. m |-> Bulk(keys[i])]
    BY <1>2
  <2> HIDE DEF items, m
  <2> QED BY <1>6, <2>1, <2>2, ReadsArray, 1 > 0
<1> HIDE DEF items
<1>9. Len(head \o Array(items)) >= 3 /\ (head \o Array(items))[3] = c
  <2>1. 3 \in 1 .. Len(head) /\ Len(Array(items)) \in Nat
    BY <1>7, <1>8
  <2> DEFINE u == Array(items)
  <2> HIDE DEF u
  <2>2. u \in Seq(Token)
    BY <1>8 DEF u
  <2>3. Len(head \o u) = Len(head) + Len(u) /\ (head \o u)[3] = head[3]
    BY <1>6, <2>1, <2>2, ConcatHead
  <2> QED BY <1>7, <2>1, <2>3 DEF u
<1> QED BY <1>3, <1>5, <1>8, <1>9

LEMMA AnswersRead ==
  ASSUME NEW m \in CmdType, NEW s, HoldsWords(s), NEW reply \in Answers(m, s)
  PROVE  IsAnswer(m, reply)
<1> DEFINE k == m.keys[1]
<1>1. m.off \in Nat /\ m.len \in Nat /\ m.keys \in Seq(Word)
  BY DEF CmdType
<1>2. CASE m.op = "get"
  <2>1. reply = Bulk(Value(s, k))
    BY <1>2 DEF Answers
  <2>2. Value(s, k) \in Word
    BY ValueType
  <2> QED BY <1>2, <2>1, <2>2, BulkAnswer DEF IsAnswer
<1>3. CASE m.op = "get_many"
  <2> DEFINE n == Len(m.keys)
             v == [i \in 1 .. n |-> Value(s, m.keys[i])]
  <2>1. n \in Nat /\ DOMAIN m.keys = 1 .. n
    BY <1>1
  <2>2. v \in [1 .. n -> Word]
    BY ValueType
  <2>3. reply = Array([i \in 1 .. n |-> Bulk(v[i])])
    BY <1>3, <2>1 DEF Answers
  <2> HIDE DEF v, n
  <2> QED BY <1>3, <2>1, <2>2, <2>3, ArrayAnswer DEF IsAnswer
<1>4. CASE m.op = "exists"
  <2> DEFINE t == Tok(":", IF k \in DOMAIN s THEN 1 ELSE 0, <<>>)
  <2>1. reply = <<t>>
    BY <1>4 DEF Answers, Integer
  <2>2. t \in Token /\ Took(t, 1) = 0
    BY DEF Tok, Token, Word, Took
  <2> HIDE DEF t
  <2> QED BY <1>4, <2>1, <2>2, ShortAnswer DEF IsAnswer
<1>5. CASE m.op = "getrange"
  <2> DEFINE v == slice(Value(s, k), m.off, m.len)
             l == Tok("$", m.len, <<>>)
             d == Tok("data", 0, v)
  <2>1. reply = <<l, d>>
    BY <1>5 DEF Answers
  <2>2. v \in Word
    BY <1>1, ValueType, SliceType
  <2> HIDE DEF v
  <2>3. l \in Token /\ d \in Token /\ Took(l, 1) = 1 /\ Took(d, 1) = 0
    BY <1>1, <2>2 DEF Tok, Token, Word, Took
  <2> HIDE DEF l, d
  <2> DEFINE g == <<l>>
             one == 1
  <2>4. g \in Seq(Token) /\ Reads(g, one)
    BY <2>3, ShortAnswer
  <2>5. <<l, d>> \in Seq(Token) /\ <<l, d>> = Append(g, d)
    BY <2>3
  <2>6. one \in Int /\ one > 0 /\ Took(d, one) = 0
    BY <2>3
  <2>7. Reads(Append(g, d), 0)
    <3> HIDE DEF g, one
    <3> QED BY <2>3, <2>4, <2>6, ReadsOne
  <2> QED BY <1>5, <2>1, <2>5, <2>7 DEF IsAnswer
<1>6. CASE m.op = "scan"
  <2>1. PICK upto \in m.off + 1 .. Len(ScanOrder) : reply = Page(s, k, m.off, upto)
    BY <1>6 DEF Answers
  <2> QED BY <1>1, <2>1, PageAnswer DEF IsAnswer
<1>7. CASE m.op \in {"setrange", "del"}
  <2> DEFINE t == Tok(":", 1, <<>>)
  <2>1. reply = <<t>>
    BY <1>7 DEF Answers, Integer
  <2>2. t \in Token /\ Took(t, 1) = 0
    BY DEF Tok, Token, Word, Took
  <2> HIDE DEF t
  <2> QED BY <1>7, <2>1, <2>2, ShortAnswer DEF IsAnswer
<1>8. CASE m.op \notin {"get", "get_many", "exists", "getrange", "scan", "setrange", "del"}
  <2> DEFINE t == Tok("+", 0, <<>>)
  <2>1. reply = <<t>>
    BY <1>8 DEF Answers, Simple
  <2>2. t \in Token /\ Took(t, 1) = 0
    BY DEF Tok, Token, Word, Took
  <2> HIDE DEF t
  <2> QED BY <1>8, <2>1, <2>2, ShortAnswer DEF IsAnswer
<1> QED BY <1>2, <1>3, <1>4, <1>5, <1>6, <1>7, <1>8

-----------------------------------------------------------------------------
\* The streams of redis clients.

RequestType == [cmd : CmdType, by : Nat]
StreamType == [req : Seq(RequestType), rep : Seq(Token), open : BOOLEAN]
TripType == [at : {"none", "skip", "start", "read"}, cmd : CmdType, got : Seq(Token)]

\* A whole reply to command m, each piece of it numbered n.
WholeReply(m, n, whole) ==
  /\ whole \in Seq(Token) /\ Reads(whole, 0)
  /\ \A i \in 1 .. Len(whole) : whole[i].by = n
  /\ whole[1].kind # "-" /\ m.op = "scan" => Len(whole) >= 3 /\ whole[3].n \in Nat

\* A client in call q, on trip t, with stream s, after n commands: between
\* round trips the stream is empty; in one, it carries the command, or what
\* has been read and what has not are together the reply to it.
StreamOK(q, t, s, n) ==
  /\ t = NoTrip <=> q = NoCall
  /\ t.at \in {"start", "read"} /\ q.op = "scan" => t.cmd.op = "scan"
  /\ t.at # "read" => s.req = <<>> /\ s.rep = <<>> /\ t.got = <<>>
  /\ t.at = "read" /\ s.req # <<>> =>
       s.req = <<[cmd |-> t.cmd, by |-> n]>> /\ s.rep = <<>> /\ t.got = <<>>
  /\ t.at = "read" /\ s.req = <<>> => s.rep # <<>> /\ WholeReply(t.cmd, n, t.got \o s.rep)

RedisInv ==
  /\ call \in [Clients -> CallType \cup {NoCall}] /\ made \in [Clients -> Nat]
  /\ HoldsWords(db)
  /\ slot \in [Clients -> StreamType]
  /\ trip \in [Clients -> TripType]
  /\ sent \in [Clients -> Nat]
  /\ \A o \in orphans : o.cmd \in CmdType
  /\ \A c \in Clients : StreamOK(call[c], trip[c], slot[c], sent[c])

LEMMA ConstantTypes ==
  /\ NoCall \in CmdType /\ NoTrip \in TripType /\ NewStream \in StreamType /\ NoStream \in StreamType
  /\ NoCall \notin CallType
  /\ \A q \in CallType : First(q) \in CmdType /\ q.op # "none"
  /\ \A m \in CmdType : Begin(m) \in TripType /\ Begin(m) # NoTrip
<1>1. <<>> \in Word /\ <<>> \in Seq(Word) /\ <<>> \in Seq(Token) /\ <<>> \in Seq(RequestType)
  BY WordsBasic
<1>2. NoCall \in CmdType /\ NoCall \notin CallType
  BY <1>1 DEF NoCall, CmdType, CallType
<1>3. NoTrip \in TripType /\ \A m \in CmdType : Begin(m) \in TripType /\ Begin(m) # NoTrip
  BY <1>1, <1>2 DEF NoTrip, TripType, Begin
<1>4. NewStream \in StreamType /\ NoStream \in StreamType
  BY <1>1 DEF NewStream, NoStream, StreamType
<1>5. \A q \in CallType : First(q) \in CmdType /\ q.op # "none"
  BY DEF First, CallType, CmdType
<1> QED BY <1>2, <1>3, <1>4, <1>5

LEMMA NextCallsType ==
  ASSUME NEW c \in Clients, made[c] \in Nat, NEW q \in NextCalls(c)
  PROVE  /\ q \in CallType /\ q \in AllCalls
         /\ q.keys = <<>> => q.op \in {"get_many", "del", "flush"}
<1>1. made[c] < Len(Calls[c]) /\ q \in Calls[c][made[c] + 1]
  BY DEF NextCalls
<1>2. Calls[c] \in Seq(SUBSET CallType)
  BY CallsAssumption
<1>3. made[c] + 1 \in DOMAIN Calls[c]
  BY <1>1, <1>2
<1>4. Calls[c][made[c] + 1] \in SUBSET CallType
  BY <1>2, <1>3
<1>5. q \in AllCalls
  BY <1>1, <1>3 DEF AllCalls
<1>6. q.keys = <<>> => Len(q.keys) # 1
  OBVIOUS
<1> QED BY <1>1, <1>4, <1>5, <1>6, CallsAssumption

LEMMA RedisStarts ==
  ASSUME RedisInit, ClientsInit
  PROVE  RedisInv
<1>1. HoldsWords(db)
  BY ServerAssumption DEF RedisInit, HoldsWords
<1>2. ASSUME NEW c \in Clients PROVE StreamOK(call[c], trip[c], slot[c], sent[c])
  <2>1. call[c] = NoCall /\ trip[c] = NoTrip /\ slot[c] = NewStream
    BY DEF RedisInit, ClientsInit
  <2>2. NoTrip.at = "none" /\ NoTrip.got = <<>> /\ NewStream.req = <<>> /\ NewStream.rep = <<>>
    BY DEF NoTrip, NewStream
  <2> QED BY <2>1, <2>2 DEF StreamOK
<1> QED BY <1>1, <1>2, ConstantTypes DEF RedisInit, ClientsInit, RedisInv

\* The call of a client ends, or another begins: the trip with it.
LEMMA RedisInvokes ==
  ASSUME RedisInv, NEW c \in Clients, NEW q \in NextCalls(c), RedisInvoke(c, q)
  PROVE  RedisInv'
<1> DEFINE t == IF q.keys = <<>> /\ q.op # "flush" THEN [NoTrip EXCEPT !.at = "skip"] ELSE Begin(First(q))
<1>1. q \in CallType
  BY NextCallsType DEF RedisInv
<1>2. /\ t \in TripType /\ t # NoTrip /\ t.at # "read" /\ t.got = <<>>
      /\ t.at = "start" /\ q.op = "scan" => t.cmd.op = "scan"
  <2>1. First(q) \in CmdType
    BY <1>1, ConstantTypes
  <2>2. [NoTrip EXCEPT !.at = "skip"] \in TripType /\ [NoTrip EXCEPT !.at = "skip"] # NoTrip
    BY ConstantTypes DEF NoTrip, TripType
  <2>3. [NoTrip EXCEPT !.at = "skip"].at = "skip" /\ [NoTrip EXCEPT !.at = "skip"].got = <<>>
    BY DEF NoTrip
  <2>4. Begin(First(q)) \in TripType /\ Begin(First(q)) # NoTrip
    BY <2>1, ConstantTypes
  <2>5. Begin(First(q)).at = "start" /\ Begin(First(q)).got = <<>>
    BY DEF Begin
  <2>6. q.op = "scan" => Begin(First(q)).cmd.op = "scan"
    BY DEF Begin, First
  <2> QED BY <2>2, <2>3, <2>4, <2>5, <2>6
<1> HIDE DEF t
<1>3. /\ call[c] = NoCall /\ call' = [call EXCEPT ![c] = q] /\ made' = [made EXCEPT ![c] = @ + 1]
      /\ trip' = [trip EXCEPT ![c] = t]
      /\ UNCHANGED <<db, slot, orphans, sent>>
  BY DEF RedisInvoke, Invoked, t
<1>4. StreamOK(call[c], trip[c], slot[c], sent[c])
  BY DEF RedisInv
<1>5. trip[c].at # "read"
  BY <1>3, <1>4 DEF StreamOK, NoTrip
<1>6. StreamOK(q, t, slot[c], sent[c])
  BY <1>1, <1>2, <1>4, <1>5, ConstantTypes DEF StreamOK
<1>7. \A d \in Clients : StreamOK(call'[d], trip'[d], slot'[d], sent'[d])
  BY <1>3, <1>6 DEF RedisInv
<1>8. /\ call' \in [Clients -> CallType \cup {NoCall}] /\ made' \in [Clients -> Nat]
      /\ trip' \in [Clients -> TripType]
  BY <1>1, <1>2, <1>3 DEF RedisInv
<1> QED BY <1>3, <1>7, <1>8 DEF RedisInv

\* A call ends between round trips: the stream it leaves is empty.
LEMMA RedisEnds ==
  ASSUME RedisInv, NEW c \in Clients, NEW s \in StreamType, s.req = <<>>, s.rep = <<>>,
         call' = [call EXCEPT ![c] = NoCall], trip' = [trip EXCEPT ![c] = NoTrip],
         slot' = [slot EXCEPT ![c] = s], \A o \in orphans' : o.cmd \in CmdType,
         UNCHANGED <<db, made, sent>>
  PROVE  RedisInv'
<1>1. StreamOK(NoCall, NoTrip, s, sent[c])
  BY DEF StreamOK, NoTrip
<1>2. \A d \in Clients : StreamOK(call'[d], trip'[d], slot'[d], sent'[d])
  BY <1>1 DEF RedisInv
<1>3. /\ call' \in [Clients -> CallType \cup {NoCall}] /\ trip' \in [Clients -> TripType]
      /\ slot' \in [Clients -> StreamType]
  BY ConstantTypes DEF RedisInv
<1> QED BY <1>2, <1>3 DEF RedisInv

\* What the parts of the invariant say of one client.
LEMMA RedisClientTypes ==
  ASSUME RedisInv, NEW c \in Clients
  PROVE  /\ call[c] \in CallType \cup {NoCall} /\ trip[c] \in TripType /\ slot[c] \in StreamType
         /\ sent[c] \in Nat /\ trip[c].cmd \in CmdType /\ trip[c].got \in Seq(Token)
         /\ slot[c].req \in Seq(RequestType) /\ slot[c].rep \in Seq(Token)
         /\ StreamOK(call[c], trip[c], slot[c], sent[c])
         /\ slot = [slot EXCEPT ![c] = slot[c]]
<1>1. /\ call[c] \in CallType \cup {NoCall} /\ trip[c] \in TripType /\ slot[c] \in StreamType
      /\ sent[c] \in Nat /\ StreamOK(call[c], trip[c], slot[c], sent[c])
      /\ slot = [slot EXCEPT ![c] = slot[c]]
  BY DEF RedisInv
<1>2. trip[c].cmd \in CmdType /\ trip[c].got \in Seq(Token)
  BY <1>1 DEF TripType
<1>3. slot[c].req \in Seq(RequestType) /\ slot[c].rep \in Seq(Token)
  BY <1>1 DEF StreamType
<1> QED BY <1>1, <1>2, <1>3

LEMMA RedisSkips ==
  ASSUME RedisInv, NEW c \in Clients, RedisSkip(c)
  PROVE  RedisInv'
<1>1. /\ trip[c].at = "skip" /\ call' = [call EXCEPT ![c] = NoCall] /\ trip' = [trip EXCEPT ![c] = NoTrip]
      /\ UNCHANGED <<db, slot, orphans, sent, made>>
  BY DEF RedisSkip, Ended, Doing
<1>2. slot[c].req = <<>> /\ slot[c].rep = <<>>
  BY <1>1, RedisClientTypes DEF StreamOK
<1>3. slot' = [slot EXCEPT ![c] = slot[c]] /\ \A o \in orphans' : o.cmd \in CmdType
  BY <1>1, RedisClientTypes DEF RedisInv
<1> QED BY <1>1, <1>2, <1>3, RedisClientTypes, RedisEnds

LEMMA RedisOpens ==
  ASSUME RedisInv, NEW c \in Clients, RedisOpen(c) \/ RedisOpenFails(c)
  PROVE  RedisInv'
<1>1. CASE RedisOpen(c)
  <2>1. /\ trip[c].at = "start" /\ slot' = [slot EXCEPT ![c] = NewStream]
        /\ UNCHANGED <<db, trip, orphans, sent, call, made>>
    BY <1>1 DEF RedisOpen, Unseen, Doing
  <2>2. StreamOK(call[c], trip[c], NewStream, sent[c])
    BY <2>1, RedisClientTypes DEF StreamOK, NewStream
  <2>3. \A d \in Clients : StreamOK(call'[d], trip'[d], slot'[d], sent'[d])
    BY <2>1, <2>2 DEF RedisInv
  <2>4. slot' \in [Clients -> StreamType]
    BY <2>1, ConstantTypes DEF RedisInv
  <2> QED BY <2>1, <2>3, <2>4 DEF RedisInv
<1>2. CASE RedisOpenFails(c)
  <2>1. /\ trip[c].at = "start" /\ call' = [call EXCEPT ![c] = NoCall] /\ trip' = [trip EXCEPT ![c] = NoTrip]
        /\ UNCHANGED <<db, slot, orphans, sent, made>>
    BY <1>2 DEF RedisOpenFails, Panic, Ended, Doing
  <2>2. slot[c].req = <<>> /\ slot[c].rep = <<>>
    BY <2>1, RedisClientTypes DEF StreamOK
  <2>3. slot' = [slot EXCEPT ![c] = slot[c]] /\ \A o \in orphans' : o.cmd \in CmdType
    BY <2>1, RedisClientTypes DEF RedisInv
  <2> QED BY <2>1, <2>2, <2>3, RedisClientTypes, RedisEnds
<1> QED BY <1>1, <1>2

LEMMA RedisWrites ==
  ASSUME RedisInv, NEW c \in Clients, RedisWrite(c) \/ RedisWriteFails(c)
  PROVE  RedisInv'
<1>1. CASE RedisWrite(c)
  <2> DEFINE r == [cmd |-> trip[c].cmd, by |-> sent[c] + 1]
             s == [slot[c] EXCEPT !.req = Append(@, r)]
             t == [trip[c] EXCEPT !.at = "read"]
  <2>1. /\ trip[c].at = "start" /\ slot' = [slot EXCEPT ![c] = s] /\ trip' = [trip EXCEPT ![c] = t]
        /\ sent' = [sent EXCEPT ![c] = sent[c] + 1]
        /\ UNCHANGED <<db, orphans, call, made>>
    BY <1>1 DEF RedisWrite, Unseen, Doing, RedisInv
  <2>2. slot[c].req = <<>> /\ slot[c].rep = <<>> /\ trip[c].got = <<>>
    BY <2>1, RedisClientTypes DEF StreamOK
  <2>3. r \in RequestType
    BY RedisClientTypes DEF RequestType
  <2> HIDE DEF r
  <2>4. s \in StreamType /\ s.req = <<r>> /\ s.rep = <<>>
    <3>1. Append(slot[c].req, r) = <<r>> /\ <<r>> \in Seq(RequestType)
      BY <2>2, <2>3
    <3>2. slot[c] \in StreamType
      BY RedisClientTypes
    <3>3. s = [slot[c] EXCEPT !.req = <<r>>]
      BY <3>1
    <3> HIDE DEF s
    <3> QED BY <2>2, <3>1, <3>2, <3>3 DEF StreamType
  <2>5. t \in TripType /\ t.at = "read" /\ t.got = <<>> /\ t.cmd = trip[c].cmd /\ t # NoTrip
    BY <2>2, RedisClientTypes DEF TripType, NoTrip
  <2> HIDE DEF s, t
  <2>6. call[c] # NoCall
    <3>1. trip[c] # NoTrip
      BY <2>1 DEF NoTrip
    <3>2. StreamOK(call[c], trip[c], slot[c], sent[c])
      BY RedisClientTypes
    <3> QED BY <3>1, <3>2 DEF StreamOK
  <2>7. StreamOK(call[c], t, s, sent[c] + 1)
    <3>1. <<r>> # <<>>
      OBVIOUS
    <3>2. call[c].op = "scan" => trip[c].cmd.op = "scan"
      BY <2>1, RedisClientTypes DEF StreamOK
    <3> QED BY <2>4, <2>5, <2>6, <3>1, <3>2 DEF StreamOK, r
  <2>8. \A d \in Clients : StreamOK(call'[d], trip'[d], slot'[d], sent'[d])
    BY <2>1, <2>7 DEF RedisInv
  <2>9. slot' \in [Clients -> StreamType] /\ trip' \in [Clients -> TripType] /\ sent' \in [Clients -> Nat]
    BY <2>1, <2>4, <2>5 DEF RedisInv
  <2> QED BY <2>1, <2>8, <2>9 DEF RedisInv
<1>2. CASE RedisWriteFails(c)
  <2>1. /\ call' = [call EXCEPT ![c] = NoCall] /\ trip' = [trip EXCEPT ![c] = NoTrip]
        /\ slot' = [slot EXCEPT ![c] = NoStream] /\ orphans' = orphans
        /\ UNCHANGED <<db, sent, made>>
    BY <1>2 DEF RedisWriteFails, LoseStream, Panic, Ended
  <2>2. NoStream.req = <<>> /\ NoStream.rep = <<>> /\ \A o \in orphans' : o.cmd \in CmdType
    BY <2>1 DEF NoStream, RedisInv
  <2> QED BY <2>1, <2>2, ConstantTypes, RedisEnds
<1> QED BY <1>1, <1>2

LEMMA RedisReadsFail ==
  ASSUME RedisInv, NEW c \in Clients, RedisReadFails(c)
  PROVE  RedisInv'
<1>1. /\ call' = [call EXCEPT ![c] = NoCall] /\ trip' = [trip EXCEPT ![c] = NoTrip]
      /\ slot' = [slot EXCEPT ![c] = NoStream]
      /\ UNCHANGED <<db, sent, made>>
  BY DEF RedisReadFails, LoseStream, Panic, Ended
<1>2. \A o \in orphans' : o \in orphans \/ \E r \in ToSet(slot[c].req) : o.cmd = r.cmd
  BY DEF RedisReadFails, LoseStream
<1>3. \A r \in ToSet(slot[c].req) : r.cmd \in CmdType
  <2>1. slot[c].req \in Seq(RequestType)
    BY RedisClientTypes
  <2>2. \A i \in DOMAIN slot[c].req : slot[c].req[i] \in RequestType
    BY <2>1
  <2> QED BY <2>2 DEF ToSet, RequestType
<1>4. NoStream.req = <<>> /\ NoStream.rep = <<>> /\ \A o \in orphans' : o.cmd \in CmdType
  BY <1>2, <1>3 DEF NoStream, RedisInv
<1> QED BY <1>1, <1>4, ConstantTypes, RedisEnds

LEMMA NeverEmpty ==
  ASSUME NEW got, got = <<>>
  PROVE  ~ Reads(got, 0)
BY DEF Reads, Counts

\* Taking the first piece of b to the end of a.
LEMMA TakeOne ==
  ASSUME NEW a \in Seq(Token), NEW b \in Seq(Token), b # <<>>
  PROVE  /\ Append(a, Head(b)) \in Seq(Token) /\ Tail(b) \in Seq(Token)
         /\ Append(a, Head(b)) \o Tail(b) = a \o b
         /\ Len(a) + 1 \in 1 .. Len(a \o b)
         /\ Append(a, Head(b)) = SubSeq(a \o b, 1, Len(a) + 1)
         /\ Tail(b) = <<>> <=> Len(a) + 1 = Len(a \o b)
<1>1. Head(b) \in Token /\ Tail(b) \in Seq(Token) /\ Len(b) \in Nat \ {0} /\ Len(a) \in Nat
  OBVIOUS
<1>2. Append(a, Head(b)) = a \o <<Head(b)>> /\ <<Head(b)>> \in Seq(Token) /\ b = <<Head(b)>> \o Tail(b)
  BY <1>1
<1>3. (a \o <<Head(b)>>) \o Tail(b) = a \o (<<Head(b)>> \o Tail(b))
  BY <1>1, <1>2, TokensConcat
<1>4. Len(a \o b) = Len(a) + Len(b)
  OBVIOUS
<1>5. Append(a, Head(b)) = SubSeq(a \o b, 1, Len(a) + 1)
  OBVIOUS
<1>6. Tail(b) = <<>> <=> Len(b) = 1
  <2>1. Len(Tail(b)) = Len(b) - 1
    BY HeadTailProperties
  <2>2. Tail(b) = <<>> <=> Len(Tail(b)) = 0
    BY <1>1, EmptySeq
  <2> QED BY <1>1, <2>1, <2>2
<1> QED BY <1>1, <1>2, <1>3, <1>4, <1>5, <1>6, SMTT(20)

\* The server answers: an answer or an error, numbered like the command.
LEMMA RedisAnswers ==
  ASSUME RedisInv, NEW c \in Clients, NEW reply \in Seq(Token), slot[c].req # <<>>,
         reply[1].kind # "-" => IsAnswer(trip[c].cmd, reply), Reads(reply, 0), HoldsWords(db'),
         slot' = [slot EXCEPT ![c].req = Tail(@), ![c].rep = @ \o Numbered(reply, Head(slot[c].req).by)],
         UNCHANGED <<call, made, trip, orphans, sent>>
  PROVE  RedisInv'
<1> DEFINE w == Numbered(reply, sent[c])
           s == [slot[c] EXCEPT !.req = <<>>, !.rep = w]
<1>1. StreamOK(call[c], trip[c], slot[c], sent[c]) /\ slot[c] \in StreamType /\ sent[c] \in Nat
  BY RedisClientTypes
<1>2. /\ trip[c].at = "read" /\ slot[c].req = <<[cmd |-> trip[c].cmd, by |-> sent[c]]>>
      /\ slot[c].rep = <<>> /\ trip[c].got = <<>>
  BY <1>1 DEF StreamOK
<1>3. Head(slot[c].req).by = sent[c] /\ Tail(slot[c].req) = <<>>
  BY <1>2
<1>4. /\ w \in Seq(Token) /\ Len(w) = Len(reply) /\ Reads(w, 0)
      /\ \A i \in 1 .. Len(reply) : w[i].by = sent[c] /\ w[i].n = reply[i].n /\ w[i].kind = reply[i].kind
  BY <1>1, ReadsNumbered
<1> HIDE DEF w
<1>5. w # <<>>
  BY <1>4, NeverEmpty
<1>6. 1 \in 1 .. Len(reply)
  BY <1>4, <1>5
<1>7. WholeReply(trip[c].cmd, sent[c], w)
  <2>1. w[1].kind = reply[1].kind
    BY <1>4, <1>6
  <2>2. ASSUME w[1].kind # "-", trip[c].cmd.op = "scan" PROVE Len(w) >= 3 /\ w[3].n \in Nat
    <3>1. Len(reply) >= 3 /\ reply[3].n \in Nat
      BY <2>1, <2>2 DEF IsAnswer
    <3>2. 3 \in 1 .. Len(reply)
      BY <3>1
    <3> QED BY <1>4, <3>1, <3>2
  <2> QED BY <1>4, <2>2 DEF WholeReply
<1>8. s \in StreamType /\ s.req = <<>> /\ s.rep = w
  <2>1. <<>> \in Seq(RequestType)
    OBVIOUS
  <2> QED BY <1>1, <1>4, <2>1 DEF StreamType
<1>9. slot[c].rep \o w = w /\ trip[c].got \o w = w
  BY <1>2, <1>4, ConcatEmptySeq
<1>10. slot' = [slot EXCEPT ![c] = s]
  <2>1. slot' = [slot EXCEPT ![c] = [slot[c] EXCEPT !.req = Tail(slot[c].req),
                                                 !.rep = slot[c].rep \o Numbered(reply, Head(slot[c].req).by)]]
    BY <1>1 DEF RedisInv, StreamType
  <2> QED BY <1>3, <1>9, <2>1 DEF w
<1> HIDE DEF s
<1>11. StreamOK(call[c], trip[c], s, sent[c])
  BY <1>1, <1>2, <1>5, <1>7, <1>8, <1>9 DEF StreamOK
<1>12. \A d \in Clients : StreamOK(call'[d], trip'[d], slot'[d], sent'[d])
  BY <1>10, <1>11 DEF RedisInv
<1>13. slot' \in [Clients -> StreamType]
  BY <1>8, <1>10 DEF RedisInv
<1> QED BY <1>12, <1>13 DEF RedisInv

LEMMA RedisServes ==
  ASSUME RedisInv, NEW c \in Clients, RedisExec(c) \/ RedisRefuses(c)
  PROVE  RedisInv'
<1>1. slot[c].req # <<>>
  BY DEF RedisExec, RedisRefuses
<1>2. Head(slot[c].req).cmd = trip[c].cmd /\ trip[c].cmd \in CmdType
  <2>1. StreamOK(call[c], trip[c], slot[c], sent[c]) /\ trip[c].cmd \in CmdType
    BY RedisClientTypes
  <2>2. slot[c].req = <<[cmd |-> trip[c].cmd, by |-> sent[c]]>>
    BY <1>1, <2>1 DEF StreamOK
  <2> QED BY <2>1, <2>2
<1>3. CASE RedisExec(c)
  <2>1. HoldsWords(db)
    BY DEF RedisInv
  <2>2. db' = Effect(trip[c].cmd, db) /\ UNCHANGED <<call, made, trip, orphans, sent>>
    BY <1>2, <1>3 DEF RedisExec, Seen
  <2>3. HoldsWords(db')
    BY <1>2, <2>1, <2>2, EffectType
  <2>4. PICK reply \in Answers(trip[c].cmd, db) :
          slot' = [slot EXCEPT ![c].req = Tail(@), ![c].rep = @ \o Numbered(reply, Head(slot[c].req).by)]
    BY <1>2, <1>3 DEF RedisExec, Numbered
  <2>5. IsAnswer(trip[c].cmd, reply)
    BY <1>2, <2>1, AnswersRead
  <2>6. reply \in Seq(Token) /\ Reads(reply, 0)
    BY <2>5 DEF IsAnswer
  <2> QED BY <1>1, <2>2, <2>3, <2>4, <2>5, <2>6, RedisAnswers
<1>4. CASE RedisRefuses(c)
  <2> DEFINE t == Tok("-", 0, <<>>)
             reply == <<t>>
  <2>1. t \in Token /\ Took(t, 1) = 0 /\ t.kind = "-"
    BY DEF Tok, Token, Word, Took
  <2>2. Error[1] = t
    BY DEF Error
  <2>3. UNCHANGED <<call, made, trip, orphans, sent, db>>
    BY <1>4 DEF RedisRefuses, Unseen
  <2>4. slot' = [slot EXCEPT ![c].req = Tail(@), ![c].rep = @ \o <<[t EXCEPT !.by = Head(slot[c].req).by]>>]
    BY <1>4, <2>2 DEF RedisRefuses
  <2> HIDE DEF t
  <2>5. reply \in Seq(Token) /\ Reads(reply, 0) /\ reply[1].kind = "-"
    BY <2>1, ShortAnswer
  <2>6. Numbered(reply, Head(slot[c].req).by) = <<[t EXCEPT !.by = Head(slot[c].req).by]>>
    BY DEF Numbered
  <2>7. HoldsWords(db')
    BY <2>3 DEF RedisInv
  <2> HIDE DEF reply
  <2> QED BY <1>1, <2>3, <2>4, <2>5, <2>6, <2>7, RedisAnswers
<1> QED BY <1>3, <1>4

LEMMA RedisOrphans ==
  ASSUME RedisInv, RedisOrphan
  PROVE  RedisInv'
<1>1. PICK o \in orphans : db' = Effect(o.cmd, db) /\ orphans' = orphans \ {o}
  BY DEF RedisOrphan
<1>2. UNCHANGED <<slot, trip, sent, call, made>>
  BY DEF RedisOrphan, Seen
<1>3. HoldsWords(db')
  BY <1>1, EffectType DEF RedisInv
<1> QED BY <1>1, <1>2, <1>3 DEF RedisInv

LEMMA ResumeType ==
  ASSUME NEW q \in CallType, NEW m \in CmdType, NEW got, NEW keys,
         q.op = "scan" => m.op = "scan" /\ got[3].n \in Nat
  PROVE  LET next == Resume(q, m, got, keys)
         IN next.cmd \in CmdType /\ (q.op = "scan" => next.cmd = NoCall \/ next.cmd.op = "scan")
<1> DEFINE next == Resume(q, m, got, keys)
<1>1. \A a : Finish(a).cmd = NoCall
  BY DEF Finish
<1>2. \A x : Issue(x).cmd = x
  BY DEF Issue
<1>3. \A op \in {"getrange", "get", "setrange"} : [q EXCEPT !.op = op] \in CmdType
  BY DEF CallType, CmdType
<1>4. CASE q.op = "scan"
  <2>1. next = after_scan(m, got, keys)
    BY <1>4 DEF Resume
  <2>2. [m EXCEPT !.off = got[3].n] \in CmdType /\ [m EXCEPT !.off = got[3].n].op = "scan"
    BY <1>4 DEF CmdType
  <2> QED BY <1>1, <1>2, <2>1, <2>2, ConstantTypes DEF after_scan
<1>5. CASE q.op \in {"get", "get_many"}
  BY <1>1, <1>5, ConstantTypes DEF Resume
<1>6. CASE q.op = "exists"
  BY <1>1, <1>6, ConstantTypes DEF Resume
<1>7. CASE q.op = "get_part" /\ m.op = "exists"
  BY <1>1, <1>2, <1>3, <1>7, ConstantTypes DEF Resume
<1>8. CASE q.op = "get_part" /\ m.op = "getrange"
  BY <1>1, <1>8, ConstantTypes DEF Resume
<1>9. CASE q.op = "set_part" /\ m.op = "exists"
  BY <1>1, <1>2, <1>3, <1>9, ConstantTypes DEF Resume
<1>10. CASE q.op = "set_part" /\ m.op = "get"
  BY <1>1, <1>2, <1>3, <1>10, ConstantTypes DEF Resume
<1>11. CASE \/ q.op \in {"set", "del", "flush"}
            \/ q.op = "get_part" /\ m.op \notin {"exists", "getrange"}
            \/ q.op = "set_part" /\ m.op \notin {"exists", "get"}
  BY <1>1, <1>11, ConstantTypes DEF Resume
<1>12. q.op \in {"get", "get_many", "get_part", "exists", "scan", "set", "set_part", "del", "flush"}
  BY DEF CallType
<1> HIDE DEF next
<1> QED BY <1>4, <1>5, <1>6, <1>7, <1>8, <1>9, <1>10, <1>11, <1>12 DEF next

LEMMA RedisReads ==
  ASSUME RedisInv, NEW c \in Clients, RedisRead(c)
  PROVE  RedisInv'
<1> DEFINE a == trip[c].got
           b == slot[c].rep
           got == Append(a, Head(b))
           s == [slot[c] EXCEPT !.rep = Tail(b)]
           m == trip[c].cmd
           n == sent[c]
<1>1. /\ trip[c].at = "read" /\ b # <<>> /\ slot' = [slot EXCEPT ![c] = s]
      /\ UNCHANGED <<db, orphans, sent>>
      /\ IF Needed(got) > 0
         THEN trip' = [trip EXCEPT ![c].got = got] /\ Unseen
         ELSE Complete(c, got, found[c] \o scanned(m, got))
  BY DEF RedisRead, Doing
<1>2. /\ call[c] \in CallType \cup {NoCall} /\ trip[c] \in TripType /\ slot[c] \in StreamType
      /\ a \in Seq(Token) /\ b \in Seq(Token) /\ m \in CmdType
      /\ StreamOK(call[c], trip[c], slot[c], n)
  BY RedisClientTypes
<1>3. slot[c].req = <<>> /\ WholeReply(m, n, a \o b)
  BY <1>1, <1>2 DEF StreamOK
<1>4. call[c] \in CallType /\ (call[c].op = "scan" => m.op = "scan")
  <2>1. trip[c] # NoTrip
    BY <1>1 DEF NoTrip
  <2> QED BY <1>1, <1>2, <2>1 DEF StreamOK
<1> HIDE DEF a, b
<1>5. /\ got \in Seq(Token) /\ Tail(b) \in Seq(Token) /\ got \o Tail(b) = a \o b
      /\ Len(a) + 1 \in 1 .. Len(a \o b) /\ got = SubSeq(a \o b, 1, Len(a) + 1)
      /\ Tail(b) = <<>> <=> Len(a) + 1 = Len(a \o b)
  BY <1>1, <1>2, TakeOne
<1>6. s \in StreamType /\ s.req = <<>> /\ s.rep = Tail(b)
  BY <1>2, <1>3, <1>5 DEF StreamType
<1>7. /\ a \o b \in Seq(Token) /\ Reads(a \o b, 0)
  BY <1>3 DEF WholeReply
<1>8. /\ Len(a) + 1 < Len(a \o b) => Needed(got) > 0
      /\ Len(a) + 1 = Len(a \o b) => Needed(got) = 0
  <2> DEFINE w == a \o b
             k == Len(a) + 1
  <2>1. w \in Seq(Token) /\ Reads(w, 0) /\ k \in 1 .. Len(w) /\ got = SubSeq(w, 1, k)
    BY <1>5, <1>7
  <2> HIDE DEF w, k, got
  <2>2. /\ k < Len(w) => Needed(got) > 0
        /\ k = Len(w) => Needed(got) = 0
    BY <2>1, ReadsNeeded
  <2> QED BY <2>2 DEF w, k
<1> HIDE DEF got, s
<1>9. CASE Needed(got) > 0
  <2> DEFINE t == [trip[c] EXCEPT !.got = got]
  <2>1. trip' = [trip EXCEPT ![c] = t] /\ UNCHANGED <<call, made>>
    BY <1>1, <1>9 DEF Unseen
  <2>2. t \in TripType /\ t.at = "read" /\ t.got = got /\ t.cmd = m /\ t # NoTrip
    BY <1>1, <1>2, <1>5 DEF TripType, NoTrip
  <2>3. Tail(b) # <<>>
    BY <1>5, <1>8, <1>9
  <2> HIDE DEF t
  <2>4. StreamOK(call[c], t, s, n)
    BY <1>3, <1>4, <1>5, <1>6, <2>2, <2>3, ConstantTypes DEF StreamOK
  <2>5. \A d \in Clients : StreamOK(call'[d], trip'[d], slot'[d], sent'[d])
    BY <1>1, <2>1, <2>4 DEF RedisInv
  <2>6. slot' \in [Clients -> StreamType] /\ trip' \in [Clients -> TripType]
    BY <1>1, <1>6, <2>1, <2>2 DEF RedisInv
  <2> QED BY <1>1, <2>1, <2>5, <2>6 DEF RedisInv
<1>10. CASE ~ (Needed(got) > 0)
  <2> DEFINE keys == found[c] \o scanned(m, got)
             next == Resume(call[c], m, got, keys)
  <2>1. Tail(b) = <<>> /\ got = a \o b
    <3>1. Tail(b) = <<>>
      BY <1>5, <1>8, <1>10
    <3>2. got \o Tail(b) = got
      BY <1>5, <3>1, ConcatEmptySeq
    <3> QED BY <1>5, <3>1, <3>2
  <2>2. Complete(c, got, keys)
    BY <1>1, <1>10
  <2> HIDE DEF keys
  <2>3. \A o \in orphans' : o.cmd \in CmdType
    BY <1>1 DEF RedisInv
  <2>4. CASE got[1].kind = "-" \/ next.cmd = NoCall
    <3>1. call' = [call EXCEPT ![c] = NoCall] /\ trip' = [trip EXCEPT ![c] = NoTrip] /\ UNCHANGED made
      BY <2>2, <2>4 DEF Complete, Panic, Ended
    <3> QED BY <1>1, <1>6, <2>1, <2>3, <3>1, RedisEnds
  <2>5. CASE got[1].kind # "-" /\ next.cmd # NoCall
    <3> DEFINE t == Begin(next.cmd)
    <3>1. trip' = [trip EXCEPT ![c] = t] /\ UNCHANGED <<call, made>>
      BY <2>2, <2>5 DEF Complete, Unseen
    <3>2. call[c].op = "scan" => m.op = "scan" /\ got[3].n \in Nat
      BY <1>3, <1>4, <2>1, <2>5 DEF WholeReply
    <3>3. next.cmd \in CmdType /\ (call[c].op = "scan" => next.cmd.op = "scan")
      BY <1>2, <1>4, <2>5, <3>2, ResumeType
    <3> HIDE DEF next
    <3>4. /\ t \in TripType /\ t # NoTrip /\ t.at = "start" /\ t.got = <<>>
          /\ call[c].op = "scan" => t.cmd.op = "scan"
      BY <3>3, ConstantTypes DEF Begin
    <3> HIDE DEF t
    <3>5. StreamOK(call[c], t, s, n)
      BY <1>4, <1>6, <2>1, <3>4, ConstantTypes DEF StreamOK
    <3>6. \A d \in Clients : StreamOK(call'[d], trip'[d], slot'[d], sent'[d])
      BY <1>1, <3>1, <3>5 DEF RedisInv
    <3>7. slot' \in [Clients -> StreamType] /\ trip' \in [Clients -> TripType]
      BY <1>1, <1>6, <3>1, <3>4 DEF RedisInv
    <3> QED BY <1>1, <3>1, <3>6, <3>7 DEF RedisInv
  <2> QED BY <2>4, <2>5
<1> QED BY <1>9, <1>10

LEMMA RedisStep ==
  ASSUME RedisInv, RedisNext
  PROVE  RedisInv'
<1>1. CASE \E c \in Clients : \E q \in NextCalls(c) : RedisInvoke(c, q)
  BY <1>1, RedisInvokes
<1>2. ASSUME NEW c \in Clients, RedisClient(c) \/ RedisExec(c) \/ RedisRefuses(c)
      PROVE  RedisInv'
  BY <1>2, RedisSkips, RedisOpens, RedisWrites, RedisReads, RedisReadsFail, RedisServes DEF RedisClient
<1> QED BY <1>1, <1>2, RedisOrphans DEF RedisNext

\* Together with the store that is not used, these are the facts about redis.
LEMMA RedisFacts ==
  ASSUME RedisInv, NEW c \in Clients
  PROVE  /\ trip[c] = NoTrip <=> call[c] = NoCall
         /\ Len(slot[c].req) <= 1
         /\ \A i \in DOMAIN trip[c].got : trip[c].got[i].by = sent[c]
         /\ trip[c].at = "start" => slot[c].req = <<>> /\ slot[c].rep = <<>>
<1>1. StreamOK(call[c], trip[c], slot[c], sent[c]) /\ trip[c].got \in Seq(Token) /\ slot[c].rep \in Seq(Token)
  BY RedisClientTypes
<1>2. Len(slot[c].req) <= 1
  <2>1. slot[c].req = <<>> \/ slot[c].req = <<[cmd |-> trip[c].cmd, by |-> sent[c]]>>
    BY <1>1 DEF StreamOK
  <2>2. \A r : Len(<<r>>) = 1
    OBVIOUS
  <2>3. slot[c].req = <<>> => Len(slot[c].req) = 0
    OBVIOUS
  <2>4. slot[c].req # <<>> => Len(slot[c].req) = 1
    BY <2>1, <2>2
  <2> DEFINE l == Len(slot[c].req)
  <2>5. l = 0 \/ l = 1
    BY <2>3, <2>4
  <2> HIDE DEF l
  <2>6. l <= 1
    BY <2>5
  <2> QED BY <2>6 DEF l
<1>3. ASSUME NEW i \in DOMAIN trip[c].got PROVE trip[c].got[i].by = sent[c]
  <2>1. trip[c].got # <<>>
    OBVIOUS
  <2>2. WholeReply(trip[c].cmd, sent[c], trip[c].got \o slot[c].rep)
    BY <1>1, <2>1 DEF StreamOK
  <2>3. /\ i \in 1 .. Len(trip[c].got \o slot[c].rep)
        /\ (trip[c].got \o slot[c].rep)[i] = trip[c].got[i]
    <3> DEFINE a == trip[c].got
               b == slot[c].rep
    <3>1. a \in Seq(Token) /\ b \in Seq(Token) /\ i \in DOMAIN a
      BY <1>1
    <3> HIDE DEF a, b
    <3>2. i \in 1 .. Len(a) /\ Len(a) \in Nat /\ Len(b) \in Nat
      BY <3>1
    <3>3. Len(a \o b) = Len(a) + Len(b) /\ (a \o b)[i] = a[i]
      BY <3>1, <3>2, ConcatHead
    <3>4. i \in 1 .. Len(a \o b)
      BY <3>2, <3>3
    <3> QED BY <3>3, <3>4 DEF a, b
  <2> QED BY <2>2, <2>3 DEF WholeReply
<1> QED BY <1>1, <1>2, <1>3 DEF StreamOK

-----------------------------------------------------------------------------
\* The requests of S3 clients.

Names == ToSet(ListOrder)
JobType ==
  [m : {"none", "GET", "PUT", "DELETE", "HEAD", "RANGE", "LIST"}, key : Word, val : Word, token : Word,
   off : Nat, len : Nat, attempt : 0 .. MAX_ATTEMPTS, at : {"none", "skip", "sent", "answered"},
   status : Nat, body : Word \cup Seq(Word), more : BOOLEAN]

\* What a request under way is known to be: the body of a listing is names,
\* every other body bytes, and a key that is written is below the prefix.
JobOK(r) ==
  /\ r \in JobType
  /\ r.m = "LIST" => /\ r.body \in Seq(Names) /\ (r.more => r.body # <<>>)
                     /\ r.token = <<>> \/ r.token \in Names
  /\ r.m # "LIST" => r.body \in Word
  /\ r.m \in {"PUT", "DELETE"} => starts_with(r.key, prefix)

CallOK(q) ==
  \/ q = NoCall
  \/ q \in CallType /\ (q.keys = <<>> => q.op \in {"get_many", "del", "flush"})

S3Inv ==
  /\ call \in [Clients -> CallType \cup {NoCall}] /\ made \in [Clients -> Nat]
  /\ prefix \in Word /\ starts_with(prefix, Tenant)
  /\ HoldsWords(bucket) /\ DOMAIN bucket \subseteq Word
  /\ job \in [Clients -> JobType]
  /\ todo \in [Clients -> Seq(Word)] /\ listed \in [Clients -> Seq(Word)]
  /\ \A c \in Clients : CallOK(call[c]) /\ JobOK(job[c]) /\ (job[c] = NoJob <=> call[c] = NoCall)
  /\ \A r \in flying : r.key \in Word /\ r.val \in Word /\ starts_with(r.key, prefix)
  /\ \A n : n \in Word /\ ~ starts_with(n, Tenant) => Value(bucket, n) = Value(Objects, n)

LEMMA ConcatStarts ==
  ASSUME NEW p \in Word, NEW x \in Word
  PROVE  p \o x \in Word /\ starts_with(p \o x, p)
<1>1. p \o x \in Word
  BY DEF Word
<1>2. Len(p) <= Len(p \o x)
  BY DEF Word
<1>3. SubSeq(p, 1, Len(p)) = SubSeq(p \o x, 1, Len(p))
  BY DEF Word
<1> QED BY <1>1, <1>2, <1>3 DEF starts_with, IsPrefix

LEMMA StartsElements ==
  ASSUME NEW p \in Word, NEW n \in Word
  PROVE  starts_with(n, p) <=> Len(p) <= Len(n) /\ \A i \in 1 .. Len(p) : n[i] = p[i]
<1>1. Len(p) \in Nat /\ Len(n) \in Nat /\ SubSeq(p, 1, Len(p)) = p
  BY DEF Word
<1>2. ASSUME Len(p) <= Len(n)
      PROVE  p = SubSeq(n, 1, Len(p)) <=> \A i \in 1 .. Len(p) : n[i] = p[i]
  <2> DEFINE u == SubSeq(n, 1, Len(p))
  <2>1. u \in Seq(Letters) /\ Len(u) = Len(p) /\ \A i \in 1 .. Len(p) : u[i] = n[i]
    BY <1>1, <1>2 DEF Word
  <2> HIDE DEF u
  <2>2. (\A i \in 1 .. Len(p) : u[i] = p[i]) => p = u
    BY <2>1, SeqEqual DEF Word
  <2> QED BY <2>1, <2>2 DEF u
<1> QED BY <1>1, <1>2 DEF starts_with, IsPrefix

LEMMA StartsTransitive ==
  ASSUME NEW n \in Word, NEW p \in Word, NEW t \in Word, starts_with(n, p), starts_with(p, t)
  PROVE  starts_with(n, t)
<1>1. Len(p) \in Nat /\ Len(n) \in Nat /\ Len(t) \in Nat
  BY DEF Word
<1>2. Len(p) <= Len(n) /\ \A i \in 1 .. Len(p) : n[i] = p[i]
  BY StartsElements
<1>3. Len(t) <= Len(p) /\ \A i \in 1 .. Len(t) : p[i] = t[i]
  BY StartsElements
<1>4. \A i \in 1 .. Len(t) : n[i] = t[i]
  BY <1>1, <1>2, <1>3
<1> QED BY <1>1, <1>2, <1>3, <1>4, StartsElements

LEMMA TailWord ==
  ASSUME NEW k \in Word, starts_with(k, Root)
  PROVE  Tail(k) \in Word
<1>1. Len(Root) = 1
  BY DEF Root
<1>2. Len(k) >= 1
  BY <1>1 DEF starts_with, IsPrefix
<1>3. k # <<>>
  BY <1>2 DEF Word
<1> QED BY <1>3 DEF Word

LEMMA ObjectKey ==
  ASSUME NEW p \in Word, NEW k \in Word
  PROVE  object_key(p, k) \in Word /\ starts_with(object_key(p, k), p)
<1> DEFINE x == IF starts_with(k, Root) THEN Tail(k) ELSE k
<1>1. x \in Word
  BY TailWord
<1>2. object_key(p, k) = p \o x
  BY DEF object_key
<1> HIDE DEF x
<1> QED BY <1>1, <1>2, ConcatStarts

LEMMA RequestOK ==
  ASSUME prefix \in Word, NEW k \in Word, NEW v \in Word,
         NEW m \in {"GET", "PUT", "DELETE", "HEAD", "RANGE", "LIST"}
  PROVE  JobOK(Request(m, k, v)) /\ Request(m, k, v) # NoJob /\ Request(m, k, v).m = m
<1> DEFINE o == object_key(prefix, k)
           r == [NoJob EXCEPT !.m = m, !.key = o, !.val = v, !.attempt = 1, !.at = "sent"]
<1>1. o \in Word /\ starts_with(o, prefix)
  BY ObjectKey
<1>2. Request(m, k, v) = r
  BY DEF Request
<1> HIDE DEF o
<1>3. 1 \in 0 .. MAX_ATTEMPTS /\ 0 \in 0 .. MAX_ATTEMPTS /\ <<>> \in Word /\ <<>> \in Seq(Names)
  BY AttemptsAssumption, WordsBasic
<1>4. NoJob \in JobType
  BY <1>3 DEF JobType, NoJob
<1>5. r \in JobType
  BY <1>1, <1>3, <1>4 DEF JobType
<1>6. r.m = m /\ r.key = o /\ r.at = "sent" /\ r.body = <<>> /\ r.token = <<>> /\ r.more = FALSE
  BY DEF NoJob
<1> HIDE DEF r
<1>7. r # NoJob
  BY <1>6 DEF NoJob
<1>8. JobOK(r)
  BY <1>1, <1>3, <1>5, <1>6 DEF JobOK
<1> QED BY <1>2, <1>6, <1>7, <1>8

StepOK(step) == JobOK(step.req) /\ step.del \in Seq(Word)

LEMMA NoJobOK == JobOK(NoJob) /\ JobOK([NoJob EXCEPT !.at = "skip"]) /\ [NoJob EXCEPT !.at = "skip"] # NoJob
<1>1. 0 \in 0 .. MAX_ATTEMPTS /\ <<>> \in Word
  BY AttemptsAssumption, WordsBasic
<1>2. JobOK(NoJob)
  BY <1>1 DEF JobOK, JobType, NoJob
<1>3. JobOK([NoJob EXCEPT !.at = "skip"])
  BY <1>1 DEF JobOK, JobType, NoJob
<1> QED BY <1>2, <1>3 DEF NoJob

LEMMA DoneGoOK ==
  /\ \A a : StepOK(Done(a))
  /\ \A r, ks : JobOK(r) /\ ks \in Seq(Word) => StepOK(Go(r, ks))
<1>1. \A a : Done(a).req = NoJob /\ Done(a).del = <<>>
  BY DEF Done
<1>2. \A r, ks : Go(r, ks).req = r /\ Go(r, ks).del = ks
  BY DEF Go
<1>3. ASSUME NEW a PROVE StepOK(Done(a))
  <2>1. <<>> \in Seq(Word)
    OBVIOUS
  <2> QED BY <1>1, <2>1, NoJobOK DEF StepOK
<1>4. ASSUME NEW r, NEW ks, JobOK(r), ks \in Seq(Word) PROVE StepOK(Go(r, ks))
  BY <1>2, <1>4 DEF StepOK
<1> QED BY <1>3, <1>4

LEMMA DeleteEachOK ==
  ASSUME prefix \in Word, NEW ks \in Seq(Word)
  PROVE  StepOK(DeleteEach(ks))
<1>1. CASE ks = <<>>
  BY <1>1, DoneGoOK DEF DeleteEach
<1>2. CASE ks # <<>>
  <2>1. Head(ks) \in Word /\ Tail(ks) \in Seq(Word)
    BY <1>2
  <2>2. JobOK(Request("DELETE", Head(ks), <<>>))
    BY <2>1, RequestOK, WordsBasic
  <2> QED BY <1>2, <2>1, <2>2, DoneGoOK DEF DeleteEach
<1> QED BY <1>1, <1>2

LEMMA ListFromOK ==
  ASSUME prefix \in Word, NEW k \in Word
  PROVE  JobOK(ListFrom(k, <<>>))
<1> DEFINE r == Request("LIST", k, <<>>)
<1>1. JobOK(r) /\ r.m = "LIST"
  BY RequestOK, WordsBasic
<1> HIDE DEF r
<1>2. JobOK([r EXCEPT !.token = <<>>])
  BY <1>1, WordsBasic DEF JobOK, JobType
<1> QED BY <1>2 DEF ListFrom, r

\* The one key of a call that is not about several.
LEMMA OneKey ==
  ASSUME NEW q \in CallType, CallOK(q)
  PROVE  /\ q.keys \in Seq(Word) /\ q.val \in Word /\ q.off \in Nat /\ q.len \in Nat
         /\ q.op \in {"get", "get_many", "get_part", "exists", "scan", "set", "set_part", "del", "flush"}
         /\ q.op \notin {"get_many", "del", "flush"} \/ q.keys # <<>> => q.keys[1] \in Word
<1>1. /\ q.keys \in Seq(Word) /\ q.val \in Word /\ q.off \in Nat /\ q.len \in Nat
      /\ q.op \in {"get", "get_many", "get_part", "exists", "scan", "set", "set_part", "del", "flush"}
  BY DEF CallType
<1>2. q.keys # <<>> => q.keys[1] \in Word
  BY <1>1
<1>3. q.op \notin {"get_many", "del", "flush"} => q.keys # <<>>
  BY ConstantTypes DEF CallOK
<1> QED BY <1>1, <1>2, <1>3

LEMMA FirstRequestOK ==
  ASSUME prefix \in Word, NEW q \in CallType, CallOK(q)
  PROVE  StepOK(FirstRequest(q))
<1> DEFINE k == q.keys[1]
<1>1. <<>> \in Word /\ <<>> \in Seq(Word) /\ Root \in Word
  BY WordsBasic
<1>2. CASE q.op = "get_many"
  <2>1. CASE q.keys = <<>>
    BY <1>2, <2>1, DoneGoOK DEF FirstRequest
  <2>2. CASE q.keys # <<>>
    <3>1. k \in Word /\ Tail(q.keys) \in Seq(Word)
      BY <2>2, OneKey
    <3>2. JobOK(Request("GET", k, <<>>))
      BY <1>1, <3>1, RequestOK
    <3> QED BY <1>2, <2>2, <3>1, <3>2, DoneGoOK DEF FirstRequest
  <2> QED BY <2>1, <2>2
<1>3. CASE q.op = "get"
  <2>1. k \in Word
    BY <1>3, OneKey
  <2>2. JobOK(Request("GET", k, <<>>))
    BY <1>1, <2>1, RequestOK
  <2> QED BY <1>1, <1>3, <2>2, DoneGoOK DEF FirstRequest
<1>4. CASE q.op = "set"
  <2>1. k \in Word /\ q.val \in Word
    BY <1>4, OneKey
  <2>2. JobOK(Request("PUT", k, q.val))
    BY <2>1, RequestOK
  <2> QED BY <1>1, <1>4, <2>2, DoneGoOK DEF FirstRequest
<1>5. CASE q.op \in {"exists", "get_part", "set_part"}
  <2>1. k \in Word
    BY <1>5, OneKey
  <2>2. JobOK(Request("HEAD", k, <<>>))
    BY <1>1, <2>1, RequestOK
  <2> QED BY <1>1, <1>5, <2>2, DoneGoOK DEF FirstRequest
<1>6. CASE q.op = "del"
  BY <1>6, OneKey, DeleteEachOK DEF FirstRequest
<1>7. CASE q.op = "scan"
  <2>1. k \in Word
    BY <1>7, OneKey
  <2> QED BY <1>1, <1>7, <2>1, ListFromOK, DoneGoOK DEF FirstRequest
<1>8. CASE q.op = "flush"
  <2>1. FirstRequest(q) = Go(ListFrom(Root, <<>>), <<>>)
    BY <1>8 DEF FirstRequest
  <2> QED BY <1>1, <2>1, ListFromOK, DoneGoOK
<1> QED BY <1>2, <1>3, <1>4, <1>5, <1>6, <1>7, <1>8, OneKey

LEMMA NamesWords == Names \subseteq Word
<1>1. \A i \in DOMAIN ListOrder : ListOrder[i] \in Word
  BY BucketAssumption
<1> QED BY <1>1 DEF Names, ToSet

LEMMA AfterListOK ==
  ASSUME prefix \in Word, NEW q, NEW r, JobOK(r), r.m = "LIST", NEW keys \in Seq(Word)
  PROVE  StepOK(after_list(q, r, keys))
<1>1. CASE r.more
  <2> DEFINE t == Last(r.body)
             n == [r EXCEPT !.token = t, !.attempt = 1, !.at = "sent"]
  <2>1. r.body \in Seq(Names) /\ r.body # <<>>
    BY <1>1 DEF JobOK
  <2>2. t \in Names /\ t \in Word
    BY <2>1, NamesWords DEF Last
  <2> HIDE DEF t
  <2>3. r \in JobType /\ 1 \in 0 .. MAX_ATTEMPTS
    BY AttemptsAssumption DEF JobOK
  <2>4. n \in JobType
    BY <2>2, <2>3 DEF JobType
  <2>5. n.m = "LIST" /\ n.body = r.body /\ n.more = r.more /\ n.token = t
    BY <2>3 DEF JobType
  <2>6. JobOK(n)
    <3> HIDE DEF n
    <3> QED BY <2>1, <2>2, <2>4, <2>5 DEF JobOK
  <2>7. after_list(q, r, keys) = Go(n, <<>>)
    BY <1>1 DEF after_list, t
  <2>8. <<>> \in Seq(Word)
    OBVIOUS
  <2> HIDE DEF n
  <2> QED BY <2>6, <2>7, <2>8, DoneGoOK
<1>2. CASE ~ r.more /\ q.op = "flush"
  BY <1>2, DeleteEachOK DEF after_list
<1>3. CASE ~ r.more /\ q.op # "flush"
  BY <1>3, DoneGoOK DEF after_list
<1> QED BY <1>1, <1>2, <1>3

LEMMA NextRequestOK ==
  ASSUME prefix \in Word, NEW q \in CallType, CallOK(q), NEW r, JobOK(r),
         NEW ks \in Seq(Word), NEW keys \in Seq(Word)
  PROVE  StepOK(NextRequest(q, r, ks, keys))
<1> DEFINE k == q.keys[1]
           step == NextRequest(q, r, ks, keys)
<1>1. <<>> \in Word /\ <<>> \in Seq(Word)
  BY WordsBasic
<1>2. CASE q.op \in {"get", "exists"}
  <2>1. \E a : step = Done(a)
    BY <1>2 DEF NextRequest
  <2> HIDE DEF step
  <2>2. StepOK(step)
    BY <2>1, DoneGoOK
  <2> QED BY <2>2 DEF step
<1>3. CASE q.op = "get_many"
  <2>1. CASE ks = <<>>
    <3>1. step = Done(keys)
      BY <1>3, <2>1 DEF NextRequest
    <3> QED BY <3>1, DoneGoOK
  <2>2. CASE ks # <<>>
    <3>1. Head(ks) \in Word /\ Tail(ks) \in Seq(Word)
      BY <2>2
    <3>2. JobOK(Request("GET", Head(ks), <<>>))
      BY <1>1, <3>1, RequestOK
    <3>3. step = Go(Request("GET", Head(ks), <<>>), Tail(ks))
      BY <1>3, <2>2 DEF NextRequest
    <3> QED BY <3>1, <3>2, <3>3, DoneGoOK
  <2> QED BY <2>1, <2>2
<1>4. CASE q.op \in {"get_part", "set_part"}
  <2>1. k \in Word /\ q.off \in Nat /\ q.len \in Nat /\ q.val \in Word
    BY <1>4, OneKey
  <2> HIDE DEF k
  <2>2. JobOK(Request("GET", k, <<>>))
    BY <1>1, <2>1, RequestOK
  <2>3. <<k>> \in Seq(Word)
    BY <2>1
  <2>4. CASE q.op = "get_part" /\ r.m = "HEAD"
    <3> DEFINE g == Request("RANGE", k, <<>>)
    <3>1. JobOK(g) /\ g.m = "RANGE"
      BY <1>1, <2>1, RequestOK
    <3> HIDE DEF g
    <3>2. JobOK([g EXCEPT !.off = q.off, !.len = q.len])
      BY <2>1, <3>1 DEF JobOK, JobType
    <3>3. \/ \E a : step = Done(a)
          \/ step = Go(Request("GET", k, <<>>), <<>>)
          \/ step = Go([g EXCEPT !.off = q.off, !.len = q.len], <<>>)
      BY <2>4 DEF NextRequest, g, k
    <3> QED BY <1>1, <2>2, <3>2, <3>3, DoneGoOK
  <2>5. CASE q.op = "get_part" /\ r.m = "GET"
    BY <2>5, DoneGoOK DEF NextRequest
  <2>6. CASE q.op = "get_part" /\ r.m = "RANGE"
    BY <2>6, DoneGoOK DEF NextRequest
  <2>7. CASE q.op = "set_part" /\ r.m = "HEAD"
    <3>1. (\E a : step = Done(a)) \/ step = Go(Request("GET", k, <<>>), <<>>)
      BY <2>7 DEF NextRequest, k
    <3> QED BY <1>1, <2>2, <3>1, DoneGoOK
  <2>8. CASE q.op = "set_part" /\ r.m = "GET" /\ ks = <<>>
    <3>1. (\E a : step = Done(a)) \/ step = Go(Request("GET", k, <<>>), <<k>>)
      BY <2>8 DEF NextRequest, k
    <3> QED BY <2>2, <2>3, <3>1, DoneGoOK
  <2>9. CASE q.op = "set_part" /\ r.m = "GET" /\ ks # <<>>
    <3> DEFINE old == IF r.status \in {200, 206} THEN r.body ELSE Missing
               new == patch(old, q.off, q.val)
    <3>1. step = after_reread(q, old)
      BY <2>9 DEF NextRequest
    <3>2. old \in Word
      BY <1>1, <2>9 DEF JobOK, Missing
    <3> HIDE DEF old
    <3>3. new \in Word
      BY <2>1, <3>2, PatchType
    <3>4. JobOK(Request("PUT", k, new))
      <4> HIDE DEF new
      <4> QED BY <2>1, <3>3, RequestOK
    <3>5. (\E a : step = Done(a)) \/ step = Go(Request("PUT", k, new), <<>>)
      BY <3>1 DEF after_reread, k
    <3> QED BY <1>1, <3>4, <3>5, DoneGoOK
  <2>10. CASE \/ r.m \notin {"HEAD", "GET", "RANGE"}
              \/ q.op = "set_part" /\ r.m = "RANGE"
    <3>1. step = Done(<<>>)
      BY <1>4, <2>10 DEF NextRequest
    <3> QED BY <3>1, DoneGoOK
  <2> HIDE DEF step
  <2> QED BY <1>4, <2>4, <2>5, <2>6, <2>7, <2>8, <2>9, <2>10 DEF step
<1>5. CASE q.op \in {"set", "del", "scan", "flush"}
  <2>1. CASE q.op \in {"scan", "flush"} /\ r.m = "LIST"
    <3>1. step = after_list(q, r, keys)
      BY <2>1 DEF NextRequest
    <3> QED BY <2>1, <3>1, AfterListOK
  <2>2. CASE q.op \in {"del", "flush"} /\ r.m = "DELETE"
    <3>1. step = DeleteEach(ks)
      BY <2>2 DEF NextRequest
    <3> QED BY <3>1, DeleteEachOK
  <2>3. CASE /\ ~ (q.op \in {"scan", "flush"} /\ r.m = "LIST")
             /\ ~ (q.op \in {"del", "flush"} /\ r.m = "DELETE")
    <3>1. step = Done(<<>>)
      BY <1>5, <2>3 DEF NextRequest
    <3> QED BY <3>1, DoneGoOK
  <2> QED BY <2>1, <2>2, <2>3
<1> QED BY <1>2, <1>3, <1>4, <1>5, OneKey

\* What the service answers a request with: names for a listing, else bytes.
Fits(j, r) ==
  /\ r.status \in Nat /\ r.more \in BOOLEAN
  /\ j.m = "LIST" => r.body \in Seq(Names) /\ (r.more => r.body # <<>>)
  /\ j.m # "LIST" => r.body \in Word

LEMMA BytesFit ==
  ASSUME NEW j, j.m # "LIST", NEW st \in Nat, NEW v \in Word
  PROVE  Fits(j, Reply(st, v))
<1> DEFINE r == Reply(st, v)
<1>1. r.status = st /\ r.body = v
  BY DEF Reply
<1>2. r.more = FALSE
  BY DEF Reply
<1> HIDE DEF r
<1>3. r.more \in BOOLEAN
  BY <1>2, Zenon
<1> QED BY <1>1, <1>3 DEF Fits, r

LEMMA NamesFit ==
  ASSUME NEW j, j.m = "LIST", NEW rest \in Seq(Names), NEW r \in Listings(rest)
  PROVE  Fits(j, r)
<1>1. CASE rest = <<>>
  <2>1. r = [status |-> 200, body |-> <<>>, more |-> FALSE]
    BY <1>1 DEF Listings
  <2>2. r.status \in Nat /\ r.body = <<>>
    BY <2>1
  <2>3. r.more = FALSE
    BY <2>1
  <2>4. r.more \in BOOLEAN /\ ~ r.more
    BY <2>3, Zenon
  <2>5. r.body \in Seq(Names)
    BY <2>2
  <2> QED BY <2>2, <2>4, <2>5 DEF Fits
<1>2. CASE rest # <<>>
  <2>1. PICK i \in DOMAIN rest : r = [status |-> 200, body |-> SubSeq(rest, 1, i), more |-> i < Len(rest)]
    BY <1>2 DEF Listings
  <2>2. SubSeq(rest, 1, i) \in Seq(Names) /\ Len(SubSeq(rest, 1, i)) = i /\ i >= 1
    BY <2>1
  <2>3. SubSeq(rest, 1, i) # <<>>
    BY <2>2
  <2>4. r.status \in Nat /\ r.body = SubSeq(rest, 1, i)
    BY <2>1
  <2>5. r.more \in BOOLEAN
    BY <2>1
  <2>6. r.body \in Seq(Names) /\ r.body # <<>>
    BY <2>2, <2>3, <2>4
  <2> QED BY <2>4, <2>5, <2>6 DEF Fits
<1> QED BY <1>1, <1>2

\* The service answers listings with names and everything else with bytes.
LEMMA RepliesOK ==
  ASSUME NEW j, JobOK(j), NEW b, HoldsWords(b), NEW r \in Replies(j, b)
  PROVE  LET n == [j EXCEPT !.at = "answered", !.status = r.status, !.body = r.body, !.more = r.more]
         IN JobOK(n) /\ n # NoJob
<1> DEFINE n == [j EXCEPT !.at = "answered", !.status = r.status, !.body = r.body, !.more = r.more]
<1>1. Fits(j, r)
  <2>1. <<>> \in Word /\ <<>> \in Seq(Names) /\ j.off \in Nat /\ j.len \in Nat
    BY WordsBasic DEF JobOK, JobType
  <2>2. CASE j.m = "LIST"
    <3> DEFINE from == IF j.token = <<>> THEN 0 ELSE CHOOSE i \in DOMAIN ListOrder : ListOrder[i] = j.token
               P == {x \in DOMAIN b : starts_with(x, j.key)}
               ds == drop(ListOrder, from)
               rest == Rest(b, j)
    <3>1. ListOrder \in Seq(Names) /\ Len(ListOrder) \in Nat /\ DOMAIN ListOrder = 1 .. Len(ListOrder)
      <4>1. ListOrder \in Seq(Word)
        BY BucketAssumption
      <4>2. Len(ListOrder) \in Nat /\ DOMAIN ListOrder = 1 .. Len(ListOrder)
        BY <4>1
      <4>3. \A i \in 1 .. Len(ListOrder) : ListOrder[i] \in Names
        BY <4>2 DEF Names, ToSet
      <4>4. ListOrder = [i \in 1 .. Len(ListOrder) |-> ListOrder[i]]
        BY <4>1
      <4> QED BY <4>2, <4>3, <4>4
    <3>2. from \in 0 .. Len(ListOrder)
      <4>1. CASE j.token = <<>>
        BY <3>1, <4>1
      <4>2. CASE j.token # <<>>
        <5>1. \E i \in DOMAIN ListOrder : ListOrder[i] = j.token
          BY <2>2, <4>2 DEF JobOK, Names, ToSet
        <5> QED BY <3>1, <4>2, <5>1
      <4> QED BY <4>1, <4>2
    <3>3. rest = Filter(ds, P)
      BY DEF Rest
    <3> HIDE DEF from, P
    <3>4. ds \in Seq(Names)
      BY <3>1, <3>2 DEF drop
    <3> HIDE DEF ds
    <3>5. rest \in Seq(Names)
      BY <3>3, <3>4, FilterType
    <3>6. r \in Listings(rest)
      BY <2>2 DEF Replies
    <3> HIDE DEF rest
    <3> QED BY <2>2, <3>5, <3>6, NamesFit
  <2>3. 200 \in Nat /\ 206 \in Nat /\ 404 \in Nat /\ 416 \in Nat
    OBVIOUS
  <2>4. \A k \in DOMAIN b : b[k] \in Word
    BY DEF HoldsWords
  <2>5. CASE j.m = "GET"
    <3>1. (j.key \in DOMAIN b /\ r = Reply(200, b[j.key])) \/ r = Reply(404, <<>>)
      BY <2>5 DEF Replies
    <3> QED BY <2>1, <2>3, <2>4, <2>5, <3>1, BytesFit
  <2>6. CASE j.m = "RANGE"
    <3>1. \/ r \in {Reply(404, <<>>), Reply(416, <<>>)}
          \/ j.key \in DOMAIN b /\ r = Reply(206, slice(b[j.key], j.off, j.len))
      BY <2>6 DEF Replies
    <3>2. j.key \in DOMAIN b => slice(b[j.key], j.off, j.len) \in Word
      BY <2>1, <2>4, SliceType
    <3> QED BY <2>1, <2>3, <2>6, <3>1, <3>2, BytesFit
  <2>7. CASE j.m = "HEAD"
    <3>1. r \in {Reply(200, <<>>), Reply(404, <<>>)}
      BY <2>7 DEF Replies
    <3> QED BY <2>1, <2>3, <2>7, <3>1, BytesFit
  <2>8. CASE j.m \notin {"LIST", "GET", "RANGE", "HEAD"}
    <3>1. r = Reply(200, <<>>)
      BY <2>8 DEF Replies
    <3> QED BY <2>1, <2>3, <2>8, <3>1, BytesFit
  <2> QED BY <2>2, <2>5, <2>6, <2>7, <2>8
<1>2. j \in JobType
  BY DEF JobOK
<1>3. r.body \in Word \cup Seq(Word)
  <2>1. \A x \in Seq(Names) : x \in Seq(Word)
    BY NamesWords, SeqMonotonic
  <2> QED BY <1>1, <2>1 DEF Fits
<1>4. n \in JobType
  BY <1>1, <1>2, <1>3 DEF JobType, Fits
<1>5. /\ n.m = j.m /\ n.key = j.key /\ n.token = j.token /\ n.body = r.body /\ n.more = r.more
      /\ n.at = "answered"
  BY <1>2 DEF JobType
<1> HIDE DEF n
<1>6. JobOK(n)
  BY <1>1, <1>4, <1>5 DEF JobOK, Fits
<1>7. n # NoJob
  BY <1>5 DEF NoJob
<1> QED BY <1>6, <1>7 DEF n

-----------------------------------------------------------------------------
\* The steps of S3 clients and of the bucket.

LEMMA S3ClientTypes ==
  ASSUME S3Inv, NEW c \in Clients
  PROVE  /\ call[c] \in CallType \cup {NoCall} /\ CallOK(call[c])
         /\ job[c] \in JobType /\ JobOK(job[c]) /\ (job[c] = NoJob <=> call[c] = NoCall)
         /\ todo[c] \in Seq(Word) /\ listed[c] \in Seq(Word) /\ prefix \in Word
BY DEF S3Inv

\* A step of client c that leaves the bucket alone.
LEMMA S3Moves ==
  ASSUME S3Inv, NEW c \in Clients, NEW q \in CallType \cup {NoCall}, CallOK(q),
         NEW j, JobOK(j), j = NoJob <=> q = NoCall,
         NEW ks \in Seq(Word), NEW keys \in Seq(Word),
         call' = [call EXCEPT ![c] = q], made' \in [Clients -> Nat],
         job' = [job EXCEPT ![c] = j], todo' = [todo EXCEPT ![c] = ks], listed' = [listed EXCEPT ![c] = keys],
         \A r \in flying' : r.key \in Word /\ r.val \in Word /\ starts_with(r.key, prefix),
         UNCHANGED <<bucket, prefix>>
  PROVE  S3Inv'
<1>1. j \in JobType
  BY DEF JobOK
<1>2. /\ call' \in [Clients -> CallType \cup {NoCall}] /\ job' \in [Clients -> JobType]
      /\ todo' \in [Clients -> Seq(Word)] /\ listed' \in [Clients -> Seq(Word)]
  BY <1>1 DEF S3Inv
<1>3. \A x : JobOK(x) => JobOK(x)'
  BY DEF JobOK
<1>4. \A d \in Clients : CallOK(call'[d]) /\ JobOK(job'[d]) /\ (job'[d] = NoJob <=> call'[d] = NoCall)
  BY DEF S3Inv
<1>5. \A d \in Clients : JobOK(job[d])'
  BY <1>4 DEF JobOK
<1>6. \A d \in Clients : CallOK(call[d])'
  BY <1>4 DEF CallOK
<1> QED BY <1>2, <1>4, <1>5, <1>6 DEF S3Inv

\* The end of a call.
LEMMA S3Ends ==
  ASSUME S3Inv, NEW c \in Clients, NEW a, Ended(c, a), Proceed(c, Done(<<>>), <<>>),
         \A r \in flying' : r.key \in Word /\ r.val \in Word /\ starts_with(r.key, prefix),
         UNCHANGED <<bucket, prefix>>
  PROVE  S3Inv'
<1> DEFINE e == <<>>
<1>1. Done(e).req = NoJob /\ Done(e).del = e
  BY DEF Done
<1>2. /\ call' = [call EXCEPT ![c] = NoCall] /\ made' = made
      /\ job' = [job EXCEPT ![c] = NoJob] /\ todo' = [todo EXCEPT ![c] = e] /\ listed' = [listed EXCEPT ![c] = e]
  BY <1>1 DEF Ended, Proceed
<1>3. e \in Seq(Word) /\ CallOK(NoCall) /\ made' \in [Clients -> Nat]
  BY <1>2 DEF CallOK, S3Inv
<1> HIDE DEF e
<1> QED BY <1>2, <1>3, NoJobOK, S3Moves

LEMMA S3Invokes ==
  ASSUME S3Inv, NEW c \in Clients, NEW q \in NextCalls(c), S3Invoke(c, q)
  PROVE  S3Inv'
<1> DEFINE f == FirstRequest(q)
           step == IF f.req = NoJob THEN Go([NoJob EXCEPT !.at = "skip"], <<>>) ELSE f
           j == step.req
           ks == step.del
           keys == IF j = NoJob THEN <<>> ELSE <<>>
<1>1. q \in CallType /\ CallOK(q) /\ q # NoCall
  BY NextCallsType, ConstantTypes DEF S3Inv, CallOK
<1>2. prefix \in Word
  BY DEF S3Inv
<1>3. StepOK(f)
  BY <1>1, <1>2, FirstRequestOK
<1>4. /\ call' = [call EXCEPT ![c] = q] /\ made' = [made EXCEPT ![c] = @ + 1]
      /\ job' = [job EXCEPT ![c] = j] /\ todo' = [todo EXCEPT ![c] = ks] /\ listed' = [listed EXCEPT ![c] = keys]
      /\ UNCHANGED <<bucket, prefix, flying>>
  BY DEF S3Invoke, Invoked, Proceed
<1> HIDE DEF f
<1>5. JobOK(j) /\ ks \in Seq(Word) /\ j # NoJob
  <2>1. CASE f.req = NoJob
    <3>1. j = [NoJob EXCEPT !.at = "skip"] /\ ks = <<>>
      BY <2>1 DEF Go
    <3>2. <<>> \in Seq(Word)
      OBVIOUS
    <3> HIDE DEF j, ks
    <3> QED BY <3>1, <3>2, NoJobOK
  <2>2. CASE f.req # NoJob
    BY <1>3, <2>2 DEF StepOK
  <2> HIDE DEF j, ks
  <2> QED BY <2>1, <2>2
<1>6. keys \in Seq(Word) /\ made' \in [Clients -> Nat]
  BY <1>4 DEF S3Inv
<1>7. \A r \in flying' : r.key \in Word /\ r.val \in Word /\ starts_with(r.key, prefix)
  BY <1>4 DEF S3Inv
<1> HIDE DEF j, ks, keys
<1> QED BY <1>1, <1>4, <1>5, <1>6, <1>7, S3Moves

LEMMA FlyingKept ==
  ASSUME S3Inv, UNCHANGED flying
  PROVE  \A r \in flying' : r.key \in Word /\ r.val \in Word /\ starts_with(r.key, prefix)
BY DEF S3Inv

LEMMA S3Panics ==
  ASSUME S3Inv, NEW c \in Clients, S3Panic(c), UNCHANGED <<bucket, prefix>>,
         \A r \in flying' : r.key \in Word /\ r.val \in Word /\ starts_with(r.key, prefix)
  PROVE  S3Inv'
BY S3Ends DEF S3Panic

\* What a request stores, or removes, it stores below the prefix.
LEMMA StoredOK ==
  ASSUME S3Inv, NEW r, r.key \in Word, r.val \in Word,
         r.m \in {"PUT", "DELETE"} => starts_with(r.key, prefix)
  PROVE  LET b == Stored(bucket, r)
         IN /\ HoldsWords(b) /\ DOMAIN b \subseteq Word
            /\ \A n : n \in Word /\ ~ starts_with(n, Tenant) => Value(b, n) = Value(Objects, n)
<1> DEFINE b == Stored(bucket, r)
<1>1. /\ HoldsWords(bucket) /\ DOMAIN bucket \subseteq Word /\ prefix \in Word /\ starts_with(prefix, Tenant)
      /\ \A n : n \in Word /\ ~ starts_with(n, Tenant) => Value(bucket, n) = Value(Objects, n)
  BY DEF S3Inv
<1>2. r.m \in {"PUT", "DELETE"} => starts_with(r.key, Tenant)
  BY <1>1, StartsTransitive, TenantAssumption
<1>3. CASE r.m = "PUT"
  <2> DEFINE k == r.key
             v == r.val
  <2>1. b = With(bucket, k, v) /\ v \in Word /\ k \in Word
    BY <1>3 DEF Stored
  <2>2. starts_with(k, Tenant)
    BY <1>2, <1>3
  <2> HIDE DEF b, k, v
  <2>3. HoldsWords(b)
    BY <1>1, <2>1, WithType
  <2>4. DOMAIN b \subseteq Word /\ \A n : n # k => Value(b, n) = Value(bucket, n)
    BY <1>1, <2>1 DEF With, Value
  <2>5. \A n : n \in Word /\ ~ starts_with(n, Tenant) => Value(b, n) = Value(Objects, n)
    BY <1>1, <2>2, <2>4
  <2> QED BY <2>3, <2>4, <2>5 DEF b
<1>4. CASE r.m = "DELETE"
  <2> DEFINE k == r.key
  <2>1. b = Without(bucket, {k})
    BY <1>4 DEF Stored
  <2>2. starts_with(k, Tenant)
    BY <1>2, <1>4
  <2> HIDE DEF b, k
  <2>3. HoldsWords(b)
    BY <1>1, <2>1 DEF HoldsWords, Without
  <2>4. DOMAIN b \subseteq Word /\ \A n : n # k => Value(b, n) = Value(bucket, n)
    BY <1>1, <2>1 DEF Without, Value
  <2>5. \A n : n \in Word /\ ~ starts_with(n, Tenant) => Value(b, n) = Value(Objects, n)
    BY <1>1, <2>2, <2>4
  <2> QED BY <2>3, <2>4, <2>5 DEF b
<1>5. CASE r.m \notin {"PUT", "DELETE"}
  <2>1. b = bucket
    BY <1>5 DEF Stored
  <2> QED BY <1>1, <2>1
<1> QED BY <1>3, <1>4, <1>5

LEMMA S3Stores ==
  ASSUME S3Inv, NEW r, r.key \in Word, r.val \in Word,
         r.m \in {"PUT", "DELETE"} => starts_with(r.key, prefix),
         bucket' = Stored(bucket, r), Seen(Own(bucket')), UNCHANGED prefix,
         todo' = todo, listed' = listed, job' \in [Clients -> JobType],
         \A d \in Clients : JobOK(job'[d]) /\ (job'[d] = NoJob <=> call[d] = NoCall),
         flying' \subseteq flying
  PROVE  S3Inv'
<1>1. UNCHANGED <<call, made>>
  BY DEF Seen
<1> DEFINE b == Stored(bucket, r)
<1>2. /\ HoldsWords(b) /\ DOMAIN b \subseteq Word
      /\ \A n : n \in Word /\ ~ starts_with(n, Tenant) => Value(b, n) = Value(Objects, n)
  BY StoredOK
<1> HIDE DEF b
<1>3. bucket' = b
  BY DEF b
<1>4. HoldsWords(bucket)'
  BY <1>2, <1>3 DEF HoldsWords
<1>5. \A n : n \in Word /\ ~ starts_with(n, Tenant) => Value(bucket', n) = Value(Objects, n)
  BY <1>2, <1>3
<1>6. \A n : (n \in Word /\ ~ starts_with(n, Tenant) => Value(bucket, n) = Value(Objects, n))'
  BY <1>5 DEF Value
<1>7. \A d \in Clients : JobOK(job[d])'
  BY DEF JobOK
<1>8. \A d \in Clients : CallOK(call[d])'
  BY <1>1 DEF S3Inv, CallOK
<1> QED BY <1>1, <1>2, <1>3, <1>4, <1>6, <1>7, <1>8 DEF S3Inv

LEMMA S3Serves ==
  ASSUME S3Inv, NEW c \in Clients, S3Serve(c)
  PROVE  S3Inv'
<1>1. PICK r \in Replies(job[c], bucket) :
        job' = [job EXCEPT ![c].at = "answered", ![c].status = r.status, ![c].body = r.body, ![c].more = r.more]
  BY DEF S3Serve
<1> DEFINE j == [job[c] EXCEPT !.at = "answered", !.status = r.status, !.body = r.body, !.more = r.more]
<1>2. job' = [job EXCEPT ![c] = j]
  BY <1>1
<1>3. job[c] \in JobType /\ JobOK(job[c]) /\ (job[c] = NoJob <=> call[c] = NoCall)
  BY S3ClientTypes
<1>4. HoldsWords(bucket)
  BY DEF S3Inv
<1>5. JobOK(j) /\ j # NoJob
  <2> DEFINE g == job[c]
             b == bucket
             n == [g EXCEPT !.at = "answered", !.status = r.status, !.body = r.body, !.more = r.more]
  <2>1. JobOK(g) /\ HoldsWords(b) /\ r \in Replies(g, b)
    BY <1>1, <1>3, <1>4
  <2>2. j = n
    OBVIOUS
  <2> HIDE DEF g, b, j
  <2>3. JobOK(n) /\ n # NoJob
    BY <2>1, RepliesOK
  <2> HIDE DEF n
  <2> QED BY <2>2, <2>3
<1>6. call[c] # NoCall
  BY <1>3 DEF S3Serve, NoJob
<1> HIDE DEF j
<1>7. job' \in [Clients -> JobType]
  BY <1>2, <1>5 DEF S3Inv, JobOK
<1>8. \A d \in Clients : JobOK(job'[d]) /\ (job'[d] = NoJob <=> call[d] = NoCall)
  BY <1>2, <1>5, <1>6 DEF S3Inv
<1> DEFINE g == job[c]
<1>9. g.key \in Word /\ g.val \in Word /\ (g.m \in {"PUT", "DELETE"} => starts_with(g.key, prefix))
  BY <1>3 DEF JobOK, JobType
<1>10. /\ bucket' = Stored(bucket, g) /\ Seen(Own(bucket')) /\ UNCHANGED prefix
       /\ todo' = todo /\ listed' = listed /\ flying' \subseteq flying
  BY DEF S3Serve
<1> HIDE DEF g
<1> QED BY <1>7, <1>8, <1>9, <1>10, S3Stores

\* A request that was given up reaches the service late.
LEMMA S3Lates ==
  ASSUME S3Inv, S3Late
  PROVE  S3Inv'
<1>1. PICK r \in flying : /\ bucket' = Stored(bucket, r) /\ flying' = flying \ {r}
                          /\ Seen(Own(bucket')) /\ UNCHANGED <<prefix, job, todo, listed>>
  BY DEF S3Late
<1>2. r.key \in Word /\ r.val \in Word /\ starts_with(r.key, prefix)
  BY DEF S3Inv
<1>3. \A d \in Clients : JobOK(job'[d]) /\ (job'[d] = NoJob <=> call[d] = NoCall)
  BY <1>1 DEF S3Inv
<1>4. job' \in [Clients -> JobType] /\ flying' \subseteq flying
  BY <1>1 DEF S3Inv
<1> QED BY <1>1, <1>2, <1>3, <1>4, S3Stores

LEMMA CollectedOK ==
  ASSUME NEW q, NEW r, JobOK(r), prefix \in Word
  PROVE  collected(q, r) \in Seq(Word)
<1>1. CASE r.m = "LIST"
  <2> DEFINE s == [i \in DOMAIN r.body |-> kv_key(r.body[i])]
  <2>1. r.body \in Seq(Names)
    BY <1>1 DEF JobOK
  <2>2. collected(q, r) = s
    BY <1>1 DEF collected
  <2>3. Len(r.body) \in Nat /\ DOMAIN r.body = 1 .. Len(r.body)
    BY <2>1
  <2>4. ASSUME NEW i \in DOMAIN r.body PROVE kv_key(r.body[i]) \in Word
    <3> DEFINE n == r.body[i]
    <3>1. n \in Word /\ n \in Seq(Letters) /\ Len(prefix) \in Nat
      BY <2>1, NamesWords DEF Word
    <3> HIDE DEF n
    <3>2. drop(n, Len(prefix)) \in Word
      BY <3>1 DEF drop, Word
    <3>3. Root \o drop(n, Len(prefix)) \in Word
      <4> DEFINE d == drop(n, Len(prefix))
      <4> HIDE DEF d
      <4>1. d \in Seq(Letters) /\ Root \in Seq(Letters)
        BY <3>2, WordsBasic DEF d, Word
      <4>2. Root \o d \in Seq(Letters)
        BY <4>1
      <4> QED BY <4>2 DEF d, Word
    <3> QED BY <3>3 DEF kv_key, n
  <2>5. s \in [1 .. Len(r.body) -> Word]
    BY <2>3, <2>4
  <2> HIDE DEF s
  <2>6. s \in Seq(Word)
    BY <2>3, <2>5
  <2> QED BY <2>2, <2>6
<1>2. CASE r.m = "GET" /\ q.op = "get_many"
  <2> DEFINE v == IF r.status = 200 THEN r.body ELSE Missing
  <2>1. v \in Word
    BY <1>2, WordsBasic DEF JobOK, Missing
  <2>2. collected(q, r) = <<v>>
    BY <1>2 DEF collected
  <2> HIDE DEF v
  <2>3. <<v>> \in Seq(Word)
    BY <2>1
  <2> QED BY <2>2, <2>3
<1>3. CASE r.m # "LIST" /\ ~ (r.m = "GET" /\ q.op = "get_many")
  <2>1. collected(q, r) = <<>>
    BY <1>3 DEF collected
  <2> QED BY <2>1
<1> QED BY <1>1, <1>2, <1>3

LEMMA S3Receives ==
  ASSUME S3Inv, NEW c \in Clients, S3Receive(c)
  PROVE  S3Inv'
<1> DEFINE q == call[c]
           r == job[c]
           keys == listed[c] \o collected(q, r)
           step == NextRequest(q, r, todo[c], keys)
           last == IF step.req = NoJob THEN <<>> ELSE keys
           j == step.req
           ks == step.del
<1>1. /\ call[c] \in CallType \cup {NoCall} /\ CallOK(call[c]) /\ r \in JobType /\ JobOK(r)
      /\ (r = NoJob <=> call[c] = NoCall)
      /\ todo[c] \in Seq(Word) /\ listed[c] \in Seq(Word) /\ prefix \in Word
  BY S3ClientTypes
<1>2. r # NoJob /\ q \in CallType /\ q # NoCall
  <2>1. r # NoJob
    BY DEF S3Receive, NoJob
  <2> QED BY <1>1, <2>1
<1>3. keys \in Seq(Word)
  <2>1. collected(q, r) \in Seq(Word)
    BY <1>1, CollectedOK
  <2> QED BY <1>1, <2>1
<1>4. UNCHANGED <<bucket, prefix, flying>>
  BY DEF S3Receive
<1>5. \A x \in flying' : x.key \in Word /\ x.val \in Word /\ starts_with(x.key, prefix)
  BY <1>4, FlyingKept
<1>6. CASE r.status = 416
  <2>1. S3Panic(c)
    BY <1>6 DEF S3Receive
  <2> QED BY <1>4, <1>5, <2>1, S3Panics
<1>7. CASE r.status # 416
  <2>1. Advance(c, keys)
    BY <1>7 DEF S3Receive
  <2> HIDE DEF keys
  <2>2. /\ Proceed(c, step, keys)
        /\ IF step.req = NoJob THEN Ended(c, Answered(step.ans)) ELSE Unseen
    BY <2>1 DEF Advance
  <2>3. StepOK(step)
    BY <1>1, <1>2, <1>3, NextRequestOK
  <2>4. job' = [job EXCEPT ![c] = j] /\ todo' = [todo EXCEPT ![c] = ks] /\ listed' = [listed EXCEPT ![c] = last]
    BY <2>2 DEF Proceed
  <2>5. JobOK(j) /\ ks \in Seq(Word)
    BY <2>3 DEF StepOK
  <2>6. last \in Seq(Word)
    <3> HIDE DEF step
    <3> QED BY <1>3
  <2>7. made' \in [Clients -> Nat]
    BY <2>2 DEF Ended, Unseen, S3Inv
  <2>8. CASE j = NoJob
    <3>1. call' = [call EXCEPT ![c] = NoCall]
      BY <2>2, <2>8 DEF Ended
    <3>2. CallOK(NoCall)
      BY DEF CallOK
    <3> HIDE DEF j, ks, last
    <3> QED BY <1>4, <1>5, <2>4, <2>5, <2>6, <2>7, <2>8, <3>1, <3>2, S3Moves
  <2>9. CASE j # NoJob
    <3>1. call' = call
      BY <2>2, <2>9 DEF Unseen
    <3>2. call' = [call EXCEPT ![c] = q]
      BY <3>1 DEF S3Inv
    <3> HIDE DEF j, ks, last, q
    <3>3. CallOK(q)
      BY <1>1 DEF q
    <3> QED BY <1>2, <1>4, <1>5, <2>4, <2>5, <2>6, <2>7, <2>9, <3>2, <3>3, S3Moves
  <2> QED BY <2>8, <2>9
<1> QED BY <1>6, <1>7

LEMMA S3Retries ==
  ASSUME S3Inv, NEW c \in Clients, job[c].at \in {"sent", "answered"}, Again(c), UNCHANGED <<bucket, prefix>>,
         \A r \in flying' : r.key \in Word /\ r.val \in Word /\ starts_with(r.key, prefix)
  PROVE  S3Inv'
<1> DEFINE q == call[c]
           r == job[c]
           j == [r EXCEPT !.at = "sent", !.attempt = @ + 1, !.status = 0, !.body = <<>>, !.more = FALSE]
           ks == todo[c]
           keys == listed[c]
<1>1. /\ q \in CallType \cup {NoCall} /\ CallOK(q) /\ r \in JobType /\ JobOK(r)
      /\ (r = NoJob <=> q = NoCall) /\ ks \in Seq(Word) /\ keys \in Seq(Word)
  BY S3ClientTypes
<1>2. r # NoJob
  BY DEF NoJob
<1>3. CASE ~ (job[c].attempt < MAX_ATTEMPTS)
  BY <1>3, S3Panics DEF Again
<1>4. CASE job[c].attempt < MAX_ATTEMPTS
  <2>1. job' = [job EXCEPT ![c] = j] /\ UNCHANGED <<todo, listed, call, made>>
    BY <1>4 DEF Again, Unseen
  <2>2. /\ call' = [call EXCEPT ![c] = q] /\ todo' = [todo EXCEPT ![c] = ks] /\ listed' = [listed EXCEPT ![c] = keys]
        /\ made' \in [Clients -> Nat]
    BY <2>1 DEF S3Inv
  <2>3. r.attempt + 1 \in 0 .. MAX_ATTEMPTS
    BY <1>1, <1>4, AttemptsAssumption DEF JobType
  <2>4. j \in JobType
    BY <1>1, <2>3, WordsBasic DEF JobType
  <2>5. /\ j.m = r.m /\ j.key = r.key /\ j.token = r.token /\ j.body = <<>> /\ j.more = FALSE /\ j.at = "sent"
    BY <1>1 DEF JobType
  <2> HIDE DEF j, r, q, ks, keys
  <2>6. j # NoJob
    BY <2>5 DEF NoJob
  <2>7. JobOK(j)
    <3>1. <<>> \in Word /\ <<>> \in Seq(Names)
      BY WordsBasic
    <3> QED BY <1>1, <2>4, <2>5, <3>1 DEF JobOK
  <2> QED BY <1>1, <1>2, <2>1, <2>2, <2>6, <2>7, S3Moves
<1> QED BY <1>3, <1>4

LEMMA S3NetworkErrors ==
  ASSUME S3Inv, NEW c \in Clients, S3NetworkError(c)
  PROVE  S3Inv'
<1>1. PICK left \in {{}, {job[c]}} :
        /\ left # {} => job[c].at = "sent" /\ job[c].m \in {"PUT", "DELETE"}
        /\ flying' = flying \cup {[m |-> r.m, key |-> r.key, val |-> r.val] : r \in left}
  BY DEF S3NetworkError
<1>2. JobOK(job[c]) /\ job[c] \in JobType
  BY S3ClientTypes
<1>3. ASSUME NEW x \in flying'
      PROVE  x.key \in Word /\ x.val \in Word /\ starts_with(x.key, prefix)
  <2>1. CASE x \in flying
    BY <2>1 DEF S3Inv
  <2>2. CASE x \notin flying
    <3>1. left # {} /\ x.key = job[c].key /\ x.val = job[c].val
      BY <1>1, <2>2
    <3>2. job[c].key \in Word /\ job[c].val \in Word
      BY <1>2 DEF JobType
    <3> QED BY <1>1, <1>2, <3>1, <3>2 DEF JobOK
  <2> QED BY <2>1, <2>2
<1> QED BY <1>3, S3Retries DEF S3NetworkError

LEMMA S3Step ==
  ASSUME S3Inv, S3Next
  PROVE  S3Inv'
<1>1. ASSUME NEW c \in Clients, NEW q \in NextCalls(c), S3Invoke(c, q) PROVE S3Inv'
  BY <1>1, S3Invokes
<1>2. ASSUME NEW c \in Clients, S3Skip(c) PROVE S3Inv'
  BY <1>2, S3Ends, FlyingKept DEF S3Skip
<1>3. ASSUME NEW c \in Clients, S3Denied(c) PROVE S3Inv'
  BY <1>3, S3Panics, FlyingKept DEF S3Denied
<1>4. ASSUME NEW c \in Clients, S3ServerError(c) PROVE S3Inv'
  BY <1>4, S3Panics, S3Retries, FlyingKept DEF S3ServerError
<1>5. ASSUME NEW c \in Clients, S3BodyError(c) PROVE S3Inv'
  BY <1>5, S3Panics, FlyingKept DEF S3BodyError
<1> QED BY <1>1, <1>2, <1>3, <1>4, <1>5, S3Serves, S3Receives, S3NetworkErrors, S3Lates DEF S3Next

-----------------------------------------------------------------------------
\* The two stores, of which a program uses the one its DSN names.

\* The inductive invariant of a program that has connected.
ConnInv ==
  \/ scheme = "redis" /\ RedisInv /\ S3Init
  \/ scheme = "s3" /\ S3Inv /\ RedisInit

LEMMA ConnStarts ==
  ASSUME ConnInit
  PROVE  ConnInv
<1>1. PICK d \in Dsns : conn(dsn_or_env(d))
  BY DEF ConnInit
<1> DEFINE e == dsn_or_env(d)
<1>2. e \in Dsns \cup {EnvDsn}
  BY DEF dsn_or_env
<1> HIDE DEF e
<1>3. e.prefix \in Word /\ (e.scheme = "s3" /\ ends_with(e.prefix, PATH_SEP) => starts_with(e.prefix, Tenant))
  BY <1>2, TenantAssumption
<1>4. ClientsInit /\ RedisInit /\ S3Init
  BY DEF ConnInit
<1>5. CASE scheme = "redis"
  BY <1>4, <1>5, RedisStarts DEF ConnInv
<1>6. CASE scheme = "s3" /\ scheme_of(e) = "s3" /\ dsn_prefix_ok(e.prefix) /\ prefix = e.prefix
  <2>1. prefix \in Word /\ starts_with(prefix, Tenant)
    BY <1>3, <1>6 DEF scheme_of, dsn_prefix_ok
  <2>2. call \in [Clients -> CallType \cup {NoCall}] /\ made \in [Clients -> Nat]
    BY <1>4 DEF ClientsInit
  <2>3. HoldsWords(bucket) /\ DOMAIN bucket \subseteq Word /\ \A n : Value(bucket, n) = Value(Objects, n)
    BY <1>4, BucketAssumption, NamesWords DEF S3Init, HoldsWords, Names
  <2>4. NoJob \in JobType /\ JobOK(NoJob)
    BY NoJobOK DEF JobOK
  <2>5. <<>> \in Seq(Word)
    OBVIOUS
  <2>6. job \in [Clients -> JobType] /\ todo \in [Clients -> Seq(Word)] /\ listed \in [Clients -> Seq(Word)]
    BY <1>4, <2>4, <2>5 DEF S3Init
  <2>7. \A c \in Clients : job[c] = NoJob /\ call[c] = NoCall
    BY <1>4 DEF S3Init, ClientsInit
  <2>8. \A c \in Clients : CallOK(call[c]) /\ JobOK(job[c]) /\ (job[c] = NoJob <=> call[c] = NoCall)
    BY <2>4, <2>7 DEF CallOK
  <2>9. flying = {}
    BY <1>4 DEF S3Init
  <2>10. S3Inv
    BY <2>1, <2>2, <2>3, <2>6, <2>8, <2>9 DEF S3Inv
  <2> QED BY <1>4, <1>6, <2>10 DEF ConnInv
<1> QED BY <1>1, <1>5, <1>6 DEF conn, e

LEMMA ConnStep ==
  ASSUME ConnInv, [ConnNext]_conn_vars
  PROVE  ConnInv'
<1>1. CASE UNCHANGED conn_vars
  <2>1. UNCHANGED <<scheme, redis, s3, clients>>
    BY <1>1 DEF conn_vars
  <2>2. CASE scheme = "redis" /\ RedisInv /\ S3Init
    <3>1. RedisInv' /\ S3Init'
      BY <2>1, <2>2 DEF RedisInv, S3Init, StreamOK, WholeReply, redis, s3, clients
    <3> QED BY <2>1, <2>2, <3>1 DEF ConnInv
  <2>3. CASE scheme = "s3" /\ S3Inv /\ RedisInit
    <3>1. S3Inv' /\ RedisInit'
      BY <2>1, <2>3 DEF S3Inv, RedisInit, JobOK, CallOK, HoldsWords, Value, redis, s3, clients
    <3> QED BY <2>1, <2>3, <3>1 DEF ConnInv
  <2> QED BY <2>2, <2>3 DEF ConnInv
<1>2. CASE scheme = "redis" /\ RedisNext /\ UNCHANGED <<scheme, s3>>
  <2>1. RedisInv /\ S3Init
    BY <1>2 DEF ConnInv
  <2>2. RedisInv'
    BY <1>2, <2>1, RedisStep
  <2>3. S3Init'
    BY <1>2, <2>1 DEF S3Init, s3
  <2> QED BY <1>2, <2>2, <2>3 DEF ConnInv
<1>3. CASE scheme = "s3" /\ S3Next /\ UNCHANGED <<scheme, redis>>
  <2>1. S3Inv /\ RedisInit
    BY <1>3 DEF ConnInv
  <2>2. S3Inv'
    BY <1>3, <2>1, S3Step
  <2>3. RedisInit'
    BY <1>3, <2>1 DEF RedisInit, redis
  <2> QED BY <1>3, <2>2, <2>3 DEF ConnInv
<1> QED BY <1>1, <1>2, <1>3 DEF ConnNext

LEMMA ConnHolds == ConnSpec => []ConnInv
<1>1. ConnInit => ConnInv
  BY ConnStarts
<1>2. ConnInv /\ [ConnNext]_conn_vars => ConnInv'
  BY ConnStep
<1> QED BY <1>1, <1>2, PTL DEF ConnSpec

LEMMA ConnFacts ==
  ASSUME ConnInv
  PROVE  TypeOK /\ ReplyIsOwn /\ PrefixIsolated
<1>1. CASE scheme = "redis" /\ RedisInv /\ S3Init
  <2>1. \A c \in Clients : job[c] = NoJob
    BY <1>1 DEF S3Init
  <2>2. NoJob.attempt \in 0 .. MAX_ATTEMPTS
    BY AttemptsAssumption DEF NoJob
  <2>3. TypeOK
    BY <1>1, <2>1, <2>2, RedisFacts DEF TypeOK
  <2>4. ReplyIsOwn
    BY <1>1, RedisFacts DEF ReplyIsOwn
  <2>5. PrefixIsolated
    BY <1>1 DEF PrefixIsolated, S3Init
  <2> QED BY <2>3, <2>4, <2>5
<1>2. CASE scheme = "s3" /\ S3Inv /\ RedisInit
  <2>1. \A c \in Clients : trip[c] = NoTrip /\ slot[c] = NewStream
    BY <1>2 DEF RedisInit
  <2>2. NoTrip.got = <<>> /\ NoTrip.at # "start" /\ NewStream.req = <<>>
    BY DEF NoTrip, NewStream
  <2>3. ASSUME NEW c \in Clients
        PROVE  /\ (trip[c] = NoTrip /\ job[c] = NoJob) <=> call[c] = NoCall
               /\ Len(slot[c].req) <= 1
               /\ job[c].attempt \in 0 .. MAX_ATTEMPTS
    <3>1. (job[c] = NoJob <=> call[c] = NoCall) /\ job[c] \in JobType
      BY <1>2, S3ClientTypes
    <3>2. job[c].attempt \in 0 .. MAX_ATTEMPTS
      BY <3>1 DEF JobType
    <3>3. slot[c].req = <<>>
      BY <2>1, <2>2
    <3>4. Len(slot[c].req) <= 1
      BY <3>3
    <3> QED BY <2>1, <3>1, <3>2, <3>4
  <2>4. ReplyIsOwn
    <3>1. \A c \in Clients : trip[c].got = <<>> /\ trip[c].at # "start"
      BY <2>1, <2>2
    <3> QED BY <3>1 DEF ReplyIsOwn
  <2>5. PrefixIsolated
    BY <1>2, BucketAssumption, NamesWords DEF PrefixIsolated, S3Inv, Names
  <2> QED BY <2>3, <2>4, <2>5 DEF TypeOK
<1> QED BY <1>1, <1>2 DEF ConnInv

\* Whatever DSN a program connects to, whatever its handles call and however
\* the server, the service and the network behave: a client has a round trip or
\* a request under way exactly while it is in a call, its stream never carries
\* two commands, and no request is sent more than MAX_ATTEMPTS times
\* (redis/store.rs cmd, s3/store.rs send and send_empty).
THEOREM TypeCorrect == ConnSpec => []TypeOK
BY ConnHolds, ConnFacts, PTL

\* Every piece of a reply that redis/store.rs cmd reads answers the command the
\* client is waiting for, although replies arrive in pieces, late or never and
\* the stream is kept from call to call.
THEOREM RepliesAreOwn == ConnSpec => []ReplyIsOwn
BY ConnHolds, ConnFacts, PTL

\* No write, delete, flush or late request of any S3 handle changes an object
\* outside the tenant's directory: the prefix that dsn::parse accepts is the
\* safety boundary s3/store.rs flush says it is.
THEOREM TenantIsolated == ConnSpec => []PrefixIsolated
BY ConnHolds, ConnFacts, PTL
=============================================================================
