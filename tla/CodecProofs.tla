----------------------------- MODULE CodecProofs -----------------------------
(***************************************************************************)
(* The wire of an XValue for every width of its fields, every langtype and *)
(* every sequence of writes: what was built reads as it was made, and      *)
(* whatever bytes a part write leaves in a head, parsing stays inside.     *)
(***************************************************************************)
EXTENDS Codec, DataTheorems, FiniteSetTheorems

LEMMA Bytes ==
  /\ Word \in Nat /\ Word > 255 /\ 0 \in Byte /\ 1 \in Byte /\ 2 \in Byte
  /\ Byte \subseteq Nat /\ \A x \in Nat : x < Word => x \in Byte
BY WordAssumption DEF Byte

LEMMA Elements ==
  ASSUME NEW s \in Seq(Byte)
  PROVE  Len(s) \in Nat /\ \A j \in 1 .. Len(s) : s[j] \in Byte /\ s[j] \in Nat
<1>1. \A j \in 1 .. Len(s) : s[j] \in Byte
  OBVIOUS
<1>2. \A x \in Byte : x \in Nat
  BY Bytes
<1> QED BY <1>1, <1>2

LEMMA MinOfTwo ==
  ASSUME NEW a \in Nat, NEW b \in Nat, a <= b
  PROVE  Min({a, b}) = a
<1> DEFINE T == {a, b}
<1>1. Min(T) \in T /\ \A y \in T : Min(T) <= y
  <2>1. T \subseteq Nat /\ T # {}
    OBVIOUS
  <2> HIDE DEF T
  <2> QED BY <2>1, MinIs
<1> QED BY <1>1

LEMMA SliceFits ==
  ASSUME NEW T, NEW s \in Seq(T), NEW from \in Nat, NEW n \in Nat, from + n <= Len(s)
  PROVE  /\ Slice(s, from, n) \in Seq(T) /\ Len(Slice(s, from, n)) = n
         /\ \A i \in 1 .. n : Slice(s, from, n)[i] = s[from + i]
<1>1. Slice(s, from, n) = SubSeq(s, from + 1, from + n)
  BY MinOfTwo DEF Slice
<1> DEFINE a == from + 1
           b == from + n
<1>2. a \in Int /\ b \in Int /\ \A i \in a .. b : s[i] \in T
  OBVIOUS
<1>3. /\ SubSeq(s, a, b) \in Seq(T)
      /\ Len(SubSeq(s, a, b)) = IF a <= b THEN b - a + 1 ELSE 0
      /\ \A i \in 1 .. b - a + 1 : SubSeq(s, a, b)[i] = s[a + i - 1]
  <2> HIDE DEF a, b
  <2> QED BY <1>2, SubSeqProperties
<1>4. b - a + 1 = n /\ (a <= b <=> n > 0) /\ \A i \in 1 .. n : a + i - 1 = from + i
  OBVIOUS
<1> DEFINE u == SubSeq(s, a, b)
<1>5. /\ u \in Seq(T) /\ Len(u) = n /\ \A i \in 1 .. n : u[i] = s[from + i]
  <2> HIDE DEF a, b
  <2>1. Len(u) = n
    <3>1. CASE n > 0
      BY <1>3, <1>4, <3>1
    <3>2. CASE ~ (n > 0)
      BY <1>3, <1>4, <3>2
    <3> QED BY <3>1, <3>2
  <2> QED BY <1>3, <1>4, <2>1
<1> HIDE DEF u
<1> QED BY <1>1, <1>5 DEF u, a, b

-----------------------------------------------------------------------------
\* The attribute area.

RecordType == [tag : Byte, data : Seq(Byte), whole : BOOLEAN]

\* What Records finds from byte i on, g being what it finds further on.
FromByte(attrs, i, g) ==
  IF i + 1 > Len(attrs) THEN <<>>
  ELSE IF i + 1 + attrs[i + 1] > Len(attrs) THEN <<BrokenRecord>>
  ELSE <<[tag |-> attrs[i], data |-> Slice(attrs, i + 1, attrs[i + 1]), whole |-> TRUE]>> \o g[i + 2 + attrs[i + 1]]

LEMMA FromByteType ==
  ASSUME NEW attrs \in Seq(Byte), NEW i \in 1 .. Len(attrs) + 2, NEW g,
         \A j \in i + 1 .. Len(attrs) + 2 : g[j] \in Seq(RecordType)
  PROVE  FromByte(attrs, i, g) \in Seq(RecordType)
<1> DEFINE n == Len(attrs)
           a == attrs[i + 1]
<1>1. n \in Nat /\ i \in Nat /\ i >= 1 /\ \A j \in 1 .. n : attrs[j] \in Byte /\ attrs[j] \in Nat
  BY Elements
<1>2. CASE i + 1 > n
  BY <1>2 DEF FromByte
<1>3. CASE ~ (i + 1 > n) /\ i + 1 + a > n
  <2>1. BrokenRecord \in RecordType
    BY Bytes DEF BrokenRecord, RecordType, NoWire
  <2>2. <<BrokenRecord>> \in Seq(RecordType)
    BY <2>1
  <2> QED BY <1>3, <2>2 DEF FromByte
<1>4. CASE ~ (i + 1 > n) /\ ~ (i + 1 + a > n)
  <2>1. i \in 1 .. n /\ i + 1 \in 1 .. n /\ a \in Nat
    BY <1>1, <1>4
  <2> DEFINE d == Slice(attrs, i + 1, a)
             r == [tag |-> attrs[i], data |-> d, whole |-> TRUE]
             u == g[i + 2 + a]
  <2>2. d \in Seq(Byte)
    <3>1. i + 1 \in Nat /\ (i + 1) + a <= n
      BY <1>1, <1>4, <2>1
    <3> HIDE DEF a
    <3> QED BY <2>1, <3>1, SliceFits
  <2> HIDE DEF d
  <2>3. r \in RecordType
    BY <1>1, <2>1, <2>2 DEF RecordType
  <2>4. u \in Seq(RecordType)
    <3>1. i + 2 + a \in i + 1 .. n + 2
      BY <1>1, <1>4, <2>1
    <3> QED BY <3>1
  <2>5. FromByte(attrs, i, g) = <<r>> \o u
    BY <1>4 DEF FromByte, d
  <2> HIDE DEF r, u
  <2>6. <<r>> \in Seq(RecordType)
    BY <2>3
  <2>7. <<r>> \o u \in Seq(RecordType)
    <3> DEFINE q == <<r>>
    <3> HIDE DEF q
    <3>1. q \in Seq(RecordType)
      BY <2>6 DEF q
    <3> QED BY <2>4, <3>1, ConcatProperties DEF q
  <2> QED BY <2>5, <2>7
<1> QED BY <1>2, <1>3, <1>4

\* A later change of g at or before i is not seen from i.
LEMMA FromByteSame ==
  ASSUME NEW attrs \in Seq(Byte), NEW i \in 1 .. Len(attrs) + 2, NEW g, NEW h,
         \A j \in i + 1 .. Len(attrs) + 2 : g[j] = h[j]
  PROVE  FromByte(attrs, i, g) = FromByte(attrs, i, h)
<1> DEFINE n == Len(attrs)
           a == attrs[i + 1]
<1>1. n \in Nat /\ i \in Nat /\ i >= 1 /\ \A j \in 1 .. n : attrs[j] \in Nat
  BY Elements
<1>2. CASE ~ (i + 1 > n) /\ ~ (i + 1 + a > n)
  <2>1. i + 1 \in 1 .. n
    BY <1>1, <1>2
  <2>2. a \in Nat
    BY <1>1, <2>1
  <2>3. i + 2 + a \in i + 1 .. n + 2
    BY <1>1, <1>2, <2>2
  <2>4. g[i + 2 + a] = h[i + 2 + a]
    BY <2>3
  <2> QED BY <1>2, <2>4 DEF FromByte
<1>3. CASE (i + 1 > n) \/ (i + 1 + a > n)
  BY <1>3 DEF FromByte
<1> QED BY <1>2, <1>3

AreRecords(attrs, f) ==
  /\ f \in [1 .. Len(attrs) + 2 -> Seq(RecordType)]
  /\ \A i \in 1 .. Len(attrs) + 2 : f[i] = FromByte(attrs, i, f)

LEMMA RecordsExist ==
  ASSUME NEW attrs \in Seq(Byte)
  PROVE  \E f : AreRecords(attrs, f)
<1> DEFINE n == Len(attrs) + 2
           V == Seq(RecordType)
           Good(k, f) == f \in [1 .. n -> V] /\ \A i \in 1 .. n : i > n - k => f[i] = FromByte(attrs, i, f)
           S == {k \in Nat : k <= n => \E f : Good(k, f)}
<1>1. n \in Nat /\ n >= 2
  OBVIOUS
<1>2. 0 \in S
  <2> DEFINE f == [i \in 1 .. n |-> <<>>]
  <2>1. f \in [1 .. n -> V]
    OBVIOUS
  <2>2. Good(0, f)
    BY <1>1, <2>1
  <2> QED BY <2>2
<1>3. ASSUME NEW k \in Nat, k \in S PROVE k + 1 \in S
  <2> SUFFICES ASSUME k + 1 <= n PROVE \E f : Good(k + 1, f)
    OBVIOUS
  <2>1. PICK f : Good(k, f)
    BY <1>1, <1>3
  <2> DEFINE m == n - k
             x == FromByte(attrs, m, f)
             h == [f EXCEPT ![m] = x]
  <2>2. m \in 1 .. n /\ m \in Nat /\ m <= n
    BY <1>1
  <2>3. f \in [1 .. n -> V]
    BY <2>1
  <2>4. x \in V
    <3>1. \A j \in m + 1 .. n : f[j] \in V
      BY <2>2, <2>3
    <3> HIDE DEF m
    <3> QED BY <2>2, <3>1, FromByteType
  <2> HIDE DEF x
  <2>5. h \in [1 .. n -> V] /\ h[m] = x /\ \A j \in 1 .. n : j # m => h[j] = f[j]
    BY <2>2, <2>3, <2>4
  <2> HIDE DEF h
  <2>6. ASSUME NEW i \in 1 .. n, i > n - (k + 1) PROVE h[i] = FromByte(attrs, i, h)
    <3>1. i >= m
      BY <1>1, <2>6
    <3>2. \A j \in i + 1 .. n : j \in 1 .. n /\ j # m
      BY <2>2, <3>1
    <3>3. \A j \in i + 1 .. n : f[j] = h[j]
      BY <2>5, <3>2
    <3>4. FromByte(attrs, i, f) = FromByte(attrs, i, h)
      BY <3>3, FromByteSame
    <3>5. CASE i = m
      BY <2>5, <3>4, <3>5 DEF x
    <3>6. CASE i # m
      <4>1. i > n - k
        BY <2>2, <3>1, <3>6
      <4>2. f[i] = FromByte(attrs, i, f)
        BY <2>1, <4>1
      <4> QED BY <2>5, <3>4, <3>6, <4>2
    <3> QED BY <3>5, <3>6
  <2>7. Good(k + 1, h)
    BY <2>5, <2>6
  <2> QED BY <2>7
<1>4. Nat \subseteq S
  <2> HIDE DEF S
  <2> QED BY <1>2, <1>3, SetInduction
<1>5. PICK f : Good(n, f)
  <2>1. n \in S
    BY <1>1, <1>4
  <2>2. n <= n
    BY <1>1
  <2> QED BY <2>1, <2>2
<1>6. \A i \in 1 .. n : i > n - n
  BY <1>1
<1>7. AreRecords(attrs, f)
  BY <1>5, <1>6 DEF AreRecords
<1> QED BY <1>7

LEMMA RecordsAre ==
  ASSUME NEW attrs \in Seq(Byte)
  PROVE  \E f : AreRecords(attrs, f) /\ Records(attrs) = f[1]
<1> DEFINE Body(g) == [i \in 1 .. Len(attrs) + 2 |->
                         IF i + 1 > Len(attrs) THEN <<>>
                         ELSE IF i + 1 + attrs[i + 1] > Len(attrs) THEN <<BrokenRecord>>
                         ELSE <<[tag |-> attrs[i], data |-> Slice(attrs, i + 1, attrs[i + 1]), whole |-> TRUE]>>
                                \o g[i + 2 + attrs[i + 1]]]
           h == CHOOSE g : g = Body(g)
           n == Len(attrs) + 2
<1>1. PICK f : AreRecords(attrs, f)
  BY RecordsExist
<1>2. \A g : Body(g) = [i \in 1 .. n |-> FromByte(attrs, i, g)]
  BY DEF FromByte
<1>3. f = Body(f)
  <2>1. f = [i \in 1 .. n |-> FromByte(attrs, i, f)]
    BY <1>1 DEF AreRecords
  <2> HIDE DEF Body
  <2> QED BY <1>2, <2>1
<1>4. Records(attrs) = h[1]
  BY Zenon DEF Records
<1>5. h = Body(h)
  <2> HIDE DEF Body
  <2> QED BY <1>3
<1>6. h = [i \in 1 .. n |-> FromByte(attrs, i, h)]
  <2> HIDE DEF Body, h
  <2> QED BY <1>2, <1>5
<1> HIDE DEF Body, h
<1>7. n \in Nat /\ n >= 2
  OBVIOUS
<1>8. \A i \in 1 .. n : h[i] = FromByte(attrs, i, h)
  BY <1>6
<1> DEFINE S == {k \in Nat : \A i \in 1 .. n : i >= n - k => h[i] \in Seq(RecordType)}
<1>9. ASSUME NEW m \in 1 .. n, \A j \in m + 1 .. n : h[j] \in Seq(RecordType)
      PROVE  h[m] \in Seq(RecordType)
  <2>1. FromByte(attrs, m, h) \in Seq(RecordType)
    BY <1>9, FromByteType
  <2> QED BY <1>8, <2>1
<1>10. 0 \in S
  <2> SUFFICES ASSUME NEW i \in 1 .. n, i >= n - 0 PROVE h[i] \in Seq(RecordType)
    OBVIOUS
  <2>1. i = n /\ i + 1 .. n = {}
    BY <1>7
  <2> HIDE DEF n
  <2>2. \A j \in i + 1 .. n : h[j] \in Seq(RecordType)
    BY <2>1
  <2> QED BY <1>9, <2>2
<1>11. ASSUME NEW k \in Nat, k \in S PROVE k + 1 \in S
  <2> SUFFICES ASSUME NEW i \in 1 .. n, i >= n - (k + 1) PROVE h[i] \in Seq(RecordType)
    OBVIOUS
  <2>1. \A j \in i + 1 .. n : j \in 1 .. n /\ j >= n - k
    BY <1>7
  <2>2. \A j \in i + 1 .. n : h[j] \in Seq(RecordType)
    BY <1>11, <2>1
  <2> QED BY <1>9, <2>2
<1>12. Nat \subseteq S
  <2> HIDE DEF S
  <2> QED BY <1>10, <1>11, SetInduction
<1>13. \A i \in 1 .. n : i >= n - n
  BY <1>7
<1>14. \A i \in 1 .. n : h[i] \in Seq(RecordType)
  BY <1>7, <1>12, <1>13
<1>15. AreRecords(attrs, h)
  BY <1>6, <1>8, <1>14 DEF AreRecords
<1> QED BY <1>4, <1>15

LEMMA RecordsTyped ==
  ASSUME NEW attrs \in Seq(Byte)
  PROVE  Records(attrs) \in Seq(RecordType)
<1>1. PICK f : AreRecords(attrs, f) /\ Records(attrs) = f[1]
  BY RecordsAre
<1>2. 1 \in 1 .. Len(attrs) + 2
  OBVIOUS
<1> QED BY <1>1, <1>2 DEF AreRecords

\* A reallen that scan_reallen finds is a number, whatever the bytes are.
LEMMA ReallenIsNumber ==
  ASSUME NEW attrs \in Seq(Byte)
  PROVE  scan_reallen(attrs).reallen \in Nat
<1> DEFINE rs == Records(attrs)
           mine == {i \in DOMAIN rs : rs[i].tag = ATTR_TAG_REALLEN}
           ok == /\ \A i \in DOMAIN rs : rs[i].whole
                 /\ Cardinality(mine) <= 1 /\ \A i \in mine : Len(rs[i].data) = 1
           x == IF ok /\ mine # {} THEN rs[Min(mine)].data[1] ELSE 0
<1>1. scan_reallen(attrs).reallen = x
  BY DEF scan_reallen
<1>2. x \in Nat
  <2>1. CASE ok /\ mine # {}
    <3>1. rs \in Seq(RecordType)
      BY RecordsTyped
    <3> HIDE DEF rs
    <3>2. mine \subseteq Nat
      BY <3>1
    <3> DEFINE m == Min(mine)
    <3>3. m \in mine
      <4> HIDE DEF mine
      <4> QED BY <2>1, <3>2, MinIs
    <3> HIDE DEF m
    <3>4. Len(rs[m].data) = 1 /\ rs[m] \in RecordType
      BY <2>1, <3>1, <3>3
    <3> DEFINE d == rs[m].data
    <3>5. d \in Seq(Byte)
      BY <3>4 DEF RecordType
    <3>6. Len(d) = 1
      BY <3>4
    <3> HIDE DEF d
    <3>7. d[1] \in Nat
      BY <3>5, <3>6, Elements, SMTT(20)
    <3>8. x = d[1]
      BY <2>1 DEF d, m
    <3> QED BY <3>7, <3>8
  <2>2. CASE ~ (ok /\ mine # {})
    <3>1. x = 0
      BY <2>2
    <3> QED BY <3>1
  <2> QED BY <2>1, <2>2
<1> QED BY <1>1, <1>2

\* What from_wire accepts lies inside the bytes it was given.
LEMMA ParseShape ==
  ASSUME NEW data \in Seq(Byte), headlenpow_from_wire(data).ok
  PROVE  /\ Len(data) >= PREFIX /\ data[BODYLEN] \in Nat /\ data[ATTRSLEN] \in Nat
         /\ PREFIX + data[BODYLEN] + data[ATTRSLEN] <= Len(data)
         /\ headlenpow_from_wire(data).len = data[BODYLEN]
         /\ Len(headlenpow_from_wire(data).attrs) = data[ATTRSLEN]
         /\ effective_len(data) \in Nat /\ effective_len(data) <= data[BODYLEN]
<1> DEFINE h == headlenpow_from_wire(data)
           b == data[BODYLEN]
           c == data[ATTRSLEN]
           body == Slice(data, PREFIX, b)
           attrs == Slice(data, PREFIX + b, c)
           real == scan_reallen(attrs)
<1>1. ~ NoHead.ok
  BY DEF NoHead
<1>2. /\ Len(data) >= PREFIX /\ lengths_fit(data)
      /\ h = head_of(data[LAYOUT], body, attrs, real)
  <2>1. /\ ~ (Len(data) < PREFIX) /\ lengths_fit(data)
        /\ h = cut(data)
    BY <1>1 DEF headlenpow_from_wire
  <2> QED BY <2>1 DEF cut, PREFIX
<1>3. b \in Nat /\ c \in Nat
  BY <1>2, Elements DEF PREFIX, BODYLEN, ATTRSLEN
<1>4. PREFIX + b + c <= Len(data)
  BY <1>2 DEF lengths_fit
<1>5. Len(body) = b
  <2>1. PREFIX \in Nat /\ PREFIX + b <= Len(data)
    BY <1>3, <1>4 DEF PREFIX
  <2> HIDE DEF b
  <2> QED BY <1>3, <2>1, SliceFits
<1>6. attrs \in Seq(Byte) /\ Len(attrs) = c
  <2> DEFINE p == PREFIX + b
  <2>1. p \in Nat /\ p + c <= Len(data)
    BY <1>3, <1>4 DEF PREFIX
  <2> HIDE DEF p, c
  <2>2. Slice(data, p, c) \in Seq(Byte) /\ Len(Slice(data, p, c)) = c
    BY <1>3, <2>1, SliceFits
  <2> QED BY <2>2 DEF p
<1>7. real.reallen \in Nat
  BY <1>6, ReallenIsNumber
<1> HIDE DEF body, attrs
<1>8. /\ h.layout = data[LAYOUT] /\ h.len = Len(body) /\ h.attrs = attrs
      /\ ~ (real.reallen > Len(body))
  BY <1>1, <1>2 DEF head_of
<1>9. effective_len(data) = IF data[LAYOUT] = LAYOUT_CAPACITY THEN real.reallen ELSE Len(body)
  BY <1>8 DEF effective_len
<1> HIDE DEF real
<1>10. effective_len(data) \in Nat /\ effective_len(data) <= b
  <2>1. CASE data[LAYOUT] = LAYOUT_CAPACITY
    BY <1>3, <1>5, <1>7, <1>8, <1>9, <2>1
  <2>2. CASE data[LAYOUT] # LAYOUT_CAPACITY
    BY <1>3, <1>5, <1>9, <2>2
  <2> QED BY <2>1, <2>2
<1> QED BY <1>2, <1>3, <1>4, <1>5, <1>6, <1>8, <1>10

-----------------------------------------------------------------------------
\* The attribute areas that are built: a langtype record, and reallen behind it.

LangtypeRecord(lt) == [tag |-> ATTR_TAG_LANGTYPE, data |-> lt, whole |-> TRUE]
ReallenRecord(n) == [tag |-> ATTR_TAG_REALLEN, data |-> <<n>>, whole |-> TRUE]

LEMMA RecordAt ==
  ASSUME NEW attrs \in Seq(Byte), NEW f, AreRecords(attrs, f),
         NEW i \in Nat, NEW d \in Seq(Byte), i >= 1, i + 1 + Len(d) <= Len(attrs),
         attrs[i + 1] = Len(d), \A j \in 1 .. Len(d) : attrs[i + 1 + j] = d[j]
  PROVE  f[i] = <<[tag |-> attrs[i], data |-> d, whole |-> TRUE]>> \o f[i + 2 + Len(d)]
<1> DEFINE n == Len(attrs)
           k == Len(d)
<1>1. n \in Nat /\ k \in Nat
  OBVIOUS
<1>2. i \in 1 .. n + 2 /\ ~ (i + 1 > n) /\ ~ (i + 1 + k > n)
  BY <1>1
<1>3. f[i] = FromByte(attrs, i, f)
  BY <1>2 DEF AreRecords
<1>4. Slice(attrs, i + 1, k) = d
  <2> DEFINE p == i + 1
             u == Slice(attrs, p, k)
  <2>1. p \in Nat /\ p + k <= Len(attrs) /\ k \in Nat
    BY <1>1, <1>2
  <2>2. u \in Seq(Byte) /\ Len(u) = k /\ \A j \in 1 .. k : u[j] = attrs[p + j]
    <3> HIDE DEF p, k
    <3> QED BY ONLY <2>1, attrs \in Seq(Byte), SliceFits
  <2> HIDE DEF u
  <2>3. \A j \in 1 .. k : u[j] = d[j]
    BY <2>2
  <2>4. u = d
    <3> HIDE DEF p
    <3> QED BY <2>2, <2>3, SeqEqual
  <2> QED BY <2>4 DEF u
<1> QED BY <1>2, <1>3, <1>4 DEF FromByte

LEMMA RecordEnd ==
  ASSUME NEW attrs \in Seq(Byte), NEW f, AreRecords(attrs, f), NEW i \in Nat, i >= 1,
         i = Len(attrs) \/ i = Len(attrs) + 1
  PROVE  f[i] = <<>>
<1>1. i \in 1 .. Len(attrs) + 2 /\ i + 1 > Len(attrs)
  OBVIOUS
<1>2. f[i] = FromByte(attrs, i, f)
  BY <1>1 DEF AreRecords
<1> QED BY <1>1, <1>2 DEF FromByte

LEMMA AreaBytes ==
  ASSUME NEW lt \in Seq(Byte), Len(lt) + 2 < Word, lt # <<>>
  PROVE  /\ attr_bytes(lt) \in Seq(Byte) /\ Len(attr_bytes(lt)) = Len(lt) + 2
         /\ attr_bytes(lt)[1] = ATTR_TAG_LANGTYPE /\ attr_bytes(lt)[2] = Len(lt)
         /\ \A j \in 1 .. Len(lt) : attr_bytes(lt)[2 + j] = lt[j]
<1> DEFINE e == <<ATTR_TAG_LANGTYPE, Len(lt)>>
<1>1. attr_bytes(lt) = e \o lt
  BY DEF attr_bytes
<1>2. Len(lt) \in Nat /\ Len(lt) \in Byte /\ ATTR_TAG_LANGTYPE \in Byte
  BY Bytes DEF ATTR_TAG_LANGTYPE
<1>3. e \in Seq(Byte) /\ Len(e) = 2 /\ e[1] = ATTR_TAG_LANGTYPE /\ e[2] = Len(lt)
  BY <1>2
<1> HIDE DEF e
<1>4. /\ e \o lt \in Seq(Byte) /\ Len(e \o lt) = Len(e) + Len(lt)
      /\ \A i \in 1 .. Len(e) + Len(lt) : (e \o lt)[i] = IF i <= Len(e) THEN e[i] ELSE lt[i - Len(e)]
  BY <1>3, ConcatProperties
<1> DEFINE w == e \o lt
           n == Len(lt)
<1>5. /\ w \in Seq(Byte) /\ Len(w) = 2 + n
      /\ \A i \in 1 .. 2 + n : w[i] = IF i <= 2 THEN e[i] ELSE lt[i - 2]
  BY <1>3, <1>4
<1> HIDE DEF w
<1>6. \A j \in 1 .. n : w[2 + j] = lt[j]
  <2> SUFFICES ASSUME NEW j \in 1 .. n PROVE w[2 + j] = lt[j]
    OBVIOUS
  <2>1. 2 + j \in 1 .. 2 + n /\ ~ (2 + j <= 2) /\ (2 + j) - 2 = j
    BY <1>2
  <2> QED BY <1>5, <2>1
<1>7. w[1] = e[1] /\ w[2] = e[2]
  BY <1>2, <1>5
<1> QED BY <1>1, <1>2, <1>3, <1>5, <1>6, <1>7 DEF w

\* The area of a value stored at its length.
LEMMA LengthRecords ==
  ASSUME NEW lt \in Seq(Byte), Len(lt) + 2 < Word
  PROVE  Records(attr_bytes(lt)) = IF lt = <<>> THEN <<>> ELSE <<LangtypeRecord(lt)>>
<1> DEFINE w == attr_bytes(lt)
           n == Len(lt)
<1>1. CASE lt = <<>>
  <2>1. w = <<>>
    BY <1>1 DEF attr_bytes
  <2>2. w \in Seq(Byte) /\ Len(w) = 0
    BY <2>1
  <2> HIDE DEF w
  <2>3. PICK f : AreRecords(w, f) /\ Records(w) = f[1]
    BY <2>2, RecordsAre
  <2>4. f[1] = <<>>
    <3> DEFINE i == 1
    <3>1. i \in Nat /\ i >= 1 /\ (i = Len(w) \/ i = Len(w) + 1)
      BY <2>2
    <3> HIDE DEF i
    <3>2. f[i] = <<>>
      BY <2>2, <2>3, <3>1, RecordEnd
    <3> QED BY <3>2 DEF i
  <2> QED BY <1>1, <2>3, <2>4 DEF w
<1>2. CASE lt # <<>>
  <2>1. /\ w \in Seq(Byte) /\ Len(w) = n + 2
        /\ w[1] = ATTR_TAG_LANGTYPE /\ w[2] = Len(lt) /\ \A j \in 1 .. n : w[2 + j] = lt[j]
    BY <1>2, AreaBytes
  <2> HIDE DEF w
  <2>2. PICK f : AreRecords(w, f) /\ Records(w) = f[1]
    BY <2>1, RecordsAre
  <2>3. f[1] = <<[tag |-> w[1], data |-> lt, whole |-> TRUE]>> \o f[1 + 2 + n]
    <3> DEFINE i == 1
    <3>1. /\ i \in Nat /\ i >= 1 /\ i + 1 + Len(lt) <= Len(w) /\ w[i + 1] = Len(lt)
          /\ \A j \in 1 .. Len(lt) : w[i + 1 + j] = lt[j]
      BY <2>1
    <3> HIDE DEF i
    <3>2. f[i] = <<[tag |-> w[i], data |-> lt, whole |-> TRUE]>> \o f[i + 2 + Len(lt)]
      BY <2>1, <2>2, <3>1, RecordAt, ZenonT(40)
    <3> QED BY <3>2 DEF i
  <2>4. f[1 + 2 + n] = <<>>
    <3> DEFINE i == 1 + 2 + n
    <3>1. i \in Nat /\ i >= 1 /\ (i = Len(w) \/ i = Len(w) + 1)
      BY <2>1
    <3> HIDE DEF i
    <3>2. f[i] = <<>>
      BY <2>1, <2>2, <3>1, RecordEnd
    <3> QED BY <3>2 DEF i
  <2> DEFINE r == [tag |-> w[1], data |-> lt, whole |-> TRUE]
  <2>5. r = LangtypeRecord(lt)
    BY <2>1 DEF LangtypeRecord
  <2>6. f[1] = <<r>> \o <<>>
    BY <2>3, <2>4
  <2> HIDE DEF r
  <2>7. f[1] = <<r>>
    BY <2>6
  <2> QED BY <1>2, <2>2, <2>5, <2>7 DEF w
<1> QED BY <1>1, <1>2

LEMMA CapacityBytes ==
  ASSUME NEW w \in Seq(Byte), NEW n \in Byte
  PROVE  /\ w \o reallen_record(n) \in Seq(Byte) /\ Len(w \o reallen_record(n)) = Len(w) + 3
         /\ (w \o reallen_record(n))[Len(w) + 1] = ATTR_TAG_REALLEN
         /\ (w \o reallen_record(n))[Len(w) + 2] = 1
         /\ (w \o reallen_record(n))[Len(w) + 3] = n
         /\ \A j \in 1 .. Len(w) : (w \o reallen_record(n))[j] = w[j]
<1> DEFINE e == reallen_record(n)
           k == Len(w)
           v == w \o e
<1>1. e \in Seq(Byte) /\ Len(e) = 3 /\ e[1] = ATTR_TAG_REALLEN /\ e[2] = 1 /\ e[3] = n
  BY Bytes DEF reallen_record, ATTR_TAG_REALLEN
<1> HIDE DEF e
<1>2. k \in Nat
  OBVIOUS
<1>3. /\ v \in Seq(Byte) /\ Len(v) = k + 3
      /\ \A i \in 1 .. k + 3 : v[i] = IF i <= k THEN w[i] ELSE e[i - k]
  <2>1. /\ w \o e \in Seq(Byte) /\ Len(w \o e) = Len(w) + Len(e)
        /\ \A i \in 1 .. Len(w) + Len(e) : (w \o e)[i] = IF i <= Len(w) THEN w[i] ELSE e[i - Len(w)]
    BY <1>1, ConcatProperties
  <2> QED BY <1>1, <2>1
<1> HIDE DEF v
<1>4. v[k + 1] = e[1] /\ v[k + 2] = e[2] /\ v[k + 3] = e[3]
  <2>1. /\ k + 1 \in 1 .. k + 3 /\ k + 2 \in 1 .. k + 3 /\ k + 3 \in 1 .. k + 3
        /\ ~ (k + 1 <= k) /\ ~ (k + 2 <= k) /\ ~ (k + 3 <= k)
        /\ (k + 1) - k = 1 /\ (k + 2) - k = 2 /\ (k + 3) - k = 3
    BY <1>2
  <2> HIDE DEF k
  <2> QED BY <1>3, <2>1
<1>5. \A j \in 1 .. k : v[j] = w[j]
  BY <1>2, <1>3
<1> QED BY <1>1, <1>3, <1>4, <1>5 DEF v, e

LEMMA AreaTyped ==
  ASSUME NEW lt \in Seq(Byte), Len(lt) + 2 < Word
  PROVE  attr_bytes(lt) \in Seq(Byte) /\ Len(attr_bytes(lt)) <= Len(lt) + 2
<1>1. CASE lt = <<>>
  BY <1>1 DEF attr_bytes
<1>2. CASE lt # <<>>
  <2>1. attr_bytes(lt) \in Seq(Byte) /\ Len(attr_bytes(lt)) = Len(lt) + 2
    BY <1>2, AreaBytes
  <2> HIDE DEF attr_bytes
  <2> QED BY <2>1
<1> QED BY <1>1, <1>2

LEMMA Pair ==
  ASSUME NEW r, NEW q
  PROVE  <<r>> \o <<q>> = <<r, q>>
<1> DEFINE T == {r, q}
           a == <<r>>
           b == <<q>>
           c == <<r, q>>
<1>1. a \in Seq(T) /\ b \in Seq(T) /\ c \in Seq(T) /\ Len(a) = 1 /\ Len(b) = 1 /\ Len(c) = 2
  OBVIOUS
<1>2. a[1] = r /\ b[1] = q /\ c[1] = r /\ c[2] = q
  OBVIOUS
<1> HIDE DEF T, a, b, c
<1>3. /\ a \o b \in Seq(T) /\ Len(a \o b) = Len(a) + Len(b)
      /\ \A i \in 1 .. Len(a) + Len(b) : (a \o b)[i] = IF i <= Len(a) THEN a[i] ELSE b[i - Len(a)]
  BY <1>1, ConcatProperties
<1> DEFINE d == a \o b
<1>4. d \in Seq(T) /\ Len(d) = 2 /\ d[1] = a[1] /\ d[2] = b[1]
  BY <1>1, <1>3
<1> HIDE DEF d
<1>5. \A i \in 1 .. Len(c) : d[i] = c[i]
  BY <1>1, <1>2, <1>4
<1>6. d = c
  BY <1>1, <1>4, <1>5, SeqEqual
<1> QED BY <1>6 DEF a, b, c, d

LEMMA ByteRecordAt ==
  ASSUME NEW attrs \in Seq(Byte), NEW f, AreRecords(attrs, f), NEW i \in Nat, NEW n \in Byte,
         i >= 1, i + 2 <= Len(attrs), attrs[i + 1] = 1, attrs[i + 2] = n
  PROVE  f[i] = <<[tag |-> attrs[i], data |-> <<n>>, whole |-> TRUE]>> \o f[i + 3]
<1>1. PICK d \in Seq(Byte) : d = <<n>> /\ Len(d) = 1 /\ d[1] = n
  <2>1. <<n>> \in Seq(Byte) /\ Len(<<n>>) = 1 /\ <<n>>[1] = n
    OBVIOUS
  <2> QED BY <2>1
<1>2. i + 1 + Len(d) <= Len(attrs) /\ attrs[i + 1] = Len(d)
  BY <1>1
<1>3. \A j \in 1 .. Len(d) : attrs[i + 1 + j] = d[j]
  <2> SUFFICES ASSUME NEW j \in 1 .. Len(d) PROVE attrs[i + 1 + j] = d[j]
    OBVIOUS
  <2>1. j = 1 /\ i + 1 + j = i + 2
    BY <1>1
  <2> QED BY <1>1, <2>1
<1>4. f[i] = <<[tag |-> attrs[i], data |-> d, whole |-> TRUE]>> \o f[i + 2 + Len(d)]
  BY ONLY <1>2, <1>3, attrs \in Seq(Byte), AreRecords(attrs, f), i \in Nat, i >= 1, d \in Seq(Byte), RecordAt, ZenonT(40)
<1>5. i + 2 + Len(d) = i + 3
  BY <1>1
<1> QED BY <1>1, <1>4, <1>5

\* The area of a value with spare capacity.
LEMMA CapacityRecords ==
  ASSUME NEW lt \in Seq(Byte), Len(lt) + 2 < Word, NEW n \in Byte
  PROVE  Records(attr_bytes(lt) \o reallen_record(n)) =
           IF lt = <<>> THEN <<ReallenRecord(n)>> ELSE <<LangtypeRecord(lt), ReallenRecord(n)>>
<1> DEFINE w == attr_bytes(lt)
           v == w \o reallen_record(n)
           k == Len(w)
<1>1. w \in Seq(Byte)
  BY AreaTyped
<1> HIDE DEF w
<1>2. k \in Nat
  BY <1>1
<1>3. /\ v \in Seq(Byte) /\ Len(v) = k + 3
      /\ v[k + 1] = ATTR_TAG_REALLEN /\ v[k + 2] = 1 /\ v[k + 3] = n
      /\ \A j \in 1 .. k : v[j] = w[j]
  BY <1>1, CapacityBytes
<1> HIDE DEF v
<1>4. PICK f : AreRecords(v, f) /\ Records(v) = f[1]
  BY <1>3, RecordsAre
<1>6. f[k + 4] = <<>>
  <2> DEFINE i == k + 4
  <2>1. i \in Nat /\ i >= 1 /\ (i = Len(v) \/ i = Len(v) + 1)
    BY <1>2, <1>3
  <2> HIDE DEF i, k
  <2>2. f[i] = <<>>
    BY <1>3, <1>4, <2>1, RecordEnd
  <2> QED BY <2>2 DEF i
<1>7. f[k + 1] = <<ReallenRecord(n)>>
  <2> DEFINE i == k + 1
  <2>1. i \in Nat /\ i >= 1 /\ i + 1 = k + 2 /\ i + 1 + 1 = k + 3 /\ i + 2 + 1 = k + 4 /\ k + 3 <= Len(v)
    BY <1>2, <1>3
  <2>2. v[i] = ATTR_TAG_REALLEN
    BY <1>3
  <2> HIDE DEF i, k
  <2>3. i + 2 <= Len(v) /\ v[i + 1] = 1 /\ v[i + 2] = n /\ i + 3 = k + 4
    BY <1>3, <2>1
  <2>4. f[i] = <<[tag |-> v[i], data |-> <<n>>, whole |-> TRUE]>> \o f[i + 3]
    <3>1. v \in Seq(Byte) /\ AreRecords(v, f) /\ i \in Nat /\ i >= 1 /\ n \in Byte
      BY <1>3, <1>4, <2>1
    <3> QED BY ONLY <2>3, <3>1, ByteRecordAt
  <2> DEFINE r == [tag |-> v[i], data |-> <<n>>, whole |-> TRUE]
  <2>5. r = ReallenRecord(n)
    BY <2>2 DEF ReallenRecord
  <2>6. f[i] = <<r>> \o <<>>
    BY <1>6, <2>3, <2>4
  <2> HIDE DEF r
  <2>7. f[i] = <<r>>
    BY <2>6
  <2> QED BY <2>5, <2>7 DEF i
<1>8. CASE lt = <<>>
  <2>1. k = 0
    BY <1>8 DEF w, attr_bytes
  <2>2. k + 1 = 1
    BY <2>1
  <2> QED BY <1>4, <1>7, <1>8, <2>2 DEF v, w
<1>9. CASE lt # <<>>
  <2>1. /\ k = Len(lt) + 2
        /\ w[1] = ATTR_TAG_LANGTYPE /\ w[2] = Len(lt) /\ \A j \in 1 .. Len(lt) : w[2 + j] = lt[j]
    BY <1>9, AreaBytes DEF w
  <2> DEFINE i == 1
  <2>2. 1 \in 1 .. k /\ 2 \in 1 .. k /\ \A j \in 1 .. Len(lt) : 2 + j \in 1 .. k
    BY <2>1
  <2>3. /\ i \in Nat /\ i >= 1 /\ i + 1 + Len(lt) <= Len(v) /\ v[i + 1] = Len(lt) /\ v[i] = ATTR_TAG_LANGTYPE
        /\ \A j \in 1 .. Len(lt) : v[i + 1 + j] = lt[j]
    BY <1>2, <1>3, <2>1, <2>2
  <2>4. i + 2 + Len(lt) = k + 1
    BY <2>1
  <2> HIDE DEF i, k
  <2>5. f[i] = <<[tag |-> v[i], data |-> lt, whole |-> TRUE]>> \o f[i + 2 + Len(lt)]
    <3>1. v \in Seq(Byte) /\ AreRecords(v, f) /\ lt \in Seq(Byte)
      BY <1>3, <1>4
    <3> QED BY ONLY <2>3, <3>1, RecordAt, ZenonT(40)
  <2> DEFINE r == [tag |-> v[i], data |-> lt, whole |-> TRUE]
             q == ReallenRecord(n)
  <2>6. r = LangtypeRecord(lt)
    BY <2>3 DEF LangtypeRecord
  <2>7. f[i] = <<r>> \o <<q>>
    BY <1>7, <2>4, <2>5
  <2> HIDE DEF r, q
  <2>8. <<r>> \o <<q>> = <<r, q>>
    BY Pair
  <2>9. f[i] = <<LangtypeRecord(lt), ReallenRecord(n)>>
    BY <2>6, <2>7, <2>8 DEF q
  <2> QED BY <1>4, <1>9, <2>9 DEF i, v, w
<1> QED BY <1>8, <1>9

LEMMA MinOfOne ==
  ASSUME NEW a \in Nat
  PROVE  Min({a}) = a
<1>1. {a} = {a, a}
  OBVIOUS
<1> QED BY <1>1, MinOfTwo

\* A value stored at its length has no reallen, and its langtype is found.
LEMMA LengthArea ==
  ASSUME NEW lt \in Seq(Byte), Len(lt) + 2 < Word
  PROVE  /\ scan_reallen(attr_bytes(lt)) = [ok |-> TRUE, has |-> FALSE, reallen |-> 0]
         /\ find_attr(attr_bytes(lt), ATTR_TAG_LANGTYPE) = lt
<1> DEFINE rs == Records(attr_bytes(lt))
           mine == {i \in DOMAIN rs : rs[i].tag = ATTR_TAG_REALLEN}
           hits == {i \in DOMAIN rs : rs[i].tag = ATTR_TAG_LANGTYPE}
<1>1. rs = IF lt = <<>> THEN <<>> ELSE <<LangtypeRecord(lt)>>
  BY LengthRecords
<1> HIDE DEF rs
<1>2. mine = {} /\ \A i \in DOMAIN rs : rs[i].whole
  BY <1>1 DEF LangtypeRecord, ATTR_TAG_REALLEN, ATTR_TAG_LANGTYPE
<1>3. scan_reallen(attr_bytes(lt)) =
        LET ok == /\ \A i \in DOMAIN rs : rs[i].whole
                  /\ Cardinality(mine) <= 1 /\ \A i \in mine : Len(rs[i].data) = 1
        IN [ok |-> ok, has |-> mine # {}, reallen |-> IF ok /\ mine # {} THEN rs[Min(mine)].data[1] ELSE 0]
  BY DEF scan_reallen, rs
<1>4. find_attr(attr_bytes(lt), ATTR_TAG_LANGTYPE) = IF hits = {} THEN <<>> ELSE rs[Min(hits)].data
  BY DEF find_attr, rs
<1>5. hits = (IF lt = <<>> THEN {} ELSE {1}) /\ (lt # <<>> => rs[1].data = lt)
  BY <1>1 DEF LangtypeRecord
<1> HIDE DEF mine, hits
<1>6. Cardinality(mine) <= 1
  <2>1. Cardinality(mine) = 0
    BY <1>2, FS_EmptySet
  <2> QED BY <2>1
<1>7. Min({1}) = 1
  BY MinOfOne
<1> QED BY <1>2, <1>3, <1>4, <1>5, <1>6, <1>7

\* One with spare capacity has the reallen it was given, behind the langtype.
LEMMA CapacityArea ==
  ASSUME NEW lt \in Seq(Byte), Len(lt) + 2 < Word, NEW n \in Byte
  PROVE  /\ scan_reallen(attr_bytes(lt) \o reallen_record(n)) = [ok |-> TRUE, has |-> TRUE, reallen |-> n]
         /\ find_attr(attr_bytes(lt) \o reallen_record(n), ATTR_TAG_LANGTYPE) = lt
<1> DEFINE attrs == attr_bytes(lt) \o reallen_record(n)
           rs == Records(attrs)
           mine == {i \in DOMAIN rs : rs[i].tag = ATTR_TAG_REALLEN}
           hits == {i \in DOMAIN rs : rs[i].tag = ATTR_TAG_LANGTYPE}
           at == IF lt = <<>> THEN 1 ELSE 2
<1>1. rs = IF lt = <<>> THEN <<ReallenRecord(n)>> ELSE <<LangtypeRecord(lt), ReallenRecord(n)>>
  BY CapacityRecords
<1> HIDE DEF attrs, rs
<1>2. /\ \A i \in DOMAIN rs : rs[i].whole
      /\ mine = {at} /\ hits = (IF lt = <<>> THEN {} ELSE {1})
      /\ rs[at].data = <<n>> /\ (lt # <<>> => rs[1].data = lt)
  <2>1. CASE lt = <<>>
    BY <1>1, <2>1 DEF LangtypeRecord, ReallenRecord, ATTR_TAG_REALLEN, ATTR_TAG_LANGTYPE
  <2>2. CASE lt # <<>>
    BY <1>1, <2>2 DEF LangtypeRecord, ReallenRecord, ATTR_TAG_REALLEN, ATTR_TAG_LANGTYPE
  <2> QED BY <2>1, <2>2
<1>3. scan_reallen(attrs) =
        LET ok == /\ \A i \in DOMAIN rs : rs[i].whole
                  /\ Cardinality(mine) <= 1 /\ \A i \in mine : Len(rs[i].data) = 1
        IN [ok |-> ok, has |-> mine # {}, reallen |-> IF ok /\ mine # {} THEN rs[Min(mine)].data[1] ELSE 0]
  BY DEF scan_reallen, rs
<1>4. find_attr(attrs, ATTR_TAG_LANGTYPE) = IF hits = {} THEN <<>> ELSE rs[Min(hits)].data
  BY DEF find_attr, rs
<1>5. at \in Nat
  OBVIOUS
<1> HIDE DEF mine, hits, at
<1>6. Cardinality(mine) <= 1
  <2>1. Cardinality({at}) = 1
    BY FS_Singleton
  <2>2. Cardinality(mine) = 1
    BY <1>2, <2>1
  <2> QED BY <2>2
<1>7. Min({1}) = 1 /\ Min(mine) = at
  BY <1>2, <1>5, MinOfOne
<1> DEFINE ok == /\ \A i \in DOMAIN rs : rs[i].whole
                 /\ Cardinality(mine) <= 1 /\ \A i \in mine : Len(rs[i].data) = 1
<1>8. mine # {} /\ ok = TRUE
  <2>1. mine # {} /\ Len(rs[at].data) = 1
    BY <1>2
  <2>2. \A i \in mine : Len(rs[i].data) = 1
    BY <1>2, <2>1
  <2> QED BY <1>2, <1>6, <2>1, <2>2
<1>9. rs[Min(mine)].data[1] = n
  BY <1>2, <1>7
<1>10. find_attr(attrs, ATTR_TAG_LANGTYPE) = lt
  BY <1>2, <1>4, <1>7
<1>11. scan_reallen(attrs) = [ok |-> TRUE, has |-> TRUE, reallen |-> n]
  BY <1>3, <1>8, <1>9
<1> QED BY <1>10, <1>11 DEF attrs

-----------------------------------------------------------------------------
\* Reading what was written.

\* data begins with a head, this body and these attributes.
Holds(data, layout, body, attrs) ==
  /\ PREFIX + Len(body) + Len(attrs) <= Len(data)
  /\ data[BODYLEN] = Len(body) /\ data[ATTRSLEN] = Len(attrs) /\ data[LAYOUT] = layout /\ data[PADDING] = 0
  /\ \A i \in 1 .. Len(body) : data[PREFIX + i] = body[i]
  /\ \A i \in 1 .. Len(attrs) : data[PREFIX + Len(body) + i] = attrs[i]

LEMMA SliceIs ==
  ASSUME NEW data \in Seq(Byte), NEW from \in Nat, NEW s \in Seq(Byte), from + Len(s) <= Len(data),
         \A i \in 1 .. Len(s) : data[from + i] = s[i]
  PROVE  Slice(data, from, Len(s)) = s
<1> DEFINE n == Len(s)
           u == Slice(data, from, n)
<1>1. n \in Nat /\ from + n <= Len(data)
  OBVIOUS
<1>2. u \in Seq(Byte) /\ Len(u) = n /\ \A i \in 1 .. n : u[i] = data[from + i]
  <2> HIDE DEF n
  <2> QED BY ONLY <1>1, data \in Seq(Byte), from \in Nat, SliceFits
<1> HIDE DEF u
<1>3. \A i \in 1 .. n : u[i] = s[i]
  BY <1>2
<1>4. u = s
  BY <1>2, <1>3, SeqEqual
<1> QED BY <1>4 DEF u

LEMMA ReadsBack ==
  ASSUME NEW data \in Seq(Byte), NEW layout \in {LAYOUT_LENGTH, LAYOUT_CAPACITY},
         NEW body \in Seq(Byte), NEW attrs \in Seq(Byte), Holds(data, layout, body, attrs)
  PROVE  headlenpow_from_wire(data) = head_of(layout, body, attrs, scan_reallen(attrs))
<1> DEFINE b == Len(body)
           c == Len(attrs)
           n == Len(data)
<1>1. b \in Nat /\ c \in Nat /\ n \in Nat
  OBVIOUS
<1>2. 4 + b + c <= n /\ data[1] = b /\ data[2] = c /\ data[3] = layout /\ data[4] = 0
  BY DEF Holds, PREFIX, BODYLEN, ATTRSLEN, LAYOUT, PADDING
<1>3. ~ (n < PREFIX \/ data[PADDING] # 0 \/ data[LAYOUT] > LAYOUT_CAPACITY \/ ~ lengths_fit(data))
  <2>1. ~ (n < 4)
    BY <1>1, <1>2
  <2>2. ~ (layout > 1)
    BY DEF LAYOUT_LENGTH, LAYOUT_CAPACITY
  <2>3. lengths_fit(data)
    BY <1>1, <1>2 DEF lengths_fit, PREFIX, BODYLEN, ATTRSLEN
  <2> QED BY <1>2, <2>1, <2>2, <2>3 DEF PREFIX, PADDING, LAYOUT, LAYOUT_CAPACITY
<1>4. headlenpow_from_wire(data) = cut(data)
  BY <1>3 DEF headlenpow_from_wire
<1>5. Slice(data, PREFIX, b) = body
  <2> DEFINE p == PREFIX
  <2>1. p \in Nat /\ p + Len(body) <= Len(data) /\ \A i \in 1 .. Len(body) : data[p + i] = body[i]
    BY <1>1, <1>2 DEF Holds, PREFIX
  <2> HIDE DEF p
  <2>2. Slice(data, p, Len(body)) = body
    BY ONLY <2>1, data \in Seq(Byte), body \in Seq(Byte), SliceIs
  <2> QED BY <2>2 DEF p
<1>6. Slice(data, PREFIX + b, c) = attrs
  <2> DEFINE p == PREFIX + b
  <2>1. p \in Nat /\ p + Len(attrs) <= Len(data) /\ \A i \in 1 .. Len(attrs) : data[p + i] = attrs[i]
    BY <1>1, <1>2 DEF Holds, PREFIX
  <2> HIDE DEF p
  <2>2. Slice(data, p, Len(attrs)) = attrs
    BY ONLY <2>1, data \in Seq(Byte), attrs \in Seq(Byte), SliceIs
  <2> QED BY <2>2 DEF p
<1>7. data[BODYLEN] = b /\ data[ATTRSLEN] = c /\ data[LAYOUT] = layout
  BY <1>2 DEF BODYLEN, ATTRSLEN, LAYOUT
<1>8. cut(data) = LET a == Slice(data, PREFIX + b, c) IN head_of(layout, Slice(data, PREFIX, b), a, scan_reallen(a))
  BY <1>7 DEF cut
<1> QED BY <1>4, <1>5, <1>6, <1>8

LayoutOf(m) == IF m.cap > m.len THEN LAYOUT_CAPACITY ELSE LAYOUT_LENGTH
AreaOf(m) == IF m.cap > m.len THEN attr_bytes(m.langtype) \o reallen_record(m.len) ELSE attr_bytes(m.langtype)

MadeType ==
  [ref : {"none", "ptr", "ext"}, langtype : Seq(Byte), len : Nat, cap : Nat, content : Seq(Byte),
   value : Built \cup {None}]

\* What a value may be made as.
MadeOK(m) ==
  /\ m \in MadeType
  /\ m.len \in Nat /\ m.cap \in Nat /\ m.len <= m.cap /\ m.cap < Word
  /\ m.langtype \in Seq(Byte) /\ Len(m.langtype) + 2 < Word
  /\ m.cap > m.len => Len(m.langtype) + 5 < Word
  /\ m.ref = reference_of(m.langtype)
  /\ m.content \in Seq(Byte) /\ Len(m.content) = m.len

\* data stores m: its head, the contents at the front of the body, the area.
Stores(data, m) ==
  \E body \in Seq(Byte) :
    /\ Len(body) = m.cap /\ Holds(data, LayoutOf(m), body, AreaOf(m))
    /\ \A i \in 1 .. m.len : body[i] = m.content[i]

LEMMA AreaOK ==
  ASSUME NEW m, MadeOK(m)
  PROVE  /\ AreaOf(m) \in Seq(Byte) /\ Len(AreaOf(m)) < Word
         /\ LayoutOf(m) \in {LAYOUT_LENGTH, LAYOUT_CAPACITY}
<1> DEFINE w == attr_bytes(m.langtype)
           e == reallen_record(m.len)
<1>1. m.langtype \in Seq(Byte) /\ Len(m.langtype) \in Nat /\ Len(m.langtype) + 2 < Word
  BY DEF MadeOK
<1>2. w \in Seq(Byte) /\ Len(w) <= Len(m.langtype) + 2 /\ Len(w) \in Nat
  <2>1. w \in Seq(Byte) /\ Len(w) <= Len(m.langtype) + 2
    BY <1>1, AreaTyped
  <2> HIDE DEF w
  <2> QED BY <2>1
<1>3. m.len \in Byte
  <2>1. m.len \in Nat /\ m.len < Word
    BY Bytes DEF MadeOK
  <2> QED BY <2>1, Bytes
<1> HIDE DEF w, e
<1>4. w \o e \in Seq(Byte) /\ Len(w \o e) = Len(w) + 3
  BY <1>2, <1>3, CapacityBytes DEF e
<1> DEFINE v == w \o e
<1> HIDE DEF v
<1>5. v \in Seq(Byte) /\ Len(v) = Len(w) + 3
  BY <1>4 DEF v
<1>6. AreaOf(m) = IF m.cap > m.len THEN v ELSE w
  BY DEF AreaOf, w, e, v
<1>7. LayoutOf(m) \in {LAYOUT_LENGTH, LAYOUT_CAPACITY}
  BY DEF LayoutOf
<1>8. CASE m.cap > m.len
  <2>1. Len(m.langtype) + 5 < Word
    BY <1>8 DEF MadeOK
  <2>2. Len(v) < Word
    BY <1>1, <1>2, <1>5, <2>1, Bytes
  <2> QED BY <1>5, <1>6, <1>7, <1>8, <2>2
<1>9. CASE ~ (m.cap > m.len)
  <2>1. Len(w) < Word
    BY <1>1, <1>2, Bytes
  <2> QED BY <1>2, <1>6, <1>7, <1>9, <2>1
<1> QED BY <1>8, <1>9

\* What the area says of a value made as m.
LEMMA AreaSays ==
  ASSUME NEW m, MadeOK(m)
  PROVE  /\ scan_reallen(AreaOf(m)) = [ok |-> TRUE, has |-> m.cap > m.len,
                                       reallen |-> IF m.cap > m.len THEN m.len ELSE 0]
         /\ find_attr(AreaOf(m), ATTR_TAG_LANGTYPE) = m.langtype
<1> DEFINE lt == m.langtype
           n == m.len
<1>1. lt \in Seq(Byte) /\ Len(lt) + 2 < Word
  BY DEF MadeOK
<1>2. n \in Byte
  <2>1. n \in Nat /\ n < Word
    BY Bytes DEF MadeOK
  <2> QED BY <2>1, Bytes
<1>3. CASE m.cap > m.len
  <2>1. AreaOf(m) = attr_bytes(lt) \o reallen_record(n)
    BY <1>3 DEF AreaOf
  <2> HIDE DEF lt, n
  <2>2. /\ scan_reallen(attr_bytes(lt) \o reallen_record(n)) = [ok |-> TRUE, has |-> TRUE, reallen |-> n]
        /\ find_attr(attr_bytes(lt) \o reallen_record(n), ATTR_TAG_LANGTYPE) = lt
    BY <1>1, <1>2, CapacityArea
  <2> QED BY <1>3, <2>1, <2>2 DEF lt, n
<1>4. CASE ~ (m.cap > m.len)
  <2>1. AreaOf(m) = attr_bytes(lt)
    BY <1>4 DEF AreaOf
  <2> HIDE DEF lt, n
  <2>2. /\ scan_reallen(attr_bytes(lt)) = [ok |-> TRUE, has |-> FALSE, reallen |-> 0]
        /\ find_attr(attr_bytes(lt), ATTR_TAG_LANGTYPE) = lt
    BY <1>1, LengthArea
  <2>3. (m.cap > m.len) = FALSE
    BY <1>4
  <2>4. [ok |-> TRUE, has |-> m.cap > m.len, reallen |-> IF m.cap > m.len THEN m.len ELSE 0] =
          [ok |-> TRUE, has |-> FALSE, reallen |-> 0]
    BY <2>3
  <2> QED BY <2>1, <2>2, <2>4 DEF lt
<1> QED BY <1>3, <1>4

LEMMA StoredReads ==
  ASSUME NEW data \in Seq(Byte), NEW m, MadeOK(m), Stores(data, m)
  PROVE  /\ headlenpow_from_wire(data).ok
         /\ headlenpow_from_wire(data).reference = m.ref
         /\ headlenpow_from_wire(data).langtype = m.langtype
         /\ headlenpow_from_wire(data).len = m.cap
         /\ headlenpow_from_wire(data).attrs = AreaOf(m)
         /\ effective_len(data) = m.len
         /\ SubSeq(headlenpow_from_wire(data).body, 1, m.len) = m.content
<1> DEFINE h == headlenpow_from_wire(data)
           attrs == AreaOf(m)
           layout == LayoutOf(m)
           real == scan_reallen(attrs)
<1>1. PICK body \in Seq(Byte) :
        /\ Len(body) = m.cap /\ Holds(data, layout, body, attrs)
        /\ \A i \in 1 .. m.len : body[i] = m.content[i]
  BY DEF Stores
<1>2. attrs \in Seq(Byte) /\ layout \in {LAYOUT_LENGTH, LAYOUT_CAPACITY}
  BY AreaOK
<1>3. h = head_of(layout, body, attrs, real)
  <2> HIDE DEF attrs, layout
  <2> QED BY <1>1, <1>2, ReadsBack
<1>4. m.len \in Nat /\ m.cap \in Nat /\ m.len <= m.cap /\ m.content \in Seq(Byte) /\ Len(m.content) = m.len
  BY DEF MadeOK
<1>5. /\ real = [ok |-> TRUE, has |-> m.cap > m.len, reallen |-> IF m.cap > m.len THEN m.len ELSE 0]
      /\ find_attr(attrs, ATTR_TAG_LANGTYPE) = m.langtype
  BY AreaSays
<1> HIDE DEF real, attrs
<1>6. real.ok /\ (real.has <=> m.cap > m.len) /\ real.reallen = (IF m.cap > m.len THEN m.len ELSE 0)
  BY <1>5
<1>7. (layout = LAYOUT_CAPACITY) = real.has
  <2>1. layout = LAYOUT_CAPACITY <=> m.cap > m.len
    BY DEF LayoutOf, LAYOUT_CAPACITY, LAYOUT_LENGTH
  <2>2. real.has \in BOOLEAN
    BY <1>5
  <2> QED BY <1>6, <2>1, <2>2
<1>8. ~ (real.reallen > Len(body))
  <2>1. CASE m.cap > m.len
    BY <1>1, <1>4, <1>6, <2>1
  <2>2. CASE ~ (m.cap > m.len)
    BY <1>1, <1>4, <1>6, <2>2
  <2> QED BY <2>1, <2>2
<1>9. h = [ok |-> TRUE, layout |-> layout, reference |-> reference_of(find_attr(attrs, ATTR_TAG_LANGTYPE)),
           langtype |-> find_attr(attrs, ATTR_TAG_LANGTYPE), len |-> Len(body), attrs |-> attrs, body |-> body]
  BY <1>3, <1>6, <1>7, <1>8 DEF head_of
<1> HIDE DEF h, layout
<1>10. /\ h.ok /\ h.layout = layout /\ h.reference = reference_of(m.langtype) /\ h.langtype = m.langtype
       /\ h.len = m.cap /\ h.attrs = attrs /\ h.body = body
  BY <1>1, <1>5, <1>9
<1>11. m.ref = reference_of(m.langtype)
  BY DEF MadeOK
<1>12. effective_len(data) = m.len
  <2>1. effective_len(data) = IF layout = LAYOUT_CAPACITY THEN real.reallen ELSE m.cap
    BY <1>10 DEF effective_len, h, real
  <2>2. CASE m.cap > m.len
    BY <1>6, <2>1, <2>2 DEF layout, LayoutOf
  <2>3. CASE ~ (m.cap > m.len)
    <3>1. layout # LAYOUT_CAPACITY
      BY <2>3 DEF layout, LayoutOf, LAYOUT_CAPACITY, LAYOUT_LENGTH
    <3> QED BY <1>4, <2>1, <2>3, <3>1
  <2> QED BY <2>2, <2>3
<1>13. SubSeq(body, 1, m.len) = m.content
  <2> DEFINE one == 1
             n == m.len
             u == SubSeq(body, one, n)
             c == m.content
  <2>1. one \in Int /\ n \in Int /\ \A i \in one .. n : body[i] \in Byte
    BY <1>1, <1>4
  <2>2. /\ u \in Seq(Byte)
        /\ Len(u) = IF one <= n THEN n - one + 1 ELSE 0
        /\ \A i \in 1 .. n - one + 1 : u[i] = body[one + i - 1]
    <3> HIDE DEF one, n
    <3> QED BY <1>1, <2>1, SubSeqProperties
  <2> HIDE DEF u
  <2>3. Len(u) = n /\ \A i \in 1 .. n : u[i] = body[i]
    BY <1>4, <2>2
  <2>4. c \in Seq(Byte) /\ Len(c) = n /\ \A i \in 1 .. n : u[i] = c[i]
    BY <1>1, <1>4, <2>3
  <2> HIDE DEF c, n
  <2>5. u = c
    BY <2>2, <2>3, <2>4, SeqEqual
  <2> QED BY <2>5 DEF u, c, n
<1> QED BY <1>10, <1>11, <1>12, <1>13 DEF h, attrs

-----------------------------------------------------------------------------
\* What a part write does.

LEMMA PatchTyped ==
  ASSUME NEW s \in Seq(Byte), NEW buf \in Seq(Byte), NEW off \in Nat
  PROVE  /\ patch(s, off, buf) \in Seq(Byte) /\ Len(patch(s, off, buf)) = Len(s)
         /\ \A i \in 1 .. Len(s) :
              /\ i <= off \/ i > off + Len(buf) => patch(s, off, buf)[i] = s[i]
              /\ i > off /\ i <= off + Len(buf) => patch(s, off, buf)[i] = buf[i - off]
<1> DEFINE u == patch(s, off, buf)
           n == Len(s)
           k == Len(buf)
<1>1. n \in Nat /\ k \in Nat /\ DOMAIN s = 1 .. n /\ DOMAIN buf = 1 .. k
  OBVIOUS
<1>2. \A i \in 1 .. n : s[i] \in Byte
  OBVIOUS
<1>3. \A i \in 1 .. k : buf[i] \in Byte
  OBVIOUS
<1>4. u = [i \in 1 .. n |-> IF i - off \in 1 .. k THEN buf[i - off] ELSE s[i]]
  BY <1>1 DEF patch
<1> HIDE DEF u, n, k
<1>5. \A i \in 1 .. n : u[i] \in Byte
  BY <1>2, <1>3, <1>4
<1>6. u \in [1 .. n -> Byte]
  BY <1>4, <1>5
<1>7. u \in Seq(Byte) /\ Len(u) = n
  BY <1>1, <1>6
<1>8. ASSUME NEW i \in 1 .. n
      PROVE  /\ i <= off \/ i > off + k => u[i] = s[i]
             /\ i > off /\ i <= off + k => u[i] = buf[i - off]
  <2>1. i - off \in 1 .. k <=> i > off /\ i <= off + k
    BY <1>1
  <2>2. i <= off \/ i > off + k => ~ (i - off \in 1 .. k)
    BY <1>1
  <2> QED BY <1>4, <2>1, <2>2
<1> QED BY <1>7, <1>8 DEF u, n, k

LEMMA PatchStores ==
  ASSUME NEW data \in Seq(Byte), NEW m, MadeOK(m), Stores(data, m),
         NEW off \in Nat, off >= PREFIX, NEW buf \in Seq(Byte), off + Len(buf) <= PREFIX + m.len,
         NEW p, p = [m EXCEPT !.content = patch(m.content, off - PREFIX, buf), !.value = None]
  PROVE  MadeOK(p) /\ Stores(patch(data, off, buf), p)
<1> DEFINE o == off - PREFIX
           k == Len(buf)
           n == Len(data)
           attrs == AreaOf(m)
           layout == LayoutOf(m)
           c == m.content
           c2 == patch(c, o, buf)
           d2 == patch(data, off, buf)
<1>1. PICK body \in Seq(Byte) :
        /\ Len(body) = m.cap /\ Holds(data, layout, body, attrs)
        /\ \A i \in 1 .. m.len : body[i] = c[i]
  BY DEF Stores
<1> DEFINE b == Len(body)
           b2 == patch(body, o, buf)
<1>2. /\ m \in MadeType /\ m.len \in Nat /\ m.cap \in Nat /\ m.len <= m.cap /\ c \in Seq(Byte) /\ Len(c) = m.len
  BY DEF MadeOK
<1>3. o \in Nat /\ k \in Nat /\ n \in Nat /\ off = 4 + o /\ o + k <= m.len /\ b \in Nat /\ b = m.cap
  BY <1>1, <1>2, SMTT(20) DEF PREFIX
<1>4. attrs \in Seq(Byte) /\ Len(attrs) \in Nat
  BY AreaOK
<1> HIDE DEF o, attrs, layout
<1>5. /\ c2 \in Seq(Byte) /\ Len(c2) = Len(c)
      /\ \A i \in 1 .. Len(c) : /\ i <= o \/ i > o + k => c2[i] = c[i]
                                /\ i > o /\ i <= o + k => c2[i] = buf[i - o]
  <2> HIDE DEF c
  <2> QED BY <1>2, <1>3, PatchTyped, ZenonT(40)
<1>6. /\ b2 \in Seq(Byte) /\ Len(b2) = b
      /\ \A i \in 1 .. b : /\ i <= o \/ i > o + k => b2[i] = body[i]
                           /\ i > o /\ i <= o + k => b2[i] = buf[i - o]
  BY <1>1, <1>3, PatchTyped
<1>7. /\ d2 \in Seq(Byte) /\ Len(d2) = n
      /\ \A i \in 1 .. n : /\ i <= off \/ i > off + k => d2[i] = data[i]
                           /\ i > off /\ i <= off + k => d2[i] = buf[i - off]
  BY PatchTyped
<1> HIDE DEF c2, b2, d2
<1>8. p \in MadeType /\ p.content = c2 /\ p.ref = m.ref /\ p.langtype = m.langtype /\ p.len = m.len /\ p.cap = m.cap
  <2>1. p = [m EXCEPT !.content = c2, !.value = None] /\ m \in MadeType /\ c2 \in Seq(Byte)
    BY <1>2, <1>5 DEF c2, o
  <2> QED BY ONLY <2>1 DEF MadeType
<1>9. MadeOK(p)
  BY <1>2, <1>5, <1>8 DEF MadeOK
<1>10. AreaOf(p) = attrs /\ LayoutOf(p) = layout
  BY <1>8 DEF AreaOf, LayoutOf, attrs, layout
<1>11. 4 + b + Len(attrs) <= n
  BY <1>1 DEF Holds, PREFIX
<1>12. d2[1] = data[1] /\ d2[2] = data[2] /\ d2[3] = data[3] /\ d2[4] = data[4]
  <2>1. /\ 1 \in 1 .. n /\ 2 \in 1 .. n /\ 3 \in 1 .. n /\ 4 \in 1 .. n
        /\ 1 <= off /\ 2 <= off /\ 3 <= off /\ 4 <= off
    <3> DEFINE a == Len(attrs)
    <3>1. b \in Nat /\ a \in Nat /\ n \in Nat /\ o \in Nat /\ off = 4 + o /\ 4 + b + a <= n
      BY <1>3, <1>4, <1>11
    <3> HIDE DEF a, b, n
    <3> QED BY ONLY <3>1
  <2> QED BY <1>7, <2>1
<1>13. ASSUME NEW i \in 1 .. b PROVE d2[4 + i] = b2[i]
  <2> DEFINE a == Len(attrs)
  <2>6. b \in Nat /\ a \in Nat /\ n \in Nat /\ o \in Nat /\ i \in 1 .. b /\ 4 + b + a <= n /\ off = 4 + o
    BY <1>3, <1>4, <1>11
  <2>1. 4 + i \in 1 .. n /\ (4 + i) - off = i - o
    <3> HIDE DEF b, a, n
    <3> QED BY ONLY <2>6
  <2>2. data[4 + i] = body[i]
    BY <1>1 DEF Holds, PREFIX
  <2>3. CASE i <= o \/ i > o + k
    <3>1. 4 + i <= off \/ 4 + i > off + k
      BY <1>3, <2>3
    <3> QED BY <1>6, <1>7, <2>1, <2>2, <2>3, <3>1
  <2>4. CASE i > o /\ i <= o + k
    <3>1. 4 + i > off /\ 4 + i <= off + k
      BY <1>3, <2>4
    <3>2. d2[4 + i] = buf[(4 + i) - off]
      BY <1>7, <2>1, <3>1
    <3> QED BY <1>6, <2>1, <2>4, <3>2
  <2>5. (i <= o \/ i > o + k) \/ (i > o /\ i <= o + k)
    BY <1>3
  <2> QED BY <2>3, <2>4, <2>5
<1>14. ASSUME NEW i \in 1 .. Len(attrs) PROVE d2[4 + b + i] = attrs[i]
  <2> DEFINE a == Len(attrs)
             l == m.len
  <2>3. b \in Nat /\ a \in Nat /\ n \in Nat /\ o \in Nat /\ k \in Nat /\ l \in Nat /\ i \in 1 .. a
    BY <1>2, <1>3, <1>4
  <2>4. 4 + b + a <= n /\ off = 4 + o /\ o + k <= l /\ l <= b
    BY <1>2, <1>3, <1>11
  <2>1. 4 + b + i \in 1 .. n /\ 4 + b + i > off + k
    <3> HIDE DEF b, a, n, k, l
    <3> QED BY ONLY <2>3, <2>4
  <2>2. data[4 + b + i] = attrs[i]
    BY <1>1 DEF Holds, PREFIX
  <2> QED BY <1>7, <2>1, <2>2
<1>15. Holds(d2, layout, b2, attrs)
  <2>1. data[1] = b /\ data[2] = Len(attrs) /\ data[3] = layout /\ data[4] = 0
    BY <1>1 DEF Holds, BODYLEN, ATTRSLEN, LAYOUT, PADDING
  <2> HIDE DEF b, n
  <2> QED BY <1>6, <1>7, <1>11, <1>12, <1>13, <1>14, <2>1 DEF Holds, PREFIX, BODYLEN, ATTRSLEN, LAYOUT, PADDING
<1>16. ASSUME NEW i \in 1 .. m.len PROVE b2[i] = c2[i]
  <2>1. i \in 1 .. b /\ i \in 1 .. Len(c) /\ body[i] = c[i]
    BY <1>1, <1>2, <1>3
  <2>2. (i <= o \/ i > o + k) \/ (i > o /\ i <= o + k)
    BY <1>3
  <2> QED BY <1>5, <1>6, <2>1, <2>2
<1>17. Stores(d2, p)
  <2>1. Len(b2) = p.cap /\ Holds(d2, LayoutOf(p), b2, AreaOf(p)) /\ \A i \in 1 .. p.len : b2[i] = p.content[i]
    BY <1>3, <1>6, <1>8, <1>10, <1>15, <1>16
  <2> QED BY <1>6, <2>1 DEF Stores
<1> QED BY <1>9, <1>17 DEF d2

\* Bytes behind the area do not matter.
LEMMA PrefixStores ==
  ASSUME NEW data \in Seq(Byte), NEW d2 \in Seq(Byte), NEW m, MadeOK(m), Stores(data, m),
         PREFIX + m.cap + Len(AreaOf(m)) <= Len(d2),
         \A i \in 1 .. PREFIX + m.cap + Len(AreaOf(m)) : d2[i] = data[i]
  PROVE  Stores(d2, m)
<1> DEFINE attrs == AreaOf(m)
           layout == LayoutOf(m)
<1>1. PICK body \in Seq(Byte) :
        /\ Len(body) = m.cap /\ Holds(data, layout, body, attrs)
        /\ \A i \in 1 .. m.len : body[i] = m.content[i]
  BY DEF Stores
<1>2. attrs \in Seq(Byte)
  BY AreaOK
<1> HIDE DEF attrs, layout
<1> DEFINE b == Len(body)
           c == Len(attrs)
<1>3. b \in Nat /\ c \in Nat /\ b = m.cap
  BY <1>1, <1>2
<1>4. 4 + b + c <= Len(d2) /\ \A i \in 1 .. 4 + b + c : d2[i] = data[i]
  BY <1>1 DEF PREFIX, attrs
<1> HIDE DEF b, c
<1>9. b \in Nat /\ c \in Nat
  BY <1>3
<1>5. /\ 1 \in 1 .. 4 + b + c /\ 2 \in 1 .. 4 + b + c /\ 3 \in 1 .. 4 + b + c /\ 4 \in 1 .. 4 + b + c
      /\ \A i \in 1 .. b : 4 + i \in 1 .. 4 + b + c
      /\ \A i \in 1 .. c : 4 + b + i \in 1 .. 4 + b + c
  BY ONLY <1>9
<1>6. /\ data[1] = b /\ data[2] = c /\ data[3] = layout /\ data[4] = 0
      /\ \A i \in 1 .. b : data[4 + i] = body[i]
      /\ \A i \in 1 .. c : data[4 + b + i] = attrs[i]
  BY <1>1 DEF Holds, PREFIX, BODYLEN, ATTRSLEN, LAYOUT, PADDING, b, c
<1>7. /\ d2[1] = b /\ d2[2] = c /\ d2[3] = layout /\ d2[4] = 0
      /\ \A i \in 1 .. b : d2[4 + i] = body[i]
      /\ \A i \in 1 .. c : d2[4 + b + i] = attrs[i]
  BY <1>4, <1>5, <1>6
<1>8. Holds(d2, layout, body, attrs)
  BY <1>4, <1>7 DEF Holds, PREFIX, BODYLEN, ATTRSLEN, LAYOUT, PADDING, b, c
<1> QED BY <1>1, <1>8 DEF Stores, attrs, layout

-----------------------------------------------------------------------------
\* What is built.

LEMMA WithHead ==
  ASSUME NEW layout \in {LAYOUT_LENGTH, LAYOUT_CAPACITY}, NEW body \in Seq(Byte), NEW attrs \in Seq(Byte),
         Len(body) < Word, Len(attrs) < Word
  PROVE  /\ with_head(layout, body, attrs) \in Seq(Byte)
         /\ Len(with_head(layout, body, attrs)) = PREFIX + Len(body) + Len(attrs)
         /\ Holds(with_head(layout, body, attrs), layout, body, attrs)
<1> DEFINE e == <<Len(body), Len(attrs), layout, 0>>
           b == Len(body)
           c == Len(attrs)
           u == e \o body
           w == u \o attrs
<1>1. b \in Nat /\ c \in Nat /\ b \in Byte /\ c \in Byte /\ layout \in Byte /\ 0 \in Byte
  BY Bytes DEF LAYOUT_LENGTH, LAYOUT_CAPACITY
<1>2. e \in Seq(Byte) /\ Len(e) = 4 /\ e[1] = b /\ e[2] = c /\ e[3] = layout /\ e[4] = 0
  BY <1>1
<1>3. with_head(layout, body, attrs) = w
  BY DEF with_head
<1> HIDE DEF e
<1>4. /\ u \in Seq(Byte) /\ Len(u) = 4 + b
      /\ \A i \in 1 .. 4 + b : u[i] = IF i <= 4 THEN e[i] ELSE body[i - 4]
  <2>1. /\ e \o body \in Seq(Byte) /\ Len(e \o body) = Len(e) + Len(body)
        /\ \A i \in 1 .. Len(e) + Len(body) : (e \o body)[i] = IF i <= Len(e) THEN e[i] ELSE body[i - Len(e)]
    BY <1>2, ConcatProperties
  <2> QED BY <1>2, <2>1
<1> HIDE DEF u
<1>5. /\ w \in Seq(Byte) /\ Len(w) = 4 + b + c
      /\ \A i \in 1 .. 4 + b + c : w[i] = IF i <= 4 + b THEN u[i] ELSE attrs[i - (4 + b)]
  <2>1. /\ u \o attrs \in Seq(Byte) /\ Len(u \o attrs) = Len(u) + Len(attrs)
        /\ \A i \in 1 .. Len(u) + Len(attrs) : (u \o attrs)[i] = IF i <= Len(u) THEN u[i] ELSE attrs[i - Len(u)]
    BY <1>4, ConcatProperties
  <2> QED BY <1>4, <2>1
<1> HIDE DEF w, b, c
<1>6. b \in Nat /\ c \in Nat
  BY <1>1
<1>7. /\ \A i \in 1 .. 4 : i \in 1 .. 4 + b /\ i \in 1 .. 4 + b + c /\ i <= 4 + b
      /\ \A i \in 1 .. b : 4 + i \in 1 .. 4 + b /\ 4 + i \in 1 .. 4 + b + c /\ 4 + i <= 4 + b /\ ~ (4 + i <= 4) /\ (4 + i) - 4 = i
      /\ \A i \in 1 .. c : 4 + b + i \in 1 .. 4 + b + c /\ ~ (4 + b + i <= 4 + b) /\ (4 + b + i) - (4 + b) = i
  BY ONLY <1>6
<1>8. \A i \in 1 .. 4 : w[i] = e[i]
  BY <1>4, <1>5, <1>7
<1>9. \A i \in 1 .. b : w[4 + i] = body[i]
  <2> SUFFICES ASSUME NEW i \in 1 .. b PROVE w[4 + i] = body[i]
    OBVIOUS
  <2>1. w[4 + i] = u[4 + i]
    BY <1>5, <1>7
  <2>2. u[4 + i] = body[(4 + i) - 4]
    BY <1>4, <1>7
  <2> QED BY <1>7, <2>1, <2>2
<1>10. \A i \in 1 .. c : w[4 + b + i] = attrs[i]
  <2> SUFFICES ASSUME NEW i \in 1 .. c PROVE w[4 + b + i] = attrs[i]
    OBVIOUS
  <2>1. w[4 + b + i] = attrs[(4 + b + i) - (4 + b)]
    BY <1>5, <1>7
  <2> QED BY <1>7, <2>1
<1>11. w[1] = b /\ w[2] = c /\ w[3] = layout /\ w[4] = 0
  BY <1>2, <1>8
<1>12. 4 + b + c <= Len(w)
  BY <1>5, <1>6
<1>13. Holds(w, layout, body, attrs)
  BY <1>9, <1>10, <1>11, <1>12 DEF Holds, PREFIX, BODYLEN, ATTRSLEN, LAYOUT, PADDING, b, c
<1> QED BY <1>3, <1>5, <1>13 DEF PREFIX, b, c

\* A built head with the contents in front of its body stores what it was made as.
LEMMA BuiltStores ==
  ASSUME NEW m, MadeOK(m), NEW body \in Seq(Byte), Len(body) = m.cap,
         \A i \in 1 .. m.len : body[i] = m.content[i],
         NEW data \in Seq(Byte), data = with_head(LayoutOf(m), body, AreaOf(m))
  PROVE  Stores(data, m)
<1> DEFINE attrs == AreaOf(m)
           layout == LayoutOf(m)
<1>1. attrs \in Seq(Byte) /\ Len(attrs) < Word /\ layout \in {LAYOUT_LENGTH, LAYOUT_CAPACITY}
  BY AreaOK
<1>2. Len(body) < Word
  BY DEF MadeOK
<1> HIDE DEF attrs, layout
<1>3. Holds(with_head(layout, body, attrs), layout, body, attrs)
  BY <1>1, <1>2, WithHead
<1>4. Holds(data, layout, body, attrs)
  BY <1>3 DEF attrs, layout
<1> QED BY <1>4 DEF Stores, attrs, layout

\* The low and the high byte of a wide element.
LEMMA Halves ==
  ASSUME NEW x \in 0 .. Word * Word - 1
  PROVE  x % Word \in Byte /\ x \div Word \in Byte
<1> DEFINE q == x \div Word
           r == x % Word
<1>1. Word \in Nat /\ Word > 0 /\ x \in Nat /\ x < Word * Word
  BY Bytes
<1>2. q \in Int /\ r \in 0 .. Word - 1 /\ x = Word * q + r
  BY <1>1
<1> HIDE DEF q, r
<1>3. r \in Byte
  BY <1>2 DEF Byte
<1>4. q >= 0
  <2> SUFFICES ASSUME q <= -1 PROVE FALSE
    BY <1>2
  <2>1. Word * q <= Word * (-1)
    BY <1>1, <1>2
  <2> QED BY <1>1, <1>2, <2>1
<1>5. q < Word
  <2> SUFFICES ASSUME q >= Word PROVE FALSE
    BY <1>1, <1>2
  <2>1. Word * q >= Word * Word
    BY <1>1, <1>2
  <2> QED BY <1>1, <1>2, <2>1
<1>6. q \in Byte
  BY <1>1, <1>2, <1>4, <1>5 DEF Byte
<1> QED BY <1>3, <1>6 DEF q, r

LEMMA BodyTyped ==
  ASSUME NEW v \in Built
  PROVE  body_of(v) \in Seq(Byte)
<1>1. v.data \in Seq(IF v.variant = "arr" /\ v.kind[1] \in Wide THEN 0 .. Word * Word - 1 ELSE Byte)
  BY BuiltAssumption
<1>2. CASE v.variant = "arr" /\ v.kind[1] \in Wide
  <2> DEFINE d == v.data
             n == Len(d)
             B == Byte
             seqs == [i \in 1 .. n |-> <<d[i] % Word, d[i] \div Word>>]
  <2>1. d \in Seq(0 .. Word * Word - 1)
    BY <1>1, <1>2
  <2>2. DOMAIN d = 1 .. n /\ n \in Nat /\ \A i \in 1 .. n : d[i] \in 0 .. Word * Word - 1
    <3> DEFINE T == 0 .. Word * Word - 1
    <3>1. d \in Seq(T)
      BY <2>1
    <3> HIDE DEF T, d
    <3>2. DOMAIN d = 1 .. n /\ n \in Nat /\ \A i \in 1 .. n : d[i] \in T
      BY <3>1
    <3> QED BY <3>2 DEF T
  <2>3. body_of(v) = FlattenSeq(seqs)
    BY <1>2, <2>2 DEF body_of, raw_bytes
  <2>4. \A i \in 1 .. n : d[i] % Word \in Byte /\ d[i] \div Word \in Byte
    BY <2>2, Halves
  <2>5. \A i \in 1 .. n : <<d[i] % Word, d[i] \div Word>> \in Seq(B)
    <3> SUFFICES ASSUME NEW i \in 1 .. n PROVE <<d[i] % Word, d[i] \div Word>> \in Seq(B)
      OBVIOUS
    <3> DEFINE x == d[i] % Word
               y == d[i] \div Word
    <3>1. x \in B /\ y \in B
      BY <2>4
    <3> HIDE DEF x, y, B
    <3>2. <<x, y>> \in Seq(B)
      BY <3>1
    <3> QED BY <3>2 DEF x, y
  <2> DEFINE S == Seq(B)
  <2>6. seqs \in Seq(Seq(B)) /\ Len(seqs) \in Nat
    <3>1. seqs \in [1 .. n -> S]
      BY <2>5
    <3> HIDE DEF seqs, S, n, d
    <3>2. seqs \in Seq(S) /\ Len(seqs) \in Nat
      BY <2>2, <3>1
    <3> QED BY <3>2 DEF S
  <2> HIDE DEF seqs, B, S
  <2>7. PICK f \in [0 .. Len(seqs) -> Seq(B)] : FlattenSeq(seqs) = f[Len(seqs)]
    BY <2>6, Flatten
  <2>8. f[Len(seqs)] \in Seq(B)
    BY <2>6, <2>7
  <2> QED BY <2>3, <2>7, <2>8 DEF B
<1>3. CASE ~ (v.variant = "arr" /\ v.kind[1] \in Wide)
  <2>1. v.data \in Seq(Byte)
    BY <1>1, <1>3
  <2>2. body_of(v) = v.data
    BY <1>3 DEF body_of, raw_bytes
  <2> QED BY <2>1, <2>2
<1> QED BY <1>2, <1>3

LEMMA NoReference ==
  ASSUME NEW lt \in Seq(Byte), NEW c \in Byte
  PROVE  /\ <<c>> \o lt \in Seq(Byte) /\ Len(<<c>> \o lt) = Len(lt) + 1
         /\ c = STAR => reference_of(<<c>> \o lt) = "ptr"
         /\ c = AT => reference_of(<<c>> \o lt) = "ext"
<1> DEFINE e == <<c>>
           w == e \o lt
<1>1. e \in Seq(Byte) /\ Len(e) = 1 /\ e[1] = c
  OBVIOUS
<1> HIDE DEF e
<1>2. /\ e \o lt \in Seq(Byte) /\ Len(e \o lt) = Len(e) + Len(lt)
      /\ \A i \in 1 .. Len(e) + Len(lt) : (e \o lt)[i] = IF i <= Len(e) THEN e[i] ELSE lt[i - Len(e)]
  BY <1>1, ConcatProperties
<1>3. w \in Seq(Byte) /\ Len(w) = Len(lt) + 1 /\ w[1] = c
  BY <1>1, <1>2
<1> HIDE DEF w
<1>4. w # <<>>
  BY <1>3
<1>5. (c = STAR => reference_of(w) = "ptr") /\ (c = AT => reference_of(w) = "ext")
  BY <1>3, <1>4 DEF reference_of, BeginsWith, STAR, AT
<1> QED BY <1>3, <1>5 DEF w, e

\* What a reference is stored with.
LEMMA Prefixed ==
  ASSUME NEW ref \in {"none", "ptr", "ext"}, NEW lt \in Seq(Byte), reference_of(lt) = "none"
  PROVE  /\ prefixed(ref, lt) \in Seq(Byte) /\ Len(prefixed(ref, lt)) <= Len(lt) + 1
         /\ reference_of(prefixed(ref, lt)) = ref
<1>1. STAR \in Byte /\ AT \in Byte
  BY Bytes DEF STAR, AT
<1>2. CASE ref = "none"
  <2>1. prefixed(ref, lt) = <<>> \o lt
    BY <1>2 DEF prefixed
  <2>2. prefixed(ref, lt) = lt
    BY <2>1
  <2> QED BY <1>2, <2>2
<1>3. CASE ref = "ptr"
  <2> DEFINE c == STAR
  <2>1. prefixed(ref, lt) = <<c>> \o lt
    BY <1>3 DEF prefixed
  <2> HIDE DEF c
  <2>2. <<c>> \o lt \in Seq(Byte) /\ Len(<<c>> \o lt) = Len(lt) + 1 /\ reference_of(<<c>> \o lt) = "ptr"
    BY <1>1, NoReference DEF c
  <2> DEFINE w == <<c>> \o lt
  <2> HIDE DEF w
  <2>3. w \in Seq(Byte) /\ Len(w) = Len(lt) + 1 /\ reference_of(w) = "ptr"
    BY <2>2 DEF w
  <2>4. prefixed(ref, lt) = w
    BY <2>1 DEF w
  <2> QED BY <1>3, <2>3, <2>4
<1>4. CASE ref = "ext"
  <2> DEFINE c == AT
  <2>1. prefixed(ref, lt) = <<c>> \o lt
    BY <1>4 DEF prefixed
  <2> HIDE DEF c
  <2>2. <<c>> \o lt \in Seq(Byte) /\ Len(<<c>> \o lt) = Len(lt) + 1 /\ reference_of(<<c>> \o lt) = "ext"
    BY <1>1, NoReference DEF c
  <2> DEFINE w == <<c>> \o lt
  <2> HIDE DEF w
  <2>3. w \in Seq(Byte) /\ Len(w) = Len(lt) + 1 /\ reference_of(w) = "ext"
    BY <2>2 DEF w
  <2>4. prefixed(ref, lt) = w
    BY <2>1 DEF w
  <2> QED BY <1>4, <2>3, <2>4
<1> QED BY <1>2, <1>3, <1>4

CodecInv == wire \in Seq(Byte) /\ (intact => MadeOK(made) /\ Stores(wire, made))

\* The reference a constructor's langtype is read as.
LEMMA BuiltReference ==
  ASSUME NEW v \in Built
  PROVE  reference_of(langtype_of(v)) = IF v.variant \in {"ptr", "ext"} THEN v.variant ELSE "none"
<1>1. v.kind \in Seq(Byte) /\ (v.variant \notin {"ptr", "ext"} => reference_of(langtype_of(v)) = "none")
  BY BuiltAssumption
<1>2. STAR \in Byte /\ AT \in Byte
  BY Bytes DEF STAR, AT
<1>3. CASE v.variant = "ptr" /\ BeginsWith(v.kind, STAR)
  <2>1. langtype_of(v) = v.kind
    BY <1>3 DEF langtype_of
  <2>2. ~ BeginsWith(v.kind, AT)
    BY <1>3 DEF BeginsWith, STAR, AT
  <2> QED BY <1>3, <2>1, <2>2 DEF reference_of
<1>4. CASE v.variant = "ptr" /\ ~ BeginsWith(v.kind, STAR)
  <2> DEFINE c == STAR
  <2>1. langtype_of(v) = <<c>> \o v.kind
    BY <1>4 DEF langtype_of, prefixed
  <2> HIDE DEF c
  <2>2. reference_of(<<c>> \o v.kind) = "ptr"
    BY <1>1, <1>2, NoReference DEF c
  <2> QED BY <1>4, <2>1, <2>2
<1>5. CASE v.variant = "ext"
  <2> DEFINE c == AT
  <2>1. langtype_of(v) = <<c>> \o v.kind
    BY <1>5 DEF langtype_of, prefixed
  <2> HIDE DEF c
  <2>2. reference_of(<<c>> \o v.kind) = "ext"
    BY <1>1, <1>2, NoReference DEF c
  <2> QED BY <1>5, <2>1, <2>2
<1>6. CASE v.variant \notin {"ptr", "ext"}
  BY <1>1, <1>6
<1> QED BY <1>3, <1>4, <1>5, <1>6

LEMMA BuildKeeps ==
  ASSUME NEW v \in Built, Build(v)
  PROVE  CodecInv'
<1> DEFINE lt == langtype_of(v)
           b == body_of(v)
           n == Len(b)
           ref == IF v.variant \in {"ptr", "ext"} THEN v.variant ELSE "none"
           m == [ref |-> ref, langtype |-> lt, len |-> n, cap |-> n, content |-> b, value |-> v]
<1>1. lt \in Seq(Byte) /\ Len(lt) + 2 < Word /\ n < Word
  BY BuiltAssumption
<1>2. b \in Seq(Byte)
  BY BodyTyped
<1>3. reference_of(lt) = ref /\ ref \in {"none", "ptr", "ext"}
  BY BuiltReference
<1>4. /\ made' = m /\ intact' = TRUE
      /\ wire' = with_head(LAYOUT_LENGTH, b, attr_bytes(lt))
  BY DEF Build, Made, to_wire, headlenpow_to_wire
<1> HIDE DEF lt, b, ref
<1>5. n \in Nat
  BY <1>2
<1>6. /\ m \in MadeType /\ m.len = n /\ m.cap = n /\ m.langtype = lt /\ m.ref = ref /\ m.content = b
  BY <1>1, <1>2, <1>3, <1>5 DEF MadeType
<1> HIDE DEF m
<1>7. ~ (m.cap > m.len)
  BY <1>5, <1>6
<1>8. MadeOK(m)
  <2>1. n <= n
    BY <1>5
  <2> QED BY <1>1, <1>2, <1>3, <1>5, <1>6, <1>7, <2>1 DEF MadeOK
<1>9. LayoutOf(m) = LAYOUT_LENGTH /\ AreaOf(m) = attr_bytes(lt)
  BY <1>6, <1>7 DEF LayoutOf, AreaOf
<1>10. wire' \in Seq(Byte)
  <2> DEFINE layout == LAYOUT_LENGTH
             attrs == attr_bytes(lt)
  <2>1. attrs \in Seq(Byte) /\ Len(attrs) < Word
    BY <1>8, <1>9, AreaOK
  <2>2. layout \in {LAYOUT_LENGTH, LAYOUT_CAPACITY}
    OBVIOUS
  <2> HIDE DEF layout, attrs
  <2>3. with_head(layout, b, attrs) \in Seq(Byte)
    BY <1>1, <1>2, <2>1, <2>2, WithHead
  <2> QED BY <1>4, <2>3 DEF layout, attrs
<1>11. Stores(wire', m)
  <2> DEFINE data == wire'
  <2>1. data \in Seq(Byte) /\ data = with_head(LayoutOf(m), b, AreaOf(m))
    BY <1>4, <1>9, <1>10
  <2>2. Len(b) = m.cap /\ \A i \in 1 .. m.len : b[i] = m.content[i]
    BY <1>6
  <2> HIDE DEF data
  <2>3. Stores(data, m)
    BY ONLY <1>2, <1>8, <2>1, <2>2, BuiltStores
  <2> QED BY <2>3 DEF data
<1>12. (MadeOK(made) /\ Stores(wire, made))'
  BY <1>4, <1>8, <1>11 DEF MadeOK, Stores
<1> QED BY <1>10, <1>12 DEF CodecInv

LEMMA SetPartKeeps ==
  ASSUME CodecInv, NEW off \in Nat, NEW buf \in Seq(Byte), SetPart(off, buf)
  PROVE  CodecInv'
<1>1. wire \in Seq(Byte)
  BY DEF CodecInv
<1>2. wire' = patch(wire, off, buf) /\ part_fits(wire, off, buf)
  BY DEF SetPart
<1>3. patch(wire, off, buf) \in Seq(Byte)
  BY <1>1, PatchTyped
<1>4. wire' \in Seq(Byte)
  BY <1>2, <1>3
<1>5. CASE intact' /\ off >= PREFIX
  <2>1. intact /\ made' = [made EXCEPT !.content = patch(made.content, off - PREFIX, buf), !.value = None]
    BY <1>5 DEF SetPart
  <2>2. MadeOK(made) /\ Stores(wire, made)
    BY <2>1 DEF CodecInv
  <2>3. effective_len(wire) = made.len
    BY <1>1, <2>2, StoredReads
  <2>4. off + Len(buf) <= PREFIX + made.len
    BY <1>2, <2>3 DEF part_fits
  <2> DEFINE p == made'
             m == made
             data == wire
  <2>5. /\ p = [m EXCEPT !.content = patch(m.content, off - PREFIX, buf), !.value = None]
        /\ MadeOK(m) /\ Stores(data, m) /\ data \in Seq(Byte) /\ off + Len(buf) <= PREFIX + m.len /\ off >= PREFIX
    BY <1>1, <1>5, <2>1, <2>2, <2>4
  <2> HIDE DEF p, m, data
  <2>6. MadeOK(p) /\ Stores(patch(data, off, buf), p)
    BY ONLY <2>5, off \in Nat, buf \in Seq(Byte), PatchStores
  <2>7. (MadeOK(made) /\ Stores(wire, made))'
    BY <1>2, <2>6 DEF MadeOK, Stores, p, data
  <2> QED BY <1>4, <2>7 DEF CodecInv
<1>6. CASE ~ intact'
  BY <1>4, <1>6 DEF CodecInv
<1>7. ~ (off >= PREFIX) => ~ intact'
  BY DEF SetPart
<1> QED BY <1>5, <1>6, <1>7

LEMMA SetValueKeeps ==
  ASSUME CodecInv, NEW extra \in Seq(Byte), SetValue(extra)
  PROVE  CodecInv'
<1> DEFINE data == wire \o extra
           h == headlenpow_from_wire(data)
           n == PREFIX + h.len + Len(h.attrs)
<1>1. wire \in Seq(Byte)
  BY DEF CodecInv
<1>2. /\ data \in Seq(Byte) /\ Len(data) = Len(wire) + Len(extra)
      /\ \A i \in 1 .. Len(wire) + Len(extra) : data[i] = IF i <= Len(wire) THEN wire[i] ELSE extra[i - Len(wire)]
  BY <1>1, ConcatProperties
<1>3. h.ok /\ wire' = SubSeq(data, 1, n) /\ made' = made /\ intact' = intact
  BY DEF SetValue
<1> HIDE DEF data
<1>4. n \in Nat /\ n <= Len(data)
  <2>1. /\ data[BODYLEN] \in Nat /\ data[ATTRSLEN] \in Nat /\ PREFIX + data[BODYLEN] + data[ATTRSLEN] <= Len(data)
        /\ h.len = data[BODYLEN] /\ Len(h.attrs) = data[ATTRSLEN]
    BY <1>2, <1>3, ParseShape
  <2> HIDE DEF h
  <2> QED BY <2>1 DEF PREFIX
<1> DEFINE d2 == SubSeq(data, 1, n)
<1>5. d2 \in Seq(Byte) /\ Len(d2) = n /\ \A i \in 1 .. n : d2[i] = data[i]
  <2> HIDE DEF n
  <2> DEFINE one == 1
             u == SubSeq(data, one, n)
  <2>1. one \in Int /\ n \in Int /\ \A i \in one .. n : data[i] \in Byte
    BY <1>2, <1>4
  <2>2. /\ u \in Seq(Byte)
        /\ Len(u) = IF one <= n THEN n - one + 1 ELSE 0
        /\ \A i \in 1 .. n - one + 1 : u[i] = data[one + i - 1]
    <3> HIDE DEF one
    <3> QED BY <1>2, <2>1, SubSeqProperties, SMTT(20)
  <2> HIDE DEF u
  <2>3. u \in Seq(Byte) /\ Len(u) = n /\ \A i \in 1 .. n : u[i] = data[i]
    BY <1>4, <2>2
  <2> QED BY <2>3 DEF u
<1>6. wire' \in Seq(Byte)
  BY <1>3, <1>5
<1>7. CASE intact
  <2> DEFINE m == made
             w == wire
             c == PREFIX + m.cap + Len(AreaOf(m))
  <2>1. MadeOK(m) /\ Stores(w, m) /\ w \in Seq(Byte)
    BY <1>1, <1>7 DEF CodecInv
  <2> HIDE DEF m, w, d2, n, h
  <2>2. c \in Nat /\ c <= Len(w)
    <3>1. PICK body \in Seq(Byte) : Len(body) = m.cap /\ Holds(w, LayoutOf(m), body, AreaOf(m))
      BY <2>1 DEF Stores
    <3>2. AreaOf(m) \in Seq(Byte)
      BY <2>1, AreaOK
    <3> DEFINE a == AreaOf(m)
    <3> HIDE DEF a
    <3>3. a \in Seq(Byte) /\ PREFIX + Len(body) + Len(a) <= Len(w)
      BY <3>1, <3>2 DEF Holds, a
    <3>4. PREFIX + Len(body) + Len(a) \in Nat
      BY <3>1, <3>3 DEF PREFIX
    <3> QED BY <3>1, <3>3, <3>4 DEF a
  <2>3. Stores(data, m)
    <3>1. \A i \in 1 .. c : data[i] = w[i]
      <4> HIDE DEF c
      <4>1. \A i \in 1 .. c : i <= Len(w) /\ i \in 1 .. Len(w) + Len(extra)
        BY <2>1, <2>2
      <4> QED BY <1>2, <4>1 DEF w
    <3>2. c <= Len(data)
      <4> HIDE DEF c
      <4> QED BY <1>2, <2>1, <2>2 DEF w
    <3>3. c <= Len(data) /\ \A i \in 1 .. c : data[i] = w[i]
      BY <3>1, <3>2
    <3> QED BY ONLY <1>2, <2>1, <3>3, PrefixStores
  <2>4. h.len = m.cap /\ h.attrs = AreaOf(m)
    BY <1>2, <2>1, <2>3, StoredReads DEF h
  <2>5. n = c
    BY <2>4 DEF n
  <2>6. Stores(d2, m)
    <3>1. n <= Len(d2)
      BY <1>4, <1>5
    <3>2. c <= Len(d2) /\ \A i \in 1 .. c : d2[i] = data[i]
      BY <1>5, <2>5, <3>1
    <3> QED BY ONLY <1>2, <1>5, <2>1, <2>3, <3>2, PrefixStores
  <2>7. (MadeOK(made) /\ Stores(wire, made))'
    BY <1>3, <2>1, <2>6 DEF MadeOK, Stores, m, d2
  <2> QED BY <1>6, <2>7 DEF CodecInv
<1>8. CASE ~ intact
  BY <1>3, <1>6, <1>8 DEF CodecInv
<1> QED BY <1>7, <1>8

LEMMA WriteNewPlaceKeeps ==
  ASSUME NEW ref \in {"none", "ptr", "ext"}, NEW lt0 \in Langtypes,
         NEW n \in 0 .. MaxBody, NEW cap \in 0 .. MaxBody, NEW body \in [1 .. n -> FillBytes],
         WriteNewPlace(ref, lt0, body, cap)
  PROVE  CodecInv'
<1> DEFINE lt == prefixed(ref, lt0)
           new == build_xvalue_head(ref, Len(body), cap, lt0)
           m == [ref |-> ref, langtype |-> lt, len |-> n, cap |-> cap, content |-> body, value |-> None]
           full == [i \in 1 .. cap |-> IF i <= n THEN body[i] ELSE 0]
<1>1. n \in Nat /\ cap \in Nat /\ cap < Word /\ n < Word /\ n <= MaxBody
  BY WordAssumption
<1>2. body \in Seq(Byte) /\ Len(body) = n /\ DOMAIN body = 1 .. n
  <2>1. FillBytes \subseteq Byte
    BY BytesAssumption
  <2>2. body \in [1 .. n -> Byte]
    BY <2>1
  <2> QED BY <1>1, <2>2
<1>3. lt0 \in Seq(Byte) /\ Len(lt0) + 6 < Word
  BY BytesAssumption
<1>4. ~ (n > cap) /\ reference_of(lt0) = "none"
  BY <1>2 DEF WriteNewPlace, build_xvalue_head
<1>5. lt \in Seq(Byte) /\ Len(lt) <= Len(lt0) + 1 /\ reference_of(lt) = ref
  BY <1>3, <1>4, Prefixed
<1>6. /\ made' = m /\ intact' = TRUE
      /\ wire' = [i \in DOMAIN new |-> IF i - PREFIX \in DOMAIN body THEN body[i - PREFIX] ELSE new[i]]
  BY <1>2 DEF WriteNewPlace, Made
<1> HIDE DEF lt
<1>7. /\ m \in MadeType /\ m.len = n /\ m.cap = cap /\ m.langtype = lt /\ m.ref = ref /\ m.content = body
  BY <1>1, <1>2, <1>5 DEF MadeType
<1> HIDE DEF m
<1>8. MadeOK(m)
  <2>1. Len(lt) + 2 < Word /\ Len(lt) + 5 < Word
    BY <1>3, <1>5, Bytes
  <2>2. n <= cap
    BY <1>1, <1>4
  <2> QED BY <1>1, <1>2, <1>5, <1>7, <2>1, <2>2 DEF MadeOK
<1> DEFINE z == Zeros(cap)
           attrs == AreaOf(m)
           layout == LayoutOf(m)
<1>9. new = with_head(layout, z, attrs)
  <2>1. CASE cap > n
    <3>1. new = to_wire_varlen(cap, n, lt)
      BY <1>2, <1>4, <2>1 DEF build_xvalue_head, lt
    <3> QED BY <1>4, <1>7, <2>1, <3>1 DEF to_wire_varlen, LayoutOf, AreaOf
  <2>2. CASE ~ (cap > n)
    <3>1. new = reserve(n, lt)
      BY <1>2, <1>4, <2>2 DEF build_xvalue_head, lt
    <3>2. n = cap
      BY <1>1, <1>4, <2>2
    <3> QED BY <1>7, <2>2, <3>1, <3>2 DEF reserve, LayoutOf, AreaOf
  <2> QED BY <2>1, <2>2
<1>10. attrs \in Seq(Byte) /\ Len(attrs) < Word /\ layout \in {LAYOUT_LENGTH, LAYOUT_CAPACITY}
  BY <1>8, AreaOK
<1>11. z \in Seq(Byte) /\ Len(z) = cap
  <2>1. z \in [1 .. cap -> Byte]
    BY Bytes DEF Zeros
  <2> HIDE DEF z
  <2> QED BY <1>1, <2>1
<1> HIDE DEF new, attrs, layout
<1>12. new \in Seq(Byte) /\ Len(new) = PREFIX + Len(z) + Len(attrs) /\ Holds(new, layout, z, attrs)
  <2>1. Len(z) < Word
    BY <1>1, <1>11
  <2> HIDE DEF z
  <2> QED BY <1>9, <1>10, <1>11, <2>1, WithHead
<1> HIDE DEF z
<1>13. full \in Seq(Byte) /\ Len(full) = cap
  <2>1. full \in [1 .. cap -> Byte]
    <3>1. \A i \in 1 .. cap : i <= n => i \in 1 .. n
      BY <1>1
    <3> QED BY <1>2, <3>1, Bytes
  <2> HIDE DEF full
  <2> QED BY <1>1, <2>1
<1> DEFINE w == patch(new, PREFIX, body)
           k == Len(new)
<1>14. wire' = w
  BY <1>6 DEF patch
<1>15. /\ w \in Seq(Byte) /\ Len(w) = k
       /\ \A i \in 1 .. k : /\ i <= 4 \/ i > 4 + n => w[i] = new[i]
                            /\ i > 4 /\ i <= 4 + n => w[i] = body[i - 4]
  <2> DEFINE p == PREFIX
             u == patch(new, p, body)
  <2>1. p \in Nat /\ p = 4
    BY DEF PREFIX
  <2> HIDE DEF p
  <2>2. /\ u \in Seq(Byte) /\ Len(u) = Len(new)
        /\ \A i \in 1 .. Len(new) : /\ i <= p \/ i > p + Len(body) => u[i] = new[i]
                                    /\ i > p /\ i <= p + Len(body) => u[i] = body[i - p]
    BY <1>2, <1>12, <2>1, PatchTyped
  <2> QED BY <1>2, <2>1, <2>2 DEF p
<1> HIDE DEF w
<1> DEFINE c == Len(attrs)
<1>16. /\ 4 + cap + c <= k /\ k = 4 + cap + c
       /\ new[1] = cap /\ new[2] = c /\ new[3] = layout /\ new[4] = 0
       /\ \A i \in 1 .. cap : new[4 + i] = z[i]
       /\ \A i \in 1 .. c : new[4 + cap + i] = attrs[i]
  BY <1>11, <1>12 DEF Holds, PREFIX, BODYLEN, ATTRSLEN, LAYOUT, PADDING
<1>17. k \in Nat /\ c \in Nat /\ n \in Nat /\ cap \in Nat /\ n <= cap
  BY <1>1, <1>4, <1>10, <1>12
<1> HIDE DEF k, c
<1>18. w[1] = cap /\ w[2] = c /\ w[3] = layout /\ w[4] = 0
  <2>1. 1 \in 1 .. k /\ 2 \in 1 .. k /\ 3 \in 1 .. k /\ 4 \in 1 .. k
    BY <1>16, <1>17
  <2> QED BY <1>15, <1>16, <2>1
<1>19. ASSUME NEW i \in 1 .. cap PROVE w[4 + i] = full[i]
  <2>1. 4 + i \in 1 .. k /\ (4 + i) - 4 = i
    BY <1>16, <1>17
  <2>2. CASE i <= n
    <3>1. 4 + i > 4 /\ 4 + i <= 4 + n
      BY <1>17, <2>2
    <3>2. w[4 + i] = body[(4 + i) - 4]
      BY <1>15, <2>1, <3>1
    <3>3. full[i] = body[i]
      BY <2>2
    <3> QED BY <2>1, <3>2, <3>3
  <2>3. CASE ~ (i <= n)
    <3>1. 4 + i > 4 + n
      BY <1>17, <2>3
    <3>2. w[4 + i] = new[4 + i]
      BY <1>15, <2>1, <3>1
    <3>3. full[i] = 0 /\ z[i] = 0
      BY <2>3 DEF z, Zeros
    <3> QED BY <1>16, <3>2, <3>3
  <2> QED BY <2>2, <2>3
<1>20. ASSUME NEW i \in 1 .. c PROVE w[4 + cap + i] = attrs[i]
  <2>1. 4 + cap + i \in 1 .. k /\ 4 + cap + i > 4 + n
    BY <1>16, <1>17
  <2> QED BY <1>15, <1>16, <2>1
<1>21. Holds(w, layout, full, attrs)
  <2> HIDE DEF full
  <2> QED BY <1>13, <1>15, <1>16, <1>18, <1>19, <1>20 DEF Holds, PREFIX, BODYLEN, ATTRSLEN, LAYOUT, PADDING, c
<1>22. Stores(w, m)
  <2>1. \A i \in 1 .. n : full[i] = body[i]
    BY <1>17
  <2> HIDE DEF full
  <2>2. Len(full) = m.cap /\ Holds(w, LayoutOf(m), full, AreaOf(m)) /\ \A i \in 1 .. m.len : full[i] = m.content[i]
    BY <1>7, <1>13, <1>21, <2>1 DEF layout, attrs
  <2> QED BY <1>13, <2>2 DEF Stores
<1>23. (MadeOK(made) /\ Stores(wire, made))'
  BY <1>6, <1>8, <1>14, <1>22 DEF MadeOK, Stores
<1> QED BY <1>14, <1>15, <1>23 DEF CodecInv

-----------------------------------------------------------------------------
LEMMA CodecNextKeeps == CodecInv /\ [CodecNext]_codec_vars => CodecInv'
<1> SUFFICES ASSUME CodecInv, [CodecNext]_codec_vars PROVE CodecInv'
  OBVIOUS
<1>1. ASSUME NEW v \in Built, Build(v) PROVE CodecInv'
  BY <1>1, BuildKeeps
<1>2. ASSUME NEW ref \in {"none", "ptr", "ext"}, NEW lt \in Langtypes, NEW n \in 0 .. MaxBody,
             NEW cap \in 0 .. MaxBody, NEW body \in [1 .. n -> FillBytes], WriteNewPlace(ref, lt, body, cap)
      PROVE  CodecInv'
  BY <1>2, WriteNewPlaceKeeps
<1>3. ASSUME NEW off \in 0 .. PREFIX + MaxBody, NEW buf \in PartBytes, SetPart(off, buf) PROVE CodecInv'
  <2>1. off \in Nat /\ buf \in Seq(Byte)
    BY BytesAssumption, WordAssumption DEF PREFIX
  <2> QED BY <1>3, <2>1, SetPartKeeps
<1>4. CASE SetValue(<<0>>)
  <2> DEFINE e == <<0>>
  <2>1. e \in Seq(Byte) /\ SetValue(e)
    BY <1>4, Bytes
  <2> HIDE DEF e
  <2> QED BY <2>1, SetValueKeeps
<1>5. CASE UNCHANGED codec_vars
  BY <1>5 DEF CodecInv, codec_vars, MadeOK, Stores
<1> QED BY <1>1, <1>2, <1>3, <1>4, <1>5 DEF CodecNext

LEMMA CodecInvariant == CodecSpec => []CodecInv
<1>1. CodecInit => CodecInv
  BY DEF CodecInit, CodecInv, NoWire
<1> QED BY <1>1, CodecNextKeeps, PTL DEF CodecSpec

\* Whatever bytes a part write leaves in a head, headlenpow.rs from_wire refuses
\* the value or finds body, attributes and effective length inside it.
THEOREM ParseStaysInside == CodecSpec => []ParseSafe
<1>1. CodecInv => ParseSafe
  <2> SUFFICES ASSUME wire \in Seq(Byte), headlenpow_from_wire(wire).ok
               PROVE  /\ headlenpow_from_wire(wire).len = wire[BODYLEN]
                      /\ PREFIX + headlenpow_from_wire(wire).len + Len(headlenpow_from_wire(wire).attrs) <= Len(wire)
                      /\ effective_len(wire) <= headlenpow_from_wire(wire).len
    BY DEF CodecInv, ParseSafe
  <2> QED BY ParseShape
<1> QED BY <1>1, CodecInvariant, PTL

\* A value that was built, filled, patched in its body and stored again any number
\* of times reads as it was made (headlenpow.rs from_wire, effective_len).
THEOREM StoredReadsAsMade == CodecSpec => []ReadsAsMade
<1>1. CodecInv => ReadsAsMade
  <2> SUFFICES ASSUME CodecInv, intact
               PROVE  /\ headlenpow_from_wire(wire).ok /\ headlenpow_from_wire(wire).reference = made.ref
                      /\ headlenpow_from_wire(wire).len = made.cap
                      /\ effective_len(wire) = made.len
                      /\ SubSeq(headlenpow_from_wire(wire).body, 1, made.len) = made.content
                      /\ headlenpow_from_wire(wire).langtype = made.langtype
    BY DEF ReadsAsMade
  <2>1. wire \in Seq(Byte) /\ MadeOK(made) /\ Stores(wire, made)
    BY DEF CodecInv
  <2> QED BY <2>1, StoredReads
<1> QED BY <1>1, CodecInvariant, PTL

\* backend.rs set_part never changes the length of a value, its attributes or the
\* spare capacity behind its effective length.
THEOREM PartWritesContained == CodecSpec => PartContained
<1> DEFINE A == \A off \in 0 .. PREFIX + MaxBody, buf \in PartBytes :
                  wire # NoWire /\ SetPart(off, buf) =>
                    /\ Len(wire') = Len(wire)
                    /\ \A i \in DOMAIN wire : i > PREFIX + effective_len(wire) => wire'[i] = wire[i]
<1>1. CodecInv /\ [CodecNext]_codec_vars => [A]_codec_vars
  <2> SUFFICES ASSUME CodecInv, NEW off \in 0 .. PREFIX + MaxBody, NEW buf \in PartBytes, SetPart(off, buf)
               PROVE  /\ Len(wire') = Len(wire)
                      /\ \A i \in DOMAIN wire : i > PREFIX + effective_len(wire) => wire'[i] = wire[i]
    OBVIOUS
  <2> DEFINE k == Len(buf)
             e == effective_len(wire)
             n == Len(wire)
  <2>1. off \in Nat /\ buf \in Seq(Byte) /\ wire \in Seq(Byte) /\ k \in Nat /\ n \in Nat
    BY BytesAssumption, WordAssumption DEF PREFIX, CodecInv
  <2>2. wire' = patch(wire, off, buf) /\ headlenpow_from_wire(wire).ok /\ off + k <= PREFIX + e
    BY DEF SetPart, part_fits
  <2>3. e \in Nat
    BY <2>1, <2>2, ParseShape
  <2>4. /\ Len(wire') = n
        /\ \A i \in 1 .. n : i <= off \/ i > off + k => wire'[i] = wire[i]
    BY <2>1, <2>2, PatchTyped
  <2> HIDE DEF e
  <2>5. ASSUME NEW i \in DOMAIN wire, i > PREFIX + e PROVE wire'[i] = wire[i]
    <3>1. i \in 1 .. n
      BY <2>1
    <3>2. i > off + k
      <4> HIDE DEF n, k
      <4> QED BY <2>1, <2>2, <2>3, <2>5, <3>1 DEF PREFIX
    <3> QED BY <2>4, <3>1, <3>2
  <2> QED BY <2>4, <2>5 DEF e
<1> QED BY <1>1, CodecInvariant, PTL DEF CodecSpec, PartContained
=============================================================================
