------------------------------ MODULE FsProofs ------------------------------
(***************************************************************************)
(* The files of FsKVSpace (FsLayout) for every set of keys, values and     *)
(* trees, every sequence of operations and a crash at any point: the disk  *)
(* keeps its shape, and a value that is replaced is never seen torn.       *)
(*                                                                         *)
(* Both follow from what the calls of a plan may do.  Sound says which     *)
(* calls are ever planned: directories are made under names of keys only,  *)
(* which are never those of a marker or a temporary file.  Gentle says     *)
(* which calls are planned while a value that exists is being replaced:    *)
(* none of them removes the file of that value or something above it, and  *)
(* what is written to it is whole.  Neither depends on how far a plan has  *)
(* come, so that both survive every step of it.                            *)
(***************************************************************************)
EXTENDS FsLayout, DataTheorems, FiniteSetTheorems, TLAPS

Marks == {SELF_MARKER, DIR_MARKER, TMP}
Path == Seq(Word)

-----------------------------------------------------------------------------
\* Words.

LEMMA SepsDiffer ==
  /\ PATH_SEP \in Letters /\ OBJ_SEP \in Letters /\ PATH_SEP # OBJ_SEP
  /\ Root \in Word /\ Len(Root) = 1 /\ Root[1] = PATH_SEP
<1>1. PATH_SEP \in Letters /\ OBJ_SEP \in Letters
  BY LettersAssumption DEF Separators
<1> QED BY <1>1 DEF PATH_SEP, OBJ_SEP, Root, Word

LEMMA MarksAre ==
  /\ SELF_MARKER \in Word /\ DIR_MARKER \in Word /\ TMP \in Word /\ "~" \in Letters
  /\ SELF_MARKER # TMP /\ DIR_MARKER # TMP
<1> USE DEF ToSet, SELF_MARKER, DIR_MARKER, TMP
<1>1. "__self__" \in ToSet(SELF_MARKER)
  BY SELF_MARKER[1] = "__self__"
<1>2. "__dir__" \in ToSet(DIR_MARKER)
  BY DIR_MARKER[1] = "__dir__"
<1>3. "~" \in ToSet(TMP) /\ "~tmp" \in ToSet(TMP)
  BY TMP[1] = "~", TMP[2] = "~tmp"
<1>4. {"__self__", "__dir__", "~", "~tmp"} \subseteq Letters
  BY <1>1, <1>2, <1>3, LettersAssumption
<1>5. Len(SELF_MARKER) = 1 /\ Len(DIR_MARKER) = 1 /\ Len(TMP) = 2
  OBVIOUS
<1> QED BY <1>4, <1>5 DEF Word

LEMMA ConcatIs ==
  ASSUME NEW a \in Word, NEW b \in Word
  PROVE  /\ a \o b \in Word /\ Len(a \o b) = Len(a) + Len(b)
         /\ \A i \in 1 .. Len(a) : (a \o b)[i] = a[i]
         /\ \A i \in 1 .. Len(b) : (a \o b)[Len(a) + i] = b[i]
BY ConcatProperties DEF Word

LEMMA LenIs ==
  ASSUME NEW a \in Word
  PROVE  Len(a) \in Nat /\ (a = <<>> <=> Len(a) = 0) /\ DOMAIN a = 1 .. Len(a) /\ \A i \in 1 .. Len(a) : a[i] \in Letters
BY DEF Word

LEMMA CutIs ==
  ASSUME NEW w \in Word, NEW n \in 0 .. Len(w)
  PROVE  /\ SubSeq(w, 1, n) \in Word /\ Len(SubSeq(w, 1, n)) = n
         /\ \A i \in 1 .. n : SubSeq(w, 1, n)[i] = w[i]
BY DEF Word

LEMMA DropIs ==
  ASSUME NEW w \in Word, NEW n \in 0 .. Len(w)
  PROVE  /\ drop(w, n) \in Word /\ Len(drop(w, n)) = Len(w) - n
         /\ \A i \in 1 .. Len(w) - n : drop(w, n)[i] = w[n + i]
<1>1. n + 1 \in Nat /\ n + 1 >= 1
  OBVIOUS
<1> QED BY <1>1 DEF drop, Word

LEMMA FrontIs ==
  ASSUME NEW T, NEW w \in Seq(T), w # <<>>
  PROVE  /\ Front(w) \in Seq(T) /\ Len(Front(w)) = Len(w) - 1 /\ Len(w) \in Nat /\ Len(w) >= 1
         /\ \A i \in 1 .. Len(w) - 1 : Front(w)[i] = w[i]
         /\ Last(w) = w[Len(w)] /\ Last(w) \in T
<1>1. Len(w) \in Nat /\ Len(w) >= 1 /\ Len(w) - 1 \in Nat /\ Len(w) - 1 <= Len(w) /\ w[Len(w)] \in T
  OBVIOUS
<1> DEFINE n == Len(w) - 1
<1>2. n \in 0 .. Len(w)
  BY <1>1
<1>3. SubSeq(w, 1, n) \in Seq(T) /\ Len(SubSeq(w, 1, n)) = n /\ \A i \in 1 .. n : SubSeq(w, 1, n)[i] = w[i]
  <2> HIDE DEF n
  <2> QED BY <1>2
<1> QED BY <1>1, <1>3 DEF Front, Last

LEMMA RfindIs ==
  ASSUME NEW k \in Word, NEW c
  PROVE  /\ rfind(k, c) \in 0 .. Len(k)
         /\ rfind(k, c) # 0 => k[rfind(k, c)] = c
         /\ \A j \in 1 .. Len(k) : k[j] = c => j <= rfind(k, c)
<1> DEFINE T == {0} \cup {i \in DOMAIN k : k[i] = c}
<1>1. DOMAIN k = 1 .. Len(k) /\ Len(k) \in Nat
  BY LenIs
<1>2. T \subseteq Nat /\ T # {} /\ \A x \in T : x <= Len(k)
  BY <1>1
<1>3. Max(T) \in T /\ \A y \in T : y <= Max(T)
  <2> HIDE DEF T
  <2> QED BY <1>1, <1>2, MaxIs
<1>4. rfind(k, c) = Max(T)
  BY DEF rfind
<1> QED BY <1>1, <1>3, <1>4

-----------------------------------------------------------------------------
\* Names and node_path.

\* No name of a key becomes the name of a marker or a temporary file.
LEMMA Escaped ==
  ASSUME NEW name \in Word
  PROVE  escape(name) \in Word /\ escape(name) \notin Marks
<1>1. CASE name \in {SELF_MARKER, DIR_MARKER} \/ name[1] = "~"
  <2> DEFINE t == <<"~">>
             w == t \o name
  <2>1. t \in Word /\ Len(t) = 1 /\ t[1] = "~"
    BY MarksAre DEF Word
  <2> HIDE DEF t
  <2>2. w \in Word /\ Len(w) = 1 + Len(name) /\ w[1] = "~" /\ (Len(name) >= 1 => w[2] = name[1]) /\ Len(name) \in Nat
    <3>1. /\ w \in Word /\ Len(w) = Len(t) + Len(name) /\ Len(name) \in Nat
          /\ \A i \in 1 .. Len(t) : w[i] = t[i]
          /\ \A i \in 1 .. Len(name) : w[Len(t) + i] = name[i]
      BY <2>1, ConcatIs, LenIs
    <3> HIDE DEF w
    <3>2. w[1] = "~" /\ (Len(name) >= 1 => w[1 + 1] = name[1])
      BY <2>1, <3>1
    <3> QED BY <2>1, <3>1, <3>2
  <2> HIDE DEF w
  <2>3. w # SELF_MARKER /\ w # DIR_MARKER
    BY <2>2 DEF SELF_MARKER, DIR_MARKER
  <2>4. w # TMP
    <3>1. CASE Len(name) = 0
      BY <2>2, <3>1 DEF TMP
    <3>2. CASE Len(name) # 0
      <4>1. name[1] # "~tmp"
        BY <1>1 DEF SELF_MARKER, DIR_MARKER
      <4> QED BY <2>2, <3>2, <4>1 DEF TMP
    <3> QED BY <3>1, <3>2
  <2> QED BY <1>1, <2>2, <2>3, <2>4 DEF escape, w, t, Marks
<1>2. CASE ~ (name \in {SELF_MARKER, DIR_MARKER} \/ name[1] = "~")
  <2>1. escape(name) = name /\ name # TMP
    BY <1>2 DEF escape, TMP
  <2> QED BY <1>2, <2>1 DEF Marks
<1> QED BY <1>1, <1>2

\* One letter of a key, added to the names before it.
Add(u, key, i) ==
  IF key[i] = PATH_SEP THEN u
  ELSE IF begins(key, i) THEN Append(u, <<key[i]>>)
  ELSE [u EXCEPT ![Len(u)] = Append(@, key[i])]

\* f is the names after each letter.
Names(f, key) ==
  /\ f \in [0 .. Len(key) -> Path] /\ f[0] = <<>>
  /\ \A i \in 1 .. Len(key) : f[i] = Add(f[i - 1], key, i)
  /\ node_path(key) = [n \in DOMAIN f[Len(key)] |-> escape(f[Len(key)][n])]

LEMMA AddIs ==
  ASSUME NEW u \in Path, NEW key \in Word, NEW i \in 1 .. Len(key)
  PROVE  /\ Add(u, key, i) \in Path
         /\ Len(Add(u, key, i)) = IF key[i] # PATH_SEP /\ begins(key, i) THEN Len(u) + 1 ELSE Len(u)
<1>1. key[i] \in Letters /\ Len(u) \in Nat
  BY LenIs DEF Path
<1>2. CASE key[i] = PATH_SEP
  BY <1>2 DEF Add
<1>3. CASE key[i] # PATH_SEP /\ begins(key, i)
  <2>1. <<key[i]>> \in Word
    BY <1>1 DEF Word
  <2>2. Add(u, key, i) = Append(u, <<key[i]>>)
    BY <1>3 DEF Add
  <2> QED BY <1>3, <2>1, <2>2 DEF Path
<1>4. CASE key[i] # PATH_SEP /\ ~ begins(key, i)
  <2> DEFINE v == [u EXCEPT ![Len(u)] = Append(@, key[i])]
  <2>1. Add(u, key, i) = v
    BY <1>4 DEF Add
  <2>2. CASE Len(u) = 0
    <3>1. u = <<>>
      BY <2>2 DEF Path
    <3>2. v = u
      BY <3>1
    <3> QED BY <1>4, <2>1, <3>2
  <2>3. CASE Len(u) # 0
    <3>1. u[Len(u)] \in Word
      BY <1>1, <2>3 DEF Path
    <3>2. Append(u[Len(u)], key[i]) \in Word
      BY <1>1, <3>1 DEF Word
    <3>3. v \in Path /\ Len(v) = Len(u)
      <4> DEFINE x == Append(u[Len(u)], key[i])
                 m == Len(u)
      <4>1. v = [u EXCEPT ![m] = x] /\ x \in Word /\ m \in 1 .. Len(u)
        BY <1>1, <2>3, <3>2
      <4> HIDE DEF x, v, m
      <4> QED BY <4>1 DEF Path
    <3> QED BY <1>4, <2>1, <3>3
  <2> QED BY <2>2, <2>3
<1> QED BY <1>2, <1>3, <1>4

LEMMA NamesExist ==
  ASSUME NEW key \in Word
  PROVE  \E f : Names(f, key)
<1> DEFINE m == Len(key)
           c == <<>>
           step == [i \in 1 .. m |-> [u \in Path |-> Add(u, key, i)]]
           Body(g) == [i \in 0 .. Len(key) |->
                         IF i = 0 THEN <<>>
                         ELSE IF key[i] = PATH_SEP THEN g[i - 1]
                         ELSE IF begins(key, i) THEN Append(g[i - 1], <<key[i]>>)
                         ELSE [g[i - 1] EXCEPT ![Len(g[i - 1])] = Append(@, key[i])]]
           h == CHOOSE g : g = Body(g)
<1>1. m \in Nat /\ c \in Path
  BY LenIs DEF Path
<1>2. step \in [1 .. m -> [Path -> Path]]
  BY AddIs
<1>3. \E f : Follows(f, m, Path, c, step)
  <2> HIDE DEF step, m, c
  <2> QED BY <1>1, <1>2, Recursion
<1>4. PICK f \in [0 .. m -> Path] : f[0] = c /\ \A i \in 1 .. m : f[i] = step[i][f[i - 1]]
  BY <1>3 DEF Follows
<1>5. ASSUME NEW i \in 1 .. m PROVE f[i] = Add(f[i - 1], key, i)
  <2>1. i - 1 \in 0 .. m
    BY <1>1
  <2>2. f[i - 1] \in Path
    BY <2>1
  <2> QED BY <1>4, <2>2
<1>6. \A g : Body(g) = [i \in 0 .. Len(key) |-> IF i = 0 THEN <<>> ELSE Add(g[i - 1], key, i)]
  BY Zenon DEF Add
<1> HIDE DEF Body
<1>7. f = Body(f)
  <2>1. ASSUME NEW i \in 0 .. m PROVE f[i] = Body(f)[i]
    <3>1. CASE i = 0
      BY <1>4, <1>6, <3>1
    <3>2. CASE i # 0
      <4>1. i \in 1 .. m
        BY <1>1, <3>2
      <4> QED BY <1>5, <1>6, <3>2, <4>1
    <3> QED BY <3>1, <3>2
  <2> QED BY <1>6, <2>1
<1>8. node_path(key) = [n \in DOMAIN h[Len(key)] |-> escape(h[Len(key)][n])]
  BY Zenon DEF node_path, Body
<1>9. h = Body(h)
  BY <1>7
<1>10. \A i \in 0 .. m : h[i] = IF i = 0 THEN <<>> ELSE Add(h[i - 1], key, i)
  <2> HIDE DEF h
  <2> QED BY <1>6, <1>9
<1> HIDE DEF h
<1> DEFINE S == {k \in Nat : k <= m => f[k] = h[k]}
<1>11. 0 \in S
  BY <1>1, <1>4, <1>10
<1>12. ASSUME NEW k \in Nat, k \in S PROVE k + 1 \in S
  <2> SUFFICES ASSUME k + 1 <= m PROVE f[k + 1] = h[k + 1]
    OBVIOUS
  <2>1. k + 1 \in 1 .. m /\ k + 1 \in 0 .. m /\ k + 1 # 0 /\ (k + 1) - 1 = k /\ f[k] = h[k]
    BY <1>1, <1>12
  <2>2. f[k + 1] = Add(f[k], key, k + 1)
    BY <1>5, <2>1
  <2>3. h[k + 1] = Add(h[k], key, k + 1)
    BY <1>10, <2>1
  <2> QED BY <2>1, <2>2, <2>3
<1>13. Nat \subseteq S
  <2> HIDE DEF S
  <2> QED BY <1>11, <1>12, SetInduction
<1>14. f[m] = h[m]
  <2>1. m \in S
    BY <1>1, <1>13
  <2> QED BY <1>1, <2>1
<1> QED BY <1>4, <1>5, <1>8, <1>14 DEF Names

\* Plain paths hold no marker: those of keys, and of everything that lies in them.
Plain(p) == p \in Path /\ \A i \in 1 .. Len(p) : p[i] \notin Marks

LEMMA NodePath ==
  ASSUME NEW key \in Word
  PROVE  Plain(node_path(key)) /\ \A f : Names(f, key) => Len(node_path(key)) = Len(f[Len(key)])
<1>1. ASSUME NEW f, Names(f, key) PROVE Plain(node_path(key)) /\ Len(node_path(key)) = Len(f[Len(key)])
  <2> DEFINE u == f[Len(key)]
             p == node_path(key)
  <2>1. u \in Path
    BY <1>1, LenIs DEF Names
  <2>2. p = [n \in DOMAIN u |-> escape(u[n])]
    BY <1>1 DEF Names
  <2> HIDE DEF u, p
  <2>3. DOMAIN u = 1 .. Len(u) /\ Len(u) \in Nat /\ \A n \in 1 .. Len(u) : u[n] \in Word
    BY <2>1 DEF Path
  <2>4. \A n \in 1 .. Len(u) : escape(u[n]) \in Word /\ escape(u[n]) \notin Marks
    BY <2>3, Escaped
  <2>5. p \in [1 .. Len(u) -> Word] /\ \A n \in 1 .. Len(u) : p[n] \notin Marks
    BY <2>2, <2>3, <2>4
  <2>6. p \in Seq(Word) /\ Len(p) = Len(u)
    BY <2>3, <2>5
  <2>7. Plain(p)
    BY <2>5, <2>6 DEF Plain, Path
  <2> QED BY <2>6, <2>7 DEF u, p
<1> QED BY <1>1, NamesExist

\* A key has more names than one of its beginnings when another name begins behind it.
LEMMA Longer ==
  ASSUME NEW key \in Word, NEW s \in Word, Len(s) < Len(key), \A i \in 1 .. Len(s) : s[i] = key[i],
         key[Len(s) + 1] # PATH_SEP, begins(key, Len(s) + 1)
  PROVE  Len(node_path(s)) < Len(node_path(key))
<1>1. PICK f : Names(f, key)
  BY NamesExist
<1>2. PICK g : Names(g, s)
  BY NamesExist
<1> DEFINE n == Len(s)
           m == Len(key)
<1>3. n \in Nat /\ m \in Nat /\ n < m
  BY LenIs
<1>4. /\ f \in [0 .. m -> Path] /\ f[0] = <<>> /\ \A i \in 1 .. m : f[i] = Add(f[i - 1], key, i)
  BY <1>1 DEF Names
<1>5. /\ g \in [0 .. n -> Path] /\ g[0] = <<>> /\ \A i \in 1 .. n : g[i] = Add(g[i - 1], s, i)
  BY <1>2 DEF Names
<1> HIDE DEF n, m
<1> DEFINE S == {k \in Nat : k <= n => f[k] = g[k]}
<1>6. 0 \in S
  BY <1>4, <1>5
<1>7. ASSUME NEW k \in Nat, k \in S PROVE k + 1 \in S
  <2> SUFFICES ASSUME k + 1 <= n PROVE f[k + 1] = g[k + 1]
    OBVIOUS
  <2>1. k + 1 \in 1 .. m /\ k + 1 \in 1 .. n /\ (k + 1) - 1 = k /\ f[k] = g[k]
    BY <1>3, <1>7
  <2>2. f[k + 1] = Add(f[k], key, k + 1) /\ g[k + 1] = Add(f[k], s, k + 1)
    BY <1>4, <1>5, <2>1
  <2>3. key[k + 1] = s[k + 1] /\ (begins(key, k + 1) <=> begins(s, k + 1))
    <3>1. key[k + 1] = s[k + 1]
      BY <2>1 DEF n
    <3>2. k + 1 # 1 => key[(k + 1) - 1] = s[(k + 1) - 1]
      <4>1. k + 1 # 1 => (k + 1) - 1 \in 1 .. n
        BY <1>3, <2>1
      <4> QED BY <4>1 DEF n
    <3>3. k + 1 > 2 => key[(k + 1) - 2] = s[(k + 1) - 2]
      <4>1. k + 1 > 2 => (k + 1) - 2 \in 1 .. n
        BY <1>3, <2>1
      <4> QED BY <4>1 DEF n
    <3> QED BY <3>1, <3>2, <3>3 DEF begins
  <2> QED BY <2>2, <2>3 DEF Add
<1>8. Nat \subseteq S
  <2> HIDE DEF S
  <2> QED BY <1>6, <1>7, SetInduction
<1>9. f[n] = g[n]
  BY <1>3, <1>8
<1>10. Len(f[n + 1]) = Len(f[n]) + 1
  <2>1. n + 1 \in 1 .. m /\ (n + 1) - 1 = n /\ f[n] \in Path
    BY <1>3, <1>4
  <2>2. f[n + 1] = Add(f[n], key, n + 1)
    BY <1>4, <2>1
  <2>3. n + 1 \in 1 .. Len(key)
    BY <2>1 DEF m
  <2> QED BY <2>1, <2>2, <2>3, AddIs DEF n
<1> DEFINE R == {k \in Nat : n + 1 + k <= m => Len(f[n + 1]) <= Len(f[n + 1 + k])}
<1>11. 0 \in R
  <2>1. n + 1 + 0 = n + 1 /\ n + 1 \in 0 .. m
    BY <1>3
  <2>2. Len(f[n + 1]) \in Nat
    BY <1>4, <2>1 DEF Path
  <2> QED BY <2>1, <2>2
<1>12. ASSUME NEW k \in Nat, k \in R PROVE k + 1 \in R
  <2> SUFFICES ASSUME n + 1 + (k + 1) <= m PROVE Len(f[n + 1]) <= Len(f[n + 1 + (k + 1)])
    OBVIOUS
  <2> DEFINE j == n + 1 + k
  <2>1. j + 1 \in 1 .. m /\ (j + 1) - 1 = j /\ j \in 0 .. m /\ n + 1 + (k + 1) = j + 1 /\ Len(f[n + 1]) <= Len(f[j]) /\ n + 1 \in 0 .. m
    BY <1>3, <1>12
  <2> HIDE DEF j
  <2>2. f[j] \in Path /\ f[j + 1] = Add(f[j], key, j + 1) /\ f[n + 1] \in Path
    BY <1>4, <2>1
  <2>3. Len(f[j]) \in Nat /\ Len(f[n + 1]) \in Nat /\ Len(f[j + 1]) >= Len(f[j]) /\ Len(f[j + 1]) \in Nat
    <3>1. j + 1 \in 1 .. Len(key)
      BY <2>1 DEF m
    <3>2. Len(f[j]) \in Nat /\ Len(f[n + 1]) \in Nat
      BY <2>2 DEF Path
    <3>3. \/ Len(f[j + 1]) = Len(f[j]) + 1
          \/ Len(f[j + 1]) = Len(f[j])
      BY <2>2, <3>1, AddIs
    <3> QED BY <3>2, <3>3
  <2>4. Len(f[n + 1]) <= Len(f[j]) /\ n + 1 + (k + 1) = j + 1
    BY <2>1
  <2>5. Len(f[n + 1]) <= Len(f[j + 1])
    <3>1. \A a, b, c \in Nat : a <= b /\ c >= b => a <= c
      OBVIOUS
    <3> QED BY <2>3, <2>4, <3>1, Zenon
  <2> QED BY <2>4, <2>5, Zenon
<1>13. Nat \subseteq R
  <2> HIDE DEF R
  <2> QED BY <1>11, <1>12, SetInduction
<1>14. Len(f[n + 1]) <= Len(f[m])
  <2> DEFINE k == m - (n + 1)
  <2>1. k \in Nat /\ n + 1 + k = m /\ m <= m
    BY <1>3
  <2> HIDE DEF k
  <2>2. n + 1 + k <= m => Len(f[n + 1]) <= Len(f[n + 1 + k])
    BY <1>13, <2>1
  <2> HIDE DEF R
  <2> QED BY <2>1, <2>2
<1>15. Len(f[n]) \in Nat /\ Len(f[n + 1]) \in Nat /\ Len(f[m]) \in Nat
  <2>1. n \in 0 .. m /\ n + 1 \in 0 .. m /\ m \in 0 .. m
    BY <1>3
  <2>2. f[n] \in Path /\ f[n + 1] \in Path /\ f[m] \in Path
    BY <1>4, <2>1
  <2> QED BY <2>2 DEF Path
<1>16. Len(node_path(s)) = Len(g[n]) /\ Len(node_path(key)) = Len(f[m])
  BY <1>1, <1>2, NodePath DEF n, m
<1> QED BY <1>9, <1>10, <1>14, <1>15, <1>16

\* A '/' in front of a key that has none makes no difference.
LEMMA Shifted ==
  ASSUME NEW w \in Word, w # <<>> => w[1] # PATH_SEP
  PROVE  Len(node_path(Root \o w)) = Len(node_path(w))
<1> DEFINE key == Root \o w
           n == Len(w)
<1>1. /\ key \in Word /\ Len(key) = n + 1 /\ n \in Nat /\ key[1] = PATH_SEP /\ (n = 0 => w = <<>>)
      /\ \A i \in 1 .. n : key[1 + i] = w[i]
  <2> DEFINE r == Root
  <2>1. r \in Word /\ Len(r) = 1 /\ r[1] = PATH_SEP /\ n \in Nat /\ (n = 0 => w = <<>>)
    BY SepsDiffer, LenIs
  <2> HIDE DEF r
  <2>2. /\ r \o w \in Word /\ Len(r \o w) = Len(r) + n
        /\ \A i \in 1 .. Len(r) : (r \o w)[i] = r[i]
        /\ \A i \in 1 .. n : (r \o w)[Len(r) + i] = w[i]
    BY <2>1, ConcatIs
  <2>3. key = r \o w
    BY DEF r
  <2> HIDE DEF key, n
  <2> QED BY <2>1, <2>2, <2>3
<1> HIDE DEF key
<1>2. PICK f : Names(f, key)
  BY <1>1, NamesExist
<1>3. PICK g : Names(g, w)
  BY NamesExist
<1>4. /\ f \in [0 .. n + 1 -> Path] /\ f[0] = <<>> /\ \A i \in 1 .. n + 1 : f[i] = Add(f[i - 1], key, i)
  BY <1>1, <1>2 DEF Names
<1>5. /\ g \in [0 .. n -> Path] /\ g[0] = <<>> /\ \A i \in 1 .. n : g[i] = Add(g[i - 1], w, i)
  BY <1>3 DEF Names
<1> DEFINE S == {k \in Nat : k <= n => f[k + 1] = g[k]}
<1>6. 0 \in S
  <2>1. 1 \in 1 .. n + 1 /\ 1 - 1 = 0
    BY <1>1
  <2>2. f[1] = Add(<<>>, key, 1)
    BY <1>4, <2>1
  <2>3. f[0 + 1] = g[0]
    BY <1>1, <1>5, <2>2 DEF Add
  <2> QED BY <2>3
<1>7. ASSUME NEW k \in Nat, k \in S PROVE k + 1 \in S
  <2> SUFFICES ASSUME k + 1 <= n PROVE f[(k + 1) + 1] = g[k + 1]
    OBVIOUS
  <2> DEFINE i == k + 1
  <2>1. /\ i \in 1 .. n /\ i + 1 \in 1 .. n + 1 /\ (i + 1) - 1 = i /\ i - 1 = k /\ f[i] = g[k] /\ 1 \in 1 .. n
        /\ i # 1 => i - 1 \in 1 .. n
        /\ i > 2 => i - 2 \in 1 .. n
        /\ 1 + i = i + 1 /\ 1 + (i - 1) = i /\ 1 + (i - 2) = i - 1 /\ (i + 1) - 2 = i - 1
    BY <1>1, <1>7
  <2>2. f[i + 1] = Add(f[i], key, i + 1) /\ g[i] = Add(f[i], w, i)
    BY <1>4, <1>5, <2>1
  <2>3. key[i + 1] = w[i] /\ (i # 1 => key[i] = w[i - 1]) /\ (i > 2 => key[i - 1] = w[i - 2]) /\ w[1] # PATH_SEP
    <3>1. w # <<>>
      BY <1>1, <2>1, LenIs
    <3> HIDE DEF i
    <3> QED BY <1>1, <2>1, <3>1
  <2>4. begins(key, i + 1) <=> begins(w, i)
    <3> HIDE DEF i
    <3>1. i \in Nat /\ (i + 1) # 1
      BY <2>1
    <3>2. CASE i = 1
      BY <1>1, <2>1, <3>2 DEF begins
    <3>3. CASE i = 2
      <4>1. key[2] = w[1] /\ key[1] = PATH_SEP /\ 3 - 1 = 2 /\ 3 - 2 = 1 /\ 2 - 1 = 1
        BY <1>1, <2>3, <3>3
      <4>2. begins(key, 3) <=> w[1] = PATH_SEP
        BY <4>1 DEF begins
      <4>3. begins(w, 2) <=> w[1] = PATH_SEP
        BY <4>1 DEF begins
      <4> QED BY <3>3, <4>2, <4>3
    <3>4. CASE i # 1 /\ i # 2
      <4>1. i > 2 /\ i + 1 > 2
        BY <3>1, <2>1, <3>4
      <4>2. begins(key, i + 1) <=> key[i] = PATH_SEP \/ (key[i] = OBJ_SEP /\ key[i - 1] # PATH_SEP)
        BY <2>1, <3>1, <4>1 DEF begins
      <4>3. begins(w, i) <=> w[i - 1] = PATH_SEP \/ (w[i - 1] = OBJ_SEP /\ w[i - 2] # PATH_SEP)
        BY <3>4, <4>1 DEF begins
      <4> QED BY <2>3, <3>4, <4>1, <4>2, <4>3
    <3> QED BY <3>2, <3>3, <3>4
  <2> QED BY <2>2, <2>3, <2>4 DEF Add
<1>8. Nat \subseteq S
  <2> HIDE DEF S
  <2> QED BY <1>6, <1>7, SetInduction
<1>9. f[n + 1] = g[n]
  BY <1>1, <1>8
<1>10. Len(node_path(key)) = Len(f[n + 1]) /\ Len(node_path(w)) = Len(g[n])
  BY <1>1, <1>2, <1>3, NodePath
<1> QED BY <1>9, <1>10 DEF key

-----------------------------------------------------------------------------
\* The parts of a key.

\* What is before and behind the last '/' of a key.
LEMMA SepIs ==
  ASSUME NEW k \in Word
  PROVE  /\ sep_path(k).prefix \in Word /\ sep_path(k).last \in Word
         /\ sep_path(k).last = drop(k, rfind(k, PATH_SEP))
         /\ rfind(k, PATH_SEP) = 0 => sep_path(k).prefix = <<>>
         /\ rfind(k, PATH_SEP) = 1 => sep_path(k).prefix = Root
         /\ rfind(k, PATH_SEP) > 1 => sep_path(k).prefix = SubSeq(k, 1, rfind(k, PATH_SEP) - 1)
<1> DEFINE i == rfind(k, PATH_SEP)
<1>1. i \in 0 .. Len(k) /\ (\A j \in 1 .. Len(k) : k[j] = PATH_SEP => j <= i) /\ Len(k) \in Nat
  BY RfindIs, LenIs
<1>2. drop(k, i) \in Word /\ <<>> \in Word
  BY <1>1, DropIs DEF Word
<1>3. CASE k = Root
  <2>1. i = 1
    BY <1>1, <1>3, SepsDiffer
  <2>2. drop(k, 1) = <<>>
    <3>1. 1 \in 0 .. Len(k) /\ Len(k) - 1 = 0
      BY <1>3, SepsDiffer
    <3>2. drop(k, 1) \in Word /\ Len(drop(k, 1)) = 0
      BY <3>1, DropIs
    <3> QED BY <3>2, LenIs
  <2>3. sep_path(k) = [prefix |-> Root, last |-> <<>>]
    <3> DEFINE r == rfind(Root, PATH_SEP)
    <3>1. r = 1
      BY <1>3, <2>1
    <3> HIDE DEF r
    <3>2. sep_path(Root) = [prefix |-> Root, last |-> <<>>]
      BY <3>1 DEF sep_path, r
    <3> QED BY <1>3, <3>2
  <2> HIDE DEF i
  <2> QED BY <1>2, <2>1, <2>2, <2>3, SepsDiffer DEF i
<1>4. CASE k # Root /\ i = 0
  <2>1. sep_path(k) = [prefix |-> <<>>, last |-> k]
    BY <1>4 DEF sep_path
  <2>2. drop(k, 0) = k
    BY DEF drop, Word
  <2> DEFINE q == sep_path(k)
  <2>3. q.prefix = <<>> /\ q.last = drop(k, i)
    <3> HIDE DEF i
    <3> QED BY <1>4, <2>1, <2>2
  <2> HIDE DEF q
  <2>4. ~ (i > 1) /\ i # 1
    BY <1>4
  <2> QED BY <1>2, <2>3, <2>4 DEF q
<1>5. CASE k # Root /\ i = 1
  <2>1. sep_path(k) = [prefix |-> Root, last |-> Tail(k)]
    BY <1>5 DEF sep_path
  <2>2. drop(k, 1) = Tail(k)
    BY <1>1, <1>5 DEF drop, Word
  <2> DEFINE q == sep_path(k)
  <2>3. q.prefix = Root /\ q.last = drop(k, i)
    <3> HIDE DEF i
    <3> QED BY <1>5, <2>1, <2>2
  <2> HIDE DEF q
  <2>4. ~ (i > 1) /\ i # 0
    BY <1>5
  <2> HIDE DEF i
  <2>5. q.prefix \in Word /\ q.last \in Word
    BY <1>2, <2>3, SepsDiffer
  <2> QED BY <2>3, <2>4, <2>5, Zenon DEF q, i
<1>6. CASE k # Root /\ i # 0 /\ i # 1
  <2>1. sep_path(k) = [prefix |-> SubSeq(k, 1, i - 1), last |-> drop(k, i)]
    BY <1>6 DEF sep_path
  <2>2. i - 1 \in 0 .. Len(k)
    BY <1>1, <1>6
  <2>3. SubSeq(k, 1, i - 1) \in Word
    BY <2>2, CutIs
  <2> DEFINE q == sep_path(k)
  <2> HIDE DEF i
  <2>4. q.prefix = SubSeq(k, 1, i - 1) /\ q.last = drop(k, i)
    <3> DEFINE a == SubSeq(k, 1, i - 1)
               b == drop(k, i)
    <3>1. q = [prefix |-> a, last |-> b]
      BY <2>1
    <3> HIDE DEF a, b, q
    <3>2. q.prefix = a /\ q.last = b
      BY <3>1
    <3> QED BY <3>2 DEF a, b
  <2>5. q.prefix \in Word /\ q.last \in Word
    BY <1>2, <2>3, <2>4
  <2> HIDE DEF q
  <2> QED BY <1>6, <2>4, <2>5, Zenon DEF q, i
<1> QED BY <1>3, <1>4, <1>5, <1>6

LEMMA ParentType ==
  ASSUME NEW k \in Word
  PROVE  parent_dir(k) \in Word /\ parent_name(k) \in Word
<1>1. sep_path(k).prefix \in Word
  BY SepIs
<1> DEFINE p == sep_path(k).prefix
<1>2. p \o Root \in Word
  BY <1>1, ConcatIs, SepsDiffer
<1> QED BY <1>1, <1>2, SepsDiffer DEF parent_dir, parent_name

LEMMA SplitType ==
  ASSUME NEW k \in Word
  PROVE  split_index(k) \in Word
<1> DEFINE l == sep_path(k).last
           dot == rfind(l, OBJ_SEP)
           p == parent_dir(k)
<1>1. l \in Word /\ p \in Word
  BY SepIs, ParentType
<1> HIDE DEF l, p
<1>2. dot \in 0 .. Len(l)
  BY <1>1, RfindIs
<1> HIDE DEF dot
<1>3. SubSeq(l, 1, dot) \in Word
  BY <1>1, <1>2, CutIs
<1>4. p \o SubSeq(l, 1, dot) \in Word
  BY <1>1, <1>3, ConcatIs
<1>5. split_index(k) = IF dot > 1 /\ dot < Len(l) THEN p \o SubSeq(l, 1, dot) ELSE p
  BY DEF split_index, index_dir, l, p, dot
<1> QED BY <1>1, <1>4, <1>5

LEMMA StripType ==
  ASSUME NEW k \in Word
  PROVE  strip_dir_suf(k) \in Word /\ subtree_base(k) \in Word
<1>1. strip_dir_suf(k) \in Word
  <2>1. is_dir(k) => k # <<>>
    BY DEF is_dir, ends_with
  <2>2. is_dir(k) => Front(k) \in Word
    BY <2>1, FrontIs DEF Word
  <2> QED BY <2>2 DEF strip_dir_suf
<1>2. <<>> \in Word
  BY DEF Word
<1> QED BY <1>1, <1>2 DEF subtree_base

LEMMA JoinType ==
  ASSUME NEW p \in Word, NEW c \in Word
  PROVE  join_path(p, c) \in Word
<1>1. p \o c \in Word /\ p \o Root \in Word
  BY ConcatIs, SepsDiffer
<1>2. p \o Root \o c \in Word
  BY <1>1, ConcatIs
<1> QED BY <1>1, <1>2 DEF join_path

\* The directory that indexes a value lies above the value.
LEMMA SplitShorter ==
  ASSUME NEW k \in Word, k # <<>>, ~ is_dir(k), ~ contains(k, <<PATH_SEP, PATH_SEP>>)
  PROVE  Len(node_path(split_index(k))) < Len(node_path(k))
<1> DEFINE i == rfind(k, PATH_SEP)
           l == sep_path(k).last
           dot == rfind(l, OBJ_SEP)
           p == parent_dir(k)
           e == IF dot > 1 /\ dot < Len(l) THEN dot ELSE 0
           w == SubSeq(k, 1, i + e)
<1>1. /\ i \in 0 .. Len(k) /\ Len(k) \in Nat /\ Len(k) >= 1
      /\ i # 0 => k[i] = PATH_SEP
      /\ \A j \in 1 .. Len(k) : k[j] = PATH_SEP => j <= i
  BY RfindIs, LenIs
<1>2. k[Len(k)] # PATH_SEP /\ i < Len(k)
  <2>1. k[Len(k)] # PATH_SEP
    BY DEF is_dir, ends_with, Last
  <2>2. i # Len(k)
    BY <1>1, <2>1
  <2> HIDE DEF i
  <2> QED BY <1>1, <2>1, <2>2
<1>3. l = drop(k, i) /\ l \in Word /\ Len(l) = Len(k) - i /\ \A j \in 1 .. Len(k) - i : l[j] = k[i + j]
  <2>1. l = drop(k, i)
    BY SepIs
  <2> QED BY <1>1, <2>1, DropIs
<1> HIDE DEF l
<1>4. dot \in 0 .. Len(l) /\ (dot # 0 => l[dot] = OBJ_SEP)
  BY <1>3, RfindIs
<1>5. p = IF i = 0 THEN Root ELSE SubSeq(k, 1, i)
  <2>1. CASE i = 0
    <3>1. sep_path(k).prefix = <<>>
      BY <2>1, SepIs
    <3> DEFINE r == Root
    <3>2. r \in Word /\ Len(r) = 1
      BY SepsDiffer
    <3>3. parent_dir(k) = IF <<>> = r THEN <<>> ELSE <<>> \o r
      BY <3>1 DEF parent_dir
    <3> HIDE DEF r
    <3>4. <<>> # r /\ <<>> \o r = r
      <4>1. <<>> \o r = r
        BY <3>2, ConcatEmptySeq DEF Word
      <4>2. r # <<>>
        <5>1. Len(r) # 0
          BY <3>2
        <5> QED BY <3>2, <5>1, LenIs, Zenon
      <4> QED BY <4>1, <4>2
    <3> QED BY <2>1, <3>3, <3>4 DEF r
  <2>2. CASE i = 1
    <3>1. sep_path(k).prefix = Root
      BY <2>2, SepIs
    <3> DEFINE t == SubSeq(k, 1, 1)
    <3>2. t \in Word /\ Len(t) = 1 /\ t[1] = PATH_SEP
      BY <1>1, <2>2, CutIs
    <3> HIDE DEF t
    <3>3. t = Root
      BY <3>2, SepsDiffer DEF Word
    <3> QED BY <2>2, <3>1, <3>3 DEF parent_dir, t
  <2>3. CASE i # 0 /\ i # 1
    <3> DEFINE n == i - 1
               t == SubSeq(k, 1, n)
    <3>1. n \in 0 .. Len(k) /\ n + 1 = i /\ n >= 1 /\ n \in Nat /\ i > 1
      BY <1>1, <2>3
    <3>2. sep_path(k).prefix = t
      BY <3>1, SepIs
    <3>3. t \in Word /\ Len(t) = n /\ \A j \in 1 .. n : t[j] = k[j]
      <4> HIDE DEF n
      <4> QED BY <3>1, CutIs
    <3>4. t # Root
      <4> SUFFICES ASSUME t = Root PROVE FALSE
        OBVIOUS
      <4>1. n = 1 /\ k[1] = PATH_SEP /\ k[2] = PATH_SEP /\ Len(k) >= 2
        <5>1. Len(t) = 1 /\ t[1] = PATH_SEP
          BY SepsDiffer
        <5>2. n = 1
          <6> HIDE DEF t, n
          <6> QED BY <3>3, <5>1
        <5>3. t[1] = k[1]
          BY <3>3, <5>2
        <5> QED BY <1>1, <3>1, <5>1, <5>2, <5>3
      <4> DEFINE v == <<PATH_SEP, PATH_SEP>>
                 d == drop(k, 0)
      <4>2. d = k
        BY DEF drop, Word
      <4>3. IsPrefix(v, k)
        <5>1. Len(v) = 2 /\ SubSeq(v, 1, 2) = v
          <6>1. v \in Word /\ Len(v) = 2
            BY SepsDiffer DEF Word
          <6> HIDE DEF v
          <6> QED BY <6>1 DEF Word
        <5>2. 2 \in 0 .. Len(k)
          BY <1>1, <4>1
        <5>3. SubSeq(k, 1, 2) \in Word /\ Len(SubSeq(k, 1, 2)) = 2 /\ SubSeq(k, 1, 2)[1] = PATH_SEP /\ SubSeq(k, 1, 2)[2] = PATH_SEP
          BY <4>1, <5>2, CutIs
        <5> DEFINE u == SubSeq(k, 1, 2)
        <5> HIDE DEF u
        <5>4. u = v
          <6>1. u \in Word /\ Len(u) = 2 /\ u[1] = PATH_SEP /\ u[2] = PATH_SEP
            BY <5>3 DEF u
          <6>2. v \in Word /\ Len(v) = 2 /\ v[1] = PATH_SEP /\ v[2] = PATH_SEP
            BY SepsDiffer DEF Word
          <6> HIDE DEF v
          <6>3. \A j \in 1 .. 2 : j = 1 \/ j = 2
            OBVIOUS
          <6>4. \A j \in 1 .. Len(u) : u[j] = v[j]
            BY <6>1, <6>2, <6>3
          <6> QED BY <6>1, <6>2, <6>4, SeqEqual DEF Word
        <5> QED BY <4>1, <5>1, <5>4 DEF IsPrefix, u
      <4>4. 0 \in 0 .. Len(k)
        BY <1>1
      <4> QED BY <4>2, <4>3, <4>4 DEF contains, starts_with
    <3>5. p = t \o Root
      BY <3>2, <3>4 DEF parent_dir
    <3> DEFINE u == SubSeq(k, 1, i)
    <3>6. u \in Word /\ Len(u) = i /\ \A j \in 1 .. i : u[j] = k[j]
      BY <1>1, CutIs
    <3> HIDE DEF t, u, i, p, n
    <3>7. p \in Word /\ Len(p) = n + 1 /\ (\A j \in 1 .. n : p[j] = t[j]) /\ p[n + 1] = PATH_SEP
      <4> DEFINE r == Root
      <4>1. r \in Word /\ Len(r) = 1 /\ r[1] = PATH_SEP
        BY SepsDiffer
      <4>2. p = t \o r
        BY <3>5
      <4> HIDE DEF r
      <4>3. /\ p \in Word /\ Len(p) = Len(t) + Len(r)
            /\ \A j \in 1 .. Len(t) : p[j] = t[j]
            /\ \A j \in 1 .. Len(r) : p[Len(t) + j] = r[j]
        BY <3>3, <4>1, <4>2, ConcatIs
      <4> QED BY <3>3, <4>1, <4>3
    <3>8. ASSUME NEW j \in 1 .. i PROVE p[j] = u[j]
      <4>1. CASE j = i
        BY <1>1, <2>3, <3>1, <3>6, <3>7, <4>1
      <4>2. CASE j # i
        <5>1. j \in 1 .. n
          BY <3>1, <4>2
        <5> QED BY <3>3, <3>6, <3>7, <5>1
      <4> QED BY <4>1, <4>2
    <3>9. p = u
      BY <3>1, <3>6, <3>7, <3>8 DEF Word
    <3> QED BY <2>3, <3>9 DEF u
  <2> QED BY <2>1, <2>2, <2>3
<1> HIDE DEF p
<1>6. split_index(k) = IF dot > 1 /\ dot < Len(l) THEN p \o SubSeq(l, 1, dot) ELSE p
  BY DEF split_index, index_dir, l, p, dot
<1> HIDE DEF dot
<1>7. /\ e \in Nat /\ i + e < Len(k) /\ (e # 0 => e = dot /\ e > 1 /\ e < Len(l) /\ l[e] = OBJ_SEP)
      /\ i + e + 1 \in 1 .. Len(k) /\ i + e \in 0 .. Len(k) /\ i \in Nat
  <2> HIDE DEF i
  <2> QED BY <1>1, <1>2, <1>3, <1>4
<1> HIDE DEF i
<1>8. split_index(k) = IF i = 0 THEN Root \o w ELSE w
  <2>1. CASE e = 0
    <3>1. split_index(k) = p
      BY <1>4, <1>6, <2>1
    <3>2. i = 0 => w = <<>>
      BY <2>1 DEF Word
    <3>3. Root \o <<>> = Root
      BY SepsDiffer DEF Word
    <3>4. i # 0 => w = SubSeq(k, 1, i)
      BY <1>7, <2>1
    <3> HIDE DEF w
    <3> QED BY <1>5, <3>1, <3>2, <3>3, <3>4
  <2>2. CASE e # 0
    <3>1. split_index(k) = p \o SubSeq(l, 1, e)
      BY <1>6, <1>7, <2>2
    <3> DEFINE t == SubSeq(l, 1, e)
    <3> HIDE DEF e
    <3>2. t \in Word /\ Len(t) = e /\ \A j \in 1 .. e : t[j] = l[j]
      BY <1>3, <1>7, <2>2, CutIs
    <3>3. w \in Word /\ Len(w) = i + e /\ \A j \in 1 .. i + e : w[j] = k[j]
      BY <1>7, CutIs
    <3> HIDE DEF t, w
    <3>4. \A j \in 1 .. e : t[j] = k[i + j]
      <4> SUFFICES ASSUME NEW j \in 1 .. e PROVE t[j] = k[i + j]
        OBVIOUS
      <4>1. j \in 1 .. Len(l)
        BY <1>3, <1>7, <2>2
      <4> QED BY <1>3, <3>2, <4>1
    <3>5. CASE i = 0
      <4>1. ASSUME NEW j \in 1 .. e PROVE t[j] = w[j]
        <5>1. i + j = j /\ j \in 1 .. i + e
          BY <1>7, <3>5
        <5>2. t[j] = k[i + j]
          BY <3>4
        <5> QED BY <3>3, <5>1, <5>2
      <4>2. t = w
        <5>1. Len(t) = Len(w)
          BY <1>7, <3>2, <3>3, <3>5
        <5> QED BY <3>2, <3>3, <4>1, <5>1 DEF Word
      <4> QED BY <1>5, <3>1, <3>5, <4>2 DEF t
    <3>6. CASE i # 0
      <4> DEFINE u == SubSeq(k, 1, i)
      <4>1. u \in Word /\ Len(u) = i /\ \A j \in 1 .. i : u[j] = k[j]
        BY <1>1, CutIs
      <4>2. split_index(k) = u \o t
        BY <1>5, <3>1, <3>6 DEF t
      <4> HIDE DEF u
      <4> DEFINE v == u \o t
      <4>3. /\ v \in Word /\ Len(v) = i + e
            /\ \A j \in 1 .. i : v[j] = u[j]
            /\ \A j \in 1 .. e : v[i + j] = t[j]
        <5>1. /\ v \in Word /\ Len(v) = Len(u) + Len(t)
              /\ \A j \in 1 .. Len(u) : v[j] = u[j]
              /\ \A j \in 1 .. Len(t) : v[Len(u) + j] = t[j]
          BY <3>2, <4>1, ConcatIs
        <5> HIDE DEF v
        <5> QED BY <3>2, <4>1, <5>1
      <4> HIDE DEF v
      <4>4. ASSUME NEW j \in 1 .. i + e PROVE v[j] = w[j]
        <5>1. CASE j <= i
          <6>1. j \in 1 .. i
            BY <1>7, <5>1
          <6> QED BY <3>3, <4>1, <4>3, <6>1
        <5>2. CASE j > i
          <6>1. PICK m \in 1 .. e : j = i + m
            <7>1. j - i \in 1 .. e /\ j = i + (j - i)
              BY <1>7, <5>2
            <7> QED BY <7>1
          <6> QED BY <3>3, <3>4, <4>3, <6>1
        <5> QED BY <1>7, <5>1, <5>2
      <4>5. v = w
        BY <3>3, <4>3, <4>4 DEF Word
      <4> QED BY <3>6, <4>2, <4>5 DEF v
    <3> QED BY <3>5, <3>6
  <2> QED BY <2>1, <2>2
<1>9. w \in Word /\ Len(w) = i + e /\ \A j \in 1 .. i + e : w[j] = k[j]
  <2> HIDE DEF e
  <2> QED BY <1>7, CutIs
<1>10. k[i + e + 1] # PATH_SEP
  <2>1. ~ (i + e + 1 <= i)
    BY <1>7
  <2> HIDE DEF e
  <2> QED BY <1>1, <1>7, <2>1
<1>11. begins(k, i + e + 1)
  <2>1. CASE e = 0
    <3>1. i + e + 1 = i + 1 /\ (i + 1) - 1 = i
      BY <1>7, <2>1
    <3> HIDE DEF e
    <3> QED BY <1>1, <3>1 DEF begins
  <2>2. CASE e # 0
    <3> HIDE DEF e
    <3> DEFINE m == i + e + 1
    <3>1. m - 1 = i + e /\ m - 2 = i + (e - 1) /\ m > 2 /\ m # 1 /\ e \in 1 .. Len(k) - i /\ e - 1 \in 1 .. Len(k) - i
      BY <1>1, <1>3, <1>7, <2>2
    <3>2. k[m - 1] = OBJ_SEP
      BY <1>3, <1>7, <2>2, <3>1
    <3>3. m - 2 \in 1 .. Len(k) /\ ~ (m - 2 <= i)
      BY <1>1, <1>7, <2>2
    <3>4. k[m - 2] # PATH_SEP
      BY <1>1, <3>3
    <3> QED BY <3>1, <3>2, <3>4 DEF begins
  <2> QED BY <2>1, <2>2
<1> HIDE DEF w, e
<1>12. Len(node_path(w)) < Len(node_path(k))
  BY <1>7, <1>9, <1>10, <1>11, Longer
<1>13. i = 0 => Len(node_path(Root \o w)) = Len(node_path(w))
  <2> SUFFICES ASSUME i = 0, w # <<>> PROVE w[1] # PATH_SEP
    BY <1>9, Shifted
  <2>1. 1 \in 1 .. i + e /\ 1 \in 1 .. Len(k) /\ ~ (1 <= i)
    <3>1. Len(w) # 0 /\ Len(w) \in Nat
      BY <1>9, LenIs
    <3> QED BY <1>1, <1>7, <1>9, <3>1
  <2> QED BY <1>1, <1>9, <2>1
<1> QED BY <1>8, <1>12, <1>13

-----------------------------------------------------------------------------
\* Links lead from words to words.

\* What a file may hold.
Stored == [kind : Kinds \cup {"truncated"}, body : Word]
Typed(s) == \A k \in DOMAIN s : s[k] \in Stored \cup {Absent}

LEMMA LookupType ==
  ASSUME NEW s, Typed(s), NEW k
  PROVE  Lookup(s, k) \in Stored \cup {Absent} /\ Lookup(s, k).body \in Word
<1>1. Lookup(s, k) \in Stored \cup {Absent}
  BY DEF Typed, Lookup
<1>2. Absent.body \in Word
  BY DEF Absent, Word
<1>3. \A v \in Stored : v.body \in Word
  BY DEF Stored
<1> QED BY <1>1, <1>2, <1>3

LEMMA ResolveOneType ==
  ASSUME NEW s, Typed(s), NEW path \in Word
  PROVE  resolve_one(s, path) \in Word
<1> DEFINE clean == IF path = Root THEN path ELSE strip_dir_suf(path)
           i == first_link(s, clean)
           T == {j \in 2 .. Len(clean) : /\ j = Len(clean) \/ clean[j + 1] = PATH_SEP
                                         /\ is_ptr(s, SubSeq(clean, 1, j))}
<1>1. clean \in Word
  BY StripType
<1>2. resolve_one(s, path) = IF i = 0 THEN path ELSE retarget(path, clean, i, s[SubSeq(clean, 1, i)].body)
  BY DEF resolve_one
<1> HIDE DEF clean
<1>3. Len(clean) \in Nat
  BY <1>1, LenIs
<1>4. i = IF T = {} THEN 0 ELSE Min(T)
  BY DEF first_link
<1>5. i = 0 \/ i \in T
  <2> SUFFICES ASSUME T # {} PROVE Min(T) \in T
    BY <1>4
  <2>1. T \subseteq Nat
    BY <1>3
  <2> HIDE DEF T
  <2> QED BY <2>1, MinIs
<1> HIDE DEF i
<1>6. CASE i = 0
  BY <1>2, <1>6
<1>7. CASE i # 0
  <2> DEFINE k == SubSeq(clean, 1, i)
             target == s[k].body
             next == IF i < Len(clean) THEN join_path(target, drop(clean, i + 1)) ELSE target
  <2>1. i \in 2 .. Len(clean) /\ is_ptr(s, k)
    BY <1>5, <1>7
  <2>2. Lookup(s, k) = s[k]
    BY <2>1 DEF is_ptr, Lookup, Absent
  <2> HIDE DEF k
  <2>3. target \in Word
    BY <2>2, LookupType
  <2> HIDE DEF target
  <2>4. next \in Word
    <3>1. CASE i < Len(clean)
      <4>1. i + 1 \in 0 .. Len(clean)
        BY <1>3, <2>1, <3>1
      <4>2. drop(clean, i + 1) \in Word
        BY <1>1, <4>1, DropIs
      <4> QED BY <2>3, <3>1, <4>2, JoinType
    <3>2. CASE ~ (i < Len(clean))
      BY <2>3, <3>2
    <3> QED BY <3>1, <3>2
  <2>5. resolve_one(s, path) = keep_suf(path, next)
    BY <1>2, <1>7 DEF retarget, target, k
  <2> HIDE DEF next
  <2>6. keep_suf(path, next) \in Word
    <3>1. is_dir(path) => Last(path) \in Letters
      <4>1. is_dir(path) => path # <<>>
        BY DEF is_dir, ends_with
      <4> QED BY <4>1, FrontIs DEF Word
    <3>2. is_dir(path) => Append(next, Last(path)) \in Word
      BY <2>4, <3>1 DEF Word
    <3> QED BY <2>4, <3>2 DEF keep_suf
  <2> QED BY <2>5, <2>6
<1> QED BY <1>6, <1>7

LEMMA ResolvePathType ==
  ASSUME NEW s, Typed(s), NEW path \in Word
  PROVE  resolve_path(s, path) \in Word
<1> DEFINE m == HopLimit
           step == [i \in 1 .. m |-> [q \in Word |-> resolve_one(s, q)]]
           Body(g) == [n \in 0 .. HopLimit |-> IF n = 0 THEN path ELSE resolve_one(s, g[n - 1])]
           h == CHOOSE g : g = Body(g)
<1>1. m \in Nat
  BY HopLimitAssumption
<1>2. step \in [1 .. m -> [Word -> Word]]
  BY ResolveOneType
<1>3. \E f : Follows(f, m, Word, path, step)
  <2> HIDE DEF step, m
  <2> QED BY <1>1, <1>2, Recursion
<1>4. PICK f \in [0 .. m -> Word] : f[0] = path /\ \A i \in 1 .. m : f[i] = step[i][f[i - 1]]
  BY <1>3 DEF Follows
<1>5. ASSUME NEW i \in 1 .. m PROVE f[i] = resolve_one(s, f[i - 1])
  <2>1. i - 1 \in 0 .. m
    BY <1>1
  <2>2. f[i - 1] \in Word
    BY <2>1
  <2> QED BY <1>4, <2>2
<1>6. f = Body(f)
  <2>1. ASSUME NEW i \in 0 .. m PROVE f[i] = Body(f)[i]
    <3>1. CASE i = 0
      BY <1>4, <3>1
    <3>2. CASE i # 0
      <4>1. i \in 1 .. m
        BY <1>1, <3>2
      <4> QED BY <1>5, <3>2, <4>1
    <3> QED BY <3>1, <3>2
  <2> QED BY <2>1
<1>7. resolve_path(s, path) = h[HopLimit]
  BY Zenon DEF resolve_path
<1>8. h = Body(h)
  <2> HIDE DEF Body
  <2> QED BY <1>6
<1>9. \A i \in 0 .. m : h[i] = IF i = 0 THEN path ELSE resolve_one(s, h[i - 1])
  <2> HIDE DEF h
  <2> QED BY <1>8
<1> HIDE DEF h
<1> DEFINE S == {k \in Nat : k <= m => h[k] \in Word}
<1>10. 0 \in S
  BY <1>1, <1>9
<1>11. ASSUME NEW k \in Nat, k \in S PROVE k + 1 \in S
  <2> SUFFICES ASSUME k + 1 <= m PROVE h[k + 1] \in Word
    OBVIOUS
  <2>1. k + 1 \in 0 .. m /\ k + 1 # 0 /\ (k + 1) - 1 = k /\ h[k] \in Word
    BY <1>1, <1>11
  <2>2. h[k + 1] = resolve_one(s, h[k])
    BY <1>9, <2>1
  <2> QED BY <2>1, <2>2, ResolveOneType
<1>12. Nat \subseteq S
  <2> HIDE DEF S
  <2> QED BY <1>10, <1>11, SetInduction
<1> QED BY <1>1, <1>7, <1>12

LEMMA ResolveParentType ==
  ASSUME NEW s, Typed(s), NEW path \in Word
  PROVE  resolve_parent(s, path) \in Word
<1> DEFINE suf == IF path # Root /\ is_dir(path) THEN <<Last(path)>> ELSE <<>>
           clean == IF path = Root THEN path ELSE strip_dir_suf(path)
           cut == sep_path(clean)
           to == join_path(resolve_path(s, cut.prefix), cut.last)
<1>1. suf \in Word
  <2>1. is_dir(path) => path # <<>>
    BY DEF is_dir, ends_with
  <2>2. is_dir(path) => Last(path) \in Letters
    BY <2>1, FrontIs DEF Word
  <2> QED BY <2>2 DEF Word
<1>2. clean \in Word
  BY StripType
<1>3. resolve_parent(s, path) = IF cut.prefix = clean THEN path ELSE to \o suf
  BY DEF resolve_parent
<1> HIDE DEF clean, suf
<1>4. cut.prefix \in Word /\ cut.last \in Word
  BY <1>2, SepIs
<1> HIDE DEF cut
<1>5. to \in Word
  BY <1>4, ResolvePathType, JoinType
<1> HIDE DEF to
<1>6. to \o suf \in Word
  BY <1>1, <1>5, ConcatIs
<1> QED BY <1>3, <1>6

LEMMA TreeBaseType ==
  ASSUME NEW s, Typed(s), NEW path \in Word
  PROVE  tree_base(s, path) \in Word
BY ResolvePathType, StripType DEF tree_base

LEMMA LocateType ==
  ASSUME NEW s, Typed(s), NEW k \in Word
  PROVE  locate(s, k) \in Word
<1> DEFINE dir == resolve_path(s, parent_dir(k))
           last == sep_path(k).last
           full == join_path(dir, last)
           ext == prefix_ext(s, dir)
           far == join_path(ext, last)
<1>1. dir \in Word /\ last \in Word
  BY ParentType, SepIs, ResolvePathType
<1>2. full \in Word
  BY <1>1, JoinType
<1>3. ext \in Word
  <2>1. Lookup(s, dir).kind = "ext" => Lookup(s, dir) = s[dir]
    BY DEF Lookup, Absent
  <2>2. <<>> \in Word
    BY DEF Word
  <2> HIDE DEF dir
  <2> QED BY <2>1, <2>2, LookupType DEF prefix_ext
<1>4. far \in Word
  <2> HIDE DEF ext, last
  <2> QED BY <1>1, <1>3, JoinType
<1>5. <<>> \in Word
  BY DEF Word
<1>6. locate(s, k) \in {<<>>, full, far}
  <2>1. locate(s, k) = locate_in(s, k, dir)
    BY DEF locate
  <2> HIDE DEF dir
  <2>2. CASE is_reserved(k) \/ is_reserved(full)
    BY <2>1, <2>2 DEF locate_in
  <2>3. CASE ~ (is_reserved(k) \/ is_reserved(full)) /\ full \in DOMAIN s
    BY <2>1, <2>3 DEF locate_in
  <2>4. CASE ~ (is_reserved(k) \/ is_reserved(full)) /\ full \notin DOMAIN s
    BY <2>1, <2>4 DEF locate_in
  <2> QED BY <2>2, <2>3, <2>4
<1> HIDE DEF full, far
<1> QED BY <1>2, <1>4, <1>5, <1>6

-----------------------------------------------------------------------------
\* The shape of the disk.

LEMMA NotStored == DirNode \notin Stored /\ Truncated \in Stored /\ Absent \notin Stored /\ DirMarker \in Stored
BY DEF DirNode, Stored, Kinds, Truncated, Absent, DirMarker, Word

\* Every node lies in a directory, and no directory is named like a marker.
Shape(d) ==
  /\ IsFiniteSet(DOMAIN d)
  /\ \A p \in DOMAIN d : is_dir_node(d, Front(p)) /\ (d[p] = DirNode => Last(p) \notin Marks)
Trees == UNION {[D -> Stored \cup {DirNode}] : D \in SUBSET (Path \ {<<>>})}
Disks == {d \in Trees : Shape(d)}

LEMMA DiskIs ==
  ASSUME NEW d \in Disks
  PROVE  /\ IsFiniteSet(DOMAIN d)
         /\ \A p \in DOMAIN d : /\ p \in Path /\ p # <<>> /\ d[p] \in Stored \cup {DirNode}
                                /\ is_dir_node(d, Front(p)) /\ (d[p] = DirNode => Last(p) \notin Marks)
<1>1. PICK D \in SUBSET (Path \ {<<>>}) : d \in [D -> Stored \cup {DirNode}]
  BY DEF Disks, Trees
<1> QED BY <1>1 DEF Disks, Shape

LEMMA DiskMade ==
  ASSUME NEW d, NEW D, IsFiniteSet(D), d \in [D -> Stored \cup {DirNode}],
         \A p \in D : /\ p \in Path /\ p # <<>>
                      /\ is_dir_node(d, Front(p)) /\ (d[p] = DirNode => Last(p) \notin Marks)
  PROVE  d \in Disks
<1>1. D \in SUBSET (Path \ {<<>>}) /\ DOMAIN d = D
  OBVIOUS
<1>2. d \in Trees
  BY <1>1 DEF Trees
<1> QED BY <1>1, <1>2 DEF Disks, Shape

LEMMA PutDisk ==
  ASSUME NEW d \in Disks, NEW p \in Path, p # <<>>, is_dir_node(d, Front(p)), ~ is_dir_node(d, p), NEW v \in Stored
  PROVE  Put(d, p, v) \in Disks
<1> DEFINE D == DOMAIN d \cup {p}
           e == Put(d, p, v)
<1>1. e = [x \in D |-> IF x = p THEN v ELSE d[x]]
  BY DEF Put
<1>2. /\ IsFiniteSet(DOMAIN d)
      /\ \A x \in DOMAIN d : /\ x \in Path /\ x # <<>> /\ d[x] \in Stored \cup {DirNode}
                             /\ is_dir_node(d, Front(x)) /\ (d[x] = DirNode => Last(x) \notin Marks)
  BY DiskIs
<1>3. IsFiniteSet(D)
  BY <1>2, FS_AddElement
<1>4. e \in [D -> Stored \cup {DirNode}]
  BY <1>1, <1>2
<1> HIDE DEF e
<1>5. ASSUME NEW x \in D PROVE x \in Path /\ x # <<>> /\ is_dir_node(e, Front(x)) /\ (e[x] = DirNode => Last(x) \notin Marks)
  <2>1. is_dir_node(d, Front(x))
    BY <1>2
  <2>2. Front(x) # p
    BY <2>1
  <2>3. is_dir_node(e, Front(x))
    BY <1>1, <2>1, <2>2 DEF is_dir_node
  <2>4. e[x] = DirNode => Last(x) \notin Marks
    BY <1>1, <1>2, NotStored
  <2> QED BY <1>2, <2>3, <2>4
<1> HIDE DEF D
<1>6. e \in Disks
  BY <1>3, <1>4, <1>5, DiskMade
<1> QED BY <1>6 DEF e

LEMMA DropDisk ==
  ASSUME NEW d \in Disks, NEW ks, \A x \in DOMAIN d \ ks : Front(x) \notin ks
  PROVE  Drop(d, ks) \in Disks
<1> DEFINE D == DOMAIN d \ ks
           e == Drop(d, ks)
<1>1. e = [x \in D |-> d[x]]
  BY DEF Drop
<1>2. /\ IsFiniteSet(DOMAIN d)
      /\ \A x \in DOMAIN d : /\ x \in Path /\ x # <<>> /\ d[x] \in Stored \cup {DirNode}
                             /\ is_dir_node(d, Front(x)) /\ (d[x] = DirNode => Last(x) \notin Marks)
  BY DiskIs
<1>3. IsFiniteSet(D)
  BY <1>2, FS_Difference
<1>4. e \in [D -> Stored \cup {DirNode}]
  BY <1>1, <1>2
<1> HIDE DEF e
<1>5. ASSUME NEW x \in D PROVE x \in Path /\ x # <<>> /\ is_dir_node(e, Front(x)) /\ (e[x] = DirNode => Last(x) \notin Marks)
  <2>1. is_dir_node(d, Front(x)) /\ Front(x) \notin ks
    BY <1>2
  <2>2. is_dir_node(e, Front(x))
    BY <1>1, <2>1 DEF is_dir_node
  <2> QED BY <1>1, <1>2, <2>2
<1> HIDE DEF D
<1>6. e \in Disks
  BY <1>3, <1>4, <1>5, DiskMade
<1> QED BY <1>6 DEF e

\* The beginnings of a path.
LEMMA Begin ==
  ASSUME NEW p \in Path, NEW i \in 1 .. Len(p)
  PROVE  /\ SubSeq(p, 1, i) \in Path /\ Len(SubSeq(p, 1, i)) = i /\ SubSeq(p, 1, i) # <<>>
         /\ Last(SubSeq(p, 1, i)) = p[i]
         /\ i = 1 => Front(SubSeq(p, 1, i)) = <<>>
         /\ i > 1 => Front(SubSeq(p, 1, i)) = SubSeq(p, 1, i - 1)
<1> DEFINE q == SubSeq(p, 1, i)
<1>1. q \in Seq(Word) /\ Len(q) = i /\ \A j \in 1 .. i : q[j] = p[j]
  BY DEF Path
<1>2. i \in Nat /\ i >= 1 /\ Len(p) \in Nat /\ i <= Len(p)
  BY DEF Path
<1>3. i > 1 => /\ i - 1 \in 1 .. Len(p) /\ SubSeq(p, 1, i - 1) \in Seq(Word) /\ Len(SubSeq(p, 1, i - 1)) = i - 1
               /\ \A j \in 1 .. i - 1 : SubSeq(p, 1, i - 1)[j] = p[j]
  BY <1>2 DEF Path
<1> HIDE DEF q
<1>4. q # <<>>
  BY <1>1, <1>2
<1>5. Front(q) \in Seq(Word) /\ Len(Front(q)) = i - 1 /\ (\A j \in 1 .. i - 1 : Front(q)[j] = q[j]) /\ Last(q) = q[i]
  BY <1>1, <1>4, FrontIs
<1>6. Last(q) = p[i]
  BY <1>1, <1>2, <1>5
<1>7. i = 1 => Front(q) = <<>>
  BY <1>5
<1>8. i > 1 => Front(q) = SubSeq(p, 1, i - 1)
  <2> SUFFICES ASSUME i > 1 PROVE Front(q) = SubSeq(p, 1, i - 1)
    OBVIOUS
  <2>1. \A j \in 1 .. i - 1 : Front(q)[j] = SubSeq(p, 1, i - 1)[j]
    BY <1>1, <1>2, <1>3, <1>5
  <2> DEFINE r == SubSeq(p, 1, i - 1)
  <2>2. r \in Seq(Word) /\ Len(r) = Len(Front(q)) /\ \A j \in 1 .. Len(r) : Front(q)[j] = r[j]
    BY <1>3, <1>5, <2>1
  <2> HIDE DEF r
  <2>3. Front(q) = r
    BY <1>5, <2>2, SeqEqual
  <2> QED BY <2>3 DEF r
<1> QED BY <1>1, <1>4, <1>6, <1>7, <1>8 DEF q, Path

LEMMA DirsDisk ==
  ASSUME NEW d \in Disks, NEW p, Plain(p)
  PROVE  mkdirs(d, p) \in Disks
<1> DEFINE up == {SubSeq(p, 1, i) : i \in 1 .. Len(p)}
           D == DOMAIN d \cup up
           e == AddDirs(d, up)
<1> SUFFICES ASSUME ~ \E x \in up : is_file(d, x) PROVE e \in Disks
  BY DEF mkdirs
<1>1. e = [x \in D |-> IF x \in up THEN DirNode ELSE d[x]]
  BY DEF AddDirs
<1>2. /\ IsFiniteSet(DOMAIN d)
      /\ \A x \in DOMAIN d : /\ x \in Path /\ x # <<>> /\ d[x] \in Stored \cup {DirNode}
                             /\ is_dir_node(d, Front(x)) /\ (d[x] = DirNode => Last(x) \notin Marks)
  BY DiskIs
<1>3. p \in Path /\ Len(p) \in Nat /\ \A i \in 1 .. Len(p) : p[i] \notin Marks
  BY DEF Plain, Path
<1>4. IsFiniteSet(D)
  <2>1. IsFiniteSet(1 .. Len(p))
    BY <1>3, FS_Interval
  <2> DEFINE f == [i \in 1 .. Len(p) |-> SubSeq(p, 1, i)]
  <2>2. f \in Surjection(1 .. Len(p), up)
    BY DEF Surjection
  <2>3. IsFiniteSet(up)
    <3> HIDE DEF f, up
    <3> QED BY <2>1, <2>2, FS_Surjection
  <2> HIDE DEF up
  <2> QED BY <1>2, <2>3, FS_Union
<1>5. ASSUME NEW x \in up PROVE x \in Path /\ x # <<>> /\ Last(x) \notin Marks /\ (Front(x) = <<>> \/ Front(x) \in up)
  <2>1. PICK i \in 1 .. Len(p) : x = SubSeq(p, 1, i)
    OBVIOUS
  <2>2. x \in Path /\ x # <<>> /\ Last(x) = p[i] /\ (i = 1 => Front(x) = <<>>) /\ (i > 1 => Front(x) = SubSeq(p, 1, i - 1))
    BY <1>3, <2>1, Begin
  <2>3. i > 1 => i - 1 \in 1 .. Len(p)
    BY <1>3
  <2> QED BY <1>3, <2>2, <2>3
<1> HIDE DEF up, e
<1>6. e \in [D -> Stored \cup {DirNode}]
  BY <1>1, <1>2
<1>7. ASSUME NEW x \in D PROVE x \in Path /\ x # <<>> /\ is_dir_node(e, Front(x)) /\ (e[x] = DirNode => Last(x) \notin Marks)
  <2>1. CASE x \in up
    <3>1. is_dir_node(e, Front(x))
      BY <1>1, <1>5, <2>1 DEF is_dir_node
    <3> QED BY <1>5, <2>1, <3>1
  <2>2. CASE x \notin up
    <3>1. x \in DOMAIN d /\ is_dir_node(d, Front(x)) /\ e[x] = d[x]
      BY <1>1, <1>2, <2>2
    <3>2. is_dir_node(e, Front(x))
      BY <1>1, <3>1 DEF is_dir_node
    <3> QED BY <1>2, <3>1, <3>2
  <2> QED BY <2>1, <2>2
<1> HIDE DEF D
<1> QED BY <1>4, <1>6, <1>7, DiskMade

LEMMA PrefixIs ==
  ASSUME NEW T, NEW p \in Seq(T), NEW q \in Seq(T)
  PROVE  IsPrefix(p, q) <=> Len(p) <= Len(q) /\ \A i \in 1 .. Len(p) : p[i] = q[i]
<1>1. Len(p) \in Nat /\ Len(q) \in Nat
  OBVIOUS
<1> DEFINE a == SubSeq(p, 1, Len(p))
           b == SubSeq(q, 1, Len(p))
<1>2. a \in Seq(T) /\ Len(a) = Len(p) /\ \A i \in 1 .. Len(p) : a[i] = p[i]
  BY <1>1
<1>3. Len(p) <= Len(q) => b \in Seq(T) /\ Len(b) = Len(p) /\ \A i \in 1 .. Len(p) : b[i] = q[i]
  BY <1>1
<1>4. IsPrefix(p, q) <=> Len(p) <= Len(q) /\ a = b
  BY DEF IsPrefix
<1> HIDE DEF a, b
<1> QED BY <1>1, <1>2, <1>3, <1>4, SeqEqual

\* What lies below the parent of a node lies below the node's ancestors.
LEMMA PrefixFront ==
  ASSUME NEW p \in Path, NEW x \in Path, x # <<>>
  PROVE  /\ IsPrefix(p, Front(x)) => IsPrefix(p, x)
         /\ IsPrefix(p, x) /\ p # x => IsPrefix(p, Front(x))
         /\ IsPrefix(x, x) /\ IsPrefix(Front(x), x) /\ Front(x) # x /\ Front(x) \in Path
<1> DEFINE f == Front(x)
<1>1. f \in Seq(Word) /\ Len(f) = Len(x) - 1 /\ Len(x) \in Nat /\ Len(x) >= 1 /\ \A i \in 1 .. Len(x) - 1 : f[i] = x[i]
  BY FrontIs DEF Path
<1> HIDE DEF f
<1>2. p \in Seq(Word) /\ x \in Seq(Word) /\ Len(p) \in Nat
  BY DEF Path
<1>3. \A u, w \in Seq(Word) : IsPrefix(u, w) <=> Len(u) <= Len(w) /\ \A i \in 1 .. Len(u) : u[i] = w[i]
  BY PrefixIs
<1>4. IsPrefix(p, f) => IsPrefix(p, x)
  <2> SUFFICES ASSUME IsPrefix(p, f) PROVE IsPrefix(p, x)
    OBVIOUS
  <2>1. Len(p) <= Len(x) - 1 /\ \A i \in 1 .. Len(p) : p[i] = f[i]
    BY <1>1, <1>2, <1>3
  <2>2. Len(p) <= Len(x) /\ \A i \in 1 .. Len(p) : p[i] = x[i]
    BY <1>1, <1>2, <2>1
  <2> QED BY <1>2, <1>3, <2>2
<1>5. IsPrefix(p, x) /\ p # x => IsPrefix(p, f)
  <2> SUFFICES ASSUME IsPrefix(p, x), p # x PROVE IsPrefix(p, f)
    OBVIOUS
  <2>1. Len(p) <= Len(x) /\ \A i \in 1 .. Len(p) : p[i] = x[i]
    BY <1>2, <1>3
  <2>2. Len(p) # Len(x)
    BY <1>2, <2>1, SeqEqual
  <2>3. Len(p) <= Len(f) /\ \A i \in 1 .. Len(p) : p[i] = f[i]
    BY <1>1, <1>2, <2>1, <2>2
  <2> QED BY <1>1, <1>2, <1>3, <2>3
<1>6. IsPrefix(x, x) /\ IsPrefix(f, x)
  <2>1. IsPrefix(x, x)
    BY <1>1, <1>2, <1>3
  <2>2. Len(f) <= Len(x) /\ \A i \in 1 .. Len(f) : f[i] = x[i]
    BY <1>1
  <2> QED BY <1>1, <1>2, <1>3, <2>1, <2>2
<1>7. f # x /\ f \in Path
  BY <1>1 DEF Path
<1> QED BY <1>4, <1>5, <1>6, <1>7 DEF f

-----------------------------------------------------------------------------
\* System calls.

CallNames == {"mkdir", "write", "byte", "tmp", "rename", "remove", "fail"}

\* The calls an operation may plan: directories under names of keys, files
\* with something that may be stored.
Sound == {c \in [call : CallNames, at : Path, val : Stored \cup {Absent}] :
            /\ c.call = "mkdir" => Plain(c.at)
            /\ c.call \in {"write", "byte", "tmp", "rename"} => c.val \in Stored}

LEMMA AppendPath ==
  ASSUME NEW p \in Path, NEW w \in Word
  PROVE  Append(p, w) \in Path /\ Append(p, w) # <<>> /\ Front(Append(p, w)) = p /\ Last(Append(p, w)) = w
         /\ Len(Append(p, w)) = Len(p) + 1 /\ IsPrefix(p, Append(p, w))
<1> DEFINE q == Append(p, w)
<1>1. q \in Seq(Word) /\ Len(q) = Len(p) + 1 /\ Len(p) \in Nat /\ p \in Seq(Word) /\ q[Len(p) + 1] = w /\ \A i \in 1 .. Len(p) : q[i] = p[i]
  BY AppendProperties DEF Path
<1> HIDE DEF q
<1>2. q # <<>>
  BY <1>1
<1>3. Front(q) \in Seq(Word) /\ Len(Front(q)) = Len(q) - 1 /\ (\A i \in 1 .. Len(q) - 1 : Front(q)[i] = q[i]) /\ Last(q) = q[Len(q)]
  BY <1>1, <1>2, FrontIs
<1>4. Len(Front(q)) = Len(p) /\ \A i \in 1 .. Len(p) : Front(q)[i] = p[i]
  BY <1>1, <1>3
<1>5. Front(q) = p
  BY <1>1, <1>3, <1>4, SeqEqual
<1>6. Last(q) = w
  BY <1>1, <1>3
<1>7. IsPrefix(p, q)
  <2>1. Len(p) <= Len(q)
    BY <1>1
  <2> QED BY <1>1, <2>1, PrefixIs
<1> QED BY <1>1, <1>2, <1>5, <1>6, <1>7 DEF q, Path

LEMMA After1Disk ==
  ASSUME NEW d \in Disks, NEW c \in Sound
  PROVE  After1(d, c) \in Disks
<1>1. c.at \in Path /\ (c.call = "mkdir" => Plain(c.at)) /\ (c.call \in {"write", "byte", "tmp", "rename"} => c.val \in Stored)
  BY DEF Sound
<1>2. CASE c.call = "mkdir"
  BY <1>1, <1>2, DirsDisk DEF After1
<1>3. CASE c.call \in {"write", "byte"} /\ is_dir_node(d, Front(c.at)) /\ ~ is_dir_node(d, c.at)
  <2>1. c.at # <<>>
    BY <1>3 DEF is_dir_node
  <2>2. Put(d, c.at, c.val) \in Disks
    BY <1>1, <1>3, <2>1, PutDisk
  <2> QED BY <1>3, <2>2 DEF After1
<1>4. CASE c.call = "tmp" /\ is_dir_node(d, c.at)
  <2> DEFINE t == Append(c.at, TMP)
  <2>1. t \in Path /\ t # <<>> /\ Front(t) = c.at /\ Last(t) = TMP
    BY <1>1, AppendPath, MarksAre
  <2> HIDE DEF t
  <2>2. ~ is_dir_node(d, t)
    BY <2>1, DiskIs DEF is_dir_node, Marks
  <2>3. Put(d, t, c.val) \in Disks
    BY <1>1, <1>4, <2>1, <2>2, PutDisk
  <2> QED BY <1>4, <2>3 DEF After1, t
<1>5. CASE c.call = "rename" /\ is_file(d, Append(Front(c.at), TMP)) /\ ~ is_dir_node(d, c.at)
  <2> DEFINE f == Front(c.at)
             t == Append(f, TMP)
             e == Drop(d, {t})
  <2>1. c.at # <<>>
    BY <1>5 DEF is_dir_node
  <2>2. f \in Path
    BY <1>1, <2>1, FrontIs DEF Path
  <2>3. t \in Path /\ t # <<>> /\ Front(t) = f /\ Last(t) = TMP /\ Len(t) = Len(f) + 1 /\ Len(f) \in Nat
    BY <2>2, AppendPath, MarksAre DEF Path
  <2>4. t \in DOMAIN d /\ d[t] # DirNode
    BY <1>5 DEF is_file
  <2> HIDE DEF t
  <2>5. is_dir_node(d, f)
    BY <2>3, <2>4, DiskIs
  <2>6. \A x \in DOMAIN d : Front(x) # t
    BY <2>3, <2>4, DiskIs DEF is_dir_node
  <2>7. e \in Disks
    BY <2>6, DropDisk
  <2>8. f # t
    BY <2>3
  <2> HIDE DEF f
  <2>9. is_dir_node(e, f) /\ ~ is_dir_node(e, c.at)
    BY <1>5, <2>5, <2>8 DEF is_dir_node, Drop
  <2> HIDE DEF e
  <2>10. Put(e, c.at, c.val) \in Disks
    BY <1>1, <1>5, <2>1, <2>7, <2>9, PutDisk DEF f
  <2> QED BY <1>5, <2>10 DEF After1, e, t, f
<1>6. CASE c.call = "remove"
  <2> DEFINE ks == Below(d, c.at)
  <2>1. ASSUME NEW x \in DOMAIN d \ ks PROVE Front(x) \notin ks
    <3>1. x \in Path /\ x # <<>>
      BY DiskIs
    <3> QED BY <1>1, <2>1, <3>1, PrefixFront DEF Below
  <2> HIDE DEF ks
  <2>2. Drop(d, ks) \in Disks
    BY <2>1, DropDisk
  <2> QED BY <1>6, <2>2 DEF After1, ks
<1>7. CASE /\ c.call \notin {"mkdir", "remove"}
           /\ ~ (c.call \in {"write", "byte"} /\ is_dir_node(d, Front(c.at)) /\ ~ is_dir_node(d, c.at))
           /\ ~ (c.call = "tmp" /\ is_dir_node(d, c.at))
           /\ ~ (c.call = "rename" /\ is_file(d, Append(Front(c.at), TMP)) /\ ~ is_dir_node(d, c.at))
  BY <1>7 DEF After1
<1> QED BY <1>2, <1>3, <1>4, <1>5, <1>6, <1>7

\* What every call of a plan preserves, the plan preserves.
LEMMA AfterKeeps ==
  ASSUME NEW W, NEW C, NEW d \in W, NEW calls \in Seq(C), \A e \in W, c \in C : After1(e, c) \in W
  PROVE  After(d, calls) \in W
<1> DEFINE m == Len(calls)
           step == [i \in 1 .. m |-> [e \in W |-> After1(e, calls[i])]]
           Body(g) == [i \in 0 .. Len(calls) |-> IF i = 0 THEN d ELSE After1(g[i - 1], calls[i])]
           h == CHOOSE g : g = Body(g)
<1>1. m \in Nat /\ \A i \in 1 .. m : calls[i] \in C
  OBVIOUS
<1>2. step \in [1 .. m -> [W -> W]]
  BY <1>1
<1>3. \E f : Follows(f, m, W, d, step)
  <2> HIDE DEF step, m
  <2> QED BY <1>1, <1>2, Recursion
<1>4. PICK f \in [0 .. m -> W] : f[0] = d /\ \A i \in 1 .. m : f[i] = step[i][f[i - 1]]
  BY <1>3 DEF Follows
<1>5. ASSUME NEW i \in 1 .. m PROVE f[i] = After1(f[i - 1], calls[i])
  <2>1. i - 1 \in 0 .. m
    BY <1>1
  <2>2. f[i - 1] \in W
    BY <2>1
  <2> QED BY <1>4, <2>2
<1>6. f = Body(f)
  <2>1. ASSUME NEW i \in 0 .. m PROVE f[i] = Body(f)[i]
    <3>1. CASE i = 0
      BY <1>4, <3>1
    <3>2. CASE i # 0
      <4>1. i \in 1 .. m
        BY <1>1, <3>2
      <4> QED BY <1>5, <3>2, <4>1
    <3> QED BY <3>1, <3>2
  <2> QED BY <2>1
<1>7. After(d, calls) = h[Len(calls)]
  BY Zenon DEF After
<1>8. h = Body(h)
  <2> HIDE DEF Body
  <2> QED BY <1>6
<1>9. \A i \in 0 .. m : h[i] = IF i = 0 THEN d ELSE After1(h[i - 1], calls[i])
  <2> HIDE DEF h
  <2> QED BY <1>8
<1> HIDE DEF h
<1> DEFINE S == {k \in Nat : k <= m => h[k] \in W}
<1>10. 0 \in S
  BY <1>1, <1>9
<1>11. ASSUME NEW k \in Nat, k \in S PROVE k + 1 \in S
  <2> SUFFICES ASSUME k + 1 <= m PROVE h[k + 1] \in W
    OBVIOUS
  <2>1. k + 1 \in 0 .. m /\ k + 1 \in 1 .. m /\ k + 1 # 0 /\ (k + 1) - 1 = k /\ h[k] \in W
    BY <1>1, <1>11
  <2>2. h[k + 1] = After1(h[k], calls[k + 1])
    BY <1>9, <2>1
  <2> QED BY <1>1, <2>1, <2>2
<1>12. Nat \subseteq S
  <2> HIDE DEF S
  <2> QED BY <1>10, <1>11, SetInduction
<1> QED BY <1>1, <1>7, <1>12

LEMMA AfterDisk ==
  ASSUME NEW d \in Disks, NEW calls \in Seq(Sound)
  PROVE  After(d, calls) \in Disks
BY AfterKeeps, After1Disk

LEMMA ContentsType ==
  ASSUME NEW d \in Disks, NEW p
  PROVE  contents(d, p) \in Stored \cup {Absent}
BY DiskIs DEF contents, is_file

LEMMA ReadType ==
  ASSUME NEW d \in Disks, NEW key
  PROVE  read_leaf(d, key) \in Stored \cup {Absent}
BY ContentsType DEF read_leaf

LEMMA ViewTyped ==
  ASSUME NEW d \in Disks
  PROVE  Typed(view(d))
<1>1. \A k \in DOMAIN view(d) : view(d)[k] = read_leaf(d, k)
  BY DEF view
<1> QED BY <1>1, ReadType DEF Typed

LEMMA LeafPathType ==
  ASSUME NEW d, NEW key \in Word
  PROVE  leaf_path(d, key) \in Path
<1>1. node_path(key) \in Path
  BY NodePath DEF Plain
<1>2. Append(node_path(key), leaf_marker(key)) \in Path
  BY <1>1, AppendPath, MarksAre DEF leaf_marker
<1>3. <<>> \in Path
  BY DEF Path
<1> QED BY <1>1, <1>2, <1>3 DEF leaf_path

-----------------------------------------------------------------------------
\* Plans are sound.

\* Two plans one after the other, and plans of one call.
LEMMA Joined ==
  ASSUME NEW C, NEW a \in Seq(C), NEW b \in Seq(C)
  PROVE  a \o b \in Seq(C)
OBVIOUS

LEMMA DoSound ==
  /\ \A p : Plain(p) => Do("mkdir", p, Absent) \in Sound
  /\ \A p \in Path : Do("remove", p, Absent) \in Sound
  /\ \A p \in Path, v \in Stored, n \in {"write", "byte", "tmp", "rename"} : Do(n, p, v) \in Sound
  /\ Do("fail", <<>>, Absent) \in Sound
<1> USE DEF Do, Sound, CallNames
<1>1. \A p : Plain(p) => p \in Path
  BY DEF Plain
<1>2. <<>> \in Path
  BY DEF Path
<1> QED BY <1>1, <1>2, NotStored

LEMMA FailsSound == Fails \in Seq(Sound)
BY DoSound DEF Fails

LEMMA WriteFileSound ==
  ASSUME NEW p \in Path, NEW v \in Stored
  PROVE  write_file(p, v) \in Seq(Sound)
BY DoSound, NotStored DEF write_file

\* A body of which the first i bytes are written.
Mixed(v, old, i) == [v EXCEPT !.body = SubSeq(v.body, 1, i) \o drop(old.body, i)]

LEMMA MixedIs ==
  ASSUME NEW v \in Stored, NEW old \in Stored, Len(v.body) = Len(old.body), NEW i \in 1 .. Len(v.body)
  PROVE  /\ Mixed(v, old, i) \in Stored /\ Mixed(v, old, i).kind = v.kind
         /\ Len(Mixed(v, old, i).body) = Len(old.body)
         /\ \A j \in 1 .. Len(old.body) : Mixed(v, old, i).body[j] \in {old.body[j], v.body[j]}
<1> DEFINE a == SubSeq(v.body, 1, i)
           b == drop(old.body, i)
           w == a \o b
           n == Len(old.body)
<1>1. v.body \in Word /\ old.body \in Word /\ n \in Nat /\ i \in 0 .. Len(v.body) /\ i \in 0 .. Len(old.body)
  BY LenIs DEF Stored
<1>2. a \in Word /\ Len(a) = i /\ \A j \in 1 .. i : a[j] = v.body[j]
  BY <1>1, CutIs
<1>3. b \in Word /\ Len(b) = n - i /\ \A j \in 1 .. n - i : b[j] = old.body[i + j]
  BY <1>1, DropIs
<1> HIDE DEF a, b
<1>4. /\ w \in Word /\ Len(w) = Len(a) + Len(b)
      /\ \A j \in 1 .. Len(a) : w[j] = a[j]
      /\ \A j \in 1 .. Len(b) : w[Len(a) + j] = b[j]
  BY <1>2, <1>3, ConcatIs
<1> HIDE DEF w
<1>5. Mixed(v, old, i) = [v EXCEPT !.body = w]
  BY DEF Mixed, w, a, b
<1>6. Mixed(v, old, i) \in Stored /\ Mixed(v, old, i).kind = v.kind /\ Mixed(v, old, i).body = w
  BY <1>4, <1>5 DEF Stored
<1>7. Len(w) = n
  BY <1>1, <1>2, <1>3, <1>4
<1>8. ASSUME NEW j \in 1 .. n PROVE w[j] \in {old.body[j], v.body[j]}
  <2>1. CASE j <= i
    BY <1>1, <1>2, <1>4, <2>1
  <2>2. CASE j > i
    <3>1. PICK k \in 1 .. n - i : j = i + k
      BY <1>1, <2>2
    <3> QED BY <1>2, <1>3, <1>4, <3>1
  <2> QED BY <1>1, <2>1, <2>2
<1> QED BY <1>6, <1>7, <1>8

LEMMA InPlaceIs ==
  ASSUME NEW p, NEW v \in Stored, NEW old \in Stored, Len(v.body) = Len(old.body)
  PROVE  /\ Len(in_place(p, old, v)) = Len(v.body)
         /\ \A i \in 1 .. Len(v.body) : in_place(p, old, v)[i] = Do("byte", p, Mixed(v, old, i))
         /\ \A C : (\A i \in 1 .. Len(v.body) : Do("byte", p, Mixed(v, old, i)) \in C) => in_place(p, old, v) \in Seq(C)
<1>1. DOMAIN v.body = 1 .. Len(v.body) /\ Len(v.body) \in Nat
  BY LenIs DEF Stored
<1> DEFINE n == Len(v.body)
           s == in_place(p, old, v)
           f(i) == Do("byte", p, Mixed(v, old, i))
<1>2. s = [i \in 1 .. n |-> f(i)]
  BY <1>1 DEF in_place, Mixed
<1> HIDE DEF n, s, f
<1>3. Len(s) = n /\ n \in Nat /\ \A i \in 1 .. n : s[i] = f(i)
  BY <1>1, <1>2 DEF n
<1>4. ASSUME NEW C, \A i \in 1 .. n : f(i) \in C PROVE s \in Seq(C)
  BY <1>2, <1>3, <1>4
<1> QED BY <1>3, <1>4 DEF n, s, f

LEMMA InPlaceSound ==
  ASSUME NEW p \in Path, NEW v \in Stored, NEW old \in Stored, Len(v.body) = Len(old.body)
  PROVE  in_place(p, old, v) \in Seq(Sound)
BY InPlaceIs, MixedIs, DoSound

LEMMA WriteAtomicSound ==
  ASSUME NEW d \in Disks, NEW p \in Path, p # <<>>, NEW v \in Stored
  PROVE  write_atomic(d, p, v) \in Seq(Sound)
<1>1. CASE is_file(d, p) /\ d[p].kind = v.kind /\ Len(d[p].body) = Len(v.body)
  <2>1. d[p] \in Stored
    BY <1>1, DiskIs DEF is_file
  <2> QED BY <1>1, <2>1, InPlaceSound DEF write_atomic
<1>2. CASE ~ (is_file(d, p) /\ d[p].kind = v.kind /\ Len(d[p].body) = Len(v.body)) /\ ~ is_dir_node(d, Front(p))
  BY <1>2, FailsSound DEF write_atomic
<1>3. CASE ~ (is_file(d, p) /\ d[p].kind = v.kind /\ Len(d[p].body) = Len(v.body)) /\ is_dir_node(d, Front(p))
  <2>1. Front(p) \in Path
    BY FrontIs DEF Path
  <2>2. Do("tmp", Front(p), v) \in Sound /\ Do("rename", p, v) \in Sound
    BY <2>1, DoSound
  <2> QED BY <1>3, <2>2 DEF write_atomic
<1> QED BY <1>1, <1>2, <1>3

LEMMA EnsureDirSound ==
  ASSUME NEW d \in Disks, NEW key \in Word
  PROVE  ensure_dir(d, key) \in Seq(Sound)
<1> DEFINE node == node_path(key)
<1>1. Plain(node) /\ node \in Path
  BY NodePath DEF Plain
<1>2. Do("remove", node, Absent) \in Sound /\ Do("mkdir", node, Absent) \in Sound
  BY <1>1, DoSound
<1>3. Append(node, SELF_MARKER) \in Path
  BY <1>1, AppendPath, MarksAre
<1>4. is_file(d, node) => d[node] \in Stored
  BY DiskIs DEF is_file
<1> DEFINE a == <<Do("remove", node, Absent), Do("mkdir", node, Absent)>>
           b == write_file(Append(node, SELF_MARKER), d[node])
           m == <<Do("mkdir", node, Absent)>>
<1>5. a \in Seq(Sound) /\ m \in Seq(Sound)
  BY <1>2
<1>6. is_file(d, node) => b \in Seq(Sound)
  BY <1>3, <1>4, WriteFileSound
<1>7. ensure_dir(d, key) = IF is_file(d, node) THEN a \o b ELSE m
  BY DEF ensure_dir
<1> HIDE DEF a, b, m
<1> QED BY <1>5, <1>6, <1>7, Joined

LEMMA PlainFront ==
  ASSUME NEW p, Plain(p), p # <<>>
  PROVE  Plain(Front(p)) /\ Front(p) \in Path /\ p \in Path
<1>1. p \in Seq(Word) /\ \A i \in 1 .. Len(p) : p[i] \notin Marks
  BY DEF Plain, Path
<1> DEFINE f == Front(p)
<1>2. f \in Seq(Word) /\ Len(f) = Len(p) - 1 /\ Len(p) \in Nat /\ \A i \in 1 .. Len(p) - 1 : f[i] = p[i]
  BY <1>1, FrontIs
<1> HIDE DEF f
<1>3. \A i \in 1 .. Len(f) : f[i] \notin Marks
  BY <1>1, <1>2
<1> QED BY <1>1, <1>2, <1>3 DEF Plain, Path, f

LEMMA LeafCallsSound ==
  ASSUME NEW d \in Disks, NEW key \in Word, NEW v \in Stored
  PROVE  leaf_calls(d, key, v) \in Seq(Sound)
<1> DEFINE p == node_path(key)
           m == <<Do("mkdir", Front(p), Absent)>>
           w == write_atomic(mkdirs(d, Front(p)), p, v)
<1>1. Plain(p) /\ p \in Path
  BY NodePath DEF Plain
<1>2. CASE is_dir_node(d, p)
  <2>1. Append(p, leaf_marker(key)) \in Path /\ Append(p, leaf_marker(key)) # <<>>
    BY <1>1, AppendPath, MarksAre DEF leaf_marker
  <2>2. write_atomic(d, Append(p, leaf_marker(key)), v) \in Seq(Sound)
    BY <2>1, WriteAtomicSound
  <2> QED BY <1>2, <2>2 DEF leaf_calls
<1>3. CASE ~ is_dir_node(d, p)
  <2>1. p # <<>>
    BY <1>3 DEF is_dir_node
  <2>2. Plain(Front(p))
    BY <1>1, <2>1, PlainFront
  <2>3. mkdirs(d, Front(p)) \in Disks
    BY <2>2, DirsDisk
  <2>4. m \in Seq(Sound) /\ w \in Seq(Sound)
    BY <1>1, <2>1, <2>2, <2>3, DoSound, WriteAtomicSound
  <2>5. leaf_calls(d, key, v) = m \o w
    BY <1>3 DEF leaf_calls
  <2> HIDE DEF m, w
  <2> QED BY <2>4, <2>5, Joined
<1> QED BY <1>2, <1>3

LEMMA WriteLeafSound ==
  ASSUME NEW d \in Disks, NEW key \in Word, NEW v \in Stored
  PROVE  write_leaf(d, key, v) \in Seq(Sound)
<1> DEFINE b == IF key # Root /\ ends_with(key, PATH_SEP) THEN ensure_dir(d, key) ELSE <<>>
           c == leaf_calls(After(d, b), key, v)
<1>1. b \in Seq(Sound)
  BY EnsureDirSound
<1>2. write_leaf(d, key, v) = b \o c
  BY DEF write_leaf, write_leaf_after
<1> HIDE DEF b
<1>3. c \in Seq(Sound)
  BY <1>1, AfterDisk, LeafCallsSound
<1> QED BY <1>1, <1>2, <1>3, Joined

LEMMA RemoveLeafSound ==
  ASSUME NEW d \in Disks, NEW key \in Word
  PROVE  remove_leaf(d, key) \in Seq(Sound)
<1>1. Do("remove", leaf_path(d, key), Absent) \in Sound
  BY LeafPathType, DoSound
<1> QED BY <1>1 DEF remove_leaf

LEMMA SetCallsSound ==
  ASSUME NEW d \in Disks, NEW key \in Word, NEW v \in Stored
  PROVE  set_calls(d, key, v) \in Seq(Sound)
<1> DEFINE a == ensure_dir(d, split_index(key))
           b == IF is_dir(key) THEN ensure_dir(After(d, a), key) ELSE <<>>
           ab == a \o b
           c == write_leaf(After(d, ab), key, v)
<1>1. a \in Seq(Sound)
  BY SplitType, EnsureDirSound
<1>2. set_calls(d, key, v) = ab \o c
  BY DEF set_calls, set_calls_after, set_dirs
<1> HIDE DEF a
<1>3. b \in Seq(Sound)
  BY <1>1, AfterDisk, EnsureDirSound
<1> HIDE DEF b
<1>4. ab \in Seq(Sound)
  BY <1>1, <1>3, Joined
<1> HIDE DEF ab
<1>5. c \in Seq(Sound)
  BY <1>4, AfterDisk, WriteLeafSound
<1> QED BY <1>2, <1>4, <1>5, Joined

LEMMA MarkerCallsSound ==
  ASSUME NEW d \in Disks, NEW k \in Word
  PROVE  marker_calls(d, ensure_dir(d, k), k) \in Seq(Sound)
<1> DEFINE a == ensure_dir(d, k)
           b == IF read_leaf(After(d, a), k) = Absent THEN write_leaf(After(d, a), k, DirMarker) ELSE <<>>
<1>1. a \in Seq(Sound)
  BY EnsureDirSound
<1>2. marker_calls(d, a, k) = a \o b
  BY DEF marker_calls
<1> HIDE DEF a
<1>3. b \in Seq(Sound)
  BY <1>1, AfterDisk, WriteLeafSound, NotStored
<1> HIDE DEF b
<1>4. a \o b \in Seq(Sound)
  BY <1>1, <1>3, Joined
<1> QED BY <1>2, <1>4 DEF a

LEMMA LocatorCallsSound ==
  ASSUME NEW d \in Disks, NEW k \in Word, NEW v \in Stored
  PROVE  locator_calls(d, ensure_dir(d, k), k, v) \in Seq(Sound)
<1> DEFINE a == ensure_dir(d, k)
           b == write_leaf(After(d, a), k, v)
<1>1. a \in Seq(Sound)
  BY EnsureDirSound
<1>2. locator_calls(d, a, k, v) = a \o b
  BY DEF locator_calls
<1> HIDE DEF a
<1>3. b \in Seq(Sound)
  BY <1>1, AfterDisk, WriteLeafSound
<1> HIDE DEF b
<1>4. a \o b \in Seq(Sound)
  BY <1>1, <1>3, Joined
<1> QED BY <1>2, <1>4 DEF a

LEMMA Ordered ==
  ASSUME NEW S, IsFiniteSet(S)
  PROVE  SetToSeq(S) \in Seq(S)
<1>1. PICK g : g \in Bijection(1 .. Cardinality(S), S)
  BY FS_CardinalityType DEF ExistsBijection
<1>2. g \in [1 .. Cardinality(S) -> S] /\ IsInjective(g)
  BY <1>1 DEF Bijection, Injection
<1>3. SetToSeq(S) \in [1 .. Cardinality(S) -> S]
  BY <1>2 DEF SetToSeq
<1>4. Cardinality(S) \in Nat
  BY FS_CardinalityType
<1> QED BY <1>3, <1>4, SeqDef

LEMMA RemovalsSound ==
  ASSUME NEW ps, ps \subseteq Path, IsFiniteSet(ps)
  PROVE  removals(ps) \in Seq(Sound)
<1> DEFINE order == SetToSeq(ps)
           s == removals(ps)
<1>1. order \in Seq(ps)
  BY Ordered
<1>2. s = [i \in DOMAIN order |-> Do("remove", order[i], Absent)]
  BY DEF removals
<1> HIDE DEF order, s
<1>3. DOMAIN order = 1 .. Len(order) /\ Len(order) \in Nat /\ \A i \in 1 .. Len(order) : order[i] \in ps
  BY <1>1
<1>4. \A i \in 1 .. Len(order) : Do("remove", order[i], Absent) \in Sound
  BY <1>3, DoSound
<1>5. s \in [1 .. Len(order) -> Sound]
  BY <1>2, <1>3, <1>4
<1>6. s \in Seq(Sound)
  BY <1>3, <1>5, SeqDef
<1> QED BY <1>6 DEF s

LEMMA SomeRemovals ==
  ASSUME NEW d \in Disks, NEW ps, ps \subseteq DOMAIN d
  PROVE  removals(ps) \in Seq(Sound)
<1>1. IsFiniteSet(ps) /\ ps \subseteq Path
  BY DiskIs, FS_Subset
<1> QED BY <1>1, RemovalsSound

LEMMA DelCallsSound ==
  ASSUME NEW d \in Disks, NEW s, Typed(s), NEW key \in Word
  PROVE  del_calls(d, s, key) \in Seq(Sound)
<1>1. resolve_parent(s, key) \in Word
  BY ResolveParentType
<1>2. <<>> \in Seq(Sound)
  OBVIOUS
<1> QED BY <1>1, <1>2, RemoveLeafSound DEF del_calls

LEMMA SubtreeSound ==
  ASSUME NEW d \in Disks, NEW s, Typed(s), NEW base \in Word
  PROVE  subtree_calls(d, s, base) \in Seq(Sound)
<1> DEFINE a == removals(DOMAIN d \cap {node_path(Append(base, OBJ_SEP))})
           b == removals(runtime_nodes(d, base))
           c == removals(DOMAIN d \cap {node_path(base)})
           r == removals(top_nodes(d))
<1>1. top_nodes(d) \subseteq DOMAIN d /\ runtime_nodes(d, base) \subseteq DOMAIN d
  BY DEF top_nodes, runtime_nodes
<1>2. a \in Seq(Sound) /\ b \in Seq(Sound) /\ c \in Seq(Sound) /\ r \in Seq(Sound)
  BY <1>1, SomeRemovals
<1>3. subtree_calls(d, s, base) \in {r, del_calls(d, s, base), a \o b \o c}
  BY DEF subtree_calls
<1> HIDE DEF a, b, c, r
<1>4. a \o b \o c \in Seq(Sound)
  BY <1>2, Joined
<1> QED BY <1>2, <1>3, <1>4, DelCallsSound

LEMMA DelTreeSound ==
  ASSUME NEW d \in Disks, NEW s, Typed(s), NEW prefix \in Word
  PROVE  del_tree_calls(d, s, prefix) \in Seq(Sound)
<1>1. subtree_base(resolve_parent(s, prefix)) \in Word
  BY ResolveParentType, StripType
<1>2. <<>> \in Seq(Sound)
  OBVIOUS
<1> QED BY <1>1, <1>2, SubtreeSound DEF del_tree_calls

\* What lies above a node is a directory, and no name on the way is a marker.
LEMMA Above ==
  ASSUME NEW d \in Disks, NEW p \in DOMAIN d
  PROVE  /\ \A i \in 1 .. Len(p) - 1 : SubSeq(p, 1, i) \in DOMAIN d /\ d[SubSeq(p, 1, i)] = DirNode /\ p[i] \notin Marks
         /\ d[p] = DirNode => Plain(p)
<1>1. p \in Path /\ p # <<>> /\ Len(p) \in Nat /\ Len(p) >= 1 /\ (d[p] = DirNode => Last(p) \notin Marks) /\ Last(p) = p[Len(p)]
  BY DiskIs, FrontIs DEF Path
<1> DEFINE n == Len(p)
           At2(j) == SubSeq(p, 1, n - j) \in DOMAIN d /\ (j >= 1 => d[SubSeq(p, 1, n - j)] = DirNode)
           S == {j \in Nat : j < n => At2(j)}
<1>2. 0 \in S
  <2>1. SubSeq(p, 1, n - 0) = p
    BY <1>1 DEF Path
  <2>2. At2(0)
    <3>1. ~ (0 >= 1)
      OBVIOUS
    <3> QED BY <2>1, <3>1, Zenon
  <2> HIDE DEF At2
  <2> QED BY <2>2
<1>3. ASSUME NEW j \in Nat, j \in S PROVE j + 1 \in S
  <2> SUFFICES ASSUME j + 1 < n PROVE At2(j + 1)
    OBVIOUS
  <2> DEFINE i == n - j
             q == SubSeq(p, 1, i)
  <2>1. q \in DOMAIN d /\ i \in 1 .. n /\ i > 1 /\ n - (j + 1) = i - 1 /\ i - 1 \in 1 .. n
    BY <1>1, <1>3
  <2> HIDE DEF i
  <2>2. Front(q) = SubSeq(p, 1, i - 1) /\ SubSeq(p, 1, i - 1) # <<>>
    BY <1>1, <2>1, Begin
  <2>3. is_dir_node(d, Front(q))
    BY <2>1, DiskIs
  <2>4. SubSeq(p, 1, i - 1) \in DOMAIN d /\ d[SubSeq(p, 1, i - 1)] = DirNode
    BY <2>2, <2>3 DEF is_dir_node
  <2> QED BY <2>1, <2>4
<1>4. Nat \subseteq S
  <2> HIDE DEF S
  <2> QED BY <1>2, <1>3, SetInduction
<1>5. ASSUME NEW i \in 1 .. n - 1 PROVE SubSeq(p, 1, i) \in DOMAIN d /\ d[SubSeq(p, 1, i)] = DirNode /\ p[i] \notin Marks
  <2> DEFINE j == n - i
  <2>1. j \in Nat /\ j >= 1 /\ j < n /\ n - j = i /\ i \in 1 .. n
    BY <1>1
  <2>2. j \in S
    BY <1>4, <2>1
  <2>3. SubSeq(p, 1, n - j) \in DOMAIN d /\ d[SubSeq(p, 1, n - j)] = DirNode
    BY <2>1, <2>2
  <2> HIDE DEF j, S
  <2>4. SubSeq(p, 1, i) \in DOMAIN d /\ d[SubSeq(p, 1, i)] = DirNode
    BY <2>1, <2>3
  <2>5. Last(SubSeq(p, 1, i)) = p[i]
    BY <1>1, <2>1, Begin
  <2> QED BY <2>4, <2>5, DiskIs
<1>6. ASSUME d[p] = DirNode, NEW i \in 1 .. n PROVE p[i] \notin Marks
  <2>1. CASE i = n
    BY <1>1, <1>6, <2>1
  <2>2. CASE i # n
    <3>1. i \in 1 .. n - 1
      BY <1>1, <2>2
    <3> QED BY <1>5, <3>1
  <2> QED BY <2>1, <2>2
<1> QED BY <1>1, <1>5, <1>6 DEF Plain

LEMMA ConcatPath ==
  ASSUME NEW a \in Path, NEW b \in Path
  PROVE  /\ a \o b \in Path /\ Len(a \o b) = Len(a) + Len(b)
         /\ \A i \in 1 .. Len(a) : (a \o b)[i] = a[i]
         /\ \A i \in 1 .. Len(b) : (a \o b)[Len(a) + i] = b[i]
BY ConcatProperties DEF Path

\* Where a copy of the node at p goes.
CopyTo(p, src, dst) == dst \o drop(p, Len(src))

LEMMA CopyToIs ==
  ASSUME NEW d \in Disks, NEW p \in DOMAIN d, NEW src \in Path, NEW dst, Plain(dst), IsPrefix(src, p)
  PROVE  /\ CopyTo(p, src, dst) \in Path /\ Len(CopyTo(p, src, dst)) = Len(dst) + (Len(p) - Len(src))
         /\ d[p] = DirNode => Plain(CopyTo(p, src, dst))
         /\ CopyTo(p, src, dst) # <<>> => Plain(Front(CopyTo(p, src, dst)))
<1> DEFINE n == Len(src)
           r == drop(p, n)
           q == CopyTo(p, src, dst)
<1>1. p \in Seq(Word) /\ dst \in Seq(Word) /\ src \in Seq(Word) /\ Len(p) \in Nat /\ Len(dst) \in Nat /\ n \in Nat
  BY DiskIs DEF Plain, Path
<1>2. n <= Len(p)
  BY <1>1, PrefixIs
<1> HIDE DEF n
<1>3. r \in Seq(Word) /\ Len(r) = Len(p) - n /\ \A i \in 1 .. Len(p) - n : r[i] = p[n + i]
  <2>1. n + 1 \in Nat /\ n + 1 >= 1
    BY <1>1
  <2> QED BY <1>1, <1>2, <2>1 DEF drop
<1> HIDE DEF r
<1>4. /\ q \in Seq(Word) /\ Len(q) = Len(dst) + Len(r)
      /\ \A i \in 1 .. Len(dst) : q[i] = dst[i]
      /\ \A i \in 1 .. Len(r) : q[Len(dst) + i] = r[i]
  <2>1. q = dst \o r
    BY DEF CopyTo, r, n
  <2> HIDE DEF q
  <2> QED BY <1>1, <1>3, <2>1, ConcatPath DEF Path
<1> HIDE DEF q
<1>5. \A i \in 1 .. Len(dst) : dst[i] \notin Marks
  BY DEF Plain
<1>6. (\A i \in 1 .. Len(p) - 1 : p[i] \notin Marks) /\ (d[p] = DirNode => Plain(p))
  BY Above
<1>7. ASSUME NEW i \in 1 .. Len(q), i < Len(q) \/ d[p] = DirNode PROVE q[i] \notin Marks
  <2>1. CASE i <= Len(dst)
    BY <1>1, <1>4, <1>5, <2>1
  <2>2. CASE i > Len(dst)
    <3>1. PICK j \in 1 .. Len(r) : i = Len(dst) + j
      <4>1. Len(r) \in Nat /\ i \in 1 .. Len(dst) + Len(r)
        BY <1>3, <1>4
      <4>2. i - Len(dst) \in 1 .. Len(r) /\ i = Len(dst) + (i - Len(dst))
        BY <1>1, <2>2, <4>1
      <4> QED BY <4>2, Zenon
    <3>2. q[i] = p[n + j]
      BY <1>3, <1>4, <3>1
    <3>3. n + j \in 1 .. Len(p) /\ (i < Len(q) => n + j \in 1 .. Len(p) - 1)
      BY <1>1, <1>2, <1>3, <1>4, <3>1
    <3>4. p[n + j] \notin Marks
      BY <1>6, <1>7, <3>3 DEF Plain
    <3> QED BY <3>2, <3>4
  <2> QED BY <1>1, <1>4, <2>1, <2>2
<1>8. d[p] = DirNode => Plain(q)
  BY <1>4, <1>7 DEF Plain, Path
<1>9. q # <<>> => Plain(Front(q))
  <2> SUFFICES ASSUME q # <<>> PROVE Plain(Front(q))
    OBVIOUS
  <2> DEFINE f == Front(q)
  <2>1. f \in Seq(Word) /\ Len(f) = Len(q) - 1 /\ Len(q) \in Nat /\ \A i \in 1 .. Len(q) - 1 : f[i] = q[i]
    BY <1>4, FrontIs
  <2> HIDE DEF f
  <2>2. \A i \in 1 .. Len(f) : f[i] \notin Marks
    BY <1>7, <2>1
  <2>3. Plain(f)
    BY <2>1, <2>2 DEF Plain, Path
  <2> QED BY <2>3 DEF f
<1>10. q \in Path /\ Len(q) = Len(dst) + (Len(p) - n)
  BY <1>3, <1>4 DEF Path
<1> QED BY <1>8, <1>9, <1>10 DEF q, n

\* A plan put together from parts is sound when its parts are.
LEMMA FlatSound ==
  ASSUME NEW C, NEW order, NEW S, order \in Seq(S), NEW parts, DOMAIN parts = DOMAIN order,
         parts = [i \in DOMAIN order |-> parts[i]],
         \A i \in DOMAIN order : parts[i] \in Seq(C)
  PROVE  FlattenSeq(parts) \in Seq(C)
<1>1. DOMAIN order = 1 .. Len(order) /\ Len(order) \in Nat
  OBVIOUS
<1>2. parts \in [1 .. Len(order) -> Seq(C)]
  BY <1>1
<1>3. parts \in Seq(Seq(C))
  BY <1>1, <1>2, SeqDef
<1>4. PICK f \in [0 .. Len(parts) -> Seq(C)] : FlattenSeq(parts) = f[Len(parts)]
  BY <1>3, Flatten
<1>5. Len(parts) \in 0 .. Len(parts)
  BY <1>3
<1> QED BY <1>4, <1>5

LEMMA CopyRecursiveSound ==
  ASSUME NEW d \in Disks, NEW src \in Path, NEW dst, Plain(dst)
  PROVE  copy_recursive(d, src, dst) \in Seq(Sound)
<1> DEFINE mine == {p \in Below(d, src) : TMP \notin {p[i] : i \in DOMAIN p}}
           order == SetToSeq(mine)
           to(p) == dst \o drop(p, Len(src))
           part(p) == IF d[p] = DirNode THEN IF is_file(d, to(p)) THEN Fails ELSE <<Do("mkdir", to(p), Absent)>>
                      ELSE IF is_dir_node(d, to(p)) THEN Fails
                      ELSE <<Do("mkdir", Front(to(p)), Absent)>> \o write_file(to(p), d[p])
           parts == [i \in DOMAIN order |-> part(order[i])]
<1>1. /\ copy_recursive(d, src, dst) \in {Fails, FlattenSeq(parts)}
  BY DEF copy_recursive
<1>2. mine \subseteq DOMAIN d /\ \A p \in mine : IsPrefix(src, p)
  BY DEF Below
<1> HIDE DEF mine
<1>3. IsFiniteSet(mine)
  BY <1>2, DiskIs, FS_Subset
<1>4. order \in Seq(mine)
  BY <1>3, Ordered
<1> HIDE DEF order
<1>5. ASSUME NEW p \in mine PROVE part(p) \in Seq(Sound)
  <2> DEFINE q == to(p)
  <2>1. q = CopyTo(p, src, dst) /\ p \in DOMAIN d
    BY <1>2 DEF CopyTo
  <2>2. q \in Path /\ (d[p] = DirNode => Plain(q)) /\ (q # <<>> => Plain(Front(q))) /\ d[p] \in Stored \cup {DirNode}
    BY <1>2, <2>1, CopyToIs, DiskIs
  <2> HIDE DEF q
  <2> DEFINE m == <<Do("mkdir", q, Absent)>>
             f == <<Do("mkdir", Front(q), Absent)>>
             w == write_file(q, d[p])
  <2>3. part(p) = IF d[p] = DirNode THEN IF is_file(d, q) THEN Fails ELSE m
                  ELSE IF is_dir_node(d, q) THEN Fails ELSE f \o w
    BY Zenon DEF q
  <2> HIDE DEF part
  <2>4. CASE d[p] = DirNode
    <3>1. m \in Seq(Sound)
      BY <2>2, <2>4, DoSound
    <3> QED BY <2>3, <2>4, <3>1, FailsSound
  <2>5. CASE d[p] # DirNode /\ is_dir_node(d, q)
    BY <2>3, <2>5, FailsSound
  <2>6. CASE d[p] # DirNode /\ ~ is_dir_node(d, q)
    <3>1. q # <<>>
      BY <2>6 DEF is_dir_node
    <3>2. f \in Seq(Sound) /\ w \in Seq(Sound)
      BY <2>2, <2>6, <3>1, DoSound, WriteFileSound
    <3>3. part(p) = f \o w
      BY <2>3, <2>6
    <3> HIDE DEF f, w
    <3> QED BY <3>2, <3>3, Joined
  <2> QED BY <2>4, <2>5, <2>6
<1> HIDE DEF part
<1>6. DOMAIN parts = DOMAIN order /\ parts = [i \in DOMAIN order |-> parts[i]]
  OBVIOUS
<1>7. \A i \in DOMAIN order : parts[i] \in Seq(Sound)
  BY <1>4, <1>5
<1> HIDE DEF parts
<1>8. FlattenSeq(parts) \in Seq(Sound)
  BY <1>4, <1>6, <1>7, FlatSound
<1> QED BY <1>1, <1>8, FailsSound

LEMMA MemberKey ==
  ASSUME NEW k \in Word
  PROVE  /\ Append(k, OBJ_SEP) \in Word
         /\ Plain(node_path(k)) /\ node_path(k) \in Path
         /\ Plain(node_path(Append(k, OBJ_SEP))) /\ node_path(Append(k, OBJ_SEP)) \in Path
<1>1. Append(k, OBJ_SEP) \in Word
  BY SepsDiffer DEF Word
<1> QED BY <1>1, NodePath DEF Plain

LEMMA ParentSound ==
  ASSUME NEW d \in Disks, NEW calls \in Seq(Sound), NEW to \in Word
  PROVE  with_parent(d, calls, to) \in Seq(Sound)
<1> DEFINE e == ensure_dir(After(d, calls), parent_name(to))
<1>1. e \in Seq(Sound)
  BY AfterDisk, ParentType, EnsureDirSound
<1>2. with_parent(d, calls, to) = calls \o e
  BY DEF with_parent
<1> HIDE DEF e
<1> QED BY <1>1, <1>2, Joined

LEMMA CpTreeSound ==
  ASSUME NEW d \in Disks, NEW s, Typed(s), NEW from \in Word, NEW to \in Word
  PROVE  cp_tree_calls(d, s, from, to) \in Seq(Sound)
<1> DEFINE r == del_tree_calls(d, s, to)
           e == After(d, r)
           a == copy_recursive(e, node_path(from), node_path(to))
           b == copy_recursive(e, node_path(Append(from, OBJ_SEP)), node_path(Append(to, OBJ_SEP)))
           c == cp_tree_after(d, r, from, to)
<1>1. r \in Seq(Sound)
  BY DelTreeSound
<1>2. c = r \o (a \o b)
  BY DEF cp_tree_after, cp_tree_copies
<1>3. cp_tree_calls(d, s, from, to) = with_parent(d, c, to)
  BY DEF cp_tree_calls
<1> HIDE DEF r
<1>4. e \in Disks
  BY <1>1, AfterDisk
<1> HIDE DEF e
<1>5. a \in Seq(Sound) /\ b \in Seq(Sound)
  BY <1>4, MemberKey, CopyRecursiveSound
<1> HIDE DEF a, b
<1>6. r \o (a \o b) \in Seq(Sound)
  BY <1>1, <1>5, Joined
<1> HIDE DEF c
<1> QED BY <1>2, <1>3, <1>6, ParentSound

LEMMA MembersSound ==
  ASSUME NEW d \in Disks, NEW calls \in Seq(Sound), NEW from \in Word, NEW to \in Word
  PROVE  cp_list_members(d, calls, from, to) \in Seq(Sound)
<1> DEFINE smem == node_path(Append(from, OBJ_SEP))
           dmem == node_path(Append(to, OBJ_SEP))
           direct == {p \in Below(d, smem) : /\ is_file(d, p) /\ Last(p) # TMP
                                             /\ \/ Len(p) = Len(smem) + 1
                                                \/ Len(p) = Len(smem) + 2 /\ Last(p) \in {SELF_MARKER, DIR_MARKER}}
           order == SetToSeq(direct)
           target(p) == dmem \o drop(p, Len(smem))
           part(p) == <<Do("mkdir", Front(target(p)), Absent)>> \o write_file(target(p), d[p])
           parts == [i \in DOMAIN order |-> part(order[i])]
           m == IF is_dir_node(d, smem) THEN <<Do("mkdir", dmem, Absent)>> ELSE <<>>
<1>1. cp_list_members(d, calls, from, to) = calls \o m \o FlattenSeq(parts)
  BY Zenon DEF cp_list_members
<1>2. Plain(dmem) /\ smem \in Path /\ Len(smem) \in Nat /\ Len(dmem) \in Nat
  BY MemberKey DEF Path, Plain
<1>3. m \in Seq(Sound)
  <2>1. <<Do("mkdir", dmem, Absent)>> \in Seq(Sound)
    BY <1>2, DoSound
  <2> QED BY <2>1
<1> HIDE DEF smem, dmem, m
<1>4. \A p \in direct : p \in DOMAIN d /\ IsPrefix(smem, p) /\ is_file(d, p) /\ Len(p) > Len(smem)
  BY <1>2 DEF Below
<1> HIDE DEF direct
<1>5. IsFiniteSet(direct)
  <2>1. direct \subseteq DOMAIN d
    BY <1>4
  <2> QED BY <2>1, DiskIs, FS_Subset
<1>6. order \in Seq(direct)
  BY <1>5, Ordered
<1> HIDE DEF order
<1>7. ASSUME NEW p \in direct PROVE part(p) \in Seq(Sound)
  <2> DEFINE q == target(p)
  <2>1. q = CopyTo(p, smem, dmem) /\ p \in DOMAIN d /\ Len(p) \in Nat /\ d[p] \in Stored
    BY <1>4, DiskIs DEF CopyTo, is_file, Path
  <2>2. q \in Path /\ Len(q) = Len(dmem) + (Len(p) - Len(smem)) /\ (q # <<>> => Plain(Front(q)))
    BY <1>2, <1>4, <2>1, CopyToIs
  <2> HIDE DEF q
  <2>3. q # <<>>
    <3>1. Len(q) # 0
      BY <1>2, <1>4, <2>1, <2>2
    <3> QED BY <2>2, <3>1
  <2> DEFINE f == <<Do("mkdir", Front(q), Absent)>>
             w == write_file(q, d[p])
  <2>4. f \in Seq(Sound) /\ w \in Seq(Sound)
    BY <2>1, <2>2, <2>3, DoSound, WriteFileSound
  <2>5. part(p) = f \o w
    BY Zenon DEF q
  <2> HIDE DEF f, w, part
  <2> QED BY <2>4, <2>5, Joined
<1> HIDE DEF part
<1>8. DOMAIN parts = DOMAIN order /\ parts = [i \in DOMAIN order |-> parts[i]]
  OBVIOUS
<1>9. \A i \in DOMAIN order : parts[i] \in Seq(Sound)
  BY <1>6, <1>7
<1> HIDE DEF parts
<1>10. FlattenSeq(parts) \in Seq(Sound)
  BY <1>6, <1>8, <1>9, FlatSound
<1> QED BY <1>1, <1>3, <1>10, Joined

LEMMA CpListSound ==
  ASSUME NEW d \in Disks, NEW s, Typed(s), NEW from \in Word, NEW to \in Word
  PROVE  cp_list_calls(d, s, from, to) \in Seq(Sound)
<1> DEFINE r == del_tree_calls(d, s, to)
           e == After(d, r)
           w == IF read_leaf(e, from) = Absent THEN <<>> ELSE write_leaf(e, to, read_leaf(e, from))
           first == cp_list_value(e, r, from, to)
           c == cp_list_members(After(d, first), first, from, to)
<1>1. r \in Seq(Sound)
  BY DelTreeSound
<1>2. cp_list_calls(d, s, from, to) = with_parent(d, c, to)
  BY DEF cp_list_calls, cp_list_after
<1>3. first = r \o w
  BY DEF cp_list_value
<1> HIDE DEF r
<1>4. e \in Disks
  BY <1>1, AfterDisk
<1> HIDE DEF e
<1>5. w \in Seq(Sound)
  BY <1>4, ReadType, WriteLeafSound
<1> HIDE DEF w, first
<1>6. first \in Seq(Sound)
  BY <1>1, <1>3, <1>5, Joined
<1>7. c \in Seq(Sound)
  BY <1>6, AfterDisk, MembersSound
<1> QED BY <1>2, <1>7, ParentSound

-----------------------------------------------------------------------------
\* The disk keeps its shape.

LEMMA LocateIs ==
  ASSUME NEW s, NEW k, locate(s, k) # <<>>
  PROVE  locate(s, k) \in DOMAIN s
<1> DEFINE dir == resolve_path(s, parent_dir(k))
           last == sep_path(k).last
           full == join_path(dir, last)
           ext == prefix_ext(s, dir)
<1>1. locate(s, k) = locate_in(s, k, dir)
  BY DEF locate
<1> HIDE DEF dir
<1>2. CASE is_reserved(k) \/ is_reserved(full)
  BY <1>1, <1>2 DEF locate_in
<1>3. CASE ~ (is_reserved(k) \/ is_reserved(full)) /\ full \in DOMAIN s
  BY <1>1, <1>3 DEF locate_in
<1>4. CASE ~ (is_reserved(k) \/ is_reserved(full)) /\ full \notin DOMAIN s
  BY <1>1, <1>4 DEF locate_in
<1> QED BY <1>2, <1>3, <1>4

\* A part that fits leaves a value of the same kind and length.
LEMMA PartIs ==
  ASSUME NEW s, Typed(s), NEW key \in Word, NEW off \in 0 .. 1, NEW buf \in Word, set_part(s, key, off, buf).ok
  PROVE  LET k == locate(s, key)
             v == set_part(s, key, off, buf).store[k]
         IN /\ k \in DOMAIN s /\ k \in Word
            /\ s[k] \in Stored => v \in Stored /\ v.kind = s[k].kind /\ Len(v.body) = Len(s[k].body)
            /\ s[k] = Absent => DOMAIN v.body = {}
<1> DEFINE k == locate(s, key)
           old == s[k].body
           new == [i \in DOMAIN old |-> IF i \in off + 1 .. off + Len(buf) THEN buf[i - off] ELSE old[i]]
           t == [s EXCEPT ![k].body = new]
           r == set_part(s, key, off, buf)
           v == r.store[k]
<1>1. r = IF k = <<>> THEN Err(s) ELSE IF off + Len(buf) > Len(old) THEN Err(s) ELSE Ok(t)
  BY DEF set_part, overwrite
<1>2. k \in Word
  BY LocateType
<1>3. r.ok
  OBVIOUS
<1> HIDE DEF r
<1>4. k # <<>> /\ ~ (off + Len(buf) > Len(old)) /\ r = Ok(t)
  <2> HIDE DEF t, old
  <2> QED BY <1>1, <1>3 DEF Err, Ok
<1>5. k \in DOMAIN s
  BY <1>4, LocateIs
<1>6. s[k] \in Stored \cup {Absent}
  BY <1>5 DEF Typed
<1>7. r.store = t
  <2> HIDE DEF t
  <2> QED BY <1>4 DEF Ok
<1> HIDE DEF k
<1>8. v = [s[k] EXCEPT !.body = new]
  <2> HIDE DEF new
  <2> QED BY <1>5, <1>7
<1>9. ASSUME s[k] \in Stored PROVE v \in Stored /\ v.kind = s[k].kind /\ Len(v.body) = Len(s[k].body)
  <2>1. old \in Word /\ DOMAIN old = 1 .. Len(old) /\ Len(old) \in Nat /\ \A i \in 1 .. Len(old) : old[i] \in Letters
    BY <1>9, LenIs DEF Stored
  <2>2. Len(buf) \in Nat /\ \A i \in 1 .. Len(buf) : buf[i] \in Letters
    BY LenIs
  <2> HIDE DEF old
  <2>3. \A i \in DOMAIN old : i \in off + 1 .. off + Len(buf) => i - off \in 1 .. Len(buf)
    BY <2>1, <2>2
  <2>4. new \in [1 .. Len(old) -> Letters]
    BY <2>1, <2>2, <2>3
  <2> HIDE DEF new
  <2>5. new \in Word /\ Len(new) = Len(old)
    BY <2>1, <2>4 DEF Word
  <2> QED BY <1>8, <1>9, <2>5 DEF Stored, old
<1>10. s[k] = Absent => DOMAIN v.body = {}
  <2> SUFFICES ASSUME s[k] = Absent PROVE DOMAIN v.body = {}
    OBVIOUS
  <2>1. DOMAIN old = {}
    BY DEF Absent
  <2>2. v.body = new
    <3> HIDE DEF new
    <3> QED BY <1>8 DEF Absent
  <2> HIDE DEF old
  <2> QED BY <2>1, <2>2
<1> HIDE DEF v, r
<1>11. k \in DOMAIN s /\ k \in Word /\ (s[k] \in Stored => v \in Stored /\ v.kind = s[k].kind /\ Len(v.body) = Len(s[k].body))
       /\ (s[k] = Absent => DOMAIN v.body = {})
  BY <1>2, <1>5, <1>9, <1>10
<1> QED BY <1>11 DEF v, r, k

\* What fits, fits with its first n bytes only.
LEMMA PartShort ==
  ASSUME NEW s, NEW key, NEW off \in 0 .. 1, NEW buf \in Word, set_part(s, key, off, buf).ok, NEW n \in 1 .. Len(buf)
  PROVE  SubSeq(buf, 1, n) \in Word /\ set_part(s, key, off, SubSeq(buf, 1, n)).ok
<1> DEFINE k == locate(s, key)
           old == s[k].body
           fits(b) == k # <<>> /\ ~ (off + Len(b) > Len(old))
           short == SubSeq(buf, 1, n)
<1>1. ASSUME NEW b PROVE set_part(s, key, off, b).ok <=> fits(b)
  <2> DEFINE t == [s EXCEPT ![k].body = [i \in DOMAIN old |-> IF i \in off + 1 .. off + Len(b) THEN b[i - off] ELSE old[i]]]
             r == set_part(s, key, off, b)
  <2>1. r = IF k = <<>> THEN Err(s) ELSE IF off + Len(b) > Len(old) THEN Err(s) ELSE Ok(t)
    BY DEF set_part, overwrite
  <2> HIDE DEF t, k, old, r
  <2>2. CASE fits(b)
    BY <2>1, <2>2 DEF Ok, r
  <2>3. CASE ~ fits(b)
    BY <2>1, <2>3 DEF Err, r
  <2> QED BY <2>2, <2>3
<1>2. fits(buf)
  BY <1>1
<1>3. Len(buf) \in Nat /\ short \in Word /\ Len(short) = n
  BY LenIs, CutIs DEF Word
<1> HIDE DEF k, old, short
<1>4. fits(short)
  BY <1>2, <1>3
<1> QED BY <1>1, <1>3, <1>4 DEF short

DiskInv == disk \in Disks /\ tree = view(disk) /\ plan \in Seq(Sound)

LEMMA EmptyDisk == [p \in {} |-> DirNode] \in Disks
<1> DEFINE d == [p \in {} |-> DirNode]
<1>1. d \in [{} -> Stored \cup {DirNode}] /\ IsFiniteSet({})
  BY FS_EmptySet
<1> HIDE DEF d
<1>2. d \in Disks
  BY <1>1, DiskMade
<1> QED BY <1>2 DEF d

LEMMA DiskInit == Init => DiskInv
<1> SUFFICES ASSUME Init PROVE DiskInv
  OBVIOUS
<1>1. disk \in Disks
  BY EmptyDisk DEF Init
<1>2. plan = <<>> /\ tree = view(disk)
  BY DEF Init
<1>3. plan \in Seq(Sound)
  BY <1>2
<1> QED BY <1>1, <1>2, <1>3 DEF DiskInv

LEMMA DiskStart ==
  ASSUME DiskInv, NEW calls, calls # <<>> => calls \in Seq(Sound), NEW w, Start(calls, w)
  PROVE  DiskInv'
<1>1. calls # <<>> /\ plan' = calls /\ disk' = disk /\ tree' = tree
  BY DEF Start
<1> QED BY <1>1 DEF DiskInv

LEMMA DiskOperation ==
  ASSUME DiskInv, Operation
  PROVE  DiskInv'
<1>1. disk \in Disks /\ tree = view(disk) /\ Typed(tree)
  BY ViewTyped DEF DiskInv
<1>2. /\ FsKeys \cup FsDirs \cup FsTrees \subseteq Word
      /\ \A w \in FsWrites : w[1] \in Word /\ w[2] \in Stored
      /\ \A w \in FsCopies \cup FsParts : w[1] \in Word /\ w[2] \in Word
  BY InputsAssumption DEF Stored
<1>3. ASSUME NEW k \in Word, NEW v \in Stored, SetTo(tree, k, v) PROVE DiskInv'
  BY <1>1, <1>3, SetCallsSound, DiskStart DEF SetTo
<1>4. ASSUME NEW w \in FsWrites, FsSet(w[1], w[2]) PROVE DiskInv'
  <2>1. resolve_parent(tree, w[1]) \in Word
    BY <1>1, <1>2, ResolveParentType
  <2> QED BY <1>2, <1>3, <1>4, <2>1 DEF FsSet
<1>5. ASSUME NEW w \in FsParts, NEW off \in 0 .. 1, FsSetPart(w[1], off, w[2]) PROVE DiskInv'
  <2> DEFINE key == w[1]
             whole == set_part(tree, key, off, w[2])
             k == locate(tree, key)
             p == leaf_path(disk, k)
             old == read_leaf(disk, k)
  <2>0. PICK n \in 1 .. Len(w[2]) :
          SetPartOf(k, whole, set_part(tree, key, off, SubSeq(w[2], 1, n)), IF n < Len(w[2]) THEN {k} ELSE {})
    BY <1>5 DEF FsSetPart
  <2> DEFINE buf == SubSeq(w[2], 1, n)
             r == set_part(tree, key, off, buf)
             v == r.store[k]
             calls == in_place(p, old, v)
             loose == IF n < Len(w[2]) THEN {k} ELSE {}
  <2>1. key \in Word /\ buf \in Word /\ r.ok
    BY <1>2, <2>0, PartShort DEF SetPartOf
  <2>2. Start(calls, About(k, {}, v, whole.store, loose))
    BY <2>0 DEF SetPartOf
  <2> HIDE DEF key, buf, loose, whole
  <2>3. /\ k \in DOMAIN tree /\ k \in Word
        /\ tree[k] \in Stored => v \in Stored /\ v.kind = tree[k].kind /\ Len(v.body) = Len(tree[k].body)
        /\ tree[k] = Absent => DOMAIN v.body = {}
    BY <1>1, <2>1, <2>2, PartIs
  <2> HIDE DEF k, r, v
  <2>4. tree[k] = old /\ old \in Stored \cup {Absent}
    BY <1>1, <2>3, ReadType DEF view
  <2>5. p \in Path
    BY <2>3, LeafPathType
  <2>6. CASE old \in Stored
    BY <2>2, <2>3, <2>4, <2>5, <2>6, InPlaceSound, DiskStart
  <2>7. CASE old = Absent
    <3>1. DOMAIN v.body = {}
      BY <2>3, <2>4, <2>7
    <3>2. calls = <<>>
      BY <3>1 DEF in_place
    <3> QED BY <2>2, <3>2, DiskStart
  <2> QED BY <2>4, <2>6, <2>7
<1>6. ASSUME NEW w \in FsCopies, FsCp(w[1], w[2]) PROVE DiskInv'
  <2> DEFINE v == get_raw(tree, w[1])
  <2>1. resolve_parent(tree, w[2]) \in Word
    BY <1>1, <1>2, ResolveParentType
  <2>2. v \in Stored
    BY <1>1, <1>6, LookupType DEF FsCp, get_raw
  <2>3. SetTo(tree, resolve_parent(tree, w[2]), v)
    BY <1>6 DEF FsCp
  <2> HIDE DEF v
  <2> QED BY <1>3, <2>1, <2>2, <2>3
<1>7. ASSUME NEW k \in FsKeys \cup FsDirs, FsDel(k) PROVE DiskInv'
  BY <1>1, <1>2, <1>7, DelCallsSound, DiskStart DEF FsDel, DelOf
<1>8. ASSUME NEW k \in FsKeys \cup FsDirs, FsDelTree(k) PROVE DiskInv'
  BY <1>1, <1>2, <1>8, DelTreeSound, DiskStart DEF FsDelTree, DelTreeOf
<1>9. ASSUME NEW src \in FsTrees, NEW dst \in FsTrees, FsCpTree(src, dst) PROVE DiskInv'
  <2>1. tree_base(tree, src) \in Word /\ tree_base(tree, dst) \in Word
    BY <1>1, <1>2, TreeBaseType
  <2> QED BY <1>1, <1>9, <2>1, CpTreeSound, DiskStart DEF FsCpTree, CpTreeOf
<1>10. ASSUME NEW src \in FsTrees, NEW dst \in FsTrees, FsCpList(src, dst) PROVE DiskInv'
  <2>1. tree_base(tree, src) \in Word /\ tree_base(tree, dst) \in Word
    BY <1>1, <1>2, TreeBaseType
  <2> QED BY <1>1, <1>10, <2>1, CpListSound, DiskStart DEF FsCpList, CpListOf
<1>11. ASSUME NEW dir \in FsDirs, FsMkindex(dir) PROVE DiskInv'
  <2>1. resolve_path(tree, dir) \in Word
    BY <1>1, <1>2, ResolvePathType
  <2> QED BY <1>1, <1>11, <2>1, MarkerCallsSound, DiskStart DEF FsMkindex, MkindexOf
<1>12. ASSUME NEW dir \in FsDirs, FsDelExtIndex(dir) PROVE DiskInv'
  <2>1. resolve_parent(tree, dir) \in Word
    BY <1>1, <1>2, ResolveParentType
  <2> QED BY <1>1, <1>12, <2>1, RemoveLeafSound, DiskStart DEF FsDelExtIndex, DelExtIndexOf
<1>13. ASSUME NEW dir \in FsDirs, NEW ext \in FsDirs, FsExtIndex(dir, ext) PROVE DiskInv'
  <2> DEFINE k == resolve_parent(tree, dir)
             r == ext_index(tree, dir, ext)
  <2>1. k \in Word
    BY <1>1, <1>2, ResolveParentType
  <2>2. ExtLocator(ext) \in Stored
    BY <1>2 DEF ExtLocator, Stored, Kinds
  <2>3. ExtIndexOf(r, k, ext)
    BY <1>13 DEF FsExtIndex
  <2> HIDE DEF k, r
  <2> QED BY <1>1, <2>1, <2>2, <2>3, LocatorCallsSound, DiskStart DEF ExtIndexOf
<1>14. ASSUME FsClear PROVE DiskInv'
  <2> DEFINE ps == {p \in DOMAIN disk : Len(p) = 1}
  <2>1. IsFiniteSet(ps) /\ ps \subseteq Path
    BY <1>1, DiskIs, FS_Subset
  <2>2. Start(removals(ps), AboutTree(<<>>, Drop(tree, DOMAIN tree), {}))
    BY <1>14 DEF FsClear
  <2> HIDE DEF ps
  <2> QED BY <2>1, <2>2, RemovalsSound, DiskStart
<1> QED BY <1>4, <1>5, <1>6, <1>7, <1>8, <1>9, <1>10, <1>11, <1>12, <1>13, <1>14 DEF Operation

LEMMA DiskStep ==
  ASSUME DiskInv, Step
  PROVE  DiskInv'
<1>1. disk \in Disks /\ plan \in Seq(Sound) /\ plan # <<>>
  BY DEF DiskInv, Step
<1>2. Head(plan) \in Sound /\ Tail(plan) \in Seq(Sound)
  BY <1>1
<1>3. CASE Head(plan).call = "remove" /\ RemoveStep(Head(plan).at) /\ Ending
  <2>1. PICK x \in Below(disk, Head(plan).at) :
          Below(disk, x) = {x} /\ disk' = Drop(disk, {x}) /\ tree' = view(disk') /\ plan' \in {Tail(plan), plan}
    BY <1>3 DEF RemoveStep
  <2>2. x \in DOMAIN disk
    BY DEF Below
  <2>3. \A y \in DOMAIN disk \ {x} : Front(y) \notin {x}
    BY <1>1, <2>1, <2>2, DiskIs, PrefixFront DEF Below
  <2>4. Drop(disk, {x}) \in Disks
    BY <1>1, <2>3, DropDisk
  <2> QED BY <1>1, <1>2, <2>1, <2>4 DEF DiskInv
<1>4. CASE Head(plan).call = "fail" /\ plan' = <<>> /\ work' = Quiet(tree) /\ UNCHANGED <<disk, tree>>
  BY <1>4 DEF DiskInv
<1>5. CASE /\ Head(plan).call \notin {"remove", "fail"}
           /\ disk' = After1(disk, Head(plan)) /\ tree' = view(disk') /\ plan' = Tail(plan) /\ Ending
  <2>1. After1(disk, Head(plan)) \in Disks
    BY <1>1, <1>2, After1Disk
  <2> QED BY <1>2, <1>5, <2>1 DEF DiskInv
<1> QED BY <1>3, <1>4, <1>5 DEF Step

LEMMA DiskNext == DiskInv /\ [Next]_vars => DiskInv'
<1> SUFFICES ASSUME DiskInv, [Next]_vars PROVE DiskInv'
  OBVIOUS
<1>1. CASE plan = <<>> /\ Operation
  BY <1>1, DiskOperation
<1>2. CASE Step
  BY <1>2, DiskStep
<1>3. CASE Crash
  BY <1>3 DEF Crash, DiskInv
<1>4. CASE UNCHANGED vars
  BY <1>4 DEF vars, DiskInv
<1> QED BY <1>1, <1>2, <1>3, <1>4 DEF Next

LEMMA DiskTypeOK == DiskInv => TypeOK
BY DiskIs DEF DiskInv, TypeOK, Marks

LEMMA DiskAlways == Spec => []DiskInv
BY DiskInit, DiskNext, PTL DEF Spec

\* Type: whatever is set, copied and deleted, and at whatever call the process
\* dies, every file lies in a directory, and what is named like a marker or a
\* temporary file is a file.
THEOREM DiskShaped == Spec => []TypeOK
BY DiskAlways, DiskTypeOK, PTL

-----------------------------------------------------------------------------
\* A value that is replaced stays whole.

\* L is where the value of key lies on some disk.
Leaf(L, key) ==
  \/ L = Append(node_path(key), leaf_marker(key))
  \/ L = node_path(key) /\ ~ is_dir(key)

\* The disks with one of the values of G in the file L, and the calls that keep it so.
Kept(L, G) == {d \in Disks : L \in DOMAIN d /\ d[L] \in G}
Gentle(L, G) == {c \in Sound : /\ c.call = "remove" => ~ IsPrefix(c.at, L)
                               /\ c.call \in {"write", "byte", "rename"} => c.at # L \/ c.val \in G}

\* Where a value lies does not change while its file is there.
LEMMA LeafIs ==
  ASSUME NEW key \in Word
  PROVE  /\ \A d \in Disks : is_file(d, leaf_path(d, key)) => Leaf(leaf_path(d, key), key)
         /\ \A d \in Disks : \A L : Leaf(L, key) /\ is_file(d, L) => leaf_path(d, key) = L
         /\ \A L : Leaf(L, key) => L \in Path /\ (L # <<>> => Last(L) # TMP)
<1> DEFINE N == node_path(key)
           M == Append(N, leaf_marker(key))
<1>1. Plain(N) /\ N \in Path
  BY NodePath DEF Plain
<1>2. leaf_marker(key) \in Word /\ leaf_marker(key) # TMP
  BY MarksAre DEF leaf_marker
<1>3. M \in Path /\ Front(M) = N /\ Last(M) = leaf_marker(key)
  BY <1>1, <1>2, AppendPath
<1>4. N # <<>> => Last(N) # TMP
  <2> SUFFICES ASSUME N # <<>> PROVE Last(N) # TMP
    OBVIOUS
  <2>1. Last(N) = N[Len(N)] /\ Len(N) \in Nat /\ Len(N) >= 1
    BY <1>1, FrontIs DEF Path
  <2> QED BY <1>1, <2>1 DEF Plain, Marks
<1>5. \A d : leaf_path(d, key) = IF is_dir_node(d, N) THEN M ELSE IF is_dir(key) THEN <<>> ELSE N
  BY DEF leaf_path
<1>6. \A L : Leaf(L, key) <=> L = M \/ (L = N /\ ~ is_dir(key))
  BY DEF Leaf
<1> HIDE DEF M, N
<1>7. ASSUME NEW d \in Disks, is_file(d, leaf_path(d, key)) PROVE Leaf(leaf_path(d, key), key)
  <2>1. leaf_path(d, key) # <<>>
    BY <1>7, DiskIs DEF is_file
  <2> QED BY <1>5, <1>6, <2>1
<1>8. ASSUME NEW d \in Disks, NEW L, Leaf(L, key), is_file(d, L) PROVE leaf_path(d, key) = L
  <2>1. CASE L = M
    <3>1. is_dir_node(d, N)
      BY <1>3, <1>8, <2>1, DiskIs DEF is_file
    <3> QED BY <1>5, <2>1, <3>1
  <2>2. CASE L = N /\ ~ is_dir(key)
    <3>1. ~ is_dir_node(d, N)
      BY <1>8, <2>2, DiskIs DEF is_file, is_dir_node
    <3> QED BY <1>5, <2>2, <3>1
  <2> QED BY <1>6, <1>8, <2>1, <2>2
<1>9. \A L : Leaf(L, key) => L \in Path /\ (L # <<>> => Last(L) # TMP)
  BY <1>1, <1>2, <1>3, <1>4, <1>6
<1> QED BY <1>7, <1>8, <1>9

LEMMA KeptIs ==
  ASSUME NEW L, NEW G, G \subseteq Stored, NEW d \in Kept(L, G)
  PROVE  d \in Disks /\ L \in DOMAIN d /\ d[L] \in G /\ is_file(d, L) /\ ~ is_dir_node(d, L) /\ L \in Path /\ L # <<>>
BY NotStored, DiskIs DEF Kept, is_file, is_dir_node

LEMMA GentleMkdirs ==
  ASSUME NEW L, NEW G, G \subseteq Stored, NEW d \in Kept(L, G), NEW p, Plain(p)
  PROVE  mkdirs(d, p) \in Kept(L, G)
<1>1. L \in DOMAIN d /\ d[L] \in G /\ is_file(d, L) /\ mkdirs(d, p) \in Disks
  BY KeptIs, DirsDisk
<1> DEFINE up == {SubSeq(p, 1, i) : i \in 1 .. Len(p)}
<1>2. mkdirs(d, p) = IF \E x \in up : is_file(d, x) THEN d ELSE AddDirs(d, up)
  BY DEF mkdirs
<1> HIDE DEF up
<1>3. CASE \E x \in up : is_file(d, x)
  BY <1>2, <1>3
<1>4. CASE ~ \E x \in up : is_file(d, x)
  <2>1. L \notin up
    BY <1>1, <1>4
  <2>2. L \in DOMAIN AddDirs(d, up) /\ AddDirs(d, up)[L] = d[L]
    BY <1>1, <2>1 DEF AddDirs
  <2> QED BY <1>1, <1>2, <1>4, <2>2 DEF Kept
<1> QED BY <1>3, <1>4

LEMMA GentleCall ==
  ASSUME NEW L, NEW G, G \subseteq Stored, Last(L) # TMP, NEW d \in Kept(L, G), NEW c \in Gentle(L, G)
  PROVE  After1(d, c) \in Kept(L, G)
<1>1. d \in Disks /\ L \in DOMAIN d /\ d[L] \in G /\ is_file(d, L)
  BY KeptIs
<1>2. c \in Sound /\ (c.call = "remove" => ~ IsPrefix(c.at, L)) /\ (c.call \in {"write", "byte", "rename"} => c.at # L \/ c.val \in G)
  BY DEF Gentle
<1>3. c.at \in Path /\ (c.call = "mkdir" => Plain(c.at))
  BY <1>2 DEF Sound
<1>4. After1(d, c) \in Disks
  BY <1>1, <1>2, After1Disk
<1>5. \A p \in Path : Append(p, TMP) # L
  BY AppendPath, MarksAre
<1>6. CASE c.call = "mkdir"
  <2>1. After1(d, c) = mkdirs(d, c.at)
    BY <1>6 DEF After1
  <2> QED BY <1>3, <1>6, <2>1, GentleMkdirs
<1>7. CASE c.call \in {"write", "byte"} /\ is_dir_node(d, Front(c.at)) /\ ~ is_dir_node(d, c.at)
  <2>1. After1(d, c) = Put(d, c.at, c.val)
    BY <1>7 DEF After1
  <2>2. L \in DOMAIN Put(d, c.at, c.val) /\ Put(d, c.at, c.val)[L] \in G
    BY <1>1, <1>2, <1>7 DEF Put
  <2> QED BY <1>4, <2>1, <2>2 DEF Kept
<1>8. CASE c.call = "tmp" /\ is_dir_node(d, c.at)
  <2> DEFINE t == Append(c.at, TMP)
  <2>1. After1(d, c) = Put(d, t, c.val) /\ t # L
    BY <1>3, <1>5, <1>8 DEF After1
  <2> HIDE DEF t
  <2>2. L \in DOMAIN Put(d, t, c.val) /\ Put(d, t, c.val)[L] \in G
    BY <1>1, <2>1 DEF Put
  <2> QED BY <1>4, <2>1, <2>2 DEF Kept
<1>9. CASE c.call = "rename" /\ is_file(d, Append(Front(c.at), TMP)) /\ ~ is_dir_node(d, c.at)
  <2> DEFINE t == Append(Front(c.at), TMP)
             e == Drop(d, {t})
  <2>1. After1(d, c) = Put(e, c.at, c.val)
    BY <1>9 DEF After1
  <2>2. c.at # <<>>
    BY <1>9 DEF is_dir_node
  <2>3. Front(c.at) \in Path
    BY <1>3, <2>2, FrontIs DEF Path
  <2>4. t # L
    BY <1>5, <2>3
  <2> HIDE DEF t
  <2>5. L \in DOMAIN e /\ e[L] = d[L]
    BY <1>1, <2>4 DEF Drop
  <2> HIDE DEF e
  <2>6. L \in DOMAIN Put(e, c.at, c.val) /\ Put(e, c.at, c.val)[L] \in G
    BY <1>1, <1>2, <1>9, <2>5 DEF Put
  <2> QED BY <1>4, <2>1, <2>6 DEF Kept
<1>10. CASE c.call = "remove"
  <2> DEFINE ks == Below(d, c.at)
  <2>1. After1(d, c) = Drop(d, ks) /\ L \notin ks
    BY <1>2, <1>10 DEF After1, Below
  <2> HIDE DEF ks
  <2>2. L \in DOMAIN Drop(d, ks) /\ Drop(d, ks)[L] = d[L]
    BY <1>1, <2>1 DEF Drop
  <2> QED BY <1>1, <1>4, <2>1, <2>2 DEF Kept
<1>11. CASE /\ c.call \notin {"mkdir", "remove"}
            /\ ~ (c.call \in {"write", "byte"} /\ is_dir_node(d, Front(c.at)) /\ ~ is_dir_node(d, c.at))
            /\ ~ (c.call = "tmp" /\ is_dir_node(d, c.at))
            /\ ~ (c.call = "rename" /\ is_file(d, Append(Front(c.at), TMP)) /\ ~ is_dir_node(d, c.at))
  <2>1. After1(d, c) = d
    BY <1>11 DEF After1
  <2> QED BY <2>1
<1> QED BY <1>6, <1>7, <1>8, <1>9, <1>10, <1>11

LEMMA GentleAfter ==
  ASSUME NEW L, NEW G, G \subseteq Stored, Last(L) # TMP, NEW d \in Kept(L, G), NEW calls \in Seq(Gentle(L, G))
  PROVE  After(d, calls) \in Kept(L, G)
BY GentleCall, AfterKeeps

\* A file is not above another node.
LEMMA FileAside ==
  ASSUME NEW d \in Disks, NEW M \in DOMAIN d, NEW L \in DOMAIN d, d[M] # DirNode, M # L
  PROVE  ~ IsPrefix(M, L) /\ Append(M, SELF_MARKER) # L
<1>1. M \in Seq(Word) /\ L \in Seq(Word) /\ M # <<>> /\ M \in Path
  BY DiskIs DEF Path
<1>2. ~ IsPrefix(M, L)
  <2> SUFFICES ASSUME IsPrefix(M, L) PROVE FALSE
    OBVIOUS
  <2>1. Len(M) <= Len(L) /\ (\A i \in 1 .. Len(M) : M[i] = L[i]) /\ Len(M) \in Nat /\ Len(L) \in Nat /\ Len(M) # 0
    BY <1>1, PrefixIs
  <2>2. Len(M) # Len(L)
    BY <1>1, <2>1, SeqEqual
  <2> DEFINE n == Len(M)
             q == SubSeq(L, 1, n)
  <2>3. n \in 1 .. Len(L) - 1 /\ n \in 1 .. Len(L)
    BY <2>1, <2>2
  <2> HIDE DEF n
  <2>4. d[q] = DirNode
    BY <2>3, Above
  <2>5. q \in Seq(Word) /\ Len(q) = n /\ \A i \in 1 .. n : q[i] = L[i]
    BY <1>1, <2>3
  <2> HIDE DEF q
  <2>6. Len(q) = Len(M) /\ \A i \in 1 .. Len(M) : q[i] = M[i]
    BY <2>1, <2>5 DEF n
  <2>7. q = M
    BY <1>1, <2>5, <2>6, SeqEqual
  <2> QED BY <2>4, <2>7
<1> QED BY <1>1, <1>2, AppendPath, MarksAre

\* Making a directory of another node leaves the file L alone.
LEMMA EnsureGentle ==
  ASSUME NEW L, NEW G, G \subseteq Stored, NEW d \in Kept(L, G), NEW key \in Word,
         is_file(d, node_path(key)) => node_path(key) # L
  PROVE  ensure_dir(d, key) \in Seq(Gentle(L, G))
<1> DEFINE M == node_path(key)
           S == Append(M, SELF_MARKER)
           m == Do("mkdir", M, Absent)
           r == Do("remove", M, Absent)
           w1 == Do("write", S, Truncated)
           w2 == Do("write", S, d[M])
<1>1. Plain(M) /\ M \in Path /\ d \in Disks /\ L \in DOMAIN d /\ is_file(d, L)
  BY NodePath, KeptIs DEF Plain
<1>2. m \in Gentle(L, G)
  <2>1. m \in Sound /\ m.call = "mkdir"
    BY <1>1, DoSound DEF Do
  <2> QED BY <2>1 DEF Gentle
<1>3. CASE is_file(d, M)
  <2>1. M \in DOMAIN d /\ d[M] # DirNode /\ d[M] \in Stored
    BY <1>1, <1>3, DiskIs DEF is_file
  <2>2. M # L
    BY <1>3
  <2>3. ~ IsPrefix(M, L) /\ S # L /\ S \in Path
    BY <1>1, <2>1, <2>2, FileAside, AppendPath, MarksAre
  <2>4. r \in Sound /\ w1 \in Sound /\ w2 \in Sound
    BY <1>1, <2>1, <2>3, DoSound, NotStored
  <2>5. r.call = "remove" /\ r.at = M /\ w1.call = "write" /\ w1.at = S /\ w2.call = "write" /\ w2.at = S
    BY DEF Do
  <2>6. ensure_dir(d, key) = <<r, m>> \o <<w1, w2>>
    BY <1>3 DEF ensure_dir, write_file
  <2> HIDE DEF r, w1, w2, m, S, M
  <2>7. r \in Gentle(L, G) /\ w1 \in Gentle(L, G) /\ w2 \in Gentle(L, G)
    BY <2>3, <2>4, <2>5 DEF Gentle
  <2>8. <<r, m>> \in Seq(Gentle(L, G)) /\ <<w1, w2>> \in Seq(Gentle(L, G))
    BY <1>2, <2>7
  <2> QED BY <2>6, <2>8, Joined
<1>4. CASE ~ is_file(d, M)
  <2>1. ensure_dir(d, key) = <<m>>
    BY <1>4 DEF ensure_dir
  <2> HIDE DEF m
  <2> QED BY <1>2, <2>1
<1> QED BY <1>3, <1>4

\* Whole values: the old one, the new one, or as long as the old one and each
\* byte of it from one of them.
Whole(old, new) ==
  {v \in Stored : \/ v \in {old, new}
                  \/ /\ v.kind = old.kind /\ Len(v.body) = Len(old.body)
                     /\ \A i \in DOMAIN v.body : v.body[i] \in {old.body[i], new.body[i]}}

LEMMA Wider ==
  ASSUME NEW L, NEW old \in Stored, NEW new
  PROVE  /\ old \in Whole(old, new) /\ Whole(old, new) \subseteq Stored
         /\ Kept(L, {old}) \subseteq Kept(L, Whole(old, new))
         /\ Seq(Gentle(L, {old})) \subseteq Seq(Gentle(L, Whole(old, new)))
<1>1. old \in Whole(old, new) /\ Whole(old, new) \subseteq Stored
  BY DEF Whole
<1> DEFINE G == Whole(old, new)
           A == Gentle(L, {old})
           B == Gentle(L, G)
<1>2. Kept(L, {old}) \subseteq Kept(L, G)
  BY <1>1 DEF Kept
<1>3. A \subseteq B
  <2> HIDE DEF G
  <2> QED BY <1>1 DEF Gentle, G
<1>4. Seq(A) \subseteq Seq(B)
  <2> HIDE DEF A, B
  <2> QED BY <1>3
<1> QED BY <1>1, <1>2, <1>4

LEMMA InPlaceGentle ==
  ASSUME NEW L \in Path, NEW old \in Stored, NEW v \in Stored, v.kind = old.kind, Len(v.body) = Len(old.body)
  PROVE  in_place(L, old, v) \in Seq(Gentle(L, Whole(old, v)))
<1> DEFINE G == Whole(old, v)
           n == Len(v.body)
<1>1. ASSUME NEW i \in 1 .. n PROVE Do("byte", L, Mixed(v, old, i)) \in Gentle(L, G)
  <2> DEFINE x == Mixed(v, old, i)
             c == Do("byte", L, x)
  <2>1. /\ x \in Stored /\ x.kind = v.kind /\ Len(x.body) = Len(old.body)
        /\ \A j \in 1 .. Len(old.body) : x.body[j] \in {old.body[j], v.body[j]}
    BY MixedIs
  <2> HIDE DEF x
  <2>2. DOMAIN x.body = 1 .. Len(old.body)
    <3>1. x.body \in Word
      BY <2>1 DEF Stored
    <3> QED BY <2>1, <3>1, LenIs
  <2>3. x \in G
    BY <2>1, <2>2 DEF Whole
  <2>4. c \in Sound /\ c.call = "byte" /\ c.val = x
    BY <2>1, DoSound DEF Do
  <2> HIDE DEF c, G
  <2>5. c \in Gentle(L, G)
    BY <2>3, <2>4 DEF Gentle
  <2> QED BY <2>5 DEF c, x
<1> HIDE DEF G
<1>2. in_place(L, old, v) \in Seq(Gentle(L, G))
  BY <1>1, InPlaceIs
<1> QED BY <1>2 DEF G

LEMMA AtomicGentle ==
  ASSUME NEW L, NEW old \in Stored, NEW v \in Stored, NEW d \in Kept(L, {old})
  PROVE  write_atomic(d, L, v) \in Seq(Gentle(L, Whole(old, v)))
<1> DEFINE G == Whole(old, v)
<1>1. d \in Disks /\ L \in DOMAIN d /\ d[L] = old /\ is_file(d, L) /\ L \in Path /\ L # <<>>
  BY KeptIs
<1>2. CASE old.kind = v.kind /\ Len(old.body) = Len(v.body)
  <2>1. write_atomic(d, L, v) = in_place(L, old, v)
    BY <1>1, <1>2 DEF write_atomic
  <2> QED BY <1>1, <1>2, <2>1, InPlaceGentle
<1>3. CASE ~ (old.kind = v.kind /\ Len(old.body) = Len(v.body))
  <2> DEFINE t == Do("tmp", Front(L), v)
             r == Do("rename", L, v)
  <2>1. write_atomic(d, L, v) = IF ~ is_dir_node(d, Front(L)) THEN Fails ELSE <<t, r>>
    BY <1>1, <1>3 DEF write_atomic
  <2>2. is_dir_node(d, Front(L)) /\ Front(L) \in Path
    BY <1>1, DiskIs, FrontIs DEF Path
  <2>3. t \in Sound /\ r \in Sound /\ t.call = "tmp" /\ r.call = "rename" /\ r.val = v
    BY <1>1, <2>2, DoSound DEF Do
  <2>4. v \in G
    BY DEF Whole
  <2> HIDE DEF t, r, G
  <2>5. t \in Gentle(L, G) /\ r \in Gentle(L, G)
    BY <2>3, <2>4 DEF Gentle
  <2>6. <<t, r>> \in Seq(Gentle(L, G))
    BY <2>5
  <2> QED BY <2>1, <2>2, <2>6 DEF G
<1> QED BY <1>2, <1>3

\* The node of a directory key is not the file of its value.
LEMMA DirLeaf ==
  ASSUME NEW key \in Word, NEW L, Leaf(L, key), is_dir(key)
  PROVE  node_path(key) # L
<1>1. L = Append(node_path(key), leaf_marker(key)) /\ node_path(key) \in Path /\ leaf_marker(key) \in Word
  BY NodePath, MarksAre DEF Leaf, Plain, leaf_marker
<1>2. Len(L) = Len(node_path(key)) + 1 /\ Len(node_path(key)) \in Nat
  BY <1>1, AppendPath DEF Path
<1> QED BY <1>2

LEMMA LeafCallsGentle ==
  ASSUME NEW key \in Word, NEW L, Leaf(L, key), NEW old \in Stored, NEW v \in Stored, NEW d \in Kept(L, {old})
  PROVE  leaf_calls(d, key, v) \in Seq(Gentle(L, Whole(old, v)))
<1> DEFINE p == node_path(key)
           C == Gentle(L, Whole(old, v))
<1>1. d \in Disks /\ is_file(d, L) /\ ~ is_dir_node(d, L)
  BY KeptIs
<1>2. leaf_path(d, key) = L /\ Plain(p)
  BY <1>1, LeafIs, NodePath
<1>3. CASE is_dir_node(d, p)
  <2>1. Append(p, leaf_marker(key)) = L
    BY <1>2, <1>3 DEF leaf_path
  <2>2. leaf_calls(d, key, v) = write_atomic(d, L, v)
    BY <1>3, <2>1 DEF leaf_calls
  <2> QED BY <2>2, AtomicGentle
<1>4. CASE ~ is_dir_node(d, p)
  <2>1. p = L
    <3>1. L # <<>>
      BY KeptIs
    <3> QED BY <1>2, <1>4, <3>1 DEF leaf_path
  <2>2. p # <<>>
    BY <1>4 DEF is_dir_node
  <2>3. Plain(Front(p))
    BY <1>2, <2>2, PlainFront
  <2> DEFINE e == mkdirs(d, Front(p))
             m == Do("mkdir", Front(p), Absent)
             w == write_atomic(e, L, v)
  <2>4. e \in Kept(L, {old})
    BY <2>3, GentleMkdirs
  <2>5. leaf_calls(d, key, v) = <<m>> \o w
    BY <1>4, <2>1 DEF leaf_calls
  <2>6. m \in Sound /\ m.call = "mkdir"
    BY <2>3, DoSound DEF Do
  <2> HIDE DEF e, m
  <2>7. m \in C
    BY <2>6 DEF Gentle
  <2>8. w \in Seq(C)
    BY <2>4, AtomicGentle
  <2> HIDE DEF w, C
  <2>9. <<m>> \in Seq(C)
    BY <2>7
  <2>10. <<m>> \o w \in Seq(C)
    BY <2>8, <2>9, Joined
  <2> QED BY <2>5, <2>10 DEF C
<1> QED BY <1>3, <1>4

LEMMA WriteLeafGentle ==
  ASSUME NEW key \in Word, NEW L, Leaf(L, key), NEW old \in Stored, NEW v \in Stored, NEW d \in Kept(L, {old})
  PROVE  write_leaf(d, key, v) \in Seq(Gentle(L, Whole(old, v)))
<1> DEFINE b == IF key # Root /\ ends_with(key, PATH_SEP) THEN ensure_dir(d, key) ELSE <<>>
           c == leaf_calls(After(d, b), key, v)
           C == Gentle(L, Whole(old, v))
<1>1. write_leaf(d, key, v) = b \o c
  BY DEF write_leaf, write_leaf_after
<1>2. b \in Seq(Gentle(L, {old}))
  <2>1. CASE key # Root /\ ends_with(key, PATH_SEP)
    <3>1. is_dir(key)
      BY <2>1 DEF is_dir
    <3> QED BY <2>1, <3>1, DirLeaf, EnsureGentle
  <2>2. CASE ~ (key # Root /\ ends_with(key, PATH_SEP))
    BY <2>2
  <2> QED BY <2>1, <2>2
<1> HIDE DEF b
<1>3. Last(L) # TMP
  BY LeafIs, KeptIs
<1>4. After(d, b) \in Kept(L, {old})
  BY <1>2, <1>3, GentleAfter
<1>5. c \in Seq(C)
  BY <1>4, LeafCallsGentle
<1>6. b \in Seq(C)
  BY <1>2, Wider
<1> HIDE DEF c, C
<1>7. b \o c \in Seq(C)
  BY <1>5, <1>6, Joined
<1> QED BY <1>1, <1>7 DEF C

\* set: the directory that indexes the key is not its own file.
LEMMA SetGentle ==
  ASSUME NEW key \in Word, ~ contains(key, <<PATH_SEP, PATH_SEP>>), NEW L, Leaf(L, key),
         NEW old \in Stored, NEW v \in Stored, NEW d \in Kept(L, {old})
  PROVE  set_calls(d, key, v) \in Seq(Gentle(L, Whole(old, v)))
<1> DEFINE s == split_index(key)
           a == ensure_dir(d, s)
           b == IF is_dir(key) THEN ensure_dir(After(d, a), key) ELSE <<>>
           ab == a \o b
           c == write_leaf(After(d, ab), key, v)
           A == Gentle(L, {old})
           C == Gentle(L, Whole(old, v))
<1>1. set_calls(d, key, v) = ab \o c
  BY DEF set_calls, set_calls_after, set_dirs
<1>2. s \in Word /\ Plain(node_path(s)) /\ Last(L) # TMP /\ L # <<>> /\ L \in Path
  BY SplitType, NodePath, LeafIs, KeptIs
<1>3. node_path(s) # L
  <2>1. CASE L = Append(node_path(key), leaf_marker(key))
    <3>1. Last(L) = leaf_marker(key) /\ leaf_marker(key) \in Marks
      <4>1. node_path(key) \in Path /\ leaf_marker(key) \in Word
        BY NodePath, MarksAre DEF Plain, leaf_marker
      <4> QED BY <2>1, <4>1, AppendPath DEF leaf_marker, Marks
    <3>2. Last(L) = L[Len(L)] /\ Len(L) \in Nat /\ Len(L) >= 1
      BY <1>2, FrontIs DEF Path
    <3> QED BY <1>2, <3>1, <3>2 DEF Plain
  <2>2. CASE L = node_path(key) /\ ~ is_dir(key)
    <3>1. CASE key = <<>>
      <4>1. PICK f : Names(f, key)
        BY NamesExist
      <4>2. Len(key) = 0 /\ f[0] = <<>>
        BY <3>1, <4>1 DEF Names
      <4>3. Len(node_path(key)) = Len(f[Len(key)])
        BY <4>1, NodePath
      <4>4. Len(L) = 0 /\ L \in Seq(Word)
        BY <1>2, <2>2, <4>2, <4>3 DEF Path
      <4> QED BY <1>2, <4>4
    <3>2. CASE key # <<>>
      <4>1. Len(node_path(s)) < Len(node_path(key))
        BY <2>2, <3>2, SplitShorter
      <4>2. Len(node_path(key)) \in Nat
        BY NodePath DEF Plain, Path
      <4> HIDE DEF s
      <4> QED BY <2>2, <4>1, <4>2
    <3> QED BY <3>1, <3>2
  <2> QED BY <2>1, <2>2 DEF Leaf
<1>4. a \in Seq(A)
  BY <1>2, <1>3, EnsureGentle
<1> HIDE DEF a, s
<1>5. b \in Seq(A)
  <2>1. CASE is_dir(key)
    <3>1. After(d, a) \in Kept(L, {old})
      BY <1>2, <1>4, GentleAfter
    <3> QED BY <2>1, <3>1, DirLeaf, EnsureGentle
  <2>2. CASE ~ is_dir(key)
    BY <2>2
  <2> QED BY <2>1, <2>2
<1> HIDE DEF b
<1>6. ab \in Seq(A)
  <2> HIDE DEF A
  <2> QED BY <1>4, <1>5, Joined
<1> HIDE DEF ab
<1>7. After(d, ab) \in Kept(L, {old})
  BY <1>2, <1>6, GentleAfter
<1>8. c \in Seq(C)
  BY <1>7, WriteLeafGentle
<1>9. ab \in Seq(C)
  BY <1>6, Wider
<1> HIDE DEF c, C
<1>10. ab \o c \in Seq(C)
  BY <1>8, <1>9, Joined
<1> QED BY <1>1, <1>10 DEF C

\* mkindex finds the value and makes the directory only.
LEMMA MarkerGentle ==
  ASSUME NEW key \in Word, ~ contains(key, <<PATH_SEP, PATH_SEP>>), NEW L, Leaf(L, key),
         NEW old \in Stored, NEW d \in Kept(L, {old}), NEW new, ~ is_file(d, node_path(key))
  PROVE  marker_calls(d, ensure_dir(d, key), key) \in Seq(Gentle(L, Whole(old, new)))
<1> DEFINE a == ensure_dir(d, key)
           e == After(d, a)
           b == IF read_leaf(e, key) = Absent THEN write_leaf(e, key, DirMarker) ELSE <<>>
<1>1. a \in Seq(Gentle(L, {old}))
  BY EnsureGentle
<1>2. marker_calls(d, a, key) = a \o b
  BY DEF marker_calls
<1> HIDE DEF a
<1>3. Last(L) # TMP
  BY LeafIs, KeptIs
<1>4. e \in Kept(L, {old})
  BY <1>1, <1>3, GentleAfter
<1> HIDE DEF e
<1>5. read_leaf(e, key) = old
  <2>1. e \in Disks /\ is_file(e, L) /\ e[L] = old
    BY <1>4, KeptIs
  <2>2. leaf_path(e, key) = L
    BY <2>1, LeafIs
  <2> QED BY <2>1, <2>2 DEF read_leaf, contents
<1>6. b = <<>>
  BY <1>5, NotStored
<1>7. marker_calls(d, a, key) = a
  <2>1. a \o <<>> = a
    BY <1>1, ConcatEmptySeq
  <2> QED BY <1>2, <1>6, <2>1
<1>8. a \in Seq(Gentle(L, Whole(old, new)))
  BY <1>1, Wider
<1> QED BY <1>7, <1>8 DEF a

LEMMA LocatorGentle ==
  ASSUME NEW key \in Word, NEW L, Leaf(L, key),
         NEW old \in Stored, NEW d \in Kept(L, {old}), NEW v \in Stored, ~ is_file(d, node_path(key))
  PROVE  locator_calls(d, ensure_dir(d, key), key, v) \in Seq(Gentle(L, Whole(old, v)))
<1> DEFINE a == ensure_dir(d, key)
           b == write_leaf(After(d, a), key, v)
           C == Gentle(L, Whole(old, v))
<1>1. a \in Seq(Gentle(L, {old}))
  BY EnsureGentle
<1>2. locator_calls(d, a, key, v) = a \o b
  BY DEF locator_calls
<1> HIDE DEF a
<1>3. Last(L) # TMP
  BY LeafIs, KeptIs
<1>4. After(d, a) \in Kept(L, {old})
  BY <1>1, <1>3, GentleAfter
<1>5. b \in Seq(C)
  BY <1>4, WriteLeafGentle
<1>6. a \in Seq(C)
  BY <1>1, Wider
<1> HIDE DEF b, C
<1>7. a \o b \in Seq(C)
  BY <1>5, <1>6, Joined
<1> QED BY <1>2, <1>7 DEF C, a

\* The running operation w replaces a value, and what is left of its plan is gentle.
Replaces(w) ==
  /\ w.busy /\ ~ w.deep /\ Lookup(w.before, w.root) # Absent /\ w.new # Absent
  /\ w.root \notin w.moved
Careful(d, calls, w) ==
  \E L : LET G == Whole(Lookup(w.before, w.root), w.new)
         IN /\ w.root \in Word /\ ~ contains(w.root, <<PATH_SEP, PATH_SEP>>) /\ Leaf(L, w.root)
            /\ d \in Kept(L, G) /\ calls \in Seq(Gentle(L, G))
GentleInv == Replaces(work) => Careful(disk, plan, work)

\* A value that is there lies in the file its key leads to.
LEMMA OldIs ==
  ASSUME NEW d \in Disks, NEW k \in Word, NEW s, s = view(d), Lookup(s, k) # Absent
  PROVE  LET L == leaf_path(d, k)
         IN /\ ~ contains(k, <<PATH_SEP, PATH_SEP>>) /\ Leaf(L, k) /\ L \in Path
            /\ Lookup(s, k) \in Stored /\ d \in Kept(L, {Lookup(s, k)}) /\ read_leaf(d, k) = Lookup(s, k)
<1> DEFINE L == leaf_path(d, k)
           old == Lookup(s, k)
<1>1. old = read_leaf(d, k)
  BY DEF Lookup, view
<1>2. ~ contains(k, <<PATH_SEP, PATH_SEP>>) /\ is_file(d, L) /\ old = d[L]
  BY <1>1 DEF read_leaf, contents
<1>3. Leaf(L, k) /\ L \in Path
  BY <1>2, LeafIs
<1> HIDE DEF L, old
<1>4. L \in DOMAIN d /\ d[L] \in Stored
  BY <1>2, DiskIs DEF is_file
<1>5. d \in Kept(L, {old})
  BY <1>2, <1>4 DEF Kept
<1>6. /\ ~ contains(k, <<PATH_SEP, PATH_SEP>>) /\ Leaf(L, k) /\ L \in Path
      /\ old \in Stored /\ d \in Kept(L, {old}) /\ read_leaf(d, k) = old
  BY <1>1, <1>2, <1>3, <1>4, <1>5
<1> QED BY <1>6 DEF L, old

LEMMA StartWork ==
  ASSUME NEW calls, NEW k, NEW dirs, NEW new, NEW goal, NEW loose, Start(calls, About(k, dirs, new, goal, loose))
  PROVE  /\ work'.busy /\ ~ work'.deep /\ work'.root = k /\ work'.moved = Moved(disk, dirs)
         /\ work'.new = new /\ work'.before = tree
         /\ plan' = calls /\ disk' = disk /\ calls # <<>>
<1> DEFINE M == Moved(disk, dirs)
           b == Drop(goal, DOMAIN goal)
<1> DEFINE q == [busy |-> FALSE, root |-> <<>>, deep |-> FALSE, moved |-> {}, new |-> Absent, before |-> b, goal |-> goal, loose |-> {}]
<1>1. About(k, dirs, new, goal, loose) = [q EXCEPT !.root = k, !.moved = M, !.new = new, !.loose = loose]
  BY DEF About, Quiet
<1>2. work' = [About(k, dirs, new, goal, loose) EXCEPT !.busy = TRUE, !.before = tree] /\ plan' = calls /\ disk' = disk /\ calls # <<>>
  BY DEF Start
<1> HIDE DEF M, b
<1> QED BY <1>1, <1>2 DEF M

LEMMA StartTree ==
  ASSUME NEW calls, NEW base, NEW goal, NEW loose, Start(calls, AboutTree(base, goal, loose))
  PROVE  GentleInv'
<1> DEFINE b == Drop(goal, DOMAIN goal)
<1> DEFINE q == [busy |-> FALSE, root |-> <<>>, deep |-> FALSE, moved |-> {}, new |-> Absent, before |-> b, goal |-> goal, loose |-> {}]
<1>1. AboutTree(base, goal, loose) = [q EXCEPT !.root = base, !.deep = TRUE, !.loose = loose]
  BY DEF AboutTree, Quiet
<1>2. work' = [AboutTree(base, goal, loose) EXCEPT !.busy = TRUE, !.before = tree]
  BY DEF Start
<1> HIDE DEF b
<1>3. work'.deep
  BY <1>1, <1>2
<1> QED BY <1>3 DEF GentleInv, Replaces

\* An operation on one key starts well when its plan is gentle.
LEMMA StartGentle ==
  ASSUME NEW calls, NEW k \in Word, NEW dirs, NEW new, NEW goal, NEW loose, Start(calls, About(k, dirs, new, goal, loose)), DiskInv,
         ASSUME Lookup(tree, k) # Absent, new # Absent, k \notin Moved(disk, dirs), calls # <<>>
         PROVE  calls \in Seq(Gentle(leaf_path(disk, k), Whole(Lookup(tree, k), new)))
  PROVE  GentleInv'
<1> SUFFICES ASSUME Replaces(work)' PROVE Careful(disk, plan, work)'
  BY DEF GentleInv
<1> DEFINE L == leaf_path(disk, k)
           old == Lookup(tree, k)
           G == Whole(old, new)
<1>1. /\ work'.root = k /\ work'.moved = Moved(disk, dirs) /\ work'.new = new /\ work'.before = tree
      /\ plan' = calls /\ disk' = disk /\ calls # <<>>
  BY StartWork
<1>2. old # Absent /\ new # Absent /\ k \notin Moved(disk, dirs)
  BY <1>1 DEF Replaces
<1>3. calls \in Seq(Gentle(L, G))
  BY <1>1, <1>2
<1>4. disk \in Disks /\ tree = view(disk)
  BY DEF DiskInv
<1>5. ~ contains(k, <<PATH_SEP, PATH_SEP>>) /\ Leaf(L, k) /\ old \in Stored /\ disk \in Kept(L, {old})
  BY <1>2, <1>4, OldIs
<1>6. disk \in Kept(L, G)
  BY <1>5, Wider
<1>7. Lookup(work.before, work.root)' = old
  BY <1>1
<1> HIDE DEF L, old
<1>8. Whole(Lookup(work.before, work.root)', work'.new) = G
  BY <1>1, <1>7
<1> HIDE DEF G
<1> QED BY <1>1, <1>3, <1>5, <1>6, <1>8 DEF Careful

\* A node that is a file when mkindex or ext_index makes a directory of it is the value moved.
LEMMA NotMoved ==
  ASSUME NEW d \in Disks, NEW k \in Word, NEW L, Leaf(L, k), NEW old \in Stored, d \in Kept(L, {old}), k \notin Moved(d, {k})
  PROVE  ~ is_file(d, node_path(k))
<1> SUFFICES ASSUME is_file(d, node_path(k)) PROVE FALSE
  OBVIOUS
<1>1. strip_dir_suf(k) \in Moved(d, {k})
  BY DEF Moved
<1>2. is_dir(k)
  BY <1>1 DEF strip_dir_suf
<1>3. L = Append(node_path(k), leaf_marker(k)) /\ node_path(k) \in Path /\ leaf_marker(k) \in Word
  BY <1>2, NodePath, MarksAre DEF Leaf, Plain, leaf_marker
<1>4. Front(L) = node_path(k) /\ L \in DOMAIN d
  BY <1>3, AppendPath, KeptIs
<1>5. is_dir_node(d, node_path(k))
  BY <1>4, DiskIs
<1>6. node_path(k) \in DOMAIN d /\ node_path(k) # <<>> /\ d[node_path(k)] # DirNode
  BY DiskIs DEF is_file
<1> QED BY <1>5, <1>6 DEF is_dir_node

LEMMA QuietGentle == \A goal : work' = Quiet(goal) => GentleInv'
<1> TAKE goal
<1> SUFFICES ASSUME work' = Quiet(goal) PROVE GentleInv'
  OBVIOUS
<1> DEFINE b == Drop(goal, DOMAIN goal)
<1>1. work' = [busy |-> FALSE, root |-> <<>>, deep |-> FALSE, moved |-> {}, new |-> Absent, before |-> b, goal |-> goal, loose |-> {}]
  BY DEF Quiet
<1> HIDE DEF b
<1>2. ~ work'.busy
  BY <1>1
<1> QED BY <1>2 DEF GentleInv, Replaces

LEMMA GentleOperation ==
  ASSUME DiskInv, Operation
  PROVE  GentleInv'
<1>1. disk \in Disks /\ tree = view(disk) /\ Typed(tree)
  BY ViewTyped DEF DiskInv
<1>2. /\ FsKeys \cup FsDirs \cup FsTrees \subseteq Word
      /\ \A w \in FsWrites : w[1] \in Word /\ w[2] \in Stored
      /\ \A w \in FsCopies \cup FsParts : w[1] \in Word /\ w[2] \in Word
  BY InputsAssumption DEF Stored
<1>3. ASSUME NEW k \in Word, NEW v \in Stored, SetTo(tree, k, v) PROVE GentleInv'
  <2> DEFINE calls == set_calls(disk, k, v)
             dirs == IF is_dir(k) THEN {split_index(k), k} ELSE {split_index(k)}
             goal == Put(tree, k, v)
             L == leaf_path(disk, k)
  <2>1. Start(calls, About(k, dirs, v, goal, {}))
    BY <1>3 DEF SetTo
  <2>2. ASSUME Lookup(tree, k) # Absent PROVE calls \in Seq(Gentle(L, Whole(Lookup(tree, k), v)))
    <3> DEFINE old == Lookup(tree, k)
    <3>1. ~ contains(k, <<PATH_SEP, PATH_SEP>>) /\ Leaf(L, k) /\ old \in Stored /\ disk \in Kept(L, {old})
      BY <1>1, <2>2, OldIs
    <3> HIDE DEF old, L
    <3>2. calls \in Seq(Gentle(L, Whole(old, v)))
      BY <3>1, SetGentle
    <3> QED BY <3>2 DEF old
  <2> HIDE DEF calls, dirs, goal
  <2> QED BY <2>1, <2>2, StartGentle
<1>4. ASSUME NEW w \in FsWrites, FsSet(w[1], w[2]) PROVE GentleInv'
  <2>1. resolve_parent(tree, w[1]) \in Word
    BY <1>1, <1>2, ResolveParentType
  <2> QED BY <1>2, <1>3, <1>4, <2>1 DEF FsSet
<1>5. ASSUME NEW w \in FsParts, NEW off \in 0 .. 1, FsSetPart(w[1], off, w[2]) PROVE GentleInv'
  <2> DEFINE key == w[1]
             whole == set_part(tree, key, off, w[2])
             k == locate(tree, key)
             L == leaf_path(disk, k)
             store == whole.store
  <2>0. PICK n \in 1 .. Len(w[2]) :
          SetPartOf(k, whole, set_part(tree, key, off, SubSeq(w[2], 1, n)), IF n < Len(w[2]) THEN {k} ELSE {})
    BY <1>5 DEF FsSetPart
  <2> DEFINE buf == SubSeq(w[2], 1, n)
             r == set_part(tree, key, off, buf)
             v == r.store[k]
             calls == in_place(L, read_leaf(disk, k), v)
             loose == IF n < Len(w[2]) THEN {k} ELSE {}
  <2>1. key \in Word /\ buf \in Word /\ r.ok
    BY <1>2, <2>0, PartShort DEF SetPartOf
  <2>2. Start(calls, About(k, {}, v, store, loose))
    BY <2>0 DEF SetPartOf
  <2> HIDE DEF key, buf, loose, whole
  <2>3. /\ k \in DOMAIN tree /\ k \in Word
        /\ tree[k] \in Stored => v \in Stored /\ v.kind = tree[k].kind /\ Len(v.body) = Len(tree[k].body)
    BY <1>1, <2>1, <2>2, PartIs
  <2> HIDE DEF k, r, v, store
  <2>4. ASSUME Lookup(tree, k) # Absent PROVE calls \in Seq(Gentle(L, Whole(Lookup(tree, k), v)))
    <3> DEFINE old == Lookup(tree, k)
    <3>1. L \in Path /\ old \in Stored /\ read_leaf(disk, k) = old
      BY <1>1, <2>3, <2>4, OldIs
    <3>2. old = tree[k]
      BY <2>3 DEF Lookup
    <3> HIDE DEF old, L
    <3>3. in_place(L, old, v) \in Seq(Gentle(L, Whole(old, v)))
      BY <2>3, <3>1, <3>2, InPlaceGentle
    <3> QED BY <3>1, <3>3 DEF old
  <2> HIDE DEF calls
  <2> QED BY <2>2, <2>3, <2>4, StartGentle
<1>6. ASSUME NEW w \in FsCopies, FsCp(w[1], w[2]) PROVE GentleInv'
  <2> DEFINE v == get_raw(tree, w[1])
  <2>1. resolve_parent(tree, w[2]) \in Word
    BY <1>1, <1>2, ResolveParentType
  <2>2. v \in Stored
    BY <1>1, <1>6, LookupType DEF FsCp, get_raw
  <2>3. SetTo(tree, resolve_parent(tree, w[2]), v)
    BY <1>6 DEF FsCp
  <2> HIDE DEF v
  <2> QED BY <1>3, <2>1, <2>2, <2>3
<1>7. ASSUME NEW calls, NEW k, NEW goal, NEW loose, Start(calls, About(k, {}, Absent, goal, loose)) PROVE GentleInv'
  <2>1. work'.new = Absent
    BY <1>7, StartWork
  <2> QED BY <2>1 DEF GentleInv, Replaces
<1>8. ASSUME NEW k \in FsKeys \cup FsDirs, FsDel(k) PROVE GentleInv'
  BY <1>7, <1>8 DEF FsDel, DelOf
<1>9. ASSUME NEW k \in FsKeys \cup FsDirs, FsDelTree(k) PROVE GentleInv'
  BY <1>9, StartTree DEF FsDelTree, DelTreeOf
<1>10. ASSUME NEW src \in FsTrees, NEW dst \in FsTrees, FsCpTree(src, dst) \/ FsCpList(src, dst) PROVE GentleInv'
  BY <1>10, StartTree DEF FsCpTree, CpTreeOf, FsCpList, CpListOf
<1>11. ASSUME NEW dir \in FsDirs, FsMkindex(dir) PROVE GentleInv'
  <2> DEFINE k == resolve_path(tree, dir)
             calls == marker_calls(disk, ensure_dir(disk, k), k)
             goal == mkindex(tree, dir).store
             new == Lookup(goal, k)
             L == leaf_path(disk, k)
  <2>1. k \in Word
    BY <1>1, <1>2, ResolvePathType
  <2>2. Start(calls, About(k, {k}, new, goal, {}))
    BY <1>11 DEF FsMkindex, MkindexOf
  <2> HIDE DEF k, goal, new
  <2>3. ASSUME Lookup(tree, k) # Absent, k \notin Moved(disk, {k})
        PROVE  calls \in Seq(Gentle(L, Whole(Lookup(tree, k), new)))
    <3> DEFINE old == Lookup(tree, k)
    <3>1. ~ contains(k, <<PATH_SEP, PATH_SEP>>) /\ Leaf(L, k) /\ old \in Stored /\ disk \in Kept(L, {old})
      BY <1>1, <2>1, <2>3, OldIs
    <3> HIDE DEF old, L
    <3>2. ~ is_file(disk, node_path(k))
      BY <1>1, <2>1, <2>3, <3>1, NotMoved
    <3>3. calls \in Seq(Gentle(L, Whole(old, new)))
      BY <2>1, <3>1, <3>2, MarkerGentle
    <3> QED BY <3>3 DEF old
  <2> HIDE DEF calls
  <2> QED BY <2>1, <2>2, <2>3, StartGentle
<1>12. ASSUME NEW dir \in FsDirs, FsDelExtIndex(dir) PROVE GentleInv'
  BY <1>7, <1>12 DEF FsDelExtIndex, DelExtIndexOf
<1>13. ASSUME NEW dir \in FsDirs, NEW ext \in FsDirs, FsExtIndex(dir, ext) PROVE GentleInv'
  <2> DEFINE k == resolve_parent(tree, dir)
             r == ext_index(tree, dir, ext)
             v == ExtLocator(ext)
             calls == locator_calls(disk, ensure_dir(disk, k), k, v)
             goal == r.store
             L == leaf_path(disk, k)
  <2>1. k \in Word
    BY <1>1, <1>2, ResolveParentType
  <2>2. v \in Stored
    BY <1>2 DEF ExtLocator, Stored, Kinds
  <2>3. Start(calls, About(k, {k}, v, goal, {}))
    BY <1>13 DEF FsExtIndex, ExtIndexOf
  <2> HIDE DEF k, goal, v
  <2>4. ASSUME Lookup(tree, k) # Absent, k \notin Moved(disk, {k})
        PROVE  calls \in Seq(Gentle(L, Whole(Lookup(tree, k), v)))
    <3> DEFINE old == Lookup(tree, k)
    <3>1. Leaf(L, k) /\ old \in Stored /\ disk \in Kept(L, {old})
      BY <1>1, <2>1, <2>4, OldIs
    <3> HIDE DEF old, L
    <3>2. ~ is_file(disk, node_path(k))
      BY <1>1, <2>1, <2>4, <3>1, NotMoved
    <3>3. calls \in Seq(Gentle(L, Whole(old, v)))
      BY <2>1, <2>2, <3>1, <3>2, LocatorGentle
    <3> QED BY <3>3 DEF old
  <2> HIDE DEF calls
  <2> QED BY <2>1, <2>3, <2>4, StartGentle
<1>14. ASSUME FsClear PROVE GentleInv'
  BY <1>14, StartTree DEF FsClear
<1> QED BY <1>4, <1>5, <1>6, <1>8, <1>9, <1>10, <1>11, <1>12, <1>13, <1>14 DEF Operation

LEMMA GentleStep ==
  ASSUME DiskInv, GentleInv, Step
  PROVE  GentleInv'
<1>1. disk \in Disks /\ plan \in Seq(Sound) /\ plan # <<>>
  BY DEF DiskInv, Step
<1>2. CASE Head(plan).call = "fail" /\ plan' = <<>> /\ work' = Quiet(tree) /\ UNCHANGED <<disk, tree>>
  BY <1>2, QuietGentle
<1>3. CASE work' = work
  <2> SUFFICES ASSUME Replaces(work) PROVE Careful(disk', plan', work)
    BY <1>3 DEF GentleInv
  <2> DEFINE k == work.root
             G == Whole(Lookup(work.before, k), work.new)
  <2>1. PICK L : /\ k \in Word /\ ~ contains(k, <<PATH_SEP, PATH_SEP>>) /\ Leaf(L, k)
                 /\ disk \in Kept(L, G) /\ plan \in Seq(Gentle(L, G))
    BY DEF GentleInv, Careful
  <2>2. G \subseteq Stored
    BY DEF Whole
  <2> HIDE DEF G
  <2>3. Last(L) # TMP /\ L \in DOMAIN disk /\ disk[L] \in G
    BY <2>1, <2>2, LeafIs, KeptIs
  <2>4. Head(plan) \in Gentle(L, G) /\ Tail(plan) \in Seq(Gentle(L, G))
    BY <1>1, <2>1
  <2>5. disk' \in Kept(L, G) /\ plan' \in Seq(Gentle(L, G))
    <3>1. CASE Head(plan).call = "remove" /\ RemoveStep(Head(plan).at)
      <4>1. PICK x \in Below(disk, Head(plan).at) :
              Below(disk, x) = {x} /\ disk' = Drop(disk, {x}) /\ plan' \in {Tail(plan), plan}
        BY <3>1 DEF RemoveStep
      <4>2. x # L
        BY <2>4, <3>1, <4>1 DEF Below, Gentle
      <4>3. L \in DOMAIN Drop(disk, {x}) /\ Drop(disk, {x})[L] = disk[L]
        BY <2>3, <4>2 DEF Drop
      <4>4. disk' \in Disks
        BY DiskStep DEF DiskInv
      <4>5. plan' \in Seq(Gentle(L, G))
        BY <2>1, <2>4, <4>1
      <4> QED BY <2>3, <4>1, <4>3, <4>4, <4>5 DEF Kept
    <3>2. CASE Head(plan).call = "fail" /\ plan' = <<>> /\ UNCHANGED <<disk, tree>>
      BY <2>1, <3>2
    <3>3. CASE disk' = After1(disk, Head(plan)) /\ plan' = Tail(plan)
      BY <2>1, <2>2, <2>3, <2>4, <3>3, GentleCall
    <3> QED BY <3>1, <3>2, <3>3 DEF Step
  <2> QED BY <2>1, <2>5 DEF Careful, G
<1>4. CASE work' = Quiet(work.goal)
  BY <1>4, QuietGentle
<1> QED BY <1>2, <1>3, <1>4 DEF Step, Ending

LEMMA GentleNext == DiskInv /\ GentleInv /\ [Next]_vars => GentleInv'
<1> SUFFICES ASSUME DiskInv, GentleInv, [Next]_vars PROVE GentleInv'
  OBVIOUS
<1>1. CASE plan = <<>> /\ Operation
  BY <1>1, GentleOperation
<1>2. CASE Step
  BY <1>2, GentleStep
<1>3. CASE Crash
  BY <1>3, QuietGentle DEF Crash
<1>4. CASE UNCHANGED vars
  BY <1>4 DEF vars, GentleInv
<1> QED BY <1>1, <1>2, <1>3, <1>4 DEF Next

LEMMA GentleInit == Init => GentleInv
<1> SUFFICES ASSUME Init PROVE GentleInv
  OBVIOUS
<1> DEFINE b == Drop(tree, DOMAIN tree)
<1>1. work = [busy |-> FALSE, root |-> <<>>, deep |-> FALSE, moved |-> {}, new |-> Absent, before |-> b, goal |-> tree, loose |-> {}]
  BY DEF Init, Quiet
<1> HIDE DEF b
<1>2. ~ work.busy
  BY <1>1
<1> QED BY <1>2 DEF GentleInv, Replaces

LEMMA GentleTorn == DiskInv /\ GentleInv => NeverTorn
<1> SUFFICES ASSUME DiskInv, GentleInv, Replaces(work)
             PROVE  LET old == Lookup(work.before, work.root)
                        now == read_leaf(disk, work.root)
                    IN \/ now \in {old, work.new}
                       \/ /\ now.kind = old.kind /\ Len(now.body) = Len(old.body)
                          /\ \A i \in DOMAIN now.body : now.body[i] \in {old.body[i], work.new.body[i]}
  BY DEF NeverTorn, Replaces
<1> DEFINE k == work.root
           old == Lookup(work.before, k)
           G == Whole(old, work.new)
<1>1. PICK L : /\ k \in Word /\ ~ contains(k, <<PATH_SEP, PATH_SEP>>) /\ Leaf(L, k) /\ disk \in Kept(L, G)
  BY DEF GentleInv, Careful
<1>2. G \subseteq Stored
  BY DEF Whole
<1> HIDE DEF G
<1>3. disk \in Disks /\ is_file(disk, L) /\ disk[L] \in G
  BY <1>1, <1>2, KeptIs
<1>4. leaf_path(disk, k) = L
  BY <1>1, <1>3, LeafIs
<1>5. read_leaf(disk, k) = disk[L]
  BY <1>1, <1>3, <1>4 DEF read_leaf, contents
<1>6. read_leaf(disk, k) \in G
  BY <1>3, <1>5
<1> QED BY <1>6 DEF G, Whole

\* While set, cp, set_part, mkindex or ext_index replaces a value, whatever the
\* keys, the values and the links between them, a reader between any two system
\* calls finds the old value, the new one, or one of the same kind and length
\* with each byte from one of them: write_atomic never exposes a missing or a
\* truncated file, and neither does making the directories on the way.
THEOREM ReplacedWhole == Spec => []NeverTorn
<1>1. Init => DiskInv /\ GentleInv
  BY DiskInit, GentleInit
<1>2. (DiskInv /\ GentleInv) /\ [Next]_vars => (DiskInv /\ GentleInv)'
  BY DiskNext, GentleNext
<1> QED BY <1>1, <1>2, GentleTorn, PTL DEF Spec
=============================================================================
