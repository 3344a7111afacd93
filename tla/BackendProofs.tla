---------------------------- MODULE BackendProofs ----------------------------
(***************************************************************************)
(* Proofs about the key-value tree (Backend, BackendOps, KVPath).          *)
(***************************************************************************)
EXTENDS Backend, DataTheorems, FiniteSetTheorems

-----------------------------------------------------------------------------
\* Words.

DirSeps == {PATH_SEP, OBJ_SEP}
Words == Seq(Letters)

LEMMA SepsDiffer ==
  /\ Separators \subseteq Letters /\ DirSeps \subseteq Separators
  /\ PATH_SEP \in DirSeps /\ OBJ_SEP \in DirSeps /\ RUNTIME_MEMBER_SEP \notin DirSeps
  /\ PATH_SEP # OBJ_SEP
  /\ \A x \in Separators : x \in DirSeps \/ x = RUNTIME_MEMBER_SEP
BY LettersAssumption DEF Separators, DirSeps, PATH_SEP, OBJ_SEP, RUNTIME_MEMBER_SEP

\* Chain, with the set of directory separators named.
LEMMA ChainIs ==
  ASSUME NEW w
  PROVE  Chain(w) <=>
           /\ w \in Words
           /\ \A i \in 1 .. Len(w) : w[i] \in Separators =>
                IF i = Len(w) THEN w[i] # RUNTIME_MEMBER_SEP ELSE w[i + 1] \notin DirSeps
<1>1. w \in Words => DOMAIN w = 1 .. Len(w)
  BY DEF Words
<1> QED BY <1>1 DEF Chain, DirSeps, Words

LEMMA ConcatIs ==
  ASSUME NEW a \in Words, NEW b \in Words
  PROVE  /\ a \o b \in Words /\ Len(a \o b) = Len(a) + Len(b)
         /\ \A i \in 1 .. Len(a) : (a \o b)[i] = a[i]
         /\ \A i \in 1 .. Len(b) : (a \o b)[Len(a) + i] = b[i]
BY ConcatProperties DEF Words

LEMMA LenIs ==
  ASSUME NEW a \in Words
  PROVE  Len(a) \in Nat /\ (a = <<>> <=> Len(a) = 0) /\ \A i \in 1 .. Len(a) : a[i] \in Letters
BY DEF Words

LEMMA AppendIs ==
  ASSUME NEW a \in Words, NEW c \in Letters
  PROVE  /\ Append(a, c) \in Words /\ Len(Append(a, c)) = Len(a) + 1
         /\ \A i \in 1 .. Len(a) : Append(a, c)[i] = a[i]
         /\ Append(a, c)[Len(a) + 1] = c
BY DEF Words

LEMMA CutIs ==
  ASSUME NEW w \in Words, NEW n \in 0 .. Len(w)
  PROVE  /\ SubSeq(w, 1, n) \in Words /\ Len(SubSeq(w, 1, n)) = n
         /\ \A i \in 1 .. n : SubSeq(w, 1, n)[i] = w[i]
BY DEF Words

LEMMA DropIs ==
  ASSUME NEW w \in Words, NEW n \in 0 .. Len(w)
  PROVE  /\ drop(w, n) \in Words /\ Len(drop(w, n)) = Len(w) - n
         /\ \A i \in 1 .. Len(w) - n : drop(w, n)[i] = w[n + i]
<1>1. n + 1 \in Nat /\ n + 1 >= 1
  OBVIOUS
<1>2. CASE n = Len(w)
  BY <1>2 DEF drop, Words
<1>3. CASE n < Len(w)
  BY <1>3 DEF drop, Words
<1> QED BY <1>2, <1>3

\* Two words of the same length and letters are equal.
LEMMA SameWord ==
  ASSUME NEW a \in Words, NEW b \in Words, Len(a) = Len(b), \A i \in 1 .. Len(a) : a[i] = b[i]
  PROVE  a = b
BY SeqEqual DEF Words

LEMMA Rejoin ==
  ASSUME NEW w \in Words, NEW n \in 0 .. Len(w)
  PROVE  SubSeq(w, 1, n) \o drop(w, n) = w
<1> DEFINE a == SubSeq(w, 1, n)
           b == drop(w, n)
<1>1. a \in Words /\ Len(a) = n /\ \A i \in 1 .. n : a[i] = w[i]
  BY CutIs
<1>2. b \in Words /\ Len(b) = Len(w) - n /\ \A i \in 1 .. Len(w) - n : b[i] = w[n + i]
  BY DropIs
<1> HIDE DEF a, b
<1> DEFINE c == a \o b
<1>3. /\ c \in Words /\ Len(c) = Len(w)
      /\ \A i \in 1 .. n : c[i] = w[i]
      /\ \A i \in 1 .. Len(w) - n : c[n + i] = w[n + i]
  <2>1. Len(w) \in Nat /\ n + (Len(w) - n) = Len(w)
    BY LenIs
  <2>2. /\ a \o b \in Words /\ Len(a \o b) = Len(a) + Len(b)
        /\ \A i \in 1 .. Len(a) : (a \o b)[i] = a[i]
        /\ \A i \in 1 .. Len(b) : (a \o b)[Len(a) + i] = b[i]
    BY ONLY <1>1, <1>2, ConcatIs
  <2> QED BY <1>1, <1>2, <2>1, <2>2
<1> HIDE DEF c
<1>4. ASSUME NEW i \in 1 .. Len(w) PROVE c[i] = w[i]
  <2>1. CASE i <= n
    <3>1. i \in 1 .. n
      BY <2>1
    <3> QED BY <1>3, <3>1
  <2>2. CASE i > n
    <3>1. PICK j \in 1 .. Len(w) - n : i = n + j
      <4>1. i - n \in 1 .. Len(w) - n /\ n + (i - n) = i
        BY <2>2, LenIs
      <4> QED BY <4>1
    <3> QED BY <1>3, <3>1
  <2> QED BY <2>1, <2>2, LenIs
<1>5. c = w
  BY <1>3, <1>4, SameWord
<1> QED BY <1>5 DEF a, b, c

-----------------------------------------------------------------------------
\* Chains: what the pieces of a key are.

LEMMA ChainConcat ==
  ASSUME NEW a, NEW b, Chain(a), Chain(b), a # <<>>, b # <<>>,
         a[Len(a)] \in Separators => b[1] \notin DirSeps
  PROVE  Chain(a \o b)
<1>1. a \in Words /\ b \in Words /\ Len(a) \in Nat /\ Len(b) \in Nat /\ Len(a) > 0 /\ Len(b) > 0
  BY ChainIs, LenIs
<1> DEFINE w == a \o b
<1>2. /\ w \in Words /\ Len(w) = Len(a) + Len(b)
      /\ \A i \in 1 .. Len(a) : w[i] = a[i]
      /\ \A i \in 1 .. Len(b) : w[Len(a) + i] = b[i]
  BY <1>1, ConcatIs
<1> HIDE DEF w
<1>3. ASSUME NEW i \in 1 .. Len(w), w[i] \in Separators
      PROVE  IF i = Len(w) THEN w[i] # RUNTIME_MEMBER_SEP ELSE w[i + 1] \notin DirSeps
  <2>1. CASE i < Len(a)
    <3>1. i \in 1 .. Len(a) /\ i + 1 \in 1 .. Len(a) /\ i # Len(a) /\ i # Len(w)
      BY <1>1, <1>2, <2>1
    <3> QED BY <1>2, <1>3, <3>1, ChainIs
  <2>2. CASE i = Len(a)
    <3>1. i \in 1 .. Len(a) /\ i # Len(w) /\ w[i] = a[Len(a)] /\ 1 \in 1 .. Len(b)
      BY <1>1, <1>2, <2>2
    <3> QED BY <1>2, <1>3, <2>2, <3>1
  <2>3. CASE i > Len(a)
    <3> DEFINE j == i - Len(a)
    <3>1. j \in 1 .. Len(b) /\ Len(a) + j = i /\ (j = Len(b) <=> i = Len(w))
      BY <1>1, <1>2, <2>3
    <3>2. w[i] = b[j]
      BY <1>2, <3>1
    <3>3. j # Len(b) => j + 1 \in 1 .. Len(b) /\ Len(a) + (j + 1) = i + 1
      BY <1>1, <3>1
    <3>4. j # Len(b) => w[i + 1] = b[j + 1]
      BY <1>2, <3>3
    <3> HIDE DEF j
    <3> QED BY <1>3, <3>1, <3>2, <3>4, ChainIs
  <2> QED BY <1>1, <2>1, <2>2, <2>3
<1> QED BY <1>2, <1>3, ChainIs DEF w

LEMMA ChainAppend ==
  ASSUME NEW a, Chain(a), NEW c \in DirSeps, a # <<>> => a[Len(a)] \notin Separators
  PROVE  Chain(Append(a, c))
<1>1. a \in Words /\ Len(a) \in Nat /\ c \in Letters /\ (Len(a) > 0 => a # <<>>)
  BY ChainIs, LenIs, SepsDiffer
<1> DEFINE w == Append(a, c)
<1>2. /\ w \in Words /\ Len(w) = Len(a) + 1
      /\ \A i \in 1 .. Len(a) : w[i] = a[i]
      /\ w[Len(a) + 1] = c
  BY <1>1, AppendIs
<1> HIDE DEF w
<1>3. ASSUME NEW i \in 1 .. Len(w), w[i] \in Separators
      PROVE  IF i = Len(w) THEN w[i] # RUNTIME_MEMBER_SEP ELSE w[i + 1] \notin DirSeps
  <2>1. CASE i = Len(w)
    BY <1>2, <2>1, SepsDiffer
  <2>2. CASE i = Len(a)
    BY <1>1, <1>2, <1>3, <2>2
  <2>3. CASE i # Len(w) /\ i # Len(a)
    <3>1. i \in 1 .. Len(a) /\ i + 1 \in 1 .. Len(a)
      BY <1>1, <1>2, <2>3
    <3> QED BY <1>2, <1>3, <2>3, <3>1, ChainIs
  <2> QED BY <2>1, <2>2, <2>3
<1> QED BY <1>2, <1>3, ChainIs DEF w

LEMMA ChainDrop ==
  ASSUME NEW w, Chain(w), NEW n \in 0 .. Len(w)
  PROVE  Chain(drop(w, n))
<1>1. w \in Words /\ Len(w) \in Nat
  BY ChainIs, LenIs
<1> DEFINE d == drop(w, n)
<1>2. d \in Words /\ Len(d) = Len(w) - n /\ \A i \in 1 .. Len(w) - n : d[i] = w[n + i]
  BY <1>1, DropIs
<1> HIDE DEF d
<1>3. ASSUME NEW i \in 1 .. Len(d), d[i] \in Separators
      PROVE  IF i = Len(d) THEN d[i] # RUNTIME_MEMBER_SEP ELSE d[i + 1] \notin DirSeps
  <2>1. n + i \in 1 .. Len(w) /\ d[i] = w[n + i] /\ (i = Len(d) <=> n + i = Len(w))
    BY <1>1, <1>2
  <2>2. ASSUME i # Len(d) PROVE d[i + 1] = w[(n + i) + 1]
    <3> DEFINE l == Len(w)
    <3>1. l \in Nat /\ n \in 0 .. l /\ i \in 1 .. l - n /\ i # l - n
      BY <1>1, <1>2, <2>2
    <3> HIDE DEF l
    <3>2. PICK j \in 1 .. l - n : j = i + 1 /\ n + j = (n + i) + 1
      BY <3>1
    <3>3. d[j] = w[n + j]
      BY <1>2, <3>2 DEF l
    <3> QED BY <3>2, <3>3
  <2> QED BY <1>3, <2>1, <2>2, ChainIs
<1> QED BY <1>2, <1>3, ChainIs DEF d

\* A chain cut before a directory separator ends in a name.
LEMMA ChainCut ==
  ASSUME NEW w, Chain(w), NEW n \in 0 .. Len(w), n # Len(w) => w[n + 1] \in DirSeps
  PROVE  /\ Chain(SubSeq(w, 1, n))
         /\ n # 0 /\ n # Len(w) => w[n] \notin Separators
<1>1. w \in Words /\ Len(w) \in Nat
  BY ChainIs, LenIs
<1> DEFINE d == SubSeq(w, 1, n)
<1>2. d \in Words /\ Len(d) = n /\ \A i \in 1 .. n : d[i] = w[i]
  BY <1>1, CutIs
<1> HIDE DEF d
<1>3. ASSUME n # 0, n # Len(w) PROVE w[n] \notin Separators
  <2>1. n \in 1 .. Len(w) /\ w[n + 1] \in DirSeps
    BY <1>1, <1>3
  <2> QED BY <1>3, <2>1, ChainIs
<1>4. ASSUME NEW i \in 1 .. Len(d), d[i] \in Separators
      PROVE  IF i = Len(d) THEN d[i] # RUNTIME_MEMBER_SEP ELSE d[i + 1] \notin DirSeps
  <2>1. i \in 1 .. Len(w) /\ d[i] = w[i]
    BY <1>1, <1>2
  <2>2. CASE i = n
    BY <1>2, <1>3, <1>4, <2>1, <2>2, ChainIs
  <2>3. CASE i # n
    <3>1. i + 1 \in 1 .. n /\ i # Len(w) /\ i # Len(d) /\ d[i + 1] = w[i + 1]
      BY <1>1, <1>2, <2>3
    <3> QED BY <1>4, <2>1, <3>1, ChainIs
  <2> QED BY <2>2, <2>3
<1>5. Chain(d)
  BY <1>2, <1>4, ChainIs
<1> QED BY <1>3, <1>5 DEF d

-----------------------------------------------------------------------------
\* Directories, joining and splitting.

\* A key that names no directory.
Plain(k) == Regular(k) /\ k[Len(k)] \notin Separators

LEMMA RegularIs ==
  ASSUME NEW k, Regular(k)
  PROVE  /\ Chain(k) /\ k \in Words /\ Len(k) \in Nat /\ Len(k) >= 1 /\ k[1] = PATH_SEP /\ k # <<>>
         /\ k[Len(k)] \in Letters /\ k[Len(k)] # RUNTIME_MEMBER_SEP
<1>1. Chain(k) /\ k \in Words /\ k # <<>> /\ k[1] = PATH_SEP
  BY ChainIs DEF Regular
<1>2. Len(k) \in Nat /\ Len(k) >= 1 /\ Len(k) \in 1 .. Len(k)
  BY <1>1, LenIs
<1>3. k[Len(k)] \in Letters
  BY <1>1, <1>2, LenIs
<1>4. k[Len(k)] # RUNTIME_MEMBER_SEP
  BY <1>1, <1>2, ChainIs DEF Separators
<1> QED BY <1>1, <1>2, <1>3, <1>4

LEMMA RootIs == Root \in Words /\ Len(Root) = 1 /\ Root[1] = PATH_SEP /\ Chain(Root) /\ Regular(Root)
<1>1. Root \in Words /\ Len(Root) = 1 /\ Root[1] = PATH_SEP /\ Root # <<>>
  BY SepsDiffer DEF Root, Words
<1>2. Chain(Root)
  BY <1>1, ChainIs, SepsDiffer
<1> QED BY <1>1, <1>2 DEF Regular

LEMMA OnlyRoot ==
  ASSUME NEW k \in Words, Len(k) = 1, k[1] = PATH_SEP
  PROVE  k = Root
BY RootIs, SameWord

LEMMA DirIs ==
  ASSUME NEW k \in Words
  PROVE  is_dir(k) <=> k # <<>> /\ k[Len(k)] \in DirSeps
BY DEF is_dir, ends_with, Last, DirSeps

LEMMA PlainIs ==
  ASSUME NEW k, Regular(k)
  PROVE  Plain(k) <=> ~ is_dir(k)
BY RegularIs, DirIs, SepsDiffer DEF Plain

LEMMA RootNotPlain == ~ Plain(Root) /\ is_dir(Root)
BY RootIs, DirIs, SepsDiffer DEF Plain

LEMMA StripIs ==
  ASSUME NEW k, Regular(k), k # Root
  PROVE  /\ Plain(strip_dir_suf(k))
         /\ ~ is_dir(k) => strip_dir_suf(k) = k
         /\ is_dir(k) => k = Append(strip_dir_suf(k), Last(k)) /\ Last(k) \in DirSeps
<1>1. CASE ~ is_dir(k)
  BY <1>1, PlainIs DEF strip_dir_suf
<1>2. CASE is_dir(k)
  <2> DEFINE n == Len(k) - 1
             b == SubSeq(k, 1, n)
  <2>1. strip_dir_suf(k) = b
    BY <1>2 DEF strip_dir_suf, Front
  <2>2. k \in Words /\ Len(k) \in Nat /\ Len(k) >= 1 /\ Len(k) # 1 /\ k[1] = PATH_SEP /\ Chain(k)
    BY RegularIs, OnlyRoot
  <2>3. k[Len(k)] \in DirSeps /\ Last(k) = k[Len(k)]
    BY <1>2, <2>2, DirIs DEF Last
  <2>4. n \in 0 .. Len(k) /\ n # 0 /\ n # Len(k) /\ n + 1 = Len(k) /\ 1 \in 1 .. n /\ n \in 1 .. n
    BY <2>2
  <2>5. b \in Words /\ Len(b) = n /\ \A i \in 1 .. n : b[i] = k[i]
    BY <2>2, <2>4, CutIs
  <2>6. Chain(b) /\ k[n] \notin Separators
    <3>1. k[n + 1] \in DirSeps
      BY <2>3, <2>4
    <3> HIDE DEF n
    <3> QED BY <2>2, <2>4, <3>1, ChainCut
  <2>7. b # <<>> /\ b[1] = PATH_SEP /\ b[Len(b)] \notin Separators
    <3> HIDE DEF n, b
    <3> QED BY <2>2, <2>4, <2>5, <2>6, LenIs
  <2>8. Plain(b)
    BY <2>6, <2>7 DEF Plain, Regular
  <2>9. k = Append(b, Last(k))
    <3> DEFINE c == Last(k)
               w == Append(b, c)
    <3>1. c \in Letters
      BY <2>3, SepsDiffer
    <3>2. w \in Words /\ Len(w) = n + 1 /\ (\A i \in 1 .. n : w[i] = b[i]) /\ w[n + 1] = c
      <4> HIDE DEF b, c, n
      <4> QED BY <2>5, <3>1, AppendIs
    <3>3. ASSUME NEW i \in 1 .. Len(k) PROVE k[i] = w[i]
      <4> HIDE DEF w, b
      <4>1. CASE i = Len(k)
        BY <2>3, <2>4, <3>2, <4>1
      <4>2. CASE i # Len(k)
        <5>1. i \in 1 .. n
          BY <2>2, <4>2
        <5> QED BY <2>5, <3>2, <5>1
      <4> QED BY <4>1, <4>2
    <3>4. Len(w) = Len(k)
      BY <2>4, <3>2
    <3> HIDE DEF w, c
    <3>5. k = w
      BY <2>2, <3>2, <3>3, <3>4, SameWord
    <3> QED BY <3>5 DEF w, c
  <2> QED BY <1>2, <2>1, <2>3, <2>8, <2>9
<1> QED BY <1>1, <1>2

\* What may follow a directory separator.
Name(c) == Chain(c) /\ c # <<>> /\ c[1] \notin DirSeps

LEMMA JoinAny ==
  ASSUME NEW t \in Words, NEW c \in Words
  PROVE  /\ join_path(t, c) \in Words /\ join_path(t, c) # <<>>
         /\ is_dir(t) => join_path(t, c) = t \o c
         /\ ~ is_dir(t) => join_path(t, c) = (t \o Root) \o c
<1>1. is_dir(t) => t \o c \in Words /\ Len(t \o c) = Len(t) + Len(c) /\ Len(t) > 0
  BY ConcatIs, DirIs, LenIs
<1>2. t \o Root \in Words /\ Len(t \o Root) = Len(t) + 1
  <2>1. Root \in Words /\ Len(Root) = 1
    BY RootIs
  <2>2. t \o Root \in Words /\ Len(t \o Root) = Len(t) + Len(Root)
    BY ONLY t \in Words, <2>1, ConcatIs
  <2> QED BY <2>1, <2>2
<1>3. (t \o Root) \o c \in Words /\ Len((t \o Root) \o c) = Len(t) + 1 + Len(c)
  <2> DEFINE a == t \o Root
  <2> HIDE DEF a
  <2>1. a \o c \in Words /\ Len(a \o c) = Len(a) + Len(c)
    BY <1>2, ConcatIs DEF a
  <2> QED BY <1>2, <2>1 DEF a
<1>4. is_dir(t) => t \o c # <<>>
  BY <1>1, LenIs
<1>5. (t \o Root) \o c # <<>>
  BY <1>3, LenIs
<1> QED BY <1>1, <1>3, <1>4, <1>5 DEF join_path

LEMMA RegularConcat ==
  ASSUME NEW a, Regular(a), NEW c, Chain(c), c # <<>>,
         a[Len(a)] \in Separators => c[1] \notin DirSeps
  PROVE  Regular(a \o c) /\ (a \o c)[Len(a \o c)] = c[Len(c)] /\ Len(a \o c) = Len(a) + Len(c)
<1>1. Chain(a) /\ a # <<>> /\ a \in Words /\ Len(a) \in Nat /\ Len(a) >= 1 /\ a[1] = PATH_SEP
  BY RegularIs
<1>2. c \in Words /\ Len(c) \in Nat /\ Len(c) # 0
  BY ChainIs, LenIs
<1> DEFINE w == a \o c
<1>3. Chain(w)
  BY <1>1, ChainConcat
<1>4. /\ w \in Words /\ Len(w) = Len(a) + Len(c)
      /\ \A i \in 1 .. Len(a) : w[i] = a[i]
      /\ \A i \in 1 .. Len(c) : w[Len(a) + i] = c[i]
  BY <1>1, <1>2, ConcatIs
<1> HIDE DEF w
<1>5. w[1] = PATH_SEP /\ w[Len(w)] = c[Len(c)] /\ w # <<>>
  <2>1. 1 \in 1 .. Len(a) /\ Len(c) \in 1 .. Len(c) /\ Len(w) # 0
    BY <1>1, <1>2, <1>4
  <2> QED BY <1>1, <1>4, <2>1, LenIs
<1> QED BY <1>3, <1>4, <1>5 DEF w, Regular

LEMMA RegularRoot ==
  ASSUME NEW a, Plain(a)
  PROVE  /\ Regular(a \o Root) /\ a \o Root = Append(a, PATH_SEP)
         /\ (a \o Root)[Len(a \o Root)] = PATH_SEP /\ Len(a \o Root) = Len(a) + 1
         /\ is_dir(a \o Root) /\ a \o Root # Root /\ strip_dir_suf(a \o Root) = a
<1>1. Regular(a) /\ a[Len(a)] \notin Separators /\ a \in Words /\ Len(a) \in Nat /\ Len(a) >= 1
  BY RegularIs DEF Plain
<1>2. Root # <<>> /\ Len(Root) = 1 /\ Root[1] = PATH_SEP /\ Chain(Root)
  BY RootIs DEF Root
<1>3. Regular(a \o Root) /\ (a \o Root)[Len(a \o Root)] = PATH_SEP /\ Len(a \o Root) = Len(a) + 1
  BY <1>1, <1>2, RegularConcat
<1>4. a \o Root = Append(a, PATH_SEP)
  BY <1>1, SepsDiffer DEF Root, Words
<1>5. is_dir(a \o Root)
  BY <1>3, RegularIs, DirIs, SepsDiffer
<1>6. a \o Root # Root
  BY <1>1, <1>2, <1>3
<1>7. Front(Append(a, PATH_SEP)) = a
  BY <1>1, SepsDiffer DEF Front, Words
<1> QED BY <1>3, <1>4, <1>5, <1>6, <1>7 DEF strip_dir_suf

LEMMA JoinRegular ==
  ASSUME NEW t, Regular(t), NEW c, Name(c)
  PROVE  /\ Regular(join_path(t, c))
         /\ is_dir(join_path(t, c)) <=> is_dir(c)
         /\ Len(join_path(t, c)) > Len(t)
<1>1. t \in Words /\ c \in Words /\ Len(c) \in Nat /\ Len(c) # 0 /\ Len(t) \in Nat
  BY RegularIs, ChainIs, LenIs DEF Name
<1>2. ASSUME NEW a, Regular(a), Len(a) >= Len(t), NEW w, w = a \o c
      PROVE  /\ Regular(w) /\ (is_dir(w) <=> is_dir(c)) /\ Len(w) > Len(t)
  <2>1. Regular(a \o c) /\ (a \o c)[Len(a \o c)] = c[Len(c)] /\ Len(a \o c) = Len(a) + Len(c)
    BY <1>2, RegularConcat DEF Name
  <2>2. Regular(w) /\ w[Len(w)] = c[Len(c)] /\ Len(w) = Len(a) + Len(c)
    BY <1>2, <2>1
  <2>3. is_dir(w) <=> is_dir(c)
    BY <1>1, <2>2, RegularIs, DirIs DEF Name
  <2>4. Len(a) \in Nat
    BY <1>2, RegularIs
  <2> QED BY <1>1, <1>2, <2>2, <2>3, <2>4
<1>3. CASE is_dir(t)
  <2> DEFINE w == join_path(t, c)
  <2>1. w = t \o c /\ Len(t) >= Len(t)
    BY <1>1, <1>3 DEF join_path
  <2> HIDE DEF w
  <2>2. /\ Regular(w) /\ (is_dir(w) <=> is_dir(c)) /\ Len(w) > Len(t)
    BY <1>2, <2>1
  <2> QED BY <2>2 DEF w
<1>4. CASE ~ is_dir(t)
  <2>1. Regular(t \o Root) /\ Len(t \o Root) = Len(t) + 1
    BY <1>4, PlainIs, RegularRoot
  <2> DEFINE a == t \o Root
             w == join_path(t, c)
  <2>2. w = a \o c
    BY <1>4 DEF join_path
  <2>3. Regular(a) /\ Len(a) >= Len(t)
    BY <1>1, <2>1
  <2> HIDE DEF a, w
  <2>4. /\ Regular(w) /\ (is_dir(w) <=> is_dir(c)) /\ Len(w) > Len(t)
    BY <1>2, <2>2, <2>3
  <2> QED BY <2>4 DEF w
<1> QED BY <1>3, <1>4

LEMMA RfindIs ==
  ASSUME NEW k \in Words, NEW c
  PROVE  /\ rfind(k, c) \in 0 .. Len(k)
         /\ rfind(k, c) # 0 => k[rfind(k, c)] = c
         /\ \A j \in 1 .. Len(k) : k[j] = c => j <= rfind(k, c)
<1> DEFINE T == {0} \cup {i \in DOMAIN k : k[i] = c}
<1>1. DOMAIN k = 1 .. Len(k) /\ Len(k) \in Nat
  BY DEF Words
<1>2. T \subseteq Nat /\ T # {} /\ \A x \in T : x <= Len(k)
  BY <1>1
<1>3. Max(T) \in T /\ \A y \in T : y <= Max(T)
  <2> HIDE DEF T
  <2> QED BY <1>1, <1>2, MaxIs
<1>4. rfind(k, c) = Max(T)
  BY DEF rfind
<1> QED BY <1>1, <1>3, <1>4

\* The last '/' of a key, and what is before and behind it.
LEMMA SepPath ==
  ASSUME NEW k, Regular(k), k # Root
  PROVE  \E i \in 1 .. Len(k) :
           /\ k[i] = PATH_SEP /\ \A j \in 1 .. Len(k) : k[j] = PATH_SEP => j <= i
           /\ sep_path(k).last = drop(k, i)
           /\ i = 1 => sep_path(k).prefix = Root
           /\ i # 1 => sep_path(k).prefix = SubSeq(k, 1, i - 1)
<1> DEFINE i == rfind(k, PATH_SEP)
<1>1. k \in Words /\ Len(k) \in Nat /\ Len(k) >= 1 /\ k[1] = PATH_SEP /\ 1 \in 1 .. Len(k)
  BY RegularIs
<1>2. /\ i \in 0 .. Len(k) /\ (i # 0 => k[i] = PATH_SEP)
      /\ \A j \in 1 .. Len(k) : k[j] = PATH_SEP => j <= i
  BY <1>1, RfindIs
<1>3. i \in 1 .. Len(k) /\ i # 0
  BY <1>1, <1>2
<1>4. CASE i = 1
  <2>1. sep_path(k) = [prefix |-> Root, last |-> Tail(k)]
    BY <1>4 DEF sep_path
  <2>2. Tail(k) = drop(k, i)
    BY <1>1, <1>4 DEF drop, Words
  <2> HIDE DEF i
  <2> QED BY <1>2, <1>3, <1>4, <2>1, <2>2
<1>5. CASE i # 1
  <2>1. sep_path(k) = [prefix |-> SubSeq(k, 1, i - 1), last |-> drop(k, i)]
    BY <1>3, <1>5 DEF sep_path
  <2> HIDE DEF i
  <2> QED BY <1>2, <1>3, <1>5, <2>1
<1> QED BY <1>4, <1>5

LEMMA Split ==
  ASSUME NEW k, Regular(k), k # Root
  PROVE  /\ sep_path(k).prefix = Root \/ Plain(sep_path(k).prefix)
         /\ Len(sep_path(k).prefix) < Len(k)
         /\ Chain(sep_path(k).last)
         /\ sep_path(k).last # <<>> => Name(sep_path(k).last)
         /\ sep_path(k).last # <<>> => sep_path(k).last[Len(sep_path(k).last)] = k[Len(k)]
         /\ sep_path(k).last = <<>> => k[Len(k)] = PATH_SEP
         /\ \A j \in 1 .. Len(sep_path(k).last) : sep_path(k).last[j] # PATH_SEP
         /\ k = parent_dir(k) \o sep_path(k).last
         /\ Regular(parent_dir(k)) /\ parent_dir(k)[Len(parent_dir(k))] = PATH_SEP
<1>1. /\ k \in Words /\ Len(k) \in Nat /\ Len(k) >= 1 /\ k[1] = PATH_SEP /\ 1 \in 1 .. Len(k)
      /\ Chain(k) /\ Len(k) # 1
  BY RegularIs, OnlyRoot
<1>2. PICK i \in 1 .. Len(k) :
           /\ k[i] = PATH_SEP /\ \A j \in 1 .. Len(k) : k[j] = PATH_SEP => j <= i
           /\ sep_path(k).last = drop(k, i)
           /\ i = 1 => sep_path(k).prefix = Root
           /\ i # 1 => sep_path(k).prefix = SubSeq(k, 1, i - 1)
  BY SepPath
<1> DEFINE l == sep_path(k).last
           p == sep_path(k).prefix
           d == parent_dir(k)
           m == Len(k) - i
<1>3. l = drop(k, i) /\ i \in 0 .. Len(k) /\ i \in Nat
  BY <1>2
<1>4. l \in Words /\ Len(l) = m /\ \A j \in 1 .. m : l[j] = k[i + j]
  BY <1>1, <1>3, DropIs
<1>5. Chain(l)
  BY <1>1, <1>3, ChainDrop
<1>6. p = Root \/ Plain(p)
  <2>1. CASE i = 1
    BY <1>2, <2>1
  <2>2. CASE i # 1
    <3> DEFINE n == i - 1
    <3>1. n \in 0 .. Len(k) /\ n # 0 /\ n # Len(k) /\ n + 1 = i /\ k[n + 1] \in DirSeps /\ n \in 1 .. n /\ 1 \in 1 .. n
      BY <1>1, <1>2, <2>2, SepsDiffer
    <3>2. p = SubSeq(k, 1, n)
      BY <1>2, <2>2
    <3> HIDE DEF n, p
    <3>3. Chain(p) /\ k[n] \notin Separators
      BY <1>1, <3>1, <3>2, ChainCut
    <3>4. p \in Words /\ Len(p) = n /\ \A j \in 1 .. n : p[j] = k[j]
      BY <1>1, <3>1, <3>2, CutIs
    <3>5. p # <<>> /\ p[1] = PATH_SEP /\ p[Len(p)] \notin Separators
      BY <1>1, <3>1, <3>3, <3>4, LenIs
    <3> QED BY <3>3, <3>5 DEF Plain, Regular
  <2> QED BY <2>1, <2>2
<1>7. Len(p) < Len(k) /\ (p = Root => i = 1) /\ (i = 1 => p = Root)
  <2>1. CASE i = 1
    BY <1>1, <1>2, <2>1, RootIs
  <2>2. CASE i # 1
    <3>1. i - 1 \in 0 .. Len(k)
      BY <1>1, <2>2
    <3>2. p = SubSeq(k, 1, i - 1)
      BY <1>2, <2>2
    <3>3. Len(p) = i - 1
      BY <1>1, <3>1, <3>2, CutIs
    <3>4. ASSUME p = Root PROVE k[2] = PATH_SEP /\ i = 2
      <4>1. Len(p) = 1
        BY <3>4, RootIs
      <4>2. i = 2
        <5> DEFINE q == Len(p)
        <5>1. q = i - 1 /\ q = 1 /\ i \in Nat
          BY <1>3, <3>3, <4>1
        <5> HIDE DEF q
        <5> QED BY ONLY <5>1
      <4> QED BY <1>2, <4>2
    <3>5. k[2] # PATH_SEP
      <4>1. 1 # Len(k) /\ k[1] \in Separators
        BY <1>1, SepsDiffer
      <4>2. k[1 + 1] \notin DirSeps
        BY <1>1, <4>1, ChainIs
      <4> QED BY <4>2, SepsDiffer
    <3> QED BY <1>1, <2>2, <3>3, <3>4, <3>5
  <2> QED BY <2>1, <2>2
<1>8. l # <<>> => Name(l) /\ l[Len(l)] = k[Len(k)]
  <2> SUFFICES ASSUME l # <<>> PROVE l[1] \notin DirSeps /\ l[Len(l)] = k[Len(k)]
    BY <1>5 DEF Name
  <2> HIDE DEF l
  <2>1. m \in Nat /\ m >= 1 /\ 1 \in 1 .. m /\ m \in 1 .. m /\ i # Len(k) /\ i + m = Len(k)
    BY <1>1, <1>4, LenIs
  <2>2. k[i + 1] \notin DirSeps
    <3>1. k[i] \in Separators
      BY <1>2, SepsDiffer
    <3> QED BY <1>1, <2>1, <3>1, ChainIs
  <2> QED BY <1>4, <2>1, <2>2
<1>9. l = <<>> => k[Len(k)] = PATH_SEP
  <2> SUFFICES ASSUME l = <<>> PROVE i = Len(k)
    BY <1>2
  <2>1. m = 0
    BY <1>4, LenIs
  <2> QED BY <1>1, <2>1
<1>10. ASSUME NEW j \in 1 .. Len(l) PROVE l[j] # PATH_SEP
  <2> HIDE DEF l
  <2>1. j \in 1 .. m /\ i + j \in 1 .. Len(k) /\ ~ (i + j <= i)
    BY <1>1, <1>4
  <2> QED BY <1>2, <1>4, <2>1
<1>11. d = SubSeq(k, 1, i)
  <2>1. CASE i = 1
    <3>1. d = Root
      BY <1>7, <2>1 DEF parent_dir
    <3>2. SubSeq(k, 1, 1) \in Words /\ Len(SubSeq(k, 1, 1)) = 1 /\ SubSeq(k, 1, 1)[1] = PATH_SEP
      <4>1. 1 \in 0 .. Len(k) /\ 1 \in 1 .. 1
        BY <1>1
      <4> QED BY <1>1, <4>1, CutIs
    <3>3. SubSeq(k, 1, 1) = Root
      BY <3>2, OnlyRoot
    <3> QED BY <2>1, <3>1, <3>3
  <2>2. CASE i # 1
    <3> DEFINE w == SubSeq(k, 1, i)
               n == i - 1
    <3>1. p # Root /\ Plain(p) /\ p = SubSeq(k, 1, n)
      BY <1>2, <1>6, <1>7, <2>2
    <3>2. d = p \o Root
      BY <3>1 DEF parent_dir
    <3>3. n \in 0 .. Len(k) /\ i = n + 1
      BY <1>1, <2>2
    <3>4. p \in Words /\ Len(p) = n /\ \A j \in 1 .. n : p[j] = k[j]
      BY <1>1, <3>1, <3>3, CutIs
    <3>5. d = Append(p, PATH_SEP)
      BY <3>1, <3>2, RegularRoot
    <3> HIDE DEF p, d
    <3>6. d \in Words /\ Len(d) = n + 1 /\ (\A j \in 1 .. n : d[j] = p[j]) /\ d[n + 1] = PATH_SEP
      BY <3>4, <3>5, AppendIs, SepsDiffer
    <3>7. w \in Words /\ Len(w) = i /\ \A j \in 1 .. i : w[j] = k[j]
      BY <1>1, <1>3, CutIs
    <3> HIDE DEF w
    <3>8. ASSUME NEW j \in 1 .. Len(d) PROVE d[j] = w[j]
      <4>1. CASE j = i
        BY <1>2, <3>3, <3>6, <3>7, <4>1
      <4>2. CASE j # i
        <5>1. j \in 1 .. n /\ j \in 1 .. i
          BY <3>3, <3>6, <4>2
        <5> QED BY <3>4, <3>6, <3>7, <5>1
      <4> QED BY <4>1, <4>2
    <3>9. d = w
      BY <3>3, <3>6, <3>7, <3>8, SameWord
    <3> QED BY <3>9 DEF w
  <2> QED BY <2>1, <2>2
<1>12. k = d \o l
  BY <1>1, <1>3, <1>11, Rejoin
<1>13. Regular(d) /\ d[Len(d)] = PATH_SEP
  <2>1. CASE p = Root
    <3>1. d = Root
      BY <2>1 DEF parent_dir
    <3> QED BY <3>1, RootIs
  <2>2. CASE p # Root
    <3>1. Plain(p) /\ d = p \o Root
      BY <1>6, <2>2 DEF parent_dir
    <3> HIDE DEF p, d
    <3> QED BY <3>1, RegularRoot
  <2> QED BY <2>1, <2>2
<1> QED BY <1>5, <1>6, <1>7, <1>8, <1>9, <1>10, <1>12, <1>13

-----------------------------------------------------------------------------
\* Links.

\* Contents all of whose keys are keys, whose values are XValues and whose links
\* lead to keys.
Contents == UNION {[D -> XValue] : D \in SUBSET Words}
Fine(s) ==
  /\ s \in Contents /\ IsFiniteSet(DOMAIN s)
  /\ \A k \in DOMAIN s : Regular(k) /\ (s[k].kind = "ptr" => Regular(s[k].body))

LEMMA MakeFine ==
  ASSUME NEW D, NEW t \in [D -> XValue], IsFiniteSet(D),
         \A k \in D : Regular(k) /\ (t[k].kind = "ptr" => Regular(t[k].body))
  PROVE  Fine(t)
<1>1. D \in SUBSET Words /\ DOMAIN t = D
  BY RegularIs
<1>2. t \in Contents
  BY <1>1 DEF Contents
<1> QED BY <1>1, <1>2 DEF Fine

LEMMA FineIs ==
  ASSUME NEW s, Fine(s)
  PROVE  /\ s \in [DOMAIN s -> XValue] /\ IsFiniteSet(DOMAIN s) /\ DOMAIN s \subseteq Words
         /\ \A k \in DOMAIN s : s[k] \in XValue
         /\ \A k \in DOMAIN s : Regular(k) /\ (s[k].kind = "ptr" => Regular(s[k].body))
<1>1. PICK D \in SUBSET Words : s \in [D -> XValue]
  BY DEF Fine, Contents
<1> QED BY <1>1 DEF Fine

LEMMA PtrIs ==
  ASSUME NEW s, NEW k
  PROVE  is_ptr(s, k) <=> k \in DOMAIN s /\ s[k].kind = "ptr"
BY DEF is_ptr, Lookup, Absent

LEMMA FirstLink ==
  ASSUME NEW s, NEW p \in Words, NEW i, i = first_link(s, p)
  PROVE  /\ i = 0 <=> \A j \in 2 .. Len(p) :
                        j = Len(p) \/ p[j + 1] = PATH_SEP => ~ is_ptr(s, SubSeq(p, 1, j))
         /\ i # 0 => /\ i \in 2 .. Len(p) /\ (i = Len(p) \/ p[i + 1] = PATH_SEP)
                     /\ is_ptr(s, SubSeq(p, 1, i))
<1> DEFINE T == {j \in 2 .. Len(p) : /\ j = Len(p) \/ p[j + 1] = PATH_SEP
                                     /\ is_ptr(s, SubSeq(p, 1, j))}
<1>1. i = IF T = {} THEN 0 ELSE Min(T)
  BY DEF first_link
<1>2. Len(p) \in Nat
  BY LenIs
<1>3. CASE T = {}
  BY <1>1, <1>3
<1>4. CASE T # {}
  <2>1. T \subseteq Nat
    BY <1>2
  <2>2. Min(T) \in T
    <3> HIDE DEF T
    <3> QED BY <1>4, <2>1, MinIs
  <2>3. i \in T /\ i # 0
    BY <1>1, <1>2, <1>4, <2>2
  <2> QED BY <2>3
<1> QED BY <1>3, <1>4

\* The way of a link: its target joined with the rest, the directory kept.
LEMMA Retarget ==
  ASSUME NEW path, Regular(path), path # Root, NEW target, Regular(target), NEW clean, clean = strip_dir_suf(path),
         NEW i \in 2 .. Len(clean), i = Len(clean) \/ clean[i + 1] = PATH_SEP
  PROVE  \E next :
           /\ Regular(next) /\ retarget(path, clean, i, target) = keep_suf(path, next)
           /\ \A q : retarget(q, clean, i, target) = keep_suf(q, next)
<1> DEFINE next == IF i < Len(clean) THEN join_path(target, drop(clean, i + 1)) ELSE target
<1>1. \A q : retarget(q, clean, i, target) = keep_suf(q, next)
  BY DEF retarget
<1>2. Regular(next)
  <2>1. CASE ~ (i < Len(clean))
    BY <2>1
  <2>2. CASE i < Len(clean)
    <3>1. Plain(clean) /\ Chain(clean) /\ clean \in Words /\ Len(clean) \in Nat /\ clean[Len(clean)] \notin Separators
      BY StripIs, RegularIs DEF Plain
    <3>2. i + 1 \in 1 .. Len(clean) /\ i + 1 \in 0 .. Len(clean) /\ clean[i + 1] = PATH_SEP /\ i + 1 # Len(clean)
      BY <2>2, <3>1, SepsDiffer
    <3> DEFINE n == i + 1
               r == drop(clean, n)
               m == Len(clean) - n
    <3>3. clean[n + 1] \notin DirSeps
      <4>1. clean[n] \in Separators /\ n \in 1 .. Len(clean) /\ n # Len(clean)
        BY <3>2, SepsDiffer
      <4> HIDE DEF n
      <4> QED BY <3>1, <4>1, ChainIs
    <3>4. Chain(r)
      <4> HIDE DEF n
      <4>1. n \in 0 .. Len(clean)
        BY <3>2 DEF n
      <4> QED BY <3>1, <4>1, ChainDrop
    <3>5. r \in Words /\ Len(r) = m /\ \A j \in 1 .. m : r[j] = clean[n + j]
      <4>1. n \in 0 .. Len(clean)
        BY <3>2
      <4> HIDE DEF n
      <4> QED BY <3>1, <4>1, DropIs
    <3>6. m \in Nat /\ 1 \in 1 .. m
      BY <3>1, <3>2
    <3>7. r # <<>> /\ r[1] \notin DirSeps
      <4> HIDE DEF r, m, n
      <4> QED BY <3>3, <3>5, <3>6, LenIs
    <3>8. Name(r)
      BY <3>4, <3>7 DEF Name
    <3>9. next = join_path(target, r)
      BY <2>2
    <3> HIDE DEF r, next
    <3> QED BY <3>8, <3>9, JoinRegular
  <2> QED BY <2>1, <2>2
<1> HIDE DEF next
<1> QED BY <1>1, <1>2

LEMMA KeepSuf ==
  ASSUME NEW path, Regular(path), NEW next, Regular(next)
  PROVE  /\ Regular(keep_suf(path, next))
         /\ is_dir(path) => is_dir(keep_suf(path, next))
         /\ ~ is_dir(path) => keep_suf(path, next) = next
<1>1. CASE ~ (is_dir(path) /\ ~ is_dir(next))
  BY <1>1 DEF keep_suf
<1>2. CASE is_dir(path) /\ ~ is_dir(next)
  <2> DEFINE c == Last(path)
             w == Append(next, c)
  <2>1. c \in DirSeps /\ c \in Letters
    BY <1>2, DirIs, RegularIs, SepsDiffer DEF Last
  <2>2. Chain(next) /\ next \in Words /\ next # <<>> /\ next[1] = PATH_SEP /\ Len(next) \in Nat
        /\ Len(next) >= 1 /\ next[Len(next)] \notin Separators
    BY <1>2, RegularIs, PlainIs DEF Plain
  <2> HIDE DEF c
  <2>3. Chain(w)
    BY <2>1, <2>2, ChainAppend
  <2>4. w \in Words /\ Len(w) = Len(next) + 1 /\ (\A i \in 1 .. Len(next) : w[i] = next[i]) /\ w[Len(next) + 1] = c
    BY <2>1, <2>2, AppendIs
  <2>5. keep_suf(path, next) = w
    BY <1>2 DEF keep_suf, c
  <2> HIDE DEF w
  <2>6. w # <<>> /\ w[1] = PATH_SEP /\ w[Len(w)] = c
    BY <2>2, <2>4, LenIs
  <2> QED BY <1>2, <2>1, <2>3, <2>4, <2>5, <2>6, DirIs DEF Regular
<1> QED BY <1>1, <1>2

LEMMA ResolveRoot ==
  ASSUME NEW s
  PROVE  resolve_one(s, Root) = Root
<1> DEFINE r == Root
           T == {i \in 2 .. Len(r) : /\ i = Len(r) \/ r[i + 1] = PATH_SEP
                                     /\ is_ptr(s, SubSeq(r, 1, i))}
<1>1. T = {}
  BY RootIs
<1>2. first_link(s, r) = 0
  BY <1>1 DEF first_link
<1> QED BY <1>2 DEF resolve_one

\* One hop: nothing, or the first link replaced, whatever follows its separator.
LEMMA OneHop ==
  ASSUME NEW s, Fine(s), NEW path, Regular(path), path # Root
  PROVE  \/ /\ first_link(s, strip_dir_suf(path)) = 0 /\ resolve_one(s, path) = path
         \/ /\ first_link(s, strip_dir_suf(path)) # 0
            /\ \E next : /\ Regular(next) /\ resolve_one(s, path) = keep_suf(path, next)
                         /\ \A q : q # Root /\ strip_dir_suf(q) = strip_dir_suf(path) =>
                                     resolve_one(s, q) = keep_suf(q, next)
<1> DEFINE clean == strip_dir_suf(path)
           i == first_link(s, clean)
<1>1. Plain(clean) /\ clean \in Words
  BY StripIs, RegularIs DEF Plain
<1>2. CASE i = 0
  BY <1>2 DEF resolve_one
<1>3. CASE i # 0
  <2> DEFINE link == SubSeq(clean, 1, i)
             target == s[link].body
  <2> HIDE DEF i
  <2>1. i \in 2 .. Len(clean) /\ (i = Len(clean) \/ clean[i + 1] = PATH_SEP) /\ is_ptr(s, link)
    <3> HIDE DEF clean
    <3> QED BY <1>1, <1>3, FirstLink DEF i
  <2>2. Regular(target)
    <3> HIDE DEF link
    <3> QED BY <2>1, PtrIs, FineIs
  <2>3. \A q : q # Root /\ strip_dir_suf(q) = clean => resolve_one(s, q) = retarget(q, clean, i, target)
    BY <1>3 DEF resolve_one, i
  <2> HIDE DEF target
  <2>4. clean = strip_dir_suf(path)
    OBVIOUS
  <2> HIDE DEF clean
  <2>5. PICK next :
           /\ Regular(next) /\ retarget(path, clean, i, target) = keep_suf(path, next)
           /\ \A q : retarget(q, clean, i, target) = keep_suf(q, next)
    BY <2>1, <2>2, <2>4, Retarget
  <2>6. \A q : q # Root /\ strip_dir_suf(q) = clean => resolve_one(s, q) = keep_suf(q, next)
    BY <2>3, <2>5
  <2>7. resolve_one(s, path) = keep_suf(path, next)
    BY <2>4, <2>6
  <2> QED BY <1>3, <2>5, <2>6, <2>7 DEF clean, i
<1> QED BY <1>2, <1>3

LEMMA ResolveOne ==
  ASSUME NEW s, Fine(s), NEW path, Regular(path)
  PROVE  Regular(resolve_one(s, path)) /\ (is_dir(path) => is_dir(resolve_one(s, path)))
<1>1. CASE path = Root
  BY <1>1, ResolveRoot
<1>2. CASE path # Root
  BY <1>2, OneHop, KeepSuf
<1> QED BY <1>1, <1>2

\* The directory form of a key.
Slashed(q) == IF is_dir(q) THEN q ELSE q \o Root

LEMMA SlashedHop ==
  ASSUME NEW s, Fine(s), NEW q, Regular(q)
  PROVE  resolve_one(s, Slashed(q)) = Slashed(resolve_one(s, q))
<1>1. CASE is_dir(q)
  BY <1>1, ResolveOne DEF Slashed
<1>2. CASE ~ is_dir(q)
  <2> DEFINE d == q \o Root
  <2>1. Slashed(q) = d
    BY <1>2 DEF Slashed
  <2>2. Plain(q) /\ q # Root
    BY <1>2, PlainIs, RootNotPlain
  <2>3. Regular(d) /\ d # Root /\ is_dir(d) /\ strip_dir_suf(d) = q /\ d = Append(q, PATH_SEP)
        /\ d[Len(d)] = PATH_SEP
    BY <2>2, RegularRoot
  <2>4. strip_dir_suf(q) = q
    BY <2>2, <1>2, StripIs
  <2> HIDE DEF d
  <2>5. CASE first_link(s, q) = 0
    <3>1. resolve_one(s, q) = q /\ resolve_one(s, d) = d
      BY <2>2, <2>3, <2>4, <2>5, OneHop
    <3> QED BY <2>1, <3>1
  <2>6. CASE first_link(s, q) # 0
    <3>1. PICK next : /\ Regular(next) /\ resolve_one(s, q) = keep_suf(q, next)
                      /\ \A r : r # Root /\ strip_dir_suf(r) = strip_dir_suf(q) =>
                                  resolve_one(s, r) = keep_suf(r, next)
      BY <2>2, <2>4, <2>6, OneHop
    <3>2. resolve_one(s, d) = keep_suf(d, next)
      BY <2>3, <2>4, <3>1
    <3>3. resolve_one(s, q) = next
      BY <1>2, <3>1, KeepSuf
    <3>4. keep_suf(d, next) = Slashed(next)
      <4>1. CASE is_dir(next)
        BY <4>1 DEF keep_suf, Slashed
      <4>2. CASE ~ is_dir(next)
        <5>1. next \o Root = Append(next, PATH_SEP)
          BY <3>1, <4>2, PlainIs, RegularRoot
        <5> QED BY <2>3, <4>2, <5>1 DEF keep_suf, Slashed, Last
      <4> QED BY <4>1, <4>2
    <3> QED BY <2>1, <3>2, <3>3, <3>4
  <2> QED BY <2>5, <2>6
<1> QED BY <1>1, <1>2

\* f is the path after each hop.
Hops(f, s, path) ==
  /\ \A n \in 0 .. HopLimit : Regular(f[n])
  /\ f[0] = path /\ resolve_path(s, path) = f[HopLimit]
  /\ \A n \in 1 .. HopLimit : f[n] = resolve_one(s, f[n - 1])

LEMMA HopsExist ==
  ASSUME NEW s, Fine(s), NEW path, Regular(path)
  PROVE  \E f : Hops(f, s, path)
<1> DEFINE m == HopLimit
           V == {k \in Words : Regular(k)}
           step == [i \in 1 .. m |-> [q \in V |-> resolve_one(s, q)]]
           Body(g) == [n \in 0 .. HopLimit |-> IF n = 0 THEN path ELSE resolve_one(s, g[n - 1])]
           h == CHOOSE g : g = Body(g)
<1>1. m \in Nat
  BY HopLimitAssumption
<1>2. path \in V
  BY RegularIs
<1>3. step \in [1 .. m -> [V -> V]]
  <2>1. \A q \in V : resolve_one(s, q) \in V
    BY ResolveOne, RegularIs
  <2> QED BY <2>1
<1>4. \E f : Follows(f, m, V, path, step)
  <2> HIDE DEF step, m, V
  <2> QED BY <1>1, <1>2, <1>3, Recursion
<1>5. PICK f \in [0 .. m -> V] : f[0] = path /\ \A i \in 1 .. m : f[i] = step[i][f[i - 1]]
  BY <1>4 DEF Follows
<1>6. ASSUME NEW i \in 1 .. m
      PROVE  f[i] = resolve_one(s, f[i - 1])
  <2>1. i - 1 \in 0 .. m
    BY <1>1
  <2>2. f[i - 1] \in V
    BY <2>1
  <2> QED BY <1>5, <2>2
<1>7. f = Body(f)
  <2>1. ASSUME NEW i \in 0 .. m PROVE f[i] = Body(f)[i]
    <3>1. CASE i = 0
      BY <1>5, <3>1
    <3>2. CASE i # 0
      <4>1. i \in 1 .. m
        BY <1>1, <3>2
      <4> QED BY <1>6, <3>2, <4>1
    <3> QED BY <3>1, <3>2
  <2> QED BY <2>1
<1>8. resolve_path(s, path) = h[HopLimit]
  BY Zenon DEF resolve_path
<1>9. h = Body(h)
  <2> HIDE DEF Body
  <2> QED BY <1>7
<1>10. \A i \in 0 .. m : h[i] = IF i = 0 THEN path ELSE resolve_one(s, h[i - 1])
  <2> HIDE DEF h
  <2> QED BY <1>9
<1> HIDE DEF h
<1> DEFINE S == {k \in Nat : k <= m => f[k] = h[k]}
<1>11. 0 \in S
  BY <1>1, <1>5, <1>10
<1>12. ASSUME NEW k \in Nat, k \in S PROVE k + 1 \in S
  <2> SUFFICES ASSUME k + 1 <= m PROVE f[k + 1] = h[k + 1]
    OBVIOUS
  <2>1. k + 1 \in 1 .. m /\ k + 1 \in 0 .. m /\ k + 1 # 0 /\ (k + 1) - 1 = k /\ f[k] = h[k]
    BY <1>1, <1>12
  <2>2. f[k + 1] = resolve_one(s, f[k])
    BY <1>6, <2>1
  <2>3. h[k + 1] = resolve_one(s, h[k])
    BY <1>10, <2>1
  <2> QED BY <2>1, <2>2, <2>3
<1>13. Nat \subseteq S
  <2> HIDE DEF S
  <2> QED BY <1>11, <1>12, SetInduction
<1>14. f[m] = h[m]
  <2>1. m \in S
    BY <1>1, <1>13
  <2> QED BY <1>1, <2>1
<1>15. \A n \in 0 .. m : Regular(f[n])
  OBVIOUS
<1> QED BY <1>5, <1>6, <1>8, <1>14, <1>15 DEF Hops

LEMMA ResolvePath ==
  ASSUME NEW s, Fine(s), NEW path, Regular(path)
  PROVE  Regular(resolve_path(s, path)) /\ (is_dir(path) => is_dir(resolve_path(s, path)))
<1>1. PICK f : Hops(f, s, path)
  BY HopsExist
<1> DEFINE S == {k \in Nat : k <= HopLimit /\ is_dir(path) => is_dir(f[k])}
<1>2. 0 \in S
  BY <1>1 DEF Hops
<1>3. ASSUME NEW k \in Nat, k \in S PROVE k + 1 \in S
  <2> SUFFICES ASSUME k + 1 <= HopLimit, is_dir(path) PROVE is_dir(f[k + 1])
    OBVIOUS
  <2>1. k + 1 \in 1 .. HopLimit /\ (k + 1) - 1 = k /\ k \in 0 .. HopLimit /\ is_dir(f[k])
    BY <1>3, HopLimitAssumption
  <2>2. f[k + 1] = resolve_one(s, f[k]) /\ Regular(f[k])
    BY <1>1, <2>1 DEF Hops
  <2> QED BY <2>1, <2>2, ResolveOne
<1>4. Nat \subseteq S
  <2> HIDE DEF S
  <2> QED BY <1>2, <1>3, SetInduction
<1>5. HopLimit \in S /\ HopLimit \in 0 .. HopLimit
  BY <1>4, HopLimitAssumption
<1> QED BY <1>1, <1>5, HopLimitAssumption DEF Hops

\* Resolving a directory's key and resolving the directory lead to the same place.
LEMMA SlashedPath ==
  ASSUME NEW s, Fine(s), NEW p, Plain(p)
  PROVE  resolve_path(s, p \o Root) = Slashed(resolve_path(s, p))
<1> DEFINE d == p \o Root
<1>1. Regular(p) /\ ~ is_dir(p) /\ Regular(d)
  BY PlainIs, RegularRoot DEF Plain
<1>2. PICK f : Hops(f, s, p)
  BY <1>1, HopsExist
<1> HIDE DEF d
<1>3. PICK g : Hops(g, s, d)
  BY <1>1, HopsExist
<1> DEFINE S == {k \in Nat : k <= HopLimit => g[k] = Slashed(f[k])}
<1>4. 0 \in S
  <2>1. g[0] = d /\ f[0] = p
    BY <1>2, <1>3 DEF Hops
  <2> QED BY <1>1, <2>1 DEF Slashed, d
<1>5. ASSUME NEW k \in Nat, k \in S PROVE k + 1 \in S
  <2> SUFFICES ASSUME k + 1 <= HopLimit PROVE g[k + 1] = Slashed(f[k + 1])
    OBVIOUS
  <2>1. k + 1 \in 1 .. HopLimit /\ (k + 1) - 1 = k /\ k \in 0 .. HopLimit /\ g[k] = Slashed(f[k])
    BY <1>5, HopLimitAssumption
  <2>2. f[k + 1] = resolve_one(s, f[k]) /\ Regular(f[k]) /\ g[k + 1] = resolve_one(s, g[k])
    BY <1>2, <1>3, <2>1 DEF Hops
  <2> QED BY <2>1, <2>2, SlashedHop
<1>6. Nat \subseteq S
  <2> HIDE DEF S
  <2> QED BY <1>4, <1>5, SetInduction
<1>7. HopLimit \in S
  BY <1>6, HopLimitAssumption
<1>8. g[HopLimit] = Slashed(f[HopLimit])
  BY <1>7, HopLimitAssumption
<1> QED BY <1>2, <1>3, <1>8 DEF Hops, d

LEMMA SepRoot == sep_path(Root) = [prefix |-> Root, last |-> <<>>] /\ parent_dir(Root) = Root
<1> DEFINE i == rfind(Root, PATH_SEP)
<1>1. i = 1
  BY RootIs, RfindIs
<1> HIDE DEF i
<1>2. sep_path(Root) = [prefix |-> Root, last |-> <<>>]
  BY <1>1 DEF sep_path, i
<1> QED BY <1>2 DEF parent_dir

LEMMA ParentOfRoot ==
  ASSUME NEW s
  PROVE  resolve_parent(s, Root) = Root
BY SepRoot DEF resolve_parent

\* Where a write of path goes: the directory resolved, the last name kept.
LEMMA ResolveParent ==
  ASSUME NEW s, Fine(s), NEW path, Regular(path), path # Root,
         NEW clean, clean = strip_dir_suf(path),
         NEW base, base = join_path(resolve_path(s, sep_path(clean).prefix), sep_path(clean).last)
  PROVE  /\ Plain(base)
         /\ ~ is_dir(path) => resolve_parent(s, path) = base
         /\ is_dir(path) => resolve_parent(s, path) = Append(base, Last(path)) /\ Last(path) \in DirSeps
<1> DEFINE p == sep_path(clean).prefix
           l == sep_path(clean).last
           suf == IF path # Root /\ is_dir(path) THEN <<Last(path)>> ELSE <<>>
<1>1. Plain(clean) /\ (is_dir(path) => Last(path) \in DirSeps) /\ Regular(clean) /\ ~ is_dir(clean) /\ clean # Root
  BY StripIs, PlainIs, RootNotPlain DEF Plain
<1>2. /\ p = Root \/ Plain(p)
      /\ Len(p) < Len(clean) /\ Len(clean) \in Nat /\ Len(p) \in Nat
      /\ l # <<>> => Name(l)
      /\ l = <<>> => clean[Len(clean)] = PATH_SEP
      /\ l # <<>> => l[Len(l)] = clean[Len(clean)]
  <2>1. p = Root \/ Plain(p)
    BY <1>1, Split
  <2>2. Len(p) \in Nat /\ Len(clean) \in Nat
    BY <1>1, <2>1, RegularIs, RootIs DEF Plain
  <2> QED BY <1>1, <2>1, <2>2, Split
<1>3. Regular(p) /\ p # clean
  BY <1>2, RootIs DEF Plain
<1>4. Name(l) /\ ~ is_dir(l)
  <2>1. clean[Len(clean)] \notin Separators
    BY <1>1 DEF Plain
  <2>2. Name(l) /\ l[Len(l)] \notin Separators
    BY <1>2, <2>1, SepsDiffer
  <2>3. l \in Words
    BY <2>2, ChainIs DEF Name
  <2> QED BY <2>2, <2>3, DirIs, SepsDiffer
<1> HIDE DEF p, l
<1>5. Regular(resolve_path(s, p))
  BY <1>3, ResolvePath
<1>6. base = join_path(resolve_path(s, p), l)
  BY DEF p, l
<1>7. Regular(base) /\ ~ is_dir(base)
  BY <1>4, <1>5, <1>6, JoinRegular
<1>8. Plain(base) /\ base \in Words
  BY <1>7, PlainIs, RegularIs
<1>9. resolve_parent(s, path) = base \o suf
  BY <1>3, <1>6 DEF resolve_parent, p, l
<1>10. CASE is_dir(path)
  <2>1. suf = <<Last(path)>> /\ Last(path) \in Letters
    BY <1>1, <1>10, SepsDiffer
  <2>2. base \o <<Last(path)>> = Append(base, Last(path))
    BY <1>8, <2>1 DEF Words
  <2> QED BY <1>1, <1>8, <1>9, <1>10, <2>1, <2>2
<1>11. CASE ~ is_dir(path)
  <2>1. suf = <<>>
    BY <1>11
  <2>2. base \o <<>> = base
    BY <1>8 DEF Words
  <2> QED BY <1>8, <1>9, <1>11, <2>1, <2>2
<1> QED BY <1>10, <1>11

LEMMA PlainSep ==
  ASSUME NEW b, Plain(b), NEW c \in DirSeps
  PROVE  /\ Regular(Append(b, c)) /\ Append(b, c) # Root /\ is_dir(Append(b, c))
         /\ strip_dir_suf(Append(b, c)) = b /\ Last(Append(b, c)) = c
<1>1. Regular(b) /\ ~ is_dir(b) /\ b \in Words /\ Len(b) \in Nat /\ Len(b) >= 1 /\ b[1] = PATH_SEP
      /\ Chain(b) /\ b[Len(b)] \notin Separators /\ c \in Letters
  BY PlainIs, RegularIs, SepsDiffer DEF Plain
<1> DEFINE w == Append(b, c)
<1>2. w \in Words /\ Len(w) = Len(b) + 1 /\ (\A i \in 1 .. Len(b) : w[i] = b[i]) /\ w[Len(b) + 1] = c
  BY <1>1, AppendIs
<1>3. Chain(w)
  BY <1>1, ChainAppend
<1>4. Front(w) = b
  BY <1>1 DEF Front, Words
<1> HIDE DEF w
<1>5. w # <<>> /\ w[1] = PATH_SEP /\ w[Len(w)] = c
  BY <1>1, <1>2, LenIs
<1>6. w # Root
  <2> DEFINE q == Len(b)
             t == Len(w)
             r == Len(Root)
  <2>1. q \in Nat /\ q >= 1 /\ t = q + 1 /\ r = 1
    BY <1>1, <1>2, RootIs
  <2> HIDE DEF q, t, r
  <2>2. t # r
    BY ONLY <2>1
  <2> QED BY <2>2 DEF t, r
<1>7. Regular(w) /\ is_dir(w) /\ Last(w) = c
  BY <1>2, <1>3, <1>5, DirIs DEF Regular, Last
<1> QED BY <1>4, <1>6, <1>7 DEF w, strip_dir_suf

LEMMA ParentRegular ==
  ASSUME NEW s, Fine(s), NEW path, Regular(path)
  PROVE  /\ Regular(resolve_parent(s, path))
         /\ is_dir(resolve_parent(s, path)) <=> is_dir(path)
         /\ resolve_parent(s, path) = Root <=> path = Root
<1>1. CASE path = Root
  BY <1>1, ParentOfRoot
<1>2. CASE path # Root
  <2> DEFINE clean == strip_dir_suf(path)
             base == join_path(resolve_path(s, sep_path(clean).prefix), sep_path(clean).last)
  <2>1. /\ Plain(base)
        /\ ~ is_dir(path) => resolve_parent(s, path) = base
        /\ is_dir(path) => resolve_parent(s, path) = Append(base, Last(path)) /\ Last(path) \in DirSeps
    <3>1. clean = strip_dir_suf(path)
          /\ base = join_path(resolve_path(s, sep_path(clean).prefix), sep_path(clean).last)
      OBVIOUS
    <3> HIDE DEF clean, base
    <3> QED BY <1>2, <3>1, ResolveParent
  <2> HIDE DEF base
  <2>2. CASE is_dir(path)
    BY <1>2, <2>1, <2>2, PlainSep
  <2>3. CASE ~ is_dir(path)
    BY <1>2, <2>1, <2>3, PlainIs, RootNotPlain DEF Plain
  <2> QED BY <2>2, <2>3
<1> QED BY <1>1, <1>2

\* Writes and reads of a value key lead to the same place.
LEMMA SameWay ==
  ASSUME NEW s, Fine(s), NEW k, Plain(k)
  PROVE  resolve_parent(s, k) = join_path(resolve_path(s, parent_dir(k)), sep_path(k).last)
<1>1. Regular(k) /\ ~ is_dir(k) /\ k # Root
  BY PlainIs, RootNotPlain DEF Plain
<1>2. strip_dir_suf(k) = k
  BY <1>1 DEF strip_dir_suf
<1> DEFINE p == sep_path(k).prefix
           l == sep_path(k).last
           base == join_path(resolve_path(s, p), l)
<1>3. resolve_parent(s, k) = base
  <2> DEFINE clean == k
  <2>1. clean = strip_dir_suf(k) /\ base = join_path(resolve_path(s, sep_path(clean).prefix), sep_path(clean).last)
    BY <1>2
  <2> HIDE DEF clean, base
  <2> QED BY <1>1, <2>1, ResolveParent
<1>4. p = Root \/ Plain(p)
  BY <1>1, Split
<1>5. CASE p = Root
  BY <1>3, <1>5 DEF parent_dir
<1>6. CASE p # Root
  <2>1. parent_dir(k) = p \o Root /\ Plain(p) /\ Regular(p)
    BY <1>4, <1>6 DEF parent_dir, Plain
  <2> DEFINE r == resolve_path(s, p)
  <2>2. resolve_path(s, parent_dir(k)) = Slashed(r)
    <3> HIDE DEF p
    <3> QED BY <2>1, SlashedPath
  <2>3. Regular(r)
    BY <2>1, ResolvePath
  <2>4. join_path(Slashed(r), l) = join_path(r, l)
    <3> HIDE DEF r, l
    <3>1. CASE is_dir(r)
      BY <3>1 DEF Slashed
    <3>2. CASE ~ is_dir(r)
      <4>1. is_dir(r \o Root)
        BY <2>3, <3>2, PlainIs, RegularRoot
      <4> QED BY <3>2, <4>1 DEF Slashed, join_path
    <3> QED BY <3>1, <3>2
  <2> QED BY <1>3, <2>2, <2>4
<1> QED BY <1>5, <1>6

-----------------------------------------------------------------------------
\* Every operation leaves contents that are fine.

\* A value that may be stored: an XValue, a link leading to a key.
Storable(v) == v \in XValue /\ (v.kind = "ptr" => Regular(v.body))

LEMMA FinePut ==
  ASSUME NEW s, Fine(s), NEW k, Regular(k), NEW v, Storable(v)
  PROVE  Fine(Put(s, k, v))
<1> DEFINE D == DOMAIN s \cup {k}
           t == Put(s, k, v)
<1>1. IsFiniteSet(D)
  BY FineIs, FS_AddElement
<1>2. \A x \in DOMAIN s : s[x] \in XValue /\ Regular(x) /\ (s[x].kind = "ptr" => Regular(s[x].body))
  BY FineIs
<1>3. t = [x \in D |-> IF x = k THEN v ELSE s[x]]
  BY DEF Put
<1>4. t \in [D -> XValue]
  BY <1>2, <1>3 DEF Storable
<1>5. \A x \in D : t[x] = IF x = k THEN v ELSE s[x]
  BY <1>3
<1>6. \A x \in D : Regular(x) /\ (t[x].kind = "ptr" => Regular(t[x].body))
  BY <1>2, <1>5 DEF Storable
<1> HIDE DEF D, t
<1>7. Fine(t)
  BY <1>1, <1>4, <1>6, MakeFine
<1> QED BY <1>7 DEF t

LEMMA FineDrop ==
  ASSUME NEW s, Fine(s), NEW K
  PROVE  Fine(Drop(s, K))
<1> DEFINE D == DOMAIN s \ K
           t == Drop(s, K)
<1>1. IsFiniteSet(D)
  <2>1. D \in SUBSET DOMAIN s
    OBVIOUS
  <2> HIDE DEF D
  <2> QED BY <2>1, FineIs, FS_Subset
<1>2. \A x \in DOMAIN s : s[x] \in XValue /\ Regular(x) /\ (s[x].kind = "ptr" => Regular(s[x].body))
  BY FineIs
<1>3. t = [x \in D |-> s[x]]
  BY DEF Drop
<1>4. t \in [D -> XValue]
  BY <1>2, <1>3
<1>5. \A x \in D : Regular(x) /\ (t[x].kind = "ptr" => Regular(t[x].body))
  BY <1>2, <1>3
<1> HIDE DEF D, t
<1>6. Fine(t)
  BY <1>1, <1>4, <1>5, MakeFine
<1> QED BY <1>6 DEF t

\* What is written: any buffer, a link leading to a key.
Given(v) == v \in Buffer /\ (v.kind = "ptr" => Regular(v.body))

LEMMA SetFine ==
  ASSUME NEW s, Fine(s), NEW key, Regular(key), NEW v, Given(v)
  PROVE  Fine(set(s, key, v).store)
<1> DEFINE k == resolve_parent(s, key)
<1>1. Regular(k)
  BY ParentRegular
<1> HIDE DEF k
<1>2. CASE ~ is_reserved(key) /\ settable(s, k, v)
  <2>1. Storable(v)
    BY <1>2 DEF settable, Given, Storable, Buffer, XValue
  <2>2. set(s, key, v).store = Put(s, k, v)
    BY <1>2 DEF set, Ok, k
  <2> QED BY <1>1, <2>1, <2>2, FinePut
<1>3. CASE ~ (~ is_reserved(key) /\ settable(s, k, v))
  BY <1>3 DEF set, Err, k
<1> QED BY <1>2, <1>3

\* A read finds nothing or a key that is stored.
LEMMA Located ==
  ASSUME NEW s, NEW k
  PROVE  locate(s, k) = <<>> \/ locate(s, k) \in DOMAIN s
BY DEF locate, locate_in

LEMMA EmptyNotStored ==
  ASSUME NEW s, Fine(s)
  PROVE  <<>> \notin DOMAIN s
BY FineIs, RegularIs

LEMMA ReadGiven ==
  ASSUME NEW s, Fine(s), NEW k, get_raw(s, k) # Absent
  PROVE  Given(get_raw(s, k)) /\ locate(s, k) \in DOMAIN s /\ get_raw(s, k) = s[locate(s, k)]
<1>1. locate(s, k) \in DOMAIN s /\ get_raw(s, k) = s[locate(s, k)]
  BY DEF get_raw, Lookup
<1> QED BY <1>1, FineIs DEF Given, XValue, Buffer

LEMMA CpFine ==
  ASSUME NEW s, Fine(s), NEW src, NEW dst, Regular(dst)
  PROVE  Fine(cp(s, src, dst).store)
BY ReadGiven, SetFine DEF cp, Err

LEMMA PartFine ==
  ASSUME NEW s, Fine(s), NEW key, NEW off \in Nat, NEW buf \in Words,
         get_raw(s, key).kind # "ptr"
  PROVE  Fine(set_part(s, key, off, buf).store)
<1> DEFINE k == locate(s, key)
           old == s[k].body
           new == [i \in DOMAIN old |-> IF i \in off + 1 .. off + Len(buf) THEN buf[i - off] ELSE old[i]]
           t == [s EXCEPT ![k].body = new]
<1>1. CASE k = <<>>
  BY <1>1 DEF set_part, overwrite, Err
<1>2. CASE off + Len(buf) > Len(old)
  BY <1>2 DEF set_part, overwrite, Err
<1>3. CASE k # <<>> /\ ~ (off + Len(buf) > Len(old))
  <2>1. k \in DOMAIN s /\ s[k].kind # "ptr"
    BY <1>3, Located DEF get_raw, Lookup
  <2>2. s[k] \in XValue /\ s \in [DOMAIN s -> XValue]
    BY <2>1, FineIs
  <2>3. old \in Words
    BY <2>2 DEF XValue, Words
  <2>4. new \in Words
    <3>1. ASSUME NEW i \in 1 .. Len(old) PROVE new[i] \in Letters
      <4>1. Len(buf) \in Nat /\ i \in Nat /\ off \in Nat
        BY <2>3, LenIs
      <4>2. CASE i \in off + 1 .. off + Len(buf)
        <5>1. i - off \in 1 .. Len(buf)
          BY <4>1, <4>2
        <5>2. buf[i - off] \in Letters
          BY <5>1, LenIs
        <5> QED BY <2>3, <4>2, <5>2 DEF Words
      <4>3. CASE i \notin off + 1 .. off + Len(buf)
        BY <2>3, <4>3 DEF Words
      <4> QED BY <4>2, <4>3
    <3>2. DOMAIN old = 1 .. Len(old) /\ Len(old) \in Nat
      BY <2>3 DEF Words
    <3> DEFINE n == Len(old)
    <3>3. new \in [1 .. n -> Letters] /\ n \in Nat
      BY <3>1, <3>2
    <3> HIDE DEF new, n
    <3> QED BY <3>3, SeqDef DEF Words
  <2>5. t \in [DOMAIN s -> XValue] /\ t[k].kind = s[k].kind /\ \A x \in DOMAIN s : x # k => t[x] = s[x]
    <3> HIDE DEF new, k
    <3> QED BY <2>1, <2>2, <2>4 DEF XValue, Words
  <2>6. \A x \in DOMAIN s : Regular(x) /\ (t[x].kind = "ptr" => Regular(t[x].body))
    <3> HIDE DEF t, k, old, new
    <3> QED BY <2>1, <2>5, FineIs
  <2>7. set_part(s, key, off, buf).store = t
    BY <1>3 DEF set_part, overwrite, Ok
  <2>8. IsFiniteSet(DOMAIN s)
    BY FineIs
  <2> HIDE DEF t, new, k
  <2>9. Fine(t)
    <3> DEFINE D == DOMAIN s
    <3>1. t \in [D -> XValue] /\ IsFiniteSet(D) /\ \A x \in D : Regular(x) /\ (t[x].kind = "ptr" => Regular(t[x].body))
      BY <2>5, <2>6, <2>8
    <3> HIDE DEF D
    <3> QED BY ONLY <3>1, MakeFine
  <2> QED BY <2>7, <2>9
<1> QED BY <1>1, <1>2, <1>3

LEMMA DelOneFine ==
  ASSUME NEW s, Fine(s), NEW key
  PROVE  Fine(del_one(s, key).store)
BY FineDrop DEF del_one, del_at, Ok, Err

LEMMA DelTreeFine ==
  ASSUME NEW s, Fine(s), NEW p
  PROVE  Fine(del_tree(s, p).store)
BY FineDrop, DelOneFine DEF del_tree, Ok, Err

LEMMA NothingFine == Fine([k \in {} |-> Absent])
<1> DEFINE D == {}
           t == [k \in D |-> Absent]
<1>1. t \in [D -> XValue] /\ IsFiniteSet(D) /\ \A k \in D : Regular(k) /\ (t[k].kind = "ptr" => Regular(t[k].body))
  BY FS_EmptySet
<1> HIDE DEF D, t
<1>2. Fine(t)
  BY <1>1, MakeFine
<1> QED BY <1>2 DEF t, D

LEMMA DirOpsFine ==
  ASSUME NEW s, Fine(s), NEW path, Regular(path), NEW ext, Regular(ext)
  PROVE  /\ Fine(mkindex(s, path).store) /\ Fine(ext_index(s, path, ext).store)
         /\ Fine(del_ext_index(s, path).store) /\ Fine(clear(s).store)
<1>1. Fine(mkindex(s, path).store)
  <2>1. Storable(DirMarker)
    BY DEF Storable, XValue, DirMarker, Kinds
  <2>2. Fine(Put(s, resolve_path(s, path), DirMarker))
    BY <2>1, ResolvePath, FinePut
  <2> QED BY <2>2 DEF mkindex, Ok, Err
<1>2. Fine(ext_index(s, path, ext).store)
  <2>1. Storable(ExtLocator(ext))
    BY RegularIs DEF Storable, XValue, ExtLocator, Kinds, Words
  <2>2. Fine(Put(s, resolve_parent(s, path), ExtLocator(ext)))
    BY <2>1, ParentRegular, FinePut
  <2> QED BY <2>2 DEF ext_index, Ok, Err
<1>3. Fine(del_ext_index(s, path).store)
  BY FineDrop DEF del_ext_index, Ok
<1> QED BY <1>1, <1>2, <1>3, NothingFine DEF clear, Ok

\* f is the contents after each key of a Del.
Dels(f, s, keys) ==
  /\ \A i \in 0 .. Len(keys) : Fine(f[i])
  /\ f[0] = s /\ \A i \in 1 .. Len(keys) : f[i] = del_one(f[i - 1], keys[i]).store
  /\ LET failing == {i \in 1 .. Len(keys) : ~ del_one(f[i - 1], keys[i]).ok}
     IN del(s, keys) = IF failing = {} THEN Ok(f[Len(keys)]) ELSE Err(f[Min(failing) - 1])

LEMMA DelsExist ==
  ASSUME NEW s, Fine(s), NEW keys, Len(keys) \in Nat
  PROVE  \E f : Dels(f, s, keys)
<1> DEFINE m == Len(keys)
           V == {t \in Contents : Fine(t)}
           step == [i \in 1 .. m |-> [t \in V |-> del_one(t, keys[i]).store]]
           Body(g) == [i \in 0 .. Len(keys) |-> IF i = 0 THEN s ELSE del_one(g[i - 1], keys[i]).store]
           h == CHOOSE g : g = Body(g)
<1>1. m \in Nat
  OBVIOUS
<1>2. s \in V
  BY DEF Fine
<1>3. step \in [1 .. m -> [V -> V]]
  <2>1. \A t \in V, i \in 1 .. m : del_one(t, keys[i]).store \in V
    BY DelOneFine DEF Fine
  <2> QED BY <2>1
<1>4. \E f : Follows(f, m, V, s, step)
  <2> HIDE DEF step, m, V
  <2> QED BY <1>1, <1>2, <1>3, Recursion
<1>5. PICK f \in [0 .. m -> V] : f[0] = s /\ \A i \in 1 .. m : f[i] = step[i][f[i - 1]]
  BY <1>4 DEF Follows
<1>6. ASSUME NEW i \in 1 .. m
      PROVE  f[i] = del_one(f[i - 1], keys[i]).store
  <2>1. i - 1 \in 0 .. m
    BY <1>1
  <2>2. f[i - 1] \in V
    BY <2>1
  <2> QED BY <1>5, <2>2
<1>7. f = Body(f)
  <2>1. ASSUME NEW i \in 0 .. m PROVE f[i] = Body(f)[i]
    <3>1. CASE i = 0
      BY <1>5, <3>1
    <3>2. CASE i # 0
      <4>1. i \in 1 .. m
        BY <1>1, <3>2
      <4> QED BY <1>6, <3>2, <4>1
    <3> QED BY <3>1, <3>2
  <2> QED BY <2>1
<1>8. del(s, keys) = LET failing == {i \in 1 .. Len(keys) : ~ del_one(h[i - 1], keys[i]).ok}
                     IN IF failing = {} THEN Ok(h[Len(keys)]) ELSE Err(h[Min(failing) - 1])
  BY Zenon DEF del
<1>9. h = Body(h)
  <2> HIDE DEF Body
  <2> QED BY <1>7
<1>10. \A i \in 0 .. m : h[i] = IF i = 0 THEN s ELSE del_one(h[i - 1], keys[i]).store
  <2> HIDE DEF h
  <2> QED BY <1>9
<1>11. DOMAIN h = 0 .. m
  <2> HIDE DEF h
  <2> QED BY <1>9
<1> HIDE DEF h
<1> DEFINE S == {k \in Nat : k <= m => f[k] = h[k]}
<1>12. 0 \in S
  BY <1>1, <1>5, <1>10
<1>13. ASSUME NEW k \in Nat, k \in S PROVE k + 1 \in S
  <2> SUFFICES ASSUME k + 1 <= m PROVE f[k + 1] = h[k + 1]
    OBVIOUS
  <2>1. k + 1 \in 1 .. m /\ k + 1 \in 0 .. m /\ k + 1 # 0 /\ (k + 1) - 1 = k /\ f[k] = h[k]
    BY <1>1, <1>13
  <2>2. f[k + 1] = del_one(f[k], keys[k + 1]).store
    BY <1>6, <2>1
  <2>3. h[k + 1] = del_one(h[k], keys[k + 1]).store
    BY <1>10, <2>1
  <2> QED BY <2>1, <2>2, <2>3
<1>14. Nat \subseteq S
  <2> HIDE DEF S
  <2> QED BY <1>12, <1>13, SetInduction
<1>15. \A i \in 0 .. m : f[i] = h[i]
  BY <1>1, <1>14
<1>16. h = Body(f)
  <2>1. ASSUME NEW i \in 0 .. m PROVE h[i] = Body(f)[i]
    <3>1. i = 0 \/ i - 1 \in 0 .. m
      BY <1>1
    <3> QED BY <1>10, <1>15, <3>1
  <2>2. DOMAIN Body(f) = 0 .. m /\ Body(f) = [i \in 0 .. m |-> Body(f)[i]] /\ h = [i \in 0 .. m |-> h[i]]
    <3> HIDE DEF h
    <3> QED BY <1>9
  <2> HIDE DEF Body
  <2> QED BY <2>1, <2>2
<1>17. h = f
  BY <1>7, <1>16
<1>18. \A i \in 0 .. m : Fine(f[i])
  OBVIOUS
<1>19. LET failing == {i \in 1 .. Len(keys) : ~ del_one(f[i - 1], keys[i]).ok}
       IN del(s, keys) = IF failing = {} THEN Ok(f[Len(keys)]) ELSE Err(f[Min(failing) - 1])
  BY <1>8, <1>17
<1> QED BY <1>5, <1>6, <1>18, <1>19 DEF Dels

LEMMA DelFine ==
  ASSUME NEW s, Fine(s), NEW keys, Len(keys) \in Nat
  PROVE  Fine(del(s, keys).store)
<1>1. PICK f : Dels(f, s, keys)
  BY DelsExist
<1> DEFINE failing == {i \in 1 .. Len(keys) : ~ del_one(f[i - 1], keys[i]).ok}
<1>2. CASE failing = {}
  <2>1. Len(keys) \in 0 .. Len(keys)
    OBVIOUS
  <2> QED BY <1>1, <1>2, <2>1 DEF Dels, Ok
<1>3. CASE failing # {}
  <2>1. failing \subseteq Nat
    OBVIOUS
  <2>2. Min(failing) \in failing
    <3> HIDE DEF failing
    <3> QED BY <1>3, <2>1, MinIs
  <2> DEFINE j == Min(failing)
  <2>3. j - 1 \in 0 .. Len(keys)
    BY <2>2
  <2>4. del(s, keys) = Err(f[j - 1])
    BY <1>1, <1>3 DEF Dels
  <2> HIDE DEF j, failing
  <2> QED BY <1>1, <2>3, <2>4 DEF Dels, Err
<1> QED BY <1>2, <1>3

\* A Del of one key is del_one.
LEMMA DelSingle ==
  ASSUME NEW s, Fine(s), NEW k
  PROVE  del(s, <<k>>) = del_one(s, k)
<1> DEFINE keys == <<k>>
<1>1. Len(keys) = 1 /\ keys[1] = k
  OBVIOUS
<1> HIDE DEF keys
<1>2. PICK f : Dels(f, s, keys)
  BY <1>1, DelsExist
<1> DEFINE failing == {i \in 1 .. Len(keys) : ~ del_one(f[i - 1], keys[i]).ok}
<1>3. f[0] = s /\ f[1] = del_one(s, k).store
      /\ del(s, keys) = IF failing = {} THEN Ok(f[1]) ELSE Err(f[Min(failing) - 1])
  <2>1. 1 \in 1 .. Len(keys) /\ 1 - 1 = 0
    BY <1>1
  <2> QED BY <1>1, <1>2, <2>1 DEF Dels
<1>4. failing = IF del_one(s, k).ok THEN {} ELSE {1}
  <2>1. \A i \in 1 .. 1 : i = 1 /\ i - 1 = 0
    OBVIOUS
  <2> QED BY <1>1, <1>3, <2>1
<1>5. CASE del_one(s, k).ok
  <2>1. del(s, keys) = Ok(del_one(s, k).store)
    BY <1>3, <1>4, <1>5
  <2> QED BY <1>5, <2>1 DEF keys, del_one, del_at, Ok, Err
<1>6. CASE ~ del_one(s, k).ok
  <2>1. failing = {1} /\ {1} \subseteq Nat
    BY <1>4, <1>6
  <2>2. Min(failing) = 1
    <3>1. failing # {} /\ failing \subseteq Nat
      BY <2>1
    <3> HIDE DEF failing
    <3>2. Min(failing) \in failing
      BY <3>1, MinIs
    <3> QED BY <2>1, <3>2
  <2>3. del(s, keys) = Err(s)
    <3> HIDE DEF failing
    <3> QED BY <1>3, <2>1, <2>2
  <2>4. del_one(s, k) = Err(s)
    BY <1>6 DEF del_one, del_at, Ok, Err
  <2> QED BY <2>3, <2>4 DEF keys
<1> QED BY <1>5, <1>6

-----------------------------------------------------------------------------
\* Subtrees.

LEMMA PrefixIs ==
  ASSUME NEW p \in Words, NEW k \in Words
  PROVE  starts_with(k, p) <=> Len(p) <= Len(k) /\ \A i \in 1 .. Len(p) : k[i] = p[i]
<1>1. Len(p) \in Nat /\ Len(k) \in Nat
  BY LenIs
<1>2. SubSeq(p, 1, Len(p)) = p
  BY DEF Words
<1>3. CASE Len(p) <= Len(k)
  <2> DEFINE c == SubSeq(k, 1, Len(p))
  <2>1. c \in Words /\ Len(c) = Len(p) /\ \A i \in 1 .. Len(p) : c[i] = k[i]
    <3>1. Len(p) \in 0 .. Len(k)
      BY <1>1, <1>3
    <3> QED BY <3>1, CutIs
  <2>2. starts_with(k, p) <=> p = c
    BY <1>2, <1>3 DEF starts_with, IsPrefix
  <2> HIDE DEF c
  <2>3. (\A i \in 1 .. Len(p) : k[i] = p[i]) => p = c
    BY <2>1, SameWord
  <2> QED BY <1>3, <2>1, <2>2, <2>3
<1>4. CASE ~ (Len(p) <= Len(k))
  BY <1>4 DEF starts_with, IsPrefix
<1> QED BY <1>3, <1>4

LEMMA UnderRoot ==
  ASSUME NEW k, Regular(k)
  PROVE  starts_with(k, Root) /\ is_subtree_key(<<>>, k) /\ is_subtree_key(Root, k)
<1>1. starts_with(k, Root)
  <2>1. k \in Words /\ Len(k) \in Nat /\ Len(k) >= 1 /\ k[1] = PATH_SEP
    BY RegularIs
  <2>2. Root \in Words /\ Len(Root) <= Len(k) /\ \A i \in 1 .. Len(Root) : k[i] = Root[i]
    BY <2>1, RootIs
  <2> QED BY ONLY <2>1, <2>2, PrefixIs
<1> QED BY <1>1 DEF is_subtree_key

LEMMA AtIs ==
  ASSUME NEW b \in Words, NEW k \in Words, NEW seps
  PROVE  At(k, b, seps) <=> /\ Len(k) > Len(b) /\ k[Len(b) + 1] \in seps
                            /\ \A i \in 1 .. Len(b) : k[i] = b[i]
<1>1. Len(b) \in Nat /\ Len(k) \in Nat
  BY LenIs
<1> QED BY <1>1, PrefixIs DEF At

LEMMA SubtreeIs ==
  ASSUME NEW b, Plain(b), NEW k \in Words
  PROVE  /\ b \in Words /\ b # <<>> /\ b # Root
         /\ is_subtree_key(b, k) <=> k = b \/ At(k, b, Separators)
<1>1. b \in Words /\ b # <<>> /\ b # Root
  BY RegularIs, RootNotPlain DEF Plain
<1> QED BY <1>1 DEF is_subtree_key

\* The rest of a key below b: nothing, or a separator and more.
LEMMA Suffix ==
  ASSUME NEW b, Plain(b), NEW k, Regular(k), is_subtree_key(b, k), NEW rest, rest = drop(k, Len(b))
  PROVE  /\ Chain(rest) /\ k = b \o rest /\ Len(b) \in 0 .. Len(k)
         /\ rest # <<>> => rest[1] \in Separators /\ Len(k) > Len(b) /\ rest[1] = k[Len(b) + 1]
<1>1. k \in Words /\ b \in Words /\ Len(b) \in Nat /\ Len(k) \in Nat /\ Chain(k)
  BY RegularIs DEF Plain
<1>2. k = b \/ At(k, b, Separators)
  BY <1>1, SubtreeIs
<1>3. /\ Len(b) \in 0 .. Len(k) /\ \A i \in 1 .. Len(b) : k[i] = b[i]
      /\ Len(k) > Len(b) => k[Len(b) + 1] \in Separators
  BY <1>1, <1>2, AtIs
<1>4. Chain(rest)
  BY <1>1, <1>3, ChainDrop
<1>5. SubSeq(k, 1, Len(b)) = b
  <2> DEFINE c == SubSeq(k, 1, Len(b))
  <2>1. c \in Words /\ Len(c) = Len(b) /\ \A i \in 1 .. Len(b) : c[i] = k[i]
    BY <1>1, <1>3, CutIs
  <2> HIDE DEF c
  <2>2. c = b
    BY <1>1, <1>3, <2>1, SameWord
  <2> QED BY <2>2 DEF c
<1>6. k = b \o rest
  BY <1>1, <1>3, <1>5, Rejoin
<1>7. rest \in Words /\ Len(rest) = Len(k) - Len(b) /\ \A i \in 1 .. Len(k) - Len(b) : rest[i] = k[Len(b) + i]
  BY <1>1, <1>3, DropIs
<1>8. ASSUME rest # <<>> PROVE rest[1] \in Separators /\ Len(k) > Len(b) /\ rest[1] = k[Len(b) + 1]
  <2> DEFINE q == Len(k)
             n == Len(b)
             r == Len(rest)
  <2>1. q \in Nat /\ n \in Nat /\ r = q - n /\ r # 0 /\ r \in Nat
    BY <1>1, <1>7, <1>8, LenIs
  <2>2. q > n /\ 1 \in 1 .. q - n
    <3> HIDE DEF q, n, r
    <3> QED BY ONLY <2>1
  <2> QED BY <1>3, <1>7, <2>2
<1> QED BY <1>3, <1>4, <1>6, <1>8

\* What lies below one key lies alike below another.
LEMMA Moved ==
  ASSUME NEW from, Plain(from), NEW to, Plain(to), NEW k, Regular(k), is_subtree_key(from, k),
         NEW rest, rest = drop(k, Len(from))
  PROVE  Regular(to \o rest) /\ is_subtree_key(to, to \o rest) /\ drop(to \o rest, Len(to)) = rest
<1>1. Chain(rest) /\ (rest # <<>> => rest[1] \in Separators) /\ rest \in Words
  BY Suffix, ChainIs
<1>2. Regular(to) /\ to \in Words /\ Len(to) \in Nat /\ to[Len(to)] \notin Separators
  BY RegularIs DEF Plain
<1> DEFINE w == to \o rest
<1>3. /\ w \in Words /\ Len(w) = Len(to) + Len(rest) /\ Len(rest) \in Nat
      /\ \A i \in 1 .. Len(to) : w[i] = to[i]
      /\ \A i \in 1 .. Len(rest) : w[Len(to) + i] = rest[i]
  BY <1>1, <1>2, ConcatIs, LenIs
<1>4. rest = <<>> => w = to
  BY <1>2 DEF Words
<1>5. Regular(w)
  BY <1>1, <1>2, <1>4, RegularConcat
<1>6. rest # <<>> => Len(rest) > 0
  BY <1>1, LenIs
<1> HIDE DEF w
<1>7. rest # <<>> => At(w, to, Separators)
  <2> SUFFICES ASSUME rest # <<>> PROVE At(w, to, Separators)
    OBVIOUS
  <2>1. 1 \in 1 .. Len(rest) /\ Len(w) > Len(to)
    <3> DEFINE q == Len(w)
               n == Len(to)
               r == Len(rest)
    <3>1. q = n + r /\ n \in Nat /\ r \in Nat /\ r > 0
      BY <1>2, <1>3, <1>6
    <3>2. 1 \in 1 .. r /\ q > n
      <4> HIDE DEF q, n, r
      <4> QED BY ONLY <3>1
    <3> QED BY <3>2
  <2>2. w[Len(to) + 1] = rest[1]
    BY <1>3, <2>1
  <2> QED BY <1>1, <1>2, <1>3, <2>1, <2>2, AtIs
<1>8. is_subtree_key(to, w)
  BY <1>3, <1>4, <1>7, SubtreeIs
<1>9. drop(w, Len(to)) = rest
  <2> DEFINE d == drop(w, Len(to))
  <2>1. Len(to) \in 0 .. Len(w) /\ Len(w) - Len(to) = Len(rest)
    BY <1>2, <1>3
  <2>2. d \in Words /\ Len(d) = Len(rest) /\ \A i \in 1 .. Len(rest) : d[i] = w[Len(to) + i]
    <3>1. /\ d \in Words /\ Len(d) = Len(w) - Len(to)
          /\ \A i \in 1 .. Len(w) - Len(to) : d[i] = w[Len(to) + i]
      BY ONLY <1>3, <2>1, DropIs DEF d
    <3> QED BY ONLY <2>1, <3>1
  <2> HIDE DEF d
  <2>3. d = rest
    BY <1>1, <1>3, <2>2, SameWord
  <2> QED BY <2>3 DEF d
<1> QED BY <1>5, <1>8, <1>9 DEF w

LEMMA TreeBase ==
  ASSUME NEW s, Fine(s), NEW p, Regular(p)
  PROVE  tree_base(s, p) = Root \/ Plain(tree_base(s, p))
<1> DEFINE k == resolve_path(s, p)
<1>1. Regular(k)
  BY ResolvePath
<1> HIDE DEF k
<1>2. k # Root => Plain(strip_dir_suf(k))
  BY <1>1, StripIs
<1> QED BY <1>2 DEF tree_base, k

LEMMA CopyKeys ==
  ASSUME NEW s, Fine(s), NEW p
  PROVE  /\ IsFiniteSet(copy_keys(s, p))
         /\ \A k \in copy_keys(s, p) :
              k \in DOMAIN s /\ Regular(k) /\ ~ is_reserved(k) /\ is_subtree_key(tree_base(s, p), k)
<1> DEFINE K == copy_keys(s, p)
<1>1. K \in SUBSET DOMAIN s /\ \A k \in K : k \in DOMAIN s /\ ~ is_reserved(k) /\ is_subtree_key(tree_base(s, p), k)
  BY DEF copy_keys, scan_keys
<1> HIDE DEF K
<1>2. IsFiniteSet(K)
  BY <1>1, FineIs, FS_Subset
<1> QED BY <1>1, <1>2, FineIs DEF K

\* order runs through S, each element once.
Lists(order, S) ==
  /\ order \in [1 .. Len(order) -> S] /\ Len(order) \in Nat
  /\ \A k \in S : \E i \in 1 .. Len(order) : order[i] = k
  /\ \A i, j \in 1 .. Len(order) : order[i] = order[j] => i = j

LEMMA Enumerates ==
  ASSUME NEW S, IsFiniteSet(S), NEW f \in [1 .. Cardinality(S) -> S],
         \A i, j \in 1 .. Cardinality(S) : f[i] = f[j] => i = j
  PROVE  Lists(f, S)
<1> DEFINE n == Cardinality(S)
           D == 1 .. n
<1>1. n \in Nat
  BY FS_CardinalityType
<1>2. Len(f) = n
  <2>1. f \in [1 .. n -> S]
    OBVIOUS
  <2> HIDE DEF n
  <2>2. f \in Seq(S) /\ DOMAIN f = 1 .. n
    BY <1>1, <2>1, SeqDef
  <2>3. Len(f) \in Nat /\ DOMAIN f = 1 .. Len(f)
    BY <2>2
  <2> QED BY <1>1, <2>2, <2>3
<1>3. IsFiniteSet(D) /\ Cardinality(D) = n
  <2> HIDE DEF n
  <2>1. 1 \in Int /\ n \in Int
    BY <1>1
  <2>2. Cardinality(D) = IF 1 > n THEN 0 ELSE n - 1 + 1
    BY <2>1, FS_Interval
  <2>3. Cardinality(D) = n
    BY <1>1, <2>2
  <2> QED BY <2>1, <2>3, FS_Interval
<1>4. f \in Injection(D, S)
  BY DEF Injection, IsInjective
<1>5. Cardinality(D) = Cardinality(S)
  BY <1>3
<1>6. f \in Surjection(D, S)
  <2> HIDE DEF n, D
  <2> QED BY <1>4, <1>5, FS_Injection
<1>7. \A k \in S : \E i \in D : f[i] = k
  BY <1>6 DEF Surjection
<1> HIDE DEF n
<1>8. f \in [1 .. n -> S] /\ \A i, j \in 1 .. n : f[i] = f[j] => i = j
  BY DEF n
<1> QED BY <1>1, <1>2, <1>7, <1>8 DEF Lists

LEMMA SetLists ==
  ASSUME NEW S, IsFiniteSet(S)
  PROVE  Lists(SetToSeq(S), S) /\ \A order \in SetToSeqs(S) : Lists(order, S)
<1>1. PICK g : g \in Bijection(1 .. Cardinality(S), S)
  BY FS_CardinalityType DEF ExistsBijection
<1>2. g \in [1 .. Cardinality(S) -> S] /\ IsInjective(g)
  BY <1>1 DEF Bijection, Injection
<1>3. SetToSeq(S) \in [1 .. Cardinality(S) -> S] /\ IsInjective(SetToSeq(S))
  BY <1>2 DEF SetToSeq
<1> DEFINE f == SetToSeq(S)
<1>4. f \in [1 .. Cardinality(S) -> S] /\ \A i, j \in 1 .. Cardinality(S) : f[i] = f[j] => i = j
  BY <1>3 DEF IsInjective
<1>5. Lists(f, S)
  <2> HIDE DEF f
  <2> QED BY <1>4, Enumerates
<1>6. ASSUME NEW order \in SetToSeqs(S) PROVE Lists(order, S)
  <2>1. order \in [1 .. Cardinality(S) -> S] /\ \A i, j \in 1 .. Cardinality(S) : order[i] = order[j] => i = j
    BY DEF SetToSeqs
  <2> QED BY <2>1, Enumerates
<1> QED BY <1>5, <1>6

-----------------------------------------------------------------------------
\* The reserved area.

LEMMA MetaIs == Plain(MetaRoot) /\ MetaRoot \in Words /\ Len(MetaRoot) = 2 /\ Regular(MetaRoot) /\ MetaRoot[1] = PATH_SEP
<1>1. ".kvspace-meta" \in Letters /\ ".kvspace-meta" \notin Separators
  <2>1. MetaRoot[2] \in ToSet(MetaRoot)
    BY DEF ToSet, MetaRoot
  <2> QED BY <2>1, LettersAssumption DEF MetaRoot, Separators, PATH_SEP, OBJ_SEP, RUNTIME_MEMBER_SEP
<1>2. /\ MetaRoot \in Words /\ Len(MetaRoot) = 2 /\ MetaRoot[1] = PATH_SEP
      /\ MetaRoot[2] \in Letters /\ MetaRoot[2] \notin Separators /\ MetaRoot # <<>>
  BY <1>1, SepsDiffer DEF MetaRoot, Words
<1>3. Chain(MetaRoot)
  <2>1. ASSUME NEW i \in 1 .. Len(MetaRoot), MetaRoot[i] \in Separators
        PROVE  i # Len(MetaRoot) /\ MetaRoot[i + 1] \notin DirSeps
    <3>1. i = 1
      BY <1>2, <2>1
    <3> QED BY <1>2, <3>1, SepsDiffer
  <2> QED BY <1>2, <2>1, ChainIs
<1> QED BY <1>2, <1>3 DEF Regular, Plain

LEMMA ReservedIs ==
  ASSUME NEW k \in Words
  PROVE  is_reserved(k) <=> k = MetaRoot \/ At(k, MetaRoot, {PATH_SEP})
<1> DEFINE w == MetaRoot \o Root
           n == Len(MetaRoot)
<1>1. n = 2 /\ MetaRoot \in Words
  BY MetaIs
<1>2. /\ w \in Words /\ Len(w) = 3 /\ (\A i \in 1 .. n : w[i] = MetaRoot[i]) /\ w[3] = PATH_SEP
  <2>1. /\ w \in Words /\ Len(w) = n + Len(Root) /\ (\A i \in 1 .. n : w[i] = MetaRoot[i])
        /\ \A i \in 1 .. Len(Root) : w[n + i] = Root[i]
    BY <1>1, RootIs, ConcatIs
  <2> HIDE DEF w
  <2>2. w[2 + 1] = Root[1]
    <3>1. Len(Root) = 1
      BY RootIs
    <3>2. 1 \in 1 .. Len(Root)
      BY <3>1
    <3>3. w[n + 1] = Root[1]
      BY <2>1, <3>2
    <3> QED BY <1>1, <3>3
  <2>3. Len(Root) = 1 /\ Root[1] = PATH_SEP
    BY RootIs
  <2> QED BY <1>1, <2>1, <2>2, <2>3
<1> HIDE DEF w, n
<1>3. Len(k) \in Nat
  BY LenIs
<1>4. starts_with(k, w) <=> 3 <= Len(k) /\ \A i \in 1 .. 3 : k[i] = w[i]
  BY <1>2, PrefixIs
<1>5. At(k, MetaRoot, {PATH_SEP}) <=> Len(k) > 2 /\ k[3] = PATH_SEP /\ \A i \in 1 .. 2 : k[i] = MetaRoot[i]
  <2>1. At(k, MetaRoot, {PATH_SEP}) <=> Len(k) > n /\ k[n + 1] \in {PATH_SEP} /\ \A i \in 1 .. n : k[i] = MetaRoot[i]
    BY <1>1, AtIs DEF n
  <2>2. n + 1 = 3
    BY <1>1
  <2> QED BY <1>1, <2>1, <2>2
<1>6. (\A i \in 1 .. 3 : k[i] = w[i]) <=> (k[3] = w[3] /\ \A i \in 1 .. 2 : k[i] = w[i])
  <2>1. \A i \in 1 .. 3 : i = 3 \/ i \in 1 .. 2
    OBVIOUS
  <2>2. 3 \in 1 .. 3 /\ \A i \in 1 .. 2 : i \in 1 .. 3
    OBVIOUS
  <2> QED BY <2>1, <2>2
<1>7. (\A i \in 1 .. 2 : k[i] = w[i]) <=> \A i \in 1 .. 2 : k[i] = MetaRoot[i]
  BY <1>1, <1>2
<1>8. Len(k) > 2 <=> 3 <= Len(k)
  BY <1>3
<1> QED BY <1>2, <1>4, <1>5, <1>6, <1>7, <1>8 DEF is_reserved, w

LEMMA RootNotReserved == ~ is_reserved(Root)
<1>1. Len(Root) = 1 /\ Root \in Words /\ Len(MetaRoot) = 2 /\ MetaRoot \in Words
  BY RootIs, MetaIs
<1>2. ~ At(Root, MetaRoot, {PATH_SEP})
  BY <1>1, AtIs
<1> QED BY <1>1, <1>2, ReservedIs

\* Deleting everything leaves the reserved area.
LEMMA RootEmptied ==
  ASSUME NEW s, Fine(s)
  PROVE  \A x \in DOMAIN del_tree(s, Root).store : is_reserved(x)
<1> DEFINE K == {x \in scan_keys(s, <<>>) : ~ is_reserved(x)}
<1>1. del_tree(s, Root) = Ok(Drop(s, K))
  BY ParentOfRoot, RootNotReserved DEF del_tree, subtree_base
<1>2. \A x \in DOMAIN s : ~ is_reserved(x) => x \in K
  BY FineIs, UnderRoot DEF scan_keys
<1> HIDE DEF K
<1> QED BY <1>1, <1>2 DEF Ok, Drop

-----------------------------------------------------------------------------
\* Copies.

\* f is the contents after each turn of the copy loop.
Copies(f, V, s, order, from, to, deep) ==
  /\ f \in [0 .. Len(order) -> V] /\ f[0] = s
  /\ \A i \in 1 .. Len(order) : f[i] = copy_one(f[i - 1], order[i], from, to, deep)
  /\ copy_each(s, order, from, to, deep) = f[Len(order)]

LEMMA CopiesExist ==
  ASSUME NEW V, NEW s \in V, NEW order, Len(order) \in Nat, NEW from, NEW to, NEW deep,
         \A t \in V, i \in 1 .. Len(order) : copy_one(t, order[i], from, to, deep) \in V
  PROVE  \E f : Copies(f, V, s, order, from, to, deep)
<1> DEFINE m == Len(order)
           step == [i \in 1 .. m |-> [t \in V |-> copy_one(t, order[i], from, to, deep)]]
           Body(g) == [i \in 0 .. Len(order) |->
                         IF i = 0 THEN s ELSE copy_one(g[i - 1], order[i], from, to, deep)]
           h == CHOOSE g : g = Body(g)
<1>1. m \in Nat
  OBVIOUS
<1>2. step \in [1 .. m -> [V -> V]]
  OBVIOUS
<1>3. \E f : Follows(f, m, V, s, step)
  <2> HIDE DEF step, m
  <2> QED BY <1>1, <1>2, Recursion
<1>4. PICK f \in [0 .. m -> V] : f[0] = s /\ \A i \in 1 .. m : f[i] = step[i][f[i - 1]]
  BY <1>3 DEF Follows
<1>5. ASSUME NEW i \in 1 .. m
      PROVE  f[i] = copy_one(f[i - 1], order[i], from, to, deep)
  <2>1. i - 1 \in 0 .. m
    BY <1>1
  <2>2. f[i - 1] \in V
    BY <2>1
  <2> QED BY <1>4, <2>2
<1>6. f = Body(f)
  <2>1. ASSUME NEW i \in 0 .. m PROVE f[i] = Body(f)[i]
    <3>1. CASE i = 0
      BY <1>4, <3>1
    <3>2. CASE i # 0
      <4>1. i \in 1 .. m
        BY <1>1, <3>2
      <4> QED BY <1>5, <3>2, <4>1
    <3> QED BY <3>1, <3>2
  <2> QED BY <2>1
<1>7. copy_each(s, order, from, to, deep) = h[Len(order)]
  BY Zenon DEF copy_each
<1>8. h = Body(h)
  <2> HIDE DEF Body
  <2> QED BY <1>6
<1>9. \A i \in 0 .. m : h[i] = IF i = 0 THEN s ELSE copy_one(h[i - 1], order[i], from, to, deep)
  <2> HIDE DEF h
  <2> QED BY <1>8
<1> HIDE DEF h
<1> DEFINE S == {k \in Nat : k <= m => f[k] = h[k]}
<1>10. 0 \in S
  BY <1>1, <1>4, <1>9
<1>11. ASSUME NEW k \in Nat, k \in S PROVE k + 1 \in S
  <2> SUFFICES ASSUME k + 1 <= m PROVE f[k + 1] = h[k + 1]
    OBVIOUS
  <2>1. k + 1 \in 1 .. m /\ k + 1 \in 0 .. m /\ k + 1 # 0 /\ (k + 1) - 1 = k /\ f[k] = h[k]
    BY <1>1, <1>11
  <2>2. f[k + 1] = copy_one(f[k], order[k + 1], from, to, deep)
    BY <1>5, <2>1
  <2>3. h[k + 1] = copy_one(h[k], order[k + 1], from, to, deep)
    BY <1>9, <2>1
  <2> QED BY <2>1, <2>2, <2>3
<1>12. Nat \subseteq S
  <2> HIDE DEF S
  <2> QED BY <1>10, <1>11, SetInduction
<1>13. f[m] = h[m]
  <2>1. m \in S
    BY <1>1, <1>12
  <2> QED BY <1>1, <2>1
<1> QED BY <1>4, <1>5, <1>7, <1>13 DEF Copies

\* Directly below the root lies no member.
LEMMA NoMemberOfRoot ==
  ASSUME NEW k, Regular(k), one_level(drop(k, Len(Root)))
  PROVE  drop(k, Len(Root)) = <<>>
<1> DEFINE rest == drop(k, 1)
<1>1. k \in Words /\ Len(k) \in Nat /\ Len(k) >= 1 /\ k[1] = PATH_SEP /\ Chain(k) /\ Len(Root) = 1
  BY RegularIs, RootIs
<1>2. 1 \in 0 .. Len(k) /\ 1 \in 1 .. Len(k)
  BY <1>1
<1>3. rest \in Words /\ Len(rest) = Len(k) - 1 /\ \A i \in 1 .. Len(k) - 1 : rest[i] = k[1 + i]
  BY <1>1, <1>2, DropIs
<1>4. one_level(rest)
  BY <1>1
<1> HIDE DEF rest
<1>5. CASE rest # <<>>
  <2>1. rest[1] = OBJ_SEP
    BY <1>4, <1>5 DEF one_level
  <2>2. Len(rest) # 0
    BY <1>3, <1>5, LenIs
  <2>3. 1 \in 1 .. Len(k) - 1 /\ 1 # Len(k)
    BY <1>1, <1>3, <2>2
  <2>4. k[1 + 1] \notin DirSeps
    BY <1>1, <1>2, <2>3, ChainIs, SepsDiffer
  <2> QED BY <1>3, <2>1, <2>3, <2>4, SepsDiffer
<1> QED BY <1>1, <1>5 DEF rest

\* One turn of the copy loop writes nothing or a key below the destination.
\* One turn of the copy loop leaves t as it is, or puts one regular key of to there.
Turn(t, k, from, to, deep) ==
  LET rest == drop(k, Len(from))
      next == copy_one(t, k, from, to, deep)
  IN \/ ~ (k \in DOMAIN t /\ (deep \/ one_level(rest))) /\ next = t
     \/ /\ k \in DOMAIN t /\ (deep \/ one_level(rest)) /\ next = Put(t, to \o rest, t[k])
        /\ Plain(to) /\ Regular(to \o rest) /\ is_subtree_key(to, to \o rest) /\ Fine(next)

LEMMA CopyStep ==
  ASSUME NEW t, Fine(t), NEW from, from = Root \/ Plain(from), NEW to, to = Root \/ Plain(to),
         NEW k, Regular(k), is_subtree_key(from, k), to = Root => k \notin DOMAIN t,
         NEW deep \in BOOLEAN, deep => from # Root
  PROVE  Turn(t, k, from, to, deep)
<1> DEFINE rest == drop(k, Len(from))
<1>1. CASE ~ (k \in DOMAIN t /\ (deep \/ one_level(rest)))
  BY <1>1 DEF copy_one, Turn
<1>2. CASE k \in DOMAIN t /\ (deep \/ one_level(rest))
  <2>1. Plain(to)
    BY <1>2
  <2>2. Regular(to \o rest) /\ is_subtree_key(to, to \o rest)
    <3>1. CASE Plain(from)
      <4>1. rest = drop(k, Len(from))
        OBVIOUS
      <4> HIDE DEF rest
      <4> QED BY <2>1, <3>1, <4>1, Moved
    <3>2. CASE from = Root
      <4>1. rest = <<>>
        BY <1>2, <3>2, NoMemberOfRoot
      <4>2. to \in Words /\ Regular(to)
        BY <2>1, RegularIs DEF Plain
      <4>3. to \o <<>> = to /\ is_subtree_key(to, to)
        BY <2>1, <4>2, SubtreeIs DEF Words
      <4> HIDE DEF rest
      <4> QED BY <4>1, <4>2, <4>3
    <3> QED BY <3>1, <3>2
  <2>3. Storable(t[k])
    BY <1>2, FineIs DEF Storable
  <2>4. copy_one(t, k, from, to, deep) = Put(t, to \o rest, t[k])
    BY <1>2 DEF copy_one
  <2>5. Fine(Put(t, to \o rest, t[k]))
    <3> HIDE DEF rest
    <3> QED BY <2>2, <2>3, FinePut
  <2> QED BY <1>2, <2>1, <2>2, <2>4, <2>5 DEF Turn
<1> QED BY <1>1, <1>2

LEMMA CopyFine ==
  ASSUME NEW s, Fine(s), NEW src, Regular(src), NEW order, Lists(order, copy_keys(s, src)),
         NEW from, from = tree_base(s, src), NEW to, to = Root \/ Plain(to),
         NEW deep \in BOOLEAN, deep => from # Root
  PROVE  Fine(copy_each(del_tree(s, to).store, order, from, to, deep))
<1> DEFINE V == {t \in Contents : Fine(t) /\ (to = Root => \A x \in DOMAIN t : is_reserved(x))}
           c == del_tree(s, to).store
<1>1. c \in V
  BY DelTreeFine, RootEmptied DEF Fine
<1>2. from = Root \/ Plain(from)
  BY TreeBase
<1>3. ASSUME NEW t \in V, NEW i \in 1 .. Len(order)
      PROVE  copy_one(t, order[i], from, to, deep) \in V
  <2> DEFINE k == order[i]
             rest == drop(k, Len(from))
             next == copy_one(t, k, from, to, deep)
  <2>1. k \in copy_keys(s, src)
    BY DEF Lists
  <2>2. Regular(k) /\ ~ is_reserved(k) /\ is_subtree_key(from, k)
    BY <2>1, CopyKeys
  <2>3. Fine(t) /\ (to = Root => k \notin DOMAIN t)
    BY <2>2
  <2>4. \/ next = t
        \/ /\ next = Put(t, to \o rest, t[k]) /\ Fine(next)
           /\ Plain(to) /\ Regular(to \o rest) /\ is_subtree_key(to, to \o rest)
    <3>1. Fine(t) /\ (to = Root => k \notin DOMAIN t)
      BY <2>3
    <3> HIDE DEF k, V
    <3>2. Turn(t, k, from, to, deep)
      BY <1>2, <2>2, <3>1, CopyStep
    <3> QED BY <3>2 DEF Turn
  <2> QED BY <2>4, RootNotPlain DEF Fine
<1>4. Len(order) \in Nat
  BY DEF Lists
<1> HIDE DEF V, c
<1>5. PICK f : Copies(f, V, c, order, from, to, deep)
  BY <1>1, <1>3, <1>4, CopiesExist
<1>6. copy_each(c, order, from, to, deep) \in V
  BY <1>4, <1>5 DEF Copies
<1> QED BY <1>6 DEF V, c

LEMMA CopiesFine ==
  ASSUME NEW s, Fine(s), NEW src, Regular(src), NEW dst, Regular(dst),
         NEW order, Lists(order, copy_keys(s, src))
  PROVE  Fine(cp_tree(s, src, dst, order).store) /\ Fine(cp_list(s, src, dst, order).store)
<1> DEFINE from == tree_base(s, src)
           to == tree_base(s, dst)
<1>1. (to = Root \/ Plain(to)) /\ (from = Root \/ Plain(from))
  BY TreeBase
<1>2. Fine(copy_each(del_tree(s, to).store, order, from, to, FALSE))
  <2>1. from = tree_base(s, src)
    OBVIOUS
  <2> HIDE DEF from, to
  <2> QED BY <1>1, <2>1, CopyFine
<1>3. ASSUME from # to, ~ is_descendant(from, to)
      PROVE  Fine(copy_each(del_tree(s, to).store, order, from, to, TRUE))
  <2>1. from = tree_base(s, src)
    OBVIOUS
  <2> HIDE DEF from, to
  <2>2. from # Root
    <3> SUFFICES ASSUME from = Root PROVE FALSE
      OBVIOUS
    <3>1. to # Root /\ starts_with(to, Root)
      BY <1>1, <1>3, UnderRoot DEF Plain
    <3> QED BY <1>3, <3>1 DEF is_descendant
  <2> QED BY <1>1, <2>1, <2>2, CopyFine
<1> HIDE DEF from, to
<1>4. Fine(copy_tree(s, from, to, order).store)
  BY <1>3 DEF copy_tree, Ok, Err
<1>5. Fine(copy_list(s, from, to, order).store)
  BY <1>2 DEF copy_list, Ok, Err
<1> QED BY <1>4, <1>5 DEF cp_tree, cp_list, Err, from, to

-----------------------------------------------------------------------------
\* Type correctness.

LEMMA NextFine ==
  ASSUME Fine(store), Next
  PROVE  Fine(store')
<1>1. \A k \in Paths : Regular(k)
  BY PathsAssumption
<1>2. \A r : Apply(r) => store' = r.store
  BY DEF Apply
<1>3. CASE \E k \in Paths, v \in Values : Set(k, v)
  <2>1. \A v \in Values : Given(v)
    BY ValuesAssumption DEF Given
  <2> QED BY <1>1, <1>2, <1>3, <2>1, SetFine DEF Set
<1>4. CASE \E k \in Keys, off \in Offsets, buf \in Parts : SetPart(k, off, buf)
  <2>1. \A buf \in Parts : buf \in Words
    BY ValuesAssumption DEF Words
  <2>2. \A off \in Offsets : off \in Nat
    BY DEF Offsets
  <2> QED BY <1>2, <1>4, <2>1, <2>2, PartFine DEF SetPart
<1>5. CASE \E src, dst \in Keys : Cp(src, dst)
  BY <1>1, <1>2, <1>5, CpFine DEF Cp, Paths
<1>6. CASE \E ks \in DelLists : Del(ks)
  <2>1. \A ks \in DelLists : ks \in Seq(Paths)
    BY PathsAssumption
  <2>2. \A ks \in DelLists : Len(ks) \in Nat
    BY <2>1
  <2> QED BY <1>2, <1>6, <2>2, DelFine DEF Del
<1>7. CASE \E p \in Paths : DelTree(p)
  BY <1>2, <1>7, DelTreeFine DEF DelTree
<1>8. ASSUME NEW src \in Trees, NEW dst \in Trees, NEW order \in ScanOrders(src, dst)
      PROVE  Lists(order, copy_keys(store, src)) /\ Regular(src) /\ Regular(dst)
  <2>1. Regular(src) /\ Regular(dst)
    BY <1>1, PathsAssumption
  <2>2. IsFiniteSet(copy_keys(store, src))
    BY CopyKeys
  <2> QED BY <2>1, <2>2, SetLists DEF ScanOrders
<1>9. CASE \E src, dst \in Trees : CpTree(src, dst)
  BY <1>2, <1>8, <1>9, CopiesFine DEF CpTree
<1>10. CASE \E src, dst \in Trees : CpList(src, dst)
  BY <1>2, <1>8, <1>10, CopiesFine DEF CpList
<1>11. CASE \/ \E d \in Dirs : Mkindex(d)
            \/ \E d, ext \in Dirs : ExtIndex(d, ext)
            \/ \E d \in Dirs : DelExtIndex(d)
  <2>1. \A d, ext \in Dirs : /\ Fine(mkindex(store, d).store) /\ Fine(ext_index(store, d, ext).store)
                             /\ Fine(del_ext_index(store, d).store)
    BY <1>1, DirOpsFine DEF Paths
  <2>2. \A d \in Dirs : Fine(mkindex(store, d).store) /\ Fine(del_ext_index(store, d).store)
    BY <2>1
  <2> QED BY <1>2, <1>11, <2>1, <2>2 DEF Mkindex, ExtIndex, DelExtIndex
<1>12. CASE Clear
  BY <1>2, <1>12, NothingFine DEF Clear, clear, Ok
<1> QED BY <1>3, <1>4, <1>5, <1>6, <1>7, <1>9, <1>10, <1>11, <1>12 DEF Next

LEMMA AlwaysFine == Spec => []Fine(store)
<1>1. Init => Fine(store)
  BY NothingFine DEF Init
<1>2. Fine(store) /\ [Next]_store => Fine(store)'
  <2> SUFFICES ASSUME Fine(store), [Next]_store PROVE Fine(store')
    BY DEF Fine, Contents
  <2>1. CASE Next
    BY <2>1, NextFine
  <2>2. CASE UNCHANGED store
    BY <2>2
  <2> QED BY <2>1, <2>2
<1> QED BY <1>1, <1>2, PTL DEF Spec

\* Whatever sequence of backend.rs calls ran, the tree holds well-formed XValues under
\* well-formed keys and its links lead to keys: no copy, delete, part write or
\* link resolution ever puts together a key that is none.
THEOREM TypeCorrect == Spec => []TypeOK
<1>1. Fine(store) => TypeOK
  BY FineIs DEF TypeOK
<1> QED BY <1>1, AlwaysFine, PTL

-----------------------------------------------------------------------------
\* What a call changes.

LEMMA ChangedNone ==
  ASSUME NEW s
  PROVE  Changed(s, s) = {}
BY DEF Changed

LEMMA ChangedPut ==
  ASSUME NEW s, NEW k, NEW v
  PROVE  Changed(s, Put(s, k, v)) \subseteq {k}
BY DEF Changed, Put, Lookup

LEMMA ChangedDrop ==
  ASSUME NEW s, Fine(s), NEW K
  PROVE  Changed(s, Drop(s, K)) = K \cap DOMAIN s
<1>1. \A x \in DOMAIN s : s[x].kind # "none"
  BY FineIs DEF XValue, Kinds
<1>2. \A x \in DOMAIN s : s[x] # Absent
  BY <1>1 DEF Absent
<1> QED BY <1>2 DEF Changed, Drop, Lookup

LEMMA ChangedBySet ==
  ASSUME NEW s, NEW key, NEW v
  PROVE  /\ Changed(s, set(s, key, v).store) \subseteq {resolve_parent(s, key)}
         /\ set(s, key, v).ok => ~ is_reserved(key) /\ ~ is_reserved(resolve_parent(s, key))
         /\ ~ set(s, key, v).ok => set(s, key, v).store = s
<1> DEFINE k == resolve_parent(s, key)
<1>1. CASE ~ is_reserved(key) /\ settable(s, k, v)
  <2>1. set(s, key, v) = Ok(Put(s, k, v))
    BY <1>1 DEF set
  <2> HIDE DEF k
  <2>2. set(s, key, v).store = Put(s, k, v) /\ set(s, key, v).ok
    BY <2>1 DEF Ok
  <2>3. ~ is_reserved(key) /\ ~ is_reserved(k)
    BY <1>1 DEF settable
  <2> QED BY <2>2, <2>3, ChangedPut DEF k
<1>2. CASE ~ (~ is_reserved(key) /\ settable(s, k, v))
  BY <1>2, ChangedNone DEF set, Err
<1> QED BY <1>1, <1>2

LEMMA ChangedByCp ==
  ASSUME NEW s, NEW src, NEW dst
  PROVE  cp(s, src, dst) = Err(s) \/ \E v : cp(s, src, dst) = set(s, dst, v)
BY DEF cp

LEMMA ChangedByDel ==
  ASSUME NEW s, Fine(s), NEW key, NEW k, k = resolve_parent(s, key)
  PROVE  /\ Changed(s, del_one(s, key).store) \subseteq {k, strip_dir_suf(k)}
         /\ del_one(s, key).ok => ~ is_reserved(key) /\ ~ is_reserved(k)
         /\ ~ del_one(s, key).ok => del_one(s, key).store = s
<1>1. CASE is_reserved(key) \/ is_reserved(k) \/ ext_only(s, k)
  BY <1>1, ChangedNone DEF del_one, del_at, Err
<1>2. CASE ~ (is_reserved(key) \/ is_reserved(k) \/ ext_only(s, k))
  <2>1. del_one(s, key) = Ok(Drop(s, {k, strip_dir_suf(k)}))
    BY <1>2 DEF del_one, del_at
  <2> QED BY <1>2, <2>1, ChangedDrop DEF Ok
<1> QED BY <1>1, <1>2

-----------------------------------------------------------------------------
\* Reads find what was written.

LEMMA ReadBack ==
  ASSUME NEW s, Fine(s), NEW k, Plain(k), NEW v, set(s, k, v).ok,
         resolve_path(set(s, k, v).store, parent_dir(k)) = resolve_path(s, parent_dir(k))
  PROVE  get_raw(set(s, k, v).store, k) = v
<1> DEFINE kk == resolve_parent(s, k)
           t == set(s, k, v).store
           dir == resolve_path(s, parent_dir(k))
<1>1. t = Put(s, kk, v) /\ ~ is_reserved(k) /\ ~ is_reserved(kk)
  <2>1. set(s, k, v) = Ok(Put(s, kk, v)) /\ ~ is_reserved(k) /\ settable(s, kk, v)
    BY DEF set, Ok, Err
  <2> QED BY <2>1 DEF Ok, settable
<1>2. kk = join_path(dir, sep_path(k).last)
  BY SameWay
<1> HIDE DEF kk, t, dir
<1>3. kk \in DOMAIN t /\ t[kk] = v
  BY <1>1 DEF Put
<1>4. locate(t, k) = kk
  <2>1. locate(t, k) = locate_in(t, k, dir)
    BY DEF locate, dir, t
  <2> QED BY <1>1, <1>2, <1>3, <2>1 DEF locate_in
<1> QED BY <1>3, <1>4 DEF get_raw, Lookup, t

LEMMA WriteReadBackHolds == Fine(store) => WriteReadBack
<1> SUFFICES ASSUME Fine(store), NEW k \in Keys, NEW v \in Values, set(store, k, v).ok,
                    resolve_path(set(store, k, v).store, parent_dir(k)) = resolve_path(store, parent_dir(k))
             PROVE  get_raw(set(store, k, v).store, k) = v
  BY DEF WriteReadBack
<1>1. Regular(k) /\ ~ is_dir(k)
  BY PathsAssumption DEF Paths
<1>2. Plain(k)
  BY <1>1, PlainIs
<1> QED BY <1>2, ReadBack

\* What set accepted is what a read of the same key returns, for every tree that
\* calls can build and every chain of links in it.
THEOREM WritesReadBack == Spec => []WriteReadBack
BY WriteReadBackHolds, AlwaysFine, PTL

-----------------------------------------------------------------------------
\* The two reads agree.

LEMMA SameRead ==
  ASSUME NEW s, Fine(s), NEW k, Regular(k), ~ is_reserved(k), ~ ends_with(k, OBJ_SEP)
  PROVE  get_one(s, k) = get_raw(s, k)
<1> DEFINE dir == resolve_path(s, parent_dir(k))
           last == sep_path(k).last
           full == join_path(dir, last)
           ext == prefix_ext(s, dir)
<1>1. Lookup(s, <<>>) = Absent
  BY EmptyNotStored DEF Lookup
<1>2. is_dir(full) /\ full \notin DOMAIN s => ext = <<>>
  <2>1. CASE is_dir(k)
    <3>1. k \in Words /\ k[Len(k)] = PATH_SEP
      BY <2>1, RegularIs DEF is_dir, ends_with, Last
    <3>2. last = <<>>
      <4>1. CASE k = Root
        BY <4>1, SepRoot
      <4>2. CASE k # Root
        <5>1. \A j \in 1 .. Len(last) : last[j] # PATH_SEP
          BY <4>2, Split
        <5>2. last # <<>> => last[Len(last)] = PATH_SEP
          BY <3>1, <4>2, Split
        <5>3. last \in Words
          BY <4>2, Split, ChainIs
        <5>4. last # <<>> => Len(last) \in 1 .. Len(last)
          <6> HIDE DEF last
          <6> QED BY <5>3, LenIs
        <5> QED BY <5>1, <5>2, <5>4
      <4> QED BY <4>1, <4>2
    <3>3. Regular(parent_dir(k)) /\ is_dir(parent_dir(k))
      <4>1. CASE k = Root
        <5>1. parent_dir(k) = Root
          BY <4>1, SepRoot
        <5> QED BY <5>1, RootIs, RootNotPlain
      <4>2. CASE k # Root
        <5>1. Regular(parent_dir(k)) /\ parent_dir(k)[Len(parent_dir(k))] = PATH_SEP
          BY <4>2, Split
        <5> QED BY <5>1, RegularIs, DirIs, SepsDiffer
      <4> QED BY <4>1, <4>2
    <3>4. Regular(dir) /\ is_dir(dir)
      BY <3>3, ResolvePath
    <3>5. full = dir
      <4>1. dir \in Words
        BY <3>4, RegularIs
      <4> HIDE DEF dir, last
      <4>2. dir \o <<>> = dir
        BY <4>1 DEF Words
      <4> QED BY <3>2, <3>4, <4>2 DEF join_path
    <3> QED BY <3>5 DEF prefix_ext, Lookup, Absent
  <2>2. CASE ~ is_dir(k)
    <3>1. Plain(k) /\ k # Root
      BY <2>2, PlainIs, RootNotPlain
    <3>2. full = resolve_parent(s, k)
      BY <3>1, SameWay
    <3>3. ~ is_dir(full)
      BY <2>2, <3>2, ParentRegular
    <3> QED BY <3>3
  <2> QED BY <2>1, <2>2
<1>3. get_one(s, k) = get_in(s, k, dir) /\ get_raw(s, k) = Lookup(s, locate_in(s, k, dir))
  BY DEF get_one, get_raw, locate
<1> HIDE DEF dir
<1>4. CASE is_reserved(full)
  <2>1. get_in(s, k, dir) = Absent
    BY <1>4 DEF get_in
  <2>2. locate_in(s, k, dir) = <<>>
    BY <1>4 DEF locate_in
  <2> QED BY <1>1, <1>3, <2>1, <2>2
<1>5. CASE ~ is_reserved(full) /\ full \in DOMAIN s
  <2>1. get_in(s, k, dir) = Lookup(s, full)
    BY <1>5 DEF get_in
  <2>2. locate_in(s, k, dir) = full
    BY <1>5 DEF locate_in
  <2> QED BY <1>3, <2>1, <2>2
<1>6. CASE ~ is_reserved(full) /\ full \notin DOMAIN s
  <2>1. locate_in(s, k, dir) = IF ext # <<>> /\ join_path(ext, last) \in DOMAIN s
                               THEN join_path(ext, last) ELSE <<>>
    BY <1>6 DEF locate_in
  <2>2. get_in(s, k, dir) = IF ~ is_dir(full) /\ ext # <<>> THEN Lookup(s, join_path(ext, last)) ELSE Absent
    <3>1. CASE is_dir(full)
      BY <1>6, <3>1 DEF get_in, Lookup
    <3>2. CASE ~ is_dir(full)
      BY <1>6, <3>2 DEF get_in
    <3> QED BY <3>1, <3>2
  <2> QED BY <1>1, <1>2, <1>3, <1>6, <2>1, <2>2 DEF Lookup
<1> QED BY <1>4, <1>5, <1>6

LEMMA ReadsAgreeHolds == Fine(store) => ReadsAgree
BY PathsAssumption, SameRead DEF ReadsAgree

\* Watch (the batch read get of backend.rs) and Get (get_raw) never disagree about
\* a key, in every tree that calls can build.
THEOREM ReadsAlwaysAgree == Spec => []ReadsAgree
BY ReadsAgreeHolds, AlwaysFine, PTL

-----------------------------------------------------------------------------
\* A call on a link is a call on the link.

LEMMA LinkForms ==
  ASSUME NEW k, Regular(k), k # Root, NEW link, link = strip_dir_suf(k)
  PROVE  k \in {link, link \o Root, Append(link, OBJ_SEP)}
<1>1. Plain(link) /\ (~ is_dir(k) => link = k) /\ (is_dir(k) => k = Append(link, Last(k)) /\ Last(k) \in DirSeps)
  BY StripIs
<1>2. link \o Root = Append(link, PATH_SEP)
  BY <1>1, RegularRoot
<1> QED BY <1>1, <1>2 DEF DirSeps

LEMMA LinkTargetSafeHolds == Fine(store) => LinkTargetSafe
<1> SUFFICES ASSUME Fine(store), NEW k \in Paths, is_ptr(store, subtree_base(resolve_parent(store, k)))
             PROVE  LET kk == resolve_parent(store, k)
                        link == subtree_base(kk)
                    IN \A r \in SetOps(k) \cup {del(store, <<k>>)}
                                \cup (IF resolve_parent(store, kk) = kk THEN {del_tree(store, k)} ELSE {}) :
                         Changed(store, r.store) \subseteq {link, link \o Root, Append(link, OBJ_SEP)}
  BY DEF LinkTargetSafe
<1> DEFINE kk == resolve_parent(store, k)
           link == subtree_base(kk)
           L == {link, link \o Root, Append(link, OBJ_SEP)}
<1>1. Regular(k)
  BY PathsAssumption
<1>2. Regular(kk)
  BY <1>1, ParentRegular
<1>3. kk # Root /\ link = strip_dir_suf(kk) /\ link # <<>>
  <2>1. link \in DOMAIN store
    BY PtrIs
  <2>2. link # <<>>
    BY <2>1, EmptyNotStored
  <2> QED BY <2>2 DEF subtree_base
<1> HIDE DEF link
<1>4. kk \in L /\ link \in L
  <2> HIDE DEF kk
  <2> QED BY <1>2, <1>3, LinkForms
<1>5. ASSUME NEW v PROVE Changed(store, set(store, k, v).store) \subseteq L
  BY <1>4, ChangedBySet
<1>6. ASSUME NEW r \in SetOps(k) PROVE Changed(store, r.store) \subseteq L
  <2>1. r = Err(store) \/ \E v : r = set(store, k, v)
    BY ChangedByCp DEF SetOps
  <2> QED BY <1>5, <2>1, ChangedNone DEF Err
<1>7. Changed(store, del(store, <<k>>).store) \subseteq L
  <2>1. Changed(store, del_one(store, k).store) \subseteq {kk, strip_dir_suf(kk)}
    <3>1. kk = resolve_parent(store, k)
      OBVIOUS
    <3> HIDE DEF kk
    <3> QED BY <3>1, ChangedByDel
  <2>2. del(store, <<k>>) = del_one(store, k)
    BY DelSingle
  <2> QED BY <1>3, <1>4, <2>1, <2>2
<1>8. ASSUME resolve_parent(store, kk) = kk PROVE Changed(store, del_tree(store, k).store) \subseteq L
  <2>1. del_tree(store, k) = Err(store) \/ del_tree(store, k) = del_one(store, kk)
    BY <1>3 DEF del_tree, link
  <2>2. Changed(store, del_one(store, kk).store) \subseteq {kk, strip_dir_suf(kk)}
    <3>1. kk = resolve_parent(store, kk)
      BY <1>8
    <3> HIDE DEF kk
    <3> QED BY <3>1, ChangedByDel
  <2> QED BY <1>3, <1>4, <2>1, <2>2, ChangedNone, SMTT(30) DEF Err
<1> QED BY <1>6, <1>7, <1>8 DEF link

\* set, cp, del and del_tree of a key that holds a link never touch what it points
\* to: resolve_parent never follows the whole key.
THEOREM LinkTargetsSafe == Spec => []LinkTargetSafe
BY LinkTargetSafeHolds, AlwaysFine, PTL

-----------------------------------------------------------------------------
\* Deleting a subtree.

\* A word that begins with d, three letters or more, and is reserved: so is d.
LEMMA ReservedPrefix ==
  ASSUME NEW d \in Words, Len(d) >= 3, NEW x \in Words, starts_with(x, d), is_reserved(x)
  PROVE  is_reserved(d)
<1>1. Len(d) \in Nat /\ Len(x) \in Nat /\ Len(MetaRoot) = 2 /\ MetaRoot \in Words
  BY LenIs, MetaIs
<1>2. Len(d) <= Len(x) /\ \A i \in 1 .. Len(d) : x[i] = d[i]
  BY PrefixIs
<1>3. x # MetaRoot
  BY <1>1, <1>2
<1>4. Len(x) > 2 /\ x[2 + 1] \in {PATH_SEP} /\ \A i \in 1 .. 2 : x[i] = MetaRoot[i]
  BY <1>1, <1>3, AtIs, ReservedIs
<1>5. Len(d) > 2 /\ 2 + 1 \in 1 .. Len(d) /\ \A i \in 1 .. 2 : i \in 1 .. Len(d)
  BY <1>1
<1>6. d[2 + 1] \in {PATH_SEP} /\ \A i \in 1 .. 2 : d[i] = MetaRoot[i]
  BY <1>2, <1>4, <1>5
<1>7. At(d, MetaRoot, {PATH_SEP})
  BY <1>1, <1>5, <1>6, AtIs
<1> QED BY <1>7, ReservedIs

LEMMA PlainLong ==
  ASSUME NEW b, Plain(b)
  PROVE  b \in Words /\ Regular(b) /\ Len(b) \in Nat /\ Len(b) >= 2 /\ ~ is_dir(b) /\ b # Root /\ b # <<>>
<1>1. b \in Words /\ Regular(b) /\ Len(b) \in Nat /\ Len(b) >= 1 /\ b[1] = PATH_SEP /\ b # <<>>
  BY RegularIs DEF Plain
<1>2. b # Root /\ ~ is_dir(b)
  BY <1>1, RootNotPlain, PlainIs
<1>3. Len(b) # 1
  BY <1>1, <1>2, OnlyRoot
<1> QED BY <1>1, <1>2, <1>3

\* No key of contents in which nothing but reserved keys lies below b is listed
\* in b's directories.
LEMMA NothingListed ==
  ASSUME NEW t, Fine(t), NEW b, Plain(b), NEW c \in DirSeps,
         \A x \in DOMAIN t : is_subtree_key(b, x) => is_reserved(x)
  PROVE  list(t, Append(b, c), FALSE, FALSE) = {}
<1> DEFINE d == Append(b, c)
<1>1. b \in Words /\ Len(b) \in Nat /\ Len(b) >= 2 /\ c \in Letters /\ c \in Separators
  BY PlainLong, SepsDiffer
<1>2. /\ d \in Words /\ Len(d) = Len(b) + 1 /\ (\A i \in 1 .. Len(b) : d[i] = b[i]) /\ d[Len(b) + 1] = c
  BY <1>1, AppendIs
<1>3. d # Root /\ strip_dir_suf(d) = b
  BY PlainSep
<1> HIDE DEF d
<1>4. subtree_base(d) = b
  BY <1>3 DEF subtree_base
<1>5. ASSUME NEW x \in DOMAIN t, starts_with(x, d), ~ is_reserved(d) PROVE FALSE
  <2>1. x \in Words
    BY FineIs
  <2>2. Len(x) \in Nat /\ Len(d) <= Len(x) /\ \A i \in 1 .. Len(d) : x[i] = d[i]
    BY <1>2, <1>5, <2>1, PrefixIs, LenIs
  <2>3. /\ Len(b) + 1 \in 1 .. Len(d) /\ (\A i \in 1 .. Len(b) : i \in 1 .. Len(d))
        /\ Len(x) > Len(b) /\ Len(d) >= 3
    <3> DEFINE n == Len(b)
               m == Len(d)
               q == Len(x)
    <3>1. n \in Nat /\ n >= 2 /\ m = n + 1 /\ q \in Nat /\ m <= q
      BY <1>1, <1>2, <2>2
    <3> HIDE DEF n, m, q
    <3>2. n + 1 \in 1 .. m /\ (\A i \in 1 .. n : i \in 1 .. m) /\ q > n /\ m >= 3
      BY ONLY <3>1
    <3> QED BY <3>2 DEF n, m, q
  <2>4. x[Len(b) + 1] \in Separators /\ \A i \in 1 .. Len(b) : x[i] = b[i]
    BY <1>1, <1>2, <2>2, <2>3
  <2>5. is_subtree_key(b, x)
    BY <1>1, <2>1, <2>3, <2>4, AtIs, SubtreeIs
  <2> QED BY <1>2, <1>5, <2>1, <2>3, <2>5, ReservedPrefix
<1>6. ~ is_reserved(d) => read_dir_index(t, d) = {}
  <2> SUFFICES ASSUME ~ is_reserved(d) PROVE read_dir_index(t, d) = {}
    OBVIOUS
  <2>1. {x \in scan_keys(t, subtree_base(d)) : starts_with(x, d)} = {}
    BY <1>5 DEF scan_keys
  <2> QED BY <2>1 DEF read_dir_index
<1> QED BY <1>6 DEF list, list_in, d

LEMMA DelTreeExactHolds == Fine(store) => DelTreeExact
<1> SUFFICES ASSUME Fine(store), NEW p \in Paths,
                    NEW base, base = subtree_base(resolve_parent(store, p)),
                    del_tree(store, p).ok, base # <<>>, ~ is_ptr(store, base)
             PROVE  LET r == del_tree(store, p)
                    IN /\ Changed(store, r.store)
                            = {x \in DOMAIN store : under_prefix(x, base) /\ ~ is_reserved(x)}
                       /\ list(r.store, base \o Root, FALSE, FALSE) = {}
                       /\ list(r.store, Append(base, OBJ_SEP), FALSE, FALSE) = {}
  BY DEF DelTreeExact
<1> DEFINE kk == resolve_parent(store, p)
           K == {x \in scan_keys(store, base) : ~ is_reserved(x)}
           t == del_tree(store, p).store
<1>1. Regular(kk)
  BY PathsAssumption, ParentRegular
<1>2. Plain(base)
  <2>1. kk # Root /\ base = strip_dir_suf(kk)
    BY DEF subtree_base
  <2> HIDE DEF kk
  <2> QED BY <1>1, <2>1, StripIs
<1>3. t = Drop(store, K)
  BY DEF del_tree, Ok, Err
<1> HIDE DEF t
<1>4. Fine(t)
  BY <1>3, FineDrop
<1>5. ASSUME NEW x \in DOMAIN store
      PROVE  under_prefix(x, base) <=> is_subtree_key(base, x)
  <2>1. x \in Words
    BY FineIs
  <2>2. base \in Words /\ base # <<>> /\ base # Root /\ ~ is_dir(base) /\ ~ ends_with(base, RUNTIME_MEMBER_SEP)
    BY <1>2, PlainLong, RegularIs DEF ends_with, Last
  <2>3. subtree_base(base) = base
    BY <2>2 DEF subtree_base, strip_dir_suf
  <2>4. is_subtree_key(base, x) <=> x = base \/ At(x, base, Separators)
    BY <1>2, <2>1, SubtreeIs
  <2> QED BY <2>2, <2>3, <2>4 DEF under_prefix
<1>6. Changed(store, t) = {x \in DOMAIN store : under_prefix(x, base) /\ ~ is_reserved(x)}
  <2>1. Changed(store, t) = K \cap DOMAIN store
    BY <1>3, ChangedDrop
  <2> QED BY <1>5, <2>1 DEF scan_keys
<1>7. \A x \in DOMAIN t : is_subtree_key(base, x) => is_reserved(x)
  BY <1>3 DEF Drop, scan_keys
<1>8. list(t, Append(base, PATH_SEP), FALSE, FALSE) = {} /\ list(t, Append(base, OBJ_SEP), FALSE, FALSE) = {}
  BY <1>2, <1>4, <1>7, NothingListed, SepsDiffer
<1>9. base \o Root = Append(base, PATH_SEP)
  BY <1>2, RegularRoot
<1> QED BY <1>6, <1>8, <1>9 DEF t

\* del_tree removes a path, its children, members and runtime variables, no
\* sibling whose name begins alike, and leaves nothing listed below it.
THEOREM DelTreeIsExact == Spec => []DelTreeExact
BY DelTreeExactHolds, AlwaysFine, PTL

-----------------------------------------------------------------------------
\* The reserved area is left alone.

LEMMA BelowNotReserved ==
  ASSUME NEW b, Plain(b), ~ is_reserved(b), NEW x \in Words, is_subtree_key(b, x)
  PROVE  ~ is_reserved(x)
<1>1. b \in Words /\ Len(b) \in Nat /\ Len(b) >= 2 /\ MetaRoot \in Words /\ Len(MetaRoot) = 2
  BY PlainLong, MetaIs
<1>2. x = b \/ At(x, b, Separators)
  BY SubtreeIs
<1>3. CASE x = b
  BY <1>3
<1>4. CASE At(x, b, Separators)
  <2>1. Len(x) > Len(b) /\ Len(x) \in Nat /\ starts_with(x, b) /\ \A i \in 1 .. Len(b) : x[i] = b[i]
    BY <1>1, <1>4, AtIs, LenIs DEF At
  <2>2. CASE Len(b) >= 3
    BY <1>1, <2>1, <2>2, ReservedPrefix
  <2>3. CASE Len(b) = 2
    <3> SUFFICES ASSUME is_reserved(x) PROVE FALSE
      OBVIOUS
    <3>1. x # MetaRoot
      <4> DEFINE q == Len(x)
                 n == Len(b)
      <4>1. q \in Nat /\ n \in Nat /\ q > n /\ n >= 2
        BY <1>1, <2>1
      <4>2. q # 2
        <5> HIDE DEF q, n
        <5> QED BY ONLY <4>1
      <4> QED BY <1>1, <4>2
    <3>2. \A i \in 1 .. Len(MetaRoot) : x[i] = MetaRoot[i]
      BY <1>1, <3>1, AtIs, ReservedIs
    <3>3. b = MetaRoot
      BY <1>1, <2>1, <2>3, <3>2, SameWord
    <3> QED BY <3>3 DEF is_reserved
  <2> QED BY <1>1, <2>2, <2>3, SMTT(30)
<1> QED BY <1>2, <1>3, <1>4

LEMMA StripNotReserved ==
  ASSUME NEW k, Regular(k), ~ is_reserved(k), k # MetaMembers
  PROVE  ~ is_reserved(strip_dir_suf(k))
<1>1. CASE k = Root
  <2>1. strip_dir_suf(k) = <<>>
    BY <1>1, RootNotPlain DEF strip_dir_suf, Front, Root
  <2>2. <<>> \in Words /\ Len(<<>>) = 0 /\ Len(MetaRoot) = 2 /\ MetaRoot \in Words
    BY MetaIs DEF Words
  <2>3. ~ At(<<>>, MetaRoot, {PATH_SEP})
    BY <2>2, AtIs
  <2>4. <<>> # MetaRoot
    BY <2>2
  <2> QED BY <2>1, <2>2, <2>3, <2>4, ReservedIs
<1>2. CASE k # Root
  <2> DEFINE b == strip_dir_suf(k)
  <2>1. Plain(b) /\ (~ is_dir(k) => b = k) /\ (is_dir(k) => k = Append(b, Last(k)) /\ Last(k) \in DirSeps)
    BY <1>2, StripIs
  <2> HIDE DEF b
  <2>2. CASE ~ is_dir(k)
    BY <2>1, <2>2 DEF b
  <2>3. CASE is_dir(k)
    <3> DEFINE c == Last(k)
    <3>1. k = Append(b, c) /\ c \in DirSeps /\ b \in Words /\ c \in Letters
      BY <2>1, <2>3, PlainLong, SepsDiffer
    <3> HIDE DEF c
    <3>2. /\ k \in Words /\ Len(k) = Len(b) + 1 /\ Len(b) \in Nat
          /\ \A i \in 1 .. Len(b) : k[i] = b[i] /\ k[Len(b) + 1] = c
      BY <3>1, AppendIs, LenIs
    <3>3. k[Len(b) + 1] = c
      BY <3>1, AppendIs
    <3> SUFFICES ASSUME is_reserved(b) PROVE FALSE
      BY DEF b
    <3>4. CASE b = MetaRoot
      <4>1. c = PATH_SEP
        BY <3>1, <3>4 DEF DirSeps, MetaMembers
      <4>2. At(k, b, {PATH_SEP})
        <5>1. Len(k) > Len(b) /\ k[Len(b) + 1] \in {PATH_SEP} /\ \A i \in 1 .. Len(b) : k[i] = b[i]
          BY <3>2, <3>3, <4>1
        <5> QED BY <3>1, <3>2, <5>1, AtIs
      <4> QED BY <3>2, <3>4, <4>2, ReservedIs
    <3>5. CASE b # MetaRoot
      <4>1. Len(b) > 2 /\ b[2 + 1] = PATH_SEP /\ \A i \in 1 .. 2 : b[i] = MetaRoot[i]
        <5>1. At(b, MetaRoot, {PATH_SEP})
          BY <3>1, <3>5, ReservedIs
        <5>2. Len(MetaRoot) = 2 /\ MetaRoot \in Words
          BY MetaIs
        <5>3. /\ Len(b) > Len(MetaRoot) /\ b[Len(MetaRoot) + 1] \in {PATH_SEP}
              /\ \A i \in 1 .. Len(MetaRoot) : b[i] = MetaRoot[i]
          BY <3>1, <5>1, <5>2, AtIs
        <5> QED BY <5>2, <5>3
      <4>2. Len(k) > 2 /\ k[2 + 1] = PATH_SEP /\ \A i \in 1 .. 2 : k[i] = MetaRoot[i]
        <5>1. 2 + 1 \in 1 .. Len(b) /\ (\A i \in 1 .. 2 : i \in 1 .. Len(b)) /\ Len(k) > 2
          BY <3>2, <4>1
        <5> QED BY <3>2, <4>1, <5>1
      <4>3. At(k, MetaRoot, {PATH_SEP})
        BY <3>2, <4>2, AtIs, MetaIs
      <4> QED BY <3>2, <4>3, ReservedIs
    <3> QED BY <3>4, <3>5
  <2> QED BY <2>2, <2>3 DEF b
<1> QED BY <1>1, <1>2

\* No reserved key differs between s and t.
Keeps(s, t) == \A x \in Changed(s, t) : ~ is_reserved(x)

LEMMA DelKeeps ==
  ASSUME NEW s, Fine(s), NEW key, Regular(key), resolve_parent(s, key) # MetaMembers
  PROVE  Keeps(s, del_one(s, key).store)
<1> DEFINE k == resolve_parent(s, key)
<1>1. k = resolve_parent(s, key) /\ Regular(k) /\ k # MetaMembers
  BY ParentRegular
<1> HIDE DEF k
<1>2. CASE del_one(s, key).ok
  <2>1. ~ is_reserved(k) /\ Changed(s, del_one(s, key).store) \subseteq {k, strip_dir_suf(k)}
    BY <1>1, <1>2, ChangedByDel
  <2> QED BY <1>1, <2>1, StripNotReserved DEF Keeps
<1>3. CASE ~ del_one(s, key).ok
  <2>1. del_one(s, key).store = s
    BY <1>1, <1>3, ChangedByDel
  <2> QED BY <2>1, ChangedNone DEF Keeps
<1> QED BY <1>2, <1>3

LEMMA DelTreeKeeps ==
  ASSUME NEW s, Fine(s), NEW p, Regular(p),
         resolve_parent(s, resolve_parent(s, p)) # MetaMembers
  PROVE  Keeps(s, del_tree(s, p).store)
<1> DEFINE k == resolve_parent(s, p)
           K == {x \in scan_keys(s, subtree_base(k)) : ~ is_reserved(x)}
<1>1. Regular(k)
  BY ParentRegular
<1>2. \/ del_tree(s, p) = Err(s)
      \/ del_tree(s, p) = del_one(s, k)
      \/ del_tree(s, p) = Ok(Drop(s, K))
  BY DEF del_tree
<1>3. Keeps(s, del_one(s, k).store)
  <2> HIDE DEF k
  <2>1. resolve_parent(s, k) # MetaMembers
    BY DEF k
  <2> QED BY <1>1, <2>1, DelKeeps
<1>4. Keeps(s, Drop(s, K))
  <2>1. \A x \in K : ~ is_reserved(x)
    OBVIOUS
  <2> HIDE DEF K
  <2>2. Changed(s, Drop(s, K)) \subseteq K
    BY ChangedDrop
  <2> QED BY <2>1, <2>2 DEF Keeps
<1> QED BY <1>2, <1>3, <1>4, ChangedNone DEF Keeps, Ok, Err

LEMMA MembersDir == is_dir(MetaMembers) /\ MetaMembers # Root
BY MetaIs, PlainSep, SepsDiffer DEF MetaMembers

LEMMA CopyKeeps ==
  ASSUME NEW s, Fine(s), NEW src, Regular(src), NEW order, Lists(order, copy_keys(s, src)),
         NEW from, from = tree_base(s, src), NEW to, to = Root \/ Plain(to), ~ is_reserved(to),
         NEW deep \in BOOLEAN, deep => from # Root
  PROVE  Keeps(s, copy_each(del_tree(s, to).store, order, from, to, deep))
<1> DEFINE V == {t \in Contents : /\ Fine(t) /\ Keeps(s, t)
                                  /\ to = Root => \A x \in DOMAIN t : is_reserved(x)}
           c == del_tree(s, to).store
<1>1. c \in V
  <2>1. Regular(to)
    BY RootIs DEF Plain
  <2>2. resolve_parent(s, resolve_parent(s, to)) # MetaMembers
    <3> DEFINE k == resolve_parent(s, to)
    <3>1. Regular(k) /\ (is_dir(k) <=> is_dir(to)) /\ (k = Root <=> to = Root)
      BY <2>1, ParentRegular
    <3> HIDE DEF k
    <3> DEFINE j == resolve_parent(s, k)
    <3>2. (is_dir(j) <=> is_dir(k)) /\ (j = Root <=> k = Root)
      BY <3>1, ParentRegular
    <3> HIDE DEF j
    <3>3. j # MetaMembers
      BY <3>1, <3>2, MembersDir, PlainLong
    <3> QED BY <3>3 DEF j, k
  <2>3. Keeps(s, c)
    BY <2>1, <2>2, DelTreeKeeps
  <2> QED BY <2>3, DelTreeFine, RootEmptied DEF Fine
<1>2. from = Root \/ Plain(from)
  BY TreeBase
<1>3. ASSUME NEW t \in V, NEW i \in 1 .. Len(order)
      PROVE  copy_one(t, order[i], from, to, deep) \in V
  <2> DEFINE k == order[i]
             rest == drop(k, Len(from))
             next == copy_one(t, k, from, to, deep)
  <2>1. k \in copy_keys(s, src)
    BY DEF Lists
  <2>2. Regular(k) /\ ~ is_reserved(k) /\ is_subtree_key(from, k)
    BY <2>1, CopyKeys
  <2>3. \/ next = t
        \/ /\ next = Put(t, to \o rest, t[k]) /\ Fine(next)
           /\ Plain(to) /\ Regular(to \o rest) /\ is_subtree_key(to, to \o rest)
    <3>1. Fine(t) /\ (to = Root => k \notin DOMAIN t)
      BY <2>2
    <3> HIDE DEF k, V
    <3>2. Turn(t, k, from, to, deep)
      BY <1>2, <2>2, <3>1, CopyStep
    <3> QED BY <3>2 DEF Turn
  <2>4. CASE next # t
    <3> DEFINE w == to \o rest
    <3>1. next = Put(t, w, t[k]) /\ Fine(next) /\ to # Root
      BY <2>3, <2>4, RootNotPlain
    <3>2. ~ is_reserved(w)
      <4>1. Plain(to) /\ w \in Words /\ is_subtree_key(to, w)
        BY <2>3, <2>4, RegularIs
      <4> HIDE DEF w
      <4> QED BY <4>1, BelowNotReserved
    <3> HIDE DEF w
    <3>3. Changed(s, next) \subseteq Changed(s, t) \cup {w}
      BY <3>1 DEF Changed, Put, Lookup
    <3>4. Keeps(s, next)
      BY <3>2, <3>3 DEF Keeps
    <3> QED BY <3>1, <3>4 DEF Fine
  <2> QED BY <2>4
<1>4. Len(order) \in Nat
  BY DEF Lists
<1> HIDE DEF V, c
<1>5. PICK f : Copies(f, V, c, order, from, to, deep)
  BY <1>1, <1>3, <1>4, CopiesExist
<1>6. copy_each(c, order, from, to, deep) \in V
  BY <1>4, <1>5 DEF Copies
<1> QED BY <1>6 DEF V, c

LEMMA CopiesKeep ==
  ASSUME NEW s, Fine(s), NEW src, Regular(src), NEW dst, Regular(dst), resolve_path(s, dst) # MetaMembers,
         NEW order, Lists(order, copy_keys(s, src))
  PROVE  Keeps(s, cp_tree(s, src, dst, order).store) /\ Keeps(s, cp_list(s, src, dst, order).store)
<1> DEFINE from == tree_base(s, src)
           to == tree_base(s, dst)
<1>1. (to = Root \/ Plain(to)) /\ (from = Root \/ Plain(from))
  BY TreeBase
<1>2. Keeps(s, s)
  BY ChangedNone DEF Keeps
<1>3. CASE is_reserved(resolve_path(s, dst))
  BY <1>2, <1>3 DEF cp_tree, cp_list, Err
<1>4. CASE ~ is_reserved(resolve_path(s, dst))
  <2>1. ~ is_reserved(to)
    <3> DEFINE k == resolve_path(s, dst)
    <3>1. Regular(k) /\ ~ is_reserved(k) /\ k # MetaMembers
      BY <1>4, ResolvePath
    <3> HIDE DEF k
    <3>2. ~ is_reserved(strip_dir_suf(k))
      BY <3>1, StripNotReserved
    <3> QED BY <3>2, RootNotReserved DEF tree_base, k
  <2>2. Keeps(s, copy_each(del_tree(s, to).store, order, from, to, FALSE))
    <3>1. from = tree_base(s, src)
      OBVIOUS
    <3> HIDE DEF from, to
    <3> QED BY <1>1, <2>1, <3>1, CopyKeeps
  <2>3. ASSUME from # to, ~ is_descendant(from, to)
        PROVE  Keeps(s, copy_each(del_tree(s, to).store, order, from, to, TRUE))
    <3>1. from = tree_base(s, src)
      OBVIOUS
    <3> HIDE DEF from, to
    <3>2. from # Root
      <4> SUFFICES ASSUME from = Root PROVE FALSE
        OBVIOUS
      <4>1. to # Root /\ starts_with(to, Root)
        BY <1>1, <2>3, UnderRoot DEF Plain
      <4> QED BY <2>3, <4>1 DEF is_descendant
    <3> QED BY <1>1, <2>1, <3>1, <3>2, CopyKeeps
  <2> HIDE DEF from, to
  <2>4. Keeps(s, copy_tree(s, from, to, order).store)
    BY <1>2, <2>3 DEF copy_tree, Ok, Err
  <2>5. Keeps(s, copy_list(s, from, to, order).store)
    BY <1>2, <2>2 DEF copy_list, Ok, Err
  <2> QED BY <1>2, <2>4, <2>5 DEF cp_tree, cp_list, Err, from, to
<1> QED BY <1>3, <1>4

\* A part write changes the key a read finds, and nothing else.
LEMMA PartKeeps ==
  ASSUME NEW s, NEW k, NEW off, NEW buf,
         join_path(resolve_path(s, parent_dir(k)), sep_path(k).last) \in DOMAIN s
  PROVE  Keeps(s, set_part(s, k, off, buf).store)
<1> DEFINE full == join_path(resolve_path(s, parent_dir(k)), sep_path(k).last)
           l == locate(s, k)
<1>1. l = <<>> \/ (l = full /\ ~ is_reserved(full))
  BY DEF locate, locate_in
<1> HIDE DEF l, full
<1>2. set_part(s, k, off, buf) = overwrite(s, l, off, buf)
  BY DEF set_part, l
<1>3. CASE l = <<>>
  <2>1. overwrite(s, l, off, buf) = Err(s)
    BY <1>3 DEF overwrite
  <2> QED BY <1>2, <2>1, ChangedNone DEF Keeps, Err
<1>4. CASE l # <<>>
  <2>1. overwrite(s, l, off, buf) = Err(s) \/ \E b : overwrite(s, l, off, buf) = Ok([s EXCEPT ![l].body = b])
    BY <1>4 DEF overwrite
  <2>2. ASSUME NEW b PROVE Changed(s, [s EXCEPT ![l].body = b]) \subseteq {l}
    <3> DEFINE t == [s EXCEPT ![l].body = b]
    <3>1. DOMAIN t = DOMAIN s /\ \A x \in DOMAIN s : x # l => t[x] = s[x]
      OBVIOUS
    <3> HIDE DEF t
    <3>2. Changed(s, t) \subseteq {l}
      BY <3>1 DEF Changed, Lookup
    <3> QED BY <3>2 DEF t
  <2> QED BY <1>1, <1>2, <1>4, <2>1, <2>2, ChangedNone, SMTT(30) DEF Keeps, Ok, Err
<1> QED BY <1>3, <1>4

LEMMA ReservedUntouchedHolds == Fine(store) => ReservedUntouched
<1> SUFFICES ASSUME Fine(store), NEW k \in Paths, MetaMembers \notin Leads(k),
                    NEW r \in WholeKeyOps(k) \cup CopyOps(k) \cup (IF Own(k) THEN PartOps(k) ELSE {})
             PROVE  Keeps(store, r.store)
  BY DEF ReservedUntouched, Keeps
<1> DEFINE kk == resolve_parent(store, k)
<1>1. Regular(k)
  BY PathsAssumption
<1>2. kk # MetaMembers /\ resolve_parent(store, kk) # MetaMembers /\ resolve_path(store, k) # MetaMembers
  BY DEF Leads
<1>3. CASE r \in SetOps(k)
  <2>1. \A v : Keeps(store, set(store, k, v).store)
    <3> TAKE v
    <3>1. CASE set(store, k, v).ok
      BY <3>1, ChangedBySet DEF Keeps
    <3>2. CASE ~ set(store, k, v).ok
      BY <3>2, ChangedBySet, ChangedNone DEF Keeps
    <3> QED BY <3>1, <3>2
  <2>2. r = Err(store) \/ \E v : r = set(store, k, v)
    BY <1>3, ChangedByCp DEF SetOps
  <2> QED BY <2>1, <2>2, ChangedNone DEF Keeps, Err
<1>4. CASE r = del(store, <<k>>)
  BY <1>1, <1>2, <1>4, DelSingle, DelKeeps
<1>5. CASE r = del_tree(store, k)
  BY <1>1, <1>2, <1>5, DelTreeKeeps
<1>6. CASE r \in CopyOps(k)
  <2>1. PICK src \in Trees : \/ r = cp_tree(store, src, k, CopyOrder(src))
                             \/ r = cp_list(store, src, k, CopyOrder(src))
    BY <1>6 DEF CopyOps
  <2>2. Regular(src)
    BY PathsAssumption
  <2>3. Lists(CopyOrder(src), copy_keys(store, src))
    BY CopyKeys, SetLists DEF CopyOrder
  <2> QED BY <1>1, <1>2, <2>1, <2>2, <2>3, CopiesKeep
<1>7. CASE Own(k) /\ r \in PartOps(k)
  <2>1. PICK off, buf : r = set_part(store, k, off, buf)
    BY <1>7 DEF PartOps
  <2>2. join_path(resolve_path(store, parent_dir(k)), sep_path(k).last) \in DOMAIN store
    BY <1>7 DEF Own
  <2> QED BY <2>1, <2>2, PartKeeps
<1> QED BY <1>3, <1>4, <1>5, <1>6, <1>7 DEF WholeKeyOps

\* No whole-key call, copy or part write of backend.rs changes a key of the
\* reserved area: its is_reserved guards, before and after link resolution,
\* suffice whatever chains and cycles of links the tree holds.
THEOREM ReservedStaysUntouched == Spec => []ReservedUntouched
BY ReservedUntouchedHolds, AlwaysFine, PTL

-----------------------------------------------------------------------------
\* Copies between separate trees.

LEMMA ShorterFirst ==
  ASSUME NEW a, Plain(a), NEW b, Plain(b), Len(a) <= Len(b), NEW x \in Words,
         is_subtree_key(a, x), is_subtree_key(b, x)
  PROVE  is_subtree_key(a, b)
<1>1. a \in Words /\ b \in Words /\ Len(a) \in Nat /\ Len(b) \in Nat /\ Len(x) \in Nat
  BY PlainLong, LenIs
<1>2. x = a \/ /\ Len(x) > Len(a) /\ x[Len(a) + 1] \in Separators
               /\ \A i \in 1 .. Len(a) : x[i] = a[i]
  BY <1>1, SubtreeIs, AtIs
<1>3. x = b \/ (Len(x) > Len(b) /\ \A i \in 1 .. Len(b) : x[i] = b[i])
  BY <1>1, SubtreeIs, AtIs
<1> DEFINE n == Len(a)
           m == Len(b)
<1>4. /\ \A i \in 1 .. n : x[i] = a[i]
      /\ \A i \in 1 .. m : x[i] = b[i]
      /\ Len(x) > n => x[n + 1] \in Separators
      /\ Len(x) >= m
  BY <1>1, <1>2, <1>3
<1>5. n \in Nat /\ m \in Nat /\ n <= m /\ Len(x) \in Nat
  BY <1>1
<1> HIDE DEF n, m
<1>6. \A i \in 1 .. n : b[i] = a[i]
  <2>1. \A i \in 1 .. n : i \in 1 .. m
    BY <1>5
  <2> QED BY <1>4, <2>1
<1>7. CASE n = m
  <2>1. b = a
    BY <1>1, <1>6, <1>7, SameWord DEF n, m
  <2> QED BY <1>1, <2>1, SubtreeIs
<1>8. CASE n < m
  <2>1. n + 1 \in 1 .. m /\ Len(x) > n
    BY <1>4, <1>5, <1>8
  <2>2. b[n + 1] \in Separators
    BY <1>4, <2>1
  <2>3. At(b, a, Separators)
    BY <1>1, <1>6, <1>8, <2>2, AtIs DEF n, m
  <2> QED BY <1>1, <2>3, SubtreeIs
<1> QED BY <1>5, <1>7, <1>8

\* Separate trees have no key in common.
LEMMA NoneInBoth ==
  ASSUME NEW a, Plain(a), NEW b, Plain(b), Disjoint(a, b), NEW x \in Words
  PROVE  ~ (is_subtree_key(a, x) /\ is_subtree_key(b, x))
<1>1. Len(a) \in Nat /\ Len(b) \in Nat
  BY PlainLong
<1>2. Len(a) <= Len(b) \/ Len(b) <= Len(a)
  BY <1>1
<1> QED BY <1>2, ShorterFirst DEF Disjoint

LEMMA SeparatePlain ==
  ASSUME NEW a, a = Root \/ Plain(a), NEW b, b = Root \/ Plain(b), Disjoint(a, b)
  PROVE  Plain(a) /\ Plain(b) /\ a # b
<1>1. Regular(a) /\ Regular(b)
  BY RootIs, PlainLong
<1>2. a # Root /\ b # Root
  BY <1>1, UnderRoot DEF Disjoint
<1>3. a # b
  BY <1>2, PlainLong, SubtreeIs DEF Disjoint
<1> QED BY <1>2, <1>3

\* What is below from lies below to under another name, each key under its own.
LEMMA NamesDiffer ==
  ASSUME NEW from, Plain(from), NEW to, Plain(to),
         NEW j, Regular(j), is_subtree_key(from, j), NEW k, Regular(k), is_subtree_key(from, k),
         to \o drop(j, Len(from)) = to \o drop(k, Len(from))
  PROVE  j = k
<1> DEFINE q == drop(j, Len(from))
           r == drop(k, Len(from))
<1>1. ASSUME NEW x, Regular(x), is_subtree_key(from, x), NEW d, d = drop(x, Len(from))
      PROVE  drop(to \o d, Len(to)) = d /\ x = from \o d
  <2>1. drop(to \o d, Len(to)) = d
    BY ONLY <1>1, Plain(from), Plain(to), Moved
  <2>2. x = from \o d
    BY ONLY <1>1, Plain(from), Suffix
  <2> QED BY <2>1, <2>2
<1>2. drop(to \o q, Len(to)) = q /\ j = from \o q /\ drop(to \o r, Len(to)) = r /\ k = from \o r
  BY <1>1
<1>3. to \o q = to \o r
  OBVIOUS
<1> HIDE DEF q, r
<1> QED BY <1>1, <1>2, <1>3

\* t is c with the keys P of s, which lie below from, put below to.
Copied(t, s, c, P, from, to) ==
  /\ DOMAIN t = DOMAIN c \cup {to \o drop(k, Len(from)) : k \in P}
  /\ \A x \in DOMAIN c : t[x] = s[x]
  /\ \A k \in P : t[to \o drop(k, Len(from))] = s[k]

LEMMA CopiedOne ==
  ASSUME NEW s, Fine(s), NEW from, Plain(from), NEW to, Plain(to), Disjoint(from, to),
         NEW c, c = Drop(s, scan_keys(s, to)), NEW P \in SUBSET scan_keys(s, from),
         NEW t, Copied(t, s, c, P, from, to), NEW k \in scan_keys(s, from)
  PROVE  Copied(Put(t, to \o drop(k, Len(from)), t[k]), s, c, P \cup {k}, from, to)
<1> DEFINE g(x) == to \o drop(x, Len(from))
           w == g(k)
           n == Put(t, w, t[k])
<1>1. \A x \in scan_keys(s, from) : x \in DOMAIN s /\ Regular(x) /\ is_subtree_key(from, x) /\ x \in Words
  BY FineIs DEF scan_keys
<1>2. DOMAIN c = DOMAIN s \ scan_keys(s, to)
  BY DEF Drop
<1>3. k \in DOMAIN c
  <2>1. ~ is_subtree_key(to, k)
    BY <1>1, NoneInBoth
  <2> QED BY <1>1, <1>2, <2>1 DEF scan_keys
<1>4. w \notin DOMAIN c
  <2>1. is_subtree_key(to, w)
    BY <1>1, Moved
  <2> HIDE DEF w
  <2> QED BY <1>2, <2>1 DEF scan_keys
<1>5. \A x \in P : g(x) = w => x = k
  BY <1>1, NamesDiffer
<1>6. /\ DOMAIN t = DOMAIN c \cup {g(x) : x \in P}
      /\ \A x \in DOMAIN c : t[x] = s[x]
      /\ \A x \in P : t[g(x)] = s[x]
  BY DEF Copied
<1>7. w = g(k)
  OBVIOUS
<1> HIDE DEF w, g
<1>8. DOMAIN n = DOMAIN t \cup {w} /\ n[w] = s[k] /\ \A x \in DOMAIN t : x # w => n[x] = t[x]
  BY <1>3, <1>6 DEF Put
<1> HIDE DEF n
<1>9. DOMAIN n = DOMAIN c \cup {g(x) : x \in P \cup {k}}
  BY <1>6, <1>7, <1>8
<1>10. \A x \in DOMAIN c : n[x] = s[x]
  BY <1>4, <1>6, <1>8
<1>11. \A x \in P \cup {k} : n[g(x)] = s[x]
  BY <1>5, <1>6, <1>7, <1>8
<1>12. Copied(n, s, c, P \cup {k}, from, to)
  BY <1>9, <1>10, <1>11 DEF Copied, g
<1> QED BY <1>12 DEF n, w, g

\* The copy loop, over any order in which the store scans the source.
LEMMA CopyExact ==
  ASSUME NEW s, Fine(s), NEW from, Plain(from), NEW to, Plain(to), Disjoint(from, to),
         NEW c, c = Drop(s, scan_keys(s, to)), NEW order, Lists(order, scan_keys(s, from)),
         NEW deep \in BOOLEAN
  PROVE  Copied(copy_each(c, order, from, to, deep), s, c,
                {k \in scan_keys(s, from) : deep \/ one_level(drop(k, Len(from)))}, from, to)
<1> DEFINE K == scan_keys(s, from)
           m == Len(order)
           picked(k) == deep \/ one_level(drop(k, Len(from)))
           P(i) == {k \in K : picked(k) /\ \E j \in 1 .. i : order[j] = k}
           V == {t \in Contents : Fine(t)}
<1>1. \A k \in K : k \in DOMAIN s /\ Regular(k) /\ is_subtree_key(from, k) /\ k \in Words
  BY FineIs DEF scan_keys
<1>2. Fine(c) /\ c \in V
  BY FineDrop DEF Fine
<1>3. m \in Nat /\ \A i \in 1 .. m : order[i] \in K
  BY DEF Lists
<1>4. from # Root /\ to # Root
  BY PlainLong
<1>5. ASSUME NEW t, Fine(t), NEW k \in K PROVE Turn(t, k, from, to, deep)
  BY <1>1, <1>4, <1>5, CopyStep
<1>6. ASSUME NEW t \in V, NEW i \in 1 .. m
      PROVE  copy_one(t, order[i], from, to, deep) \in V
  <2>1. Turn(t, order[i], from, to, deep)
    BY <1>3, <1>5
  <2>2. Fine(copy_one(t, order[i], from, to, deep))
    BY <2>1 DEF Turn
  <2> QED BY <2>2 DEF Fine
<1>7. PICK f : Copies(f, V, c, order, from, to, deep)
  <2> HIDE DEF V
  <2> QED BY <1>2, <1>3, <1>6, CopiesExist
<1>8. /\ \A i \in 0 .. m : Fine(f[i])
      /\ f[0] = c /\ \A i \in 1 .. m : f[i] = copy_one(f[i - 1], order[i], from, to, deep)
      /\ copy_each(c, order, from, to, deep) = f[m]
  BY <1>7 DEF Copies
<1> HIDE DEF V
<1> DEFINE S == {i \in Nat : i <= m => Copied(f[i], s, c, P(i), from, to)}
<1>9. 0 \in S
  <2>1. P(0) = {}
    OBVIOUS
  <2>2. \A x \in DOMAIN c : c[x] = s[x]
    BY DEF Drop
  <2>3. Copied(c, s, c, {}, from, to)
    BY <2>2 DEF Copied
  <2> HIDE DEF P
  <2> QED BY <1>3, <1>8, <2>1, <2>3
<1>10. ASSUME NEW i \in Nat, i \in S PROVE i + 1 \in S
  <2> SUFFICES ASSUME i + 1 <= m PROVE Copied(f[i + 1], s, c, P(i + 1), from, to)
    OBVIOUS
  <2> DEFINE k == order[i + 1]
             t == f[i]
  <2>1. i + 1 \in 1 .. m /\ (i + 1) - 1 = i /\ i \in 0 .. m /\ i <= m
    BY <1>3
  <2>2. k \in K /\ Fine(t) /\ f[i + 1] = copy_one(t, k, from, to, deep) /\ Copied(t, s, c, P(i), from, to)
    BY <1>3, <1>8, <1>10, <2>1
  <2>3. P(i) \in SUBSET K
    OBVIOUS
  <2>4. P(i + 1) = IF picked(k) THEN P(i) \cup {k} ELSE P(i)
    <3>1. 1 .. i + 1 = 1 .. i \cup {i + 1}
      OBVIOUS
    <3>2. \A x : (\E j \in 1 .. i + 1 : order[j] = x) <=> (\E j \in 1 .. i : order[j] = x) \/ x = k
      BY <3>1
    <3> HIDE DEF picked, k
    <3> QED BY <2>2, <3>2
  <2> HIDE DEF P, k, t, K
  <2>5. CASE picked(k)
    <3>1. k \in DOMAIN t
      <4>1. k \in DOMAIN c
        <5>1. ~ is_subtree_key(to, k)
          BY <1>1, <2>2, NoneInBoth
        <5> QED BY <1>1, <2>2, <5>1 DEF Drop, scan_keys
      <4> QED BY <2>2, <4>1 DEF Copied
    <3>2. f[i + 1] = Put(t, to \o drop(k, Len(from)), t[k])
      BY <2>2, <2>5, <3>1 DEF copy_one
    <3>3. Copied(Put(t, to \o drop(k, Len(from)), t[k]), s, c, P(i) \cup {k}, from, to)
      BY <2>2, <2>3, CopiedOne DEF K
    <3> QED BY <2>4, <2>5, <3>2, <3>3
  <2>6. CASE ~ picked(k)
    <3>1. f[i + 1] = t
      BY <2>2, <2>6 DEF copy_one
    <3> QED BY <2>2, <2>4, <2>6, <3>1
  <2> QED BY <2>5, <2>6
<1>11. Nat \subseteq S
  <2> HIDE DEF S
  <2> QED BY <1>9, <1>10, SetInduction
<1>12. P(m) = {k \in K : picked(k)}
  <2>1. \A k \in K : \E j \in 1 .. m : order[j] = k
    BY DEF Lists
  <2> HIDE DEF picked, K, m
  <2> QED BY <2>1
<1>13. Copied(f[m], s, c, P(m), from, to)
  <2> HIDE DEF P
  <2> QED BY <1>3, <1>11
<1> HIDE DEF P
<1> QED BY <1>8, <1>12, <1>13

\* The deletion that precedes a copy, when the destination is a place of its own.
LEMMA DestinationCleared ==
  ASSUME NEW s, Fine(s), NEW to, Plain(to), ~ is_reserved(to), resolve_parent(s, to) = to, ~ is_ptr(s, to)
  PROVE  del_tree(s, to).store = Drop(s, scan_keys(s, to))
<1>1. subtree_base(to) = to
  BY PlainLong DEF subtree_base, strip_dir_suf
<1>2. {x \in scan_keys(s, to) : ~ is_reserved(x)} = scan_keys(s, to)
  BY FineIs, BelowNotReserved DEF scan_keys
<1> QED BY <1>1, <1>2 DEF del_tree, Ok

\* Apart, of any contents.
Separate(s, from, to) ==
  /\ Disjoint(from, to) /\ ~ is_reserved(from) /\ ~ is_reserved(to)
  /\ resolve_parent(s, to) = to /\ ~ is_ptr(s, to)

LEMMA CopyBetween ==
  ASSUME NEW s, Fine(s), NEW src, NEW order, Lists(order, copy_keys(s, src)),
         NEW from, from = tree_base(s, src), Plain(from), NEW to, Plain(to), Separate(s, from, to),
         NEW deep \in BOOLEAN
  PROVE  Copied(copy_each(del_tree(s, to).store, order, from, to, deep), s, Drop(s, scan_keys(s, to)),
                {k \in scan_keys(s, from) : deep \/ one_level(drop(k, Len(from)))}, from, to)
<1>1. del_tree(s, to).store = Drop(s, scan_keys(s, to))
  BY DestinationCleared DEF Separate
<1>2. copy_keys(s, src) = scan_keys(s, from)
  BY FineIs, BelowNotReserved DEF copy_keys, scan_keys, Separate
<1>3. Lists(order, scan_keys(s, from))
  BY <1>2
<1> QED BY <1>1, <1>3, CopyExact DEF Separate

LEMMA SeparateBases ==
  ASSUME NEW s, Fine(s), NEW src, Regular(src), NEW dst, Regular(dst),
         Separate(s, tree_base(s, src), tree_base(s, dst))
  PROVE  Plain(tree_base(s, src)) /\ Plain(tree_base(s, dst)) /\ tree_base(s, src) # tree_base(s, dst)
<1> DEFINE a == tree_base(s, src)
           b == tree_base(s, dst)
<1>1. (a = Root \/ Plain(a)) /\ (b = Root \/ Plain(b)) /\ Disjoint(a, b)
  BY TreeBase DEF Separate
<1> HIDE DEF a, b
<1>2. Plain(a) /\ Plain(b) /\ a # b
  BY <1>1, SeparatePlain
<1> QED BY <1>2 DEF a, b

TreeCopied(s, from, to, t) ==
  /\ Changed(s, t) \subseteq Subtree(s, to) \cup Subtree(t, to)
  /\ Subtree(t, to) = {to \o drop(k, Len(from)) : k \in Subtree(s, from)}
  /\ \A k \in Subtree(s, from) : t[to \o drop(k, Len(from))] = s[k]

LEMMA CpTreeAt ==
  ASSUME NEW s, Fine(s), NEW src, Regular(src), NEW dst, Regular(dst),
         NEW order, Lists(order, copy_keys(s, src)),
         Separate(s, tree_base(s, src), tree_base(s, dst)), cp_tree(s, src, dst, order).ok
  PROVE  TreeCopied(s, tree_base(s, src), tree_base(s, dst), cp_tree(s, src, dst, order).store)
<1> DEFINE from == tree_base(s, src)
           to == tree_base(s, dst)
           t == cp_tree(s, src, dst, order).store
<1>0. Plain(from) /\ Plain(to) /\ from # to
  BY SeparateBases
<1>1. t = copy_each(del_tree(s, to).store, order, from, to, TRUE)
  BY <1>0 DEF cp_tree, copy_tree, Ok, Err
<1>2. from = tree_base(s, src) /\ Separate(s, from, to)
  OBVIOUS
<1> HIDE DEF from, to, t
<1> DEFINE K == scan_keys(s, from)
           c == Drop(s, scan_keys(s, to))
           g(k) == to \o drop(k, Len(from))
<1>3. Copied(t, s, c, K, from, to)
  <2>1. {k \in K : TRUE \/ one_level(drop(k, Len(from)))} = K
    OBVIOUS
  <2>2. TRUE \in BOOLEAN
    OBVIOUS
  <2>3. Copied(t, s, c, {k \in K : TRUE \/ one_level(drop(k, Len(from)))}, from, to)
    BY <1>0, <1>1, <1>2, <2>2, CopyBetween
  <2> QED BY <2>1, <2>3
<1>4. \A k \in K : is_subtree_key(to, g(k))
  BY <1>0, FineIs, Moved DEF scan_keys
<1>5. /\ DOMAIN t = DOMAIN c \cup {g(k) : k \in K}
      /\ \A x \in DOMAIN c : t[x] = s[x]
      /\ \A k \in K : t[g(k)] = s[k]
  BY <1>3 DEF Copied
<1>6. DOMAIN c = {x \in DOMAIN s : ~ is_subtree_key(to, x)} /\ \A x \in DOMAIN c : c[x] = s[x]
  BY DEF Drop, scan_keys
<1> HIDE DEF c, g, K
<1>7. scan_keys(t, to) = {g(k) : k \in K}
  BY <1>4, <1>5, <1>6 DEF scan_keys
<1>8. Changed(s, t) \subseteq scan_keys(s, to) \cup scan_keys(t, to)
  BY <1>5, <1>6, <1>7 DEF Changed, Lookup, scan_keys
<1>9. TreeCopied(s, from, to, t)
  BY <1>5, <1>7, <1>8 DEF TreeCopied, Subtree, g, K
<1> QED BY <1>9 DEF from, to, t

LEMMA CpTreeExactHolds == Fine(store) => CpTreeExact
<1> SUFFICES ASSUME Fine(store), NEW src \in Trees, NEW dst \in Trees,
                    cp_tree(store, src, dst, CopyOrder(src)).ok,
                    Apart(tree_base(store, src), tree_base(store, dst))
             PROVE  TreeCopied(store, tree_base(store, src), tree_base(store, dst),
                               cp_tree(store, src, dst, CopyOrder(src)).store)
  BY DEF CpTreeExact, TreeCopied
<1>1. Regular(src) /\ Regular(dst) /\ Lists(CopyOrder(src), copy_keys(store, src))
  BY PathsAssumption, CopyKeys, SetLists DEF CopyOrder
<1>2. Separate(store, tree_base(store, src), tree_base(store, dst))
  BY DEF Apart, Separate
<1> QED BY <1>1, <1>2, CpTreeAt

\* Between separate trees cp_tree leaves at the destination exactly the source
\* subtree, whatever was there before, and changes nothing else.
THEOREM CpTreeIsExact == Spec => []CpTreeExact
BY CpTreeExactHolds, AlwaysFine, PTL

\* One level down: a member of the key itself, and no further separator of members.
LEMMA OneLevelIs ==
  ASSUME NEW w \in Words, one_level(w)
  PROVE  /\ w # <<>> => w[1] = OBJ_SEP
         /\ \A i \in 1 .. Len(w) : w[i] = OBJ_SEP => i = 1
<1> SUFFICES ASSUME w # <<>> PROVE w[1] = OBJ_SEP /\ \A i \in 1 .. Len(w) : w[i] = OBJ_SEP => i = 1
  <2>1. w = <<>> => 1 .. Len(w) = {}
    BY DEF Words
  <2> QED BY <2>1
<1> DEFINE n == Len(w)
           member == IF ends_with(w, PATH_SEP) THEN Tail(Front(w)) ELSE Tail(w)
<1>1. w[1] = OBJ_SEP /\ ~ Contains(member, OBJ_SEP)
  BY DEF one_level
<1>2. n \in Nat /\ n >= 1
  BY LenIs
<1>3. ASSUME NEW i \in 1 .. n, w[i] = OBJ_SEP, i # 1 PROVE FALSE
  <2>1. i \in Nat /\ i >= 2 /\ i <= n /\ i - 1 \in Nat /\ i - 1 >= 1
    BY <1>2, <1>3
  <2>2. CASE ends_with(w, PATH_SEP)
    <3>1. w[n] = PATH_SEP /\ i # n
      BY <1>3, <2>2, SepsDiffer DEF ends_with, Last
    <3> DEFINE v == Front(w)
    <3>2. v \in Words /\ Len(v) = n - 1 /\ \A j \in 1 .. n - 1 : v[j] = w[j]
      <4>1. n - 1 \in 0 .. Len(w)
        BY <1>2
      <4> QED BY <4>1, CutIs DEF Front
    <3> HIDE DEF v
    <3>3. v \in Seq(Letters) /\ v # <<>> /\ i \in 1 .. n - 1 /\ i - 1 \in 1 .. (n - 1) - 1
      BY <1>2, <2>1, <3>1, <3>2, LenIs DEF Words
    <3>4. Len(Tail(v)) = Len(v) - 1 /\ Tail(v)[i - 1] = v[i]
      BY <3>2, <3>3
    <3>5. member = Tail(v)
      BY <2>2 DEF v
    <3> QED BY <1>1, <1>3, <3>2, <3>3, <3>4, <3>5 DEF Contains
  <2>3. CASE ~ ends_with(w, PATH_SEP)
    <3>1. member = Tail(w)
      BY <2>3
    <3>2. w \in Seq(Letters) /\ i - 1 \in 1 .. n - 1
      BY <1>2, <2>1 DEF Words
    <3>3. Len(Tail(w)) = n - 1 /\ Tail(w)[i - 1] = w[i]
      BY <2>1, <3>2
    <3> QED BY <1>1, <1>3, <3>1, <3>2, <3>3 DEF Contains
  <2> QED BY <2>2, <2>3
<1> QED BY <1>1, <1>3

ListCopied(s, from, to, t) ==
  \A k \in Subtree(t, to) :
    LET suffix == drop(k, Len(to))
    IN /\ from \o suffix \in DOMAIN s /\ s[from \o suffix] = t[k]
       /\ Cardinality({i \in DOMAIN suffix : suffix[i] = OBJ_SEP}) <= 1
       /\ suffix # <<>> => suffix[1] = OBJ_SEP

LEMMA CpListAt ==
  ASSUME NEW s, Fine(s), NEW src, Regular(src), NEW dst, Regular(dst),
         NEW order, Lists(order, copy_keys(s, src)),
         Separate(s, tree_base(s, src), tree_base(s, dst)), cp_list(s, src, dst, order).ok
  PROVE  ListCopied(s, tree_base(s, src), tree_base(s, dst), cp_list(s, src, dst, order).store)
<1> DEFINE from == tree_base(s, src)
           to == tree_base(s, dst)
           t == cp_list(s, src, dst, order).store
<1>0. Plain(from) /\ Plain(to) /\ from # to
  BY SeparateBases
<1>1. t = copy_each(del_tree(s, to).store, order, from, to, FALSE)
  BY <1>0 DEF cp_list, copy_list, Ok, Err
<1>2. from = tree_base(s, src) /\ Separate(s, from, to)
  OBVIOUS
<1> HIDE DEF from, to, t
<1> SUFFICES ASSUME NEW k \in Subtree(t, to), NEW suffix, suffix = drop(k, Len(to))
             PROVE  /\ from \o suffix \in DOMAIN s /\ s[from \o suffix] = t[k]
                    /\ Cardinality({i \in DOMAIN suffix : suffix[i] = OBJ_SEP}) <= 1
                    /\ suffix # <<>> => suffix[1] = OBJ_SEP
  BY Zenon DEF ListCopied, from, to, t
<1> DEFINE P == {q \in scan_keys(s, from) : one_level(drop(q, Len(from)))}
           c == Drop(s, scan_keys(s, to))
<1>3. Copied(t, s, c, P, from, to)
  <2>1. {q \in scan_keys(s, from) : FALSE \/ one_level(drop(q, Len(from)))} = P
    OBVIOUS
  <2>2. FALSE \in BOOLEAN
    OBVIOUS
  <2>3. Copied(t, s, c, {q \in scan_keys(s, from) : FALSE \/ one_level(drop(q, Len(from)))}, from, to)
    BY <1>0, <1>1, <1>2, <2>2, CopyBetween
  <2> QED BY <2>1, <2>3
<1>4. PICK q \in P : k = to \o drop(q, Len(from)) /\ t[k] = s[q]
  <2>1. k \in DOMAIN t /\ is_subtree_key(to, k)
    BY DEF Subtree, scan_keys
  <2>2. k \notin DOMAIN c
    BY <2>1 DEF Drop, scan_keys
  <2> HIDE DEF P, c
  <2>3. /\ DOMAIN t = DOMAIN c \cup {to \o drop(q, Len(from)) : q \in P}
        /\ \A q \in P : t[to \o drop(q, Len(from))] = s[q]
    BY <1>3 DEF Copied
  <2>4. PICK q \in P : k = to \o drop(q, Len(from))
    BY <2>1, <2>2, <2>3
  <2> QED BY <2>3, <2>4
<1>5. q \in DOMAIN s /\ Regular(q) /\ is_subtree_key(from, q)
  BY FineIs DEF scan_keys
<1> DEFINE d == drop(q, Len(from))
<1>6. one_level(d)
  OBVIOUS
<1>7. d = drop(q, Len(from)) /\ k = to \o d
  BY <1>4
<1> HIDE DEF P, c, d
<1>8. drop(to \o d, Len(to)) = d
  BY <1>0, <1>5, <1>7, Moved
<1>9. q = from \o d /\ d \in Words
  BY <1>0, <1>5, <1>7, Suffix, ChainIs
<1>10. suffix = d
  BY <1>7, <1>8
<1>11. (d # <<>> => d[1] = OBJ_SEP) /\ \A i \in 1 .. Len(d) : d[i] = OBJ_SEP => i = 1
  BY <1>6, <1>9, OneLevelIs
<1>12. Cardinality({i \in DOMAIN d : d[i] = OBJ_SEP}) <= 1
  <2> DEFINE T == {i \in DOMAIN d : d[i] = OBJ_SEP}
  <2>1. T \subseteq {1}
    BY <1>9, <1>11 DEF Words
  <2>2. IsFiniteSet({1}) /\ Cardinality({1}) = 1
    BY FS_Singleton
  <2> HIDE DEF T
  <2>3. Cardinality(T) <= Cardinality({1})
    BY <2>1, <2>2, FS_Subset
  <2> QED BY <2>2, <2>3 DEF T
<1>13. suffix # <<>> => suffix[1] = OBJ_SEP
  BY <1>10, <1>11
<1> QED BY <1>4, <1>5, <1>9, <1>10, <1>12, <1>13

LEMMA CpListShallowHolds == Fine(store) => CpListShallow
<1> SUFFICES ASSUME Fine(store), NEW src \in Trees, NEW dst \in Trees,
                    cp_list(store, src, dst, CopyOrder(src)).ok,
                    Apart(tree_base(store, src), tree_base(store, dst))
             PROVE  ListCopied(store, tree_base(store, src), tree_base(store, dst),
                               cp_list(store, src, dst, CopyOrder(src)).store)
  BY DEF CpListShallow, ListCopied
<1>1. Regular(src) /\ Regular(dst) /\ Lists(CopyOrder(src), copy_keys(store, src))
  BY PathsAssumption, CopyKeys, SetLists DEF CopyOrder
<1>2. Separate(store, tree_base(store, src), tree_base(store, dst))
  BY DEF Apart, Separate
<1> QED BY <1>1, <1>2, CpListAt

\* Between separate trees cp_list brings over the value and its direct members,
\* nothing deeper, and the destination keeps nothing of its own.
THEOREM CpListIsShallow == Spec => []CpListShallow
BY CpListShallowHolds, AlwaysFine, PTL

-----------------------------------------------------------------------------
\* What can be read is listed.

LEMMA ReservedBelow ==
  ASSUME NEW d \in Words, is_dir(d), is_reserved(d), NEW w \in Words
  PROVE  is_reserved(d \o w)
<1> DEFINE x == d \o w
<1>1. Len(MetaRoot) = 2 /\ MetaRoot \in Words /\ d # MetaRoot
  BY MetaIs, PlainLong
<1>2. At(d, MetaRoot, {PATH_SEP})
  BY <1>1, ReservedIs
<1>3. Len(d) > 2 /\ d[2 + 1] \in {PATH_SEP} /\ \A i \in 1 .. 2 : d[i] = MetaRoot[i]
  <2>1. /\ Len(d) > Len(MetaRoot) /\ d[Len(MetaRoot) + 1] \in {PATH_SEP}
        /\ \A i \in 1 .. Len(MetaRoot) : d[i] = MetaRoot[i]
    BY <1>1, <1>2, AtIs
  <2> QED BY <1>1, <2>1
<1>4. /\ x \in Words /\ Len(x) = Len(d) + Len(w) /\ Len(d) \in Nat /\ Len(w) \in Nat
      /\ \A i \in 1 .. Len(d) : x[i] = d[i]
  BY ConcatIs, LenIs
<1> HIDE DEF x
<1>5. Len(x) > 2 /\ 2 + 1 \in 1 .. Len(d) /\ \A i \in 1 .. 2 : i \in 1 .. Len(d)
  BY <1>3, <1>4
<1>6. x[2 + 1] \in {PATH_SEP} /\ \A i \in 1 .. 2 : x[i] = MetaRoot[i]
  BY <1>3, <1>4, <1>5
<1>7. At(x, MetaRoot, {PATH_SEP})
  <2>1. /\ Len(x) > Len(MetaRoot) /\ x[Len(MetaRoot) + 1] \in {PATH_SEP}
        /\ \A i \in 1 .. Len(MetaRoot) : x[i] = MetaRoot[i]
    BY <1>1, <1>5, <1>6
  <2> QED BY <1>1, <1>4, <2>1, AtIs
<1> QED BY <1>4, <1>7, ReservedIs DEF x

\* A key put together from a directory and more is scanned below it.
LEMMA ScannedBelow ==
  ASSUME NEW d \in Words, is_dir(d), NEW w \in Words, Regular(d \o w)
  PROVE  starts_with(d \o w, d) /\ is_subtree_key(subtree_base(d), d \o w)
<1> DEFINE x == d \o w
<1>1. /\ x \in Words /\ Len(x) = Len(d) + Len(w) /\ Len(d) \in Nat /\ Len(w) \in Nat
      /\ \A i \in 1 .. Len(d) : x[i] = d[i]
  BY ConcatIs, LenIs
<1>2. Regular(x)
  OBVIOUS
<1> HIDE DEF x
<1>3. starts_with(x, d)
  BY <1>1, PrefixIs
<1>4. starts_with(x, Root)
  BY <1>2, UnderRoot
<1>5. d = Root => is_subtree_key(subtree_base(d), x)
  BY <1>4 DEF subtree_base, is_subtree_key
<1>6. ASSUME d # Root PROVE is_subtree_key(subtree_base(d), x)
  <2> DEFINE b == Front(d)
             n == Len(d)
  <2>1. subtree_base(d) = b /\ d # <<>> /\ d[n] \in DirSeps
    BY <1>6 DEF subtree_base, strip_dir_suf, is_dir, ends_with, Last, DirSeps
  <2>2. n \in Nat /\ n >= 1 /\ n - 1 \in 0 .. Len(d)
    BY <1>1, <2>1, LenIs
  <2>3. b \in Words /\ Len(b) = n - 1 /\ \A i \in 1 .. n - 1 : b[i] = d[i]
    BY <2>2, CutIs DEF Front
  <2> HIDE DEF b
  <2>4. At(x, b, Separators)
    <3>1. Len(b) + 1 = n /\ n \in 1 .. Len(d) /\ (\A i \in 1 .. Len(b) : i \in 1 .. n - 1 /\ i \in 1 .. Len(d)) /\ Len(x) > Len(b)
      BY <1>1, <2>2, <2>3
    <3>2. x[Len(b) + 1] \in Separators /\ \A i \in 1 .. Len(b) : x[i] = b[i]
      BY <1>1, <2>1, <2>3, <3>1, SepsDiffer
    <3> QED BY <1>1, <2>3, <3>1, <3>2, AtIs
  <2> QED BY <1>4, <2>1, <2>4 DEF is_subtree_key
<1> QED BY <1>3, <1>5, <1>6 DEF x

Shown(last) ==
  SubSeq(last, 1, Min({i \in DOMAIN last : last[i] = OBJ_SEP} \cup {Len(last) + 1}) - 1)

LEMMA ShownIs ==
  ASSUME NEW last, Name(last)
  PROVE  Shown(last) # <<>>
<1>1. last \in Words /\ Len(last) \in Nat /\ Len(last) >= 1 /\ last[1] # OBJ_SEP
  BY LenIs, ChainIs, SepsDiffer DEF Name
<1> DEFINE T == {i \in DOMAIN last : last[i] = OBJ_SEP} \cup {Len(last) + 1}
           m == Min(T)
<1>2. DOMAIN last = 1 .. Len(last)
  BY <1>1 DEF Words
<1>3. T \subseteq Nat /\ T # {} /\ \A i \in T : i >= 2 /\ i <= Len(last) + 1
  BY <1>1, <1>2
<1> HIDE DEF T
<1>4. m \in T
  BY <1>3, MinIs
<1>5. m \in Nat /\ m >= 2 /\ m <= Len(last) + 1
  BY <1>3, <1>4
<1>6. Shown(last) = SubSeq(last, 1, m - 1)
  BY DEF Shown, T
<1> HIDE DEF m
<1> DEFINE n == m - 1
<1>7. n \in 0 .. Len(last) /\ n # 0 /\ Shown(last) = SubSeq(last, 1, n)
  BY <1>1, <1>5, <1>6
<1> HIDE DEF n
<1>8. Len(Shown(last)) = n /\ Shown(last) \in Words
  BY <1>1, <1>7, CutIs
<1> QED BY <1>7, <1>8, LenIs

\* Below d the key d followed by last, last without '/', is listed by its first name.
LEMMA ListedIn ==
  ASSUME NEW s, NEW d \in Words, is_dir(d), NEW last, Name(last),
         \A j \in 1 .. Len(last) : last[j] # PATH_SEP,
         d \o last \in DOMAIN s, Regular(d \o last),
         NEW name, name = Shown(last), ~ Contains(name, RUNTIME_MEMBER_SEP),
         ~ (d = Root /\ name = Tail(MetaRoot))
  PROVE  name \in read_dir_index(s, d) \/ name \o Root \in read_dir_index(s, d)
<1> DEFINE x == d \o last
           rest(k) == drop(k, Len(d))
           cuts(k) == {i \in DOMAIN rest(k) : rest(k)[i] \in {PATH_SEP, OBJ_SEP}}
           called(k) == SubSeq(rest(k), 1, Min(cuts(k) \cup {Len(rest(k)) + 1}) - 1)
           names == {called(k) : k \in {y \in scan_keys(s, subtree_base(d)) : starts_with(y, d)}}
           shown == {n \in names : /\ n # <<>>
                                   /\ ~ (d = Root /\ n = Tail(MetaRoot))
                                   /\ ~ Contains(n, RUNTIME_MEMBER_SEP)}
<1>1. last \in Words /\ Len(last) \in Nat /\ Len(d) \in Nat
  BY ChainIs, LenIs DEF Name
<1>2. rest(x) = last
  <2>1. /\ x \in Words /\ Len(x) = Len(d) + Len(last) /\ \A i \in 1 .. Len(last) : x[Len(d) + i] = last[i]
    BY <1>1, ConcatIs
  <2>2. Len(d) \in 0 .. Len(x) /\ Len(x) - Len(d) = Len(last)
    BY <1>1, <2>1
  <2> DEFINE r == rest(x)
  <2> HIDE DEF x
  <2>3. r \in Words /\ Len(r) = Len(last) /\ \A i \in 1 .. Len(last) : r[i] = x[Len(d) + i]
    <3>1. /\ r \in Words /\ Len(r) = Len(x) - Len(d)
          /\ \A i \in 1 .. Len(x) - Len(d) : r[i] = x[Len(d) + i]
      BY ONLY <2>1, <2>2, DropIs DEF r, rest
    <3> QED BY ONLY <2>2, <3>1
  <2> HIDE DEF r
  <2>4. r = last
    BY <1>1, <2>1, <2>3, SameWord
  <2> QED BY <2>4 DEF r
<1>3. DOMAIN last = 1 .. Len(last)
  BY <1>1 DEF Words
<1>4. cuts(x) = {i \in DOMAIN last : last[i] = OBJ_SEP}
  <2> HIDE DEF x
  <2> QED BY <1>2, <1>3
<1>5. called(x) = name
  <2> HIDE DEF x, rest, cuts
  <2> QED BY <1>2, <1>4 DEF Shown
<1>6. x \in scan_keys(s, subtree_base(d)) /\ starts_with(x, d)
  BY <1>1, ScannedBelow DEF scan_keys
<1>7. name \in names
  <2> HIDE DEF x, called
  <2> QED BY <1>5, <1>6
<1>8. name # <<>>
  BY ShownIs
<1>9. name \in shown
  <2> HIDE DEF names
  <2> QED BY <1>7, <1>8
<1>10. read_dir_index(s, d) = {IF d \o n \o Root \in DOMAIN s THEN n \o Root ELSE n : n \in shown}
  BY Zenon DEF read_dir_index
<1> HIDE DEF shown
<1>11. (IF d \o name \o Root \in DOMAIN s THEN name \o Root ELSE name) \in read_dir_index(s, d)
  BY <1>9, <1>10
<1> QED BY <1>11

\* A key that a read finds is in its directory's listing.
Seen(s, k) ==
  LET name == Shown(sep_path(k).last)
  IN name \in list(s, parent_dir(k), TRUE, TRUE) \/ name \o Root \in list(s, parent_dir(k), TRUE, TRUE)

LEMMA FoundIsListed ==
  ASSUME NEW s, Fine(s), NEW k, Plain(k), get_raw(s, k) # Absent,
         NEW dir, dir = resolve_path(s, parent_dir(k)),
         NEW ext, ext = prefix_ext(s, dir), ext = <<>> \/ is_dir(ext),
         NEW name, name = Shown(sep_path(k).last), ~ Contains(name, RUNTIME_MEMBER_SEP),
         ~ (name = Tail(MetaRoot) /\ Root \in {dir, ext})
  PROVE  Seen(s, k)
<1> DEFINE last == sep_path(k).last
           pd == parent_dir(k)
           full == join_path(dir, last)
           l == locate_in(s, k, dir)
<1>1. Regular(k) /\ k # Root /\ k \in Words /\ k[Len(k)] # PATH_SEP
  BY RegularIs, RootNotPlain, SepsDiffer DEF Plain
<1>2. /\ Name(last) /\ (\A j \in 1 .. Len(last) : last[j] # PATH_SEP) /\ k = pd \o last
      /\ Regular(pd) /\ pd[Len(pd)] = PATH_SEP
  BY <1>1, Split
<1>3. last \in Words
  BY <1>2, ChainIs DEF Name
<1>4. pd \in Words /\ is_dir(pd)
  BY <1>2, RegularIs, DirIs, SepsDiffer
<1>5. Regular(dir) /\ is_dir(dir) /\ dir \in Words
  BY <1>2, <1>4, ResolvePath, RegularIs
<1>6. l \in DOMAIN s
  BY ReadGiven DEF locate
<1>7. l # <<>>
  BY <1>6, EmptyNotStored
<1>8. /\ ~ is_reserved(k) /\ ~ is_reserved(full)
      /\ \/ full \in DOMAIN s
         \/ ext # <<>> /\ join_path(ext, last) \in DOMAIN s
  BY <1>7 DEF locate_in
<1>9. full = dir \o last
  BY <1>3, <1>5, JoinAny
<1> HIDE DEF last, pd, full, l
<1>10. ~ is_reserved(dir) /\ ~ is_reserved(pd)
  BY <1>2, <1>3, <1>4, <1>5, <1>8, <1>9, ReservedBelow
<1>11. list(s, pd, TRUE, TRUE) = read_dir_index(s, dir) \cup
          (IF ext # <<>> THEN read_dir_index(s, ext) ELSE {})
  BY <1>5, <1>10 DEF list, list_in, pd
<1>12. name = Shown(last)
  BY DEF last
<1>13. ASSUME full \in DOMAIN s
       PROVE  name \in read_dir_index(s, dir) \/ name \o Root \in read_dir_index(s, dir)
  <2>1. dir \o last \in DOMAIN s /\ Regular(dir \o last) /\ ~ (dir = Root /\ name = Tail(MetaRoot))
    BY <1>9, <1>13, FineIs
  <2> QED BY <1>2, <1>5, <1>12, <2>1, ListedIn
<1>14. ASSUME ext # <<>>, join_path(ext, last) \in DOMAIN s
       PROVE  name \in read_dir_index(s, ext) \/ name \o Root \in read_dir_index(s, ext)
  <2>1. is_dir(ext) /\ ext \in Words
    <3>1. dir \in DOMAIN s /\ ext = s[dir].body
      BY <1>14 DEF prefix_ext, Lookup, Absent
    <3>2. s[dir] \in XValue
      BY <3>1, FineIs
    <3> QED BY <1>14, <3>1, <3>2 DEF XValue, Words
  <2>2. join_path(ext, last) = ext \o last
    BY <1>3, <2>1, JoinAny
  <2>3. ext \o last \in DOMAIN s /\ Regular(ext \o last) /\ ~ (ext = Root /\ name = Tail(MetaRoot))
    BY <1>14, <2>2, FineIs
  <2> QED BY <1>2, <1>12, <2>1, <2>3, ListedIn
<1> QED BY <1>8, <1>11, <1>13, <1>14 DEF Seen, last, pd

LEMMA ListCompleteHolds == Fine(store) => ListComplete
<1> SUFFICES ASSUME Fine(store), NEW k \in Keys
             PROVE  LET dir == resolve_path(store, parent_dir(k))
                        ext == prefix_ext(store, dir)
                        name == Shown(sep_path(k).last)
                    IN /\ get_raw(store, k) # Absent
                       /\ ext = <<>> \/ is_dir(ext)
                       /\ ~ Contains(name, RUNTIME_MEMBER_SEP)
                       /\ ~ (name = Tail(MetaRoot) /\ Root \in {dir, ext})
                       => {name, name \o Root} \cap list(store, parent_dir(k), TRUE, TRUE) # {}
  BY Zenon DEF ListComplete, Shown
<1> DEFINE dir == resolve_path(store, parent_dir(k))
           ext == prefix_ext(store, dir)
           name == Shown(sep_path(k).last)
<1>1. Plain(k)
  BY PathsAssumption, PlainIs DEF Paths
<1>2. dir = resolve_path(store, parent_dir(k)) /\ ext = prefix_ext(store, dir) /\ name = Shown(sep_path(k).last)
  OBVIOUS
<1> HIDE DEF dir, ext, name
<1>3. /\ get_raw(store, k) # Absent
      /\ ext = <<>> \/ is_dir(ext)
      /\ ~ Contains(name, RUNTIME_MEMBER_SEP)
      /\ ~ (name = Tail(MetaRoot) /\ Root \in {dir, ext})
      => Seen(store, k)
  BY <1>1, <1>2, FoundIsListed
<1>4. Seen(store, k) => {name, name \o Root} \cap list(store, parent_dir(k), TRUE, TRUE) # {}
  BY <1>2 DEF Seen
<1> QED BY <1>3, <1>4, Zenon DEF dir, ext, name

\* What get_raw finds below a directory, directly or through its extension, list
\* shows there: read_dir_index cuts every key to the name of its first step.
THEOREM ListsComplete == Spec => []ListComplete
BY ListCompleteHolds, AlwaysFine, PTL
=============================================================================
