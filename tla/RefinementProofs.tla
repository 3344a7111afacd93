-------------------------- MODULE RefinementProofs --------------------------
(***************************************************************************)
(* The store behind a handle, redis or S3, implements KVStore.             *)
(*                                                                         *)
(* An answer is honest because its call has seen, at some moment since its *)
(* invocation, the contents it tells of.  That is what RedisKnows and      *)
(* S3Knows say about every request under way: what has been read, listed   *)
(* or deleted so far was true of contents in since[c], and the request is  *)
(* one the call may make.  With it each step of either store is a step of  *)
(* the contract.                                                           *)
(***************************************************************************)
EXTENDS ConnProofs

-----------------------------------------------------------------------------
\* The contract and the stores behind it.

\* The operators of the instantiated contract are those of StoreCalls.
LEMMA ContractEffect ==
  ASSUME NEW e, NEW s
  PROVE  Contract!Effect(e, s) = Effect(e, s)
<1>1. \A k : Contract!Value(s, k) = Value(s, k)
  BY DEF Contract!Value, Value, Contract!Missing, Missing
<1>2. \A k, v : Contract!With(s, k, v) = With(s, k, v)
  BY DEF Contract!With, With
<1>3. \A v, off, buf : Contract!patch(v, off, buf) = patch(v, off, buf)
  BY DEF Contract!patch, patch, Contract!Max, Max
<1>4. \A ks : Contract!Without(s, ks) = Without(s, ks)
  BY DEF Contract!Without, Without
<1>5. Contract!Nothing = Nothing
  BY DEF Contract!Nothing, Nothing, Contract!Missing, Missing
<1> QED BY <1>1, <1>2, <1>3, <1>4, <1>5 DEF Contract!Effect, Effect, Contract!ToSet, ToSet

LEMMA ContractEffects ==
  ASSUME NEW q, NEW seen
  PROVE  Contract!Effects(q, seen) = Effects(q, seen)
<1>1. \A s, k : Contract!Value(s, k) = Value(s, k)
  BY DEF Contract!Value, Value, Contract!Missing, Missing
<1>2. \A v, off, buf : Contract!patch(v, off, buf) = patch(v, off, buf)
  BY DEF Contract!patch, patch, Contract!Max, Max
<1>3. \A k, v : Contract!SetOf(k, v) = SetOf(k, v)
  BY DEF Contract!SetOf, SetOf, Contract!NoCall, NoCall
<1>4. \A k : Contract!DelOf(k) = DelOf(k)
  BY DEF Contract!DelOf, DelOf, Contract!NoCall, NoCall
<1>5. \A v, p : Contract!in_bounds(v, p) <=> in_bounds(v, p)
  BY DEF Contract!in_bounds, in_bounds, Contract!Missing, Missing
<1> QED BY <1>1, <1>2, <1>3, <1>4, <1>5, Zenon DEF Contract!Effects, Effects, Contract!ToSet, ToSet

LEMMA ContractHonest ==
  ASSUME NEW q, NEW ans, NEW seen
  PROVE  Contract!Honest(q, ans, seen) <=> Honest(q, ans, seen)
<1>1. \A s, k : Contract!Value(s, k) = Value(s, k)
  BY DEF Contract!Value, Value, Contract!Missing, Missing
<1>2. \A v, off, len : Contract!slice(v, off, len) = slice(v, off, len)
  BY DEF Contract!slice, slice, Contract!Min, Min
<1>3. \A k, x : Contract!is_subtree_key(k, x) <=> is_subtree_key(k, x)
  BY DEF Contract!is_subtree_key, is_subtree_key, Contract!At, At, Contract!starts_with, starts_with,
         Contract!IsPrefix, IsPrefix, Contract!Root, Root, Contract!Separators, Separators,
         Contract!PATH_SEP, PATH_SEP, Contract!OBJ_SEP, OBJ_SEP, Contract!RUNTIME_MEMBER_SEP, RUNTIME_MEMBER_SEP
<1>4. \A v, p : Contract!in_bounds(v, p) <=> in_bounds(v, p)
  BY DEF Contract!in_bounds, in_bounds, Contract!Missing, Missing
<1>5. Contract!Yes = Yes /\ Contract!No = No /\ Contract!Refused = Refused
  BY DEF Contract!Yes, Yes, Contract!No, No, Contract!Refused, Refused
<1> QED BY <1>1, <1>2, <1>3, <1>4, <1>5, Zenon DEF Contract!Honest, Honest, Contract!ToSet, ToSet

\* The requests left behind, as the contract sees them.
Behind == IF scheme = "s3" THEN S3Pending ELSE RedisPending

\* The steps of the contract, in terms of the store behind the handles.
LEMMA MapsInit ==
  ASSUME ClientsInit, Behind = {}
  PROVE  Contract!Init
BY DEF Contract!Init, Behind, Contract!ClientsInit, ClientsInit, Contract!NoCall, NoCall,
       Contract!NoAnswer, NoAnswer

LEMMA MapsInvoke ==
  ASSUME NEW c \in Clients, NEW q \in NextCalls(c), Invoked(c, q, Shown), UNCHANGED <<Shown, Behind>>
  PROVE  Contract!Next
<1>1. q \in Contract!NextCalls(c)
  BY DEF Contract!NextCalls, NextCalls
<1>2. Contract!Invoked(c, q, Shown)
  BY DEF Contract!Invoked, Invoked, Contract!NoCall, NoCall, Contract!NoAnswer, NoAnswer
<1>3. Contract!Invoke(c)
  BY <1>1, <1>2 DEF Contract!Invoke, Shown, Behind
<1> QED BY <1>3 DEF Contract!Next

LEMMA MapsApply ==
  ASSUME NEW e, e \in Behind \/ \E c \in Clients : e \in Effects(call[c], since[c]),
         Shown' = Effect(e, Shown), Behind' \in {Behind, Behind \ {e}}, Seen(Shown')
  PROVE  Contract!Next
<1>1. e \in Behind \cup UNION {Contract!Effects(call[c], since[c]) : c \in Clients}
  BY ContractEffects
<1>2. Shown' = Contract!Effect(e, Shown)
  BY ContractEffect
<1>3. Contract!Seen(Shown')
  BY DEF Contract!Seen, Seen, Contract!NoCall, NoCall, Contract!NoAnswer, NoAnswer
<1>4. Contract!Apply
  BY <1>1, <1>2, <1>3 DEF Contract!Apply, Shown, Behind
<1> QED BY <1>4 DEF Contract!Next

LEMMA MapsDetach ==
  ASSUME NEW c \in Clients, NEW e \in Effects(call[c], since[c]), Behind' = Behind \cup {e}, Unseen,
         UNCHANGED Shown
  PROVE  Contract!Next
<1>1. e \in Contract!Effects(call[c], since[c])
  BY ContractEffects
<1>2. Contract!Unseen
  BY DEF Contract!Unseen, Unseen, Contract!NoAnswer, NoAnswer
<1>3. Contract!Detach(c)
  BY <1>1, <1>2 DEF Contract!Detach, Shown, Behind
<1> QED BY <1>3 DEF Contract!Next

LEMMA MapsInternal ==
  ASSUME Unseen, UNCHANGED <<Shown, Behind>>
  PROVE  Contract!Next
BY DEF Contract!Next, Contract!Internal, Contract!Unseen, Unseen, Contract!NoAnswer, NoAnswer, Shown, Behind

LEMMA MapsReturn ==
  ASSUME NEW c \in Clients, call[c] # NoCall, NEW a, Ended(c, Answered(a)), Honest(call[c], a, since[c]),
         UNCHANGED <<Shown, Behind>>
  PROVE  Contract!Next
<1>1. answer' = [ok |-> TRUE, ans |-> a]
  BY DEF Ended, Answered
<1>2. Contract!Honest(call[c], answer'.ans, since[c])
  BY <1>1, ContractHonest
<1>3. Contract!Ended(c, answer')
  BY <1>1 DEF Contract!Ended, Ended, Contract!NoCall, NoCall
<1>4. Contract!Return(c)
  BY <1>2, <1>3 DEF Contract!Return, Contract!NoCall, NoCall, Shown, Behind
<1> QED BY <1>4 DEF Contract!Next

\* A call fails, with or without a request left behind.
LEMMA MapsFail ==
  ASSUME NEW c \in Clients, call[c] # NoCall, Ended(c, PANIC), UNCHANGED Shown,
         Behind' = Behind \/ \E e \in Effects(call[c], since[c]) : Behind' = Behind \cup {e}
  PROVE  Contract!Next
<1>1. answer' = [ok |-> FALSE, ans |-> <<>>]
  BY DEF Ended, PANIC
<1>2. Contract!Ended(c, answer')
  BY <1>1 DEF Contract!Ended, Ended, Contract!NoCall, NoCall
<1>3. Behind' = Behind \/ \E e \in Contract!Effects(call[c], since[c]) : Behind' = Behind \cup {e}
  BY ContractEffects
<1>4. Contract!Return(c)
  BY <1>1, <1>2, <1>3 DEF Contract!Return, Contract!NoCall, NoCall, Shown, Behind
<1> QED BY <1>4 DEF Contract!Next

-----------------------------------------------------------------------------
\* The bulk strings of a reply.

Piece(t) == t.kind = "data" \/ (t.kind = "$" /\ t.n < 0)

\* g is, after each token of got, the bulk strings so far.
Gathers(g, got) ==
  /\ g \in [0 .. Len(got) -> Seq(Word)] /\ g[0] = <<>>
  /\ \A i \in 1 .. Len(got) : g[i] = IF Piece(got[i]) THEN Append(g[i - 1], got[i].val) ELSE g[i - 1]

Vals(ts) == [j \in DOMAIN ts |-> ts[j].val]

LEMMA ValsAppend ==
  ASSUME NEW ts \in Seq(Token), NEW t \in Token
  PROVE  Vals(ts) \in Seq(Word) /\ Vals(Append(ts, t)) = Append(Vals(ts), t.val)
<1>1. \A u \in Token : u.val \in Word
  BY DEF Token
<1>2. Vals(ts) \in Seq(Word) /\ Len(Vals(ts)) = Len(ts) /\ \A i \in 1 .. Len(ts) : Vals(ts)[i] = ts[i].val
  BY <1>1 DEF Vals
<1> DEFINE a == Append(ts, t)
           x == Vals(a)
           y == Append(Vals(ts), t.val)
<1>3. a \in Seq(Token) /\ Len(a) = Len(ts) + 1 /\ a[Len(ts) + 1] = t /\ \A i \in 1 .. Len(ts) : a[i] = ts[i]
  OBVIOUS
<1> HIDE DEF a
<1>4. x \in Seq(Word) /\ Len(x) = Len(ts) + 1 /\ \A i \in 1 .. Len(ts) + 1 : x[i] = a[i].val
  BY <1>1, <1>3 DEF Vals
<1>5. /\ y \in Seq(Word) /\ Len(y) = Len(ts) + 1 /\ y[Len(ts) + 1] = t.val
      /\ \A i \in 1 .. Len(ts) : y[i] = ts[i].val
  <2> DEFINE w == Vals(ts)
  <2>1. w \in Seq(Word) /\ Len(w) = Len(ts) /\ (\A i \in 1 .. Len(ts) : w[i] = ts[i].val) /\ t.val \in Word
    BY <1>1, <1>2
  <2> HIDE DEF w
  <2>2. Append(w, t.val) = y
    BY DEF w
  <2> HIDE DEF y
  <2> QED BY <2>1, <2>2, AppendProperties
<1> HIDE DEF x, y
<1>6. \A i \in 1 .. Len(x) : x[i] = y[i]
  <2> SUFFICES ASSUME NEW i \in 1 .. Len(x) PROVE x[i] = y[i]
    OBVIOUS
  <2>1. CASE i = Len(ts) + 1
    BY <1>3, <1>4, <1>5, <2>1
  <2>2. CASE i # Len(ts) + 1
    <3>1. i \in 1 .. Len(ts)
      BY <1>4, <2>2
    <3> QED BY <1>3, <1>4, <1>5, <3>1
  <2> QED BY <2>1, <2>2
<1>7. x = y
  BY <1>4, <1>5, <1>6, SeqEqual
<1> QED BY <1>2, <1>7 DEF x, y, a

LEMMA BulksGathers ==
  ASSUME NEW got \in Seq(Token)
  PROVE  \E g : Gathers(g, got) /\ Bulks(got) = g[Len(got)]
<1> DEFINE P == {t \in ToSet(got) : t.kind = "data" \/ (t.kind = "$" /\ t.n < 0)}
           n == Len(got)
<1>1. PICK f \in [0 .. n -> Seq(Token)] :
        /\ f[0] = <<>> /\ Filter(got, P) = f[n]
        /\ \A i \in 1 .. n : f[i] = IF got[i] \in P THEN Append(f[i - 1], got[i]) ELSE f[i - 1]
  <2> HIDE DEF P
  <2>1. PICK f : Filters(f, Token, got, P)
    BY FilterDef
  <2> QED BY <2>1 DEF Filters
<1>2. n \in Nat /\ \A i \in 1 .. n : got[i] \in Token /\ (got[i] \in P <=> Piece(got[i]))
  BY DEF ToSet, Piece
<1> HIDE DEF P
<1> DEFINE g == [i \in 0 .. n |-> Vals(f[i])]
<1>3. ASSUME NEW i \in 0 .. n PROVE g[i] = Vals(f[i]) /\ g[i] \in Seq(Word) /\ f[i] \in Seq(Token)
  <2>1. \A u \in Token : u.val \in Word
    BY DEF Token
  <2>2. f[i] \in Seq(Token)
    OBVIOUS
  <2> QED BY <2>1, <2>2 DEF Vals
<1>4. g[0] = <<>>
  BY <1>1, <1>2 DEF Vals
<1>5. ASSUME NEW i \in 1 .. n PROVE g[i] = IF Piece(got[i]) THEN Append(g[i - 1], got[i].val) ELSE g[i - 1]
  <2>1. i \in 0 .. n /\ i - 1 \in 0 .. n
    BY <1>2
  <2>2. f[i - 1] \in Seq(Token) /\ g[i - 1] = Vals(f[i - 1]) /\ g[i] = Vals(f[i])
    BY <1>3, <2>1
  <2>3. CASE Piece(got[i])
    <3>1. f[i] = Append(f[i - 1], got[i]) /\ got[i] \in Token
      BY <1>1, <1>2, <2>3
    <3>2. Vals(Append(f[i - 1], got[i])) = Append(Vals(f[i - 1]), got[i].val)
      BY <2>2, <3>1, ValsAppend
    <3> HIDE DEF g
    <3> QED BY <2>2, <2>3, <3>1, <3>2
  <2>4. CASE ~ Piece(got[i])
    BY <1>1, <1>2, <2>2, <2>4
  <2> HIDE DEF g
  <2> QED BY <2>3, <2>4
<1>6. Bulks(got) = Vals(Filter(got, P))
  BY DEF Bulks, Vals, P
<1>7. Bulks(got) = g[n]
  BY <1>1, <1>2, <1>3, <1>6
<1>8. g \in [0 .. n -> Seq(Word)]
  BY <1>3
<1> HIDE DEF g
<1> QED BY <1>4, <1>5, <1>7, <1>8 DEF Gathers

LEMMA GathersOnce ==
  ASSUME NEW got \in Seq(Token), NEW g, NEW h, Gathers(g, got), NEW m \in 0 .. Len(got),
         h \in [0 .. m -> Seq(Word)], h[0] = <<>>,
         \A i \in 1 .. m : h[i] = IF Piece(got[i]) THEN Append(h[i - 1], got[i].val) ELSE h[i - 1]
  PROVE  g[m] = h[m]
<1> DEFINE S == {k \in Nat : k <= m => g[k] = h[k]}
<1>1. 0 \in S
  BY DEF Gathers
<1>2. ASSUME NEW k \in Nat, k \in S PROVE k + 1 \in S
  <2> SUFFICES ASSUME k + 1 <= m PROVE g[k + 1] = h[k + 1]
    OBVIOUS
  <2>1. k + 1 \in 1 .. m /\ k + 1 \in 1 .. Len(got) /\ (k + 1) - 1 = k /\ g[k] = h[k]
    BY <1>2
  <2> QED BY <2>1 DEF Gathers
<1>3. Nat \subseteq S
  <2> HIDE DEF S
  <2> QED BY <1>1, <1>2, SetInduction
<1>4. m \in S
  BY <1>3
<1> QED BY <1>4

LEMMA BulksAre ==
  ASSUME NEW got \in Seq(Token), NEW g, Gathers(g, got)
  PROVE  Bulks(got) = g[Len(got)] /\ Bulks(got) \in Seq(Word)
<1>1. PICK h : Gathers(h, got) /\ Bulks(got) = h[Len(got)]
  BY BulksGathers
<1> DEFINE n == Len(got)
<1>2. n \in 0 .. Len(got)
  OBVIOUS
<1>3. /\ h \in [0 .. n -> Seq(Word)] /\ h[0] = <<>>
      /\ \A i \in 1 .. n : h[i] = IF Piece(got[i]) THEN Append(h[i - 1], got[i].val) ELSE h[i - 1]
  BY <1>1 DEF Gathers
<1> HIDE DEF n
<1>4. g[n] = h[n]
  BY <1>2, <1>3, GathersOnce
<1>5. h[n] \in Seq(Word)
  BY <1>2, <1>3
<1> QED BY <1>1, <1>4, <1>5 DEF n

LEMMA BulksEmpty == Bulks(<<>>) = <<>>
<1> DEFINE e == <<>>
           g == [i \in 0 .. 0 |-> <<>>]
<1>1. e \in Seq(Token) /\ Len(e) = 0 /\ g[0] = <<>>
  OBVIOUS
<1>2. Gathers(g, e)
  BY <1>1 DEF Gathers
<1> HIDE DEF e, g
<1>3. Bulks(e) = g[Len(e)]
  BY <1>1, <1>2, BulksAre
<1>4. Bulks(e) = <<>>
  BY <1>1, <1>3
<1> QED BY <1>4 DEF e

LEMMA BulksAppend ==
  ASSUME NEW got \in Seq(Token), NEW t \in Token
  PROVE  Bulks(Append(got, t)) = IF Piece(t) THEN Append(Bulks(got), t.val) ELSE Bulks(got)
<1> DEFINE all == Append(got, t)
           n == Len(got)
<1>1. all \in Seq(Token) /\ Len(all) = n + 1 /\ all[n + 1] = t /\ n \in Nat /\ \A i \in 1 .. n : all[i] = got[i]
  OBVIOUS
<1> HIDE DEF all
<1>2. PICK g : Gathers(g, got) /\ Bulks(got) = g[Len(got)]
  BY BulksGathers
<1>3. PICK h : Gathers(h, all) /\ Bulks(all) = h[Len(all)]
  BY <1>1, BulksGathers
<1> DEFINE r == [i \in 0 .. n |-> h[i]]
<1>4. /\ r \in [0 .. n -> Seq(Word)] /\ r[0] = <<>>
      /\ \A i \in 1 .. n : r[i] = IF Piece(got[i]) THEN Append(r[i - 1], got[i].val) ELSE r[i - 1]
  <2>1. h \in [0 .. n + 1 -> Seq(Word)] /\ h[0] = <<>>
    BY <1>1, <1>3 DEF Gathers
  <2>2. ASSUME NEW i \in 1 .. n PROVE r[i] = IF Piece(got[i]) THEN Append(r[i - 1], got[i].val) ELSE r[i - 1]
    <3>1. i \in 1 .. Len(all) /\ i \in 0 .. n /\ i - 1 \in 0 .. n
      BY <1>1
    <3>2. h[i] = IF Piece(all[i]) THEN Append(h[i - 1], all[i].val) ELSE h[i - 1]
      BY <1>3, <3>1 DEF Gathers
    <3> QED BY <1>1, <3>1, <3>2
  <2>3. r \in [0 .. n -> Seq(Word)]
    BY <1>1, <2>1
  <2>4. r[0] = <<>>
    BY <1>1, <2>1
  <2> HIDE DEF r
  <2> QED BY <2>2, <2>3, <2>4
<1>5. g[n] = r[n]
  <2>1. n \in 0 .. Len(got)
    BY <1>1
  <2> HIDE DEF r, n
  <2> QED BY <1>2, <1>4, <2>1, GathersOnce
<1>6. h[n + 1] = IF Piece(t) THEN Append(h[n], t.val) ELSE h[n]
  BY <1>1, <1>3 DEF Gathers
<1>7. r[n] = h[n]
  BY <1>1
<1> QED BY <1>1, <1>2, <1>3, <1>5, <1>6, <1>7 DEF all

LEMMA BulksNumbered ==
  ASSUME NEW reply \in Seq(Token), NEW b \in Nat
  PROVE  Bulks(Numbered(reply, b)) = Bulks(reply)
<1> DEFINE r == Numbered(reply, b)
<1>1. DOMAIN reply = 1 .. Len(reply) /\ Len(reply) \in Nat /\ \A i \in 1 .. Len(reply) : reply[i] \in Token
  OBVIOUS
<1>2. \A t \in Token : LET u == [t EXCEPT !.by = b]
                       IN u \in Token /\ u.val = t.val /\ (Piece(u) <=> Piece(t))
  BY DEF Token, Piece
<1>3. r \in Seq(Token) /\ Len(r) = Len(reply)
  BY <1>1, <1>2 DEF Numbered
<1>4. \A i \in 1 .. Len(reply) : r[i].val = reply[i].val /\ (Piece(r[i]) <=> Piece(reply[i]))
  BY <1>1, <1>2 DEF Numbered
<1> HIDE DEF r
<1>5. PICK g : Gathers(g, reply) /\ Bulks(reply) = g[Len(reply)]
  BY BulksGathers
<1>6. Gathers(g, r)
  BY <1>1, <1>3, <1>4, <1>5 DEF Gathers
<1> QED BY <1>3, <1>5, <1>6, BulksAre DEF r

LEMMA BulksBulk ==
  ASSUME NEW got \in Seq(Token), NEW v \in Word
  PROVE  Bulks(got \o Bulk(v)) = Append(Bulks(got), v)
<1> DEFINE line(n) == Tok("$", n, <<>>)
           data == Tok("data", 0, v)
<1>1. <<>> \in Word /\ \A n \in Int : line(n) \in Token /\ line(n).val = <<>> /\ (Piece(line(n)) <=> n < 0)
  BY DEF Tok, Token, Word, Piece
<1>2. data \in Token /\ Piece(data) /\ data.val = v
  BY DEF Tok, Token, Piece
<1>3. CASE v = Missing
  <2> DEFINE l == line(-1)
  <2>1. l \in Token /\ Piece(l) /\ l.val = v
    BY <1>1, <1>3 DEF Missing
  <2>2. Bulk(v) = <<l>>
    BY <1>3 DEF Bulk
  <2> HIDE DEF l
  <2>3. got \o Bulk(v) = Append(got, l)
    BY <2>1, <2>2
  <2> QED BY <2>1, <2>3, BulksAppend
<1>4. CASE v # Missing
  <2> DEFINE l == line(Len(v))
  <2>1. Len(v) \in Nat
    BY DEF Word
  <2>2. l \in Token /\ ~ Piece(l)
    BY <1>1, <2>1
  <2>3. Bulk(v) = <<l, data>>
    BY <1>4 DEF Bulk
  <2> HIDE DEF l, data
  <2>4. got \o Bulk(v) = Append(Append(got, l), data) /\ Append(got, l) \in Seq(Token)
    BY <1>2, <2>2, <2>3
  <2>5. Bulks(Append(got, l)) = Bulks(got)
    BY <2>2, BulksAppend
  <2>6. Bulks(Append(Append(got, l), data)) = Append(Bulks(Append(got, l)), v)
    BY <1>2, <2>4, BulksAppend
  <2> QED BY <2>4, <2>5, <2>6
<1> QED BY <1>3, <1>4

LEMMA BulksType ==
  ASSUME NEW got \in Seq(Token)
  PROVE  Bulks(got) \in Seq(Word)
BY BulksGathers, BulksAre

\* The words of v in front of the others, and one more of them.
LEMMA ConcatSubSeq ==
  ASSUME NEW T, NEW a \in Seq(T), NEW v \in Seq(T), NEW j \in Nat, j + 1 <= Len(v)
  PROVE  Append(a \o SubSeq(v, 1, j), v[j + 1]) = a \o SubSeq(v, 1, j + 1)
<1>1. SubSeq(v, 1, j) \in Seq(T) /\ SubSeq(v, 1, j + 1) = Append(SubSeq(v, 1, j), v[j + 1]) /\ v[j + 1] \in T
  OBVIOUS
<1> DEFINE b == SubSeq(v, 1, j)
           x == v[j + 1]
<1> HIDE DEF b, x
<1>2. b \in Seq(T) /\ x \in T
  BY <1>1 DEF b, x
<1>3. Append(a \o b, x) = a \o Append(b, x)
  <2>1. <<x>> \in Seq(T) /\ a \o b \in Seq(T)
    BY <1>2
  <2>2. Append(a \o b, x) = (a \o b) \o <<x>> /\ Append(b, x) = b \o <<x>>
    BY <1>2, <2>1, AppendIsConcat
  <2>3. (a \o b) \o <<x>> = a \o (b \o <<x>>)
    BY <1>2, <2>1, ConcatAssociative, SMTT(30)
  <2> QED BY <2>2, <2>3
<1> QED BY <1>1, <1>3 DEF b, x

LEMMA BulksArray ==
  ASSUME NEW got \in Seq(Token), NEW items, NEW m \in Nat, NEW v \in [1 .. m -> Word],
         items = [i \in 1 .. m |-> Bulk(v[i])]
  PROVE  Bulks(got \o Array(items)) = Bulks(got) \o v
<1> DEFINE line == Tok("*", m, <<>>)
           start == Append(got, line)
           B == Bulks(got)
<1>1. line \in Token /\ ~ Piece(line)
  BY DEF Tok, Token, Word, Piece
<1>2. \A i \in 1 .. m : Bulk(v[i]) \in Seq(Token)
  BY BulkAnswer
<1>3. items \in Seq(Seq(Token)) /\ Len(items) = m
  BY <1>2
<1>4. PICK f \in [0 .. m -> Seq(Token)] :
        /\ f[0] = <<>> /\ FlattenSeq(items) = f[m]
        /\ \A i \in 1 .. m : f[i] = f[i - 1] \o items[i]
  <2>1. PICK f \in [0 .. Len(items) -> Seq(Token)] :
          /\ f[0] = <<>> /\ FlattenSeq(items) = f[Len(items)]
          /\ \A i \in 1 .. Len(items) : f[i] = f[i - 1] \o items[i]
    BY <1>3, Flatten, ZenonT(40)
  <2> QED BY <1>3, <2>1
<1>5. start \in Seq(Token) /\ Bulks(start) = B
  <2> HIDE DEF line
  <2> QED BY <1>1, BulksAppend
<1>6. v \in Seq(Word) /\ Len(v) = m /\ B \in Seq(Word)
  BY BulksType
<1> DEFINE J == {j \in Nat : j <= m => Bulks(start \o f[j]) = B \o SubSeq(v, 1, j)}
<1> HIDE DEF start, B
<1>7. 0 \in J
  <2>1. start \o f[0] = start
    BY <1>4, <1>5, ConcatEmptySeq
  <2>2. B \o SubSeq(v, 1, 0) = B
    BY <1>6
  <2> QED BY <1>5, <2>1, <2>2
<1>8. ASSUME NEW j \in Nat, j \in J PROVE j + 1 \in J
  <2> SUFFICES ASSUME j + 1 <= m PROVE Bulks(start \o f[j + 1]) = B \o SubSeq(v, 1, j + 1)
    OBVIOUS
  <2>1. j \in 0 .. m /\ j + 1 \in 1 .. m /\ (j + 1) - 1 = j /\ j + 1 <= Len(v)
    BY <1>6
  <2>2. Bulks(start \o f[j]) = B \o SubSeq(v, 1, j)
    BY <1>8, <2>1
  <2>3. f[j] \in Seq(Token) /\ v[j + 1] \in Word /\ Bulk(v[j + 1]) \in Seq(Token)
    BY <1>2, <2>1
  <2>4. start \o f[j] \in Seq(Token)
    BY <1>5, <2>3
  <2>5. Bulks((start \o f[j]) \o Bulk(v[j + 1])) = Append(B \o SubSeq(v, 1, j), v[j + 1])
    BY <2>2, <2>3, <2>4, BulksBulk
  <2>6. f[j + 1] = f[j] \o Bulk(v[j + 1])
    BY <1>4, <2>1
  <2>7. (start \o f[j]) \o Bulk(v[j + 1]) = start \o (f[j] \o Bulk(v[j + 1]))
    BY <1>5, <2>3, TokensConcat
  <2>8. Append(B \o SubSeq(v, 1, j), v[j + 1]) = B \o SubSeq(v, 1, j + 1)
    BY <1>6, <2>1, ConcatSubSeq
  <2> QED BY <2>5, <2>6, <2>7, <2>8
<1>9. Nat \subseteq J
  <2> HIDE DEF J
  <2> QED BY <1>7, <1>8, SetInduction
<1>10. f[m] \in Seq(Token) /\ Bulks(start \o f[m]) = B \o v
  <2>1. m \in J /\ m \in 0 .. m
    BY <1>9
  <2>2. SubSeq(v, 1, m) = v
    BY <1>6
  <2>3. Bulks(start \o f[m]) = B \o SubSeq(v, 1, m) /\ f[m] \in Seq(Token)
    BY <2>1
  <2> HIDE DEF J
  <2> QED BY <2>2, <2>3
<1>11. Array(items) = <<line>> \o f[m]
  BY <1>3, <1>4 DEF Array
<1>12. got \o Array(items) = start \o f[m]
  <2> HIDE DEF line
  <2>1. <<line>> \in Seq(Token)
    BY <1>1
  <2>2. start = got \o <<line>>
    BY <1>1, AppendIsConcat DEF start
  <2>3. (got \o <<line>>) \o f[m] = got \o (<<line>> \o f[m])
    BY <1>10, <2>1, ConcatAssociative
  <2> QED BY <1>11, <2>2, <2>3
<1> QED BY <1>10, <1>12 DEF B

\* Filter keeps the elements of s that are in P and nothing else.
LEMMA FilterElements ==
  ASSUME NEW T, NEW s \in Seq(T), NEW P
  PROVE  ToSet(Filter(s, P)) = ToSet(s) \cap P
<1>1. PICK f : Filters(f, T, s, P)
  BY FilterDef
<1> DEFINE n == Len(s)
           S == {k \in Nat : k <= n => ToSet(f[k]) = {s[i] : i \in 1 .. k} \cap P}
<1>2. n \in Nat /\ f \in [0 .. n -> Seq(T)] /\ f[0] = <<>> /\ Filter(s, P) = f[n]
  BY <1>1 DEF Filters
<1>3. 0 \in S
  BY <1>2 DEF ToSet
<1>4. ASSUME NEW k \in Nat, k \in S PROVE k + 1 \in S
  <2> SUFFICES ASSUME k + 1 <= n PROVE ToSet(f[k + 1]) = {s[i] : i \in 1 .. k + 1} \cap P
    OBVIOUS
  <2>1. k + 1 \in 1 .. n /\ k \in 0 .. n /\ (k + 1) - 1 = k /\ ToSet(f[k]) = {s[i] : i \in 1 .. k} \cap P
    BY <1>4
  <2>2. f[k] \in Seq(T) /\ s[k + 1] \in T
    BY <1>2, <2>1
  <2>3. f[k + 1] = IF s[k + 1] \in P THEN Append(f[k], s[k + 1]) ELSE f[k]
    BY <1>1, <2>1 DEF Filters
  <2>4. {s[i] : i \in 1 .. k + 1} = {s[i] : i \in 1 .. k} \cup {s[k + 1]}
    <3>1. 1 .. k + 1 = (1 .. k) \cup {k + 1}
      OBVIOUS
    <3> QED BY <3>1
  <2>5. \A a \in Seq(T), x \in T : ToSet(Append(a, x)) = ToSet(a) \cup {x}
    <3> SUFFICES ASSUME NEW a \in Seq(T), NEW x \in T PROVE ToSet(Append(a, x)) = ToSet(a) \cup {x}
      OBVIOUS
    <3>1. DOMAIN Append(a, x) = (1 .. Len(a)) \cup {Len(a) + 1} /\ Append(a, x)[Len(a) + 1] = x
      OBVIOUS
    <3>2. \A i \in 1 .. Len(a) : Append(a, x)[i] = a[i]
      OBVIOUS
    <3> DEFINE b == Append(a, x)
    <3> HIDE DEF b
    <3>3. /\ DOMAIN b = (1 .. Len(a)) \cup {Len(a) + 1} /\ b[Len(a) + 1] = x /\ DOMAIN a = 1 .. Len(a)
          /\ \A i \in 1 .. Len(a) : b[i] = a[i]
      BY <3>1, <3>2 DEF b
    <3>4. ToSet(b) = ToSet(a) \cup {x}
      BY <3>3 DEF ToSet
    <3> QED BY <3>4 DEF b
  <2> QED BY <2>1, <2>2, <2>3, <2>4, <2>5
<1>5. Nat \subseteq S
  <2> HIDE DEF S
  <2> QED BY <1>3, <1>4, SetInduction
<1>6. ToSet(f[n]) = {s[i] : i \in 1 .. n} \cap P
  <2>1. n \in S
    BY <1>2, <1>5
  <2> QED BY <1>2, <2>1
<1>7. ToSet(s) = {s[i] : i \in 1 .. n}
  BY DEF ToSet
<1> QED BY <1>2, <1>6, <1>7

-----------------------------------------------------------------------------
\* What the tokens w tell a client when they answer command m on contents s.

Covers(m, s, w) ==
  \E upto \in m.off + 1 .. Len(ScanOrder) :
    /\ w[3].n = IF upto = Len(ScanOrder) THEN 0 ELSE upto
    /\ Tail(Bulks(w)) \in Seq(Word)
    /\ ToSet(Tail(Bulks(w))) = {ScanOrder[i] : i \in m.off + 1 .. upto}
                               \cap {k \in DOMAIN s : starts_with(k, scan_pattern(m.keys[1]))}

Says(m, s, w) ==
  /\ w[1].kind # "-"
  /\ m.op = "get" => Bulks(w) = <<Value(s, m.keys[1])>>
  /\ m.op = "get_many" => Bulks(w) = [i \in DOMAIN m.keys |-> Value(s, m.keys[i])]
  /\ m.op = "exists" => w[1].n = IF m.keys[1] \in DOMAIN s THEN 1 ELSE 0
  /\ m.op = "getrange" => Bulks(w) = <<slice(Value(s, m.keys[1]), m.off, m.len)>>
  /\ m.op = "scan" => Covers(m, s, w)

LEMMA NumberedFirst ==
  ASSUME NEW r \in Seq(Token), NEW n \in Nat, NEW i \in 1 .. Len(r)
  PROVE  Numbered(r, n)[i].kind = r[i].kind /\ Numbered(r, n)[i].n = r[i].n
BY DEF Numbered, Token

LEMMA BulksOne ==
  ASSUME NEW v \in Word
  PROVE  Bulks(Bulk(v)) = <<v>>
<1> DEFINE e == <<>>
<1>1. e \in Seq(Token) /\ Bulks(e) = <<>>
  BY BulksEmpty
<1> HIDE DEF e
<1>2. Bulks(e \o Bulk(v)) = Append(<<>>, v)
  BY <1>1, BulksBulk
<1>3. e \o Bulk(v) = Bulk(v)
  BY BulkAnswer, ConcatEmptySeq DEF e
<1> QED BY <1>2, <1>3

LEMMA BulksMany ==
  ASSUME NEW m \in Nat, NEW v \in [1 .. m -> Word]
  PROVE  /\ Bulks(Array([i \in 1 .. m |-> Bulk(v[i])])) = v
         /\ Array([i \in 1 .. m |-> Bulk(v[i])])[1].kind = "*"
         /\ Len(Array([i \in 1 .. m |-> Bulk(v[i])])) >= 1
<1> DEFINE items == [i \in 1 .. m |-> Bulk(v[i])]
           a == Array(items)
           e == <<>>
<1>1. e \in Seq(Token) /\ Bulks(e) = <<>>
  BY BulksEmpty
<1>2. Bulks(e \o a) = <<>> \o v
  <2>1. items = [i \in 1 .. m |-> Bulk(v[i])]
    OBVIOUS
  <2> HIDE DEF e, items
  <2> QED BY <1>1, <2>1, BulksArray
<1>3. a \in Seq(Token)
  BY ArrayAnswer
<1>4. a = <<Tok("*", Len(items), <<>>)>> \o FlattenSeq(items)
  BY DEF Array
<1> HIDE DEF a
<1>5. e \o a = a /\ <<>> \o v = v
  <2>1. v \in Seq(Word)
    OBVIOUS
  <2> QED BY <1>3, <2>1, ConcatEmptySeq
<1>6. a[1].kind = "*" /\ Len(a) >= 1
  <2>1. \A i \in 1 .. m : Bulk(v[i]) \in Seq(Token)
    BY BulkAnswer
  <2>2. items \in Seq(Seq(Token))
    BY <2>1
  <2> DEFINE t == Tok("*", Len(items), <<>>)
             f == FlattenSeq(items)
  <2>3. t \in Token /\ t.kind = "*"
    BY <2>2 DEF Tok, Token, Word
  <2>4. f \in Seq(Token)
    <3>1. PICK g \in [0 .. Len(items) -> Seq(Token)] : FlattenSeq(items) = g[Len(items)]
      BY <2>2, Flatten, ZenonT(40)
    <3>2. Len(items) \in 0 .. Len(items)
      BY <2>2
    <3> QED BY <3>1, <3>2
  <2> HIDE DEF t, f, items
  <2>5. a = <<t>> \o f
    BY <1>4 DEF t, f
  <2>6. (<<t>> \o f)[1] = t /\ Len(<<t>> \o f) = 1 + Len(f) /\ Len(f) \in Nat
    BY <2>3, <2>4
  <2> QED BY <2>3, <2>5, <2>6
<1> QED BY <1>2, <1>5, <1>6 DEF a

LEMMA PageCovers ==
  ASSUME NEW s, NEW m \in CmdType, NEW upto \in m.off + 1 .. Len(ScanOrder),
         NEW r, r = Page(s, m.keys[1], m.off, upto), NEW n \in Nat
  PROVE  Covers(m, s, Numbered(r, n)) /\ Numbered(r, n)[1].kind # "-"
<1> DEFINE p == m.keys[1]
           here == SubSeq(ScanOrder, m.off + 1, upto)
           P == {k \in DOMAIN s : starts_with(k, scan_pattern(p))}
           keys == Filter(here, P)
           items == [i \in DOMAIN keys |-> Bulk(keys[i])]
           a == Tok("*", 2, <<>>)
           b == Tok("$", 1, <<>>)
           c == Tok("data", IF upto = Len(ScanOrder) THEN 0 ELSE upto, <<>>)
           head == <<a, b, c>>
           w == Numbered(r, n)
<1>1. m.off \in Nat /\ upto \in Nat
  BY DEF CmdType
<1>2. \A i \in m.off + 1 .. upto : ScanOrder[i] \in Word
  BY <1>1, ServerAssumption
<1>3. here \in Seq(Word) /\ ToSet(here) = {ScanOrder[i] : i \in m.off + 1 .. upto}
  <2>1. m.off + 1 \in Int /\ upto \in Int
    BY <1>1
  <2> DEFINE o == m.off
  <2>2. o \in Nat
    BY <1>1
  <2> HIDE DEF o
  <2>3. SubSeq(ScanOrder, o + 1, upto) \in Seq(Word) /\ Len(SubSeq(ScanOrder, o + 1, upto)) = upto - o
    BY <1>2, <2>1, <2>2, ServerAssumption DEF o
  <2>4. \A i \in 1 .. upto - o : SubSeq(ScanOrder, o + 1, upto)[i] = ScanOrder[o + i]
    BY <1>1, <2>2, ServerAssumption DEF o
  <2> DEFINE h == SubSeq(ScanOrder, o + 1, upto)
  <2>5. ToSet(h) = {h[i] : i \in 1 .. upto - o}
    <3>1. DOMAIN h = 1 .. upto - o
      BY <2>3
    <3> HIDE DEF h
    <3> QED BY <3>1 DEF ToSet
  <2> HIDE DEF h
  <2>6. {h[i] : i \in 1 .. upto - o} = {ScanOrder[i] : i \in o + 1 .. upto}
    <3>1. \A i \in 1 .. upto - o : o + i \in o + 1 .. upto /\ h[i] = ScanOrder[o + i]
      BY <1>1, <2>2, <2>4 DEF h
    <3>2. ASSUME NEW j \in o + 1 .. upto PROVE \E i \in 1 .. upto - o : h[i] = ScanOrder[j]
      <4>1. PICK i \in 1 .. upto - o : j = o + i
        <5>1. j - o \in 1 .. upto - o /\ j = o + (j - o)
          BY <1>1, <2>2
        <5> QED BY <5>1
      <4> QED BY <3>1, <4>1
    <3> QED BY <3>1, <3>2
  <2> QED BY <2>3, <2>5, <2>6 DEF h, o
<1> HIDE DEF here
<1>4. keys \in Seq(Word) /\ ToSet(keys) = {ScanOrder[i] : i \in m.off + 1 .. upto} \cap P
  <2> HIDE DEF P
  <2>1. keys \in Seq(Word)
    BY <1>3, FilterType
  <2>2. ToSet(keys) = ToSet(here) \cap P
    BY <1>3, FilterElements
  <2> QED BY <1>3, <2>1, <2>2
<1>5. /\ a \in Token /\ b \in Token /\ c \in Token /\ ~ Piece(a) /\ ~ Piece(b) /\ Piece(c)
      /\ c.val = <<>> /\ c.n = (IF upto = Len(ScanOrder) THEN 0 ELSE upto) /\ a.kind = "*"
  BY <1>1 DEF Tok, Token, Word, Piece
<1>6. r = head \o Array(items)
  BY DEF Page, here
<1>7. r \in Seq(Token) /\ Len(r) >= 3
  BY <1>1, PageAnswer
<1> HIDE DEF P, keys, a, b, c
<1>8. head \in Seq(Token) /\ Bulks(head) = <<<<>>>>
  <2> DEFINE e == <<>>
             g == <<a>>
             h == <<a, b>>
  <2>1. e \in Seq(Token) /\ Bulks(e) = <<>> /\ g = Append(e, a) /\ g \in Seq(Token)
    BY <1>5, BulksEmpty
  <2>2. h \in Seq(Token) /\ h = Append(g, b)
    BY <1>5
  <2>3. head \in Seq(Token) /\ head = Append(h, c)
    BY <1>5
  <2> HIDE DEF e, g, h, head
  <2>4. Bulks(g) = <<>>
    BY <1>5, <2>1, BulksAppend
  <2>5. Bulks(h) = <<>>
    BY <1>5, <2>1, <2>2, <2>4, BulksAppend
  <2>6. Bulks(head) = Append(<<>>, <<>>)
    BY <1>5, <2>2, <2>3, <2>5, BulksAppend
  <2> QED BY <2>3, <2>6
<1>9. Len(head) = 3 /\ head[3] = c /\ head[1] = a
  OBVIOUS
<1> HIDE DEF head
<1>10. Bulks(r) = <<<<>>>> \o keys
  <2> DEFINE l == Len(keys)
  <2>1. l \in Nat /\ keys \in [1 .. l -> Word]
    BY <1>4
  <2>2. items = [i \in 1 .. l |-> Bulk(keys[i])]
    BY <1>4
  <2> HIDE DEF items, l
  <2>3. Bulks(head \o Array(items)) = Bulks(head) \o keys
    BY <1>8, <2>1, <2>2, BulksArray
  <2> QED BY <1>6, <1>8, <2>3
<1>11. Bulks(w) = <<<<>>>> \o keys
  BY <1>7, <1>10, BulksNumbered
<1>12. Tail(<<<<>>>> \o keys) = keys
  <2> DEFINE x == <<>>
  <2>1. x \in Word
    BY WordsBasic
  <2> HIDE DEF x
  <2>2. Tail(<<x>> \o keys) = keys
    BY <1>4, <2>1
  <2> QED BY <2>2 DEF x
<1>13. r[3] = c /\ r[1] = a
  <2> DEFINE u == Array(items)
  <2>1. u \in Seq(Token)
    <3> DEFINE l == Len(keys)
    <3>1. l \in Nat /\ keys \in [1 .. l -> Word]
      BY <1>4
    <3>2. items = [i \in 1 .. l |-> Bulk(keys[i])]
      BY <1>4
    <3> HIDE DEF items, l
    <3> QED BY <3>1, <3>2, ArrayAnswer
  <2>2. 3 \in 1 .. Len(head) /\ 1 \in 1 .. Len(head)
    BY <1>9
  <2> HIDE DEF u
  <2>3. (head \o u)[3] = head[3] /\ (head \o u)[1] = head[1]
    BY <1>8, <2>1, <2>2, ConcatHead
  <2> QED BY <1>6, <1>9, <2>3 DEF u
<1>14. w[3].n = (IF upto = Len(ScanOrder) THEN 0 ELSE upto) /\ w[1].kind # "-"
  <2>1. 3 \in 1 .. Len(r) /\ 1 \in 1 .. Len(r)
    BY <1>7
  <2>2. w[3].n = r[3].n /\ w[1].kind = r[1].kind
    BY <1>7, <2>1, NumberedFirst
  <2> QED BY <1>5, <1>13, <2>2
<1> HIDE DEF w
<1>15. Covers(m, s, w)
  BY <1>4, <1>11, <1>12, <1>14 DEF Covers, P
<1> QED BY <1>14, <1>15 DEF w

LEMMA AnswerSays ==
  ASSUME NEW m \in CmdType, NEW s, HoldsWords(s), NEW reply \in Answers(m, s), NEW n \in Nat
  PROVE  Says(m, s, Numbered(reply, n))
<1> DEFINE k == m.keys[1]
           w == Numbered(reply, n)
<1>1. m.off \in Nat /\ m.len \in Nat /\ m.keys \in Seq(Word) /\ IsAnswer(m, reply)
  BY AnswersRead DEF CmdType
<1>2. reply \in Seq(Token) /\ reply # <<>> /\ 1 \in 1 .. Len(reply)
  <2>1. reply \in Seq(Token) /\ reply # <<>>
    BY <1>1, NeverEmpty DEF IsAnswer
  <2> QED BY <2>1
<1>3. w[1].kind = reply[1].kind /\ w[1].n = reply[1].n /\ Bulks(w) = Bulks(reply)
  BY <1>2, NumberedFirst, BulksNumbered
<1> HIDE DEF w
<1>4. CASE m.op = "get"
  <2>1. reply = Bulk(Value(s, k)) /\ Value(s, k) \in Word
    BY <1>4, ValueType DEF Answers
  <2>2. Bulks(reply) = <<Value(s, k)>>
    BY <2>1, BulksOne
  <2>3. reply[1].kind # "-"
    BY <2>1 DEF Bulk, Tok
  <2> QED BY <1>3, <1>4, <2>2, <2>3 DEF Says, w
<1>5. CASE m.op = "get_many"
  <2> DEFINE l == Len(m.keys)
             v == [i \in 1 .. l |-> Value(s, m.keys[i])]
  <2>1. l \in Nat /\ DOMAIN m.keys = 1 .. l
    BY <1>1
  <2>2. v \in [1 .. l -> Word] /\ v = [i \in DOMAIN m.keys |-> Value(s, m.keys[i])]
    BY <2>1, ValueType
  <2>3. reply = Array([i \in 1 .. l |-> Bulk(v[i])])
    BY <1>5, <2>1 DEF Answers
  <2> HIDE DEF v, l
  <2>4. Bulks(reply) = v /\ reply[1].kind = "*"
    BY <2>1, <2>2, <2>3, BulksMany
  <2> QED BY <1>3, <1>5, <2>2, <2>4 DEF Says, w
<1>6. CASE m.op = "exists"
  <2>1. reply = <<Tok(":", IF k \in DOMAIN s THEN 1 ELSE 0, <<>>)>>
    BY <1>6 DEF Answers, Integer
  <2>2. reply[1].kind = ":" /\ reply[1].n = IF k \in DOMAIN s THEN 1 ELSE 0
    BY <2>1 DEF Tok
  <2> QED BY <1>3, <1>6, <2>2 DEF Says, w
<1>7. CASE m.op = "getrange"
  <2> DEFINE v == slice(Value(s, k), m.off, m.len)
             l == Tok("$", m.len, <<>>)
             d == Tok("data", 0, v)
  <2>1. reply = <<l, d>> /\ v \in Word
    BY <1>1, <1>7, ValueType, SliceType DEF Answers
  <2> HIDE DEF v
  <2>2. l \in Token /\ d \in Token /\ ~ Piece(l) /\ Piece(d) /\ d.val = v /\ l.kind = "$"
    BY <1>1, <2>1 DEF Tok, Token, Word, Piece
  <2> HIDE DEF l, d
  <2> DEFINE e == <<>>
             g == <<l>>
  <2>3. e \in Seq(Token) /\ Bulks(e) = <<>> /\ g = Append(e, l) /\ g \in Seq(Token) /\ reply = Append(g, d)
    BY <2>1, <2>2, BulksEmpty
  <2>4. reply[1] = l
    BY <2>1
  <2> HIDE DEF e, g
  <2>5. Bulks(g) = <<>>
    BY <2>2, <2>3, BulksAppend
  <2>6. Bulks(reply) = Append(<<>>, v)
    BY <2>2, <2>3, <2>5, BulksAppend
  <2>7. Bulks(reply) = <<v>>
    BY <2>6
  <2> QED BY <1>3, <1>7, <2>2, <2>4, <2>7 DEF Says, w, v
<1>8. CASE m.op = "scan"
  <2>1. PICK upto \in m.off + 1 .. Len(ScanOrder) : reply = Page(s, k, m.off, upto)
    BY <1>8 DEF Answers
  <2>2. Covers(m, s, w) /\ w[1].kind # "-"
    BY <2>1, PageCovers DEF w
  <2> QED BY <1>8, <2>2 DEF Says, w
<1>9. CASE m.op \in {"setrange", "del"}
  <2>1. reply[1].kind = ":"
    BY <1>9 DEF Answers, Integer, Tok
  <2> QED BY <1>3, <1>9, <2>1 DEF Says, w
<1>10. CASE m.op \notin {"get", "get_many", "exists", "getrange", "scan", "setrange", "del"}
  <2>1. reply[1].kind = "+"
    BY <1>10 DEF Answers, Simple, Tok
  <2> QED BY <1>3, <1>10, <2>1 DEF Says, w
<1> QED BY <1>4, <1>5, <1>6, <1>7, <1>8, <1>9, <1>10

-----------------------------------------------------------------------------
\* What a redis client knows is true of the contents since its invocation.

\* The commands call q sends when it has seen the contents in seen.
IsCommand(q, m, seen) ==
  CASE q.op = "get_part" -> m \in {[q EXCEPT !.op = "exists"], [q EXCEPT !.op = "getrange"]}
    [] q.op = "set_part" ->
         \/ m \in {[q EXCEPT !.op = "exists"], [q EXCEPT !.op = "get"]}
         \/ m = [q EXCEPT !.op = "setrange"] /\ \E s \in seen : in_bounds(Value(s, q.keys[1]), q)
    [] q.op = "scan" -> \E i \in 0 .. Len(ScanOrder) : m = [q EXCEPT !.off = i]
    [] OTHER -> m = q

\* keys are what the scan q has found before cursor i.
ScanKnows(q, i, keys, seen) ==
  /\ keys \in Seq(Word)
  /\ \A x \in ToSet(keys) : is_subtree_key(q.keys[1], x) /\ \E s \in seen : x \in DOMAIN s
  /\ \A j \in 1 .. i :
       is_subtree_key(q.keys[1], ScanOrder[j]) /\ (\A s \in seen : ScanOrder[j] \in DOMAIN s) =>
         ScanOrder[j] \in ToSet(keys)

\* The tokens w tell of a moment of the call, and the command has been executed then.
Told(m, w, seen) == w[1].kind = "-" \/ \E s \in seen : Says(m, s, w) /\ Effect(m, s) \in seen

Knows(q, t, sl, seen, keys) ==
  /\ t.at = "skip" => q.keys = <<>> /\ q.op # "flush"
  /\ t.at \notin {"start", "read"} => keys = <<>>
  /\ t.at \in {"start", "read"} => IsCommand(q, t.cmd, seen) /\ (q.op = "scan" => ScanKnows(q, t.cmd.off, keys, seen))
  /\ t.at = "read" /\ sl.req = <<>> => Told(t.cmd, t.got \o sl.rep, seen)

\* Contents whose keys the server's order has.
Ordered(s) == HoldsWords(s) /\ DOMAIN s \subseteq ToSet(ScanOrder)
Keyed(m) == m \in CmdType /\ (m.op \in {"set", "setrange"} => m.keys # <<>> /\ m.keys[1] \in ToSet(ScanOrder))

RedisKnows ==
  /\ Ordered(db)
  /\ since = [c \in Clients |-> since[c]] /\ \A c \in Clients : \A s \in since[c] : Ordered(s)
  /\ \A c \in Clients : IF call[c] = NoCall THEN since[c] = {} ELSE call[c] \in AllCalls /\ db \in since[c]
  /\ found \in [Clients -> Seq(Word)]
  /\ \A o \in orphans : Keyed(o.cmd)
  /\ \A c \in Clients : Knows(call[c], trip[c], slot[c], since[c], found[c])

LEMMA KnowsGrows ==
  ASSUME NEW q, NEW t, NEW sl, NEW seen, NEW keys, Knows(q, t, sl, seen, keys), NEW more, seen \subseteq more
  PROVE  Knows(q, t, sl, more, keys)
<1>1. \A i : ScanKnows(q, i, keys, seen) => ScanKnows(q, i, keys, more)
  BY DEF ScanKnows
<1>2. \A m, w : Told(m, w, seen) => Told(m, w, more)
  BY DEF Told
<1>3. \A m : IsCommand(q, m, seen) => IsCommand(q, m, more)
  BY DEF IsCommand
<1> QED BY <1>1, <1>2, <1>3 DEF Knows

LEMMA CallFacts ==
  ASSUME NEW q \in AllCalls
  PROVE  /\ q \in CallType /\ q # NoCall /\ q.keys \in Seq(Word) /\ q.val \in Word /\ q.off \in Nat /\ q.len \in Nat
         /\ q.op \notin {"get_many", "del", "flush"} => Len(q.keys) = 1 /\ q.keys[1] \in Word /\ q.keys # <<>>
         /\ q.op \notin {"get_part", "set_part"} => q.off = 0 /\ q.len = 0
         /\ q.op \in {"set", "set_part"} => q.keys[1] \in ToSet(ScanOrder)
<1>1. q \in CallType
  <2>0. PICK c \in Clients : \E i \in DOMAIN Calls[c] : q \in Calls[c][i]
    BY DEF AllCalls
  <2>1. PICK i \in DOMAIN Calls[c] : q \in Calls[c][i]
    BY <2>0
  <2>2. Calls[c] \in Seq(SUBSET CallType)
    BY CallsAssumption
  <2>3. Calls[c][i] \in SUBSET CallType
    BY <2>2
  <2> QED BY <2>1, <2>3
<1>2. q.keys \in Seq(Word) /\ q.val \in Word /\ q.off \in Nat /\ q.len \in Nat /\ q # NoCall
  BY <1>1, ConstantTypes DEF CallType
<1>3. q.op \in {"set", "set_part"} => q.keys[1] \in ToSet(ScanOrder)
  <2>1. q.op \in {"set", "set_part"} => q.keys[1] \in NewKeys
    BY DEF NewKeys
  <2> QED BY <2>1, ServerAssumption
<1>4. /\ q.op \notin {"get_many", "del", "flush"} => Len(q.keys) = 1
      /\ q.op \notin {"get_part", "set_part"} => q.off = 0 /\ q.len = 0
  BY CallsAssumption
<1>5. Len(q.keys) = 1 => q.keys[1] \in Word /\ q.keys # <<>>
  <2>1. ASSUME NEW ks \in Seq(Word), Len(ks) = 1 PROVE ks[1] \in Word /\ ks # <<>>
    <3>1. 1 \in 1 .. Len(ks) /\ Len(<<>>) = 0
      BY <2>1
    <3>2. ks[1] \in Word
      BY <3>1
    <3>3. ks # <<>>
      BY <2>1, <3>1, EmptySeq
    <3> QED BY <3>2, <3>3
  <2> QED BY <1>2, <2>1
<1> QED BY <1>1, <1>2, <1>3, <1>4, <1>5

LEMMA Commands ==
  ASSUME NEW q \in AllCalls, NEW m, NEW seen, IsCommand(q, m, seen)
  PROVE  /\ m \in CmdType /\ m.keys = q.keys /\ m.op # "none" /\ Keyed(m)
         /\ m.op \in Writes => m \in Effects(q, seen)
<1>1. /\ q \in CallType /\ q.keys \in Seq(Word) /\ q.val \in Word /\ q.off \in Nat /\ q.len \in Nat
      /\ q.op \notin {"get_many", "del", "flush"} => q.keys # <<>>
      /\ q.op \in {"set", "set_part"} => q.keys[1] \in ToSet(ScanOrder)
  BY CallFacts
<1>2. q.op \in {"get", "get_many", "get_part", "exists", "scan", "set", "set_part", "del", "flush"}
  BY <1>1 DEF CallType
<1>3. CASE q.op = "get_part"
  <2>1. m = [q EXCEPT !.op = "exists"] \/ m = [q EXCEPT !.op = "getrange"]
    BY <1>3 DEF IsCommand
  <2> QED BY <1>1, <1>3, <2>1 DEF CallType, CmdType, Writes, Keyed
<1>4. CASE q.op = "set_part"
  <2>1. m = [q EXCEPT !.op = "exists"] \/ m = [q EXCEPT !.op = "get"] \/ m = [q EXCEPT !.op = "setrange"]
    BY <1>4 DEF IsCommand
  <2>2. m \in CmdType /\ m.keys = q.keys /\ m.op # "none" /\ m.op \in {"exists", "get", "setrange"}
    BY <1>1, <2>1 DEF CallType, CmdType
  <2>3. m.op = "setrange" => m = [q EXCEPT !.op = "setrange"]
    BY <1>1, <2>1 DEF CallType
  <2>4. m.op = "setrange" => m \in Effects(q, seen)
    <3>1. ASSUME m.op = "setrange" PROVE \E s \in seen : in_bounds(Value(s, q.keys[1]), q)
      BY <1>1, <1>4, <3>1 DEF IsCommand, CallType
    <3> QED BY <1>4, <2>3, <3>1 DEF Effects
  <2> QED BY <1>1, <1>4, <2>2, <2>3, <2>4 DEF Writes, Keyed
<1>5. CASE q.op = "scan"
  <2>1. PICK i \in 0 .. Len(ScanOrder) : m = [q EXCEPT !.off = i]
    BY <1>5 DEF IsCommand
  <2>2. i \in Nat
    BY ServerAssumption
  <2> QED BY <1>1, <1>5, <2>1, <2>2 DEF CallType, CmdType, Writes, Keyed
<1>6. CASE q.op \in {"get", "get_many", "exists"}
  <2>1. m = q
    BY <1>6 DEF IsCommand
  <2> QED BY <1>1, <1>6, <2>1 DEF CallType, CmdType, Writes, Keyed
<1>7. CASE q.op \in {"set", "del", "flush"}
  <2>1. m = q
    BY <1>7 DEF IsCommand
  <2>2. q \in Effects(q, seen)
    BY <1>7 DEF Effects
  <2> QED BY <1>1, <1>7, <2>1, <2>2 DEF CallType, CmdType, Writes, Keyed
<1> QED BY <1>2, <1>3, <1>4, <1>5, <1>6, <1>7

LEMMA FirstCommand ==
  ASSUME NEW q \in AllCalls, NEW seen
  PROVE  IsCommand(q, First(q), seen) /\ (q.op = "scan" => First(q).off = 0)
<1>1. q \in CallType /\ (q.op = "scan" => q.off = 0)
  BY CallFacts
<1>2. CASE q.op = "scan"
  <2>1. First(q) = q /\ q = [q EXCEPT !.off = 0]
    BY <1>1, <1>2 DEF First, CallType
  <2>2. 0 \in 0 .. Len(ScanOrder)
    BY ServerAssumption
  <2> QED BY <1>1, <1>2, <2>1, <2>2 DEF IsCommand
<1>3. CASE q.op \in {"get_part", "set_part"}
  <2> DEFINE m == [q EXCEPT !.op = "exists"]
  <2>1. First(q) = m
    BY <1>3 DEF First
  <2> HIDE DEF m
  <2>2. IsCommand(q, m, seen)
    <3>1. CASE q.op = "get_part"
      BY <3>1 DEF IsCommand, m
    <3>2. CASE q.op = "set_part"
      BY <3>2 DEF IsCommand, m
    <3> QED BY <1>3, <3>1, <3>2
  <2> QED BY <1>3, <2>1, <2>2
<1>4. CASE q.op \notin {"scan", "get_part", "set_part"}
  <2>1. First(q) = q
    BY <1>4 DEF First
  <2> QED BY <1>4, <2>1 DEF IsCommand
<1> QED BY <1>2, <1>3, <1>4

LEMMA OrderedEffect ==
  ASSUME NEW s, Ordered(s), NEW m, Keyed(m)
  PROVE  Ordered(Effect(m, s))
<1>1. HoldsWords(Effect(m, s))
  BY EffectType DEF Ordered, Keyed
<1>2. DOMAIN Effect(m, s) \subseteq DOMAIN s \cup ToSet(ScanOrder)
  BY DEF Effect, With, Without, Nothing, Keyed
<1> QED BY <1>1, <1>2 DEF Ordered

LEMMA SlicePatch ==
  ASSUME NEW v \in Word, NEW off \in Nat, NEW buf \in Word
  PROVE  slice(patch(v, off, buf), off, Len(buf)) = buf
<1> DEFINE T == {Len(v), off + Len(buf)}
           p == patch(v, off, buf)
           l == Len(buf)
<1>1. T \subseteq Nat /\ T # {} /\ Len(v) \in Nat /\ l \in Nat /\ buf \in Seq(Letters)
  BY DEF Word
<1>2. Max(T) \in Nat /\ \A i \in T : i <= Max(T)
  <2>1. Len(v) + off + l \in Nat /\ \A i \in T : i <= Len(v) + off + l
    BY <1>1
  <2> HIDE DEF T
  <2> QED BY <1>1, <2>1, MaxIs
<1>3. Max(T) >= off + l
  BY <1>1, <1>2
<1>4. /\ p \in Seq(Letters) /\ Len(p) = Max(T)
      /\ \A i \in 1 .. Max(T) : i \in off + 1 .. off + l => p[i] = buf[i - off]
  <2>1. p \in Seq(Letters)
    BY PatchType DEF Word
  <2> HIDE DEF T
  <2>2. p = [i \in 1 .. Max(T) |-> IF i \in off + 1 .. off + l THEN buf[i - off]
                                  ELSE IF i <= Len(v) THEN v[i] ELSE "0"]
    BY DEF patch, T
  <2> QED BY <1>2, <2>1, <2>2
<1> HIDE DEF T, p
<1> DEFINE U == {off + l, Len(p)}
<1>5. U \subseteq Nat /\ U # {} /\ off + l \in U /\ \A y \in U : off + l <= y
  BY <1>1, <1>2, <1>3, <1>4
<1>6. Min(U) = off + l
  <2>1. Min(U) \in U /\ \A y \in U : Min(U) <= y
    <3> HIDE DEF U
    <3> QED BY <1>5, MinIs
  <2>2. Min(U) <= off + l /\ off + l <= Min(U) /\ Min(U) \in Nat
    <3> HIDE DEF U
    <3> QED BY <1>5, <2>1
  <2> HIDE DEF U
  <2> QED BY <1>1, <2>2
<1>7. slice(p, off, l) = SubSeq(p, off + 1, off + l)
  BY <1>6 DEF slice
<1> DEFINE r == SubSeq(p, off + 1, off + l)
<1>8. r \in Seq(Letters) /\ Len(r) = l /\ \A i \in 1 .. l : r[i] = p[off + i]
  BY <1>1, <1>2, <1>3, <1>4
<1> HIDE DEF r
<1>9. \A i \in 1 .. l : r[i] = buf[i]
  <2> SUFFICES ASSUME NEW i \in 1 .. l PROVE r[i] = buf[i]
    OBVIOUS
  <2>1. off + i \in 1 .. Max(T) /\ off + i \in off + 1 .. off + l /\ (off + i) - off = i
    BY <1>1, <1>2, <1>3
  <2> QED BY <1>4, <1>8, <2>1
<1>10. r = buf
  BY <1>1, <1>8, <1>9, SeqEqual
<1> QED BY <1>7, <1>10 DEF r, p

LEMMA SliceNothing ==
  ASSUME NEW v \in Word, NEW off \in Nat, NEW len \in Nat, v = Missing \/ len = 0
  PROVE  slice(v, off, len) = <<>>
<1> DEFINE U == {off + len, Len(v)}
<1>1. U \subseteq Nat /\ U # {} /\ Len(v) \in Nat
  BY DEF Word
<1>2. Min(U) \in U /\ \A y \in U : Min(U) <= y
  <2> HIDE DEF U
  <2> QED BY <1>1, MinIs
<1>3. Min(U) \in Nat /\ Min(U) <= off
  <2>1. v = Missing => Len(v) = 0
    BY DEF Missing
  <2> QED BY <1>1, <1>2, <2>1
<1> HIDE DEF U
<1>4. off + 1 \in Int /\ Min(U) \in Int /\ off + 1 > Min(U)
  BY <1>3
<1>5. SubSeq(v, off + 1, Min(U)) = <<>>
  BY <1>4 DEF Word
<1> QED BY <1>5 DEF slice, U

LEMMA SubtreeScanned ==
  ASSUME NEW p \in Word, NEW x \in Word, is_subtree_key(p, x)
  PROVE  starts_with(x, scan_pattern(p))
<1>1. CASE p \in {<<>>, Root}
  BY <1>1 DEF is_subtree_key, scan_pattern
<1>2. CASE p \notin {<<>>, Root} /\ x = p
  BY <1>2 DEF scan_pattern, starts_with, IsPrefix, Word
<1>3. CASE p \notin {<<>>, Root} /\ x # p
  BY <1>3 DEF is_subtree_key, scan_pattern, At
<1> QED BY <1>1, <1>2, <1>3

LEMMA ConcatSet ==
  ASSUME NEW T, NEW a \in Seq(T), NEW b \in Seq(T)
  PROVE  ToSet(a \o b) = ToSet(a) \cup ToSet(b)
<1> DEFINE w == a \o b
<1>1. /\ Len(w) = Len(a) + Len(b) /\ Len(a) \in Nat /\ Len(b) \in Nat /\ w \in Seq(T)
      /\ \A i \in 1 .. Len(a) : w[i] = a[i]
      /\ \A i \in 1 .. Len(b) : w[Len(a) + i] = b[i]
  OBVIOUS
<1> HIDE DEF w
<1>2. ToSet(a) = {a[i] : i \in 1 .. Len(a)} /\ ToSet(b) = {b[i] : i \in 1 .. Len(b)} /\ ToSet(w) = {w[i] : i \in 1 .. Len(w)}
  <2>1. \A z \in Seq(T) : DOMAIN z = 1 .. Len(z)
    OBVIOUS
  <2>2. DOMAIN a = 1 .. Len(a) /\ DOMAIN b = 1 .. Len(b) /\ DOMAIN w = 1 .. Len(w)
    BY <1>1, <2>1
  <2> QED BY <2>2, Zenon DEF ToSet
<1>3. ASSUME NEW i \in 1 .. Len(w) PROVE w[i] \in ToSet(a) \cup ToSet(b)
  <2>1. CASE i <= Len(a)
    BY <1>1, <1>2, <2>1
  <2>2. CASE i > Len(a)
    <3>1. PICK j \in 1 .. Len(b) : i = Len(a) + j
      <4>1. i - Len(a) \in 1 .. Len(b) /\ i = Len(a) + (i - Len(a))
        BY <1>1, <2>2
      <4> QED BY <4>1
    <3> QED BY <1>1, <1>2, <3>1
  <2> QED BY <1>1, <2>1, <2>2
<1>4. ASSUME NEW i \in 1 .. Len(a) PROVE a[i] \in ToSet(w)
  <2>1. i \in 1 .. Len(w)
    BY <1>1
  <2> QED BY <1>1, <1>2, <2>1
<1>5. ASSUME NEW i \in 1 .. Len(b) PROVE b[i] \in ToSet(w)
  <2>1. Len(a) + i \in 1 .. Len(w)
    BY <1>1
  <2> QED BY <1>1, <1>2, <2>1
<1>6. ToSet(w) = ToSet(a) \cup ToSet(b)
  BY <1>2, <1>3, <1>4, <1>5
<1> QED BY <1>6 DEF w

\* A page takes the scan to the next cursor.
LEMMA ScanTurns ==
  ASSUME NEW q \in AllCalls, q.op = "scan", NEW i \in 0 .. Len(ScanOrder), NEW m, m = [q EXCEPT !.off = i],
         NEW seen, NEW s \in seen, NEW got, NEW keys, ScanKnows(q, i, keys, seen),
         NEW upto \in i + 1 .. Len(ScanOrder), Tail(Bulks(got)) \in Seq(Word),
         ToSet(Tail(Bulks(got))) = {ScanOrder[j] : j \in i + 1 .. upto}
                                   \cap {k \in DOMAIN s : starts_with(k, scan_pattern(q.keys[1]))}
  PROVE  ScanKnows(q, upto, keys \o scanned(m, got), seen)
<1> DEFINE new == Tail(Bulks(got))
           p == q.keys[1]
           fresh == scanned(m, got)
           P == {k \in ToSet(new) : is_subtree_key(p, k)}
<1>1. q \in CallType /\ p \in Word
  BY CallFacts
<1>2. m.op = "scan" /\ m.keys = q.keys
  BY <1>1 DEF CallType
<1>3. fresh = Filter(new, P)
  BY <1>2 DEF scanned
<1>4. new \in Seq(Word)
  OBVIOUS
<1>5. fresh \in Seq(Word) /\ ToSet(fresh) = ToSet(new) \cap P
  <2> HIDE DEF new, P, fresh
  <2>1. Filter(new, P) \in Seq(Word)
    BY <1>4, FilterType
  <2>2. ToSet(Filter(new, P)) = ToSet(new) \cap P
    BY <1>4, FilterElements
  <2> QED BY <1>3, <2>1, <2>2
<1> HIDE DEF fresh
<1>6. \A x : x \in ToSet(fresh) <=> x \in ToSet(new) /\ is_subtree_key(p, x)
  BY <1>5
<1>7. \A x : x \in ToSet(new) <=> /\ \E j \in i + 1 .. upto : x = ScanOrder[j]
                                 /\ x \in DOMAIN s /\ starts_with(x, scan_pattern(p))
  OBVIOUS
<1> HIDE DEF new, P
<1>8. keys \in Seq(Word)
  BY DEF ScanKnows
<1>9. keys \o fresh \in Seq(Word) /\ ToSet(keys \o fresh) = ToSet(keys) \cup ToSet(fresh)
  BY <1>5, <1>8, ConcatSet
<1>10. \A x \in ToSet(keys \o fresh) : is_subtree_key(p, x) /\ \E y \in seen : x \in DOMAIN y
  BY <1>6, <1>7, <1>9 DEF ScanKnows
<1>11. ASSUME NEW j \in 1 .. upto, is_subtree_key(p, ScanOrder[j]), \A y \in seen : ScanOrder[j] \in DOMAIN y
       PROVE  ScanOrder[j] \in ToSet(keys \o fresh)
  <2>1. CASE j \in 1 .. i
    BY <1>9, <1>11, <2>1 DEF ScanKnows
  <2>2. CASE j \in i + 1 .. upto
    <3>1. j \in 1 .. Len(ScanOrder) /\ ScanOrder[j] \in Word
      BY ServerAssumption
    <3>2. starts_with(ScanOrder[j], scan_pattern(p))
      BY <1>1, <1>11, <3>1, SubtreeScanned
    <3> QED BY <1>6, <1>7, <1>9, <1>11, <2>2, <3>2
  <2>3. j \in 1 .. i \/ j \in i + 1 .. upto
    BY ServerAssumption
  <2> QED BY <2>1, <2>2, <2>3
<1> QED BY <1>9, <1>10, <1>11 DEF ScanKnows, fresh

\* What a call makes of a reply: an honest answer, or the next command.
Goes(q, next, keys, seen) ==
  /\ next.cmd = NoCall => Honest(q, next.ans, seen)
  /\ next.cmd # NoCall => IsCommand(q, next.cmd, seen) /\ (q.op = "scan" => ScanKnows(q, next.cmd.off, keys, seen))

LEMMA ScanGoes ==
  ASSUME NEW q \in AllCalls, q.op = "scan", NEW m, NEW seen, IsCommand(q, m, seen), NEW s \in seen, NEW got,
         Says(m, s, got), NEW keys, ScanKnows(q, m.off, keys, seen), \A y \in seen : Ordered(y)
  PROVE  Goes(q, Resume(q, m, got, keys \o scanned(m, got)), keys \o scanned(m, got), seen)
<1> DEFINE keys2 == keys \o scanned(m, got)
           L == Len(ScanOrder)
<1>1. q \in CallType /\ q.keys[1] \in Word
  BY CallFacts
<1>2. PICK i \in 0 .. L : m = [q EXCEPT !.off = i]
  BY DEF IsCommand
<1>3. m.off = i /\ m.op = "scan" /\ m.keys = q.keys
  BY <1>1, <1>2 DEF CallType
<1>4. PICK upto \in i + 1 .. L :
        /\ got[3].n = IF upto = L THEN 0 ELSE upto
        /\ Tail(Bulks(got)) \in Seq(Word)
        /\ ToSet(Tail(Bulks(got))) = {ScanOrder[j] : j \in i + 1 .. upto}
                                     \cap {k \in DOMAIN s : starts_with(k, scan_pattern(q.keys[1]))}
  BY <1>3 DEF Says, Covers
<1>5. ScanKnows(q, upto, keys2, seen)
  BY <1>2, <1>3, <1>4, ScanTurns
<1> HIDE DEF keys2
<1>6. L \in Nat /\ upto \in 1 .. L /\ upto \in 0 .. L
  BY ServerAssumption
<1>7. Resume(q, m, got, keys2) = after_scan(m, got, keys2)
  BY DEF Resume
<1>8. CASE upto = L
  <2>1. Resume(q, m, got, keys2) = Finish(keys2)
    BY <1>4, <1>7, <1>8 DEF after_scan
  <2>2. Finish(keys2).cmd = NoCall /\ Finish(keys2).ans = keys2
    BY DEF Finish
  <2>3. ASSUME NEW x \in UNION {DOMAIN y : y \in seen}, is_subtree_key(q.keys[1], x), \A y \in seen : x \in DOMAIN y
        PROVE  x \in ToSet(keys2)
    <3>1. x \in ToSet(ScanOrder)
      BY DEF Ordered
    <3>2. PICK j \in 1 .. L : x = ScanOrder[j]
      BY <3>1, ServerAssumption DEF ToSet
    <3> QED BY <1>5, <1>8, <2>3, <3>2 DEF ScanKnows
  <2>4. \A x \in ToSet(keys2) : is_subtree_key(q.keys[1], x) /\ \E y \in seen : x \in DOMAIN y
    BY <1>5 DEF ScanKnows
  <2>5. Honest(q, keys2, seen)
    BY <2>3, <2>4 DEF Honest
  <2> QED BY <2>1, <2>2, <2>5 DEF Goes, keys2
<1>9. CASE upto # L
  <2> DEFINE x == [m EXCEPT !.off = upto]
  <2>1. got[3].n = upto /\ got[3].n # 0
    BY <1>4, <1>6, <1>9
  <2>2. Resume(q, m, got, keys2) = Issue(x)
    BY <1>7, <2>1 DEF after_scan
  <2>3. Issue(x).cmd = x
    BY DEF Issue
  <2>4. x = [q EXCEPT !.off = upto] /\ x.off = upto /\ x # NoCall
    BY <1>1, <1>2, <1>3 DEF CallType, NoCall
  <2>5. IsCommand(q, x, seen)
    BY <1>6, <2>4 DEF IsCommand
  <2> HIDE DEF x
  <2> QED BY <1>5, <2>2, <2>3, <2>4, <2>5 DEF Goes, keys2
<1> QED BY <1>8, <1>9

LEMMA ReadGoes ==
  ASSUME NEW q \in AllCalls, q.op \in {"get", "get_many", "exists"}, NEW m, NEW seen, IsCommand(q, m, seen),
         NEW s \in seen, NEW got, Says(m, s, got), NEW keys
  PROVE  Goes(q, Resume(q, m, got, keys), keys, seen)
<1>1. m = q
  BY DEF IsCommand
<1>2. \A a : Finish(a).cmd = NoCall /\ Finish(a).ans = a
  BY DEF Finish
<1>3. CASE q.op = "get"
  <2>1. Len(q.keys) = 1 /\ q.keys \in Seq(Word)
    BY <1>3, CallFacts
  <2> DEFINE a == <<Value(s, q.keys[1])>>
  <2>2. Resume(q, m, got, keys) = Finish(a)
    BY <1>1, <1>3 DEF Resume, Says
  <2>3. Len(a) = 1 /\ a[1] = Value(s, q.keys[1]) /\ DOMAIN a = {1}
    OBVIOUS
  <2> HIDE DEF a
  <2>4. Honest(q, a, seen)
    BY <1>3, <2>1, <2>3 DEF Honest
  <2> QED BY <1>2, <2>2, <2>4 DEF Goes
<1>4. CASE q.op = "get_many"
  <2> DEFINE a == [i \in DOMAIN q.keys |-> Value(s, q.keys[i])]
  <2>1. Resume(q, m, got, keys) = Finish(a)
    BY <1>1, <1>4 DEF Resume, Says
  <2>2. q.keys \in Seq(Word)
    BY CallFacts
  <2>3. Len(a) = Len(q.keys) /\ \A i \in DOMAIN a : a[i] = Value(s, q.keys[i])
    BY <2>2
  <2> HIDE DEF a
  <2>4. Honest(q, a, seen)
    BY <1>4, <2>3 DEF Honest
  <2> QED BY <1>2, <2>1, <2>4 DEF Goes
<1>5. CASE q.op = "exists"
  <2> DEFINE a == IF q.keys[1] \in DOMAIN s THEN Yes ELSE No
  <2>1. got[1].n > 0 <=> q.keys[1] \in DOMAIN s
    BY <1>1, <1>5 DEF Says
  <2>2. Resume(q, m, got, keys) = Finish(a)
    BY <1>1, <1>5, <2>1 DEF Resume
  <2>3. Honest(q, a, seen)
    BY <1>5 DEF Honest
  <2> HIDE DEF a
  <2> QED BY <1>2, <2>2, <2>3 DEF Goes
<1> QED BY <1>3, <1>4, <1>5

LEMMA GetPartGoes ==
  ASSUME NEW q \in AllCalls, q.op = "get_part", NEW m, NEW seen, IsCommand(q, m, seen),
         NEW s \in seen, Ordered(s), NEW got, Says(m, s, got), NEW keys
  PROVE  Goes(q, Resume(q, m, got, keys), keys, seen)
<1> DEFINE k == q.keys[1]
<1>1. q \in CallType /\ q.off \in Nat /\ q.len \in Nat
  BY CallFacts
<1>2. \A a : Finish(a).cmd = NoCall /\ Finish(a).ans = a
  BY DEF Finish
<1>3. \A x : Issue(x).cmd = x
  BY DEF Issue
<1>4. Value(s, k) \in Word
  BY ValueType DEF Ordered
<1>5. CASE m = [q EXCEPT !.op = "exists"]
  <2>1. m.op = "exists" /\ m.keys = q.keys
    BY <1>1, <1>5 DEF CallType
  <2>2. got[1].n > 0 <=> k \in DOMAIN s
    BY <2>1 DEF Says
  <2>3. CASE k \in DOMAIN s /\ q.len > 0
    <3> DEFINE x == [q EXCEPT !.op = "getrange"]
    <3>1. Resume(q, m, got, keys) = Issue(x)
      BY <2>1, <2>2, <2>3 DEF Resume
    <3>2. IsCommand(q, x, seen) /\ x # NoCall
      BY <1>1 DEF IsCommand, CallType, NoCall
    <3> HIDE DEF x
    <3> QED BY <1>3, <3>1, <3>2 DEF Goes
  <2>4. CASE ~ (k \in DOMAIN s /\ q.len > 0)
    <3>1. Resume(q, m, got, keys) = Finish(No)
      BY <2>1, <2>2, <2>4 DEF Resume
    <3>2. Value(s, k) = Missing \/ q.len = 0
      BY <1>1, <2>4 DEF Value
    <3>3. slice(Value(s, k), q.off, q.len) = <<>>
      BY <1>1, <1>4, <3>2, SliceNothing
    <3>4. Honest(q, No, seen)
      BY <3>3 DEF Honest, No
    <3> QED BY <1>2, <3>1, <3>4 DEF Goes
  <2> QED BY <2>3, <2>4
<1>6. CASE m = [q EXCEPT !.op = "getrange"]
  <2>1. m.op = "getrange" /\ m.keys = q.keys /\ m.off = q.off /\ m.len = q.len
    BY <1>1, <1>6 DEF CallType
  <2> DEFINE a == <<slice(Value(s, k), q.off, q.len)>>
  <2>2. Resume(q, m, got, keys) = Finish(a)
    BY <2>1 DEF Resume, Says
  <2>3. Honest(q, a, seen)
    BY DEF Honest
  <2> HIDE DEF a
  <2> QED BY <1>2, <2>2, <2>3 DEF Goes
<1> QED BY <1>5, <1>6 DEF IsCommand

LEMMA SetPartGoes ==
  ASSUME NEW q \in AllCalls, q.op = "set_part", NEW m, NEW seen, IsCommand(q, m, seen),
         NEW s \in seen, Ordered(s), NEW got, Says(m, s, got), Effect(m, s) \in seen, NEW keys
  PROVE  Goes(q, Resume(q, m, got, keys), keys, seen)
<1> DEFINE k == q.keys[1]
<1>1. q \in CallType /\ q.off \in Nat /\ q.val \in Word
  BY CallFacts
<1>2. \A a : Finish(a).cmd = NoCall /\ Finish(a).ans = a
  BY DEF Finish
<1>3. \A x : Issue(x).cmd = x
  BY DEF Issue
<1>4. Value(s, k) \in Word
  BY ValueType DEF Ordered
<1>5. \A op : [q EXCEPT !.op = op].op = op /\ [q EXCEPT !.op = op].keys = q.keys
              /\ [q EXCEPT !.op = op].off = q.off /\ [q EXCEPT !.op = op].val = q.val
  BY <1>1 DEF CallType
<1>6. ASSUME ~ in_bounds(Value(s, k), q) PROVE \A a : Honest(q, a, seen)
  BY <1>6 DEF Honest
<1>7. CASE m = [q EXCEPT !.op = "exists"]
  <2>1. m.op = "exists" /\ m.keys = q.keys
    BY <1>5, <1>7
  <2>2. got[1].n > 0 <=> k \in DOMAIN s
    BY <2>1 DEF Says
  <2>3. CASE k \in DOMAIN s
    <3> DEFINE x == [q EXCEPT !.op = "get"]
    <3>1. Resume(q, m, got, keys) = Issue(x)
      BY <2>1, <2>2, <2>3 DEF Resume
    <3>2. IsCommand(q, x, seen) /\ x # NoCall
      BY <1>5 DEF IsCommand, NoCall
    <3> HIDE DEF x
    <3> QED BY <1>3, <3>1, <3>2 DEF Goes
  <2>4. CASE k \notin DOMAIN s
    <3>1. Resume(q, m, got, keys) = Finish(Refused)
      BY <2>1, <2>2, <2>4 DEF Resume
    <3>2. ~ in_bounds(Value(s, k), q)
      BY <2>4 DEF Value, in_bounds
    <3> QED BY <1>2, <1>6, <3>1, <3>2 DEF Goes
  <2> QED BY <2>3, <2>4
<1>8. CASE m = [q EXCEPT !.op = "get"]
  <2>1. m.op = "get" /\ m.keys = q.keys
    BY <1>5, <1>8
  <2>2. Bulks(got)[1] = Value(s, k)
    BY <2>1 DEF Says
  <2>3. CASE in_bounds(Value(s, k), q)
    <3> DEFINE x == [q EXCEPT !.op = "setrange"]
    <3>1. Resume(q, m, got, keys) = Issue(x)
      BY <2>1, <2>2, <2>3 DEF Resume
    <3>2. IsCommand(q, x, seen) /\ x # NoCall
      BY <1>5, <2>3 DEF IsCommand, NoCall
    <3> HIDE DEF x
    <3> QED BY <1>3, <3>1, <3>2 DEF Goes
  <2>4. CASE ~ in_bounds(Value(s, k), q)
    <3>1. Resume(q, m, got, keys) = Finish(Refused)
      BY <2>1, <2>2, <2>4 DEF Resume
    <3> QED BY <1>2, <1>6, <2>4, <3>1 DEF Goes
  <2> QED BY <2>3, <2>4
<1>9. CASE m = [q EXCEPT !.op = "setrange"]
  <2>1. m.op = "setrange" /\ m.keys = q.keys /\ m.off = q.off /\ m.val = q.val
    BY <1>5, <1>9
  <2> DEFINE v == patch(Value(s, k), q.off, q.val)
             t == With(s, k, v)
             e == <<>>
  <2>2. Resume(q, m, got, keys) = Finish(e)
    BY <2>1 DEF Resume
  <2>3. t \in seen
    BY <2>1 DEF Effect
  <2>4. Value(t, k) = v
    BY DEF Value, With
  <2>5. slice(v, q.off, Len(q.val)) = q.val
    BY <1>1, <1>4, SlicePatch
  <2>6. e # Refused
    BY DEF Refused
  <2> HIDE DEF t, v, e
  <2>7. Honest(q, e, seen)
    BY <2>3, <2>4, <2>5, <2>6 DEF Honest
  <2> QED BY <1>2, <2>2, <2>7 DEF Goes
<1> QED BY <1>7, <1>8, <1>9 DEF IsCommand

LEMMA WriteGoes ==
  ASSUME NEW q \in AllCalls, q.op \in {"set", "del", "flush"}, NEW m, NEW seen, IsCommand(q, m, seen),
         NEW s \in seen, NEW got, Effect(m, s) \in seen, NEW keys
  PROVE  Goes(q, Resume(q, m, got, keys), keys, seen)
<1> DEFINE e == <<>>
<1>1. m = q
  BY DEF IsCommand
<1>2. Finish(e).cmd = NoCall /\ Finish(e).ans = e
  BY DEF Finish
<1>3. Resume(q, m, got, keys) = Finish(e)
  BY DEF Resume
<1> HIDE DEF e
<1>4. CASE q.op = "set"
  <2>1. With(s, q.keys[1], q.val) \in seen
    BY <1>1, <1>4 DEF Effect
  <2>2. Value(With(s, q.keys[1], q.val), q.keys[1]) = q.val
    BY DEF Value, With
  <2>3. Honest(q, e, seen)
    BY <1>4, <2>1, <2>2 DEF Honest
  <2> QED BY <1>2, <1>3, <2>3 DEF Goes
<1>5. CASE q.op = "del"
  <2>1. Without(s, ToSet(q.keys)) \in seen
    BY <1>1, <1>5 DEF Effect
  <2>2. \A x \in ToSet(q.keys) : x \notin DOMAIN Without(s, ToSet(q.keys))
    BY DEF Without
  <2>3. Honest(q, e, seen)
    BY <1>5, <2>1, <2>2 DEF Honest
  <2> QED BY <1>2, <1>3, <2>3 DEF Goes
<1>6. CASE q.op = "flush"
  <2>1. Nothing \in seen /\ DOMAIN Nothing = {}
    BY <1>1, <1>6 DEF Effect, Nothing
  <2>2. Honest(q, e, seen)
    BY <1>6, <2>1 DEF Honest
  <2> QED BY <1>2, <1>3, <2>2 DEF Goes
<1> QED BY <1>4, <1>5, <1>6

LEMMA ResumeGoes ==
  ASSUME NEW q \in AllCalls, NEW m, NEW seen, IsCommand(q, m, seen), NEW s \in seen, NEW got, Says(m, s, got),
         Effect(m, s) \in seen, NEW keys, q.op = "scan" => ScanKnows(q, m.off, keys, seen),
         \A y \in seen : Ordered(y)
  PROVE  Goes(q, Resume(q, m, got, keys \o scanned(m, got)), keys \o scanned(m, got), seen)
<1> DEFINE keys2 == keys \o scanned(m, got)
<1>1. q.op \in {"get", "get_many", "get_part", "exists", "scan", "set", "set_part", "del", "flush"}
  BY CallFacts DEF CallType
<1>2. CASE q.op = "scan"
  BY <1>2, ScanGoes
<1> HIDE DEF keys2
<1>3. CASE q.op \in {"get", "get_many", "exists"}
  BY <1>3, ReadGoes DEF keys2
<1>4. CASE q.op = "get_part"
  BY <1>4, GetPartGoes DEF keys2
<1>5. CASE q.op = "set_part"
  BY <1>5, SetPartGoes DEF keys2
<1>6. CASE q.op \in {"set", "del", "flush"}
  BY <1>6, WriteGoes DEF keys2
<1> QED BY <1>1, <1>2, <1>3, <1>4, <1>5, <1>6

\* One client moves on: what it knows is all there is to check.
LEMMA RedisMoves ==
  ASSUME RedisInv, RedisKnows, NEW c \in Clients, NEW q, NEW t, NEW sl, NEW seen, NEW keys \in Seq(Word),
         call' = [call EXCEPT ![c] = q], trip' = [trip EXCEPT ![c] = t], slot' = [slot EXCEPT ![c] = sl],
         since' = [since EXCEPT ![c] = seen], found' = [found EXCEPT ![c] = keys], UNCHANGED db,
         \A o \in orphans' : Keyed(o.cmd),
         IF q = NoCall THEN seen = {} ELSE q \in AllCalls /\ db \in seen,
         \A s \in seen : Ordered(s), Knows(q, t, sl, seen, keys)
  PROVE  RedisKnows'
<1>1. DOMAIN call = Clients /\ DOMAIN trip = Clients /\ DOMAIN slot = Clients
  BY DEF RedisInv
<1>2. DOMAIN since = Clients /\ found \in [Clients -> Seq(Word)]
  BY DEF RedisKnows
<1>3. \A d \in Clients : /\ call'[d] = IF d = c THEN q ELSE call[d]
                         /\ trip'[d] = IF d = c THEN t ELSE trip[d]
                         /\ slot'[d] = IF d = c THEN sl ELSE slot[d]
                         /\ since'[d] = IF d = c THEN seen ELSE since[d]
                         /\ found'[d] = IF d = c THEN keys ELSE found[d]
  BY <1>1, <1>2
<1>4. found' \in [Clients -> Seq(Word)] /\ since' = [d \in Clients |-> since'[d]]
  BY <1>2
<1>5. \A d \in Clients : Knows(call'[d], trip'[d], slot'[d], since'[d], found'[d])
  BY <1>3 DEF RedisKnows
<1>6. \A d \in Clients : IF call'[d] = NoCall THEN since'[d] = {} ELSE call'[d] \in AllCalls /\ db' \in since'[d]
  BY <1>3 DEF RedisKnows
<1>7. \A d \in Clients : \A s \in since'[d] : Ordered(s)
  BY <1>3 DEF RedisKnows
<1> QED BY <1>4, <1>5, <1>6, <1>7 DEF RedisKnows

LEMMA RedisIdle ==
  ASSUME NEW sl
  PROVE  Knows(NoCall, NoTrip, sl, {}, <<>>)
BY DEF Knows, NoTrip

\* The facts about one client that its steps need.
LEMMA RedisClientKnows ==
  ASSUME RedisInv, RedisKnows, NEW c \in Clients
  PROVE  /\ Knows(call[c], trip[c], slot[c], since[c], found[c]) /\ found[c] \in Seq(Word)
         /\ \A s \in since[c] : Ordered(s)
         /\ call[c] # NoCall => call[c] \in AllCalls /\ db \in since[c]
         /\ trip[c].at # "none" => call[c] # NoCall
         /\ call = [call EXCEPT ![c] = call[c]] /\ slot = [slot EXCEPT ![c] = slot[c]]
         /\ since = [since EXCEPT ![c] = since[c]] /\ found = [found EXCEPT ![c] = found[c]]
         /\ trip = [trip EXCEPT ![c] = trip[c]]
<1>1. DOMAIN since = Clients /\ found \in [Clients -> Seq(Word)]
  BY DEF RedisKnows
<1>2. trip[c].at # "none" => call[c] # NoCall
  <2>1. trip[c].at # "none" => trip[c] # NoTrip
    BY DEF NoTrip
  <2> QED BY <2>1, RedisClientTypes DEF StreamOK
<1>3. since = [since EXCEPT ![c] = since[c]] /\ found = [found EXCEPT ![c] = found[c]]
  BY <1>1 DEF RedisKnows
<1>4. call = [call EXCEPT ![c] = call[c]] /\ slot = [slot EXCEPT ![c] = slot[c]] /\ trip = [trip EXCEPT ![c] = trip[c]]
  BY DEF RedisInv
<1> QED BY <1>1, <1>2, <1>3, <1>4 DEF RedisKnows

\* With a redis DSN the contract sees the server.
LEMMA RedisShows ==
  ASSUME scheme = "redis", scheme' = scheme
  PROVE  /\ Shown = db /\ Shown' = db' /\ Behind = RedisPending
         /\ Behind' = {o.cmd : o \in orphans'}
         /\ orphans' = orphans => Behind' = Behind
BY DEF Shown, Behind, RedisPending

LEMMA RedisMapsInvoke ==
  ASSUME RedisInv, RedisKnows, scheme = "redis", scheme' = scheme, NEW c \in Clients, NEW q \in NextCalls(c),
         RedisInvoke(c, q)
  PROVE  RedisKnows' /\ Contract!Next
<1> DEFINE t == IF q.keys = <<>> /\ q.op # "flush" THEN [NoTrip EXCEPT !.at = "skip"] ELSE Begin(First(q))
<1>1. q \in AllCalls
  BY NextCallsType DEF RedisInv
<1>2. /\ call[c] = NoCall /\ call' = [call EXCEPT ![c] = q] /\ trip' = [trip EXCEPT ![c] = t]
      /\ since' = [since EXCEPT ![c] = {db}] /\ UNCHANGED <<db, slot, found, orphans, sent>>
  BY DEF RedisInvoke, Invoked
<1>3. Invoked(c, q, Shown)
  BY RedisShows DEF RedisInvoke
<1>4. Contract!Next
  BY <1>2, <1>3, RedisShows, MapsInvoke
<1>5. trip[c] = NoTrip /\ found[c] = <<>>
  <2>1. trip[c] = NoTrip
    BY <1>2, RedisClientTypes DEF StreamOK
  <2>2. NoTrip.at = "none"
    BY DEF NoTrip
  <2> QED BY <2>1, <2>2, RedisClientKnows DEF Knows
<1>6. Knows(q, t, slot[c], {db}, found[c])
  <2>1. CASE q.keys = <<>> /\ q.op # "flush"
    <3>1. t.at = "skip"
      BY <2>1 DEF NoTrip
    <3> HIDE DEF t
    <3> QED BY <1>5, <2>1, <3>1 DEF Knows
  <2>2. CASE ~ (q.keys = <<>> /\ q.op # "flush")
    <3>1. t.at = "start" /\ t.cmd = First(q)
      BY <2>2 DEF Begin
    <3> HIDE DEF t
    <3>2. IsCommand(q, First(q), {db}) /\ (q.op = "scan" => First(q).off = 0)
      BY <1>1, FirstCommand
    <3>3. ScanKnows(q, 0, <<>>, {db})
      BY DEF ScanKnows, ToSet
    <3> QED BY <1>5, <3>1, <3>2, <3>3 DEF Knows
  <2> QED BY <2>1, <2>2
<1>7. q # NoCall /\ Ordered(db) /\ \A o \in orphans' : Keyed(o.cmd)
  BY <1>1, <1>2, CallFacts DEF RedisKnows
<1>8. slot' = [slot EXCEPT ![c] = slot[c]] /\ found' = [found EXCEPT ![c] = found[c]] /\ found[c] \in Seq(Word)
  BY <1>2, RedisClientKnows
<1> HIDE DEF t
<1> DEFINE seen == {db}
<1>9. db \in seen /\ \A s \in seen : Ordered(s)
  BY <1>7
<1> HIDE DEF seen
<1>10. IF q = NoCall THEN seen = {} ELSE q \in AllCalls /\ db \in seen
  BY <1>1, <1>7, <1>9
<1>11. Knows(q, t, slot[c], seen, found[c]) /\ since' = [since EXCEPT ![c] = seen]
  BY <1>2, <1>6 DEF seen
<1>12. RedisKnows'
  BY <1>2, <1>7, <1>8, <1>9, <1>10, <1>11, RedisMoves
<1> QED BY <1>4, <1>12

\* A call ends: the client knows nothing any more.
LEMMA RedisEndsKnowing ==
  ASSUME RedisInv, RedisKnows, NEW c \in Clients, NEW sl, call' = [call EXCEPT ![c] = NoCall],
         trip' = [trip EXCEPT ![c] = NoTrip], slot' = [slot EXCEPT ![c] = sl], since' = [since EXCEPT ![c] = {}],
         found' = [found EXCEPT ![c] = <<>>], UNCHANGED db, \A o \in orphans' : Keyed(o.cmd)
  PROVE  RedisKnows'
<1>1. <<>> \in Seq(Word) /\ \A s \in {} : Ordered(s)
  OBVIOUS
<1>2. Knows(NoCall, NoTrip, sl, {}, <<>>)
  BY RedisIdle
<1> DEFINE q == NoCall
           seen == {}
           keys == <<>>
           t == NoTrip
<1>3. IF q = NoCall THEN seen = {} ELSE q \in AllCalls /\ db \in seen
  OBVIOUS
<1>4. /\ call' = [call EXCEPT ![c] = q] /\ since' = [since EXCEPT ![c] = seen] /\ found' = [found EXCEPT ![c] = keys]
      /\ trip' = [trip EXCEPT ![c] = t] /\ Knows(q, t, sl, seen, keys)
      /\ keys \in Seq(Word) /\ \A s \in seen : Ordered(s)
  BY <1>1, <1>2
<1> HIDE DEF q, seen, keys, t
<1> QED BY <1>3, <1>4, RedisMoves

LEMMA RedisMapsSkip ==
  ASSUME RedisInv, RedisKnows, scheme = "redis", scheme' = scheme, NEW c \in Clients, RedisSkip(c)
  PROVE  RedisKnows' /\ Contract!Next
<1>1. /\ trip[c].at = "skip" /\ Ended(c, Answered(<<>>)) /\ trip' = [trip EXCEPT ![c] = NoTrip]
      /\ UNCHANGED <<db, slot, found, orphans, sent>>
  BY DEF RedisSkip, Doing
<1>2. call[c].keys = <<>> /\ call[c].op # "flush" /\ found[c] = <<>> /\ call[c] \in AllCalls /\ call[c] # NoCall
  BY <1>1, RedisClientKnows DEF Knows
<1>3. Honest(call[c], <<>>, since[c])
  <2>1. call[c].op \in {"get_many", "del"}
    BY <1>2, CallFacts
  <2>2. ToSet(<<>>) = {} /\ Len(<<>>) = 0 /\ DOMAIN <<>> = {}
    BY DEF ToSet
  <2> QED BY <1>2, <2>1, <2>2 DEF Honest
<1>4. Contract!Next
  BY <1>1, <1>2, <1>3, RedisShows, MapsReturn
<1>5. RedisKnows'
  <2>1. slot' = [slot EXCEPT ![c] = slot[c]] /\ found' = [found EXCEPT ![c] = <<>>] /\ \A o \in orphans' : Keyed(o.cmd)
    BY <1>1, <1>2, RedisClientKnows DEF RedisKnows
  <2> QED BY <1>1, <2>1, RedisEndsKnowing DEF Ended
<1> QED BY <1>4, <1>5

LEMMA RedisMapsOpen ==
  ASSUME RedisInv, RedisKnows, scheme = "redis", scheme' = scheme, NEW c \in Clients,
         RedisOpen(c) \/ RedisOpenFails(c)
  PROVE  RedisKnows' /\ Contract!Next
<1>1. CASE RedisOpen(c)
  <2>1. /\ trip[c].at = "start" /\ slot' = [slot EXCEPT ![c] = NewStream]
        /\ UNCHANGED <<db, trip, found, orphans, sent, call, since, made>> /\ Unseen
    BY <1>1 DEF RedisOpen, Unseen, Doing
  <2>2. Contract!Next
    BY <2>1, RedisShows, MapsInternal
  <2>3. Knows(call[c], trip[c], NewStream, since[c], found[c])
    BY <2>1, RedisClientKnows DEF Knows
  <2>4. \A o \in orphans' : Keyed(o.cmd)
    BY <2>1 DEF RedisKnows
  <2>5. /\ call' = [call EXCEPT ![c] = call[c]] /\ since' = [since EXCEPT ![c] = since[c]]
        /\ found' = [found EXCEPT ![c] = found[c]] /\ trip' = [trip EXCEPT ![c] = trip[c]]
        /\ found[c] \in Seq(Word) /\ (\A s \in since[c] : Ordered(s))
        /\ IF call[c] = NoCall THEN since[c] = {} ELSE call[c] \in AllCalls /\ db \in since[c]
    BY <2>1, RedisClientKnows DEF RedisKnows
  <2>6. RedisKnows'
    BY <2>1, <2>3, <2>4, <2>5, RedisMoves
  <2> QED BY <2>2, <2>6
<1>2. CASE RedisOpenFails(c)
  <2>1. /\ trip[c].at = "start" /\ Ended(c, PANIC) /\ trip' = [trip EXCEPT ![c] = NoTrip]
        /\ found' = [found EXCEPT ![c] = <<>>] /\ UNCHANGED <<db, slot, orphans, sent>>
    BY <1>2 DEF RedisOpenFails, Panic, Doing
  <2>2. call[c] # NoCall
    BY <2>1, RedisClientKnows
  <2>3. Contract!Next
    BY <2>1, <2>2, RedisShows, MapsFail
  <2>4. slot' = [slot EXCEPT ![c] = slot[c]] /\ \A o \in orphans' : Keyed(o.cmd)
    BY <2>1, RedisClientKnows DEF RedisKnows
  <2>5. RedisKnows'
    BY <2>1, <2>4, RedisEndsKnowing DEF Ended
  <2> QED BY <2>3, <2>5
<1> QED BY <1>1, <1>2

LEMMA RedisMapsWrite ==
  ASSUME RedisInv, RedisKnows, scheme = "redis", scheme' = scheme, NEW c \in Clients,
         RedisWrite(c) \/ RedisWriteFails(c)
  PROVE  RedisKnows' /\ Contract!Next
<1>1. CASE RedisWrite(c)
  <2> DEFINE s == [slot[c] EXCEPT !.req = Append(@, [cmd |-> trip[c].cmd, by |-> sent[c] + 1])]
             t == [trip[c] EXCEPT !.at = "read"]
  <2>1. /\ trip[c].at = "start" /\ slot' = [slot EXCEPT ![c] = s] /\ trip' = [trip EXCEPT ![c] = t]
        /\ UNCHANGED <<db, found, orphans, call, since, made>> /\ Unseen
    BY <1>1 DEF RedisWrite, Unseen, Doing, RedisInv
  <2>2. Contract!Next
    BY <2>1, RedisShows, MapsInternal
  <2>3. t.at = "read" /\ t.cmd = trip[c].cmd
    BY RedisClientTypes DEF TripType
  <2>4. s.req # <<>>
    <3> DEFINE rs == slot[c].req
               r == [cmd |-> trip[c].cmd, by |-> sent[c] + 1]
    <3>0. rs \in Seq(RequestType) /\ slot[c] \in StreamType /\ r \in RequestType
      <4>1. trip[c].cmd \in CmdType /\ sent[c] + 1 \in Nat
        BY RedisClientTypes
      <4> QED BY <4>1, RedisClientTypes DEF RequestType
    <3> HIDE DEF r
    <3>1. rs \in Seq(RequestType) /\ r \in RequestType /\ s.req = Append(rs, r)
      <4>1. s = [slot[c] EXCEPT !.req = Append(rs, r)]
        BY DEF r
      <4> HIDE DEF s, rs
      <4> QED BY <3>0, <4>1 DEF StreamType
    <3> HIDE DEF rs, r, s
    <3>2. Len(Append(rs, r)) = Len(rs) + 1 /\ Len(rs) \in Nat /\ Append(rs, r) \in Seq(RequestType)
      BY <3>1
    <3>3. Append(rs, r) # <<>>
      BY <3>2, EmptySeq
    <3> QED BY <3>1, <3>3
  <2> HIDE DEF s, t
  <2>5. Knows(call[c], t, s, since[c], found[c])
    BY <2>1, <2>3, <2>4, RedisClientKnows DEF Knows
  <2>6. \A o \in orphans' : Keyed(o.cmd)
    BY <2>1 DEF RedisKnows
  <2>7. /\ call' = [call EXCEPT ![c] = call[c]] /\ since' = [since EXCEPT ![c] = since[c]]
        /\ found' = [found EXCEPT ![c] = found[c]]
        /\ found[c] \in Seq(Word) /\ (\A y \in since[c] : Ordered(y))
        /\ IF call[c] = NoCall THEN since[c] = {} ELSE call[c] \in AllCalls /\ db \in since[c]
    BY <2>1, RedisClientKnows DEF RedisKnows
  <2>8. RedisKnows'
    BY <2>1, <2>5, <2>6, <2>7, RedisMoves
  <2> QED BY <2>2, <2>8
<1>2. CASE RedisWriteFails(c)
  <2>1. /\ trip[c].at = "start" /\ Ended(c, PANIC) /\ trip' = [trip EXCEPT ![c] = NoTrip]
        /\ found' = [found EXCEPT ![c] = <<>>] /\ slot' = [slot EXCEPT ![c] = NoStream]
        /\ orphans' = orphans /\ UNCHANGED <<db, sent>>
    BY <1>2 DEF RedisWriteFails, LoseStream, Panic, Doing
  <2>2. call[c] # NoCall
    BY <2>1, RedisClientKnows
  <2>3. Contract!Next
    BY <2>1, <2>2, RedisShows, MapsFail
  <2>4. \A o \in orphans' : Keyed(o.cmd)
    BY <2>1 DEF RedisKnows
  <2>5. RedisKnows'
    BY <2>1, <2>4, RedisEndsKnowing DEF Ended
  <2> QED BY <2>3, <2>5
<1> QED BY <1>1, <1>2

\* A read fails: the command it waited for may still be executed.
LEMMA RedisMapsReadFails ==
  ASSUME RedisInv, RedisKnows, scheme = "redis", scheme' = scheme, NEW c \in Clients, RedisReadFails(c)
  PROVE  RedisKnows' /\ Contract!Next
<1> DEFINE m == trip[c].cmd
           o == [cmd |-> m, by |-> <<c, sent[c]>>]
<1>1. /\ trip[c].at = "read" /\ Ended(c, PANIC) /\ trip' = [trip EXCEPT ![c] = NoTrip]
      /\ found' = [found EXCEPT ![c] = <<>>] /\ slot' = [slot EXCEPT ![c] = NoStream]
      /\ UNCHANGED <<db, sent>>
  BY DEF RedisReadFails, LoseStream, Panic, Doing
<1>2. call[c] # NoCall /\ call[c] \in AllCalls /\ IsCommand(call[c], m, since[c])
  BY <1>1, RedisClientKnows DEF Knows
<1>3. Keyed(m) /\ (m.op \in Writes => m \in Effects(call[c], since[c]))
  BY <1>2, Commands
<1>4. orphans' = orphans \/ (m.op \in Writes /\ orphans' = orphans \cup {o})
  <2>1. PICK left \in {{}, ToSet(slot[c].req)} :
          orphans' = orphans \cup {r \in {[cmd |-> r.cmd, by |-> <<c, r.by>>] : r \in left} : r.cmd.op \in Writes}
    BY DEF RedisReadFails, LoseStream
  <2>2. slot[c].req = <<>> \/ slot[c].req = <<[cmd |-> m, by |-> sent[c]]>>
    BY <1>1, RedisClientTypes DEF StreamOK
  <2>3. ToSet(<<>>) = {} /\ \A r : ToSet(<<r>>) = {r}
    BY DEF ToSet
  <2>4. left = {} \/ left = {[cmd |-> m, by |-> sent[c]]}
    BY <2>1, <2>2, <2>3
  <2>5. CASE left = {}
    BY <2>1, <2>5
  <2>6. CASE left = {[cmd |-> m, by |-> sent[c]]}
    <3>1. {[cmd |-> r.cmd, by |-> <<c, r.by>>] : r \in left} = {o}
      BY <2>6
    <3>2. o.cmd = m
      OBVIOUS
    <3> HIDE DEF o
    <3>3. orphans' = orphans \cup {r \in {o} : r.cmd.op \in Writes}
      BY <2>1, <3>1
    <3> QED BY <3>2, <3>3
  <2> QED BY <2>4, <2>5, <2>6
<1>5. o.cmd = m
  OBVIOUS
<1> HIDE DEF o, m
<1>6. Behind' = Behind \/ \E e \in Effects(call[c], since[c]) : Behind' = Behind \cup {e}
  <2>1. CASE orphans' = orphans
    BY <2>1, RedisShows
  <2>2. CASE m.op \in Writes /\ orphans' = orphans \cup {o}
    <3>1. Behind' = Behind \cup {m}
      BY <1>5, <2>2, RedisShows DEF RedisPending
    <3> QED BY <1>3, <2>2, <3>1
  <2> QED BY <1>4, <2>1, <2>2
<1>7. UNCHANGED Shown
  BY <1>1, RedisShows
<1>8. Contract!Next
  BY <1>1, <1>2, <1>6, <1>7, MapsFail
<1>9. \A x \in orphans' : Keyed(x.cmd)
  BY <1>3, <1>4, <1>5 DEF RedisKnows
<1>10. RedisKnows'
  BY <1>1, <1>9, RedisEndsKnowing DEF Ended
<1> QED BY <1>8, <1>10

\* Every client in a call has seen the contents.
LEMMA RedisSeen ==
  ASSUME RedisInv, RedisKnows, Unseen \/ Seen(db)
  PROVE  Unseen
<1>1. ASSUME Seen(db) PROVE since' = since
  <2>1. since = [c \in Clients |-> since[c]]
    BY DEF RedisKnows
  <2>2. \A c \in Clients : since[c] = IF call[c] = NoCall THEN {} ELSE since[c] \cup {db}
    BY DEF RedisKnows
  <2>3. since' = [c \in Clients |-> IF call[c] = NoCall THEN {} ELSE since[c] \cup {db}]
    BY <1>1 DEF Seen
  <2> QED BY <2>1, <2>2, <2>3
<1> QED BY <1>1 DEF Seen, Unseen

\* The contents change, and possibly the stream of one client.
LEMMA RedisStores ==
  ASSUME RedisInv, RedisKnows, Ordered(db'), Seen(db'), UNCHANGED <<trip, found>>, \A o \in orphans' : Keyed(o.cmd),
         \A c \in Clients : \/ slot'[c] = slot[c]
                            \/ Knows(call[c], trip[c], slot'[c], since[c] \cup {db'}, found[c])
  PROVE  RedisKnows'
<1>1. call' = call /\ since' = [c \in Clients |-> IF call[c] = NoCall THEN {} ELSE since[c] \cup {db'}]
  BY DEF Seen
<1>2. \A c \in Clients : call[c] = NoCall => since[c] = {} /\ trip[c].at = "none"
  <2>1. \A c \in Clients : call[c] = NoCall => trip[c] = NoTrip
    BY RedisClientTypes DEF StreamOK
  <2> QED BY <2>1 DEF RedisKnows, NoTrip
<1>3. ASSUME NEW c \in Clients PROVE Knows(call'[c], trip'[c], slot'[c], since'[c], found'[c])
  <2>1. CASE call[c] = NoCall
    <3>1. found[c] = <<>>
      BY <1>2, <2>1, RedisClientKnows DEF Knows
    <3> QED BY <1>1, <1>2, <2>1, <3>1 DEF Knows
  <2>2. CASE call[c] # NoCall
    <3>1. since'[c] = since[c] \cup {db'}
      BY <1>1, <2>2
    <3>2. Knows(call[c], trip[c], slot[c], since[c] \cup {db'}, found[c])
      BY RedisClientKnows, KnowsGrows
    <3> QED BY <1>1, <3>1, <3>2
  <2> QED BY <2>1, <2>2
<1>4. \A c \in Clients : \A s \in since'[c] : Ordered(s)
  BY <1>1 DEF RedisKnows
<1>5. \A c \in Clients : IF call'[c] = NoCall THEN since'[c] = {} ELSE call'[c] \in AllCalls /\ db' \in since'[c]
  BY <1>1 DEF RedisKnows
<1>6. since' = [c \in Clients |-> since'[c]]
  BY <1>1
<1>7. found' \in [Clients -> Seq(Word)]
  BY DEF RedisKnows
<1> QED BY <1>3, <1>4, <1>5, <1>6, <1>7 DEF RedisKnows

LEMMA RedisMapsOrphan ==
  ASSUME RedisInv, RedisKnows, scheme = "redis", scheme' = scheme, RedisOrphan
  PROVE  RedisKnows' /\ Contract!Next
<1>1. PICK o \in orphans : /\ db' = Effect(o.cmd, db) /\ orphans' = orphans \ {o} /\ Seen(db')
                           /\ UNCHANGED <<slot, trip, found, sent>>
  BY DEF RedisOrphan
<1>2. Keyed(o.cmd) /\ Ordered(db)
  BY DEF RedisKnows
<1>3. Ordered(db')
  BY <1>1, <1>2, OrderedEffect
<1>4. RedisKnows'
  BY <1>1, <1>3, RedisStores DEF RedisKnows
<1>5. o.cmd \in Behind /\ Behind' \in {Behind, Behind \ {o.cmd}}
  <2>1. Behind = {x.cmd : x \in orphans} /\ Behind' = {x.cmd : x \in orphans \ {o}}
    BY <1>1, RedisShows DEF RedisPending
  <2>2. CASE \E x \in orphans \ {o} : x.cmd = o.cmd
    BY <2>1, <2>2
  <2>3. CASE ~ \E x \in orphans \ {o} : x.cmd = o.cmd
    BY <2>1, <2>3
  <2> QED BY <2>1, <2>2, <2>3
<1>6. Shown' = Effect(o.cmd, Shown) /\ Seen(Shown')
  BY <1>1, RedisShows
<1>7. Contract!Next
  BY <1>5, <1>6, MapsApply
<1> QED BY <1>4, <1>7

\* The command that waits on the stream of c.
LEMMA RedisWaits ==
  ASSUME RedisInv, RedisKnows, NEW c \in Clients, slot[c].req # <<>>
  PROVE  /\ trip[c].at = "read" /\ Head(slot[c].req).cmd = trip[c].cmd /\ Head(slot[c].req).by = sent[c]
         /\ Tail(slot[c].req) = <<>> /\ slot[c].rep = <<>> /\ trip[c].got = <<>>
         /\ call[c] # NoCall /\ call[c] \in AllCalls /\ IsCommand(call[c], trip[c].cmd, since[c]) /\ db \in since[c]
<1>1. /\ trip[c].at = "read" /\ slot[c].req = <<[cmd |-> trip[c].cmd, by |-> sent[c]]>>
      /\ slot[c].rep = <<>> /\ trip[c].got = <<>>
  BY RedisClientTypes DEF StreamOK
<1>2. call[c] # NoCall /\ call[c] \in AllCalls /\ IsCommand(call[c], trip[c].cmd, since[c]) /\ db \in since[c]
  BY <1>1, RedisClientKnows DEF Knows
<1>3. \A r : Head(<<r>>) = r /\ Tail(<<r>>) = <<>>
  OBVIOUS
<1> QED BY <1>1, <1>2, <1>3

\* The tokens of a reply arrive on the stream of c.
LEMMA RedisReplies ==
  ASSUME RedisInv, RedisKnows, NEW c \in Clients, slot[c].req # <<>>, NEW w \in Seq(Token), NEW seen,
         since[c] \subseteq seen, Told(trip[c].cmd, w, seen),
         slot' = [slot EXCEPT ![c].req = Tail(@), ![c].rep = @ \o w]
  PROVE  /\ Knows(call[c], trip[c], slot'[c], seen, found[c])
         /\ \A d \in Clients \ {c} : slot'[d] = slot[d]
<1>1. slot'[c].req = <<>> /\ slot'[c].rep = w /\ \A d \in Clients \ {c} : slot'[d] = slot[d]
  <2>1. Tail(slot[c].req) = <<>> /\ slot[c].rep \o w = w
    BY RedisWaits, ConcatEmptySeq
  <2>2. slot[c] \in StreamType /\ DOMAIN slot = Clients
    BY RedisClientTypes DEF RedisInv
  <2>3. slot'[c] = [slot[c] EXCEPT !.req = Tail(slot[c].req), !.rep = slot[c].rep \o w]
    BY <2>2 DEF StreamType
  <2>4. \A d \in Clients \ {c} : slot'[d] = slot[d]
    BY <2>2
  <2> QED BY <2>1, <2>2, <2>3, <2>4 DEF StreamType
<1>2. trip[c].got \o w = w
  BY RedisWaits, ConcatEmptySeq
<1>3. Knows(call[c], trip[c], slot[c], seen, found[c])
  BY RedisClientKnows, KnowsGrows
<1> QED BY <1>1, <1>2, <1>3 DEF Knows

LEMMA RedisMapsExec ==
  ASSUME RedisInv, RedisKnows, scheme = "redis", scheme' = scheme, NEW c \in Clients, RedisExec(c)
  PROVE  RedisKnows' /\ Contract!Next
<1> DEFINE m == trip[c].cmd
<1>1. slot[c].req # <<>>
  BY DEF RedisExec
<1>2. /\ Head(slot[c].req).cmd = m /\ Head(slot[c].req).by = sent[c] /\ call[c] \in AllCalls
      /\ IsCommand(call[c], m, since[c]) /\ db \in since[c] /\ call[c] # NoCall
  BY <1>1, RedisWaits
<1>3. db' = Effect(m, db) /\ Seen(db') /\ UNCHANGED <<trip, found, orphans, sent>>
  BY <1>2 DEF RedisExec
<1>4. PICK reply \in Answers(m, db) :
        slot' = [slot EXCEPT ![c].req = Tail(@), ![c].rep = @ \o Numbered(reply, sent[c])]
  <2>1. \E reply \in Answers(trip[c].cmd, db) :
          slot' = [slot EXCEPT ![c].req = Tail(@), ![c].rep = @ \o Numbered(reply, Head(slot[c].req).by)]
    BY <1>2 DEF RedisExec, Numbered
  <2> QED BY <1>2, <2>1
<1>5. m \in CmdType /\ Keyed(m) /\ (m.op \in Writes => m \in Effects(call[c], since[c]))
  BY <1>2, Commands
<1>6. HoldsWords(db) /\ Ordered(db) /\ sent[c] \in Nat
  BY RedisClientTypes DEF RedisInv, RedisKnows
<1> DEFINE w == Numbered(reply, sent[c])
           seen == since[c] \cup {db'}
<1>7. w \in Seq(Token)
  <2>1. reply \in Seq(Token) /\ Reads(reply, 0)
    BY <1>5, <1>6, AnswersRead DEF IsAnswer
  <2> QED BY <1>6, <2>1, ReadsNumbered
<1>8. Says(m, db, w)
  BY <1>2, <1>5, <1>6, AnswerSays, CallFacts, Commands
<1> HIDE DEF w, m
<1>9. Told(m, w, seen)
  BY <1>2, <1>3, <1>8 DEF Told
<1>10. since[c] \subseteq seen
  OBVIOUS
<1> HIDE DEF seen
<1>11. /\ Knows(call[c], trip[c], slot'[c], seen, found[c])
       /\ \A d \in Clients \ {c} : slot'[d] = slot[d]
  BY <1>1, <1>4, <1>7, <1>9, <1>10, RedisReplies DEF w, m
<1>12. Ordered(db')
  BY <1>3, <1>5, <1>6, OrderedEffect
<1>13. \A d \in Clients : \/ slot'[d] = slot[d]
                          \/ Knows(call[d], trip[d], slot'[d], since[d] \cup {db'}, found[d])
  BY <1>11 DEF seen
<1>14. RedisKnows'
  BY <1>3, <1>12, <1>13, RedisStores DEF RedisKnows
<1>15. Contract!Next
  <2>1. Shown' = Effect(m, Shown) /\ Seen(Shown') /\ Behind' = Behind
    BY <1>3, RedisShows
  <2>2. CASE m.op \in Writes
    <3>1. \E d \in Clients : m \in Effects(call[d], since[d])
      BY <1>5, <2>2
    <3> QED BY <2>1, <3>1, MapsApply
  <2>3. CASE m.op \notin Writes
    <3>1. db' = db
      BY <1>3, <2>3 DEF Effect, Writes
    <3>2. Unseen
      BY <1>3, <3>1, RedisSeen
    <3> QED BY <2>1, <3>1, <3>2, RedisShows, MapsInternal
  <2> QED BY <2>2, <2>3
<1> QED BY <1>14, <1>15

LEMMA RedisMapsRefuse ==
  ASSUME RedisInv, RedisKnows, scheme = "redis", scheme' = scheme, NEW c \in Clients, RedisRefuses(c)
  PROVE  RedisKnows' /\ Contract!Next
<1> DEFINE t == [Error[1] EXCEPT !.by = Head(slot[c].req).by]
           w == <<t>>
<1>1. /\ slot[c].req # <<>> /\ slot' = [slot EXCEPT ![c].req = Tail(@), ![c].rep = @ \o w]
      /\ UNCHANGED <<db, trip, found, orphans, sent, call, since, made>> /\ Unseen
  BY DEF RedisRefuses, Unseen
<1>2. Contract!Next
  BY <1>1, RedisShows, MapsInternal
<1>3. t.kind = "-" /\ t \in Token
  <2>1. Head(slot[c].req).by = sent[c] /\ sent[c] \in Nat
    BY <1>1, RedisWaits, RedisClientTypes
  <2>2. t = [kind |-> "-", n |-> 0, val |-> <<>>, by |-> sent[c]]
    BY <2>1 DEF Error, Tok
  <2> HIDE DEF t
  <2> QED BY <2>1, <2>2, WordsBasic DEF Token
<1> HIDE DEF t
<1>4. w \in Seq(Token) /\ w[1].kind = "-"
  BY <1>3
<1> HIDE DEF w
<1>5. Told(trip[c].cmd, w, since[c])
  BY <1>4 DEF Told
<1>6. /\ Knows(call[c], trip[c], slot'[c], since[c], found[c])
      /\ \A d \in Clients \ {c} : slot'[d] = slot[d]
  BY <1>1, <1>4, <1>5, RedisReplies
<1>7. \A d \in Clients : Knows(call'[d], trip'[d], slot'[d], since'[d], found'[d])
  BY <1>1, <1>6 DEF RedisKnows
<1>8. RedisKnows'
  BY <1>1, <1>7 DEF RedisKnows
<1> QED BY <1>2, <1>8

LEMMA RedisMapsRead ==
  ASSUME RedisInv, RedisKnows, scheme = "redis", scheme' = scheme, NEW c \in Clients, RedisRead(c)
  PROVE  RedisKnows' /\ Contract!Next
<1> DEFINE a == trip[c].got
           b == slot[c].rep
           got == Append(a, Head(b))
           s == [slot[c] EXCEPT !.rep = Tail(b)]
           m == trip[c].cmd
<1>1. /\ trip[c].at = "read" /\ b # <<>> /\ slot' = [slot EXCEPT ![c] = s]
      /\ UNCHANGED <<db, orphans, sent>>
      /\ IF Needed(got) > 0
         THEN trip' = [trip EXCEPT ![c].got = got] /\ UNCHANGED found /\ Unseen
         ELSE Complete(c, got, found[c] \o scanned(m, got))
  BY DEF RedisRead, Doing
<1>2. /\ trip[c] \in TripType /\ slot[c] \in StreamType /\ a \in Seq(Token) /\ b \in Seq(Token)
      /\ StreamOK(call[c], trip[c], slot[c], sent[c])
  BY RedisClientTypes
<1>3. slot[c].req = <<>> /\ WholeReply(m, sent[c], a \o b)
  BY <1>1, <1>2 DEF StreamOK
<1>4. /\ call[c] # NoCall /\ call[c] \in AllCalls /\ IsCommand(call[c], m, since[c]) /\ Told(m, a \o b, since[c])
      /\ call[c].op = "scan" => ScanKnows(call[c], m.off, found[c], since[c])
      /\ found[c] \in Seq(Word) /\ (\A y \in since[c] : Ordered(y)) /\ db \in since[c]
  BY <1>1, <1>3, RedisClientKnows DEF Knows
<1>5. \A o \in orphans' : Keyed(o.cmd)
  BY <1>1 DEF RedisKnows
<1> HIDE DEF a, b
<1>6. /\ got \in Seq(Token) /\ Tail(b) \in Seq(Token) /\ got \o Tail(b) = a \o b
      /\ Len(a) + 1 \in 1 .. Len(a \o b) /\ got = SubSeq(a \o b, 1, Len(a) + 1)
      /\ Tail(b) = <<>> <=> Len(a) + 1 = Len(a \o b)
  BY <1>1, <1>2, TakeOne
<1>7. s.req = <<>> /\ s.rep = Tail(b)
  BY <1>2, <1>3 DEF StreamType
<1>8. Len(a) + 1 < Len(a \o b) => Needed(got) > 0
  <2> DEFINE w == a \o b
             k == Len(a) + 1
  <2>1. w \in Seq(Token) /\ Reads(w, 0) /\ k \in 1 .. Len(w) /\ got = SubSeq(w, 1, k)
    BY <1>3, <1>6 DEF WholeReply
  <2> HIDE DEF w, k, got
  <2>2. k < Len(w) => Needed(got) > 0
    BY <2>1, ReadsNeeded
  <2> QED BY <2>2 DEF w, k
<1> HIDE DEF got, s
<1>9. CASE Needed(got) > 0
  <2> DEFINE t == [trip[c] EXCEPT !.got = got]
  <2>1. trip' = [trip EXCEPT ![c] = t] /\ UNCHANGED <<call, made, since, found>> /\ Unseen
    BY <1>1, <1>9 DEF Unseen
  <2>2. t.at = "read" /\ t.got = got /\ t.cmd = m
    BY <1>1, <1>2 DEF TripType
  <2> HIDE DEF t
  <2>3. Knows(call[c], t, s, since[c], found[c])
    BY <1>4, <1>6, <1>7, <2>2 DEF Knows
  <2>4. /\ call' = [call EXCEPT ![c] = call[c]] /\ since' = [since EXCEPT ![c] = since[c]]
        /\ found' = [found EXCEPT ![c] = found[c]]
        /\ IF call[c] = NoCall THEN since[c] = {} ELSE call[c] \in AllCalls /\ db \in since[c]
    BY <1>4, <2>1, RedisClientKnows
  <2>5. RedisKnows'
    BY <1>1, <1>4, <1>5, <2>1, <2>3, <2>4, RedisMoves
  <2>6. Contract!Next
    BY <1>1, <2>1, RedisShows, MapsInternal
  <2> QED BY <2>5, <2>6
<1>10. CASE ~ (Needed(got) > 0)
  <2> DEFINE keys == found[c] \o scanned(m, got)
             next == Resume(call[c], m, got, keys)
  <2>1. got = a \o b
    <3>1. Tail(b) = <<>>
      BY <1>6, <1>8, <1>10
    <3>2. got \o Tail(b) = got
      BY <1>6, <3>1, ConcatEmptySeq
    <3> QED BY <1>6, <3>1, <3>2
  <2>2. Complete(c, got, keys)
    BY <1>1, <1>10
  <2>3. CASE got[1].kind = "-"
    <3>1. Ended(c, PANIC) /\ trip' = [trip EXCEPT ![c] = NoTrip] /\ found' = [found EXCEPT ![c] = <<>>]
      BY <2>2, <2>3 DEF Complete, Panic
    <3>2. RedisKnows'
      BY <1>1, <1>5, <3>1, RedisEndsKnowing DEF Ended
    <3>3. Contract!Next
      BY <1>1, <1>4, <3>1, RedisShows, MapsFail
    <3> QED BY <3>2, <3>3
  <2>4. ASSUME got[1].kind # "-" PROVE Goes(call[c], next, keys, since[c])
    <3>1. PICK y \in since[c] : Says(m, y, got) /\ Effect(m, y) \in since[c]
      BY <1>4, <2>1, <2>4 DEF Told
    <3> QED BY <1>4, <3>1, ResumeGoes
  <2>5. CASE got[1].kind # "-" /\ next.cmd = NoCall
    <3> HIDE DEF keys
    <3>1. /\ Ended(c, Answered(next.ans)) /\ trip' = [trip EXCEPT ![c] = NoTrip]
          /\ found' = [found EXCEPT ![c] = <<>>]
      BY <2>2, <2>5 DEF Complete
    <3> HIDE DEF next
    <3>2. Honest(call[c], next.ans, since[c])
      BY <2>4, <2>5 DEF Goes
    <3>3. RedisKnows'
      BY <1>1, <1>5, <3>1, RedisEndsKnowing DEF Ended
    <3>4. Contract!Next
      BY <1>1, <1>4, <3>1, <3>2, RedisShows, MapsReturn
    <3> QED BY <3>3, <3>4
  <2>6. CASE got[1].kind # "-" /\ next.cmd # NoCall
    <3> DEFINE t == Begin(next.cmd)
    <3>0. keys \in Seq(Word)
      <4>1. call[c].op = "scan" => ScanKnows(call[c], next.cmd.off, keys, since[c])
        BY <2>4, <2>6 DEF Goes
      <4>2. call[c].op # "scan" => m.op # "scan"
        <5>1. call[c] \in CallType
          BY <1>4, CallFacts
        <5> QED BY <1>4, <5>1 DEF IsCommand, CallType
      <4>3. call[c].op # "scan" => scanned(m, got) = <<>>
        BY <4>2 DEF scanned
      <4>4. <<>> \in Seq(Word) /\ found[c] \o <<>> \in Seq(Word)
        BY <1>4
      <4> QED BY <4>1, <4>3, <4>4 DEF ScanKnows
    <3> HIDE DEF keys
    <3>1. trip' = [trip EXCEPT ![c] = t] /\ found' = [found EXCEPT ![c] = keys] /\ Unseen
      BY <2>2, <2>6 DEF Complete
    <3> HIDE DEF next
    <3>2. t.at = "start" /\ t.cmd = next.cmd
      BY DEF Begin
    <3> HIDE DEF t
    <3>3. IsCommand(call[c], next.cmd, since[c]) /\ (call[c].op = "scan" => ScanKnows(call[c], next.cmd.off, keys, since[c]))
      BY <2>4, <2>6 DEF Goes
    <3>4. Knows(call[c], t, s, since[c], keys)
      BY <3>2, <3>3 DEF Knows
    <3>5. /\ call' = [call EXCEPT ![c] = call[c]] /\ since' = [since EXCEPT ![c] = since[c]]
          /\ IF call[c] = NoCall THEN since[c] = {} ELSE call[c] \in AllCalls /\ db \in since[c]
      BY <1>4, <3>1, RedisClientKnows DEF Unseen
    <3>6. RedisKnows'
      BY <1>1, <1>4, <1>5, <3>0, <3>1, <3>4, <3>5, RedisMoves
    <3>7. Contract!Next
      BY <1>1, <3>1, RedisShows, MapsInternal
    <3> QED BY <3>6, <3>7
  <2> QED BY <2>3, <2>5, <2>6
<1> QED BY <1>9, <1>10

LEMMA RedisMaps ==
  ASSUME RedisInv, RedisKnows, scheme = "redis", scheme' = scheme, RedisNext
  PROVE  RedisKnows' /\ Contract!Next
<1>1. CASE \E c \in Clients : \E q \in NextCalls(c) : RedisInvoke(c, q)
  BY <1>1, RedisMapsInvoke
<1>2. ASSUME NEW c \in Clients, RedisClient(c) \/ RedisExec(c) \/ RedisRefuses(c)
      PROVE  RedisKnows' /\ Contract!Next
  BY <1>2, RedisMapsSkip, RedisMapsOpen, RedisMapsWrite, RedisMapsRead, RedisMapsReadFails, RedisMapsExec,
     RedisMapsRefuse DEF RedisClient
<1> QED BY <1>1, <1>2, RedisMapsOrphan DEF RedisNext

LEMMA RedisKnowsFirst ==
  ASSUME RedisInit, ClientsInit
  PROVE  RedisKnows
<1>1. Ordered(db)
  BY ServerAssumption DEF RedisInit, Ordered, HoldsWords
<1>2. ASSUME NEW c \in Clients PROVE Knows(call[c], trip[c], slot[c], since[c], found[c])
  <2>1. call[c] = NoCall /\ trip[c] = NoTrip /\ since[c] = {} /\ found[c] = <<>>
    BY DEF RedisInit, ClientsInit
  <2> QED BY <2>1, RedisIdle
<1>3. <<>> \in Seq(Word)
  OBVIOUS
<1> QED BY <1>1, <1>2, <1>3 DEF RedisKnows, RedisInit, ClientsInit

-----------------------------------------------------------------------------
\* Keys and object names, for a prefix p.

KeyOf(p, n) == Root \o drop(n, Len(p))
OwnOf(p, b) == [k \in {KeyOf(p, n) : n \in {x \in DOMAIN b : starts_with(x, p)}} |-> b[object_key(p, k)]]

LEMMA Joined ==
  ASSUME NEW T, NEW a \in Seq(T), NEW b \in Seq(T)
  PROVE  /\ a \o b \in Seq(T) /\ Len(a \o b) = Len(a) + Len(b) /\ Len(a) \in Nat /\ Len(b) \in Nat
         /\ \A i \in 1 .. Len(a) : (a \o b)[i] = a[i]
         /\ \A i \in 1 .. Len(b) : (a \o b)[Len(a) + i] = b[i]
OBVIOUS

LEMMA RootedElements ==
  ASSUME NEW k \in Word
  PROVE  starts_with(k, Root) <=> Len(k) >= 1 /\ k[1] = PATH_SEP
<1> DEFINE r == Root
<1>1. r \in Word /\ Len(r) = 1 /\ r[1] = PATH_SEP
  BY WordsBasic DEF Root
<1> HIDE DEF r
<1>2. starts_with(k, r) <=> Len(r) <= Len(k) /\ \A i \in 1 .. Len(r) : k[i] = r[i]
  BY <1>1, StartsElements
<1>3. Len(k) \in Nat
  BY DEF Word
<1>4. starts_with(k, r) <=> Len(k) >= 1 /\ k[1] = PATH_SEP
  BY <1>1, <1>2, <1>3
<1> QED BY <1>4 DEF r

\* Root \o x is a key, and x is what is after its '/'.
LEMMA RootedWord ==
  ASSUME NEW x \in Word
  PROVE  Root \o x \in Word /\ starts_with(Root \o x, Root) /\ Tail(Root \o x) = x
<1> DEFINE r == Root
           k == r \o x
<1>1. r \in Word /\ Len(r) = 1 /\ r[1] = PATH_SEP
  BY WordsBasic DEF Root
<1> HIDE DEF r
<1>2. k \in Word /\ starts_with(k, r)
  BY <1>1, ConcatStarts
<1>3. Len(k) = 1 + Len(x) /\ Len(x) \in Nat /\ \A i \in 1 .. Len(x) : k[1 + i] = x[i]
  <2>1. Len(k) = Len(r) + Len(x) /\ Len(x) \in Nat /\ \A i \in 1 .. Len(x) : k[Len(r) + i] = x[i]
    BY <1>1, Joined DEF Word
  <2> HIDE DEF k
  <2> QED BY <1>1, <2>1
<1> HIDE DEF k
<1>4. k # <<>>
  BY <1>2, <1>3 DEF Word
<1>5. Tail(k) \in Seq(Letters) /\ Len(Tail(k)) = Len(x) /\ \A i \in 1 .. Len(x) : Tail(k)[i] = x[i]
  <2>1. Tail(k) \in Seq(Letters) /\ Len(Tail(k)) = Len(k) - 1 /\ \A i \in 1 .. Len(Tail(k)) : Tail(k)[i] = k[i + 1]
    BY <1>2, <1>4, HeadTailProperties DEF Word
  <2> QED BY <1>3, <2>1
<1>6. Tail(k) = x
  BY <1>5, SeqEqual DEF Word
<1> QED BY <1>2, <1>6 DEF k, r

LEMMA RootedTail ==
  ASSUME NEW k \in Word, starts_with(k, Root)
  PROVE  Root \o Tail(k) = k
<1> DEFINE r == Root
           w == r \o Tail(k)
<1>1. r \in Seq(Letters) /\ Len(r) = 1 /\ r[1] = PATH_SEP
  BY WordsBasic DEF Root, Word
<1> HIDE DEF r
<1>2. Tail(k) \in Word /\ Len(k) >= 1 /\ k[1] = PATH_SEP
  BY TailWord, RootedElements
<1>3. k \in Seq(Letters) /\ k # <<>> /\ Len(k) \in Nat
  BY <1>2 DEF Word
<1>4. Len(Tail(k)) = Len(k) - 1 /\ \A i \in 1 .. Len(Tail(k)) : Tail(k)[i] = k[i + 1]
  BY <1>3, HeadTailProperties
<1>5. /\ w \in Seq(Letters) /\ Len(w) = Len(k) /\ w[1] = r[1]
      /\ \A i \in 1 .. Len(Tail(k)) : w[1 + i] = Tail(k)[i]
  <2> DEFINE t == Tail(k)
  <2>1. t \in Seq(Letters) /\ Len(t) = Len(k) - 1
    BY <1>2, <1>4 DEF Word
  <2> HIDE DEF t
  <2>2. /\ w \in Seq(Letters) /\ Len(w) = Len(r) + Len(t) /\ (\A i \in 1 .. Len(r) : w[i] = r[i])
        /\ \A i \in 1 .. Len(t) : w[Len(r) + i] = t[i]
    <3> DEFINE z == r \o t
    <3>1. /\ z \in Seq(Letters) /\ Len(z) = Len(r) + Len(t) /\ (\A i \in 1 .. Len(r) : z[i] = r[i])
          /\ \A i \in 1 .. Len(t) : z[Len(r) + i] = t[i]
      <4>1. r \in Seq(Letters) /\ t \in Seq(Letters)
        BY <1>1, <2>1
      <4> QED BY ONLY <4>1, Joined DEF z
    <3> HIDE DEF z
    <3>2. w = z
      BY DEF z, t
    <3> QED BY <3>1, <3>2
  <2> HIDE DEF w
  <2>3. Len(w) = Len(k) /\ w[1] = r[1] /\ \A i \in 1 .. Len(t) : w[1 + i] = t[i]
    BY <1>1, <1>3, <2>1, <2>2
  <2> QED BY <2>2, <2>3 DEF t
<1> HIDE DEF w
<1>6. ASSUME NEW i \in 1 .. Len(k) PROVE w[i] = k[i]
  <2>1. CASE i = 1
    BY <1>1, <1>2, <1>5, <2>1
  <2>2. CASE i # 1
    <3>1. PICK j \in 1 .. Len(Tail(k)) : i = 1 + j
      <4>1. i - 1 \in 1 .. Len(Tail(k)) /\ i = 1 + (i - 1)
        BY <1>3, <1>4, <2>2
      <4> QED BY <4>1
    <3>2. Tail(k)[j] = k[j + 1] /\ j + 1 = 1 + j
      BY <1>4
    <3> QED BY <1>5, <3>1, <3>2
  <2> QED BY <2>1, <2>2
<1>7. w = k
  BY <1>3, <1>5, <1>6, SeqEqual
<1> QED BY <1>7 DEF w, r

\* p, and what is after it.
LEMMA DropConcat ==
  ASSUME NEW p \in Word, NEW x \in Word
  PROVE  drop(p \o x, Len(p)) = x
<1> DEFINE w == p \o x
           d == SubSeq(w, Len(p) + 1, Len(w))
<1>1. /\ w \in Seq(Letters) /\ Len(w) = Len(p) + Len(x) /\ Len(p) \in Nat /\ Len(x) \in Nat
      /\ \A i \in 1 .. Len(x) : w[Len(p) + i] = x[i]
  BY DEF Word
<1> HIDE DEF w
<1>2. d \in Seq(Letters) /\ Len(d) = Len(x) /\ \A i \in 1 .. Len(x) : d[i] = w[Len(p) + i]
  BY <1>1
<1> HIDE DEF d
<1>3. d = x
  BY <1>1, <1>2, SeqEqual DEF Word
<1> QED BY <1>3 DEF drop, d, w

LEMMA ConcatDrop ==
  ASSUME NEW p \in Word, NEW n \in Word, starts_with(n, p)
  PROVE  drop(n, Len(p)) \in Word /\ p \o drop(n, Len(p)) = n
<1> DEFINE d == SubSeq(n, Len(p) + 1, Len(n))
           w == p \o d
<1>1. Len(p) <= Len(n) /\ (\A i \in 1 .. Len(p) : n[i] = p[i]) /\ Len(p) \in Nat /\ Len(n) \in Nat
  BY StartsElements DEF Word
<1>2. d \in Seq(Letters) /\ Len(d) = Len(n) - Len(p) /\ \A i \in 1 .. Len(d) : d[i] = n[Len(p) + i]
  BY <1>1 DEF Word
<1> HIDE DEF d
<1>3. /\ w \in Seq(Letters) /\ Len(w) = Len(p) + Len(d) /\ Len(d) \in Nat
      /\ \A i \in 1 .. Len(p) : w[i] = p[i]
      /\ \A i \in 1 .. Len(d) : w[Len(p) + i] = d[i]
  BY <1>2 DEF Word
<1> HIDE DEF w
<1>4. ASSUME NEW i \in 1 .. Len(n) PROVE w[i] = n[i]
  <2>1. CASE i <= Len(p)
    BY <1>1, <1>3, <2>1
  <2>2. CASE i > Len(p)
    <3>1. PICK j \in 1 .. Len(d) : i = Len(p) + j
      <4>1. i - Len(p) \in 1 .. Len(d) /\ i = Len(p) + (i - Len(p))
        BY <1>1, <1>2, <2>2
      <4> QED BY <4>1
    <3> QED BY <1>2, <1>3, <3>1
  <2> QED BY <1>1, <2>1, <2>2
<1>5. w = n
  <2>1. Len(w) = Len(n) /\ n \in Seq(Letters)
    BY <1>1, <1>2, <1>3 DEF Word
  <2> QED BY <1>3, <1>4, <2>1, SeqEqual
<1> QED BY <1>2, <1>5 DEF drop, d, w, Word

LEMMA KeyName ==
  ASSUME NEW p \in Word, NEW n \in Word, starts_with(n, p)
  PROVE  /\ KeyOf(p, n) \in Word /\ starts_with(KeyOf(p, n), Root) /\ object_key(p, KeyOf(p, n)) = n
<1> DEFINE d == drop(n, Len(p))
           k == Root \o d
<1>1. d \in Word /\ p \o d = n
  BY ConcatDrop
<1> HIDE DEF d
<1>2. k \in Word /\ starts_with(k, Root) /\ Tail(k) = d
  BY <1>1, RootedWord
<1> HIDE DEF k
<1>3. object_key(p, k) = n
  BY <1>1, <1>2 DEF object_key
<1> QED BY <1>2, <1>3 DEF KeyOf, k, d

LEMMA NameKey ==
  ASSUME NEW p \in Word, NEW k \in Word, starts_with(k, Root)
  PROVE  /\ object_key(p, k) \in Word /\ starts_with(object_key(p, k), p) /\ KeyOf(p, object_key(p, k)) = k
<1> DEFINE x == Tail(k)
<1>1. x \in Word /\ Root \o x = k /\ object_key(p, k) = p \o x
  BY TailWord, RootedTail DEF object_key
<1> HIDE DEF x
<1>2. drop(p \o x, Len(p)) = x
  BY <1>1, DropConcat
<1> QED BY <1>1, <1>2, ObjectKey DEF KeyOf

\* The keys of the contents are those of the names below the prefix.
LEMMA OwnKeys ==
  ASSUME NEW p \in Word, NEW b, DOMAIN b \subseteq Word
  PROVE  /\ \A k \in Word : starts_with(k, Root) =>
              /\ k \in DOMAIN OwnOf(p, b) <=> object_key(p, k) \in DOMAIN b
              /\ k \in DOMAIN OwnOf(p, b) => OwnOf(p, b)[k] = b[object_key(p, k)]
         /\ \A k \in DOMAIN OwnOf(p, b) : k \in Word /\ starts_with(k, Root) /\ object_key(p, k) \in DOMAIN b
<1>1. DOMAIN OwnOf(p, b) = {KeyOf(p, n) : n \in {x \in DOMAIN b : starts_with(x, p)}}
  BY DEF OwnOf
<1>2. \A k \in DOMAIN OwnOf(p, b) : OwnOf(p, b)[k] = b[object_key(p, k)]
  BY DEF OwnOf
<1>3. ASSUME NEW k \in DOMAIN OwnOf(p, b)
      PROVE  k \in Word /\ starts_with(k, Root) /\ object_key(p, k) \in DOMAIN b
  <2>1. PICK n \in DOMAIN b : starts_with(n, p) /\ k = KeyOf(p, n)
    BY <1>1
  <2>2. n \in Word
    OBVIOUS
  <2> QED BY <2>1, <2>2, KeyName
<1>4. ASSUME NEW k \in Word, starts_with(k, Root), object_key(p, k) \in DOMAIN b PROVE k \in DOMAIN OwnOf(p, b)
  <2>1. starts_with(object_key(p, k), p) /\ KeyOf(p, object_key(p, k)) = k
    BY <1>4, NameKey
  <2> QED BY <1>1, <1>4, <2>1
<1> QED BY <1>2, <1>3, <1>4

LEMMA OwnWith ==
  ASSUME NEW p \in Word, NEW b, DOMAIN b \subseteq Word, NEW n \in Word, starts_with(n, p), NEW v
  PROVE  OwnOf(p, With(b, n, v)) = With(OwnOf(p, b), KeyOf(p, n), v)
<1> DEFINE k == KeyOf(p, n)
           B == With(b, n, v)
           L == OwnOf(p, B)
           R == With(OwnOf(p, b), k, v)
<1>1. k \in Word /\ starts_with(k, Root) /\ object_key(p, k) = n
  BY KeyName
<1>2. DOMAIN B = DOMAIN b \cup {n} /\ B[n] = v /\ \A x \in DOMAIN b : x # n => B[x] = b[x]
  BY DEF With
<1>3. DOMAIN B \subseteq Word
  BY <1>2
<1> HIDE DEF B, k
<1>4. DOMAIN R = DOMAIN OwnOf(p, b) \cup {k} /\ R[k] = v /\ \A x \in DOMAIN OwnOf(p, b) : x # k => R[x] = OwnOf(p, b)[x]
  BY DEF With
<1>5. R = [x \in DOMAIN R |-> R[x]] /\ L = [x \in DOMAIN L |-> L[x]]
  BY DEF With, OwnOf
<1> HIDE DEF L, R
<1>6. \A x \in Word : starts_with(x, Root) => /\ x \in DOMAIN L <=> object_key(p, x) \in DOMAIN B
                                              /\ x \in DOMAIN L => L[x] = B[object_key(p, x)]
  BY <1>3, OwnKeys DEF L
<1>7. \A x \in DOMAIN L : x \in Word /\ starts_with(x, Root)
  BY <1>3, OwnKeys DEF L
<1>8. \A x \in Word : starts_with(x, Root) =>
        /\ x \in DOMAIN OwnOf(p, b) <=> object_key(p, x) \in DOMAIN b
        /\ x \in DOMAIN OwnOf(p, b) => OwnOf(p, b)[x] = b[object_key(p, x)]
  BY OwnKeys
<1>9. \A x \in DOMAIN OwnOf(p, b) : x \in Word /\ starts_with(x, Root)
  BY OwnKeys
<1>10. \A x \in Word : starts_with(x, Root) /\ object_key(p, x) = n => x = k
  BY NameKey DEF k
<1>11. DOMAIN L = DOMAIN R
  BY <1>1, <1>2, <1>4, <1>6, <1>7, <1>8, <1>9, <1>10
<1>12. ASSUME NEW x \in DOMAIN L PROVE L[x] = R[x]
  <2>1. x \in Word /\ starts_with(x, Root) /\ L[x] = B[object_key(p, x)]
    BY <1>6, <1>7
  <2>2. CASE x = k
    BY <1>1, <1>2, <1>4, <2>1, <2>2
  <2>3. CASE x # k
    <3>1. x \in DOMAIN OwnOf(p, b) /\ object_key(p, x) # n
      BY <1>4, <1>10, <1>11, <2>1, <2>3
    <3> QED BY <1>2, <1>4, <1>8, <2>1, <2>3, <3>1
  <2> QED BY <2>2, <2>3
<1>13. L = R
  BY <1>5, <1>11, <1>12
<1> QED BY <1>13 DEF L, R, B, k

LEMMA OwnWithout ==
  ASSUME NEW p \in Word, NEW b, DOMAIN b \subseteq Word, NEW n \in Word, starts_with(n, p)
  PROVE  OwnOf(p, Without(b, {n})) = Without(OwnOf(p, b), {KeyOf(p, n)})
<1> DEFINE k == KeyOf(p, n)
           B == Without(b, {n})
           L == OwnOf(p, B)
           R == Without(OwnOf(p, b), {k})
<1>1. k \in Word /\ starts_with(k, Root) /\ object_key(p, k) = n
  BY KeyName
<1>2. DOMAIN B = DOMAIN b \ {n} /\ \A x \in DOMAIN B : B[x] = b[x]
  BY DEF Without
<1>3. DOMAIN B \subseteq Word
  BY <1>2
<1> HIDE DEF B, k
<1>4. DOMAIN R = DOMAIN OwnOf(p, b) \ {k} /\ \A x \in DOMAIN R : R[x] = OwnOf(p, b)[x]
  BY DEF Without
<1>5. R = [x \in DOMAIN R |-> R[x]] /\ L = [x \in DOMAIN L |-> L[x]]
  BY DEF Without, OwnOf
<1> HIDE DEF L, R
<1>6. \A x \in Word : starts_with(x, Root) => /\ x \in DOMAIN L <=> object_key(p, x) \in DOMAIN B
                                              /\ x \in DOMAIN L => L[x] = B[object_key(p, x)]
  BY <1>3, OwnKeys DEF L
<1>7. \A x \in DOMAIN L : x \in Word /\ starts_with(x, Root)
  BY <1>3, OwnKeys DEF L
<1>8. \A x \in Word : starts_with(x, Root) =>
        /\ x \in DOMAIN OwnOf(p, b) <=> object_key(p, x) \in DOMAIN b
        /\ x \in DOMAIN OwnOf(p, b) => OwnOf(p, b)[x] = b[object_key(p, x)]
  BY OwnKeys
<1>9. \A x \in DOMAIN OwnOf(p, b) : x \in Word /\ starts_with(x, Root)
  BY OwnKeys
<1>10. \A x \in Word : starts_with(x, Root) /\ object_key(p, x) = n => x = k
  BY NameKey DEF k
<1>11. DOMAIN L = DOMAIN R
  BY <1>1, <1>2, <1>4, <1>6, <1>7, <1>8, <1>9, <1>10
<1>12. ASSUME NEW x \in DOMAIN L PROVE L[x] = R[x]
  <2>1. x \in Word /\ starts_with(x, Root) /\ L[x] = B[object_key(p, x)]
    BY <1>6, <1>7
  <2>2. x \in DOMAIN OwnOf(p, b) /\ object_key(p, x) \in DOMAIN B
    BY <1>4, <1>6, <1>11, <2>1
  <2> QED BY <1>2, <1>4, <1>8, <1>11, <2>1, <2>2
<1>13. L = R
  BY <1>5, <1>11, <1>12
<1> QED BY <1>13 DEF L, R, B, k

-----------------------------------------------------------------------------
\* Listings.

\* The first n elements of f are what of s, up to some place, is in P.
KeepsUpto(f, s, P, n) ==
  \E j \in 1 .. Len(s) :
    /\ f[n] = s[j] /\ s[j] \in P
    /\ \A i \in 1 .. j : s[i] \in P => \E l \in 1 .. n : f[l] = s[i]

\* Up to any element that Filter keeps, it has kept all it should.
LEMMA FilterOrder ==
  ASSUME NEW T, NEW s \in Seq(T), NEW P, NEW n \in 1 .. Len(Filter(s, P))
  PROVE  KeepsUpto(Filter(s, P), s, P, n)
<1>1. PICK f : Filters(f, T, s, P)
  BY FilterDef
<1> DEFINE L == Len(s)
           Upto(u, m, k) == \E j \in 1 .. k :
                              /\ u[m] = s[j] /\ s[j] \in P
                              /\ \A i \in 1 .. j : s[i] \in P => \E l \in 1 .. m : u[l] = s[i]
           All(u, k) == \A i \in 1 .. k : s[i] \in P => \E l \in 1 .. Len(u) : u[l] = s[i]
           S == {k \in Nat : k <= L => All(f[k], k) /\ \A m \in 1 .. Len(f[k]) : Upto(f[k], m, k)}
<1>2. L \in Nat /\ f \in [0 .. L -> Seq(T)] /\ f[0] = <<>> /\ Filter(s, P) = f[L]
  BY <1>1 DEF Filters
<1>3. 0 \in S
  <2>1. Len(f[0]) = 0
    BY <1>2
  <2> QED BY <2>1
<1>4. ASSUME NEW k \in Nat, k \in S PROVE k + 1 \in S
  <2> SUFFICES ASSUME k + 1 <= L
               PROVE  All(f[k + 1], k + 1) /\ \A m \in 1 .. Len(f[k + 1]) : Upto(f[k + 1], m, k + 1)
    OBVIOUS
  <2> DEFINE u == f[k]
             x == s[k + 1]
             v == Append(u, x)
  <2>0. k + 1 \in 1 .. L /\ k \in 0 .. L /\ (k + 1) - 1 = k /\ k <= L
    BY <1>2
  <2>1. k + 1 \in 1 .. L /\ k \in 0 .. L /\ (k + 1) - 1 = k /\ All(u, k) /\ \A m \in 1 .. Len(u) : Upto(u, m, k)
    <3> HIDE DEF All, Upto
    <3> QED BY <1>4, <2>0
  <2>2. u \in Seq(T) /\ x \in T /\ Len(u) \in Nat
    BY ONLY s \in Seq(T), <1>2, <2>0
  <2>3. f[k + 1] = IF x \in P THEN v ELSE u
    BY <1>1, <2>1 DEF Filters
  <2> HIDE DEF u
  <2>4. Len(v) = Len(u) + 1 /\ v[Len(u) + 1] = x /\ \A l \in 1 .. Len(u) : v[l] = u[l]
    BY <2>2
  <2> HIDE DEF v
  <2>5. CASE x \notin P
    <3>1. All(u, k + 1)
      <4>1. \A i \in 1 .. k + 1 : i \in 1 .. k \/ i = k + 1
        OBVIOUS
      <4> QED BY <2>1, <2>5, <4>1
    <3>2. \A m \in 1 .. Len(u) : Upto(u, m, k + 1)
      <4> SUFFICES ASSUME NEW m \in 1 .. Len(u) PROVE Upto(u, m, k + 1)
        OBVIOUS
      <4>1. PICK j \in 1 .. k : /\ u[m] = s[j] /\ s[j] \in P
                                /\ \A i \in 1 .. j : s[i] \in P => \E l \in 1 .. m : u[l] = s[i]
        BY <2>1
      <4>2. j \in 1 .. k + 1
        OBVIOUS
      <4> QED BY <4>1, <4>2
    <3> QED BY <2>3, <2>5, <3>1, <3>2
  <2>6. CASE x \in P
    <3>1. All(v, k + 1)
      <4> SUFFICES ASSUME NEW i \in 1 .. k + 1, s[i] \in P PROVE \E l \in 1 .. Len(v) : v[l] = s[i]
        OBVIOUS
      <4>1. CASE i = k + 1
        <5>1. Len(u) + 1 \in 1 .. Len(v)
          BY <2>2, <2>4
        <5> QED BY <2>4, <4>1, <5>1
      <4>2. CASE i # k + 1
        <5>1. PICK l \in 1 .. Len(u) : u[l] = s[i]
          BY <2>1, <4>2
        <5>2. l \in 1 .. Len(v)
          BY <2>2, <2>4
        <5> QED BY <2>4, <5>1, <5>2
      <4> QED BY <4>1, <4>2
    <3>2. ASSUME NEW m \in 1 .. Len(v) PROVE Upto(v, m, k + 1)
      <4>1. CASE m = Len(u) + 1
        <5>1. v[m] = s[k + 1] /\ s[k + 1] \in P /\ k + 1 \in 1 .. k + 1
          BY <2>4, <2>6, <4>1
        <5>2. \A i \in 1 .. k + 1 : s[i] \in P => \E l \in 1 .. m : v[l] = s[i]
          BY <2>4, <3>1, <4>1
        <5> QED BY <5>1, <5>2
      <4>2. CASE m # Len(u) + 1
        <5>0. m \in 1 .. Len(u)
          BY <2>2, <2>4, <4>2
        <5>1. PICK j \in 1 .. k : /\ u[m] = s[j] /\ s[j] \in P
                                  /\ \A i \in 1 .. j : s[i] \in P => \E l \in 1 .. m : u[l] = s[i]
          BY <2>1, <5>0
        <5>2. j \in 1 .. k + 1 /\ v[m] = s[j]
          BY <2>4, <5>0, <5>1
        <5>3. \A l \in 1 .. m : l \in 1 .. Len(u) /\ v[l] = u[l]
          BY <2>2, <2>4, <5>0
        <5>4. \A i \in 1 .. j : s[i] \in P => \E l \in 1 .. m : v[l] = s[i]
          BY <5>1, <5>3
        <5> QED BY <5>1, <5>2, <5>4
      <4> QED BY <4>1, <4>2
    <3> QED BY <2>3, <2>6, <3>1, <3>2
  <2> QED BY <2>5, <2>6
<1>5. Nat \subseteq S
  <2> HIDE DEF S
  <2> QED BY <1>3, <1>4, SetInduction
<1>6. \A m \in 1 .. Len(f[L]) : Upto(f[L], m, L)
  <2>1. L \in S
    BY <1>2, <1>5
  <2> QED BY <1>2, <2>1
<1> QED BY <1>2, <1>6 DEF KeepsUpto

\* Where a listing goes on.
Pos(token) == IF token = <<>> THEN 0 ELSE CHOOSE i \in DOMAIN ListOrder : ListOrder[i] = token

LEMMA ListOrderIs ==
  /\ ListOrder \in Seq(Names) /\ Len(ListOrder) \in Nat /\ DOMAIN ListOrder = 1 .. Len(ListOrder)
  /\ \A i \in 1 .. Len(ListOrder) : ListOrder[i] \in Names /\ ListOrder[i] \in Word
  /\ \A n \in Names : \E i \in 1 .. Len(ListOrder) : ListOrder[i] = n
  /\ \A i \in 1 .. Len(ListOrder) : ListOrder[i] # <<>> => Pos(ListOrder[i]) = i
  /\ \A t : t = <<>> \/ t \in Names => Pos(t) \in 0 .. Len(ListOrder)
<1>1. ListOrder \in Seq(Word) /\ Len(ListOrder) \in Nat /\ DOMAIN ListOrder = 1 .. Len(ListOrder)
  <2>1. ListOrder \in Seq(Word)
    BY BucketAssumption
  <2> QED BY <2>1
<1>2. \A i \in 1 .. Len(ListOrder) : ListOrder[i] \in Names /\ ListOrder[i] \in Word
  BY <1>1 DEF Names, ToSet
<1>3. \A n \in Names : \E i \in 1 .. Len(ListOrder) : ListOrder[i] = n
  BY <1>1 DEF Names, ToSet
<1>4. ListOrder \in Seq(Names)
  <2>1. ListOrder = [i \in 1 .. Len(ListOrder) |-> ListOrder[i]]
    BY <1>1
  <2> QED BY <1>1, <1>2, <2>1
<1>5. ASSUME NEW i \in 1 .. Len(ListOrder), ListOrder[i] # <<>> PROVE Pos(ListOrder[i]) = i
  <2>1. \A x, y \in DOMAIN ListOrder : ListOrder[x] = ListOrder[y] => x = y
    BY BucketAssumption DEF IsInjective
  <2> QED BY <1>1, <1>5, <2>1 DEF Pos
<1>6. ASSUME NEW t, t = <<>> \/ t \in Names PROVE Pos(t) \in 0 .. Len(ListOrder)
  <2>1. CASE t = <<>>
    BY <1>1, <2>1 DEF Pos
  <2>2. CASE t # <<>>
    <3>1. \E i \in DOMAIN ListOrder : ListOrder[i] = t
      BY <1>1, <1>3, <1>6, <2>2
    <3>2. Pos(t) \in DOMAIN ListOrder
      BY <2>2, <3>1 DEF Pos
    <3> QED BY <1>1, <3>2
  <2> QED BY <2>1, <2>2
<1> QED BY <1>1, <1>2, <1>3, <1>4, <1>5, <1>6

\* A listing shows names of the bucket, and all of those up to its last one.
Lists(key, token, body, more, there) ==
  \E upto \in Pos(token) .. Len(ListOrder) :
    /\ IF more THEN upto > 0 /\ body # <<>> /\ ListOrder[upto] = Last(body) ELSE upto = Len(ListOrder)
    /\ \A n \in ToSet(body) : n \in there /\ starts_with(n, key)
    /\ \A i \in Pos(token) + 1 .. upto :
         ListOrder[i] \in there /\ starts_with(ListOrder[i], key) => ListOrder[i] \in ToSet(body)

LEMMA ListingLists ==
  ASSUME NEW r, r.token = <<>> \/ r.token \in Names, NEW b, NEW reply \in Listings(Rest(b, r))
  PROVE  Lists(r.key, r.token, reply.body, reply.more, DOMAIN b)
<1> DEFINE P == {n \in DOMAIN b : starts_with(n, r.key)}
           from == Pos(r.token)
           L == Len(ListOrder)
           ds == drop(ListOrder, from)
           rest == Filter(ds, P)
<1>1. Rest(b, r) = rest
  BY DEF Rest, Pos
<1>2. from \in 0 .. L /\ L \in Nat /\ ListOrder \in Seq(Names)
  BY ListOrderIs
<1> HIDE DEF from
<1>3. ds \in Seq(Names) /\ Len(ds) = L - from /\ \A i \in 1 .. L - from : ds[i] = ListOrder[from + i]
  <2>1. from + 1 \in 1 .. L + 1
    BY <1>2
  <2>2. ds \in Seq(Names) /\ Len(ds) = L - from
    BY <1>2 DEF drop
  <2>3. ASSUME NEW i \in 1 .. L - from PROVE ds[i] = ListOrder[from + i]
    BY <1>2 DEF drop
  <2> QED BY <2>2, <2>3
<1> HIDE DEF ds, P
<1>4. rest \in Seq(Names) /\ ToSet(rest) = ToSet(ds) \cap P
  BY <1>3, FilterType, FilterElements
<1>5. \A n \in 1 .. Len(rest) : \E j \in 1 .. Len(ds) :
           /\ rest[n] = ds[j] /\ ds[j] \in P
           /\ \A i \in 1 .. j : ds[i] \in P => \E l \in 1 .. n : rest[l] = ds[i]
  <2> SUFFICES ASSUME NEW n \in 1 .. Len(rest)
               PROVE  \E j \in 1 .. Len(ds) :
                        /\ rest[n] = ds[j] /\ ds[j] \in P
                        /\ \A i \in 1 .. j : ds[i] \in P => \E l \in 1 .. n : rest[l] = ds[i]
    OBVIOUS
  <2>1. KeepsUpto(rest, ds, P, n)
    BY <1>3, FilterOrder
  <2> HIDE DEF rest
  <2> QED BY <2>1 DEF KeepsUpto
<1> HIDE DEF rest
<1>6. \A i \in from + 1 .. L : \E j \in 1 .. Len(ds) : i = from + j /\ ListOrder[i] = ds[j]
  <2> SUFFICES ASSUME NEW i \in from + 1 .. L PROVE \E j \in 1 .. Len(ds) : i = from + j /\ ListOrder[i] = ds[j]
    OBVIOUS
  <2>1. PICK j \in 1 .. L - from : i = from + j
    <3>1. i - from \in 1 .. L - from /\ i = from + (i - from)
      BY <1>2
    <3> QED BY <3>1
  <2> QED BY <1>3, <2>1
<1>7. reply \in Listings(rest)
  BY <1>1
<1>8. CASE rest = <<>>
  <2>1. reply.body = <<>> /\ reply.more = FALSE
    BY <1>7, <1>8 DEF Listings
  <2>2. ~ reply.more /\ ToSet(reply.body) = {} /\ ToSet(rest) = {}
    BY <1>8, <2>1 DEF ToSet
  <2>3. \A i \in from + 1 .. L : ListOrder[i] \notin P
    BY <1>4, <1>6, <2>2, <1>3 DEF ToSet
  <2>4. L \in from .. L
    BY <1>2
  <2> QED BY <2>2, <2>3, <2>4 DEF Lists, from, P
<1>9. CASE rest # <<>>
  <2>1. PICK n \in DOMAIN rest : reply = [status |-> 200, body |-> SubSeq(rest, 1, n), more |-> n < Len(rest)]
    BY <1>7, <1>9 DEF Listings
  <2> DEFINE body == SubSeq(rest, 1, n)
  <2>2. n \in 1 .. Len(rest) /\ Len(rest) \in Nat
    BY <1>4, <2>1
  <2>3. body \in Seq(Names) /\ Len(body) = n /\ \A l \in 1 .. n : body[l] = rest[l]
    BY <1>4, <2>2
  <2>4. reply.body = body /\ (reply.more <=> n < Len(rest))
    BY <2>1
  <2> HIDE DEF body
  <2>5. body # <<>> /\ Last(body) = rest[n] /\ ToSet(body) = {rest[l] : l \in 1 .. n}
    <3>1. body # <<>>
      BY <2>2, <2>3
    <3>2. Last(body) = rest[n]
      BY <2>2, <2>3 DEF Last
    <3>3. DOMAIN body = 1 .. n
      BY <2>3
    <3> QED BY <2>3, <3>1, <3>2, <3>3 DEF ToSet
  <2>6. \A x \in ToSet(body) : x \in P
    <3>1. \A l \in 1 .. n : rest[l] \in ToSet(rest)
      BY <1>4, <2>2 DEF ToSet
    <3> QED BY <1>4, <2>5, <3>1
  <2>7. CASE n < Len(rest)
    <3>1. PICK j \in 1 .. Len(ds) :
           /\ rest[n] = ds[j] /\ ds[j] \in P
           /\ \A i \in 1 .. j : ds[i] \in P => \E l \in 1 .. n : rest[l] = ds[i]
      BY <1>5, <2>2
    <3> DEFINE upto == from + j
    <3>2. upto \in from .. L /\ upto > 0 /\ ListOrder[upto] = Last(body)
      BY <1>2, <1>3, <2>5, <3>1
    <3>3. ASSUME NEW i \in from + 1 .. upto, ListOrder[i] \in P PROVE ListOrder[i] \in ToSet(body)
      <4>0. i \in from + 1 .. L
        BY <1>2, <3>2
      <4>1. PICK l \in 1 .. Len(ds) : i = from + l /\ ListOrder[i] = ds[l]
        BY <1>6, <4>0
      <4>2. l \in 1 .. j
        BY <1>2, <3>2, <4>1
      <4> QED BY <2>5, <3>1, <3>3, <4>1, <4>2
    <3> HIDE DEF upto
    <3>4. \A i \in from + 1 .. upto :
            ListOrder[i] \in DOMAIN b /\ starts_with(ListOrder[i], r.key) => ListOrder[i] \in ToSet(body)
      BY <3>3 DEF P
    <3>5. \A x \in ToSet(body) : x \in DOMAIN b /\ starts_with(x, r.key)
      BY <2>6 DEF P
    <3> QED BY <2>4, <2>5, <2>7, <3>2, <3>4, <3>5 DEF Lists, from
  <2>8. CASE ~ (n < Len(rest))
    <3>1. n = Len(rest) /\ ToSet(body) = ToSet(rest)
      <4>1. n = Len(rest)
        BY <2>2, <2>8
      <4>2. ToSet(rest) = {rest[l] : l \in 1 .. n}
        BY <1>4, <4>1 DEF ToSet
      <4> QED BY <2>5, <4>1, <4>2
    <3>2. ASSUME NEW i \in from + 1 .. L, ListOrder[i] \in P PROVE ListOrder[i] \in ToSet(body)
      <4>1. ListOrder[i] \in ToSet(ds)
        BY <1>3, <1>6 DEF ToSet
      <4> QED BY <1>4, <3>1, <3>2, <4>1
    <3>3. L \in from .. L
      BY <1>2
    <3>4. \A i \in from + 1 .. L :
            ListOrder[i] \in DOMAIN b /\ starts_with(ListOrder[i], r.key) => ListOrder[i] \in ToSet(body)
      BY <3>2 DEF P
    <3>5. \A x \in ToSet(body) : x \in DOMAIN b /\ starts_with(x, r.key)
      BY <2>6 DEF P
    <3> QED BY <2>4, <2>8, <3>3, <3>4, <3>5 DEF Lists, from
  <2> QED BY <2>7, <2>8
<1> QED BY <1>8, <1>9

-----------------------------------------------------------------------------
\* What an S3 client knows is true of the contents since its invocation.

\* The prefix and the keys of all calls are as dsn::parse and the backends make them.
Named(p) ==
  /\ p \in Word /\ p # <<>>
  /\ \A q \in AllCalls : \A k \in ToSet(q.keys) : starts_with(k, Root) \/ (q.op = "scan" /\ k = <<>>)
  /\ \A k \in NewKeys : object_key(p, k) \in Names

\* Contents whose objects the service lists.
Listable(p, s) ==
  HoldsWords(s) /\ \A k \in DOMAIN s : k \in Word /\ starts_with(k, Root) /\ object_key(p, k) \in Names

\* What request j asks of the contents, and what its answer tells of contents s.
Asks(p, j) ==
  CASE j.m = "PUT" -> SetOf(KeyOf(p, j.key), j.val)
    [] j.m = "DELETE" -> DelOf(KeyOf(p, j.key))
    [] OTHER -> NoCall
Shows(p, j, s) ==
  LET k == KeyOf(p, j.key)
  IN /\ j.m = "GET" => j.body = Value(s, k) /\ (j.status = 200 <=> k \in DOMAIN s) /\ j.status # 206
     /\ j.m = "RANGE" => /\ k \notin DOMAIN s => j.status = 404
                         /\ k \in DOMAIN s /\ j.status # 416 =>
                              j.status = 206 /\ j.body = slice(Value(s, k), j.off, j.len)
     /\ j.m = "HEAD" => (j.status \in {200, 206} <=> k \in DOMAIN s)
     /\ j.m = "LIST" => Lists(j.key, j.token, j.body, j.more, {n \in Names : starts_with(n, p) /\ KeyOf(p, n) \in DOMAIN s})
ToldOf(p, j, seen) == \E s \in seen : Shows(p, j, s) /\ Effect(Asks(p, j), s) \in seen

\* keys are what a listing has found, up to place upto of the order.
ListKnows(p, key, upto, keys, seen) ==
  /\ \A x \in ToSet(keys) : \E s \in seen : x \in DOMAIN s
  /\ \A i \in 1 .. upto :
       starts_with(ListOrder[i], key) /\ (\A s \in seen : KeyOf(p, ListOrder[i]) \in DOMAIN s) =>
         KeyOf(p, ListOrder[i]) \in ToSet(keys)

\* The i-th key of get_many is being read, keys are the values of those before it.
ManyKnows(p, q, j, ks, keys, seen) ==
  \E i \in 1 .. Len(q.keys) :
    /\ j.key = object_key(p, q.keys[i]) /\ ks = SubSeq(q.keys, i + 1, Len(q.keys)) /\ Len(keys) = i - 1
    /\ \A l \in 1 .. i - 1 : \E s \in seen : keys[l] = Value(s, q.keys[l])

\* The keys of del are under way, still to do, or were gone at some time.
DelKnows(p, q, j, ks, seen) ==
  \E x \in ToSet(q.keys) :
    /\ j.key = object_key(p, x) /\ ToSet(ks) \subseteq ToSet(q.keys)
    /\ \A y \in ToSet(q.keys) : y = x \/ y \in ToSet(ks) \/ \E s \in seen : y \notin DOMAIN s

\* The same for flush and the keys it has listed.
FlushKnows(p, j, ks, seen) ==
  \E x : /\ j.key = object_key(p, x) /\ \E s \in seen : x \in DOMAIN s
         /\ \A y \in ToSet(ks) : \E s \in seen : y \in DOMAIN s
         /\ \A y : (\A s \in seen : y \in DOMAIN s) => y = x \/ y \in ToSet(ks)

\* j is a request of call q.
IsRequest(p, q, j, ks, keys, seen) ==
  LET k == q.keys[1]
  IN CASE q.op = "get" -> j.m = "GET" /\ j.key = object_key(p, k)
       [] q.op = "get_many" -> j.m = "GET" /\ ManyKnows(p, q, j, ks, keys, seen)
       [] q.op = "exists" -> j.m = "HEAD" /\ j.key = object_key(p, k)
       [] q.op = "set" -> j.m = "PUT" /\ j.key = object_key(p, k) /\ j.val = q.val
       [] q.op = "get_part" ->
            /\ j.key = object_key(p, k) /\ j.m \in {"HEAD", "GET", "RANGE"}
            /\ j.m = "GET" => q.len = 0
            /\ j.m = "RANGE" => j.off = q.off /\ j.len = q.len
       [] q.op = "set_part" ->
            /\ j.key = object_key(p, k) /\ j.m \in {"HEAD", "GET", "PUT"}
            /\ j.m = "PUT" => \E s \in seen : in_bounds(Value(s, k), q) /\ j.val = patch(Value(s, k), q.off, q.val)
       [] q.op = "del" -> j.m = "DELETE" /\ DelKnows(p, q, j, ks, seen)
       [] q.op = "scan" ->
            j.m = "LIST" /\ j.key = object_key(p, k) /\ ListKnows(p, j.key, Pos(j.token), keys, seen)
       [] q.op = "flush" ->
            \/ j.m = "LIST" /\ j.key = object_key(p, Root) /\ ListKnows(p, j.key, Pos(j.token), keys, seen)
            \/ j.m = "DELETE" /\ FlushKnows(p, j, ks, seen)
       [] OTHER -> FALSE

JobKnows(p, q, j, ks, keys, seen) ==
  /\ j.at = "skip" => q.keys = <<>> /\ q.op # "flush"
  /\ j.at \in {"sent", "answered"} => IsRequest(p, q, j, ks, keys, seen)
  /\ j.at = "answered" => ToldOf(p, j, seen)

Late(r) == r.m \in {"PUT", "DELETE"} /\ (r.m = "PUT" => r.key \in Names)

S3Knows ==
  /\ Named(prefix)
  /\ DOMAIN bucket \subseteq Names
  /\ since = [c \in Clients |-> since[c]] /\ \A c \in Clients : \A s \in since[c] : Listable(prefix, s)
  /\ \A c \in Clients : IF call[c] = NoCall THEN since[c] = {} ELSE call[c] \in AllCalls /\ OwnOf(prefix, bucket) \in since[c]
  /\ \A r \in flying : Late(r)
  /\ \A c \in Clients : JobKnows(prefix, call[c], job[c], todo[c], listed[c], since[c])

LEMMA RequestGrows ==
  ASSUME NEW p, NEW q, NEW j, NEW ks, NEW keys, NEW seen, IsRequest(p, q, j, ks, keys, seen), NEW more,
         seen \subseteq more
  PROVE  IsRequest(p, q, j, ks, keys, more)
<1>1. \A key, upto : ListKnows(p, key, upto, keys, seen) => ListKnows(p, key, upto, keys, more)
  BY DEF ListKnows
<1>2. ManyKnows(p, q, j, ks, keys, seen) => ManyKnows(p, q, j, ks, keys, more)
  BY DEF ManyKnows
<1>3. DelKnows(p, q, j, ks, seen) => DelKnows(p, q, j, ks, more)
  BY DEF DelKnows
<1>4. FlushKnows(p, j, ks, seen) => FlushKnows(p, j, ks, more)
  BY DEF FlushKnows
<1> QED BY <1>1, <1>2, <1>3, <1>4 DEF IsRequest

LEMMA JobKnowsGrows ==
  ASSUME NEW p, NEW q, NEW j, NEW ks, NEW keys, NEW seen, JobKnows(p, q, j, ks, keys, seen), NEW more,
         seen \subseteq more
  PROVE  JobKnows(p, q, j, ks, keys, more)
<1>1. ToldOf(p, j, seen) => ToldOf(p, j, more)
  BY DEF ToldOf
<1>2. IsRequest(p, q, j, ks, keys, seen) => IsRequest(p, q, j, ks, keys, more)
  BY RequestGrows
<1> QED BY <1>1, <1>2 DEF JobKnows

LEMMA NamedCalls ==
  ASSUME NEW p, Named(p), NEW q \in AllCalls
  PROVE  /\ p \in Word /\ p # <<>> /\ q.keys \in Seq(Word)
         /\ \A k \in ToSet(q.keys) : k \in Word /\ (starts_with(k, Root) \/ (q.op = "scan" /\ k = <<>>))
         /\ q.op \notin {"get_many", "del", "flush", "scan"} => q.keys[1] \in Word /\ starts_with(q.keys[1], Root)
         /\ q.op = "scan" => q.keys[1] \in Word /\ (starts_with(q.keys[1], Root) \/ q.keys[1] = <<>>)
         /\ q.op \in {"set", "set_part"} => object_key(p, q.keys[1]) \in Names
<1>1. /\ q.keys \in Seq(Word)
      /\ q.op \notin {"get_many", "del", "flush"} => Len(q.keys) = 1 /\ q.keys[1] \in Word
  BY CallFacts
<1>2. \A k \in ToSet(q.keys) : k \in Word
  BY <1>1 DEF ToSet
<1>3. Len(q.keys) = 1 => q.keys[1] \in ToSet(q.keys)
  <2>1. DOMAIN q.keys = 1 .. Len(q.keys)
    BY <1>1
  <2> QED BY <2>1 DEF ToSet
<1>4. q.op \in {"set", "set_part"} => q.keys[1] \in NewKeys
  BY DEF NewKeys
<1> QED BY <1>1, <1>2, <1>3, <1>4 DEF Named

\* The request is executed: the contents change as it asks, the answer tells of them.
LEMMA StoredEffect ==
  ASSUME NEW p \in Word, NEW b, DOMAIN b \subseteq Word, NEW r,
         r.m \in {"PUT", "DELETE"} => r.key \in Word /\ starts_with(r.key, p)
  PROVE  OwnOf(p, Stored(b, r)) = Effect(Asks(p, r), OwnOf(p, b))
<1> DEFINE k == KeyOf(p, r.key)
<1>1. CASE r.m = "PUT"
  <2>1. Asks(p, r).op = "set" /\ Asks(p, r).keys = <<k>> /\ Asks(p, r).val = r.val
    BY <1>1 DEF Asks, SetOf, NoCall
  <2>2. Asks(p, r).keys[1] = k
    BY <2>1
  <2>3. Effect(Asks(p, r), OwnOf(p, b)) = With(OwnOf(p, b), k, r.val)
    BY <2>1, <2>2 DEF Effect
  <2>4. Stored(b, r) = With(b, r.key, r.val)
    BY <1>1 DEF Stored
  <2> QED BY <1>1, <2>3, <2>4, OwnWith
<1>2. CASE r.m = "DELETE"
  <2>1. Asks(p, r).op = "del" /\ Asks(p, r).keys = <<k>>
    BY <1>2 DEF Asks, DelOf, NoCall
  <2>2. ToSet(<<k>>) = {k}
    BY DEF ToSet
  <2>3. Effect(Asks(p, r), OwnOf(p, b)) = Without(OwnOf(p, b), {k})
    BY <2>1, <2>2 DEF Effect
  <2>4. Stored(b, r) = Without(b, {r.key})
    BY <1>2 DEF Stored
  <2> QED BY <1>2, <2>3, <2>4, OwnWithout
<1>3. CASE r.m \notin {"PUT", "DELETE"}
  <2>1. Asks(p, r) = NoCall /\ Stored(b, r) = b
    BY <1>3 DEF Asks, Stored
  <2>2. Effect(NoCall, OwnOf(p, b)) = OwnOf(p, b)
    BY DEF Effect, NoCall
  <2> QED BY <2>1, <2>2
<1> QED BY <1>1, <1>2, <1>3

LEMMA OwnValue ==
  ASSUME NEW p \in Word, NEW b, DOMAIN b \subseteq Word, NEW n \in Word, starts_with(n, p)
  PROVE  /\ KeyOf(p, n) \in DOMAIN OwnOf(p, b) <=> n \in DOMAIN b
         /\ n \in DOMAIN b => Value(OwnOf(p, b), KeyOf(p, n)) = b[n]
         /\ n \notin DOMAIN b => Value(OwnOf(p, b), KeyOf(p, n)) = <<>>
<1> DEFINE k == KeyOf(p, n)
<1>1. k \in Word /\ starts_with(k, Root) /\ object_key(p, k) = n
  BY KeyName
<1> HIDE DEF k
<1>2. /\ k \in DOMAIN OwnOf(p, b) <=> n \in DOMAIN b
      /\ k \in DOMAIN OwnOf(p, b) => OwnOf(p, b)[k] = b[n]
  BY <1>1, OwnKeys
<1> QED BY <1>2 DEF Value, Missing, k

\* a is request j with answer r.
Replied(a, j, r) == a = [j EXCEPT !.at = "answered", !.status = r.status, !.body = r.body, !.more = r.more]

LEMMA ReplyShows ==
  ASSUME NEW p \in Word, NEW b, HoldsWords(b), DOMAIN b \subseteq Names, NEW j \in JobType, NEW r \in Replies(j, b),
         starts_with(j.key, p), j.m = "LIST" => j.token = <<>> \/ j.token \in Names,
         NEW a, Replied(a, j, r)
  PROVE  Shows(p, a, OwnOf(p, b)) /\ Asks(p, a) = Asks(p, j)
<1> DEFINE s == OwnOf(p, b)
           k == KeyOf(p, j.key)
<1>1. /\ a.m = j.m /\ a.key = j.key /\ a.val = j.val /\ a.token = j.token /\ a.off = j.off /\ a.len = j.len
      /\ a.status = r.status /\ a.body = r.body /\ a.more = r.more
  BY DEF JobType, Replied
<1>2. DOMAIN b \subseteq Word /\ j.key \in Word
  BY NamesWords DEF JobType
<1>3. /\ k \in DOMAIN s <=> j.key \in DOMAIN b
      /\ j.key \in DOMAIN b => Value(s, k) = b[j.key]
      /\ j.key \notin DOMAIN b => Value(s, k) = <<>>
  BY <1>2, OwnValue
<1>4. Asks(p, a) = Asks(p, j)
  BY <1>1 DEF Asks
<1> HIDE DEF k
<1>5. \A st, v : Reply(st, v).status = st /\ Reply(st, v).body = v
  BY DEF Reply
<1>6. CASE j.m = "GET"
  <2>1. r = IF j.key \in DOMAIN b THEN Reply(200, b[j.key]) ELSE Reply(404, <<>>)
    BY <1>6 DEF Replies
  <2> HIDE DEF s
  <2>2. r.body = Value(s, k) /\ (r.status = 200 <=> k \in DOMAIN s) /\ r.status # 206
    BY <1>3, <1>5, <2>1
  <2> QED BY <1>1, <1>4, <1>6, <2>2 DEF Shows, k, s
<1>7. CASE j.m = "RANGE"
  <2>1. r = CASE j.key \notin DOMAIN b -> Reply(404, <<>>)
              [] j.key \in DOMAIN b /\ j.off >= Len(b[j.key]) -> Reply(416, <<>>)
              [] OTHER -> Reply(206, slice(b[j.key], j.off, j.len))
    BY <1>7 DEF Replies
  <2> HIDE DEF s
  <2>2. /\ k \notin DOMAIN s => r.status = 404
        /\ k \in DOMAIN s /\ r.status # 416 => r.status = 206 /\ r.body = slice(Value(s, k), j.off, j.len)
    BY <1>3, <1>5, <2>1
  <2> QED BY <1>1, <1>4, <1>7, <2>2 DEF Shows, k, s
<1>8. CASE j.m = "HEAD"
  <2>1. r = Reply(IF j.key \in DOMAIN b THEN 200 ELSE 404, <<>>)
    BY <1>8 DEF Replies
  <2> HIDE DEF s
  <2>2. r.status \in {200, 206} <=> k \in DOMAIN s
    BY <1>3, <1>5, <2>1
  <2> QED BY <1>1, <1>4, <1>8, <2>2 DEF Shows, k, s
<1>9. CASE j.m = "LIST"
  <2> DEFINE there == {n \in Names : starts_with(n, p) /\ KeyOf(p, n) \in DOMAIN s}
  <2>1. r \in Listings(Rest(b, j))
    BY <1>9 DEF Replies
  <2>2. Lists(j.key, j.token, r.body, r.more, DOMAIN b)
    BY <1>9, <2>1, ListingLists
  <2>3. \A n : n \in Names /\ starts_with(n, j.key) => (n \in there <=> n \in DOMAIN b)
    <3> SUFFICES ASSUME NEW n, n \in Names, starts_with(n, j.key) PROVE n \in there <=> n \in DOMAIN b
      OBVIOUS
    <3>1. n \in Word
      BY NamesWords
    <3>2. starts_with(n, p)
      BY <1>2, <3>1, StartsTransitive
    <3>3. KeyOf(p, n) \in DOMAIN s <=> n \in DOMAIN b
      BY <1>2, <3>1, <3>2, OwnValue
    <3> QED BY <3>2, <3>3
  <2> HIDE DEF there
  <2>4. Lists(j.key, j.token, r.body, r.more, there)
    <3>1. PICK upto \in Pos(j.token) .. Len(ListOrder) :
            /\ IF r.more THEN upto > 0 /\ r.body # <<>> /\ ListOrder[upto] = Last(r.body) ELSE upto = Len(ListOrder)
            /\ \A n \in ToSet(r.body) : n \in DOMAIN b /\ starts_with(n, j.key)
            /\ \A i \in Pos(j.token) + 1 .. upto :
                 ListOrder[i] \in DOMAIN b /\ starts_with(ListOrder[i], j.key) => ListOrder[i] \in ToSet(r.body)
      BY <2>2 DEF Lists
    <3>2. \A i \in Pos(j.token) + 1 .. upto : ListOrder[i] \in Names
      <4>1. Pos(j.token) \in 0 .. Len(ListOrder)
        BY <1>9, ListOrderIs
      <4>2. \A i \in Pos(j.token) + 1 .. upto : i \in 1 .. Len(ListOrder)
        BY <4>1, ListOrderIs
      <4> QED BY <4>2, ListOrderIs
    <3>3. \A n \in ToSet(r.body) : n \in there /\ starts_with(n, j.key)
      BY <2>3, <3>1
    <3>4. \A i \in Pos(j.token) + 1 .. upto :
            ListOrder[i] \in there /\ starts_with(ListOrder[i], j.key) => ListOrder[i] \in ToSet(r.body)
      BY <2>3, <3>1, <3>2
    <3> QED BY <3>1, <3>3, <3>4 DEF Lists
  <2> QED BY <1>1, <1>4, <1>9, <2>4 DEF Shows, there
<1>10. CASE j.m \notin {"GET", "RANGE", "HEAD", "LIST"}
  BY <1>1, <1>4, <1>10 DEF Shows
<1> QED BY <1>6, <1>7, <1>8, <1>9, <1>10

-----------------------------------------------------------------------------
\* What a call makes of an answer: an honest result, or its next request.

Steps(p, q, step, keys, seen) ==
  /\ step.req = NoJob => Honest(q, step.ans, seen)
  /\ step.req # NoJob => step.req.at = "sent" /\ IsRequest(p, q, step.req, step.del, keys, seen)

LEMMA StepsDone ==
  ASSUME NEW p, NEW q, NEW a, NEW keys, NEW seen, Honest(q, a, seen)
  PROVE  Steps(p, q, Done(a), keys, seen)
<1>1. Done(a).req = NoJob /\ Done(a).ans = a
  BY DEF Done
<1> QED BY <1>1 DEF Steps

LEMMA StepsGo ==
  ASSUME NEW p, NEW q, NEW r, NEW ks, NEW keys, NEW seen, r.at = "sent", IsRequest(p, q, r, ks, keys, seen)
  PROVE  Steps(p, q, Go(r, ks), keys, seen)
<1>1. Go(r, ks).req = r /\ Go(r, ks).del = ks
  BY DEF Go
<1>2. r # NoJob
  BY DEF NoJob
<1> QED BY <1>1, <1>2 DEF Steps

LEMMA RequestIs ==
  ASSUME NEW m, NEW k, NEW v
  PROVE  /\ Request(m, k, v).m = m /\ Request(m, k, v).key = object_key(prefix, k) /\ Request(m, k, v).val = v
         /\ Request(m, k, v).at = "sent" /\ Request(m, k, v).token = <<>>
BY DEF Request, NoJob

LEMMA HeadTailSet ==
  ASSUME NEW T, NEW ks \in Seq(T), ks # <<>>
  PROVE  /\ ToSet(ks) = {Head(ks)} \cup ToSet(Tail(ks)) /\ Head(ks) \in T /\ Tail(ks) \in Seq(T)
         /\ Head(ks) = ks[1] /\ Tail(ks) = SubSeq(ks, 2, Len(ks))
<1> DEFINE t == Tail(ks)
<1>1. /\ t \in Seq(T) /\ Len(t) = Len(ks) - 1 /\ (\A i \in 1 .. Len(t) : t[i] = ks[i + 1])
      /\ Len(ks) \in Nat /\ Len(ks) >= 1 /\ Head(ks) = ks[1] /\ Head(ks) \in T
  BY HeadTailProperties
<1>2. ToSet(ks) = {ks[i] : i \in 1 .. Len(ks)}
  BY DEF ToSet
<1>3. t = SubSeq(ks, 2, Len(ks))
  OBVIOUS
<1> HIDE DEF t
<1>4. ToSet(t) = {t[i] : i \in 1 .. Len(t)}
  BY <1>1 DEF ToSet
<1>5. ASSUME NEW i \in 1 .. Len(ks) PROVE ks[i] = ks[1] \/ ks[i] \in ToSet(t)
  <2>1. CASE i = 1
    BY <2>1
  <2>2. CASE i # 1
    <3>1. PICK j \in 1 .. Len(t) : i = j + 1
      <4>1. i - 1 \in 1 .. Len(t) /\ i = (i - 1) + 1
        BY <1>1, <2>2
      <4> QED BY <4>1
    <3>2. t[j] = ks[i]
      BY <1>1, <3>1
    <3> QED BY <1>4, <3>2
  <2> QED BY <2>1, <2>2
<1>6. ASSUME NEW j \in 1 .. Len(t) PROVE t[j] \in ToSet(ks)
  <2>1. j + 1 \in 1 .. Len(ks) /\ t[j] = ks[j + 1]
    BY <1>1
  <2> QED BY <1>2, <2>1
<1>7. 1 \in 1 .. Len(ks)
  BY <1>1
<1>8. ToSet(ks) = {ks[1]} \cup ToSet(t)
  BY <1>2, <1>4, <1>5, <1>6, <1>7
<1> QED BY <1>1, <1>3, <1>8 DEF t

LEMMA DelSteps ==
  ASSUME NEW q \in AllCalls, q.op = "del", NEW ks \in Seq(Word), NEW keys, NEW seen, ToSet(ks) \subseteq ToSet(q.keys),
         \A y \in ToSet(q.keys) : y \in ToSet(ks) \/ \E s \in seen : y \notin DOMAIN s
  PROVE  Steps(prefix, q, DeleteEach(ks), keys, seen)
<1>1. CASE ks = <<>>
  <2> DEFINE a == <<>>
  <2>1. DeleteEach(ks) = Done(a) /\ ToSet(ks) = {}
    BY <1>1 DEF DeleteEach, ToSet
  <2> HIDE DEF a
  <2>2. Honest(q, a, seen)
    BY <2>1 DEF Honest
  <2> QED BY <2>1, <2>2, StepsDone
<1>2. CASE ks # <<>>
  <2> DEFINE x == Head(ks)
             t == Tail(ks)
             r == Request("DELETE", x, <<>>)
  <2>1. DeleteEach(ks) = Go(r, t)
    BY <1>2 DEF DeleteEach
  <2>2. r.m = "DELETE" /\ r.key = object_key(prefix, x) /\ r.at = "sent"
    BY RequestIs
  <2>3. ToSet(ks) = {x} \cup ToSet(t)
    BY <1>2, HeadTailSet
  <2> HIDE DEF x, t, r
  <2>4. DelKnows(prefix, q, r, t, seen)
    <3>1. x \in ToSet(q.keys)
      BY <2>3
    <3> QED BY <2>2, <2>3, <3>1 DEF DelKnows
  <2>5. IsRequest(prefix, q, r, t, keys, seen)
    BY <2>2, <2>4 DEF IsRequest
  <2> QED BY <2>1, <2>2, <2>5, StepsGo
<1> QED BY <1>1, <1>2

LEMMA FlushSteps ==
  ASSUME NEW q \in AllCalls, q.op = "flush", NEW ks \in Seq(Word), NEW keys, NEW seen,
         \A y \in ToSet(ks) : \E s \in seen : y \in DOMAIN s,
         \A y : (\A s \in seen : y \in DOMAIN s) => y \in ToSet(ks)
  PROVE  Steps(prefix, q, DeleteEach(ks), keys, seen)
<1>1. CASE ks = <<>>
  <2> DEFINE a == <<>>
  <2>1. DeleteEach(ks) = Done(a) /\ ToSet(ks) = {}
    BY <1>1 DEF DeleteEach, ToSet
  <2> HIDE DEF a
  <2>2. Honest(q, a, seen)
    BY <2>1 DEF Honest
  <2> QED BY <2>1, <2>2, StepsDone
<1>2. CASE ks # <<>>
  <2> DEFINE x == Head(ks)
             t == Tail(ks)
             r == Request("DELETE", x, <<>>)
  <2>1. DeleteEach(ks) = Go(r, t)
    BY <1>2 DEF DeleteEach
  <2>2. r.m = "DELETE" /\ r.key = object_key(prefix, x) /\ r.at = "sent"
    BY RequestIs
  <2>3. ToSet(ks) = {x} \cup ToSet(t)
    BY <1>2, HeadTailSet
  <2> HIDE DEF x, t, r
  <2>4. FlushKnows(prefix, r, t, seen)
    BY <2>2, <2>3 DEF FlushKnows
  <2>5. IsRequest(prefix, q, r, t, keys, seen)
    BY <2>2, <2>4 DEF IsRequest
  <2> QED BY <2>1, <2>2, <2>5, StepsGo
<1> QED BY <1>1, <1>2

\* Names of a subtree begin like its prefix.
LEMMA SubtreeNames ==
  ASSUME NEW p \in Word, NEW k \in Word, starts_with(k, Root) \/ k = <<>>, NEW x \in Word, starts_with(x, Root),
         is_subtree_key(k, x)
  PROVE  starts_with(object_key(p, x), object_key(p, k))
<1>1. object_key(p, x) \in Word /\ starts_with(object_key(p, x), p) /\ object_key(p, x) = p \o Tail(x) /\ Tail(x) \in Word
  BY ObjectKey, TailWord DEF object_key
<1>2. CASE k = <<>>
  <2>1. ~ starts_with(k, Root)
    BY <1>2, RootedElements
  <2>2. object_key(p, k) = p \o <<>>
    BY <1>2, <2>1 DEF object_key
  <2>3. p \o <<>> = p
    BY ConcatEmptySeq DEF Word
  <2> QED BY <1>1, <2>2, <2>3
<1>3. CASE k # <<>>
  <2> DEFINE a == Tail(k)
             b == Tail(x)
             u == p \o a
             v == p \o b
  <2>1. starts_with(k, Root) /\ object_key(p, k) = u /\ a \in Word
    BY <1>3, TailWord DEF object_key
  <2>2. starts_with(x, k)
    <3>1. starts_with(x, scan_pattern(k))
      BY SubtreeScanned
    <3> QED BY <1>3, <3>1 DEF scan_pattern
  <2>3. Len(k) <= Len(x) /\ (\A i \in 1 .. Len(k) : x[i] = k[i]) /\ Len(k) \in Nat /\ Len(x) \in Nat /\ Len(k) >= 1
    BY <2>1, <2>2, StartsElements, RootedElements DEF Word
  <2>4. k # <<>> /\ x # <<>>
    BY <1>3, <2>3 DEF Word
  <2>5. Len(a) = Len(k) - 1 /\ \A i \in 1 .. Len(a) : a[i] = k[i + 1]
    BY <2>4, HeadTailProperties DEF Word
  <2>6. Len(b) = Len(x) - 1 /\ \A i \in 1 .. Len(b) : b[i] = x[i + 1]
    BY <2>4, HeadTailProperties DEF Word
  <2>7. b \in Word
    BY <1>1
  <2> HIDE DEF a, b
  <2>8. /\ u \in Word /\ Len(u) = Len(p) + Len(a) /\ (\A i \in 1 .. Len(p) : u[i] = p[i])
        /\ \A i \in 1 .. Len(a) : u[Len(p) + i] = a[i]
    BY <2>1, Joined DEF Word
  <2>9. /\ v \in Word /\ Len(v) = Len(p) + Len(b) /\ (\A i \in 1 .. Len(p) : v[i] = p[i])
        /\ \A i \in 1 .. Len(b) : v[Len(p) + i] = b[i]
    BY <2>7, Joined DEF Word
  <2> HIDE DEF u, v
  <2>10. Len(p) \in Nat
    BY DEF Word
  <2>11. ASSUME NEW i \in 1 .. Len(u) PROVE v[i] = u[i]
    <3>1. CASE i <= Len(p)
      BY <2>8, <2>9, <2>10, <3>1
    <3>2. CASE i > Len(p)
      <4>1. PICK l \in 1 .. Len(a) : i = Len(p) + l
        <5>1. i - Len(p) \in 1 .. Len(a) /\ i = Len(p) + (i - Len(p))
          BY <2>3, <2>5, <2>8, <2>10, <3>2
        <5> QED BY <5>1
      <4>2. l \in 1 .. Len(b) /\ l + 1 \in 1 .. Len(k)
        BY <2>3, <2>5, <2>6
      <4>3. a[l] = k[l + 1] /\ b[l] = x[l + 1] /\ x[l + 1] = k[l + 1]
        BY <2>3, <2>5, <2>6, <4>2
      <4> QED BY <2>8, <2>9, <4>1, <4>2, <4>3
    <3> QED BY <2>10, <3>1, <3>2
  <2>12. Len(u) <= Len(v)
    BY <2>3, <2>5, <2>6, <2>8, <2>9, <2>10
  <2>13. starts_with(v, u)
    BY <2>8, <2>9, <2>11, <2>12, StartsElements
  <2> QED BY <1>1, <2>1, <2>13 DEF v, b
<1> QED BY <1>2, <1>3

\* A page takes the listing on.
LEMMA ListTurns ==
  ASSUME NEW p, Named(p), NEW seen, NEW s \in seen, NEW key \in Word, starts_with(key, p), NEW token, token = <<>> \/ token \in Names,
         NEW body \in Seq(Names), NEW more, NEW keys \in Seq(Word), ListKnows(p, key, Pos(token), keys, seen),
         Lists(key, token, body, more, {n \in Names : starts_with(n, p) /\ KeyOf(p, n) \in DOMAIN s}),
         NEW new, new = [i \in DOMAIN body |-> KeyOf(p, body[i])]
  PROVE  /\ keys \o new \in Seq(Word)
         /\ ListKnows(p, key, IF more THEN Pos(Last(body)) ELSE Len(ListOrder), keys \o new, seen)
<1> DEFINE there == {n \in Names : starts_with(n, p) /\ KeyOf(p, n) \in DOMAIN s}
           L == Len(ListOrder)
           P0 == Pos(token)
<1>1. PICK upto \in P0 .. L :
        /\ IF more THEN upto > 0 /\ body # <<>> /\ ListOrder[upto] = Last(body) ELSE upto = L
        /\ \A n \in ToSet(body) : n \in there /\ starts_with(n, key)
        /\ \A i \in P0 + 1 .. upto : ListOrder[i] \in there /\ starts_with(ListOrder[i], key) => ListOrder[i] \in ToSet(body)
  BY DEF Lists
<1>2. p \in Word /\ p # <<>> /\ Len(p) \in Nat /\ Len(p) >= 1
  BY DEF Named, Word
<1>3. P0 \in 0 .. L /\ L \in Nat
  BY ListOrderIs
<1> HIDE DEF P0
<1>4. DOMAIN body = 1 .. Len(body) /\ Len(body) \in Nat
  OBVIOUS
<1>5. \A n \in there : KeyOf(p, n) \in Word /\ KeyOf(p, n) \in DOMAIN s /\ n # <<>>
  <2> SUFFICES ASSUME NEW n \in there PROVE KeyOf(p, n) \in Word /\ KeyOf(p, n) \in DOMAIN s /\ n # <<>>
    OBVIOUS
  <2>1. n \in Word /\ starts_with(n, p) /\ KeyOf(p, n) \in DOMAIN s
    BY NamesWords
  <2>2. KeyOf(p, n) \in Word
    BY <1>2, <2>1, KeyName
  <2>3. Len(n) >= Len(p)
    BY <1>2, <2>1, StartsElements
  <2>4. n # <<>>
    BY <1>2, <2>1, <2>3 DEF Word
  <2> QED BY <2>1, <2>2, <2>4
<1> HIDE DEF there
<1>6. \A i \in 1 .. Len(body) : body[i] \in there
  BY <1>1, <1>4 DEF ToSet
<1>7. new \in Seq(Word) /\ ToSet(new) = {KeyOf(p, n) : n \in ToSet(body)}
  <2>1. new = [i \in 1 .. Len(body) |-> KeyOf(p, body[i])] /\ \A i \in 1 .. Len(body) : KeyOf(p, body[i]) \in Word
    BY <1>4, <1>5, <1>6
  <2>2. new \in Seq(Word)
    BY <1>4, <2>1
  <2>3. DOMAIN new = DOMAIN body
    BY <1>4, <2>1
  <2> QED BY <1>4, <2>1, <2>2, <2>3 DEF ToSet
<1>8. keys \o new \in Seq(Word) /\ ToSet(keys \o new) = ToSet(keys) \cup ToSet(new)
  BY <1>7, ConcatSet
<1>9. \A x \in ToSet(keys \o new) : \E y \in seen : x \in DOMAIN y
  <2>1. \A x \in ToSet(keys) : \E y \in seen : x \in DOMAIN y
    BY DEF ListKnows
  <2> QED BY <1>1, <1>5, <1>7, <1>8, <2>1
<1>10. ASSUME NEW i \in 1 .. upto, starts_with(ListOrder[i], key), \A y \in seen : KeyOf(p, ListOrder[i]) \in DOMAIN y
       PROVE  KeyOf(p, ListOrder[i]) \in ToSet(keys \o new)
  <2>1. CASE i \in 1 .. P0
    BY <1>8, <1>10, <2>1 DEF ListKnows, P0
  <2>2. CASE i \in P0 + 1 .. upto
    <3>1. i \in 1 .. L
      BY <1>3
    <3>2. ListOrder[i] \in Names
      BY <3>1, ListOrderIs
    <3>3. ListOrder[i] \in there
      <4>1. starts_with(ListOrder[i], p)
        BY <1>2, <1>10, <3>1, ListOrderIs, StartsTransitive
      <4> QED BY <1>10, <3>2, <4>1 DEF there
    <3>4. ListOrder[i] \in ToSet(body)
      BY <1>1, <1>10, <2>2, <3>3
    <3> QED BY <1>7, <1>8, <3>4
  <2>3. i \in 1 .. P0 \/ i \in P0 + 1 .. upto
    BY <1>3
  <2> QED BY <2>1, <2>2, <2>3
<1>11. upto = IF more THEN Pos(Last(body)) ELSE L
  <2>1. CASE more
    <3>1. upto \in 1 .. L /\ ListOrder[upto] = Last(body)
      BY <1>1, <1>3, <2>1
    <3>2. Last(body) \in ToSet(body)
      <4>1. body # <<>>
        BY <1>1, <2>1
      <4>2. Len(body) \in 1 .. Len(body)
        BY <1>4, <4>1
      <4> QED BY <1>4, <4>2 DEF ToSet, Last
    <3>3. Last(body) # <<>>
      BY <1>1, <1>5, <3>2
    <3> QED BY <2>1, <3>1, <3>3, ListOrderIs
  <2>2. CASE ~ more
    BY <1>1, <2>2
  <2> QED BY <2>1, <2>2
<1>12. ListKnows(p, key, upto, keys \o new, seen)
  BY <1>9, <1>10 DEF ListKnows
<1> QED BY <1>8, <1>11, <1>12

\* The end of a listing has every key that was there all the time.
LEMMA ListedAll ==
  ASSUME NEW p, Named(p), NEW seen, NEW s \in seen, Listable(p, s), NEW k \in Word, starts_with(k, Root) \/ k = <<>>,
         NEW keys, ListKnows(p, object_key(p, k), Len(ListOrder), keys, seen),
         NEW x, is_subtree_key(k, x), \A y \in seen : x \in DOMAIN y
  PROVE  x \in ToSet(keys)
<1>1. x \in Word /\ starts_with(x, Root) /\ object_key(p, x) \in Names /\ p \in Word
  BY DEF Listable, Named
<1>2. PICK i \in 1 .. Len(ListOrder) : ListOrder[i] = object_key(p, x)
  BY <1>1, ListOrderIs
<1>3. starts_with(ListOrder[i], object_key(p, k)) /\ KeyOf(p, ListOrder[i]) = x
  BY <1>1, <1>2, SubtreeNames, NameKey
<1> QED BY <1>3 DEF ListKnows

LEMMA ListSteps ==
  ASSUME Named(prefix), NEW q \in AllCalls, NEW j, JobOK(j), j.m = "LIST", NEW k \in Word,
         starts_with(k, Root) \/ k = <<>>, j.key = object_key(prefix, k),
         (q.op = "scan" /\ k = q.keys[1]) \/ (q.op = "flush" /\ k = Root),
         NEW keys \in Seq(Word), NEW seen, ListKnows(prefix, j.key, Pos(j.token), keys, seen),
         NEW s \in seen, Shows(prefix, j, s), \A y \in seen : Listable(prefix, y), NEW ks
  PROVE  Steps(prefix, q, NextRequest(q, j, ks, keys \o collected(q, j)), keys \o collected(q, j), seen)
<1> DEFINE new == [i \in DOMAIN j.body |-> KeyOf(prefix, j.body[i])]
           all == keys \o new
<1>1. collected(q, j) = new
  BY DEF collected, kv_key, KeyOf
<1>2. /\ prefix \in Word /\ j.body \in Seq(Names) /\ (j.token = <<>> \/ j.token \in Names) /\ j \in JobType
      /\ j.key \in Word /\ starts_with(j.key, prefix)
  <2>1. prefix \in Word /\ j.body \in Seq(Names) /\ (j.token = <<>> \/ j.token \in Names) /\ j \in JobType
    BY DEF Named, JobOK
  <2> QED BY <2>1, ObjectKey
<1>3. Lists(j.key, j.token, j.body, j.more, {n \in Names : starts_with(n, prefix) /\ KeyOf(prefix, n) \in DOMAIN s})
  BY DEF Shows
<1>4. /\ all \in Seq(Word)
      /\ ListKnows(prefix, j.key, IF j.more THEN Pos(Last(j.body)) ELSE Len(ListOrder), all, seen)
  BY <1>2, <1>3, ListTurns
<1> HIDE DEF new
<1>5. NextRequest(q, j, ks, all) = after_list(q, j, all)
  BY DEF NextRequest
<1> HIDE DEF all
<1>6. CASE j.more
  <2> DEFINE r == [j EXCEPT !.token = Last(j.body), !.attempt = 1, !.at = "sent"]
             e == <<>>
  <2>1. after_list(q, j, all) = Go(r, e)
    BY <1>6 DEF after_list
  <2>2. r.at = "sent" /\ r.m = "LIST" /\ r.key = j.key /\ r.token = Last(j.body)
    BY <1>2 DEF JobType
  <2> HIDE DEF r, e
  <2>3. ListKnows(prefix, r.key, Pos(r.token), all, seen)
    BY <1>4, <1>6, <2>2
  <2>4. IsRequest(prefix, q, r, e, all, seen)
    BY <2>2, <2>3 DEF IsRequest
  <2>5. Steps(prefix, q, Go(r, e), all, seen)
    BY <2>2, <2>4, StepsGo
  <2> QED BY <1>1, <1>5, <2>1, <2>5 DEF all
<1>7. CASE ~ j.more
  <2>1. ListKnows(prefix, j.key, Len(ListOrder), all, seen)
    BY <1>4, <1>7
  <2>2. \A x : is_subtree_key(k, x) /\ (\A y \in seen : x \in DOMAIN y) => x \in ToSet(all)
    BY <2>1, ListedAll
  <2>3. CASE q.op = "scan"
    <3> DEFINE P == {x \in ToSet(all) : is_subtree_key(k, x)}
               a == scanned_keys(q, all)
    <3>1. after_list(q, j, all) = Done(a)
      BY <1>7, <2>3 DEF after_list
    <3>2. a = Filter(all, P)
      BY <2>3 DEF scanned_keys
    <3>3. ToSet(a) = ToSet(all) \cap P
      BY <1>4, <3>2, FilterElements
    <3> HIDE DEF a
    <3>4. \A x \in ToSet(a) : is_subtree_key(k, x) /\ \E y \in seen : x \in DOMAIN y
      BY <2>1, <3>3 DEF ListKnows
    <3>5. \A x : is_subtree_key(k, x) /\ (\A y \in seen : x \in DOMAIN y) => x \in ToSet(a)
      BY <2>2, <3>3
    <3>6. Honest(q, a, seen)
      BY <2>3, <3>4, <3>5 DEF Honest
    <3>7. Steps(prefix, q, Done(a), all, seen)
      BY <3>6, StepsDone
    <3> QED BY <1>1, <1>5, <3>1, <3>7 DEF all
  <2>4. CASE q.op # "scan"
    <3>1. q.op = "flush" /\ k = Root
      BY <2>4
    <3>2. after_list(q, j, all) = DeleteEach(all)
      BY <1>7, <3>1 DEF after_list
    <3>3. \A y \in ToSet(all) : \E z \in seen : y \in DOMAIN z
      BY <2>1 DEF ListKnows
    <3>4. ASSUME NEW y, \A z \in seen : y \in DOMAIN z PROVE y \in ToSet(all)
      <4>1. starts_with(y, Root)
        BY <3>4 DEF Listable
      <4>2. is_subtree_key(k, y)
        BY <3>1, <4>1 DEF is_subtree_key
      <4> QED BY <2>2, <3>4, <4>2
    <3>5. Steps(prefix, q, DeleteEach(all), all, seen)
      BY <1>4, <3>1, <3>3, <3>4, FlushSteps
    <3> QED BY <1>1, <1>5, <3>2, <3>5 DEF all
  <2> QED BY <2>3, <2>4
<1> QED BY <1>6, <1>7

\* The key of a request for key k.
LEMMA RequestKey ==
  ASSUME NEW p, Named(p), NEW q \in AllCalls, q.op \notin {"get_many", "del", "flush", "scan"}
  PROVE  KeyOf(p, object_key(p, q.keys[1])) = q.keys[1]
BY NamedCalls, NameKey

LEMMA GetSteps ==
  ASSUME Named(prefix), NEW q \in AllCalls, q.op \in {"get", "exists"}, NEW j, NEW ks, NEW keys, NEW seen,
         IsRequest(prefix, q, j, ks, keys, seen), NEW s \in seen, Shows(prefix, j, s), NEW all
  PROVE  Steps(prefix, q, NextRequest(q, j, ks, all), all, seen)
<1> DEFINE k == q.keys[1]
<1>1. KeyOf(prefix, object_key(prefix, k)) = k /\ Len(q.keys) = 1
  BY RequestKey, CallFacts
<1>2. CASE q.op = "get"
  <2> DEFINE old == IF j.status \in {200, 206} THEN j.body ELSE Missing
             a == <<old>>
  <2>1. j.m = "GET" /\ j.key = object_key(prefix, k)
    BY <1>2 DEF IsRequest
  <2>2. old = Value(s, k)
    BY <1>1, <2>1 DEF Shows, Value
  <2>3. NextRequest(q, j, ks, all) = Done(a)
    BY <1>2 DEF NextRequest
  <2> HIDE DEF old
  <2>4. Len(a) = 1 /\ DOMAIN a = {1} /\ a[1] = old
    OBVIOUS
  <2> HIDE DEF a
  <2>5. Honest(q, a, seen)
    <3>1. \A i \in DOMAIN a : \E y \in seen : a[i] = Value(y, q.keys[i])
      BY <2>2, <2>4
    <3> QED BY <1>1, <1>2, <2>4, <3>1 DEF Honest
  <2> QED BY <2>3, <2>5, StepsDone
<1>3. CASE q.op = "exists"
  <2> DEFINE a == IF j.status \in {200, 206} THEN Yes ELSE No
  <2>1. j.m = "HEAD" /\ j.key = object_key(prefix, k)
    BY <1>3 DEF IsRequest
  <2>2. a = IF k \in DOMAIN s THEN Yes ELSE No
    BY <1>1, <2>1 DEF Shows
  <2>3. NextRequest(q, j, ks, all) = Done(a)
    BY <1>3 DEF NextRequest
  <2> HIDE DEF a
  <2>4. Honest(q, a, seen)
    BY <1>3, <2>2 DEF Honest
  <2> QED BY <2>3, <2>4, StepsDone
<1> QED BY <1>2, <1>3

LEMMA ManySteps ==
  ASSUME Named(prefix), NEW q \in AllCalls, q.op = "get_many", NEW j, JobOK(j), NEW ks, NEW keys \in Seq(Word), NEW seen,
         IsRequest(prefix, q, j, ks, keys, seen), NEW s \in seen, Shows(prefix, j, s)
  PROVE  Steps(prefix, q, NextRequest(q, j, ks, keys \o collected(q, j)), keys \o collected(q, j), seen)
<1> DEFINE v == IF j.status = 200 THEN j.body ELSE Missing
           all == keys \o <<v>>
           n == Len(q.keys)
<1>1. j.m = "GET" /\ q.keys \in Seq(Word) /\ n \in Nat /\ \A k \in ToSet(q.keys) : k \in Word /\ starts_with(k, Root)
  <2>1. j.m = "GET"
    BY DEF IsRequest
  <2>2. q.keys \in Seq(Word) /\ \A k \in ToSet(q.keys) : k \in Word /\ starts_with(k, Root)
    BY NamedCalls
  <2> QED BY <2>1, <2>2
<1>2. collected(q, j) = <<v>>
  BY <1>1 DEF collected
<1>3. PICK i \in 1 .. n :
        /\ j.key = object_key(prefix, q.keys[i]) /\ ks = SubSeq(q.keys, i + 1, n) /\ Len(keys) = i - 1
        /\ \A l \in 1 .. i - 1 : \E y \in seen : keys[l] = Value(y, q.keys[l])
  BY DEF IsRequest, ManyKnows
<1>4. q.keys[i] \in Word /\ starts_with(q.keys[i], Root) /\ prefix \in Word
  BY <1>1 DEF ToSet, Named
<1>5. KeyOf(prefix, j.key) = q.keys[i]
  BY <1>3, <1>4, NameKey
<1>6. v = Value(s, q.keys[i]) /\ v \in Word
  <2>1. v = Value(s, q.keys[i])
    BY <1>1, <1>5 DEF Shows, Value
  <2>2. j.body \in Word /\ Missing \in Word
    BY <1>1, WordsBasic DEF JobOK, Missing
  <2> QED BY <2>1, <2>2
<1> HIDE DEF v, n
<1>7. /\ all \in Seq(Word) /\ Len(all) = i /\ all[i] = v
      /\ \A l \in 1 .. i - 1 : all[l] = keys[l]
  <2> DEFINE w == <<v>>
  <2>1. w \in Seq(Word) /\ Len(w) = 1 /\ w[1] = v
    BY <1>6
  <2> HIDE DEF w
  <2>2. /\ all \in Seq(Word) /\ Len(all) = Len(keys) + Len(w)
        /\ (\A l \in 1 .. Len(keys) : all[l] = keys[l])
        /\ \A l \in 1 .. Len(w) : all[Len(keys) + l] = w[l]
    <3>1. all = keys \o w
      BY DEF w
    <3> QED BY <2>1, <3>1, Joined
  <2> HIDE DEF all
  <2>3. i \in Nat /\ 1 \in 1 .. Len(w) /\ Len(keys) + 1 = i
    BY <1>3, <2>1
  <2> QED BY <1>3, <2>1, <2>2, <2>3
<1> HIDE DEF all
<1>8. \A l \in 1 .. i : \E y \in seen : all[l] = Value(y, q.keys[l])
  <2> SUFFICES ASSUME NEW l \in 1 .. i PROVE \E y \in seen : all[l] = Value(y, q.keys[l])
    OBVIOUS
  <2>1. CASE l = i
    BY <1>6, <1>7, <2>1
  <2>2. CASE l # i
    <3>1. l \in 1 .. i - 1
      BY <2>2
    <3> QED BY <1>3, <1>7, <3>1
  <2> QED BY <2>1, <2>2
<1>9. DOMAIN all = 1 .. i
  BY <1>7
<1>10. CASE i = n
  <2>1. ks = <<>>
    BY <1>1, <1>3, <1>10
  <2>2. NextRequest(q, j, ks, all) = Done(all)
    BY <2>1 DEF NextRequest
  <2>3. Honest(q, all, seen)
    BY <1>7, <1>8, <1>9, <1>10 DEF Honest, n
  <2>4. Steps(prefix, q, Done(all), all, seen)
    BY <2>3, StepsDone
  <2> QED BY <1>2, <2>2, <2>4 DEF all
<1>11. CASE i # n
  <2>1. i + 1 \in 1 .. n
    BY <1>1, <1>11
  <2>2. ks \in Seq(Word) /\ Len(ks) = n - i /\ \A l \in 1 .. n - i : ks[l] = q.keys[i + l]
    <3>1. ks \in Seq(Word) /\ Len(ks) = n - i
      BY <1>1, <1>3, <2>1 DEF n
    <3>2. ASSUME NEW l \in 1 .. n - i PROVE ks[l] = q.keys[i + l]
      BY <1>1, <1>3, <2>1 DEF n
    <3> QED BY <3>1, <3>2
  <2>3. ks # <<>> /\ n - i >= 1
    BY <1>1, <2>1, <2>2
  <2> DEFINE x == Head(ks)
             t == Tail(ks)
             r == Request("GET", x, <<>>)
             u == SubSeq(q.keys, (i + 1) + 1, n)
  <2>4. x = ks[1] /\ t \in Seq(Word) /\ Len(t) = Len(ks) - 1 /\ \A l \in 1 .. Len(t) : t[l] = ks[l + 1]
    BY <2>2, <2>3, HeadTailProperties
  <2>5. x = q.keys[i + 1]
    BY <2>2, <2>3, <2>4
  <2>6. t = u
    <3>1. u \in Seq(Word) /\ Len(u) = n - (i + 1)
      BY <1>1, <2>1 DEF n
    <3>2. ASSUME NEW l \in 1 .. n - (i + 1) PROVE u[l] = q.keys[(i + 1) + l]
      BY <1>1, <2>1 DEF n
    <3> HIDE DEF u, t
    <3>3. ASSUME NEW l \in 1 .. Len(u) PROVE t[l] = u[l]
      <4>1. l \in 1 .. n - (i + 1) /\ l \in 1 .. Len(t) /\ l + 1 \in 1 .. n - i /\ i + (l + 1) = (i + 1) + l
        BY <1>1, <2>1, <2>2, <2>4, <3>1
      <4>2. t[l] = ks[l + 1] /\ ks[l + 1] = q.keys[i + (l + 1)]
        BY <2>2, <2>4, <4>1
      <4> QED BY <3>2, <4>1, <4>2
    <3>4. Len(t) = Len(u)
      BY <1>1, <2>1, <2>2, <2>4, <3>1
    <3> QED BY <2>4, <3>1, <3>3, <3>4, SeqEqual
  <2>7. NextRequest(q, j, ks, all) = Go(r, t)
    BY <2>3 DEF NextRequest
  <2>8. r.m = "GET" /\ r.key = object_key(prefix, x) /\ r.at = "sent"
    BY RequestIs
  <2> HIDE DEF x, t, r, u
  <2>9. ManyKnows(prefix, q, r, t, all, seen)
    <3>1. Len(all) = (i + 1) - 1 /\ \A l \in 1 .. (i + 1) - 1 : \E y \in seen : all[l] = Value(y, q.keys[l])
      BY <1>7, <1>8
    <3> QED BY <2>1, <2>5, <2>6, <2>8, <3>1 DEF ManyKnows, n, u
  <2>10. IsRequest(prefix, q, r, t, all, seen)
    BY <2>8, <2>9 DEF IsRequest
  <2>11. Steps(prefix, q, Go(r, t), all, seen)
    BY <2>8, <2>10, StepsGo
  <2> QED BY <1>2, <2>7, <2>11 DEF all
<1> QED BY <1>10, <1>11

LEMMA GetPartSteps ==
  ASSUME Named(prefix), NEW q \in AllCalls, q.op = "get_part", NEW j, j.status # 416, NEW ks, NEW keys, NEW seen,
         IsRequest(prefix, q, j, ks, keys, seen), NEW s \in seen, Shows(prefix, j, s), Listable(prefix, s), NEW all
  PROVE  Steps(prefix, q, NextRequest(q, j, ks, all), all, seen)
<1> DEFINE k == q.keys[1]
           e == <<>>
           m == <<Missing>>
<1>1. KeyOf(prefix, object_key(prefix, k)) = k /\ q.off \in Nat /\ q.len \in Nat
  BY RequestKey, CallFacts
<1>2. /\ j.key = object_key(prefix, k) /\ j.m \in {"HEAD", "GET", "RANGE"}
      /\ j.m = "GET" => q.len = 0
      /\ j.m = "RANGE" => j.off = q.off /\ j.len = q.len
  BY DEF IsRequest
<1>3. Value(s, k) \in Word /\ (k \notin DOMAIN s => Value(s, k) = Missing)
  BY ValueType DEF Listable, Value
<1>4. ASSUME Value(s, k) = Missing \/ q.len = 0 PROVE Honest(q, m, seen) /\ m = No
  <2>1. slice(Value(s, k), q.off, q.len) = Missing
    BY <1>1, <1>3, <1>4, SliceNothing DEF Missing
  <2>2. m = <<slice(Value(s, k), q.off, q.len)>>
    BY <2>1
  <2>3. m = No
    BY DEF No, Missing
  <2> HIDE DEF m
  <2>4. Honest(q, m, seen)
    BY <2>2 DEF Honest
  <2> QED BY <2>3, <2>4
<1> HIDE DEF m, e
<1>5. CASE j.m = "HEAD" /\ j.status \notin {200, 206}
  <2>1. k \notin DOMAIN s
    BY <1>1, <1>2, <1>5 DEF Shows
  <2>2. NextRequest(q, j, ks, all) = Done(No)
    BY <1>5 DEF NextRequest
  <2>3. Honest(q, No, seen)
    BY <1>3, <1>4, <2>1
  <2> QED BY <2>2, <2>3, StepsDone
<1>6. CASE j.m = "HEAD" /\ j.status \in {200, 206} /\ q.len = 0
  <2> DEFINE r == Request("GET", k, e)
  <2>1. NextRequest(q, j, ks, all) = Go(r, e)
    BY <1>6 DEF NextRequest, e
  <2>2. r.m = "GET" /\ r.key = object_key(prefix, k) /\ r.at = "sent"
    BY RequestIs
  <2> HIDE DEF r
  <2>3. IsRequest(prefix, q, r, e, all, seen)
    BY <1>6, <2>2 DEF IsRequest
  <2> QED BY <2>1, <2>2, <2>3, StepsGo
<1>7. CASE j.m = "HEAD" /\ j.status \in {200, 206} /\ q.len # 0
  <2> DEFINE r == [Request("RANGE", k, e) EXCEPT !.off = q.off, !.len = q.len]
  <2>1. NextRequest(q, j, ks, all) = Go(r, e)
    BY <1>7 DEF NextRequest, e
  <2>2. r.m = "RANGE" /\ r.key = object_key(prefix, k) /\ r.at = "sent" /\ r.off = q.off /\ r.len = q.len
    BY DEF Request, NoJob
  <2> HIDE DEF r
  <2>3. IsRequest(prefix, q, r, e, all, seen)
    BY <2>2 DEF IsRequest
  <2> QED BY <2>1, <2>2, <2>3, StepsGo
<1>8. CASE j.m = "GET"
  <2>1. NextRequest(q, j, ks, all) = Done(m)
    BY <1>8 DEF NextRequest, m
  <2>2. Honest(q, m, seen)
    BY <1>2, <1>4, <1>8
  <2> QED BY <2>1, <2>2, StepsDone
<1>9. CASE j.m = "RANGE"
  <2> DEFINE old == IF j.status \in {200, 206} THEN j.body ELSE Missing
             a == <<old>>
  <2>1. NextRequest(q, j, ks, all) = Done(a)
    BY <1>9 DEF NextRequest
  <2>2. k \notin DOMAIN s => j.status = 404
    BY <1>1, <1>2, <1>9 DEF Shows
  <2>3. k \in DOMAIN s => old = slice(Value(s, k), q.off, q.len)
    BY <1>1, <1>2, <1>9 DEF Shows
  <2>4. k \notin DOMAIN s => old = slice(Value(s, k), q.off, q.len)
    <3>1. k \notin DOMAIN s => old = Missing
      BY <2>2
    <3>2. k \notin DOMAIN s => slice(Value(s, k), q.off, q.len) = Missing
      BY <1>1, <1>3, SliceNothing DEF Missing
    <3> QED BY <3>1, <3>2
  <2>5. old = slice(Value(s, k), q.off, q.len)
    BY <2>3, <2>4
  <2> HIDE DEF old
  <2>6. Honest(q, a, seen)
    BY <2>5 DEF Honest
  <2> HIDE DEF a
  <2> QED BY <2>1, <2>6, StepsDone
<1> QED BY <1>2, <1>5, <1>6, <1>7, <1>8, <1>9

LEMMA SetPartSteps ==
  ASSUME Named(prefix), NEW q \in AllCalls, q.op = "set_part", NEW j, NEW ks, NEW keys, NEW seen,
         IsRequest(prefix, q, j, ks, keys, seen), NEW s \in seen, Shows(prefix, j, s),
         Effect(Asks(prefix, j), s) \in seen, \A y \in seen : Listable(prefix, y), NEW all
  PROVE  Steps(prefix, q, NextRequest(q, j, ks, all), all, seen)
<1> DEFINE k == q.keys[1]
           e == <<>>
           old == IF j.status \in {200, 206} THEN j.body ELSE Missing
           get == Request("GET", k, e)
<1>1. KeyOf(prefix, object_key(prefix, k)) = k /\ q.off \in Nat /\ q.val \in Word
  BY RequestKey, CallFacts
<1>2. /\ j.key = object_key(prefix, k) /\ j.m \in {"HEAD", "GET", "PUT"}
      /\ j.m = "PUT" => \E y \in seen : in_bounds(Value(y, k), q) /\ j.val = patch(Value(y, k), q.off, q.val)
  BY DEF IsRequest
<1>3. ASSUME ~ in_bounds(Value(s, k), q) PROVE \A a : Honest(q, a, seen)
  BY <1>3 DEF Honest
<1>4. j.m = "GET" => old = Value(s, k)
  BY <1>1, <1>2 DEF Shows, Value
<1>5. \A t : Steps(prefix, q, Go(get, t), all, seen)
  <2>1. get.m = "GET" /\ get.key = object_key(prefix, k) /\ get.at = "sent"
    BY RequestIs
  <2> HIDE DEF get
  <2>2. \A t : IsRequest(prefix, q, get, t, all, seen)
    BY <2>1 DEF IsRequest
  <2> QED BY <2>1, <2>2, StepsGo
<1>6. \A a : ~ in_bounds(Value(s, k), q) => Steps(prefix, q, Done(a), all, seen)
  BY <1>3, StepsDone
<1>7. CASE j.m = "HEAD"
  <2>1. j.status \in {200, 206} <=> k \in DOMAIN s
    BY <1>1, <1>2, <1>7 DEF Shows
  <2>2. k \notin DOMAIN s => ~ in_bounds(Value(s, k), q)
    BY DEF Value, in_bounds
  <2>3. NextRequest(q, j, ks, all) = IF j.status \in {200, 206} THEN Go(get, e) ELSE Done(Refused)
    BY <1>7 DEF NextRequest
  <2> HIDE DEF get, e
  <2>4. CASE k \in DOMAIN s
    BY <1>5, <2>1, <2>3, <2>4
  <2>5. CASE k \notin DOMAIN s
    BY <1>6, <2>1, <2>2, <2>3, <2>5
  <2> QED BY <2>4, <2>5
<1>8. CASE j.m = "GET" /\ ks = <<>>
  <2> DEFINE one == <<k>>
  <2>1. NextRequest(q, j, ks, all) = IF in_bounds(old, q) THEN Go(get, one) ELSE Done(Refused)
    BY <1>8 DEF NextRequest
  <2> HIDE DEF get, one, old
  <2>2. CASE in_bounds(Value(s, k), q)
    BY <1>4, <1>5, <1>8, <2>1, <2>2
  <2>3. CASE ~ in_bounds(Value(s, k), q)
    BY <1>4, <1>6, <1>8, <2>1, <2>3
  <2> QED BY <2>2, <2>3
<1>9. CASE j.m = "GET" /\ ks # <<>>
  <2> DEFINE put == Request("PUT", k, patch(old, q.off, q.val))
  <2>1. NextRequest(q, j, ks, all) = IF in_bounds(old, q) THEN Go(put, e) ELSE Done(e)
    BY <1>9 DEF NextRequest, after_reread
  <2>2. put.m = "PUT" /\ put.key = object_key(prefix, k) /\ put.at = "sent" /\ put.val = patch(old, q.off, q.val)
    BY RequestIs
  <2> HIDE DEF put, e, old
  <2>3. in_bounds(Value(s, k), q) => IsRequest(prefix, q, put, e, all, seen)
    <3>1. in_bounds(Value(s, k), q) => \E y \in seen : in_bounds(Value(y, k), q) /\ put.val = patch(Value(y, k), q.off, q.val)
      BY <1>4, <1>9, <2>2
    <3> QED BY <2>2, <3>1 DEF IsRequest
  <2>4. CASE in_bounds(Value(s, k), q)
    <3>1. Steps(prefix, q, Go(put, e), all, seen)
      BY <2>2, <2>3, <2>4, StepsGo
    <3> QED BY <1>4, <1>9, <2>1, <2>4, <3>1
  <2>5. CASE ~ in_bounds(Value(s, k), q)
    BY <1>4, <1>6, <1>9, <2>1, <2>5
  <2> QED BY <2>4, <2>5
<1>10. CASE j.m = "PUT"
  <2>1. PICK y \in seen : j.val = patch(Value(y, k), q.off, q.val)
    BY <1>2, <1>10
  <2>2. Value(y, k) \in Word
    BY ValueType DEF Listable
  <2> DEFINE v == j.val
             t == With(s, k, v)
             m == SetOf(k, v)
  <2>3. NextRequest(q, j, ks, all) = Done(e)
    BY <1>10 DEF NextRequest
  <2>4. Asks(prefix, j) = m
    BY <1>1, <1>2, <1>10 DEF Asks
  <2>5. m.op = "set" /\ m.keys[1] = k /\ m.val = v
    BY DEF SetOf, NoCall
  <2> HIDE DEF m
  <2>6. t \in seen
    BY <2>4, <2>5 DEF Effect
  <2>7. Value(t, k) = v
    BY DEF Value, With
  <2>8. slice(v, q.off, Len(q.val)) = q.val
    BY <1>1, <2>1, <2>2, SlicePatch
  <2>9. e # Refused
    BY DEF Refused
  <2> HIDE DEF t, v, e
  <2>10. Honest(q, e, seen)
    BY <2>6, <2>7, <2>8, <2>9 DEF Honest
  <2> QED BY <2>3, <2>10, StepsDone
<1> QED BY <1>2, <1>7, <1>8, <1>9, <1>10

LEMMA SetSteps ==
  ASSUME Named(prefix), NEW q \in AllCalls, q.op = "set", NEW j, NEW ks, NEW keys, NEW seen,
         IsRequest(prefix, q, j, ks, keys, seen), NEW s \in seen, Effect(Asks(prefix, j), s) \in seen, NEW all
  PROVE  Steps(prefix, q, NextRequest(q, j, ks, all), all, seen)
<1> DEFINE k == q.keys[1]
           e == <<>>
           t == With(s, k, q.val)
           m == SetOf(k, q.val)
<1>1. KeyOf(prefix, object_key(prefix, k)) = k
  BY RequestKey
<1>2. j.key = object_key(prefix, k) /\ j.m = "PUT" /\ j.val = q.val
  BY DEF IsRequest
<1>3. NextRequest(q, j, ks, all) = Done(e)
  BY DEF NextRequest
<1>4. Asks(prefix, j) = m
  BY <1>1, <1>2 DEF Asks
<1>5. m.op = "set" /\ m.keys[1] = k /\ m.val = q.val
  BY DEF SetOf, NoCall
<1> HIDE DEF m
<1>6. t \in seen
  BY <1>4, <1>5 DEF Effect
<1>7. Value(t, k) = q.val
  BY DEF Value, With
<1> HIDE DEF e, t
<1>8. Honest(q, e, seen)
  BY <1>6, <1>7 DEF Honest
<1> QED BY <1>3, <1>8, StepsDone

\* A DELETE that was executed: the key was gone then.
LEMMA Deleted ==
  ASSUME NEW p, Named(p), NEW j, j.m = "DELETE", NEW x \in Word, starts_with(x, Root), j.key = object_key(p, x),
         NEW s, NEW seen, Effect(Asks(p, j), s) \in seen
  PROVE  \E y \in seen : x \notin DOMAIN y
<1>1. KeyOf(p, j.key) = x
  BY NameKey DEF Named
<1>2. Asks(p, j) = DelOf(x)
  BY <1>1 DEF Asks
<1>3. DelOf(x).op = "del" /\ DelOf(x).keys = <<x>> /\ ToSet(<<x>>) = {x}
  BY DEF DelOf, NoCall, ToSet
<1>4. Effect(DelOf(x), s) = Without(s, {x})
  BY <1>3 DEF Effect
<1>5. x \notin DOMAIN Without(s, {x})
  BY DEF Without
<1> QED BY <1>2, <1>4, <1>5

LEMMA DeleteSteps ==
  ASSUME Named(prefix), NEW q \in AllCalls, q.op \in {"del", "flush"}, NEW j, j.m = "DELETE", NEW ks \in Seq(Word),
         NEW keys, NEW seen, IsRequest(prefix, q, j, ks, keys, seen), NEW s \in seen,
         Effect(Asks(prefix, j), s) \in seen, \A y \in seen : Listable(prefix, y), NEW all
  PROVE  Steps(prefix, q, NextRequest(q, j, ks, all), all, seen)
<1>1. NextRequest(q, j, ks, all) = DeleteEach(ks)
  BY DEF NextRequest
<1>2. CASE q.op = "del"
  <2>1. PICK x \in ToSet(q.keys) :
          /\ j.key = object_key(prefix, x) /\ ToSet(ks) \subseteq ToSet(q.keys)
          /\ \A y \in ToSet(q.keys) : y = x \/ y \in ToSet(ks) \/ \E z \in seen : y \notin DOMAIN z
    BY <1>2 DEF IsRequest, DelKnows
  <2>2. x \in Word /\ starts_with(x, Root)
    BY <1>2, NamedCalls
  <2>3. \E y \in seen : x \notin DOMAIN y
    BY <2>1, <2>2, Deleted
  <2>4. \A y \in ToSet(q.keys) : y \in ToSet(ks) \/ \E z \in seen : y \notin DOMAIN z
    BY <2>1, <2>3
  <2>5. Steps(prefix, q, DeleteEach(ks), all, seen)
    BY <1>2, <2>1, <2>4, DelSteps
  <2> QED BY <1>1, <2>5
<1>3. CASE q.op = "flush"
  <2>1. PICK x : /\ j.key = object_key(prefix, x) /\ \E z \in seen : x \in DOMAIN z
                 /\ \A y \in ToSet(ks) : \E z \in seen : y \in DOMAIN z
                 /\ \A y : (\A z \in seen : y \in DOMAIN z) => y = x \/ y \in ToSet(ks)
    BY <1>3 DEF IsRequest, FlushKnows
  <2>2. x \in Word /\ starts_with(x, Root)
    BY <2>1 DEF Listable
  <2>3. \E y \in seen : x \notin DOMAIN y
    BY <2>1, <2>2, Deleted
  <2>4. \A y : (\A z \in seen : y \in DOMAIN z) => y \in ToSet(ks)
    BY <2>1, <2>3
  <2>5. Steps(prefix, q, DeleteEach(ks), all, seen)
    BY <1>3, <2>1, <2>4, FlushSteps
  <2> QED BY <1>1, <2>5
<1> QED BY <1>2, <1>3

\* Every answer but 416 leads to an honest result or to another request.
LEMMA NextSteps ==
  ASSUME Named(prefix), NEW q \in AllCalls, NEW j, JobOK(j), j.status # 416, NEW ks \in Seq(Word),
         NEW keys \in Seq(Word), NEW seen, IsRequest(prefix, q, j, ks, keys, seen), NEW s \in seen,
         Shows(prefix, j, s), Effect(Asks(prefix, j), s) \in seen, \A y \in seen : Listable(prefix, y)
  PROVE  Steps(prefix, q, NextRequest(q, j, ks, keys \o collected(q, j)), keys \o collected(q, j), seen)
<1> DEFINE all == keys \o collected(q, j)
<1>1. q.op \in {"get", "get_many", "get_part", "exists", "scan", "set", "set_part", "del", "flush"}
  BY CallFacts DEF CallType
<1>2. CASE q.op = "get_many"
  BY <1>2, ManySteps
<1>3. CASE q.op = "scan"
  <2> DEFINE k == q.keys[1]
  <2>1. k \in Word /\ (starts_with(k, Root) \/ k = <<>>)
    BY <1>3, NamedCalls
  <2>2. j.m = "LIST" /\ j.key = object_key(prefix, k) /\ ListKnows(prefix, j.key, Pos(j.token), keys, seen)
    BY <1>3 DEF IsRequest
  <2>3. (q.op = "scan" /\ k = q.keys[1]) \/ (q.op = "flush" /\ k = Root)
    BY <1>3
  <2> HIDE DEF k
  <2> QED BY <2>1, <2>2, <2>3, ListSteps
<1>4. CASE q.op = "flush" /\ j.m = "LIST"
  <2>1. j.key = object_key(prefix, Root) /\ ListKnows(prefix, j.key, Pos(j.token), keys, seen)
    BY <1>4 DEF IsRequest
  <2>2. Root \in Word /\ starts_with(Root, Root)
    BY WordsBasic DEF Root, starts_with, IsPrefix
  <2> QED BY <1>4, <2>1, <2>2, ListSteps
<1> HIDE DEF all
<1>5. CASE q.op \in {"get", "exists"}
  <2>1. Steps(prefix, q, NextRequest(q, j, ks, all), all, seen)
    BY <1>5, GetSteps
  <2> QED BY <2>1 DEF all
<1>6. CASE q.op = "get_part"
  <2>1. Steps(prefix, q, NextRequest(q, j, ks, all), all, seen)
    BY <1>6, GetPartSteps
  <2> QED BY <2>1 DEF all
<1>7. CASE q.op = "set_part"
  <2>1. Steps(prefix, q, NextRequest(q, j, ks, all), all, seen)
    BY <1>7, SetPartSteps
  <2> QED BY <2>1 DEF all
<1>8. CASE q.op = "set"
  <2>1. Steps(prefix, q, NextRequest(q, j, ks, all), all, seen)
    BY <1>8, SetSteps
  <2> QED BY <2>1 DEF all
<1>9. CASE q.op \in {"del", "flush"} /\ j.m # "LIST"
  <2>1. j.m = "DELETE"
    BY <1>9 DEF IsRequest
  <2>2. Steps(prefix, q, NextRequest(q, j, ks, all), all, seen)
    BY <1>9, <2>1, DeleteSteps
  <2> QED BY <2>2 DEF all
<1>10. q.op = "del" => j.m # "LIST"
  BY DEF IsRequest
<1> QED BY <1>1, <1>2, <1>3, <1>4, <1>5, <1>6, <1>7, <1>8, <1>9, <1>10

\* The first request of a call, for which nothing has been collected yet.
LEMMA FirstSteps ==
  ASSUME Named(prefix), NEW q \in AllCalls, NEW seen, NEW none, none = <<>>
  PROVE  /\ FirstRequest(q).req = NoJob => q.keys = <<>> /\ q.op # "flush"
         /\ FirstRequest(q).req # NoJob => Steps(prefix, q, FirstRequest(q), none, seen)
<1> DEFINE k == q.keys[1]
           first == FirstRequest(q)
<1>1. q.op \in {"get", "get_many", "get_part", "exists", "scan", "set", "set_part", "del", "flush"}
  BY CallFacts DEF CallType
<1>2. ToSet(none) = {} /\ Len(none) = 0
  BY DEF ToSet
<1>3. q.keys \in Seq(Word)
  BY CallFacts
<1>4. ASSUME NEW r, NEW ks, r.at = "sent", first = Go(r, ks)
      PROVE  first.req # NoJob
  BY <1>4 DEF Go, NoJob
<1>5. CASE q.op \in {"get", "set", "exists", "get_part", "set_part"}
  <2> DEFINE r == CASE q.op = "get" -> Request("GET", k, none)
                    [] q.op = "set" -> Request("PUT", k, q.val)
                    [] OTHER -> Request("HEAD", k, none)
  <2>1. first = Go(r, none)
    BY <1>5 DEF FirstRequest
  <2>2. /\ r.key = object_key(prefix, k) /\ r.at = "sent" /\ (q.op = "get" => r.m = "GET")
        /\ q.op = "set" => r.m = "PUT" /\ r.val = q.val
        /\ q.op \notin {"get", "set"} => r.m = "HEAD"
    BY <1>5, RequestIs
  <2> HIDE DEF r, first
  <2>3. IsRequest(prefix, q, r, none, none, seen)
    BY <1>5, <2>2 DEF IsRequest
  <2>4. Steps(prefix, q, Go(r, none), none, seen)
    BY <2>2, <2>3, StepsGo
  <2> QED BY <1>4, <2>1, <2>2, <2>4 DEF first
<1>6. CASE q.op = "get_many"
  <2>1. CASE q.keys = <<>>
    <3>1. first = Done(<<>>)
      BY <1>6, <2>1 DEF FirstRequest
    <3>2. first.req = NoJob
      BY <3>1 DEF Done
    <3> QED BY <1>6, <2>1, <3>2
  <2>2. CASE q.keys # <<>>
    <3> DEFINE r == Request("GET", k, none)
               t == Tail(q.keys)
    <3>1. first = Go(r, t)
      BY <1>6, <2>2 DEF FirstRequest
    <3>2. r.m = "GET" /\ r.key = object_key(prefix, k) /\ r.at = "sent"
      BY RequestIs
    <3>3. t = SubSeq(q.keys, 1 + 1, Len(q.keys)) /\ 1 \in 1 .. Len(q.keys)
      BY <1>3, <2>2, HeadTailSet, EmptySeq
    <3> HIDE DEF r, t, first
    <3>4. ManyKnows(prefix, q, r, t, none, seen)
      <4>1. Len(none) = 1 - 1 /\ 1 .. 1 - 1 = {}
        BY <1>2
      <4> QED BY <3>2, <3>3, <4>1 DEF ManyKnows
    <3>5. IsRequest(prefix, q, r, t, none, seen)
      BY <1>6, <3>2, <3>4 DEF IsRequest
    <3>6. Steps(prefix, q, Go(r, t), none, seen)
      BY <3>2, <3>5, StepsGo
    <3> QED BY <1>4, <3>1, <3>2, <3>6 DEF first
  <2> QED BY <2>1, <2>2
<1>7. CASE q.op = "del"
  <2>1. first = DeleteEach(q.keys)
    BY <1>7 DEF FirstRequest
  <2>2. Steps(prefix, q, DeleteEach(q.keys), none, seen)
    BY <1>3, <1>7, DelSteps
  <2>3. q.keys # <<>> => first.req # NoJob
    <3> DEFINE r == Request("DELETE", Head(q.keys), <<>>)
    <3>1. q.keys # <<>> => first = Go(r, Tail(q.keys))
      BY <2>1 DEF DeleteEach
    <3>2. r.at = "sent"
      BY RequestIs
    <3> HIDE DEF r, first
    <3> QED BY <1>4, <3>1, <3>2
  <2> QED BY <1>7, <2>1, <2>2, <2>3
<1>8. CASE q.op \in {"scan", "flush"}
  <2> DEFINE x == IF q.op = "scan" THEN k ELSE Root
             r == ListFrom(x, none)
  <2>1. first = Go(r, none)
    BY <1>8 DEF FirstRequest
  <2>2. r.m = "LIST" /\ r.key = object_key(prefix, x) /\ r.at = "sent" /\ r.token = none
    BY DEF ListFrom, Request, NoJob
  <2> HIDE DEF r, first
  <2>3. Pos(r.token) = 0
    BY <2>2 DEF Pos
  <2>4. ListKnows(prefix, r.key, Pos(r.token), none, seen)
    BY <1>2, <2>3 DEF ListKnows
  <2>5. IsRequest(prefix, q, r, none, none, seen)
    BY <1>8, <2>2, <2>4 DEF IsRequest
  <2>6. Steps(prefix, q, Go(r, none), none, seen)
    BY <2>2, <2>5, StepsGo
  <2> QED BY <1>4, <2>1, <2>2, <2>6 DEF first
<1> QED BY <1>1, <1>5, <1>6, <1>7, <1>8

LEMMA SetIs ==
  ASSUME NEW q \in AllCalls, q.op = "set"
  PROVE  q = SetOf(q.keys[1], q.val)
<1>1. q \in CallType /\ Len(q.keys) = 1 /\ q.keys \in Seq(Word) /\ q.off = 0 /\ q.len = 0
  BY CallFacts
<1>2. q.keys = <<q.keys[1]>>
  BY <1>1
<1>3. q = [op |-> "set", keys |-> q.keys, val |-> q.val, off |-> 0, len |-> 0]
  BY <1>1 DEF CallType
<1>4. SetOf(q.keys[1], q.val) = [op |-> "set", keys |-> <<q.keys[1]>>, val |-> q.val, off |-> 0, len |-> 0]
  <2> DEFINE ks == <<q.keys[1]>>
             e == <<>>
             n == [op |-> "none", keys |-> e, val |-> e, off |-> 0, len |-> 0]
  <2>1. SetOf(q.keys[1], q.val) = [n EXCEPT !.op = "set", !.keys = ks, !.val = q.val]
    BY DEF SetOf, NoCall
  <2> HIDE DEF ks, e
  <2>2. [n EXCEPT !.op = "set", !.keys = ks, !.val = q.val] = [op |-> "set", keys |-> ks, val |-> q.val, off |-> 0, len |-> 0]
    <3>1. [n EXCEPT !.op = "set"] = [op |-> "set", keys |-> e, val |-> e, off |-> 0, len |-> 0]
      OBVIOUS
    <3>2. \A v : [[op |-> "set", keys |-> e, val |-> e, off |-> 0, len |-> 0] EXCEPT !.keys = v]
               = [op |-> "set", keys |-> v, val |-> e, off |-> 0, len |-> 0]
      OBVIOUS
    <3>3. \A v : [[op |-> "set", keys |-> ks, val |-> e, off |-> 0, len |-> 0] EXCEPT !.val = v]
               = [op |-> "set", keys |-> ks, val |-> v, off |-> 0, len |-> 0]
      OBVIOUS
    <3> QED BY <3>1, <3>2, <3>3, ZenonT(40)
  <2> QED BY <2>1, <2>2 DEF ks
<1> QED BY <1>2, <1>3, <1>4, Zenon

\* A request is below the prefix; what it stores or deletes is an effect of its call.
LEMMA RequestEffects ==
  ASSUME NEW p, Named(p), NEW q \in AllCalls, NEW j, NEW ks, NEW keys, NEW seen, IsRequest(p, q, j, ks, keys, seen),
         \A y \in seen : Listable(p, y)
  PROVE  /\ starts_with(j.key, p)
         /\ j.m = "PUT" => j.key \in Names
         /\ j.m \in {"PUT", "DELETE"} => Asks(p, j) \in Effects(q, seen)
<1> DEFINE k == q.keys[1]
<1>1. q.op \in {"get", "get_many", "get_part", "exists", "scan", "set", "set_part", "del", "flush"} /\ q.keys \in Seq(Word)
  BY CallFacts DEF CallType
<1>2. p \in Word
  BY DEF Named
<1>3. \A x \in Word : starts_with(object_key(p, x), p)
  BY <1>2, ObjectKey
<1>4. \A x \in Word : starts_with(x, Root) => KeyOf(p, object_key(p, x)) = x
  BY <1>2, NameKey
<1>5. CASE q.op = "set"
  <2>1. k \in Word /\ starts_with(k, Root) /\ object_key(p, k) \in Names
    BY <1>5, NamedCalls
  <2>2. j.m = "PUT" /\ j.key = object_key(p, k) /\ j.val = q.val
    BY <1>5 DEF IsRequest
  <2>3. Asks(p, j) = q
    BY <1>4, <1>5, <2>1, <2>2, SetIs DEF Asks
  <2> QED BY <1>3, <1>5, <2>1, <2>2, <2>3 DEF Effects
<1>6. CASE q.op = "set_part"
  <2>1. k \in Word /\ starts_with(k, Root) /\ object_key(p, k) \in Names
    BY <1>6, NamedCalls
  <2>2. /\ j.m \in {"HEAD", "GET", "PUT"} /\ j.key = object_key(p, k)
        /\ j.m = "PUT" => \E s \in seen : in_bounds(Value(s, k), q) /\ j.val = patch(Value(s, k), q.off, q.val)
    BY <1>6 DEF IsRequest
  <2>3. j.m = "PUT" => Asks(p, j) = SetOf(k, j.val)
    BY <1>4, <2>1, <2>2 DEF Asks
  <2>4. j.m = "PUT" => Asks(p, j) \in {SetOf(k, patch(Value(s, k), q.off, q.val)) : s \in {y \in seen : in_bounds(Value(y, k), q)}}
    BY <2>2, <2>3
  <2> QED BY <1>3, <1>6, <2>1, <2>2, <2>4 DEF Effects
<1>7. CASE q.op = "del"
  <2>1. PICK x \in ToSet(q.keys) : j.key = object_key(p, x)
    BY <1>7 DEF IsRequest, DelKnows
  <2>2. x \in Word /\ starts_with(x, Root) /\ j.m = "DELETE"
    BY <1>7, NamedCalls DEF IsRequest
  <2>3. Asks(p, j) = DelOf(x)
    BY <1>4, <2>1, <2>2 DEF Asks
  <2> QED BY <1>3, <1>7, <2>1, <2>2, <2>3 DEF Effects
<1>8. CASE q.op = "flush" /\ j.m # "LIST"
  <2>1. j.m = "DELETE" /\ FlushKnows(p, j, ks, seen)
    BY <1>8 DEF IsRequest
  <2>2. PICK x : j.key = object_key(p, x) /\ \E s \in seen : x \in DOMAIN s
    BY <2>1 DEF FlushKnows
  <2>3. x \in Word /\ starts_with(x, Root)
    BY <2>2 DEF Listable
  <2>4. Asks(p, j) = DelOf(x)
    BY <1>4, <2>1, <2>2, <2>3 DEF Asks
  <2>5. x \in UNION {DOMAIN s : s \in seen}
    BY <2>2
  <2> QED BY <1>3, <1>8, <2>1, <2>2, <2>3, <2>4, <2>5 DEF Effects
<1>9. CASE q.op = "flush" /\ j.m = "LIST"
  <2>1. j.key = object_key(p, Root)
    BY <1>9 DEF IsRequest
  <2> QED BY <1>3, <1>9, <2>1, WordsBasic
<1>10. CASE q.op = "get_many"
  <2>1. PICK i \in 1 .. Len(q.keys) : j.key = object_key(p, q.keys[i])
    BY <1>10 DEF IsRequest, ManyKnows
  <2>2. q.keys[i] \in Word /\ j.m = "GET"
    BY <1>1, <1>10 DEF IsRequest
  <2> QED BY <1>3, <2>1, <2>2
<1>11. CASE q.op \in {"get", "exists", "get_part", "scan"}
  <2>1. k \in Word
    BY <1>11, CallFacts
  <2>2. j.key = object_key(p, k) /\ j.m \notin {"PUT", "DELETE"}
    BY <1>11 DEF IsRequest
  <2> QED BY <1>3, <2>1, <2>2
<1> QED BY <1>1, <1>5, <1>6, <1>7, <1>8, <1>9, <1>10, <1>11

-----------------------------------------------------------------------------
\* Every step of the S3 store is a step of the contract.

LEMMA OwnListable ==
  ASSUME NEW p \in Word, NEW b, HoldsWords(b), DOMAIN b \subseteq Names
  PROVE  Listable(p, OwnOf(p, b))
<1>1. DOMAIN b \subseteq Word
  BY NamesWords
<1>2. \A k \in DOMAIN OwnOf(p, b) : k \in Word /\ starts_with(k, Root) /\ object_key(p, k) \in DOMAIN b
  BY <1>1, OwnKeys
<1>3. \A k \in DOMAIN OwnOf(p, b) : OwnOf(p, b)[k] = b[object_key(p, k)]
  BY <1>1, <1>2, OwnKeys
<1> QED BY <1>2, <1>3 DEF Listable, HoldsWords

\* One client moves on: what it knows is all there is to check.
LEMMA S3KnowsMoves ==
  ASSUME S3Inv, S3Knows, NEW c \in Clients, NEW q, NEW j, NEW ks, NEW keys, NEW seen,
         call' = [call EXCEPT ![c] = q], job' = [job EXCEPT ![c] = j], todo' = [todo EXCEPT ![c] = ks],
         listed' = [listed EXCEPT ![c] = keys], since' = [since EXCEPT ![c] = seen], UNCHANGED <<bucket, prefix>>,
         \A r \in flying' : Late(r),
         IF q = NoCall THEN seen = {} ELSE q \in AllCalls /\ OwnOf(prefix, bucket) \in seen,
         \A s \in seen : Listable(prefix, s), JobKnows(prefix, q, j, ks, keys, seen)
  PROVE  S3Knows'
<1>1. DOMAIN call = Clients /\ DOMAIN job = Clients /\ DOMAIN todo = Clients /\ DOMAIN listed = Clients
  BY DEF S3Inv
<1>2. DOMAIN since = Clients
  BY DEF S3Knows
<1>3. \A d \in Clients : /\ call'[d] = IF d = c THEN q ELSE call[d]
                         /\ job'[d] = IF d = c THEN j ELSE job[d]
                         /\ todo'[d] = IF d = c THEN ks ELSE todo[d]
                         /\ listed'[d] = IF d = c THEN keys ELSE listed[d]
                         /\ since'[d] = IF d = c THEN seen ELSE since[d]
  BY <1>1, <1>2
<1>4. since' = [d \in Clients |-> since'[d]]
  BY <1>2
<1>5. \A d \in Clients : JobKnows(prefix', call'[d], job'[d], todo'[d], listed'[d], since'[d])
  BY <1>3 DEF S3Knows
<1>6. \A d \in Clients : IF call'[d] = NoCall THEN since'[d] = {}
                         ELSE call'[d] \in AllCalls /\ OwnOf(prefix', bucket') \in since'[d]
  BY <1>3 DEF S3Knows
<1>7. \A d \in Clients : \A s \in since'[d] : Listable(prefix', s)
  BY <1>3 DEF S3Knows
<1>8. Named(prefix') /\ DOMAIN bucket' \subseteq Names
  BY DEF S3Knows
<1> QED BY <1>4, <1>5, <1>6, <1>7, <1>8 DEF S3Knows

\* The facts about one client that its steps need.
LEMMA S3ClientKnows ==
  ASSUME S3Inv, S3Knows, NEW c \in Clients
  PROVE  /\ JobKnows(prefix, call[c], job[c], todo[c], listed[c], since[c])
         /\ \A s \in since[c] : Listable(prefix, s)
         /\ call[c] # NoCall => call[c] \in AllCalls /\ OwnOf(prefix, bucket) \in since[c]
         /\ job[c].at # "none" => call[c] # NoCall
         /\ call = [call EXCEPT ![c] = call[c]] /\ since = [since EXCEPT ![c] = since[c]]
         /\ todo = [todo EXCEPT ![c] = todo[c]] /\ listed = [listed EXCEPT ![c] = listed[c]]
<1>1. DOMAIN since = Clients
  BY DEF S3Knows
<1>2. job[c].at # "none" => call[c] # NoCall
  <2>1. job[c].at # "none" => job[c] # NoJob
    BY DEF NoJob
  <2> QED BY <2>1, S3ClientTypes
<1>3. since = [since EXCEPT ![c] = since[c]]
  BY <1>1 DEF S3Knows
<1>4. /\ call = [call EXCEPT ![c] = call[c]] /\ todo = [todo EXCEPT ![c] = todo[c]]
      /\ listed = [listed EXCEPT ![c] = listed[c]]
  BY DEF S3Inv
<1> QED BY <1>2, <1>3, <1>4 DEF S3Knows

\* With an S3 DSN the contract sees the objects below the prefix.
LEMMA S3Shows ==
  ASSUME scheme = "s3", scheme' = scheme, prefix' = prefix
  PROVE  /\ Shown = OwnOf(prefix, bucket) /\ Shown' = OwnOf(prefix, bucket') /\ Own(bucket) = OwnOf(prefix, bucket)
         /\ Own(bucket') = OwnOf(prefix, bucket')
         /\ (\A r \in flying : Late(r)) => Behind = {Asks(prefix, r) : r \in flying}
         /\ (\A r \in flying' : Late(r)) => Behind' = {Asks(prefix, r) : r \in flying'}
         /\ flying' = flying => Behind' = Behind
<1>1. \A b : Own(b) = OwnOf(prefix, b)
  BY DEF Own, OwnOf, kv_key, KeyOf
<1>2. Shown' = OwnOf(prefix, bucket')
  BY DEF Shown, Own, OwnOf, kv_key, KeyOf
<1>3. \A r : Late(r) => Asks(prefix, r) = IF r.m = "PUT" THEN SetOf(kv_key(r.key), r.val) ELSE DelOf(kv_key(r.key))
  BY DEF Late, Asks, kv_key, KeyOf
<1>4. (\A r \in flying : Late(r)) => Behind = {Asks(prefix, r) : r \in flying}
  BY <1>3 DEF Behind, S3Pending
<1>5. Behind' = {IF r.m = "PUT" THEN SetOf(kv_key(r.key), r.val) ELSE DelOf(kv_key(r.key)) : r \in flying'}
  BY DEF Behind, S3Pending, kv_key
<1>6. (\A r \in flying' : Late(r)) => Behind' = {Asks(prefix, r) : r \in flying'}
  BY <1>3, <1>5
<1>7. flying' = flying => Behind' = Behind
  BY <1>5 DEF Behind, S3Pending
<1> QED BY <1>1, <1>2, <1>4, <1>6, <1>7 DEF Shown

LEMMA S3EndsKnowing ==
  ASSUME S3Inv, S3Knows, NEW c \in Clients, NEW a, Ended(c, a), Proceed(c, Done(<<>>), <<>>),
         UNCHANGED <<bucket, prefix>>, \A r \in flying' : Late(r)
  PROVE  S3Knows'
<1> DEFINE e == <<>>
           q == NoCall
           seen == {}
           j == NoJob
<1>1. Done(e).req = NoJob /\ Done(e).del = e
  BY DEF Done
<1>2. /\ call' = [call EXCEPT ![c] = q] /\ since' = [since EXCEPT ![c] = seen]
      /\ job' = [job EXCEPT ![c] = j] /\ todo' = [todo EXCEPT ![c] = e] /\ listed' = [listed EXCEPT ![c] = e]
  BY <1>1 DEF Ended, Proceed
<1>3. JobKnows(prefix, q, j, e, e, seen)
  BY DEF JobKnows, NoJob
<1>4. IF q = NoCall THEN seen = {} ELSE q \in AllCalls /\ OwnOf(prefix, bucket) \in seen
  OBVIOUS
<1>5. \A s \in seen : Listable(prefix, s)
  OBVIOUS
<1> HIDE DEF e, q, seen, j
<1> QED BY <1>2, <1>3, <1>4, <1>5, S3KnowsMoves

LEMMA S3MapsPanic ==
  ASSUME S3Inv, S3Knows, scheme = "s3", scheme' = scheme, NEW c \in Clients, job[c].at # "none", S3Panic(c),
         UNCHANGED <<bucket, prefix>>, \A r \in flying' : Late(r),
         Behind' = Behind \/ \E e \in Effects(call[c], since[c]) : Behind' = Behind \cup {e}
  PROVE  S3Knows' /\ Contract!Next
<1>1. Ended(c, PANIC) /\ Proceed(c, Done(<<>>), <<>>)
  BY DEF S3Panic
<1>2. S3Knows'
  BY <1>1, S3EndsKnowing
<1>3. call[c] # NoCall /\ UNCHANGED Shown
  BY S3ClientKnows, S3Shows
<1> QED BY <1>1, <1>2, <1>3, MapsFail

LEMMA S3MapsInvoke ==
  ASSUME S3Inv, S3Knows, scheme = "s3", scheme' = scheme, NEW c \in Clients, NEW q \in NextCalls(c), S3Invoke(c, q)
  PROVE  S3Knows' /\ Contract!Next
<1> DEFINE f == FirstRequest(q)
           step == IF f.req = NoJob THEN Go([NoJob EXCEPT !.at = "skip"], <<>>) ELSE f
           j == step.req
           ks == step.del
           keys == <<>>
           seen == {OwnOf(prefix, bucket)}
<1>1. q \in AllCalls
  BY NextCallsType DEF S3Inv
<1>2. /\ call' = [call EXCEPT ![c] = q] /\ since' = [since EXCEPT ![c] = {Own(bucket)}]
      /\ job' = [job EXCEPT ![c] = j] /\ todo' = [todo EXCEPT ![c] = ks] /\ listed' = [listed EXCEPT ![c] = keys]
      /\ UNCHANGED <<bucket, prefix, flying>>
  BY DEF S3Invoke, Invoked, Proceed
<1>3. since' = [since EXCEPT ![c] = seen]
  BY <1>2, S3Shows
<1>4. Invoked(c, q, Shown) /\ UNCHANGED <<Shown, Behind>>
  BY <1>2, S3Shows DEF S3Invoke
<1>5. Contract!Next
  BY <1>4, MapsInvoke
<1>6. Named(prefix) /\ prefix \in Word /\ HoldsWords(bucket) /\ DOMAIN bucket \subseteq Names
  BY DEF S3Knows, S3Inv
<1> HIDE DEF f
<1>7. JobKnows(prefix, q, j, ks, keys, seen)
  <2>1. /\ f.req = NoJob => q.keys = <<>> /\ q.op # "flush"
        /\ f.req # NoJob => Steps(prefix, q, f, keys, seen)
    <3> HIDE DEF seen
    <3> QED BY <1>1, <1>6, FirstSteps DEF f
  <2>2. CASE f.req = NoJob
    <3>1. j.at = "skip"
      BY <2>2 DEF Go, NoJob
    <3> HIDE DEF j
    <3> QED BY <2>1, <2>2, <3>1 DEF JobKnows
  <2>3. CASE f.req # NoJob
    <3>1. j = f.req /\ ks = f.del
      BY <2>3
    <3> HIDE DEF j, ks, keys, seen
    <3> QED BY <2>1, <2>3, <3>1 DEF JobKnows, Steps
  <2> QED BY <2>2, <2>3
<1>8. \A s \in seen : Listable(prefix, s)
  BY <1>6, OwnListable
<1>9. IF q = NoCall THEN seen = {} ELSE q \in AllCalls /\ OwnOf(prefix, bucket) \in seen
  BY <1>1, CallFacts
<1>10. \A r \in flying' : Late(r)
  BY <1>2 DEF S3Knows
<1> HIDE DEF j, ks, keys, seen
<1>11. S3Knows'
  BY <1>2, <1>3, <1>7, <1>8, <1>9, <1>10, S3KnowsMoves
<1> QED BY <1>5, <1>11

LEMMA S3MapsSkip ==
  ASSUME S3Inv, S3Knows, scheme = "s3", scheme' = scheme, NEW c \in Clients, S3Skip(c)
  PROVE  S3Knows' /\ Contract!Next
<1>1. /\ job[c].at = "skip" /\ Ended(c, Answered(<<>>)) /\ Proceed(c, Done(<<>>), <<>>)
      /\ UNCHANGED <<bucket, prefix, flying>>
  BY DEF S3Skip
<1>2. call[c].keys = <<>> /\ call[c].op # "flush" /\ call[c] \in AllCalls /\ call[c] # NoCall
  BY <1>1, S3ClientKnows DEF JobKnows
<1>3. Honest(call[c], <<>>, since[c])
  <2>1. call[c].op \in {"get_many", "del"}
    BY <1>2, CallFacts
  <2>2. ToSet(<<>>) = {} /\ Len(<<>>) = 0 /\ DOMAIN <<>> = {}
    BY DEF ToSet
  <2> QED BY <1>2, <2>1, <2>2 DEF Honest
<1>4. UNCHANGED <<Shown, Behind>>
  BY <1>1, S3Shows
<1>5. Contract!Next
  BY <1>1, <1>2, <1>3, <1>4, MapsReturn
<1>6. S3Knows'
  BY <1>1, S3EndsKnowing DEF S3Knows
<1> QED BY <1>5, <1>6

LEMMA S3Seen ==
  ASSUME S3Inv, S3Knows, Seen(OwnOf(prefix, bucket))
  PROVE  Unseen
<1> DEFINE t == OwnOf(prefix, bucket)
<1>1. since = [c \in Clients |-> since[c]]
  BY DEF S3Knows
<1>2. \A c \in Clients : since[c] = IF call[c] = NoCall THEN {} ELSE since[c] \cup {t}
  BY DEF S3Knows
<1>3. since' = [c \in Clients |-> IF call[c] = NoCall THEN {} ELSE since[c] \cup {t}]
  BY DEF Seen
<1> HIDE DEF t
<1>4. since' = since
  BY <1>1, <1>2, <1>3
<1> QED BY <1>4 DEF Seen, Unseen

\* The bucket changes, and possibly the job of one client.
LEMMA S3KnowsStores ==
  ASSUME S3Inv, S3Knows, NEW t, t = OwnOf(prefix, bucket'), Seen(t), HoldsWords(bucket'), DOMAIN bucket' \subseteq Names,
         UNCHANGED <<prefix, todo, listed>>, \A r \in flying' : Late(r),
         \A c \in Clients : \/ job'[c] = job[c]
                            \/ call[c] # NoCall /\ JobKnows(prefix, call[c], job'[c], todo[c], listed[c], since[c] \cup {t})
  PROVE  S3Knows'
<1>1. call' = call /\ since' = [c \in Clients |-> IF call[c] = NoCall THEN {} ELSE since[c] \cup {t}]
  BY DEF Seen
<1>2. Named(prefix) /\ Listable(prefix, t)
  BY OwnListable DEF S3Knows, S3Inv
<1>3. ASSUME NEW c \in Clients PROVE JobKnows(prefix, call[c], job'[c], todo[c], listed[c], since'[c])
  <2>1. CASE call[c] = NoCall
    <3>1. job'[c] = job[c] /\ job[c] = NoJob
      BY <2>1, S3ClientTypes
    <3>2. job'[c].at = "none"
      BY <3>1 DEF NoJob
    <3> QED BY <3>2 DEF JobKnows
  <2>2. CASE call[c] # NoCall
    <3>1. since'[c] = since[c] \cup {t} /\ since[c] \subseteq since'[c]
      BY <1>1, <2>2
    <3>2. CASE job'[c] = job[c]
      BY <3>1, <3>2, S3ClientKnows, JobKnowsGrows
    <3> QED BY <3>1, <3>2
  <2> QED BY <2>1, <2>2
<1>4. \A c \in Clients : \A s \in since'[c] : Listable(prefix, s)
  BY <1>1, <1>2 DEF S3Knows
<1>5. \A c \in Clients : IF call[c] = NoCall THEN since'[c] = {} ELSE call[c] \in AllCalls /\ t \in since'[c]
  BY <1>1 DEF S3Knows
<1>6. since' = [c \in Clients |-> since'[c]]
  BY <1>1
<1> QED BY <1>1, <1>2, <1>3, <1>4, <1>5, <1>6 DEF S3Knows

\* What is stored can be listed.
LEMMA StoredListed ==
  ASSUME S3Inv, S3Knows, NEW r, r.key \in Word, r.val \in Word, r.m \in {"PUT", "DELETE"} => starts_with(r.key, prefix),
         r.m = "PUT" => r.key \in Names
  PROVE  /\ HoldsWords(Stored(bucket, r)) /\ DOMAIN Stored(bucket, r) \subseteq Names
         /\ OwnOf(prefix, Stored(bucket, r)) = Effect(Asks(prefix, r), OwnOf(prefix, bucket))
<1> DEFINE b == Stored(bucket, r)
<1>1. HoldsWords(b)
  BY StoredOK
<1>2. DOMAIN b \subseteq Names
  <2>1. DOMAIN bucket \subseteq Names
    BY DEF S3Knows
  <2> QED BY <2>1 DEF Stored, With, Without
<1>3. OwnOf(prefix, b) = Effect(Asks(prefix, r), OwnOf(prefix, bucket))
  BY StoredEffect DEF S3Inv
<1> QED BY <1>1, <1>2, <1>3

LEMMA S3MapsLate ==
  ASSUME S3Inv, S3Knows, scheme = "s3", scheme' = scheme, S3Late
  PROVE  S3Knows' /\ Contract!Next
<1>1. PICK r \in flying : /\ bucket' = Stored(bucket, r) /\ flying' = flying \ {r}
                          /\ Seen(Own(bucket')) /\ UNCHANGED <<prefix, job, todo, listed>>
  BY DEF S3Late
<1>2. r.key \in Word /\ r.val \in Word /\ starts_with(r.key, prefix) /\ Late(r)
  BY DEF S3Inv, S3Knows
<1> DEFINE t == OwnOf(prefix, bucket')
           e == Asks(prefix, r)
<1>3. HoldsWords(bucket') /\ DOMAIN bucket' \subseteq Names /\ t = Effect(e, OwnOf(prefix, bucket))
  BY <1>1, <1>2, StoredListed DEF Late
<1>4. Seen(t) /\ Shown' = t /\ Shown = OwnOf(prefix, bucket)
  BY <1>1, S3Shows
<1>5. (\A x \in flying : Late(x)) /\ \A x \in flying' : Late(x)
  BY <1>1 DEF S3Knows
<1>6. e \in Behind /\ Behind' \in {Behind, Behind \ {e}}
  <2>1. Behind = {Asks(prefix, x) : x \in flying} /\ Behind' = {Asks(prefix, x) : x \in flying \ {r}}
    BY <1>1, <1>5, S3Shows
  <2> DEFINE A(x) == Asks(prefix, x)
  <2>2. Behind = {A(x) : x \in flying} /\ Behind' = {A(x) : x \in flying \ {r}} /\ e = A(r)
    BY <2>1
  <2> HIDE DEF A, e
  <2>3. CASE \E x \in flying \ {r} : A(x) = e
    BY <2>2, <2>3
  <2>4. CASE ~ \E x \in flying \ {r} : A(x) = e
    BY <2>2, <2>4
  <2> QED BY <2>2, <2>3, <2>4
<1> HIDE DEF t, e
<1>7. Contract!Next
  BY <1>3, <1>4, <1>6, MapsApply
<1>8. S3Knows'
  BY <1>1, <1>3, <1>4, <1>5, S3KnowsStores DEF t
<1> QED BY <1>7, <1>8

\* A request is what its method, object and range say.
LEMMA SameRequest ==
  ASSUME NEW p, NEW q, NEW j, NEW a, a.m = j.m, a.key = j.key, a.val = j.val, a.token = j.token, a.off = j.off,
         a.len = j.len, NEW ks, NEW keys, NEW seen, IsRequest(p, q, j, ks, keys, seen)
  PROVE  IsRequest(p, q, a, ks, keys, seen)
<1>1. ManyKnows(p, q, j, ks, keys, seen) => ManyKnows(p, q, a, ks, keys, seen)
  BY DEF ManyKnows
<1>2. DelKnows(p, q, j, ks, seen) => DelKnows(p, q, a, ks, seen)
  BY DEF DelKnows
<1>3. FlushKnows(p, j, ks, seen) => FlushKnows(p, a, ks, seen)
  BY DEF FlushKnows
<1> QED BY <1>1, <1>2, <1>3 DEF IsRequest

LEMMA S3MapsServe ==
  ASSUME S3Inv, S3Knows, scheme = "s3", scheme' = scheme, NEW c \in Clients, S3Serve(c)
  PROVE  S3Knows' /\ Contract!Next
<1> DEFINE q == call[c]
           j == job[c]
           s == OwnOf(prefix, bucket)
           t == OwnOf(prefix, bucket')
           e == Asks(prefix, j)
           seen == since[c] \cup {t}
<1>1. PICK r \in Replies(j, bucket) :
        job' = [job EXCEPT ![c].at = "answered", ![c].status = r.status, ![c].body = r.body, ![c].more = r.more]
  BY DEF S3Serve
<1>2. /\ j.at = "sent" /\ bucket' = Stored(bucket, j) /\ Seen(Own(bucket'))
      /\ UNCHANGED <<prefix, todo, listed, flying>>
  BY DEF S3Serve
<1>3. /\ q # NoCall /\ q \in AllCalls /\ s \in since[c] /\ (\A x \in since[c] : Listable(prefix, x))
      /\ IsRequest(prefix, q, j, todo[c], listed[c], since[c])
  BY <1>2, S3ClientKnows DEF JobKnows
<1>4. /\ j \in JobType /\ JobOK(j) /\ j.key \in Word /\ j.val \in Word /\ Named(prefix) /\ prefix \in Word
      /\ HoldsWords(bucket) /\ DOMAIN bucket \subseteq Names
      /\ j.m = "LIST" => j.token = <<>> \/ j.token \in Names
  <2>1. j \in JobType /\ JobOK(j)
    BY S3ClientTypes
  <2>2. Named(prefix) /\ prefix \in Word /\ HoldsWords(bucket) /\ DOMAIN bucket \subseteq Names
    BY DEF S3Knows, S3Inv
  <2>3. j.key \in Word /\ j.val \in Word
    BY <2>1 DEF JobType
  <2>4. j.m = "LIST" => j.token = <<>> \/ j.token \in Names
    BY <2>1 DEF JobOK
  <2> QED BY <2>1, <2>2, <2>3, <2>4
<1>5. /\ starts_with(j.key, prefix) /\ (j.m = "PUT" => j.key \in Names)
      /\ j.m \in {"PUT", "DELETE"} => e \in Effects(q, since[c])
  BY <1>3, <1>4, RequestEffects
<1>6. HoldsWords(bucket') /\ DOMAIN bucket' \subseteq Names /\ t = Effect(e, s)
  BY <1>2, <1>4, <1>5, StoredListed
<1>7. Seen(t) /\ Shown' = t /\ Shown = s /\ Behind' = Behind
  BY <1>2, S3Shows
<1>8. \A x \in flying' : Late(x)
  BY <1>2 DEF S3Knows
<1>9. Contract!Next
  <2>1. CASE j.m \in {"PUT", "DELETE"}
    <3> HIDE DEF e, t, s
    <3> QED BY <1>5, <1>6, <1>7, <2>1, MapsApply
  <2>2. CASE j.m \notin {"PUT", "DELETE"}
    <3>1. bucket' = bucket
      BY <1>2, <2>2 DEF Stored
    <3>2. Unseen
      BY <1>7, <3>1, S3Seen
    <3>3. UNCHANGED <<Shown, Behind>>
      BY <1>7, <3>1
    <3> QED BY <3>2, <3>3, MapsInternal
  <2> QED BY <2>1, <2>2
<1> DEFINE a == [j EXCEPT !.at = "answered", !.status = r.status, !.body = r.body, !.more = r.more]
<1>10. job' = [job EXCEPT ![c] = a]
  BY <1>1
<1>11. /\ a.at = "answered" /\ a.m = j.m /\ a.key = j.key /\ a.val = j.val /\ a.token = j.token /\ a.off = j.off
       /\ a.len = j.len
  BY <1>4 DEF JobType
<1>12. Shows(prefix, a, s) /\ Asks(prefix, a) = e
  <2> DEFINE b == bucket
  <2>1. Replied(a, j, r)
    BY DEF Replied
  <2>2. HoldsWords(b) /\ DOMAIN b \subseteq Names /\ r \in Replies(j, b) /\ s = OwnOf(prefix, b)
    BY <1>1, <1>4
  <2>3. /\ prefix \in Word /\ j \in JobType /\ starts_with(j.key, prefix)
        /\ j.m = "LIST" => j.token = <<>> \/ j.token \in Names
    BY <1>4, <1>5
  <2> HIDE DEF a, j, b, s
  <2>4. Shows(prefix, a, OwnOf(prefix, b)) /\ Asks(prefix, a) = Asks(prefix, j)
    BY ONLY <2>1, <2>2, <2>3, ReplyShows
  <2> QED BY <2>2, <2>4 DEF e
<1> HIDE DEF a, j
<1>13. JobKnows(prefix, q, a, todo[c], listed[c], seen)
  <2>1. IsRequest(prefix, q, a, todo[c], listed[c], since[c])
    BY <1>3, <1>11, SameRequest
  <2>2. ToldOf(prefix, a, seen)
    <3> HIDE DEF e, t, s
    <3> QED BY <1>3, <1>6, <1>12 DEF ToldOf
  <2>3. since[c] \subseteq seen
    OBVIOUS
  <2> HIDE DEF seen
  <2>4. IsRequest(prefix, q, a, todo[c], listed[c], seen)
    BY <2>1, <2>3, RequestGrows
  <2> QED BY <1>11, <2>2, <2>4 DEF JobKnows
<1>14. \A d \in Clients : \/ job'[d] = job[d]
                          \/ call[d] # NoCall /\ JobKnows(prefix, call[d], job'[d], todo[d], listed[d], since[d] \cup {t})
  <2>1. \A d \in Clients : job'[d] = IF d = c THEN a ELSE job[d]
    BY <1>10 DEF S3Inv
  <2> QED BY <1>3, <1>13, <2>1
<1> HIDE DEF e, s
<1>15. S3Knows'
  BY <1>2, <1>6, <1>7, <1>8, <1>14, S3KnowsStores
<1> QED BY <1>9, <1>15

LEMMA S3MapsReceive ==
  ASSUME S3Inv, S3Knows, scheme = "s3", scheme' = scheme, NEW c \in Clients, S3Receive(c)
  PROVE  S3Knows' /\ Contract!Next
<1> DEFINE q == call[c]
           r == job[c]
           keys == listed[c] \o collected(q, r)
           step == NextRequest(q, r, todo[c], keys)
           last == IF step.req = NoJob THEN <<>> ELSE keys
           j == step.req
           ks == step.del
           seen == since[c]
<1>1. r.at = "answered" /\ UNCHANGED <<bucket, prefix, flying>>
  BY DEF S3Receive
<1>2. /\ q # NoCall /\ q \in AllCalls /\ OwnOf(prefix, bucket) \in seen /\ (\A x \in seen : Listable(prefix, x))
      /\ IsRequest(prefix, q, r, todo[c], listed[c], seen) /\ ToldOf(prefix, r, seen)
  BY <1>1, S3ClientKnows DEF JobKnows
<1>3. JobOK(r) /\ todo[c] \in Seq(Word) /\ listed[c] \in Seq(Word) /\ Named(prefix)
  BY S3ClientTypes DEF S3Knows
<1>4. UNCHANGED <<Shown, Behind>> /\ \A x \in flying' : Late(x)
  BY <1>1, S3Shows DEF S3Knows
<1>5. CASE r.status = 416
  <2>1. S3Panic(c)
    BY <1>5 DEF S3Receive
  <2>2. r.at # "none" /\ UNCHANGED <<bucket, prefix>>
    BY <1>1
  <2> QED BY <1>4, <2>1, <2>2, S3MapsPanic
<1>6. CASE r.status # 416
  <2>1. Advance(c, keys)
    BY <1>6 DEF S3Receive
  <2>2. Steps(prefix, q, step, keys, seen)
    <3>1. PICK s \in seen : Shows(prefix, r, s) /\ Effect(Asks(prefix, r), s) \in seen
      BY <1>2 DEF ToldOf
    <3> DEFINE g == todo[c]
               h == listed[c]
    <3>2. /\ Named(prefix) /\ q \in AllCalls /\ JobOK(r) /\ r.status # 416 /\ g \in Seq(Word) /\ h \in Seq(Word)
          /\ IsRequest(prefix, q, r, g, h, seen) /\ s \in seen /\ Shows(prefix, r, s)
          /\ Effect(Asks(prefix, r), s) \in seen /\ \A y \in seen : Listable(prefix, y)
      BY <1>2, <1>3, <1>6, <3>1
    <3> HIDE DEF q, r, g, h, seen
    <3>3. Steps(prefix, q, NextRequest(q, r, g, h \o collected(q, r)), h \o collected(q, r), seen)
      BY ONLY <3>2, NextSteps
    <3> QED BY <3>3 DEF q, r, g, h, seen
  <2> HIDE DEF keys
  <2>3. /\ Proceed(c, step, keys)
        /\ IF step.req = NoJob THEN Ended(c, Answered(step.ans)) ELSE Unseen
    BY <2>1 DEF Advance
  <2>4. job' = [job EXCEPT ![c] = j] /\ todo' = [todo EXCEPT ![c] = ks] /\ listed' = [listed EXCEPT ![c] = last]
    BY <2>3 DEF Proceed
  <2> DEFINE a == step.ans
  <2>5. CASE j = NoJob
    <3>1. Ended(c, Answered(a)) /\ Honest(q, a, seen)
      BY <2>2, <2>3, <2>5 DEF Steps
    <3> HIDE DEF step
    <3>2. Contract!Next
      BY <1>2, <1>4, <3>1, MapsReturn
    <3> DEFINE n == NoCall
               none == {}
    <3>3. call' = [call EXCEPT ![c] = n] /\ since' = [since EXCEPT ![c] = none]
      BY <3>1 DEF Ended
    <3>4. JobKnows(prefix, n, j, ks, last, none)
      <4>1. j.at = "none"
        BY <2>5 DEF NoJob
      <4> QED BY <4>1 DEF JobKnows
    <3>5. IF n = NoCall THEN none = {} ELSE n \in AllCalls /\ OwnOf(prefix, bucket) \in none
      OBVIOUS
    <3>6. \A s \in none : Listable(prefix, s)
      OBVIOUS
    <3> HIDE DEF n, none, j, ks, last
    <3>7. S3Knows'
      BY <1>1, <1>4, <2>4, <3>3, <3>4, <3>5, <3>6, S3KnowsMoves
    <3> QED BY <3>2, <3>7
  <2>6. CASE j # NoJob
    <3>1. Unseen /\ j.at = "sent" /\ IsRequest(prefix, q, j, ks, keys, seen) /\ last = keys
      BY <2>2, <2>3, <2>6 DEF Steps
    <3> HIDE DEF step
    <3>2. Contract!Next
      BY <1>4, <3>1, MapsInternal
    <3>3. call' = [call EXCEPT ![c] = q] /\ since' = [since EXCEPT ![c] = seen]
      BY <3>1, S3ClientKnows DEF Unseen
    <3>4. JobKnows(prefix, q, j, ks, last, seen)
      BY <3>1 DEF JobKnows
    <3>5. IF q = NoCall THEN seen = {} ELSE q \in AllCalls /\ OwnOf(prefix, bucket) \in seen
      BY <1>2
    <3> HIDE DEF q, seen, j, ks, last
    <3>6. S3Knows'
      BY <1>1, <1>2, <1>4, <2>4, <3>3, <3>4, <3>5, S3KnowsMoves
    <3> QED BY <3>2, <3>6
  <2> QED BY <2>5, <2>6
<1> QED BY <1>5, <1>6

\* The request is sent again, or the call fails; it may be left behind.
LEMMA S3MapsAgain ==
  ASSUME S3Inv, S3Knows, scheme = "s3", scheme' = scheme, NEW c \in Clients, job[c].at \in {"sent", "answered"},
         Again(c), UNCHANGED <<bucket, prefix>>, \A r \in flying' : Late(r),
         Behind' = Behind \/ \E e \in Effects(call[c], since[c]) : Behind' = Behind \cup {e}
  PROVE  S3Knows' /\ Contract!Next
<1> DEFINE q == call[c]
           r == job[c]
           j == [r EXCEPT !.at = "sent", !.attempt = @ + 1, !.status = 0, !.body = <<>>, !.more = FALSE]
           ks == todo[c]
           keys == listed[c]
           seen == since[c]
<1>1. CASE ~ (r.attempt < MAX_ATTEMPTS)
  <2>1. S3Panic(c) /\ r.at # "none"
    BY <1>1 DEF Again
  <2> QED BY <2>1, S3MapsPanic
<1>2. CASE r.attempt < MAX_ATTEMPTS
  <2>1. job' = [job EXCEPT ![c] = j] /\ UNCHANGED <<todo, listed>> /\ Unseen
    BY <1>2 DEF Again
  <2>2. UNCHANGED Shown
    BY S3Shows
  <2>3. Contract!Next
    <3>1. CASE Behind' = Behind
      BY <2>1, <2>2, <3>1, MapsInternal
    <3>2. CASE \E e \in Effects(q, seen) : Behind' = Behind \cup {e}
      <4>1. PICK e \in Effects(q, seen) : Behind' = Behind \cup {e}
        BY <3>2
      <4> QED BY <2>1, <2>2, <4>1, MapsDetach
    <3> QED BY <3>1, <3>2
  <2>4. r \in JobType
    BY S3ClientTypes
  <2>5. /\ j.at = "sent" /\ j.m = r.m /\ j.key = r.key /\ j.val = r.val /\ j.token = r.token /\ j.off = r.off
        /\ j.len = r.len
    BY <2>4 DEF JobType
  <2>6. /\ q # NoCall /\ q \in AllCalls /\ OwnOf(prefix, bucket) \in seen /\ (\A x \in seen : Listable(prefix, x))
        /\ IsRequest(prefix, q, r, ks, keys, seen)
    BY S3ClientKnows DEF JobKnows
  <2>7. /\ call' = [call EXCEPT ![c] = q] /\ since' = [since EXCEPT ![c] = seen] /\ todo' = [todo EXCEPT ![c] = ks]
        /\ listed' = [listed EXCEPT ![c] = keys]
    BY <2>1, S3ClientKnows DEF Unseen
  <2>8. IF q = NoCall THEN seen = {} ELSE q \in AllCalls /\ OwnOf(prefix, bucket) \in seen
    BY <2>6
  <2> HIDE DEF q, r, j, ks, keys, seen
  <2>9. JobKnows(prefix, q, j, ks, keys, seen)
    <3>1. IsRequest(prefix, q, j, ks, keys, seen)
      BY <2>5, <2>6, SameRequest
    <3> QED BY <2>5, <3>1 DEF JobKnows
  <2>10. S3Knows'
    BY <2>1, <2>6, <2>7, <2>8, <2>9, S3KnowsMoves
  <2> QED BY <2>3, <2>10
<1> QED BY <1>1, <1>2

LEMMA S3MapsErrors ==
  ASSUME S3Inv, S3Knows, scheme = "s3", scheme' = scheme, NEW c \in Clients,
         S3Denied(c) \/ S3ServerError(c) \/ S3BodyError(c)
  PROVE  S3Knows' /\ Contract!Next
<1>1. UNCHANGED <<bucket, prefix, flying>> /\ job[c].at \in {"sent", "answered"}
  BY DEF S3Denied, S3ServerError, S3BodyError
<1>2. Behind' = Behind /\ \A r \in flying' : Late(r)
  BY <1>1, S3Shows DEF S3Knows
<1>3. S3Panic(c) \/ Again(c)
  BY DEF S3Denied, S3ServerError, S3BodyError
<1> QED BY <1>1, <1>2, <1>3, S3MapsPanic, S3MapsAgain

LEMMA S3MapsNetworkError ==
  ASSUME S3Inv, S3Knows, scheme = "s3", scheme' = scheme, NEW c \in Clients, S3NetworkError(c)
  PROVE  S3Knows' /\ Contract!Next
<1> DEFINE j == job[c]
           x == [m |-> j.m, key |-> j.key, val |-> j.val]
<1>1. PICK left \in {{}, {j}} :
        /\ left # {} => j.at = "sent" /\ j.m \in {"PUT", "DELETE"}
        /\ flying' = flying \cup {[m |-> r.m, key |-> r.key, val |-> r.val] : r \in left}
  BY DEF S3NetworkError
<1>2. UNCHANGED <<bucket, prefix>> /\ j.at \in {"sent", "answered"} /\ Again(c)
  BY DEF S3NetworkError
<1>3. \A r \in flying : Late(r)
  BY DEF S3Knows
<1>4. CASE left = {}
  <2>1. flying' = flying
    BY <1>1, <1>4
  <2>2. Behind' = Behind /\ \A r \in flying' : Late(r)
    BY <1>2, <1>3, <2>1, S3Shows
  <2> QED BY <1>2, <2>2, S3MapsAgain
<1>5. CASE left # {}
  <2>1. j.m \in {"PUT", "DELETE"} /\ flying' = flying \cup {x}
    BY <1>1, <1>5
  <2>2. /\ Named(prefix) /\ call[c] \in AllCalls /\ (\A y \in since[c] : Listable(prefix, y))
        /\ IsRequest(prefix, call[c], j, todo[c], listed[c], since[c])
    BY <1>2, S3ClientKnows DEF JobKnows, S3Knows
  <2>3. (j.m = "PUT" => j.key \in Names) /\ Asks(prefix, j) \in Effects(call[c], since[c])
    BY <2>1, <2>2, RequestEffects
  <2>4. Late(x) /\ Asks(prefix, x) = Asks(prefix, j)
    <3>1. x.m = j.m /\ x.key = j.key /\ x.val = j.val
      OBVIOUS
    <3> HIDE DEF x
    <3> QED BY <2>1, <2>3, <3>1 DEF Late, Asks
  <2> HIDE DEF x, j
  <2>5. \A r \in flying' : Late(r)
    BY <1>3, <2>1, <2>4
  <2>6. Behind' = Behind \cup {Asks(prefix, j)}
    <3>1. Behind = {Asks(prefix, r) : r \in flying} /\ Behind' = {Asks(prefix, r) : r \in flying \cup {x}}
      BY <1>2, <1>3, <2>1, <2>5, S3Shows
    <3> QED BY <2>4, <3>1
  <2>7. \E e \in Effects(call[c], since[c]) : Behind' = Behind \cup {e}
    BY <2>3, <2>6
  <2> QED BY <1>2, <2>5, <2>7, S3MapsAgain DEF j
<1> QED BY <1>4, <1>5

LEMMA S3Maps ==
  ASSUME S3Inv, S3Knows, scheme = "s3", scheme' = scheme, S3Next
  PROVE  S3Knows' /\ Contract!Next
<1>1. CASE \E c \in Clients : \E q \in NextCalls(c) : S3Invoke(c, q)
  BY <1>1, S3MapsInvoke
<1> QED BY <1>1, S3MapsSkip, S3MapsServe, S3MapsReceive, S3MapsErrors, S3MapsNetworkError, S3MapsLate DEF S3Next

LEMMA S3KnowsFirst ==
  ASSUME Named(prefix), S3Init, ClientsInit
  PROVE  S3Knows
<1>1. DOMAIN bucket \subseteq Names /\ flying = {}
  BY BucketAssumption DEF S3Init, Names
<1>2. \A c \in Clients : call[c] = NoCall /\ job[c] = NoJob /\ since[c] = {}
  BY DEF S3Init, ClientsInit
<1>3. \A c \in Clients : JobKnows(prefix, call[c], job[c], todo[c], listed[c], since[c])
  BY <1>2 DEF JobKnows, NoJob
<1> QED BY <1>1, <1>2, <1>3 DEF S3Knows, ClientsInit

-----------------------------------------------------------------------------
\* What the clients of the connected store know.
ConnKnows ==
  \/ scheme = "redis" /\ RedisKnows
  \/ scheme = "s3" /\ S3Knows

LEMMA ConnKnowsFirst ==
  ASSUME ConnInit
  PROVE  ConnKnows /\ Contract!Init
<1>1. PICK d \in Dsns : conn(dsn_or_env(d))
  BY DEF ConnInit
<1> DEFINE e == dsn_or_env(d)
<1>2. e \in Dsns \cup {EnvDsn}
  BY DEF dsn_or_env
<1>3. ClientsInit /\ RedisInit /\ S3Init
  BY DEF ConnInit
<1>4. Contract!Init
  <2>1. Behind = {}
    BY <1>3 DEF Behind, S3Pending, RedisPending, S3Init, RedisInit
  <2> QED BY <1>3, <2>1, MapsInit
<1>5. CASE scheme = "redis"
  BY <1>3, <1>4, <1>5, RedisKnowsFirst DEF ConnKnows
<1> HIDE DEF e
<1>6. CASE scheme = "s3" /\ scheme_of(e) = "s3" /\ dsn_prefix_ok(e.prefix) /\ prefix = e.prefix
  <2>1. e.scheme = "s3" /\ prefix # <<>> /\ ends_with(e.prefix, PATH_SEP) /\ prefix \in Word
    BY <1>2, <1>6, TenantAssumption DEF scheme_of, dsn_prefix_ok
  <2>2. Named(prefix)
    BY <1>2, <1>6, <2>1, NamesAssumption DEF Named, Names
  <2> QED BY <1>3, <1>4, <1>6, <2>2, S3KnowsFirst DEF ConnKnows
<1> QED BY <1>1, <1>5, <1>6 DEF conn, e

\* Nothing happens: the contract stutters.
LEMMA ConnStutters ==
  ASSUME ConnKnows, UNCHANGED conn_vars
  PROVE  ConnKnows' /\ UNCHANGED <<Shown, Behind, clients>>
<1>1. UNCHANGED <<scheme, redis, s3, clients>>
  BY DEF conn_vars
<1>2. UNCHANGED <<Shown, Behind, clients>>
  BY <1>1 DEF Shown, Behind, S3Pending, RedisPending, Own, kv_key, redis, s3
<1>3. RedisKnows => RedisKnows'
  BY <1>1 DEF RedisKnows, redis, clients
<1>4. S3Knows => S3Knows'
  BY <1>1 DEF S3Knows, s3, clients
<1> QED BY <1>1, <1>2, <1>3, <1>4 DEF ConnKnows

LEMMA ConnMaps ==
  ASSUME ConnInv, ConnKnows, [ConnNext]_conn_vars
  PROVE  ConnKnows' /\ (Contract!Next \/ UNCHANGED <<Shown, Behind, clients>>)
<1>1. CASE UNCHANGED conn_vars
  BY <1>1, ConnStutters
<1>2. CASE scheme = "redis" /\ RedisNext /\ UNCHANGED <<scheme, s3>>
  <2>1. RedisInv /\ RedisKnows
    BY <1>2 DEF ConnInv, ConnKnows
  <2> QED BY <1>2, <2>1, RedisMaps DEF ConnKnows
<1>3. CASE scheme = "s3" /\ S3Next /\ UNCHANGED <<scheme, redis>>
  <2>1. S3Inv /\ S3Knows
    BY <1>3 DEF ConnInv, ConnKnows
  <2> QED BY <1>3, <2>1, S3Maps DEF ConnKnows
<1> QED BY <1>1, <1>2, <1>3 DEF ConnNext

\* The store behind a handle, redis or S3, implements the KVStore contract, for
\* any number of clients and calls.
THEOREM StoreRefinesContract == ConnSpec => ImplementsKVStore
<1>1. ConnInit => ConnKnows /\ Contract!Init
  BY ConnKnowsFirst
<1>2. ConnInv /\ ConnKnows /\ [ConnNext]_conn_vars => ConnKnows' /\ [Contract!Next]_<<Shown, Behind, clients>>
  BY ConnMaps
<1>3. [Contract!Next]_<<Shown, Behind, clients>> => [Contract!Next]_<<Shown, Behind, Contract!clients>>
  BY DEF Contract!clients, clients
<1> QED BY <1>1, <1>2, <1>3, ConnHolds, PTL DEF ConnSpec, ImplementsKVStore, Contract!Spec, Shown, Behind
=============================================================================
