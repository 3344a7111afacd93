----------------------------- MODULE StoreCalls -----------------------------
(***************************************************************************)
(* The clients of a KVStore (store.rs) and what each can have observed.    *)
(*                                                                         *)
(* A call is what a Backend handle asks of its store: the primitives of    *)
(* the trait and the two part operations of backend.rs, which test before  *)
(* they read or write.  Bytes and keys are words; Missing stands for None  *)
(* and for the empty vector, which no stored wire is.  An answer is a      *)
(* sequence of words.                                                      *)
(*                                                                         *)
(* since[c] is a history variable: every contents the store had from the   *)
(* invocation of c's call until now.                                       *)
(***************************************************************************)
EXTENDS KVPath

CONSTANTS Letters,   \* what words are made of
          Clients,   \* handles, of one or several processes, on the same store
          Calls      \* client -> sequence of sets: what its n-th call may be; the
                     \* length bounds the calls it makes

VARIABLES call,      \* client -> the call it is in, or NoCall
          since,     \* client -> contents observable since its invocation
          answer,    \* what the last step returned to a client, or NoAnswer
          made       \* client -> calls made

clients == <<call, since, answer, made>>

ASSUME LettersAssumption == {PATH_SEP, "0"} \subseteq Letters

Word == Seq(Letters)
CallType ==
  [op : {"get", "get_many", "get_part", "exists", "scan", "set", "set_part", "del", "flush"},
   keys : Seq(Word), val : Word, off : Nat, len : Nat]

AllCalls == UNION {UNION {Calls[c][i] : i \in DOMAIN Calls[c]} : c \in Clients}

\* get_many and del take a slice of keys, flush none, every other call one key;
\* only the part operations have an offset and a length.
ASSUME CallsAssumption ==
  /\ Calls \in [Clients -> Seq(SUBSET CallType)]
  /\ \A q \in AllCalls : /\ Len(q.keys) # 1 => q.op \in {"get_many", "del", "flush"}
                         /\ q.op \notin {"get_part", "set_part"} => q.off = 0 /\ q.len = 0

\* The keys that calls may bring into being.
NewKeys == {q.keys[1] : q \in {x \in AllCalls : x.op \in {"set", "set_part"}}}

Missing == <<>>
Yes == <<<<"1">>>>
No == <<<<>>>>
Refused == <<<<"err">>>>   \* Backend::set_part returned Err
NoCall == [op |-> "none", keys |-> <<>>, val |-> <<>>, off |-> 0, len |-> 0]
NoAnswer == [ok |-> FALSE, ans |-> <<<<"none">>>>]
PANIC == [ok |-> FALSE, ans |-> <<>>]

Value(s, k) == IF k \in DOMAIN s THEN s[k] ELSE Missing
With(s, k, v) == [x \in DOMAIN s \cup {k} |-> IF x = k THEN v ELSE s[x]]
Without(s, ks) == [x \in DOMAIN s \ ks |-> s[x]]
Nothing == [k \in {} |-> Missing]

\* The elements of s that are in P, in the order of s.
Filter(s, P) ==
  LET kept[i \in 0 .. Len(s)] ==
        IF i = 0 THEN <<>> ELSE IF s[i] \in P THEN Append(kept[i - 1], s[i]) ELSE kept[i - 1]
  IN kept[Len(s)]

\* get_part of the trait and GETRANGE: what there is of [off, off + len).
slice(v, off, len) == SubSeq(v, off + 1, Min({off + len, Len(v)}))

\* Bytes off .. off + Len(buf) replaced; beyond the end SETRANGE pads with zeros.
patch(v, off, buf) ==
  [i \in 1 .. Max({Len(v), off + Len(buf)}) |->
     IF i \in off + 1 .. off + Len(buf) THEN buf[i - off]
     ELSE IF i <= Len(v) THEN v[i] ELSE "0"]

\* The bound check of backend.rs set_part.
in_bounds(v, q) == v # Missing /\ q.off + Len(q.val) <= Len(v)

-----------------------------------------------------------------------------
\* What a request does to the contents of a store, wherever it is executed.
Effect(e, s) ==
  CASE e.op = "set" -> With(s, e.keys[1], e.val)
    [] e.op = "setrange" -> With(s, e.keys[1], patch(Value(s, e.keys[1]), e.off, e.val))
    [] e.op = "del" -> Without(s, ToSet(e.keys))
    [] e.op = "flush" -> Nothing
    [] OTHER -> s

SetOf(k, v) == [NoCall EXCEPT !.op = "set", !.keys = <<k>>, !.val = v]
DelOf(k) == [NoCall EXCEPT !.op = "del", !.keys = <<k>>]

\* The effects call q may have, having seen the contents in seen: a delete or
\* a flush may go key by key.  A part write is made only after the part was seen
\* to lie in the value; the value may be another by the time it is made, and then
\* a setrange pads what has become shorter, a set brings the one seen back.
Effects(q, seen) ==
  CASE q.op = "set" -> {q}
    [] q.op = "set_part" ->
         LET fits == {s \in seen : in_bounds(Value(s, q.keys[1]), q)}
         IN {[q EXCEPT !.op = "setrange"] : s \in fits} \cup
            {SetOf(q.keys[1], patch(Value(s, q.keys[1]), q.off, q.val)) : s \in fits}
    [] q.op = "del" -> {q} \cup {DelOf(k) : k \in ToSet(q.keys)}
    [] q.op = "flush" -> {q} \cup {DelOf(k) : k \in UNION {DOMAIN s : s \in seen}}
    [] OTHER -> {}

\* ans is an answer call q may be given when the contents since its invocation
\* were those in seen: a read shows what was there, an acknowledged write was
\* there, a scan misses nothing that was there all the time.
Honest(q, ans, seen) ==
  LET k == q.keys[1]
  IN CASE q.op \in {"get", "get_many"} ->
            /\ Len(ans) = Len(q.keys)
            /\ \A i \in DOMAIN ans : \E s \in seen : ans[i] = Value(s, q.keys[i])
       [] q.op = "exists" -> \E s \in seen : ans = IF k \in DOMAIN s THEN Yes ELSE No
       [] q.op = "get_part" -> \E s \in seen : ans = <<slice(Value(s, k), q.off, q.len)>>
       [] q.op = "scan" ->
            /\ \A x \in ToSet(ans) : is_subtree_key(k, x) /\ \E s \in seen : x \in DOMAIN s
            /\ \A x \in UNION {DOMAIN s : s \in seen} :
                 is_subtree_key(k, x) /\ (\A s \in seen : x \in DOMAIN s) => x \in ToSet(ans)
       [] q.op = "set" -> \E s \in seen : Value(s, k) = q.val
       [] q.op = "set_part" ->
            \/ \E s \in seen : ~ in_bounds(Value(s, k), q)
            \/ \E s \in seen : ans # Refused /\ slice(Value(s, k), q.off, Len(q.val)) = q.val
       [] q.op = "del" -> \A x \in ToSet(q.keys) : \E s \in seen : x \notin DOMAIN s
       [] q.op = "flush" -> \A x \in UNION {DOMAIN s : s \in seen} : \E s \in seen : x \notin DOMAIN s
       [] OTHER -> FALSE

-----------------------------------------------------------------------------
\* Steps of a client, shared by the specification of a store and its
\* implementations; s is the contents before the step, t after it.

ClientsInit ==
  /\ call = [c \in Clients |-> NoCall]
  /\ since = [c \in Clients |-> {}]
  /\ answer = NoAnswer
  /\ made = [c \in Clients |-> 0]

NextCalls(c) == IF made[c] < Len(Calls[c]) THEN Calls[c][made[c] + 1] ELSE {}

Invoked(c, q, s) ==
  /\ call[c] = NoCall
  /\ call' = [call EXCEPT ![c] = q]
  /\ since' = [since EXCEPT ![c] = {s}]
  /\ made' = [made EXCEPT ![c] = @ + 1]
  /\ answer' = NoAnswer

\* The contents become t; every client that is in a call may have seen it.
Seen(t) ==
  /\ since' = [c \in Clients |-> IF call[c] = NoCall THEN {} ELSE since[c] \cup {t}]
  /\ answer' = NoAnswer
  /\ UNCHANGED <<call, made>>

\* Nothing the clients could notice.
Unseen == answer' = NoAnswer /\ UNCHANGED <<call, since, made>>

\* The call of c ends with result r.
Ended(c, r) ==
  /\ call' = [call EXCEPT ![c] = NoCall]
  /\ since' = [since EXCEPT ![c] = {}]
  /\ answer' = r
  /\ UNCHANGED made

Answered(a) == [ok |-> TRUE, ans |-> a]
=============================================================================
