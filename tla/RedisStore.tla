----------------------------- MODULE RedisStore -----------------------------
(***************************************************************************)
(* RedisStore (redis/store.rs): several handles, each with one RESP stream *)
(* to the same server.                                                     *)
(*                                                                         *)
(* A stream is a pair of queues: requests on their way to the server and   *)
(* tokens on their way back.  A token is one piece the client reads: a     *)
(* RESP line or the data of a bulk string; the read can time out before    *)
(* any of them.  Tokens carry, for the properties only, the number of the  *)
(* command they answer.  The requests of a stream the client has dropped   *)
(* may still be executed; their answers reach nobody.                      *)
(***************************************************************************)
EXTENDS StoreCalls

CONSTANTS ScanOrder,   \* the server's order of all keys, which SCAN cursors count
          Contents     \* what the server holds when the handles connect

ASSUME ServerAssumption ==
  /\ ScanOrder \in Seq(Word) /\ DOMAIN Contents \cup NewKeys \subseteq ToSet(ScanOrder)
  /\ \A k \in DOMAIN Contents : Contents[k] \in Word

VARIABLES db,        \* contents of the server
          slot,      \* client -> stream in its slot, or NoStream
          trip,      \* client -> round trip under way, or NoTrip
          found,     \* client -> keys a scan has collected
          orphans,   \* commands on dropped streams, not executed yet
          sent       \* client -> number of commands so far

redis == <<db, slot, trip, found, orphans, sent>>

NoStream == [req |-> <<>>, rep |-> <<>>, open |-> FALSE]
NewStream == [req |-> <<>>, rep |-> <<>>, open |-> TRUE]
NoTrip == [at |-> "none", cmd |-> NoCall, got |-> <<>>]
Writes == {"set", "setrange", "del", "flush"}

-----------------------------------------------------------------------------
\* The server's answers.

Tok(kind, n, val) == [kind |-> kind, n |-> n, val |-> val, by |-> 0]
Simple == <<Tok("+", 0, <<>>)>>
Error == <<Tok("-", 0, <<>>)>>
Integer(n) == <<Tok(":", n, <<>>)>>
Bulk(v) == IF v = Missing THEN <<Tok("$", -1, <<>>)>> ELSE <<Tok("$", Len(v), <<>>), Tok("data", 0, v)>>
Array(items) == <<Tok("*", Len(items), <<>>)>> \o FlattenSeq(items)

\* Keys scan_pattern's glob matches: the escaped prefix followed by anything.
scan_pattern(prefix) == IF prefix = <<>> THEN Root ELSE prefix

\* SCAN from cursor looks at the keys up to upto and may find none of them.
Page(s, prefix, cursor, upto) ==
  LET here == SubSeq(ScanOrder, cursor + 1, upto)
      keys == Filter(here, {k \in DOMAIN s : starts_with(k, scan_pattern(prefix))})
  IN <<Tok("*", 2, <<>>), Tok("$", 1, <<>>),
       Tok("data", IF upto = Len(ScanOrder) THEN 0 ELSE upto, <<>>)>>
     \o Array([i \in DOMAIN keys |-> Bulk(keys[i])])

Answers(m, s) ==
  LET k == m.keys[1]
  IN CASE m.op = "get" -> {Bulk(Value(s, k))}
       [] m.op = "get_many" -> {Array([i \in DOMAIN m.keys |-> Bulk(Value(s, m.keys[i]))])}
       [] m.op = "exists" -> {Integer(IF k \in DOMAIN s THEN 1 ELSE 0)}
       [] m.op = "getrange" -> {<<Tok("$", m.len, <<>>), Tok("data", 0, slice(Value(s, k), m.off, m.len))>>}
       [] m.op = "scan" -> {Page(s, k, m.off, upto) : upto \in m.off + 1 .. Len(ScanOrder)}
       [] m.op \in {"setrange", "del"} -> {Integer(1)}
       [] OTHER -> {Simple}

-----------------------------------------------------------------------------
\* read_resp: how many pieces the reply needs after piece t, when it needed
\* need before, and after the pieces read so far.
Took(t, need) ==
  CASE t.kind = "*" -> need - 1 + t.n
    [] t.kind = "$" /\ t.n >= 0 -> need
    [] OTHER -> need - 1
Needed(got) ==
  LET need[i \in 0 .. Len(got)] == IF i = 0 THEN 1 ELSE Took(got[i], need[i - 1])
  IN need[Len(got)]

\* The bulk strings of a reply, in order; None is Missing.
Bulks(got) ==
  LET pieces == Filter(got, {t \in ToSet(got) : t.kind = "data" \/ (t.kind = "$" /\ t.n < 0)})
  IN [i \in DOMAIN pieces |-> pieces[i].val]

\* The first command of call q.
First(q) ==
  CASE q.op \in {"get_part", "set_part"} -> [q EXCEPT !.op = "exists"]
    [] OTHER -> q

Issue(m) == [cmd |-> m, ans |-> <<>>]
Finish(a) == [cmd |-> NoCall, ans |-> a]

\* Defect: an empty page ends the scan.
after_scan_StopsEmpty(m, got, keys) ==
  IF got[3].n = 0 \/ got[4].n = 0 THEN Finish(keys) ELSE Issue([m EXCEPT !.off = got[3].n])

\* scan_keys goes on until the cursor is 0 again.
after_scan(m, got, keys) == IF got[3].n = 0 THEN Finish(keys) ELSE Issue([m EXCEPT !.off = got[3].n])

scanned(m, got) ==
  LET keys == Tail(Bulks(got))
  IN IF m.op = "scan" THEN Filter(keys, {k \in ToSet(keys) : is_subtree_key(m.keys[1], k)}) ELSE <<>>

\* What call q does when command m was answered by got, keys being the keys
\* its scan has collected: the next command, or the end.
Resume(q, m, got, keys) ==
  LET there == got[1].n > 0
      old == Bulks(got)[1]
  IN CASE q.op \in {"get", "get_many"} -> Finish(Bulks(got))
       [] q.op = "exists" -> Finish(IF there THEN Yes ELSE No)
       [] q.op = "get_part" /\ m.op = "exists" ->
            IF there /\ q.len > 0 THEN Issue([q EXCEPT !.op = "getrange"]) ELSE Finish(No)
       [] q.op = "get_part" /\ m.op = "getrange" -> Finish(Bulks(got))
       [] q.op = "set_part" /\ m.op = "exists" ->
            IF there THEN Issue([q EXCEPT !.op = "get"]) ELSE Finish(Refused)
       [] q.op = "set_part" /\ m.op = "get" ->
            IF in_bounds(old, q) THEN Issue([q EXCEPT !.op = "setrange"]) ELSE Finish(Refused)
       [] q.op = "scan" -> after_scan(m, got, keys)
       [] OTHER -> Finish(<<>>)

-----------------------------------------------------------------------------
RedisInit ==
  /\ db = Contents
  /\ slot = [c \in Clients |-> NewStream]
  /\ trip = [c \in Clients |-> NoTrip]
  /\ found = [c \in Clients |-> <<>>]
  /\ orphans = {}
  /\ sent = [c \in Clients |-> 0]

Begin(m) == [at |-> "start", cmd |-> m, got |-> <<>>]
Doing(c, phase) == trip[c].at = phase

\* An empty key list needs no command.
RedisInvoke(c, q) ==
  /\ Invoked(c, q, db)
  /\ trip' = [trip EXCEPT ![c] = IF q.keys = <<>> /\ q.op # "flush"
                                 THEN [NoTrip EXCEPT !.at = "skip"] ELSE Begin(First(q))]
  /\ UNCHANGED <<db, slot, found, orphans, sent>>

RedisSkip(c) ==
  /\ Doing(c, "skip")
  /\ Ended(c, Answered(<<>>))
  /\ trip' = [trip EXCEPT ![c] = NoTrip]
  /\ UNCHANGED <<db, slot, found, orphans, sent>>

\* cmd panics; the call of c fails.
Panic(c) ==
  /\ Ended(c, PANIC)
  /\ trip' = [trip EXCEPT ![c] = NoTrip]
  /\ found' = [found EXCEPT ![c] = <<>>]

RedisOpen(c) ==
  /\ Doing(c, "start") /\ ~ slot[c].open
  /\ slot' = [slot EXCEPT ![c] = NewStream]
  /\ UNCHANGED <<db, trip, found, orphans, sent>> /\ Unseen

RedisOpenFails(c) ==
  /\ Doing(c, "start") /\ ~ slot[c].open
  /\ Panic(c)
  /\ UNCHANGED <<db, slot, orphans, sent>>

RedisWrite(c) ==
  /\ Doing(c, "start") /\ slot[c].open
  /\ sent' = [sent EXCEPT ![c] = @ + 1]
  /\ slot' = [slot EXCEPT ![c].req = Append(@, [cmd |-> trip[c].cmd, by |-> sent[c] + 1])]
  /\ trip' = [trip EXCEPT ![c].at = "read"]
  /\ UNCHANGED <<db, found, orphans>> /\ Unseen

\* Defect: cmd keeps the stream after an I/O error.
LoseStream_Keeps(c, left) == orphans' = orphans /\ UNCHANGED slot

\* cmd drops the stream after an I/O error; left is what the server still gets.
LoseStream(c, left) ==
  /\ slot' = [slot EXCEPT ![c] = NoStream]
  /\ orphans' = orphans \cup {r \in left : r.cmd.op \in Writes}

\* write_all fails or times out before the whole command is out.
RedisWriteFails(c) ==
  /\ Doing(c, "start") /\ slot[c].open
  /\ LoseStream(c, {})
  /\ Panic(c)
  /\ UNCHANGED <<db, sent>>

\* Defect: no read timeout is set.
RedisReadFails_Never(c) == FALSE /\ UNCHANGED <<redis>> /\ Unseen

\* The read times out or the connection is lost, before any piece of the
\* reply; a command still on its way is lost or executed later.
RedisReadFails(c) ==
  /\ Doing(c, "read")
  /\ \E left \in {{}, ToSet(slot[c].req)} :
       LoseStream(c, {[cmd |-> r.cmd, by |-> <<c, r.by>>] : r \in left})
  /\ Panic(c)
  /\ UNCHANGED <<db, sent>>

\* The server executes a command and answers.
RedisExec(c) ==
  LET r == Head(slot[c].req)
  IN /\ slot[c].req # <<>>
     /\ db' = Effect(r.cmd, db)
     /\ \E reply \in Answers(r.cmd, db) :
          slot' = [slot EXCEPT ![c].req = Tail(@),
                               ![c].rep = @ \o [i \in DOMAIN reply |-> [reply[i] EXCEPT !.by = r.by]]]
     /\ Seen(db')
     /\ UNCHANGED <<trip, found, orphans, sent>>

\* The server answers with an error (out of memory, read-only replica, ...).
RedisRefuses(c) ==
  LET r == Head(slot[c].req)
  IN /\ slot[c].req # <<>>
     /\ slot' = [slot EXCEPT ![c].req = Tail(@), ![c].rep = @ \o <<[Error[1] EXCEPT !.by = r.by]>>]
     /\ UNCHANGED <<db, trip, found, orphans, sent>> /\ Unseen

RedisOrphan ==
  \E o \in orphans :
    /\ db' = Effect(o.cmd, db)
    /\ orphans' = orphans \ {o}
    /\ Seen(db')
    /\ UNCHANGED <<slot, trip, found, sent>>

\* The reply is complete: panic on a server error, keeping the stream, or go on.
Complete(c, got, keys) ==
  LET next == Resume(call[c], trip[c].cmd, got, keys)
  IN IF got[1].kind = "-" THEN Panic(c)
     ELSE IF next.cmd = NoCall
     THEN /\ Ended(c, Answered(next.ans))
          /\ trip' = [trip EXCEPT ![c] = NoTrip]
          /\ found' = [found EXCEPT ![c] = <<>>]
     ELSE /\ trip' = [trip EXCEPT ![c] = Begin(next.cmd)]
          /\ found' = [found EXCEPT ![c] = keys]
          /\ Unseen

RedisRead(c) ==
  LET got == Append(trip[c].got, Head(slot[c].rep))
  IN /\ Doing(c, "read") /\ slot[c].rep # <<>>
     /\ slot' = [slot EXCEPT ![c].rep = Tail(@)]
     /\ IF Needed(got) > 0
        THEN trip' = [trip EXCEPT ![c].got = got] /\ UNCHANGED <<found>> /\ Unseen
        ELSE Complete(c, got, found[c] \o scanned(trip[c].cmd, got))
     /\ UNCHANGED <<db, orphans, sent>>

RedisClient(c) ==
  \/ RedisSkip(c)
  \/ RedisOpen(c) \/ RedisOpenFails(c)
  \/ RedisWrite(c) \/ RedisWriteFails(c)
  \/ RedisRead(c) \/ RedisReadFails(c)

RedisNext ==
  \/ \E c \in Clients : \E q \in NextCalls(c) : RedisInvoke(c, q)
  \/ \E c \in Clients : RedisClient(c) \/ RedisExec(c) \/ RedisRefuses(c)
  \/ RedisOrphan
=============================================================================
