------------------------------- MODULE S3Store -------------------------------
(***************************************************************************)
(* S3Store (s3/store.rs, s3/dsn.rs): several handles on one bucket, which  *)
(* also holds the objects of others.                                       *)
(*                                                                         *)
(* A request is one HTTP exchange.  It can be refused, fail on the way     *)
(* there or on the way back, and be executed after the client has given it *)
(* up and sent it again.  The back-off between attempts is timing only;    *)
(* signing has no state.                                                   *)
(***************************************************************************)
EXTENDS StoreCalls

CONSTANTS MAX_ATTEMPTS,   \* 3 in the code
          ListOrder,      \* the order in which the service lists object names
          Objects         \* what the bucket holds when the handles connect

ASSUME AttemptsAssumption == MAX_ATTEMPTS \in Nat \ {0}
ASSUME BucketAssumption ==
  /\ ListOrder \in Seq(Word) /\ IsInjective(ListOrder) /\ DOMAIN Objects \subseteq ToSet(ListOrder)
  /\ \A n \in DOMAIN Objects : Objects[n] \in Word

VARIABLES bucket,   \* object name -> bytes
          prefix,   \* prefix of the DSN, the same for every handle
          job,      \* client -> request under way
          todo,     \* client -> keys still to be deleted
          listed,   \* client -> keys list_all has collected
          flying    \* requests given up by their client, not executed yet

s3 == <<bucket, prefix, job, todo, listed, flying>>

\* m: method, LIST and RANGE being a GET of the bucket and one with a Range
\* header; at: "sent" until the service has executed it, then "answered".
NoJob == [m |-> "none", key |-> <<>>, val |-> <<>>, token |-> <<>>, off |-> 0, len |-> 0,
          attempt |-> 0, at |-> "none", status |-> 0, body |-> <<>>, more |-> FALSE]

\* Defect: a prefix that does not end in '/' is accepted.
dsn_prefix_ok_AnyEnd(p) == p # <<>>

\* dsn::parse panics unless the prefix is given and ends in '/'.
dsn_prefix_ok(p) == p # <<>> /\ ends_with(p, PATH_SEP)

object_key(p, k) == p \o (IF starts_with(k, Root) THEN Tail(k) ELSE k)

\* The object name without the DSN prefix, as a key.
kv_key(name) == Root \o drop(name, Len(prefix))

\* The contents as the handles see them.
Own(b) == [k \in {kv_key(n) : n \in {x \in DOMAIN b : starts_with(x, prefix)}} |-> b[object_key(prefix, k)]]

-----------------------------------------------------------------------------
\* The service.

\* A request of an object: what it does to the bucket.
Stored(b, r) ==
  CASE r.m = "PUT" -> With(b, r.key, r.val)
    [] r.m = "DELETE" -> Without(b, {r.key})
    [] OTHER -> b

\* ListObjectsV2 after token: names with the prefix, in order.
Rest(b, r) ==
  LET from == IF r.token = <<>> THEN 0 ELSE CHOOSE i \in DOMAIN ListOrder : ListOrder[i] = r.token
  IN Filter(drop(ListOrder, from), {n \in DOMAIN b : starts_with(n, r.key)})

\* Any non-empty beginning of it, with IsTruncated when something is left out.
Listings(rest) ==
  IF rest = <<>> THEN {[status |-> 200, body |-> <<>>, more |-> FALSE]}
  ELSE {[status |-> 200, body |-> SubSeq(rest, 1, n), more |-> n < Len(rest)] : n \in DOMAIN rest}

Reply(status, v) == [status |-> status, body |-> v, more |-> FALSE]
Replies(r, b) ==
  CASE r.m = "LIST" -> Listings(Rest(b, r))
    [] r.m = "GET" -> {IF r.key \in DOMAIN b THEN Reply(200, b[r.key]) ELSE Reply(404, <<>>)}
    [] r.m = "RANGE" -> {CASE r.key \notin DOMAIN b -> Reply(404, <<>>)
                           [] r.key \in DOMAIN b /\ r.off >= Len(b[r.key]) -> Reply(416, <<>>)
                           [] OTHER -> Reply(206, slice(b[r.key], r.off, r.len))}
    [] r.m = "HEAD" -> {Reply(IF r.key \in DOMAIN b THEN 200 ELSE 404, <<>>)}
    [] OTHER -> {Reply(200, <<>>)}

-----------------------------------------------------------------------------
\* What a call does with each answer.

Request(m, k, v) ==
  [NoJob EXCEPT !.m = m, !.key = object_key(prefix, k), !.val = v, !.attempt = 1, !.at = "sent"]
ListFrom(k, token) == [Request("LIST", k, <<>>) EXCEPT !.token = token]

Go(r, ks) == [req |-> r, del |-> ks, ans |-> <<>>]
Done(a) == [req |-> NoJob, del |-> <<>>, ans |-> a]

\* del and flush: one DELETE after the other.
DeleteEach(ks) == IF ks = <<>> THEN Done(<<>>) ELSE Go(Request("DELETE", Head(ks), <<>>), Tail(ks))

FirstRequest(q) ==
  LET k == q.keys[1]
  IN CASE q.op = "get_many" -> IF q.keys = <<>> THEN Done(<<>>) ELSE Go(Request("GET", k, <<>>), Tail(q.keys))
       [] q.op = "get" -> Go(Request("GET", k, <<>>), <<>>)
       [] q.op = "set" -> Go(Request("PUT", k, q.val), <<>>)
       [] q.op \in {"exists", "get_part", "set_part"} -> Go(Request("HEAD", k, <<>>), <<>>)
       [] q.op = "del" -> DeleteEach(q.keys)
       [] q.op = "scan" -> Go(ListFrom(k, <<>>), <<>>)
       [] OTHER -> Go(ListFrom(Root, <<>>), <<>>)

\* scan_keys of the keys list_all has collected.
scanned_keys(q, keys) == Filter(keys, {k \in ToSet(keys) : is_subtree_key(q.keys[1], k)})

\* Defect: only the first page is read.
after_list_OnePage(q, r, keys) == IF q.op = "flush" THEN DeleteEach(keys) ELSE Done(scanned_keys(q, keys))

\* list_all goes on with the continuation token while the listing is truncated.
after_list(q, r, keys) ==
  IF r.more THEN Go([r EXCEPT !.token = Last(r.body), !.attempt = 1, !.at = "sent"], <<>>)
  ELSE IF q.op = "flush" THEN DeleteEach(keys) ELSE Done(scanned_keys(q, keys))

\* The default set_part: read again, patch, store; nothing when it no longer fits.
after_reread(q, old) ==
  IF in_bounds(old, q) THEN Go(Request("PUT", q.keys[1], patch(old, q.off, q.val)), <<>>) ELSE Done(<<>>)

\* What call q does when request r was answered; ks are the keys still to be
\* read or deleted, keys what has been collected (listed keys, values read).
NextRequest(q, r, ks, keys) ==
  LET k == q.keys[1]
      there == r.status \in {200, 206}
      old == IF there THEN r.body ELSE Missing
  IN CASE q.op = "get" -> Done(<<old>>)
       [] q.op = "get_many" ->
            IF ks = <<>> THEN Done(keys) ELSE Go(Request("GET", Head(ks), <<>>), Tail(ks))
       [] q.op = "exists" -> Done(IF there THEN Yes ELSE No)
       [] q.op = "get_part" /\ r.m = "HEAD" ->
            IF ~ there THEN Done(No)
            ELSE IF q.len = 0 THEN Go(Request("GET", k, <<>>), <<>>)
            ELSE Go([Request("RANGE", k, <<>>) EXCEPT !.off = q.off, !.len = q.len], <<>>)
       [] q.op = "get_part" /\ r.m = "GET" -> Done(<<Missing>>)
       [] q.op = "get_part" /\ r.m = "RANGE" -> Done(<<old>>)
       [] q.op = "set_part" /\ r.m = "HEAD" ->
            IF there THEN Go(Request("GET", k, <<>>), <<>>) ELSE Done(Refused)
       [] q.op = "set_part" /\ r.m = "GET" /\ ks = <<>> ->
            IF in_bounds(old, q) THEN Go(Request("GET", k, <<>>), <<k>>) ELSE Done(Refused)
       [] q.op = "set_part" /\ r.m = "GET" /\ ks # <<>> -> after_reread(q, old)
       [] q.op \in {"scan", "flush"} /\ r.m = "LIST" -> after_list(q, r, keys)
       [] q.op \in {"del", "flush"} /\ r.m = "DELETE" -> DeleteEach(ks)
       [] OTHER -> Done(<<>>)

collected(q, r) ==
  CASE r.m = "LIST" -> [i \in DOMAIN r.body |-> kv_key(r.body[i])]
    [] r.m = "GET" /\ q.op = "get_many" -> <<IF r.status = 200 THEN r.body ELSE Missing>>
    [] OTHER -> <<>>

-----------------------------------------------------------------------------
S3Init ==
  /\ bucket = Objects
  /\ job = [c \in Clients |-> NoJob]
  /\ todo = [c \in Clients |-> <<>>]
  /\ listed = [c \in Clients |-> <<>>]
  /\ flying = {}

\* Take the next step of c's call; keys is what it has collected.
Proceed(c, step, keys) ==
  /\ job' = [job EXCEPT ![c] = step.req]
  /\ todo' = [todo EXCEPT ![c] = step.del]
  /\ listed' = [listed EXCEPT ![c] = IF step.req = NoJob THEN <<>> ELSE keys]

S3Invoke(c, q) ==
  /\ Invoked(c, q, Own(bucket))
  /\ Proceed(c, IF FirstRequest(q).req = NoJob THEN Go([NoJob EXCEPT !.at = "skip"], <<>>) ELSE FirstRequest(q), <<>>)
  /\ UNCHANGED <<bucket, prefix, flying>>

\* An empty key list needs no request.
S3Skip(c) ==
  /\ job[c].at = "skip"
  /\ Ended(c, Answered(<<>>)) /\ Proceed(c, Done(<<>>), <<>>)
  /\ UNCHANGED <<bucket, prefix, flying>>

\* The service executes the request.
S3Serve(c) ==
  /\ job[c].at = "sent"
  /\ bucket' = Stored(bucket, job[c])
  /\ \E r \in Replies(job[c], bucket) :
       job' = [job EXCEPT ![c].at = "answered", ![c].status = r.status, ![c].body = r.body, ![c].more = r.more]
  /\ Seen(Own(bucket'))
  /\ UNCHANGED <<prefix, todo, listed, flying>>

S3Panic(c) == Ended(c, PANIC) /\ Proceed(c, Done(<<>>), <<>>)

Advance(c, keys) ==
  LET step == NextRequest(call[c], job[c], todo[c], keys)
  IN /\ Proceed(c, step, keys)
     /\ IF step.req = NoJob THEN Ended(c, Answered(step.ans)) ELSE Unseen

\* 404 is an answer; any other 4xx is a panic.
S3Receive(c) ==
  /\ job[c].at = "answered"
  /\ IF job[c].status = 416 THEN S3Panic(c)
     ELSE Advance(c, listed[c] \o collected(call[c], job[c]))
  /\ UNCHANGED <<bucket, prefix, flying>>

\* Defect: one attempt too many.
Again_OneMore(c) ==
  IF job[c].attempt <= MAX_ATTEMPTS
  THEN /\ job' = [job EXCEPT ![c].at = "sent", ![c].attempt = @ + 1, ![c].body = <<>>]
       /\ UNCHANGED <<todo, listed>> /\ Unseen
  ELSE S3Panic(c)

\* The attempt failed: send the request again, or give up.
Again(c) ==
  IF job[c].attempt < MAX_ATTEMPTS
  THEN /\ job' = [job EXCEPT ![c].at = "sent", ![c].attempt = @ + 1,
                             ![c].status = 0, ![c].body = <<>>, ![c].more = FALSE]
       /\ UNCHANGED <<todo, listed>> /\ Unseen
  ELSE S3Panic(c)

\* Signature, permission or the bucket itself is wrong.
S3Denied(c) ==
  /\ job[c].at = "sent"
  /\ S3Panic(c)
  /\ UNCHANGED <<bucket, prefix, flying>>

\* 5xx, the request executed or not: send_empty tries again, send (PUT) panics.
S3ServerError(c) ==
  /\ job[c].at \in {"sent", "answered"}
  /\ IF job[c].m = "PUT" THEN S3Panic(c) ELSE Again(c)
  /\ UNCHANGED <<bucket, prefix, flying>>

\* The connection fails: the request is lost, executed later, or the answer is lost.
S3NetworkError(c) ==
  /\ job[c].at \in {"sent", "answered"}
  /\ \E left \in {{}, {job[c]}} :
       /\ left # {} => job[c].at = "sent" /\ job[c].m \in {"PUT", "DELETE"}
       /\ flying' = flying \cup {[m |-> r.m, key |-> r.key, val |-> r.val] : r \in left}
  /\ Again(c)
  /\ UNCHANGED <<bucket, prefix>>

\* The body of an answer breaks off: read_to_vec fails, which is not retried.
S3BodyError(c) ==
  /\ job[c].at = "answered" /\ job[c].m # "PUT" /\ job[c].status \in {200, 206}
  /\ S3Panic(c)
  /\ UNCHANGED <<bucket, prefix, flying>>

S3Late ==
  \E r \in flying :
    /\ bucket' = Stored(bucket, r)
    /\ flying' = flying \ {r}
    /\ Seen(Own(bucket'))
    /\ UNCHANGED <<prefix, job, todo, listed>>

S3Next ==
  \/ \E c \in Clients : \E q \in NextCalls(c) : S3Invoke(c, q)
  \/ \E c \in Clients :
       \/ S3Skip(c) \/ S3Serve(c) \/ S3Receive(c)
       \/ S3Denied(c) \/ S3ServerError(c) \/ S3NetworkError(c) \/ S3BodyError(c)
  \/ S3Late
=============================================================================
