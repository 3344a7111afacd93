-------------------------------- MODULE Conn --------------------------------
(***************************************************************************)
(* conn (conn.rs): the handles of a program connect to one DSN, whose      *)
(* scheme chooses the backend they use from then on, and the store behind  *)
(* them implements KVStore whichever it is.  The fs backend does not use a *)
(* KVStore; FsLayout models it.                                            *)
(***************************************************************************)
EXTENDS RedisStore, S3Store

CONSTANTS Dsns,   \* what the program connects to, [scheme, prefix]
          EnvDsn, \* what $KVSPACE holds, or NoDsn
          Tenant  \* the directory of the bucket that the DSNs are for

VARIABLE scheme   \* of the DSN connected to

conn_vars == <<scheme, redis, s3, clients>>

NoDsn == [scheme |-> "", prefix |-> <<>>]

\* A DSN whose prefix names a directory is meant for one of the tenant.
ASSUME TenantAssumption ==
  /\ Tenant \in Word
  /\ \A d \in Dsns \cup {EnvDsn} :
       /\ d.prefix \in Word
       /\ d.scheme = "s3" /\ ends_with(d.prefix, PATH_SEP) => starts_with(d.prefix, Tenant)

\* On S3 keys begin with '/', apart from the empty prefix of a scan, and the
\* order in which objects are listed has every name that they are stored under.
ASSUME NamesAssumption ==
  \A d \in Dsns \cup {EnvDsn} :
    d.scheme = "s3" /\ ends_with(d.prefix, PATH_SEP) =>
      /\ \A q \in AllCalls : \A k \in ToSet(q.keys) : starts_with(k, Root) \/ (q.op = "scan" /\ k = <<>>)
      /\ \A k \in NewKeys : object_key(d.prefix, k) \in ToSet(ListOrder)

\* An empty DSN reads the environment; without "://" the scheme is redis.
dsn_or_env(d) == IF d = NoDsn THEN EnvDsn ELSE d
scheme_of(d) == IF d.scheme = "bare" THEN "redis" ELSE d.scheme

\* Every other scheme, and an s3 prefix that dsn::parse refuses, panics: no handle.
conn(d) ==
  \/ scheme_of(d) = "redis" /\ scheme = "redis" /\ prefix = <<>>
  \/ scheme_of(d) = "s3" /\ dsn_prefix_ok(d.prefix) /\ scheme = "s3" /\ prefix = d.prefix

ConnInit ==
  /\ \E d \in Dsns : conn(dsn_or_env(d))
  /\ RedisInit /\ S3Init /\ ClientsInit

ConnNext ==
  \/ scheme = "redis" /\ RedisNext /\ UNCHANGED <<scheme, s3>>
  \/ scheme = "s3" /\ S3Next /\ UNCHANGED <<scheme, redis>>

\* Timeouts of three seconds end every wait of a redis client; nothing ends a
\* wait of the HTTP client, and the servers need not do anything.
ConnSpec ==
  /\ ConnInit /\ [][ConnNext]_conn_vars
  /\ \A c \in Clients : WF_conn_vars(scheme = "redis" /\ RedisClient(c) /\ UNCHANGED <<scheme, s3>>)

-----------------------------------------------------------------------------
\* Type: a client is in a round trip or has a request under way exactly while
\* it is in a call, and its stream carries at most one command.
TypeOK ==
  \A c \in Clients :
    /\ (trip[c] = NoTrip /\ job[c] = NoJob) <=> call[c] = NoCall
    /\ Len(slot[c].req) <= 1
    /\ job[c].attempt \in 0 .. MAX_ATTEMPTS

\* Every piece of a reply that a redis client reads answers the command it is
\* waiting for: no reply, or rest of a reply, of a command that timed out or
\* failed is taken for the answer to a later one (redis/store.rs cmd drops the
\* stream on any I/O error and keeps it after a server error).
ReplyIsOwn ==
  \A c \in Clients :
    /\ \A i \in DOMAIN trip[c].got : trip[c].got[i].by = sent[c]
    /\ trip[c].at = "start" => slot[c].req = <<>> /\ slot[c].rep = <<>>

\* Whatever keys are written, deleted, scanned or flushed, the objects outside
\* the DSN prefix stay as they are (s3/store.rs flush: the prefix is the safety
\* boundary, which dsn::parse has to guarantee).
PrefixIsolated ==
  \A n \in DOMAIN bucket \cup DOMAIN Objects :
    ~ starts_with(n, Tenant) => Value(bucket, n) = Value(Objects, n)

\* The contents of the store behind the handles.
Shown == IF scheme = "s3" THEN Own(bucket) ELSE db

\* The store behind a handle, redis or S3, implements KVStore: acknowledged
\* writes happened, reads and scans show the contents of their own duration,
\* failed and repeated requests have no effect but the one asked for.  A part is
\* written only if it was seen to lie in the value, which says nothing of the
\* value it meets: PartsNeverGrow below.
RedisPending == {o.cmd : o \in orphans}
S3Pending == {IF r.m = "PUT" THEN SetOf(kv_key(r.key), r.val) ELSE DelOf(kv_key(r.key)) : r \in flying}
Contract == INSTANCE KVStore WITH
  data <- Shown,
  late <- IF scheme = "s3" THEN S3Pending ELSE RedisPending
ImplementsKVStore == Contract!Spec

\* Every call on a redis store returns or fails, whatever the server delays or
\* leaves unanswered; the server speaks RESP, and connecting always ends.
CallsEnd == \A c \in Clients : scheme = "redis" /\ call[c] # NoCall ~> call[c] = NoCall

-----------------------------------------------------------------------------
\* store.rs set_part: a part beyond the end fails and never makes the value
\* longer (redis/store.rs set_part: by then it is in bounds).  Only a set of the
\* whole value makes it longer.  The length is read one round trip before the
\* SETRANGE, which pads when another handle has stored less, or deleted, since.
PartsNeverGrow ==
  [][\A k \in DOMAIN Shown' :
       \/ Len(Value(Shown', k)) <= Len(Value(Shown, k))
       \/ \E q \in AllCalls : q.op = "set" /\ q.keys = <<k>> /\ q.val = Value(Shown', k)]_conn_vars

\* s3/store.rs MAX_ATTEMPTS: a request answered with 5xx is sent again while
\* attempts are left.  send, which carries PUT, panics on the first one.
Retries5xx ==
  [][\A c \in Clients :
       scheme = "s3" /\ S3ServerError(c) /\ job[c].attempt < MAX_ATTEMPTS => call'[c] = call[c]]_conn_vars
=============================================================================
