------------------------------- MODULE MCConn -------------------------------
(***************************************************************************)
(* Instances of Conn for TLC.                                              *)
(***************************************************************************)
EXTENDS Conn

Alphabet == {"/", "0", "a", "b", "x", "m", "n", "p", "q", "r", "s", "t"}

\* "/a", a key below it and its sibling "/ab".
A == <<"/", "a">>
AX == <<"/", "a", "/", "x">>
AB == <<"/", "a", "b">>
KeyOrder == <<AB, A, AX>>

Op(op, keys) == [NoCall EXCEPT !.op = op, !.keys = keys]
PutOf(k, v) == SetOf(k, v)
PartAt(k, off, buf) == [Op("set_part", <<k>>) EXCEPT !.off = off, !.val = buf]
ReadAt(k, off, len) == [Op("get_part", <<k>>) EXCEPT !.off = off, !.len = len]

StoreCallSet ==
  {PutOf(A, <<"p">>), PutOf(AX, <<"q", "q">>), PutOf(AB, <<"p">>), PartAt(AX, 1, <<"r">>),
   Op("get", <<AX>>), Op("get_many", <<A, AX>>), Op("exists", <<A>>), ReadAt(AX, 1, 1), ReadAt(AX, 0, 0),
   Op("del", <<>>), Op("del", <<A, AX>>), Op("scan", <<A>>), Op("flush", <<>>)}

Follow == {PutOf(AX, <<"s">>), Op("get", <<AX>>)}
Rivals == {PutOf(AX, <<"s">>), PartAt(AX, 1, <<"t">>), Op("del", <<A, AX>>)}

\* DSNs: without a scheme, of every scheme, a prefix without '/', an unknown one.
Dsn(s, p) == [scheme |-> s, prefix |-> p]
DsnSet == {NoDsn, Dsn("bare", <<>>), Dsn("redis", <<>>), Dsn("weird", <<>>),
           Dsn("s3", <<>>), Dsn("s3", <<"m">>), Dsn("s3", <<"m", "/">>)}
Ours == <<"m", "/">>
Env == Dsn("s3", <<"m", "/">>)

Filled == With(With(With(Nothing, A, <<"p">>), AX, <<"q", "q">>), AB, <<"p">>)
\* The same below "m/", and an object of a tenant whose prefix begins alike.
FilledObjects ==
  With([n \in {object_key(Env.prefix, k) : k \in DOMAIN Filled} |-> Filled[<<"/">> \o drop(n, 2)]],
       <<"m", "n", "/", "a">>, <<"t">>)
ObjectOrder == [i \in DOMAIN KeyOrder |-> object_key(<<"m", "/">>, KeyOrder[i])] \o <<<<"m", "n", "/", "a">>>>
TwoClients == {"c1", "c2"}
Script == [c \in TwoClients |-> IF c = "c1" THEN <<StoreCallSet, Follow>> ELSE <<Rivals>>]

\* A part write against a handle that stores a shorter value or deletes it.
RedisDsn == {Dsn("redis", <<>>)}
Growth == [c \in TwoClients |-> IF c = "c1" THEN <<{PartAt(AX, 1, <<"r">>)}>>
                                ELSE <<{PutOf(AX, <<"s">>), Op("del", <<A, AX>>)}>>]

\* One client that stores one value.
OneClient == {"c1"}
OneSet == [c \in OneClient |-> <<{PutOf(AX, <<"s">>)}>>]
=============================================================================
