----------------------------- MODULE MCHandle ------------------------------
(***************************************************************************)
(* Instances of Handle for TLC.                                            *)
(***************************************************************************)
EXTENDS Handle

Inline(c) == [kind |-> "inline", body |-> <<c>>]
Malformed == [kind |-> "malformed", body |-> <<>>]

\* A request with every argument; each call below overrides the ones it has.
Blank == [op |-> "Get", key |-> Root, to |-> Root, val |-> Absent, n |-> 0,
          resolve |-> TRUE, expand_ext |-> FALSE, keys |-> <<>>]
GetOf(k) == [Blank EXCEPT !.key = k]
Call(op, k) == [Blank EXCEPT !.op = op, !.key = k]
SetOf(k, v) == [Blank EXCEPT !.op = "SetValue", !.key = k, !.val = v]
NewOf(k, v) == [Blank EXCEPT !.op = "WriteNewPlace", !.key = k, !.val = v]
InPlace(k, n) == [Blank EXCEPT !.op = "WriteInPlace", !.key = k, !.n = n]
PartOf(k, off, c) == [Blank EXCEPT !.op = "SetPart", !.key = k, !.n = off, !.val = Inline(c)]
CopyOf(op, k, to) == [Blank EXCEPT !.op = op, !.key = k, !.to = to]
DelOf(ks) == [Blank EXCEPT !.op = "Del", !.keys = ks]
ListLenOf(d) == [Blank EXCEPT !.op = "ListLen", !.key = d]
ListAtOf(d, i) == [Blank EXCEPT !.op = "ListAt", !.key = d, !.n = i]
WatchOf(k, v) == [Blank EXCEPT !.op = "Watch", !.key = k, !.val = v]
Env(k, v) == [key |-> k, val |-> v, when |-> {}]

\* One handle alone: a container with a member and copies of it; a pointer, and a
\* directory that is read, mounted and unmounted.
A == <<"/", "a">>
AM == <<"/", "a", ".", "m">>
B == <<"/", "b">>
BD == <<"/", "b", "/">>
R == <<"/", "r">>
TreeRequests ==
  {GetOf(A), GetOf(AM), NewOf(A, Inline("v")), NewOf(A, Malformed),
   InPlace(A, 1), InPlace(A, 2), DelOf(<<A, MetaRoot>>), Call("DelTree", A),
   CopyOf("Cp", A, AM), CopyOf("CpTree", A, B), CopyOf("CpList", B, A),
   WatchOf(A, Inline("v")), ListLenOf(Root), ListAtOf(Root, 0)}
ValueRequests ==
  {GetOf(B), GetOf(R), GetOf(BD), Call("GetHead", R), SetOf(B, Inline("v")), SetOf(R, Ptr(B)),
   PartOf(R, 0, "w"), PartOf(B, 1, "w"), Call("Clear", Root), DelOf(<<BD>>),
   Call("Mkindex", BD), CopyOf("MkindexExt", BD, BD), Call("RmindexExt", BD),
   ListLenOf(Root), ListAtOf(Root, 0)}
OwnBodies == {<<"w">>}

\* A borrowed key and a write-in-place of the wrong length.
MismatchRequests == {NewOf(A, Inline("v")), GetOf(A), InPlace(A, 2)}

\* Control keys: another process flips a thread's state slot and consumes a
\* handoff key while this handle reads, watches and rewrites them.
S == <<"/", "vthread", "/", "t", "/", "..", "s">>
H == <<"/", "vthread", "/", "..", "vids", "/", "1">>
ControlRequests == {GetOf(S), WatchOf(A, Inline("v")), DelOf(<<H>>)}
ControlEnv == {Env(S, Inline("v")), Env(S, Inline("w")), Env(S, Absent), Env(A, Inline("v"))}
StageRequests == {GetOf(S), WatchOf(S, Inline("v")), InPlace(S, 1)}
StageEnv == {Env(S, Inline("v")), Env(S, Inline("w"))}

\* Relayout: a version is the length of a body.  The layouter writes the code of
\* a function, then its ctime; the runtime polls ctime and reads the code.
Version(n) == [kind |-> "inline", body |-> [i \in 1 .. n |-> "v"]]
Code == <<"/", "lib", "/", "f", "/", "x">>
Ctime == <<"/", "lib", "/", "f", "/", "..", "ctime">>
MaxVersion == 4
RelayoutEnv ==
  UNION {{[key |-> Code, val |-> Version(n), when |-> {<<Ctime, IF n = 1 THEN Absent ELSE Version(n - 1)>>}],
          [key |-> Ctime, val |-> Version(n), when |-> {<<Code, Version(n)>>}]} : n \in 1 .. MaxVersion}
CodeDir == <<"/", "lib", "/", "f", "/">>
RelayoutRequests ==
  {GetOf(Code), GetOf(Ctime), WatchOf(A, Inline("v")), ListLenOf(CodeDir),
   Call("Mkindex", BD), CopyOf("MkindexExt", CodeDir, BD), Call("RmindexExt", CodeDir)}

\* volatile_refresh: once this handle has seen a function's ctime change, its
\* cached code is never older than the ctime it last saw, although the code was
\* cached by key and another process rewrote it.
RelayoutSeen(c) ==
  \A k \in DOMAIN read_cache :
    under_prefix(k, ctime_dir(c)) => Len(read_cache[k].val.body) >= Len(Current(c).val.body)
RelayoutVisible ==
  \A c \in DOMAIN volatile_cache :
    LET ring == volatile_cache[c]
    IN ctime_dir(c) # <<>> /\ ring.slots[(ring.which + 3) % 4].val # Absent => RelayoutSeen(c)

\* Calls that follow pointers while another process builds cycles of them.
CycleRequests == {GetOf(A), GetOf(R), InPlace(R, 1), WatchOf(B, Inline("v"))}
CycleEnv == {Env(A, Ptr(R)), Env(R, Ptr(A)), Env(A, Inline("v")), Env(R, Absent),
             Env(B, Inline("v")), Env(B, Absent)}
=============================================================================
