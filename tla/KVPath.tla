------------------------------- MODULE KVPath -------------------------------
(***************************************************************************)
(* The key algebra of kvspace-durable (kvspace_common.rs, store.rs,        *)
(* const.rs and the two key predicates of ffi.rs).                         *)
(*                                                                         *)
(* A key is a word: a sequence of letters.  The three separators of the    *)
(* program are letters, and so is every name fragment, so that string      *)
(* concatenation is \o, starts_with is IsPrefix and strip_prefix is        *)
(* SubSeq.  Two adjacent name letters spell one longer name: <<"/","p">>   *)
(* and <<"/","p","q">> are "/p" and its sibling "/pq", which is what the   *)
(* boundary tests below have to tell apart.                                *)
(***************************************************************************)
EXTENDS Naturals, SequencesExt

PATH_SEP == "/"             \* '/'  hierarchy
OBJ_SEP == "."              \* U+00B7, member of a container
RUNTIME_MEMBER_SEP == ".."  \* U+2025, runtime system variable
Separators == {PATH_SEP, OBJ_SEP, RUNTIME_MEMBER_SEP}

Root == <<PATH_SEP>>
MetaRoot == <<PATH_SEP, ".kvspace-meta">>

starts_with(k, p) == IsPrefix(p, k)
ends_with(k, c) == k # <<>> /\ Last(k) = c
drop(k, n) == SubSeq(k, n + 1, Len(k))
rfind(k, c) == Max({0} \cup {i \in DOMAIN k : k[i] = c})
contains(k, w) == \E i \in 0 .. Len(k) : starts_with(drop(k, i), w)

is_dir(k) == ends_with(k, PATH_SEP) \/ ends_with(k, OBJ_SEP)

join_path(parent, child) ==
  IF is_dir(parent) THEN parent \o child ELSE parent \o Root \o child

strip_dir_suf(k) == IF is_dir(k) THEN Front(k) ELSE k

subtree_base(p) == IF p = Root THEN <<>> ELSE strip_dir_suf(p)

\* The rest of k after base starts at one of the given separators.
At(k, base, seps) == starts_with(k, base) /\ Len(k) > Len(base) /\ k[Len(base) + 1] \in seps

is_descendant(base, k) ==
  IF base = Root THEN k # Root /\ starts_with(k, Root)
                 ELSE At(k, base, {PATH_SEP, OBJ_SEP})

\* Defect: a sibling whose name begins alike counts as part of the subtree.
is_subtree_key_NoBoundary(prefix, k) ==
  IF prefix \in {<<>>, Root} THEN starts_with(k, Root) ELSE starts_with(k, prefix)

is_subtree_key(prefix, k) ==
  IF prefix \in {<<>>, Root} THEN starts_with(k, Root)
                             ELSE k = prefix \/ At(k, prefix, Separators)

\* Which cached keys DelTree / CpTree / CpList(prefix) makes a handle drop.
under_prefix(k, prefix) ==
  \/ k = prefix
  \/ IF ends_with(prefix, RUNTIME_MEMBER_SEP)
     THEN starts_with(k, prefix)
     ELSE LET base == subtree_base(prefix)
          IN IF base = <<>> THEN starts_with(k, Root)
                            ELSE k = base \/ At(k, base, Separators)

is_reserved(k) == k = MetaRoot \/ starts_with(k, MetaRoot \o Root)

\* (prefix, last) at the last '/'.
sep_path(k) ==
  LET i == rfind(k, PATH_SEP)
  IN CASE k = Root -> [prefix |-> Root, last |-> <<>>]
       [] i = 0 -> [prefix |-> <<>>, last |-> k]
       [] i = 1 /\ k # Root -> [prefix |-> Root, last |-> Tail(k)]
       [] OTHER -> [prefix |-> SubSeq(k, 1, i - 1), last |-> drop(k, i)]

\* The directory a read goes through: the prefix of sep_path with its '/'.
parent_dir(k) ==
  LET p == sep_path(k).prefix IN IF p = Root THEN p ELSE p \o Root

\* The directory that indexes k: "p/" or, for a member, "p/m" + OBJ_SEP.
index_dir(parent, last, dot) ==
  IF dot > 1 /\ dot < Len(last) THEN parent \o SubSeq(last, 1, dot) ELSE parent
split_index(k) ==
  LET last == sep_path(k).last IN index_dir(parent_dir(k), last, rfind(last, OBJ_SEP))

\* "[row,col]" slots with row > 0 and col # 0 are spelled by these letters.
OperandSlots == {"[1,1]", "[1,-1]"}
is_frame_operand_key(k) ==
  /\ starts_with(k, <<PATH_SEP, "vthread", PATH_SEP>>)
  /\ \E s \in OperandSlots : sep_path(k).last = <<s>>

\* Control keys another process rewrites: every read goes to the backend.
is_volatile(k) ==
  \/ /\ starts_with(k, <<PATH_SEP, "vthread", PATH_SEP>>)
     /\ Contains(k, RUNTIME_MEMBER_SEP)
  \/ /\ starts_with(k, <<PATH_SEP, "lib", PATH_SEP>>)
     /\ \/ IsSuffix(<<PATH_SEP, RUNTIME_MEMBER_SEP, "ctime">>, k)
        \/ contains(k, <<PATH_SEP, "vids", PATH_SEP>>)

\* Del of such a key hands a program over: the whole read cache is retired.
is_handoff(k) ==
  \/ starts_with(k, <<PATH_SEP, "lib", PATH_SEP>>) /\ contains(k, <<PATH_SEP, "vids", PATH_SEP>>)
  \/ starts_with(k, <<PATH_SEP, "vthread", PATH_SEP, RUNTIME_MEMBER_SEP, "vids", PATH_SEP>>)

\* For a key "/lib/<func>/..ctime" the function's directory, otherwise <<>>.
ctime_dir(k) ==
  LET suf == <<PATH_SEP, RUNTIME_MEMBER_SEP, "ctime">>
      dir == SubSeq(k, 1, Len(k) - Len(suf))
  IN IF /\ IsSuffix(suf, k)
        /\ starts_with(dir, <<PATH_SEP, "lib", PATH_SEP>>)
        /\ Len(dir) > 3
     THEN dir ELSE <<>>
=============================================================================
