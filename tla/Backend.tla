------------------------------ MODULE Backend ------------------------------
(***************************************************************************)
(* The key-value tree one Backend<S> serves (backend.rs): every mutating   *)
(* operation of the KVSpace trait applied, in any order, to one store.     *)
(* Each call runs to completion, as it does on a handle, which takes       *)
(* &mut self; what reaches the store from several handles at once is the   *)
(* subject of other modules.                                               *)
(***************************************************************************)
EXTENDS BackendOps

CONSTANTS Letters,     \* what keys and bodies are made of
          Keys,        \* value keys the callers use
          Dirs,        \* directory keys they use (ending in a separator)
          DelLists,    \* key lists of Del calls, at least the singletons of Paths
          Trees,       \* the paths of these that subtree copies are called with
          Values,      \* XValues they write, malformed ones included
          Parts,       \* byte runs they write with SetPart
          MaxKeyLen,   \* bound: no key longer than this is created
          MaxKeys      \* bound: no more keys than this are stored at once

VARIABLE store

Paths == Keys \cup Dirs

\* What callers mean by a key: an absolute path in which every separator is
\* followed by a name or by a runtime variable, save a '/' or OBJ_SEP at the end.
Chain(w) ==
  /\ w \in Seq(Letters)
  /\ \A i \in DOMAIN w : w[i] \in Separators =>
       IF i = Len(w) THEN w[i] # RUNTIME_MEMBER_SEP ELSE w[i + 1] \notin {PATH_SEP, OBJ_SEP}
Regular(k) == Chain(k) /\ k # <<>> /\ k[1] = PATH_SEP

\* XValues, and a buffer that from_wire refuses.
XValue == [kind : Kinds, body : Seq(Letters)]
Buffer == [kind : Kinds \cup {"malformed"}, body : Seq(Letters)]

\* The paths and the links that are written are keys in this sense; only a path
\* that ends in a separator names a directory.
ASSUME LettersAssumption == Separators \cup ToSet(MetaRoot) \subseteq Letters
ASSUME PathsAssumption ==
  /\ \A k \in Paths : Regular(k) /\ (k \in Keys <=> ~ is_dir(k))
  /\ Trees \subseteq Paths /\ DelLists \subseteq Seq(Paths)
ASSUME ValuesAssumption ==
  /\ \A v \in Values : v \in Buffer /\ (v.kind = "ptr" => Regular(v.body))
  /\ Parts \subseteq Seq(Letters)

\* Offsets of SetPart: from the first letter of a body to one past its end.
Offsets == 0 .. 1

Bounded(s) == Cardinality(DOMAIN s) <= MaxKeys /\ \A k \in DOMAIN s : Len(k) <= MaxKeyLen
Apply(r) == Bounded(r.store) /\ store' = r.store

\* The orders in which the store may scan the keys of a copy: any, when a key
\* that is written may also be one of those still to be copied.
ScanOrders(src, dst) ==
  IF is_subtree_key(tree_base(store, src), tree_base(store, dst))
  THEN SetToSeqs(copy_keys(store, src))
  ELSE {SetToSeq(copy_keys(store, src))}

Init == store = [k \in {} |-> Absent]

Set(k, v) == Apply(set(store, k, v))
\* The one caller of set_part (kvspaceSetPart) has followed leaf pointers, so
\* the value it overwrites is never a pointer.
SetPart(k, off, buf) ==
  /\ get_raw(store, k).kind # "ptr"
  /\ Apply(set_part(store, k, off, buf))
Cp(src, dst) == Apply(cp(store, src, dst))
Del(ks) == Apply(del(store, ks))
DelTree(p) == Apply(del_tree(store, p))
CpTree(src, dst) == \E order \in ScanOrders(src, dst) : Apply(cp_tree(store, src, dst, order))
CpList(src, dst) == \E order \in ScanOrders(src, dst) : Apply(cp_list(store, src, dst, order))
Mkindex(d) == Apply(mkindex(store, d))
ExtIndex(d, ext) == Apply(ext_index(store, d, ext))
DelExtIndex(d) == Apply(del_ext_index(store, d))
Clear == Apply(clear(store))

Next ==
  \/ \E k \in Paths, v \in Values : Set(k, v)
  \/ \E k \in Keys, off \in Offsets, buf \in Parts : SetPart(k, off, buf)
  \/ \E src, dst \in Keys : Cp(src, dst)
  \/ \E ks \in DelLists : Del(ks)
  \/ \E p \in Paths : DelTree(p)
  \/ \E src, dst \in Trees : CpTree(src, dst)
  \/ \E src, dst \in Trees : CpList(src, dst)
  \/ \E d \in Dirs : Mkindex(d)
  \/ \E d, ext \in Dirs : ExtIndex(d, ext)
  \/ \E d \in Dirs : DelExtIndex(d)
  \/ Clear

Spec == Init /\ [][Next]_store

-----------------------------------------------------------------------------
\* Type: XValues under keys, links leading to keys.  No operation stores a
\* buffer that from_wire refuses, and none puts a key together that is none.
TypeOK ==
  \A k \in DOMAIN store :
    Regular(k) /\ store[k] \in XValue /\ (store[k].kind = "ptr" => Regular(store[k].body))

-----------------------------------------------------------------------------
(***************************************************************************)
(* Safety.  Each property quantifies over the calls possible in the        *)
(* current state, so it says what the next call may never do.              *)
(***************************************************************************)

Changed(s, t) == {k \in DOMAIN s \cup DOMAIN t : Lookup(s, k) # Lookup(t, k)}
Subtree(s, base) == scan_keys(s, base)

\* What the calls naming path k may return: whole-key calls, part writes, and
\* the two subtree copies onto k.
SetOps(k) == {set(store, k, v) : v \in Values} \cup {cp(store, src, k) : src \in Keys}
WholeKeyOps(k) == SetOps(k) \cup {del(store, <<k>>), del_tree(store, k)}
PartOps(k) == {set_part(store, k, off, buf) : off \in Offsets, buf \in Parts}
CopyOrder(src) == SetToSeq(copy_keys(store, src))
CopyOps(k) ==
  IF k \in Trees
  THEN {cp_tree(store, src, k, CopyOrder(src)) : src \in Trees}
         \cup {cp_list(store, src, k, CopyOrder(src)) : src \in Trees}
  ELSE {}

\* The guards let one directory pass that is no reserved key although it is the
\* reserved root's own, "/.kvspace-meta" followed by OBJ_SEP.
MetaMembers == Append(MetaRoot, OBJ_SEP)
Leads(k) ==
  LET kk == resolve_parent(store, k) IN {kk, resolve_parent(store, kk), resolve_path(store, k)}

\* k is present in its own directory, so that no extension is asked.
Own(k) == join_path(resolve_path(store, parent_dir(k)), sep_path(k).last) \in DOMAIN store

\* set, cp, del, del_tree, cp_tree, cp_list and a part write of a key that is
\* present never create, change or remove a key of the reserved area
\* /.kvspace-meta, whatever links lead to it (the is_reserved guards, before and
\* after link resolution), unless the call leads to that one directory.
ReservedUntouched ==
  \A k \in Paths : MetaMembers \notin Leads(k) =>
    \A r \in WholeKeyOps(k) \cup CopyOps(k) \cup (IF Own(k) THEN PartOps(k) ELSE {}) :
      \A x \in Changed(store, r.store) : ~ is_reserved(x)

\* A value that set accepted is what get_raw returns for the same key: links
\* on the way are followed alike by resolve_parent (writes) and resolve_path
\* (reads), also through chains, unless the write replaced one of them.
WriteReadBack ==
  \A k \in Keys, v \in Values :
    LET r == set(store, k, v)
        same_way == resolve_path(r.store, parent_dir(k)) = resolve_path(store, parent_dir(k))
    IN r.ok /\ same_way => get_raw(r.store, k) = v

\* The whole key is never followed: set, cp, del and del_tree of a key that
\* holds a link touch the link itself and its directory form, never a key of
\* the target (kvspace.rs: POSIX rm, "delete the pointer, not the pointee").
\* del_tree resolves the way to the link once more when it deletes it, so this is
\* said of it only where that changes nothing: where no cycle of links is on it.
LinkTargetSafe ==
  \A k \in Paths :
    LET kk == resolve_parent(store, k)
        link == subtree_base(kk)
    IN is_ptr(store, link) =>
         \A r \in SetOps(k) \cup {del(store, <<k>>)}
                 \cup (IF resolve_parent(store, kk) = kk THEN {del_tree(store, k)} ELSE {}) :
           Changed(store, r.store) \subseteq {link, link \o Root, Append(link, OBJ_SEP)}

\* del_tree of a path that is no link removes the path, its '/' children, its
\* members and its runtime variables, and nothing of a sibling whose name
\* merely begins alike; nothing stays listed below it.
DelTreeExact ==
  \A p \in Paths :
    LET base == subtree_base(resolve_parent(store, p))
        r == del_tree(store, p)
        below == {x \in DOMAIN store : under_prefix(x, base) /\ ~ is_reserved(x)}
    IN r.ok /\ base # <<>> /\ ~ is_ptr(store, base) =>
         /\ Changed(store, r.store) = below
         /\ list(r.store, base \o Root, FALSE, FALSE) = {}
         /\ list(r.store, Append(base, OBJ_SEP), FALSE, FALSE) = {}

Disjoint(a, b) == ~ is_subtree_key(a, b) /\ ~ is_subtree_key(b, a)

\* The trees of a copy: from and to are separate, outside the reserved area,
\* and the links on the way to the destination have all been followed.
Apart(from, to) ==
  /\ Disjoint(from, to) /\ ~ is_reserved(from) /\ ~ is_reserved(to)
  /\ resolve_parent(store, to) = to /\ ~ is_ptr(store, to)

\* cp_tree between two separate trees leaves at the destination exactly the
\* source subtree (nothing of what was there before) and changes nothing else.
CpTreeExact ==
  \A src, dst \in Trees :
    LET from == tree_base(store, src)
        to == tree_base(store, dst)
        r == cp_tree(store, src, dst, CopyOrder(src))
    IN r.ok /\ Apart(from, to) =>
         /\ Changed(store, r.store) \subseteq Subtree(store, to) \cup Subtree(r.store, to)
         /\ Subtree(r.store, to) = {to \o drop(k, Len(from)) : k \in Subtree(store, from)}
         /\ \A k \in Subtree(store, from) : r.store[to \o drop(k, Len(from))] = store[k]

\* cp_list copies the value and its direct members only: the destination keeps
\* no member of its own, and no deeper key or '/' child is copied along.
CpListShallow ==
  \A src, dst \in Trees :
    LET from == tree_base(store, src)
        to == tree_base(store, dst)
        r == cp_list(store, src, dst, CopyOrder(src))
    IN r.ok /\ Apart(from, to) =>
         \A k \in Subtree(r.store, to) :
           LET suffix == drop(k, Len(to))
           IN /\ from \o suffix \in DOMAIN store /\ store[from \o suffix] = r.store[k]
              /\ Cardinality({i \in DOMAIN suffix : suffix[i] = OBJ_SEP}) <= 1
              /\ suffix # <<>> => suffix[1] = OBJ_SEP

\* List and Get agree: a value that can be read below a directory, directly or
\* through the directory its extension names, is listed there, unless it is a
\* runtime variable or hidden in the root with the reserved area.
ListComplete ==
  \A k \in Keys :
    LET dir == resolve_path(store, parent_dir(k))
        ext == prefix_ext(store, dir)
        last == sep_path(k).last
        dots == {i \in DOMAIN last : last[i] = OBJ_SEP}
        name == SubSeq(last, 1, Min(dots \cup {Len(last) + 1}) - 1)
    IN /\ get_raw(store, k) # Absent
       /\ ext = <<>> \/ is_dir(ext)
       /\ ~ Contains(name, RUNTIME_MEMBER_SEP)
       /\ ~ (name = Tail(MetaRoot) /\ Root \in {dir, ext})
       => {name, name \o Root} \cap list(store, parent_dir(k), TRUE, TRUE) # {}

\* Watch and Get see the same value of every key: the batch read (get, through
\* get_one) and get_raw resolve links, guard the reserved area and fall back to
\* the extension separately, and agree.  Only a container's member directory
\* (a key ending in OBJ_SEP) is sought in the extension by get_raw alone, and a
\* reserved key is refused by get_raw alone where a link leads out of the area.
ReadsAgree ==
  \A k \in Paths :
    ~ is_reserved(k) /\ ~ ends_with(k, OBJ_SEP) => get_one(store, k) = get_raw(store, k)

-----------------------------------------------------------------------------
(***************************************************************************)
(* What comments and documentation of the repository say and the code does *)
(* not keep; each is refuted by a run of its own.                          *)
(***************************************************************************)

\* kvspace.rs: cp_tree copies the whole subtree at src to dst, like cp -r.  A
\* source inside the destination is deleted before it is copied.
CpTreeCopies ==
  \A src, dst \in Trees :
    LET from == tree_base(store, src)
        to == tree_base(store, dst)
        r == cp_tree(store, src, dst, CopyOrder(src))
    IN r.ok => \A k \in Subtree(store, from) :
                 Lookup(r.store, to \o drop(k, Len(from))) = store[k]
=============================================================================
