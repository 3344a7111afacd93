----------------------------- MODULE BackendOps -----------------------------
(***************************************************************************)
(* The operations of Backend<S> (backend.rs) as operators on the contents  *)
(* of its KVStore: a function s from the keys that are present to the      *)
(* XValue stored under each.  A mutating operation returns the pair of its *)
(* Result and the contents it leaves, [ok, store].                         *)
(*                                                                         *)
(* An XValue is [kind, body].  kind stands for the head and the langtype   *)
(* trailer: "ptr" and "ext" are the `*` and `@` langtypes, whose body is a *)
(* key; "lib" is a directory marker, "char" the char family, "inline" any  *)
(* other value.  A buffer that headlenpow::from_wire refuses has a kind    *)
(* outside Kinds.  Absent is the empty byte vector.                        *)
(***************************************************************************)
EXTENDS KVPath

CONSTANTS HopLimit,        \* link hops of resolve_path; 16 in the code
          STATUS_MAX_LEN   \* effective length allowed in a ..status slot; 16 bytes

ASSUME HopLimitAssumption == HopLimit \in Nat
ASSUME StatusAssumption == STATUS_MAX_LEN \in Nat

Kinds == {"inline", "char", "lib", "ptr", "ext"}
Absent == [kind |-> "none", body |-> <<>>]
DirMarker == [kind |-> "lib", body |-> <<>>]
Ptr(target) == [kind |-> "ptr", body |-> target]
ExtLocator(target) == [kind |-> "ext", body |-> target]

\* KVStore primitives: get, set, del, scan_keys.
Lookup(s, k) == IF k \in DOMAIN s THEN s[k] ELSE Absent
Put(s, k, v) == [x \in DOMAIN s \cup {k} |-> IF x = k THEN v ELSE s[x]]
Drop(s, ks) == [x \in DOMAIN s \ ks |-> s[x]]
scan_keys(s, p) == {k \in DOMAIN s : is_subtree_key(p, k)}

Ok(s) == [ok |-> TRUE, store |-> s]
Err(s) == [ok |-> FALSE, store |-> s]

-----------------------------------------------------------------------------
\* Links.

is_ptr(s, k) == Lookup(s, k).kind = "ptr"

\* Length of the shortest '/'-prefix of path that is a link, 0 if none is.
first_link(s, path) ==
  LET links == {i \in 2 .. Len(path) :
                  /\ i = Len(path) \/ path[i + 1] = PATH_SEP
                  /\ is_ptr(s, SubSeq(path, 1, i))}
  IN IF links = {} THEN 0 ELSE Min(links)

\* A directory stays one.
keep_suf(path, next) ==
  IF is_dir(path) /\ ~ is_dir(next) THEN Append(next, Last(path)) ELSE next

retarget(path, clean, i, target) ==
  keep_suf(path, IF i < Len(clean) THEN join_path(target, drop(clean, i + 1)) ELSE target)

\* Replace the first link among the '/'-prefixes of path, root to leaf.
resolve_one(s, path) ==
  LET clean == IF path = Root THEN path ELSE strip_dir_suf(path)
      i == first_link(s, clean)
  IN IF i = 0 THEN path ELSE retarget(path, clean, i, s[SubSeq(clean, 1, i)].body)

\* After HopLimit hops the path is returned as it is, resolved or not.
resolve_path(s, path) ==
  LET hop[n \in 0 .. HopLimit] == IF n = 0 THEN path ELSE resolve_one(s, hop[n - 1])
  IN hop[HopLimit]

\* Defect: a write follows one link of a chain only.
resolve_parent_OneHop(s, path) ==
  LET suf == IF path # Root /\ is_dir(path) THEN <<Last(path)>> ELSE <<>>
      clean == IF path = Root THEN path ELSE strip_dir_suf(path)
      cut == sep_path(clean)
  IN IF cut.prefix = clean THEN path
     ELSE join_path(resolve_one(s, cut.prefix), cut.last) \o suf

\* Links on the way to a key, never the key itself.
resolve_parent(s, path) ==
  LET suf == IF path # Root /\ is_dir(path) THEN <<Last(path)>> ELSE <<>>
      clean == IF path = Root THEN path ELSE strip_dir_suf(path)
      cut == sep_path(clean)
  IN IF cut.prefix = clean THEN path
     ELSE join_path(resolve_path(s, cut.prefix), cut.last) \o suf

\* The locator of the read-only extension mounted at directory p, or <<>>.
prefix_ext(s, p) == IF Lookup(s, p).kind = "ext" THEN s[p].body ELSE <<>>

-----------------------------------------------------------------------------
\* Reads.

\* Checked at the C ABI before a directory is listed.
validate_dir(path) == path = Root \/ is_dir(path)

\* Where a read of k finds its bytes, dir being its directory after resolution:
\* the key itself, else the directory's extension; <<>> when neither has it or
\* the key is reserved.
locate_in(s, k, dir) ==
  LET last == sep_path(k).last
      full == join_path(dir, last)
      ext == prefix_ext(s, dir)
  IN CASE is_reserved(k) \/ is_reserved(full) -> <<>>
       [] ~ (is_reserved(k) \/ is_reserved(full)) /\ full \in DOMAIN s -> full
       [] OTHER -> IF ext # <<>> /\ join_path(ext, last) \in DOMAIN s
                   THEN join_path(ext, last) ELSE <<>>
locate(s, k) == locate_in(s, k, resolve_path(s, parent_dir(k)))

get_raw(s, k) == Lookup(s, locate(s, k))

\* Defect: the extension is not asked.
get_one_NoExt(s, k) ==
  LET full == join_path(resolve_path(s, parent_dir(k)), sep_path(k).last)
  IN IF is_reserved(full) THEN Absent ELSE Lookup(s, full)

\* The read of Watch, through the batch read `get`: no extension for a directory.
get_in(s, k, dir) ==
  LET last == sep_path(k).last
      full == join_path(dir, last)
      ext == prefix_ext(s, dir)
  IN CASE is_reserved(full) -> Absent
       [] ~ is_reserved(full) /\ (full \in DOMAIN s \/ is_dir(full)) -> Lookup(s, full)
       [] OTHER -> IF ext # <<>> THEN Lookup(s, join_path(ext, last)) ELSE Absent
get_one(s, k) == get_in(s, k, resolve_path(s, parent_dir(k)))

\* The names directly below dir, without runtime variables and the meta root.
read_dir_index(s, dir) ==
  LET rest(k) == drop(k, Len(dir))
      cuts(k) == {i \in DOMAIN rest(k) : rest(k)[i] \in {PATH_SEP, OBJ_SEP}}
      name(k) == SubSeq(rest(k), 1, Min(cuts(k) \cup {Len(rest(k)) + 1}) - 1)
      names == {name(k) : k \in {x \in scan_keys(s, subtree_base(dir)) : starts_with(x, dir)}}
      shown == {n \in names : /\ n # <<>>
                              /\ ~ (dir = Root /\ n = Tail(MetaRoot))
                              /\ ~ Contains(n, RUNTIME_MEMBER_SEP)}
  IN {IF dir \o n \o Root \in DOMAIN s THEN n \o Root ELSE n : n \in shown}

\* Defect: the extension is forgotten.
list_in_NoExt(s, prefix, expand_ext, dir) ==
  IF is_reserved(prefix) \/ ~ is_dir(dir) \/ is_reserved(dir) THEN {}
  ELSE read_dir_index(s, dir)

list_in(s, prefix, expand_ext, dir) ==
  LET ext == prefix_ext(s, dir)
  IN IF is_reserved(prefix) \/ ~ is_dir(dir) \/ is_reserved(dir) THEN {}
     ELSE read_dir_index(s, dir) \cup
          (IF expand_ext /\ ext # <<>> THEN read_dir_index(s, ext) ELSE {})
list(s, prefix, expand_ext, resolve) ==
  list_in(s, prefix, expand_ext, IF resolve THEN resolve_path(s, prefix) ELSE prefix)

-----------------------------------------------------------------------------
\* Writes of one value.

is_status_key(k) == sep_path(k).last = <<RUNTIME_MEMBER_SEP, "status">>
validate_status_wire(k, v) ==
  is_status_key(k) => v.kind = "char" /\ Len(v.body) <= STATUS_MAX_LEN

\* k is not present itself and the extension of its directory dir has it.
only_in_ext(s, k, dir) ==
  LET ext == prefix_ext(s, dir)
  IN ext # <<>> /\ k \notin DOMAIN s /\ ext \o drop(k, Len(dir)) \in DOMAIN s
ext_only(s, k) == only_in_ext(s, k, split_index(k))

\* A member outside /lib is refused until its container exists.
memhead_missing(s, k) ==
  LET dir == split_index(k)
      base == strip_dir_suf(dir)
  IN /\ ends_with(dir, OBJ_SEP)
     /\ ~ starts_with(base, <<PATH_SEP, "lib">>)
     /\ base \notin DOMAIN s

\* Defects: the wire is not validated; a reserved key is refused only before the
\* links on the way are resolved.
settable_AnyWire(s, k, v) ==
  /\ ~ contains(k, <<PATH_SEP, PATH_SEP>>) /\ ~ is_reserved(k)
  /\ validate_status_wire(k, v)
  /\ ~ memhead_missing(s, k)
  /\ ~ ext_only(s, k)
settable_GuardedOnce(s, k, v) ==
  /\ ~ contains(k, <<PATH_SEP, PATH_SEP>>)
  /\ v.kind \in Kinds
  /\ validate_status_wire(k, v)
  /\ ~ memhead_missing(s, k)
  /\ ~ ext_only(s, k)

\* set's checks of the resolved key.
settable(s, k, v) ==
  /\ ~ contains(k, <<PATH_SEP, PATH_SEP>>) /\ ~ is_reserved(k)
  /\ v.kind \in Kinds
  /\ validate_status_wire(k, v)
  /\ ~ memhead_missing(s, k)
  /\ ext_only(s, k) => v.kind = "ptr" /\ is_frame_operand_key(k)

set(s, key, v) ==
  LET k == resolve_parent(s, key)
  IN IF ~ is_reserved(key) /\ settable(s, k, v) THEN Ok(Put(s, k, v)) ELSE Err(s)

\* Overwrite body[off + 1 .. off + Len(buf)] of the value a read of key finds.
overwrite(s, k, off, buf) ==
  LET old == s[k].body
  IN IF k = <<>> THEN Err(s)
     ELSE IF off + Len(buf) > Len(old) THEN Err(s)
     ELSE Ok([s EXCEPT ![k].body = [i \in DOMAIN old |->
                IF i \in off + 1 .. off + Len(buf) THEN buf[i - off] ELSE old[i]]])
set_part(s, key, off, buf) == overwrite(s, locate(s, key), off, buf)

cp(s, src, dst) ==
  IF is_reserved(src) \/ is_reserved(dst) \/ get_raw(s, src) = Absent
  THEN Err(s)
  ELSE set(s, dst, get_raw(s, src))

-----------------------------------------------------------------------------
\* Deletes.

del_at(s, key, k) ==
  IF is_reserved(key) \/ is_reserved(k) \/ ext_only(s, k)
  THEN Err(s)
  ELSE Ok(Drop(s, {k, strip_dir_suf(k)}))
del_one(s, key) == del_at(s, key, resolve_parent(s, key))

\* Key after key; the first failure stops, what was deleted stays deleted.
del(s, keys) ==
  LET after[i \in 0 .. Len(keys)] == IF i = 0 THEN s ELSE del_one(after[i - 1], keys[i]).store
      failing == {i \in 1 .. Len(keys) : ~ del_one(after[i - 1], keys[i]).ok}
  IN IF failing = {} THEN Ok(after[Len(keys)]) ELSE Err(after[Min(failing) - 1])

\* Defect: a link is followed and its target deleted.
del_tree_Follows(s, prefix) ==
  LET k == resolve_path(s, prefix)
      base == subtree_base(k)
  IN IF is_reserved(prefix) \/ is_reserved(k) THEN Err(s)
     ELSE Ok(Drop(s, {x \in scan_keys(s, base) : ~ is_reserved(x)}))

del_tree(s, prefix) ==
  LET k == resolve_parent(s, prefix)
      base == subtree_base(k)
  IN IF is_reserved(prefix) \/ is_reserved(k) THEN Err(s)
     ELSE IF base # <<>> /\ is_ptr(s, base) THEN del_one(s, k)
     ELSE Ok(Drop(s, {x \in scan_keys(s, base) : ~ is_reserved(x)}))

clear(s) == Ok([k \in {} |-> Absent])

-----------------------------------------------------------------------------
\* Copies of subtrees.  The source keys are scanned first and copied one by
\* one, in the order the store scanned them (order), after the destination
\* subtree has been deleted.

tree_base(s, path) ==
  LET k == resolve_path(s, path) IN IF k = Root THEN k ELSE strip_dir_suf(k)

copy_keys(s, src) == {k \in scan_keys(s, tree_base(s, src)) : ~ is_reserved(k)}

\* Defect: members of members count as direct members.
one_level_Deep(suffix) == suffix = <<>> \/ suffix[1] = OBJ_SEP

one_level(suffix) ==
  \/ suffix = <<>>
  \/ /\ suffix[1] = OBJ_SEP
     /\ LET member == IF ends_with(suffix, PATH_SEP) THEN Tail(Front(suffix)) ELSE Tail(suffix)
        IN member # <<>> /\ ~ Contains(member, OBJ_SEP) /\ ~ Contains(member, PATH_SEP)

\* One turn of the copy loop; unless deep, only what is one level down is copied.
copy_one(s, k, from, to, deep) ==
  IF k \in DOMAIN s /\ (deep \/ one_level(drop(k, Len(from))))
  THEN Put(s, to \o drop(k, Len(from)), s[k]) ELSE s

copy_each(s, order, from, to, deep) ==
  LET after[i \in 0 .. Len(order)] ==
        IF i = 0 THEN s ELSE copy_one(after[i - 1], order[i], from, to, deep)
  IN after[Len(order)]

\* Defect: the copy merges into what the destination had.
copy_tree_Merges(s, from, to, order) ==
  IF from = to THEN Ok(s)
  ELSE IF is_descendant(from, to) \/ order = <<>> THEN Err(s)
  ELSE Ok(copy_each(s, order, from, to, TRUE))

copy_tree(s, from, to, order) ==
  IF from = to THEN Ok(s)
  ELSE IF is_descendant(from, to) \/ order = <<>> THEN Err(s)
  ELSE Ok(copy_each(del_tree(s, to).store, order, from, to, TRUE))

cp_tree(s, src, dst, order) ==
  IF \E k \in {src, dst, resolve_path(s, src), resolve_path(s, dst)} : is_reserved(k)
  THEN Err(s)
  ELSE copy_tree(s, tree_base(s, src), tree_base(s, dst), order)

copy_list(s, from, to, order) ==
  IF from = to THEN Ok(s)
  ELSE IF order = <<>> THEN Err(s)
  ELSE Ok(copy_each(del_tree(s, to).store, order, from, to, FALSE))

cp_list(s, src, dst, order) ==
  IF \E k \in {src, dst, tree_base(s, src), resolve_path(s, dst)} : is_reserved(k)
  THEN Err(s)
  ELSE copy_list(s, tree_base(s, src), tree_base(s, dst), order)

-----------------------------------------------------------------------------
\* Directory markers and read-only extensions.

mkindex(s, path) ==
  LET k == resolve_path(s, path)
  IN IF ~ is_dir(path) THEN Err(s)
     ELSE IF k \in DOMAIN s THEN Ok(s) ELSE Ok(Put(s, k, DirMarker))

ext_index(s, path, ext_path) ==
  IF \/ ~ is_dir(path) \/ ~ is_dir(ext_path)
     \/ prefix_ext(s, ext_path) # <<>>
     \/ ext_path \notin DOMAIN s
  THEN Err(s)
  ELSE Ok(Put(s, resolve_parent(s, path), ExtLocator(ext_path)))

del_ext_index(s, path) ==
  LET k == resolve_parent(s, path)
      link == strip_dir_suf(k)
  IN Ok(Drop(s, IF is_ptr(s, link) THEN {link} ELSE {k}))
=============================================================================
