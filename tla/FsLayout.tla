------------------------------ MODULE FsLayout ------------------------------
(***************************************************************************)
(* FsKVSpace (fs/kvspace.rs): the key-value tree kept as files, one        *)
(* process writing, any number reading, and a crash possible between any   *)
(* two system calls.                                                       *)
(*                                                                         *)
(* A path is a sequence of names, a name a word.  disk maps the paths that *)
(* exist, apart from the root, to DirNode or to the XValue in the file.    *)
(* view(disk) is the contents as keys and values, so that the tests and    *)
(* the link resolution, which the code repeats from backend.rs over        *)
(* read_leaf, are those of BackendOps.                                     *)
(*                                                                         *)
(* An operation computes the system calls it is going to make, its plan,   *)
(* from the disk it starts on; Step makes one of them.                     *)
(***************************************************************************)
EXTENDS BackendOps

CONSTANTS Letters,     \* what keys and bodies are made of
          FsKeys,      \* value keys
          FsDirs,      \* directory keys
          FsTrees,     \* the paths subtrees are copied from and to
          FsWrites,    \* pairs <<key, XValue>> written
          FsCopies,    \* pairs <<source, destination>> of Cp
          FsParts,     \* pairs <<key, bytes>> of SetPart
          MaxNodes     \* bound: files and directories on disk

VARIABLES disk,
          tree,   \* view(disk), the contents as keys and values
          plan,   \* system calls the running operation has left
          work    \* the running or the last operation, see Work

vars == <<disk, tree, plan, work>>

DirNode == [kind |-> "directory", body |-> <<>>]
Truncated == [kind |-> "truncated", body |-> <<>>]
SELF_MARKER == <<"__self__">>
DIR_MARKER == <<"__dir__">>
TMP == <<"~", "~tmp">>

\* Keys and bodies are words; any word may be used as a key.
Word == Seq(Letters)
ASSUME LettersAssumption ==
  Separators \cup ToSet(SELF_MARKER) \cup ToSet(DIR_MARKER) \cup ToSet(TMP) \subseteq Letters
ASSUME InputsAssumption ==
  /\ FsKeys \cup FsDirs \cup FsTrees \subseteq Word
  /\ \A w \in FsWrites : w[1] \in Word /\ w[2] \in [kind : Kinds, body : Word]
  /\ \A w \in FsCopies \cup FsParts : w[1] \in Word /\ w[2] \in Word

-----------------------------------------------------------------------------
\* Keys as paths.

\* Defect: names that collide with the markers are not escaped.
escape_Never(name) == name

\* fs_path writes a name that is a marker, or begins with '~', as '~' and hex.
escape(name) == IF name \in {SELF_MARKER, DIR_MARKER} \/ name[1] = "~" THEN <<"~">> \o name ELSE name
unescape_name(name) == IF name[1] = "~" /\ Len(name) > 1 THEN Tail(name) ELSE name

\* A name begins behind a '/', and behind a member separator that does not open one.
begins(key, i) ==
  i = 1 \/ key[i - 1] = PATH_SEP \/ (key[i - 1] = OBJ_SEP /\ i > 2 /\ key[i - 2] # PATH_SEP)

\* fs_path and node_path: letter after letter, without the '/' between names.
node_path(key) ==
  LET names[i \in 0 .. Len(key)] ==
        IF i = 0 THEN <<>>
        ELSE IF key[i] = PATH_SEP THEN names[i - 1]
        ELSE IF begins(key, i) THEN Append(names[i - 1], <<key[i]>>)
        ELSE [names[i - 1] EXCEPT ![Len(names[i - 1])] = Append(@, key[i])]
      all == names[Len(key)]
  IN [n \in DOMAIN all |-> escape(all[n])]

leaf_marker(key) == IF key # Root /\ ends_with(key, PATH_SEP) THEN DIR_MARKER ELSE SELF_MARKER

is_dir_node(d, p) == p = <<>> \/ (p \in DOMAIN d /\ d[p] = DirNode)
is_file(d, p) == p \in DOMAIN d /\ d[p] # DirNode
exists(d, p) == p = <<>> \/ p \in DOMAIN d
contents(d, p) == IF is_file(d, p) THEN d[p] ELSE Absent

\* The file that holds the value of key, <<>> when a directory key names a file.
leaf_path(d, key) ==
  IF is_dir_node(d, node_path(key)) THEN Append(node_path(key), leaf_marker(key))
  ELSE IF is_dir(key) THEN <<>> ELSE node_path(key)
read_leaf(d, key) ==
  IF contains(key, <<PATH_SEP, PATH_SEP>>) THEN Absent ELSE contents(d, leaf_path(d, key))

\* The key a path stands for, with the separator that follows it.
dir_key(path) ==
  FoldLeft(LAMBDA k, n : k \o unescape_name(n) \o (IF Len(n) > 1 /\ Last(n) = OBJ_SEP THEN <<>> ELSE Root),
           Root, path)
key_of(path) ==
  LET dir == dir_key(Front(path))
  IN CASE Last(path) = SELF_MARKER -> IF dir # Root /\ ends_with(dir, PATH_SEP) THEN Front(dir) ELSE dir
       [] Last(path) = DIR_MARKER -> IF ends_with(dir, OBJ_SEP) THEN dir \o Root ELSE dir
       [] OTHER -> dir \o unescape_name(Last(path))

view(d) ==
  LET keys == {key_of(p) : p \in {x \in DOMAIN d : is_file(d, x) /\ Last(x) # TMP}}
  IN [k \in keys |-> read_leaf(d, k)]

\* Defects: members, kept in a directory of their own, are not shown; temporary
\* files are.
dir_children_NoMembers(d, dir) ==
  LET here == {p \in DOMAIN d : p # <<>> /\ Front(p) = node_path(dir) /\ Last(p) \notin {TMP, SELF_MARKER, DIR_MARKER}}
      shown == {unescape_name(Last(p)) : p \in {x \in here : ~ Contains(Last(x), OBJ_SEP)}}
  IN {n \in shown : ~ Contains(n, RUNTIME_MEMBER_SEP) /\ ~ (dir = Root /\ n = Tail(MetaRoot))}
dir_children_ShowsTmp(d, dir) ==
  LET here == {p \in DOMAIN d : p # <<>> /\ Front(p) = node_path(dir) /\ Last(p) \notin {SELF_MARKER, DIR_MARKER}}
      shown == {unescape_name(Last(p)) : p \in here}
  IN {IF ends_with(n, OBJ_SEP) THEN Front(n) ELSE n :
        n \in {x \in shown : ~ Contains(x, RUNTIME_MEMBER_SEP) /\ ~ (dir = Root /\ x = Tail(MetaRoot))}}

\* The names List shows below dir, without the '/' that marks a directory.
dir_children(d, dir) ==
  LET here == {p \in DOMAIN d : p # <<>> /\ Front(p) = node_path(dir) /\ Last(p) \notin {TMP, SELF_MARKER, DIR_MARKER}}
      shown == {unescape_name(Last(p)) : p \in here}
  IN {IF ends_with(n, OBJ_SEP) THEN Front(n) ELSE n :
        n \in {x \in shown : ~ Contains(x, RUNTIME_MEMBER_SEP) /\ ~ (dir = Root /\ x = Tail(MetaRoot))}}

-----------------------------------------------------------------------------
\* System calls.

Do(call, at, val) == [call |-> call, at |-> at, val |-> val]
Below(d, p) == {x \in DOMAIN d : IsPrefix(p, x)}
AddDirs(d, ps) == [x \in DOMAIN d \cup ps |-> IF x \in ps THEN DirNode ELSE d[x]]

\* create_dir_all: nothing when a file is in the way; its error is ignored.
mkdirs(d, p) ==
  LET up == {SubSeq(p, 1, i) : i \in 1 .. Len(p)}
  IN IF \E x \in up : is_file(d, x) THEN d ELSE AddDirs(d, up)

\* The effect of one whole call.
After1(d, c) ==
  CASE c.call = "mkdir" -> mkdirs(d, c.at)
    [] c.call \in {"write", "byte"} /\ is_dir_node(d, Front(c.at)) /\ ~ is_dir_node(d, c.at) -> Put(d, c.at, c.val)
    [] c.call = "tmp" /\ is_dir_node(d, c.at) -> Put(d, Append(c.at, TMP), c.val)
    [] c.call = "rename" /\ is_file(d, Append(Front(c.at), TMP)) /\ ~ is_dir_node(d, c.at) ->
         Put(Drop(d, {Append(Front(c.at), TMP)}), c.at, c.val)
    [] c.call = "remove" -> Drop(d, Below(d, c.at))
    [] OTHER -> d   \* an error that the code ignores

After(d, calls) ==
  LET after[i \in 0 .. Len(calls)] == IF i = 0 THEN d ELSE After1(after[i - 1], calls[i])
  IN after[Len(calls)]

Changed(s, t) == {k \in DOMAIN s \cup DOMAIN t : Lookup(s, k) # Lookup(t, k)}

Fails == <<Do("fail", <<>>, Absent)>>

\* fs::write and fs::copy: the file is there, empty, before it has its contents.
write_file(p, v) == <<Do("write", p, Truncated), Do("write", p, v)>>

\* The body is written byte after byte into the existing file.
in_place(p, old, v) ==
  [i \in DOMAIN v.body |->
     Do("byte", p, [v EXCEPT !.body = SubSeq(v.body, 1, i) \o drop(old.body, i)])]

\* Defect: the new value is written over the old file.
write_atomic_Truncates(d, p, v) ==
  IF is_dir_node(d, Front(p)) THEN write_file(p, v) ELSE Fails

\* In place when size, head and attr are the same, else a temporary file.
write_atomic(d, p, v) ==
  IF is_file(d, p) /\ d[p].kind = v.kind /\ Len(d[p].body) = Len(v.body) THEN in_place(p, d[p], v)
  ELSE IF ~ is_dir_node(d, Front(p)) THEN Fails
  ELSE <<Do("tmp", Front(p), v), Do("rename", p, v)>>

\* Defect: a directory that is there is removed and made again.
ensure_dir_Sweeps(d, key) ==
  LET node == node_path(key)
  IN (IF exists(d, node) THEN <<Do("remove", node, Absent)>> ELSE <<>>) \o <<Do("mkdir", node, Absent)>>
     \o (IF is_file(d, node) THEN write_file(Append(node, SELF_MARKER), d[node]) ELSE <<>>)

\* A node that is a file becomes a directory with its value inside.
ensure_dir(d, key) ==
  LET node == node_path(key)
  IN IF is_file(d, node)
     THEN <<Do("remove", node, Absent), Do("mkdir", node, Absent)>> \o write_file(Append(node, SELF_MARKER), d[node])
     ELSE <<Do("mkdir", node, Absent)>>

\* Plans are put together from the disk the previous part leaves.
leaf_calls(d, key, v) ==
  LET p == node_path(key)
  IN IF is_dir_node(d, p) THEN write_atomic(d, Append(p, leaf_marker(key)), v)
     ELSE <<Do("mkdir", Front(p), Absent)>> \o write_atomic(mkdirs(d, Front(p)), p, v)
write_leaf_after(d, before, key, v) == before \o leaf_calls(After(d, before), key, v)
write_leaf(d, key, v) ==
  write_leaf_after(d, IF key # Root /\ ends_with(key, PATH_SEP) THEN ensure_dir(d, key) ELSE <<>>, key, v)

remove_leaf(d, key) ==
  IF is_file(d, leaf_path(d, key)) THEN <<Do("remove", leaf_path(d, key), Absent)>> ELSE <<>>

set_dirs(d, dirs, key) ==
  dirs \o (IF is_dir(key) THEN ensure_dir(After(d, dirs), key) ELSE <<>>)
set_calls_after(d, before, key, v) == before \o write_leaf(After(d, before), key, v)
set_calls(d, key, v) == set_calls_after(d, set_dirs(d, ensure_dir(d, split_index(key)), key), key, v)

-----------------------------------------------------------------------------
\* Subtrees: a node, the sibling directory of its members and the siblings
\* that are its runtime variables.

\* The entries of the root del_tree removes, and the runtime variables of base.
top_nodes(d) == {p \in DOMAIN d : Len(p) = 1 /\ p[1] # Tail(MetaRoot)}
runtime_nodes(d, base) ==
  LET node == node_path(base)
  IN {p \in DOMAIN d : /\ Len(p) = Len(node) /\ Front(p) = Front(node) /\ Last(p) # TMP
                       /\ IsPrefix(Append(unescape_name(Last(node)), RUNTIME_MEMBER_SEP), unescape_name(Last(p)))}

\* Entries in the order of read_dir, which is any.
removals(ps) == LET order == SetToSeq(ps) IN [i \in DOMAIN order |-> Do("remove", order[i], Absent)]

del_calls(d, s, key) ==
  LET k == resolve_parent(s, key) IN IF is_reserved(key) \/ is_reserved(k) THEN <<>> ELSE remove_leaf(d, k)

\* A link goes by itself; otherwise the members, the runtime variables and, last, the node.
subtree_calls(d, s, base) ==
  IF base = <<>> THEN removals(top_nodes(d))
  ELSE IF read_leaf(d, base).kind = "ptr" THEN del_calls(d, s, base)
  ELSE removals(DOMAIN d \cap {node_path(Append(base, OBJ_SEP))}) \o removals(runtime_nodes(d, base))
         \o removals(DOMAIN d \cap {node_path(base)})
del_tree_calls(d, s, prefix) ==
  LET k == resolve_parent(s, prefix)
  IN IF is_reserved(prefix) \/ is_reserved(k) THEN <<>> ELSE subtree_calls(d, s, subtree_base(k))

\* copy_recursive of the node at src to dst, in the order of read_dir, a
\* directory before what is in it.
copy_recursive(d, src, dst) ==
  LET mine == {p \in Below(d, src) : TMP \notin {p[i] : i \in DOMAIN p}}
      order == SetToSeq(mine)
      to(p) == dst \o drop(p, Len(src))
  IN IF mine # {} /\ \E i \in 1 .. Len(dst) - 1 : is_file(d, SubSeq(dst, 1, i)) THEN Fails
     ELSE FlattenSeq([i \in DOMAIN order |->
            IF d[order[i]] = DirNode THEN IF is_file(d, to(order[i])) THEN Fails ELSE <<Do("mkdir", to(order[i]), Absent)>>
            ELSE IF is_dir_node(d, to(order[i])) THEN Fails
            ELSE <<Do("mkdir", Front(to(order[i])), Absent)>> \o write_file(to(order[i]), d[order[i]])])

\* The parent of the destination, as a directory key.
parent_name(base) == LET p == sep_path(base).prefix IN IF p = Root THEN p ELSE p \o Root

cp_tree_copies(d, from, to) ==
  copy_recursive(d, node_path(from), node_path(to))
    \o copy_recursive(d, node_path(Append(from, OBJ_SEP)), node_path(Append(to, OBJ_SEP)))
cp_tree_after(d, removed, from, to) == removed \o cp_tree_copies(After(d, removed), from, to)
with_parent(d, calls, to) == calls \o ensure_dir(After(d, calls), parent_name(to))
cp_tree_calls(d, s, from, to) ==
  with_parent(d, cp_tree_after(d, del_tree_calls(d, s, to), from, to), to)

\* cp_list: the value, and of the member directory the files and the values of
\* its directories.
cp_list_value(d, calls, from, to) ==
  calls \o (IF read_leaf(d, from) = Absent THEN <<>> ELSE write_leaf(d, to, read_leaf(d, from)))
cp_list_members(d, calls, from, to) ==
  LET smem == node_path(Append(from, OBJ_SEP))
      dmem == node_path(Append(to, OBJ_SEP))
      direct == {p \in Below(d, smem) : /\ is_file(d, p) /\ Last(p) # TMP
                                        /\ \/ Len(p) = Len(smem) + 1
                                           \/ Len(p) = Len(smem) + 2 /\ Last(p) \in {SELF_MARKER, DIR_MARKER}}
      order == SetToSeq(direct)
      target(p) == dmem \o drop(p, Len(smem))
  IN calls \o (IF is_dir_node(d, smem) THEN <<Do("mkdir", dmem, Absent)>> ELSE <<>>)
           \o FlattenSeq([i \in DOMAIN order |->
                <<Do("mkdir", Front(target(order[i])), Absent)>> \o write_file(target(order[i]), d[order[i]])])
cp_list_after(d, removed, from, to) ==
  LET first == cp_list_value(After(d, removed), removed, from, to)
  IN cp_list_members(After(d, first), first, from, to)
cp_list_calls(d, s, from, to) ==
  with_parent(d, cp_list_after(d, del_tree_calls(d, s, to), from, to), to)

found(d, base) == exists(d, node_path(base)) \/ exists(d, node_path(Append(base, OBJ_SEP)))

-----------------------------------------------------------------------------
\* The running operation: the key or subtree it is about, the values of nodes
\* it turns into directories, the value it writes, the contents before it, those
\* backend.rs would leave, and the keys where this code is known not to leave
\* them.  After a failure or a crash, what there is.
Quiet(goal) ==
  [busy |-> FALSE, root |-> <<>>, deep |-> FALSE, moved |-> {}, new |-> Absent,
   before |-> Drop(goal, DOMAIN goal), goal |-> goal, loose |-> {}]

Init ==
  /\ disk = [p \in {} |-> DirNode] /\ tree = view(disk) /\ plan = <<>>
  /\ work = Quiet(tree)

Moved(d, dirs) == {strip_dir_suf(x) : x \in {y \in dirs : is_file(d, node_path(y))}}

Start(calls, w) ==
  /\ calls # <<>>
  /\ Cardinality(DOMAIN After(disk, calls)) <= MaxNodes
  /\ plan' = calls
  /\ work' = [w EXCEPT !.busy = TRUE, !.before = tree]
  /\ UNCHANGED <<disk, tree>>

About(key, dirs, new, goal, loose) ==
  [Quiet(goal) EXCEPT !.root = key, !.moved = Moved(disk, dirs), !.new = new, !.loose = loose]
AboutTree(base, goal, loose) == [Quiet(goal) EXCEPT !.root = base, !.deep = TRUE, !.loose = loose]

SetTo(s, k, v) ==
  /\ settable(s, k, v)
  /\ Start(set_calls(disk, k, v),
           About(k, IF is_dir(k) THEN {split_index(k), k} ELSE {split_index(k)}, v, Put(s, k, v), {}))
FsSet(key, v) == ~ is_reserved(key) /\ SetTo(tree, resolve_parent(tree, key), v)

FsCp(src, dst) ==
  /\ ~ is_reserved(src) /\ ~ is_reserved(dst) /\ get_raw(tree, src) # Absent
  /\ SetTo(tree, resolve_parent(tree, dst), get_raw(tree, src))

\* The bound is checked on the whole file; then write_at writes the first n bytes,
\* all or fewer, in place, and how many is not looked at.
SetPartOf(k, whole, r, loose) ==
  /\ whole.ok
  /\ Start(in_place(leaf_path(disk, k), read_leaf(disk, k), r.store[k]), About(k, {}, r.store[k], whole.store, loose))
FsSetPart(key, off, buf) ==
  \E n \in 1 .. Len(buf) :
    SetPartOf(locate(tree, key), set_part(tree, key, off, buf), set_part(tree, key, off, SubSeq(buf, 1, n)),
              IF n < Len(buf) THEN {locate(tree, key)} ELSE {})

\* No test of the extension, and a directory key alone, not with its base.
DelOf(s, key, k) ==
  Start(del_calls(disk, s, key), About(k, {}, Absent, del_one(s, key).store, {strip_dir_suf(k)} \ {k}))
FsDel(key) == DelOf(tree, key, resolve_parent(tree, key))

\* The directory key, also where backend.rs takes a link of that name instead.
DelExtIndexOf(s, k, goal) ==
  Start(remove_leaf(disk, k),
        About(k, {}, Absent, goal, IF is_ptr(s, strip_dir_suf(k)) THEN {k, strip_dir_suf(k)} ELSE {}))
FsDelExtIndex(dir) == DelExtIndexOf(tree, resolve_parent(tree, dir), del_ext_index(tree, dir).store)

\* A link given as a directory: backend.rs deletes the directory key too.
DelTreeOf(s, prefix, k) ==
  Start(del_tree_calls(disk, s, prefix),
        AboutTree(subtree_base(k), del_tree(s, prefix).store,
                  IF is_ptr(s, subtree_base(k)) THEN {k} \ {subtree_base(k)} ELSE {}))
FsDelTree(prefix) == DelTreeOf(tree, prefix, resolve_parent(tree, prefix))

\* Copies leave the runtime variables of the copied node itself behind, and of a
\* directory without any key, which backend.rs refuses, they make an empty copy.
LeftBehind(s, from, to) ==
  {to \o drop(k, Len(from)) : k \in {x \in scan_keys(s, from) : At(x, from, {RUNTIME_MEMBER_SEP})}}
Emptied(s, src, to) == IF copy_keys(s, src) = {} THEN scan_keys(s, to) ELSE {}
Unreserved(s, src, dst) == \A k \in {src, dst, resolve_path(s, src), resolve_path(s, dst)} : ~ is_reserved(k)

CpTreeOf(s, from, to, goal, loose) ==
  /\ from # to /\ ~ is_descendant(from, to) /\ found(disk, from)
  /\ Start(cp_tree_calls(disk, s, from, to), AboutTree(to, goal, loose))
FsCpTree(src, dst) ==
  LET from == tree_base(tree, src)
      to == tree_base(tree, dst)
  IN /\ Unreserved(tree, src, dst)
     /\ CpTreeOf(tree, from, to, cp_tree(tree, src, dst, SetToSeq(copy_keys(tree, src))).store,
                 LeftBehind(tree, from, to) \cup Emptied(tree, src, to))

CpListOf(s, from, to, goal, loose) ==
  /\ from # to /\ found(disk, from)
  /\ Start(cp_list_calls(disk, s, from, to), AboutTree(to, goal, loose))
FsCpList(src, dst) ==
  LET from == tree_base(tree, src)
      to == tree_base(tree, dst)
  IN /\ Unreserved(tree, src, dst)
     /\ CpListOf(tree, from, to, cp_list(tree, src, dst, SetToSeq(copy_keys(tree, src))).store, Emptied(tree, src, to))

marker_calls(d, dirs, k) ==
  dirs \o (IF read_leaf(After(d, dirs), k) = Absent THEN write_leaf(After(d, dirs), k, DirMarker) ELSE <<>>)
MkindexOf(goal, k) ==
  Start(marker_calls(disk, ensure_dir(disk, k), k), About(k, {k}, Lookup(goal, k), goal, {}))
FsMkindex(dir) == is_dir(dir) /\ MkindexOf(mkindex(tree, dir).store, resolve_path(tree, dir))

locator_calls(d, dirs, k, v) == dirs \o write_leaf(After(d, dirs), k, v)
ExtIndexOf(r, k, ext) ==
  /\ r.ok
  /\ Start(locator_calls(disk, ensure_dir(disk, k), k, ExtLocator(ext)), About(k, {k}, ExtLocator(ext), r.store, {}))
FsExtIndex(dir, ext) == ExtIndexOf(ext_index(tree, dir, ext), resolve_parent(tree, dir), ext)

\* remove_dir_all of the root, which is made again.
FsClear == Start(removals({p \in DOMAIN disk : Len(p) = 1}), AboutTree(<<>>, Drop(tree, DOMAIN tree), {}))

\* Defect: the node is unlinked and what is in it is left.
RemoveStep_Unlinks(at) ==
  /\ at \in DOMAIN disk
  /\ disk' = Drop(disk, {at}) /\ tree' = view(disk') /\ plan' = Tail(plan)

\* A directory goes entry by entry, in any order, itself last.
RemoveStep(at) ==
  \E x \in Below(disk, at) :
    /\ Below(disk, x) = {x}
    /\ disk' = Drop(disk, {x}) /\ tree' = view(disk')
    /\ plan' = IF x = at THEN Tail(plan) ELSE plan

Ending == work' = IF plan' = <<>> THEN Quiet(work.goal) ELSE work

Step ==
  /\ plan # <<>>
  /\ \/ Head(plan).call = "remove" /\ RemoveStep(Head(plan).at) /\ Ending
     \/ Head(plan).call = "fail" /\ plan' = <<>> /\ work' = Quiet(tree) /\ UNCHANGED <<disk, tree>>
     \/ /\ Head(plan).call \notin {"remove", "fail"}
        /\ disk' = After1(disk, Head(plan)) /\ tree' = view(disk') /\ plan' = Tail(plan) /\ Ending

\* The process dies; another one goes on with what is on disk.
Crash ==
  /\ plan # <<>>
  /\ plan' = <<>> /\ work' = Quiet(tree)
  /\ UNCHANGED <<disk, tree>>

Operation ==
  \/ \E w \in FsWrites : FsSet(w[1], w[2])
  \/ \E w \in FsParts, off \in 0 .. 1 : FsSetPart(w[1], off, w[2])
  \/ \E w \in FsCopies : FsCp(w[1], w[2])
  \/ \E k \in FsKeys \cup FsDirs : FsDel(k) \/ FsDelTree(k)
  \/ \E src, dst \in FsTrees : FsCpTree(src, dst) \/ FsCpList(src, dst)
  \/ \E dir \in FsDirs : FsMkindex(dir) \/ FsDelExtIndex(dir)
  \/ \E dir, ext \in FsDirs : FsExtIndex(dir, ext)
  \/ FsClear

Next ==
  \/ plan = <<>> /\ Operation
  \/ Step \/ Crash

Spec == Init /\ [][Next]_vars

-----------------------------------------------------------------------------
\* Type: every node lies in a directory, and markers and temporary files are files.
TypeOK ==
  /\ \A p \in DOMAIN disk : is_dir_node(disk, Front(p))
  /\ \A p \in DOMAIN disk : Last(p) \in {SELF_MARKER, DIR_MARKER, TMP} => disk[p] # DirNode

\* The running operation has made its last call.
Ended == work.busy /\ work' = Quiet(work.goal)

\* An operation that runs to its end leaves the contents that the same call of
\* backend.rs would leave (keys as nested files, a value moved into __self__ when
\* its node becomes a directory, markers never taken for keys), apart from the
\* keys named in loose: what a short write_at has not written, runtime variables
\* of a copied node, the destination of a copy that backend.rs refuses for want
\* of a key, and of a deleted directory or link the key beside it.
SameContents == [][Ended => Changed(tree', work.goal) \subseteq work.loose]_vars

\* While an operation runs, and so after a crash at any point of it, every key
\* outside the one it is about keeps its value; only the value of a node that
\* ensure_dir is turning into a directory may be missing or truncated.
OthersKeep ==
  LET mine(k) == IF work.deep THEN is_subtree_key(work.root, k) ELSE k = work.root
  IN work.busy =>
       \A k \in Changed(work.before, tree) :
         \/ mine(k)
         \/ k \in work.moved /\ Lookup(tree, k) \in {Absent, Truncated}

\* write_atomic "replaces a full value without exposing a missing or truncated
\* file": while set, cp or set_part replaces a value every reader finds a whole
\* one, each byte of it the old or the new one.
NeverTorn ==
  LET old == Lookup(work.before, work.root)
      now == read_leaf(disk, work.root)
  IN work.busy /\ ~ work.deep /\ old # Absent /\ work.new # Absent /\ work.root \notin work.moved =>
       \/ now \in {old, work.new}
       \/ /\ now.kind = old.kind /\ Len(now.body) = Len(old.body)
          /\ \A i \in DOMAIN now.body : now.body[i] \in {old.body[i], work.new.body[i]}

\* The directories that can be listed, and the names of keys below one by
\* read_dir_index of backend.rs.
Listable == {dir \in {Root} \cup FsDirs \cup UNION {{parent_dir(k), split_index(k)} : k \in DOMAIN tree} : ~ is_reserved(dir)}
KeyNames(dir) == {strip_dir_suf(n) : n \in read_dir_index(tree, dir)}

\* List shows every name backend.rs would show: of values, of the containers and
\* directories they are in and, in the member directory, of members; also between
\* two system calls and after crashes.
ListShows == \A dir \in Listable : KeyNames(dir) \subseteq dir_children(disk, dir)

\* List shows nothing else but directories that hold no value any more: no
\* temporary file that a crash has left, and no marker, unless a key has its name.
ListsOnlyKeys ==
  LET bare(n) == IF ends_with(n, OBJ_SEP) THEN Front(n) ELSE n
  IN \A dir \in Listable :
       dir_children(disk, dir) \subseteq
         KeyNames(dir) \cup {bare(unescape_name(Last(p))) :
                               p \in {x \in DOMAIN disk : disk[x] = DirNode /\ Front(x) = node_path(dir)}}

-----------------------------------------------------------------------------
\* Refuted.

\* cp_tree copies "the whole subtree rooted at src to dst", and a subtree
\* "covers base, base/*, base.* and base..*": del_tree, cp_tree and cp_list leave
\* exactly the contents backend.rs would.
WholeSubtrees == [][Ended /\ work.deep => tree' = work.goal]_vars
=============================================================================
