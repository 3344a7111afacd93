# A verification project for kvspace-durable

TLA+ modules that model kvspace-durable from the C ABI handle through the
key-value tree down to its three stores and its wire format, TLC configurations
that check them on small instances, and TLAPS proofs, for every value of the
constants, of the handle's memory contract, of what the tree operations change
and return, of the network clients as implementations of the `KVStore` contract, of
the shape of the files and their replacement under crashes, of the wire format, of
the order of listings and of the calendar. Paths below are relative to the
repository (`src/ffi.rs`); the machine-readable correspondence between definitions
and source lines is the `map` of `PROJECT.json`.

## 1. The system

kvspace-durable is a library that gives a language runtime one tree of keys and
values over several stores. Keys are absolute paths with three separators: `/`
(hierarchy), `·` (member of a container) and `‥` (runtime variable). A value is
an XValue: a head (kind, layout, length), a body and a language-type trailer.
Values whose language type starts with `*` are links (symbolic pointers to
another key), those with `@` mount a read-only extension below a directory.

| Component | State | Operations | Interacts with |
|---|---|---|---|
| Key algebra (`kvspace_common.rs`, `store.rs`, `const.rs`) | none | split, join, subtree, reserved-area and control-key tests | everything |
| `Backend<S>` (`backend.rs`), the tree over a flat `KVStore` | the store's keys and bytes | get, get_raw, get_part, set, set_part, cp, del, del_tree, cp_tree, cp_list, list, mkindex, ext_index, del_ext_index, watch, clear | called by the handle, calls `KVStore` |
| C ABI handle (`ffi.rs`) | read_cache, volatile_cache (rings of four), retired, pending_key + write_buf, list_cache | kvspaceGet/GetPart/GetHead, SetValue, SetPart, WriteNewPlace, WriteInPlace, Del, DelTree, Cp, CpTree, CpList, Mkindex(Ext), RmindexExt, ListLen/ListAt, Watch, Clear, Close | called by C code that keeps raw pointers into its buffers; calls a backend |
| Watch (`kvspace_common.rs::watch_value`) | none | poll until the key holds the target | the handle, other writers |
| XValue codec (`headlenpow.rs`, `xvalue*.rs`) | none | head parse/build, LENGTH and CAPACITY layouts, typed accessors | every reader and writer |
| fs backend (`fs/kvspace.rs`) | files and directories, `__self__` files | a second implementation of the trait | the file system, other processes |
| redis store (`redis/store.rs`) | one RESP connection | GET/SET/DEL/SCAN/SETRANGE round trips, reconnect | the server |
| s3 store (`s3/*.rs`) | an HTTP agent | signed requests with retries, paginated listing | the service |
| coordinates (`coord.rs`) | none | parse and order `[row,col]` names | listings |
| DSN dispatch (`conn.rs`) | none | choose a backend | Connect |

What is hard here, and what makes each part correct:

- **Borrowed pointers.** `kvspaceGet` returns a pointer into a `Vec` owned by the
  handle. Every later call may move, retire, overwrite or free that `Vec`. The
  handle is correct when the pointer's bytes stay until the contract ends them.
- **Caches over a shared store.** A hit is served without asking the backend,
  a listing is a snapshot, and code is cached by key while another process
  rewrites it. Correct when what is served was not made stale by this handle's
  own calls (also failing ones), and when a relayout announced by `‥ctime` is seen.
- **Deferred writes.** `WriteNewPlace` and `WriteInPlace` only stage; the *next*
  call flushes. Correct when a staged write is stored or its loss is reported.
- **Failures in the middle.** A backend access may panic after part of its writes.
- **Links, extensions and the reserved area.** Reads and writes resolve links by
  different functions, with a hop limit, and the guards must hold after
  resolution too.
- **Subtree boundaries.** `/pq` is no part of `/p`, `/p·m` and `/p‥s` are;
  deletes and copies must hit exactly their subtree.
- **An unreliable network.** A redis reply may come after its timeout, a
  command may be executed after its caller has given up, an S3 request is sent
  again although the first attempt may have been executed. Correct when every
  answer belongs to its question and tells the truth about some moment of the
  call, and when nothing happens that nobody asked for.
- **Crashes between system calls.** The fs backend turns files into directories,
  replaces values through temporary files and copies trees file by file. Correct
  when a crash costs at most the keys the operation is about.
- **Bytes.** Part writes may go into the head of a value; lengths come from there.

The full list, line by line, is `hazards` in `PROJECT.json`.

## 2. The modules

| Module | Models | |
|---|---|---|
| `KVPath` | key algebra | operators on words of letters |
| `BackendOps` | `Backend<S>` | one operator per operation, on the contents of the store |
| `Backend` | the tree under any sequence of calls | `VARIABLE store`, one action per mutating operation |
| `Handle` | the C ABI handle, `EXTENDS BackendOps` | ten variables, one action per call or step of a call |
| `StoreCalls` | the `KVStore` trait: calls, effects, what an answer may say | shared by the next four |
| `KVStore` | what every store promises | the abstract specification |
| `RedisStore` | `redis/store.rs` and a server | one RESP stream per handle |
| `S3Store` | `s3/store.rs`, `s3/dsn.rs` and a service | one HTTP request per handle |
| `Conn` | `conn.rs` | composes the two stores, maps them to `KVStore` |
| `FsLayout` | `fs/kvspace.rs`, `EXTENDS BackendOps` | paths on a disk, plans of system calls, crashes |
| `Codec` | `headlenpow.rs`, `xvalue*.rs`, the head built by `ffi.rs` | the life of one stored value |
| `Coord` | `coord.rs` and the sort of a listing | |
| `CivilDate` | the calendar of `s3/sigv4.rs` | |
| `MCBackend`, `MCTree`, `MCHandle`, `MCOwn`, `MCShared`, `MCConn`, `MCFs`, `MCCodec` | | instances for TLC; `MCTree` and `MCOwn` choose between two worlds of keys and calls, `MCShared` adds other processes to `Handle` and what they must not break |
| `HandleProofs`, `BackendProofs`, `ConnProofs`, `CodecProofs` | | TLAPS proofs about the module of that name |
| `RefinementProofs` | | `Conn` implements `KVStore`; extends `ConnProofs` |
| `FsProofs` | | proofs about `FsLayout` |
| `AlgorithmProofs` | | proofs about `Coord` and `CivilDate` |
| `DataTheorems` | | least elements, induction and recursion over the naturals, flattening: what several of them cite |

**Keys and values.** A key is a sequence of letters, a separator being one
letter, so concatenation is `\o`, `starts_with` is `IsPrefix`, and the boundary
tests keep their meaning: `<<"/","p","q">>` is `/pq`. An XValue is
`[kind, body]`; a kind outside `Kinds` is a buffer `from_wire` refuses. The
store is a function from present keys to XValues.

**BackendOps.** `resolve_one`, `resolve_path`, `resolve_parent` are the link
resolution with `HopLimit` (16 in the code) hops. `locate` is what
`get_raw`, `get_part` and `set_part` share: the key, else the extension of its
directory. `get_one` is the batch read behind Watch, written out separately
because the code does so too. `set`, `del`, `del_tree`, `cp_tree`, `cp_list` and
the index operations return `[ok, store]`; each keeps the order of the code's
guards. Copies take the scan order as an argument: the store does not promise one.

**Handle.** A call is a sequence of steps with at most one backend access each.
`Begin` is the flush every entry point starts with (`BeginFlush`, `BeginClean`);
`FetchHit`, `FetchMiss`, `FetchVolatile`, `FetchFails` are one hop of
`resolve_cached_key` each; then one action finishes the call (`Get`, `SetPart`,
`Watch`, `DelTree`, ...). Between any two steps `Environment` lets other
processes write. A `Vec` is `[id, val]`: its address and contents. The ghost
variable `borrows` records the views the caller may still dereference: `Get`
and `Watch` add one; a write or delete naming the key ends it, Close ends all,
and a view of a control key ages with each change of its ring and ends at the
fourth. `FillBody` is the caller writing through the body pointer of a staged
write. With `Faults = TRUE` every backend access may fail with any part of its
writes applied (`Outcomes`).

**Backend.** Callers name keys by `Paths`. `PathsAssumption` and
`ValuesAssumption` say that these paths and the targets of the links they write
are `Regular`: absolute, every separator followed by a name or a runtime variable,
save a final `/` or `·`. The code checks only for `//` and takes other keys
as they come. `TypeOK` says that regular keys in means regular keys stored, through
link resolution, copies and part writes.

**KVStore, RedisStore, S3Store, Conn.** `StoreCalls` says what a client can have
observed: `since[c]` collects every contents the store had from the invocation of
c's call on, and `Honest` what an answer may say of them (a read shows a value that
was there, an acknowledged write was there, a scan misses nothing that was there
all the time and shows nothing that never was). `KVStore` is the abstract
specification: the contents change by an effect some call asked for, a call
returns honestly or fails, and the effect of a failed or repeated request may still
be under way (`late`). It is deliberately weaker than linearizability: the code
promises one moment per key, and no more than a read followed by a write for a part.
`RedisStore` has the stream between client and server as two queues of commands and
RESP pieces (a line or the data of a bulk string), so that a read can time out in
the middle of a reply; `cmd` drops the stream, and what was on it may be executed
later (`orphans`). `S3Store` has one request per handle with its attempt, pages of
any size, and requests executed after they were given up (`flying`). `Conn` connects
all handles to one DSN; its `ImplementsKVStore` instantiates `KVStore` with `data` the server's contents or the objects below the prefix, and
`late` the abandoned writes.

**FsLayout.** `disk` maps paths to directories or values. An operation computes
its `plan`, the system calls in the code's order with the errors the code ignores
ignored, from the disk it starts on; `Step` makes one, a recursive removal going
entry by entry in any order; `Crash` forgets the plan. `view` is the contents as
keys and values, on which the guards and the link resolution, which `fs/kvspace.rs`
repeats from `backend.rs` over `read_leaf`, are those of `BackendOps`. So
`SameContents` compares the file layout with the tree it stands for. `node_path` goes
through a key letter by letter as `fs_path` does. A temporary file is one name per
directory, and escaping is the mark `~` before the name without the hex.
`After1` is what a system call does on any disk, with the conditions under which the
operating system refuses it; a copy fails where a file meets a directory.
There is one writing process, as in the code, which takes no lock.

**Codec.** A value is a sequence of bytes; every field of the head, the length of a
record and `reallen` take one byte, an element of a wide kind two, the name of a
kind one. `Build` stores what a constructor builds, `WriteNewPlace` what the handle
builds and the caller fills, `SetPart` patches at any offset, the head included,
`SetValue` stores the value again from a longer buffer. `Coord` reads the entries
of a listing in any order and inserts each where the stable sort puts it.
`CivilDate` advances a calendar by the Gregorian rule beside `civil_from_days`.

**Data left out.** In all modules but `Codec`, head bytes, layouts and encodings (an
XValue is its kind and body; SetPart offsets count from the body, although the code
bounds them against the whole value); the capacity rule of a status slot (only kind and length are
kept); Watch's re-encoding of the value it saw; names, messages and error texts;
the back-off schedule of Watch.

## 3. Runs

| Run | Checks | Shows |
|---|---|---|
| `tree` | `TypeOK`, `ReservedUntouched`, `WriteReadBack`, `LinkTargetSafe`, `DelTreeExact`, `CpTreeExact`, `CpListShallow`, `ListComplete`, `ReadsAgree` | two worlds. With chains, cycles and a link into the reserved area: what set accepts get_raw returns, whole keys are never followed, nothing reaches `/.kvspace-meta`. With members, children, runtime variables, a sibling named alike and an extension: deletes and copies are exact, List agrees with Get, both read paths agree |
| `handle_own` | `TypeOK`, `BorrowSafe`, `CacheCoherent`, `ListCoherent`, `StagedWriteSettled` | one handle on a store only it writes, every access possibly panicking half way; two worlds: containers that are staged, watched, listed, copied and deleted, and single values, pointers and mounted directories |
| `handle_shared` | `BorrowSafe`, `RelayoutVisible`, `CyclesReturn` | three worlds with another process: it flips a control key (ring views survive three changes, Watch and handoff retire instead of free); it writes code, then `‥ctime` (cached code is never older than a ctime change the handle saw); it builds pointer cycles (every call returns, Watch unless its key keeps missing the target) |
| `stores` | `TypeOK`, `ReplyIsOwn`, `PrefixIsolated`, `ImplementsKVStore`, `CallsEnd` | two handles on one redis server or one bucket, with timeouts, lost, late and repeated requests |
| `fs` | `TypeOK`, `SameContents`, `OthersKeep`, `NeverTorn`, `ListShows`, `ListsOnlyKeys` | every operation of the fs backend, call by call, with crashes and readers |
| `codec` | `TypeOK`, `ReadsAsMade`, `ParseSafe`, `PartContained`, `RoundTrip`, `Sorted`, `ListedOnce`, `DateAgrees` | three worlds: a value on the wire, a listing, a calendar |

Six more runs refute a sentence of the repository (section 6).

**Bounds.** `HopLimit` and `MAX_PTR_HOPS` are 16 in the code and at most 3 here:
what matters is a chain within the limit and a cycle beyond it, and both occur
(`tree` with a limit of three has chains of two links and cycles of one
and two links with a link into them, `handle_shared` cycles of two with a limit of
two). A world of `tree` holds 3 or 4 keys of up to 4 or 6 letters: a container, a
member of a member, a sibling and a destination exist together. `STATUS_MAX_LEN` is 1; the
status rule is part of `settable`, but no run writes a `‥status` key, so the rule
is modelled and not exercised. The rule's capacity floor (`STATUS_MIN_CAP`) needs
the capacity layout, which the model's values do not have. `BufIds` bounds the
handle's memory; `Begin` waits until a call cannot run out, so every call that
starts can finish. The four versions of the relayout world of `handle_shared` fill the ring of four
once; its control world flips the key without bound and goes around it.
In `stores` one handle makes any of thirteen calls and then writes or reads the
key again, the other makes one of three rival calls: a late command can meet the next
call of its own handle and a call of the other. `MAX_ATTEMPTS` is 2 instead of 3 (one
retry and giving up), pages hold any number of the three keys, and the bucket holds
an object of a tenant whose name begins alike. In `fs` at most four files and
directories exist after an operation: enough for a value turned into a directory
with a member container beside it, not for two trees of several files each. A part
write there has one or two bytes, so that `write_at` can write all or one of them. In
`codec` bodies have up to two bytes, `Word` is 256, so that the sum of two lengths
can overflow, listings have up to four entries of eight names, and the calendar ends
in 2100, which is no leap year, after 2000, which is one.
`CHECK_DEADLOCK` is off in `stores` (all calls are made) and `codec` (the calendar and
the listing end), and on in every other run.

**Fairness.** In the cycles world of `handle_shared`, weak fairness of
`Fetch \/ Finish`: a call is one synchronous function and runs on once entered.
Nothing is assumed of other processes or of the caller; that is why `CyclesReturn`
excludes a Watch whose key does not hold the target. In `stores`, weak fairness of the
steps of each redis client, timeouts included: the stream has a read and a write
timeout of three seconds (src/redis/store.rs:39-40), so a wait ends
whatever the server delays or leaves unanswered. Two things are taken for granted: what
the server sends is RESP, and `TcpStream::connect`, which has only the timeout of the
operating system (src/redis/store.rs:38), ends. Nothing else is assumed of the server, nor of an S3 client, whose HTTP agent
has no timeout.

**Scope of the coherence properties.** Ordinary keys are cached by design until
this handle touches them, so the properties speak of what this handle does.
`ListCoherent` is about a store only it writes. `CacheCoherent` is about its steps: none
of them makes a cached copy stale and keeps it, and what it caches is fresh. The formula
names what it leaves out, and the calls concerned are all in the run:

- MkindexExt and RmindexExt drop no entry of read_cache (src/ffi.rs:1133-1174), so a
  Get of `/d/` goes on serving a removed locator (`KeepsCopies`);
- SetValue, SetPart and Clear keep cached copies when they *fail* (src/ffi.rs:614, 737),
  although a panicking backend may have applied the write (`KeepsCopies`);
- entries are dropped by their literal key, so a write through a link or an extension,
  a copy onto a link, or Del of `/d/` (which also deletes `/d`) leaves the entry of the
  other name (`Aliased`).

All three are listed as hazards.

**Scope of `SameContents`.** An operation of the fs backend that runs to its end leaves what
the same operation of backend.rs leaves, apart from the keys it puts into `loose`: those a
short `write_at` has not fully written (its count is ignored, src/fs/kvspace.rs:553); the
runtime variables of a copied node, which stay behind (run `fs_copy`); the destination of a copy
whose source is an empty directory, which backend.rs refuses; `/d` for del of `/d/`, which
backend.rs deletes too; and the link `/d` or the key `/d/` when a link is given as a directory to
del_tree or del_ext_index. `ListShows` and `ListsOnlyKeys` together say what a listing shows: at
least the names backend.rs would show and at most these and directories that have lost their
last value, also between two system calls and after a crash.

**Scope of `RoundTrip`.** What the wire loses is written down in `Reread` and nothing else
may be lost: bytes that are no UTF-8 in a pointer's target, a locator or a language type
(`from_utf8_lossy`), one level of a pointer whose target kind is itself a pointer, and a
dimension 0 of an unknown kind. CAPACITY values are included: their spare bytes are decoded as
contents, and encoding and decoding that again loses nothing more.

**Where the properties of the tree stop.** Proving them for every tree showed
cases that the small instances do not reach. Each is a guard of the property, with
the reason in its comment:

- `ReservedUntouched`: the key `/.kvspace-meta·` is not reserved by
  `is_reserved`, but its stripped form is the reserved root. del of it deletes
  that root too, and a copy onto it, checked before the suffix is stripped, goes
  there. A part write through an extension writes wherever the locator points, the
  reserved area included, so the property speaks of part writes of keys present
  in their own directory.
- `LinkTargetSafe`: del_tree of a link calls del, which resolves the way to it once
  more (src/backend.rs:497-500). On a cycle, or a chain longer than the hop limit,
  the second resolution ends elsewhere, and another key is deleted.
- `ReadsAgree`: only get_raw asks the extension for a key ending in `·`, and only
  get_raw refuses a reserved key from which a link leads out of the area.
- `ListComplete`: in the root the name `.kvspace-meta` is hidden, so a member such
  as `/.kvspace-meta·x`, which can be written and read, is not listed; an extension
  whose locator is no directory is read but never listed.
- `CpTreeExact`, `CpListShallow`: the way to the destination must be fully resolved,
  since del_tree resolves it again; and a copy onto the root deletes everything
  and then finds nothing left to copy.
- Of a key such as `/a·/x`, which is not regular, the parent is `/a·` to a write and
  `/a·/` to a read, so what is written need not be what is read.

## 4. Proofs

Every theorem holds for all values of the constants that satisfy the named
assumptions; TLC evaluates those in every run whose module extends them.

| Module | Theorem | States |
|---|---|---|
| `HandleProofs` | `InductiveInvariant`, `TypeCorrect`, `BorrowsSafe`, `StagedSettled`, `ListsCoherent` | `BorrowInv`, `TypeOK`, `BorrowSafe`, `StagedWriteSettled`, `ListCoherent` |
| `BackendProofs` | `TypeCorrect`, `ReservedStaysUntouched`, `WritesReadBack`, `LinkTargetsSafe`, `DelTreeIsExact`, `CpTreeIsExact`, `CpListIsShallow`, `ListsComplete`, `ReadsAlwaysAgree` | every property of `Backend` that a passing run checks |
| `ConnProofs` | `TypeCorrect`, `RepliesAreOwn`, `TenantIsolated` | `TypeOK`, `ReplyIsOwn`, `PrefixIsolated` |
| `CodecProofs` | `ParseStaysInside`, `StoredReadsAsMade`, `PartWritesContained` | `ParseSafe`, `ReadsAsMade`, `PartContained` |
| `RefinementProofs` | `StoreRefinesContract` | `ImplementsKVStore` |
| `FsProofs` | `DiskShaped`, `ReplacedWhole` | `TypeOK`, `NeverTorn` of `FsLayout` |
| `AlgorithmProofs` | `ListingSorted`, `DedupSuffices`, `DatesAgree`, `AlgorithmsTyped` | `Sorted`, `ListedOnce`, `DateAgrees`, `TypeOK` of `MCCodec` |

**The handle.** For any `Requests`, `EnvWrites`, `Bodies`, `BufIds` and hop limits,
with or without `Faults`. `BorrowSafe` is not inductive: it says that a view's buffer is
*somewhere* in the handle, and a step that drops a cache entry could drop it.
`BorrowInv` is `TypeOK` and three more parts. `ViewsPlaced` says where the
buffer is: for a control key in the ring slot `age` changes back from the current
one, otherwise in the cache entry of its own key or in `retired`. `OwnersDistinct`
says that a cached buffer has no second owner; without it WriteInPlace could turn a
buffer into the write buffer that a view of another key still shows. `StagedUnseen`
says that no view shows the staged buffer. `TypeOK` includes that the key a call
has resolved is in the cache it is about to read, which the code's
`cached_slice(..).unwrap()` relies on. The proof has one lemma per action.
`ListsCoherent` adds `ListInv`: the snapshot in list_cache is what the backend lists
now, also in the middle of a call. It needs `EnvWrites = {}`; otherwise a snapshot is
allowed to be old. The backend stays opaque (`BackendReturns`, `IsSnapshot`), so these
theorems hold whatever the store does. Assumptions: `NoId \notin BufIds`,
`MAX_PTR_HOPS \in Nat`, `Faults \in BOOLEAN`.

**The tree.** The inductive invariant is `Fine(store)`: finitely many keys, all
regular, all values XValues, all links leading to regular keys. It is `TypeOK` and
finiteness. The properties quantify over the calls possible in a state, so each is a
lemma `Fine(store) => P`. They rest on facts about words (`ChainConcat`, `Split`,
`Suffix`, `Moved`: what lies below one key lies alike below another) and about the
loops: `resolve_path` is the last of `HopLimit` hops (`HopsExist`), `del` and the copy loop
run through their lists (`DelsExist`, `CopiesExist`). `WritesReadBack` is the
lemma `SameWay`: resolving the parent and appending the name, as writes do, and
resolving the directory with its `/`, as reads do, give the same key, because every
hop commutes with a trailing `/` (`SlashedHop`). `CpTreeIsExact` carries `Copied` through
the loop: the contents are those left by del_tree, plus the keys copied so far; it needs
that separate trees share no key (`NoneInBoth`) and that moved keys do not collide
(`NamesDiffer`). Assumptions: `LettersAssumption`, `PathsAssumption`,
`ValuesAssumption`, `HopLimit \in Nat`; no bound on keys or lengths is used.

**The clients.** For any clients, calls, scan orders, page sizes, prefixes and attempts.
For redis, `ReplyIsOwn` needs to know what is on the stream. `StreamOK`: it carries
nothing, or the command sent last, or a tail of its answer, and what the client has
read so far followed by that tail is one whole answer (`WholeReply`, by counting
the pieces a RESP header announces). So the client stops exactly where the answer ends and the
next command finds the stream empty. For S3, `JobOK` and `CallOK`: every request
under way, flying or still to be sent that can change an object names one below the
prefix, and a prefix that `dsn_prefix_ok` accepts ends in `/`, so a tenant whose
name begins alike is not below it. Assumptions: `CallsAssumption` (what the trait lets a
caller pass), `ServerAssumption`, `BucketAssumption` and `TenantAssumption` (server and
bucket hold words; a DSN prefix that ends in `/` lies in the tenant's directory).

**The refinement.** `ConnSpec => ImplementsKVStore`: every initial state of `Conn` is one
of the contract under the mapping, and every step is a step of the contract or changes
nothing it sees. The effects are direct; what is hard is that an answer is `Honest`
although it was put together from several replies, with other clients writing in
between. The invariant says what a request under way *knows*. For redis
(`RedisKnows`): the reply on the stream, read or not, is what the command said of some
contents in `since[c]`, the contents after its effect are there too, and the keys a scan
has collected up to its cursor leave out none that all contents in `since[c]` hold and
include none that no such contents holds. For S3 (`S3Knows`): the same of an
answered request, of the objects listed up to the continuation token, of the keys of a
get_many already answered and of those of a del or flush already deleted. Because
`since[c]` only grows during a call, what is known stays known while others write. It
also needs that the map between keys and object names below the prefix is one to one
(`Own`, `object_key`). Assumptions in addition to the above: `CallsAssumption` (every
call but get_many, del and flush has one key; only part operations have an offset and a
length: the signatures of the trait), `ServerAssumption` (SCAN comes by every key
the server holds or the calls may create), `BucketAssumption` (a listing has each
object once, in name order) and `NamesAssumption` (keys given to an S3 store begin with
`/`, apart from the empty prefix of a scan, as those of `Backend` do).

**The file layout.** For every set of keys, values, trees and copies, with a crash at any
point. `DiskInv`: the disk has its shape (`Disks`: every node lies in a directory, no
directory is named like a marker or a temporary file), `tree` is its `view`, and the
plan consists of `Sound` calls. `Sound` is about one call at a time: directories are made only
under names of keys, and what `escape` gives is never a marker. So it holds of whatever is
left of a plan, and each call keeps the shape whatever it finds; the order of the plan is not
needed. `NeverTorn` adds `GentleInv`: while a value that exists is being replaced
(`Replaces`), no planned call removes its file or a directory above it, and what is
written there is the new value or, in place, bytes of the old and the new (`Gentle`,
`Whole`). That `ensure_dir` of the index directory does
no harm rests on `SplitShorter`: that directory lies above the value, so it is a directory
already and is not turned into one. Assumptions: `LettersAssumption`,
`InputsAssumption` (keys and bodies are words), `HopLimit \in Nat`; the bound
`MaxNodes` is not used.

**The codec.** `CodecInv`: the wire is a sequence of bytes, and while no part write
has touched the head it is the layout of what was made (`Stores`). `ParseSafe` holds for
arbitrary bytes, so part writes into the head are covered. `WordAssumption` keeps
the word larger than two bodies and a head, as 2^32 is here.

**Listings and the calendar.** `cmp_coord` is a total preorder: numbers before other
coordinates before names, each compared lexicographically. Inserting into a sorted list
keeps it sorted, and in a sorted list equal names are neighbours unless an equal
spelling lies between them. The calendar is one induction: a step of the Gregorian rule is
one step of `civil_from_days`, by the arithmetic of the 400-year era.

**Recursion.** What a loop or a recursive parse computes is proved by
induction over its length with `SetInduction` (a set of naturals closed under successor)
and `Recursion` of `DataTheorems`, which need no operator parameter. `SelectSeq`, `FoldLeft` and
`SetToSortSeq` stay opaque to the provers, so the modules state their loops as recursive
functions.

**Only model-checked.**

- `CyclesReturn`, `CallsEnd`: liveness.
- `CacheCoherent`: needs what every operation of the tree changes, failing half way
  included, for keys named directly; the proofs about the handle keep the tree opaque.
- `RelayoutVisible`: a property of the relayout world.
- `SameContents`, `OthersKeep`, `ListShows`, `ListsOnlyKeys` of `FsLayout`: they need the inverse of
  `node_path`, from paths back to keys, and hold only of keys whose files differ
  (`x` and `/x`, `/a·x` and `/a·/x` are one file each).
- `RoundTrip`: needs the inverse of every conversion between a typed value, its
  language type and its bytes, which language types such as `[1][3]b` do not have;
  `StoredReadsAsMade` covers the head and the raw bytes.

## 5. Not modelled

- Signing (`s3/sigv4.rs` apart from the calendar), URL and percent encoding and the
  XML scan of `s3/store.rs`, the credential parts of a DSN: text and cryptography
  without state, covered by the repository's test vectors.
- `format_coord` and `grow_coord_dims`: used by no code of the crate.
- `value_string`, `code_string`: formatting.
- `kvspaceView*`: always return -2 in this library.
- A backend operation is one step in `Backend` and `Handle`: two handles interleave
  between operations, and inside `set_part`, `get_part`, `del`, `flush` and scans
  in `stores`, but not inside `set` or the tree operations of `backend.rs`.
- The fs backend with several writing processes.

## 6. Where the code departs from its own text

| Run | Property | What happens |
|---|---|---|
| `copy_inside` | `CpTreeCopies` | CpTree of `/p·m` onto `/p`: the destination is deleted first and the source with it; nothing is copied and the call succeeds |
| `handle_mismatch` | `FreedOnlyBySuccess` | a WriteInPlace that returns 1 for its length has already freed the buffer of an earlier Get |
| `handle_stage` | `StageMatchesGet` | Watch leaves a copy of a control key in read_cache; a later WriteInPlace stages that old copy, not the value just read |
| `s3_put_5xx` | `Retries5xx` | a PUT answered with 5xx panics at once, although 5xx is to be retried |
| `fs_copy` | `WholeSubtrees` | the fs cp_tree of `/p` leaves `/p‥s` behind, although a copy is of the whole subtree and a subtree covers `‥` keys; backend.rs copies them |
| `part_grows` | `PartsNeverGrow` | a SETRANGE arrives after another handle has deleted or shortened the value whose length was checked, and makes a longer one, although an out-of-range part never grows a value |

Noted while modelling and visible in the operators, without a run of their own.

Tree and handle:
- mkindex, ext_index and del_ext_index have no reserved-area guard
  (src/backend.rs:638-698); ext_index checks for a cascade only in one direction.
- set_part through a mounted extension writes the extension's own key
  (src/backend.rs:328), which set refuses (src/const.rs:20).
- cp_tree and cp_list resolve the whole destination key, so copying onto a link
  replaces the target's subtree, and store status slots without
  validate_status_wire.
- The first read of a `‥ctime` retires nothing (src/ffi.rs:197), so code cached
  before it may be older; RmindexExt leaves the removed locator in read_cache
  (src/ffi.rs:1156), MkindexExt the previous one.

Stores:
- The S3 set_part reads the value again and returns Ok without writing when the part no
  longer fits; a value that shrinks between that read and the PUT is made the longer one
  again, so `PartsNeverGrow` does not hold of S3 either. `KVStore` therefore admits part
  writes that were in bounds when the call looked, and no others.
- A part beyond the end is a panic on S3 (416) and nothing on redis; a missing
  bucket looks like a missing key on S3; a body that breaks off is not retried.

File layout:
- A directory that has lost its last value still counts as a source, so copying it deletes
  the destination and succeeds, and it is still listed; a source whose only keys are
  runtime variables is refused, while backend.rs copies it.
- A short write in set_part is not noticed (src/fs/kvspace.rs:553).
- del of `/d/` removes the marker only; del and del_ext_index do not look at the
  extension; `/a·x` and `/a·/x` are the same file; a value two levels below a file
  cannot be stored, and the write panics.
- An overwrite in place interrupted by a crash leaves a mixture of old and new bytes.

Codec and listings:
- set_part counts from the head, so an offset below 16 overwrites the head.
- A CAPACITY value decodes with its whole capacity as body, so the copy Watch stores
  is a LENGTH value whose contents include the spare bytes.
- A pointer to a pointer, which kvspaceNewPtr accepts, loses one level on the wire
  (src/xvalue.rs:409), and text that is no UTF-8 comes back with replacement characters.
- `[1]` and `[01]` compare Equal although the comparison is called a total order
  (src/coord.rs:46); listing a name that is a value and a container beside another
  spelling can then show it twice, which is the exception in `ListedOnce`.

## 7. Plan

Done: key algebra, backend operations, the handle, the redis and S3 clients as
implementations of `KVStore`, the file layout with crashes, the wire format, coordinate
order and calendar; proofs about all of them. Left:

1. `OthersKeep` and `SameContents` for the keys that `Backend` calls `Regular`: the inverse
   of `node_path` on them, then what each call of a plan does to the view.
2. `RoundTrip` for the language types the constructors give.
3. `StagedWriteSettled` strengthened to exactly-once.
4. `set` and `cp_tree` of backend.rs split into their store accesses on top of
   `StoreCalls`, two handles; what the checks before a store still guarantee.
