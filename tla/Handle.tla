------------------------------- MODULE Handle -------------------------------
(***************************************************************************)
(* One C ABI handle (ffi.rs) over a store that other handles and processes *)
(* also write.                                                             *)
(*                                                                         *)
(* A call is a sequence of steps with at most one backend access each, so  *)
(* that the others can write between them: Begin (the flush of the staged  *)
(* write that opens every entry point), one Fetch* step per pointer hop of *)
(* resolve_cached_key, and the step that finishes the call.  The backend   *)
(* itself is BackendOps, one operation at a time.                          *)
(*                                                                         *)
(* A Vec<u8> owned by the handle is a buffer [id, val]: its address and    *)
(* its present contents.  A pointer handed to the caller is a view of a    *)
(* buffer; the ghost variable borrows holds the views whose lifetime, by   *)
(* the contract of kvspaceGet, has not ended.                              *)
(***************************************************************************)
EXTENDS BackendOps

CONSTANTS Requests,      \* the calls the caller makes, see Request
          EnvWrites,     \* what other handles write, [key, val, when]: val (Absent:
                         \* delete) under key once the pairs in when are stored
          Bodies,        \* what the caller may fill into a staged write
          BufIds,        \* addresses; bounds the memory of the handle
          NoId,          \* address of an empty Vec
          MAX_PTR_HOPS,  \* leaf pointer hops of resolve_cached_key; 16 in the code
          Faults         \* TRUE: a backend access may panic (disconnect, timeout, I/O)

ASSUME NoIdAssumption == NoId \notin BufIds
ASSUME HopsAssumption == MAX_PTR_HOPS \in Nat
ASSUME FaultsAssumption == Faults \in BOOLEAN

VARIABLES store,           \* contents of the shared backend
          open,            \* between kvspaceConnect and kvspaceClose
          read_cache,      \* key -> buffer
          volatile_cache,  \* key -> [slots, which]: ring of the last four contents
          retired,         \* buffers kept alive until Close
          pending,         \* {} or {[key, buf]}: pending_key and write_buf
          list_cache,      \* {} or {[prefix, expand_ext, resolve, names, cursor]}
          call,            \* progress of the current call
          ret,             \* the last call returned 0
          borrows          \* ghost: views the caller may still dereference

caches == <<read_cache, volatile_cache, retired>>
vars == <<store, open, caches, pending, list_cache, call, ret, borrows>>

Empty == [k \in {} |-> Absent]
EmptySlot == [id |-> NoId, val |-> Absent]
NewRing == [slots |-> [i \in 0 .. 3 |-> EmptySlot], which |-> 0]
Idle == [phase |-> "idle"]

\* Calls that resolve leaf pointers in the cache before they act.
ResolvingOps == {"Get", "GetHead", "SetPart", "WriteInPlace"}
\* Calls that go through kv_flush, which drops list_cache first.
StructOps == {"Del", "DelTree", "Cp", "CpTree", "CpList", "Mkindex", "MkindexExt", "RmindexExt", "Clear"}

Buffers ==
  {read_cache[k] : k \in DOMAIN read_cache} \cup retired \cup {w.buf : w \in pending}
    \cup UNION {{volatile_cache[k].slots[i] : i \in 0 .. 3} : k \in DOMAIN volatile_cache}
FreeIds == BufIds \ ({b.id : b \in Buffers} \cup {w.id : w \in borrows})
NewId == CHOOSE b \in FreeIds : TRUE
NewBuffer(v) == [id |-> NewId, val |-> v]
Memory == FreeIds # {}

View(k, buf, ring) == [key |-> k, id |-> buf.id, val |-> buf.val, ring |-> ring, age |-> 0]

\* What a backend operation r may do: its result or, when the backend panics
\* on the way, a failure with none or any part of its writes applied.
Outcomes(r) ==
  LET touched == {k \in DOMAIN store \cup DOMAIN r.store : Lookup(store, k) # Lookup(r.store, k)}
      mix(done) == [k \in (DOMAIN store \ done) \cup (DOMAIN r.store \cap done) |->
                      IF k \in done THEN r.store[k] ELSE store[k]]
  IN {r} \cup IF Faults THEN {Err(store)} \cup {Err(mix(done)) : done \in (SUBSET touched) \ {{}}} ELSE {}

-----------------------------------------------------------------------------
Init ==
  /\ store = Empty
  /\ open = TRUE
  /\ read_cache = Empty /\ volatile_cache = Empty /\ retired = {}
  /\ pending = {}
  /\ list_cache = {}
  /\ call = Idle
  /\ ret = TRUE
  /\ borrows = {}

Return(code) == call' = Idle /\ ret' = code

\* cache_invalidate: drop the entries of the keys in K; the caller's views of
\* these keys end here.
Invalidate(K) ==
  /\ read_cache' = Drop(read_cache, K)
  /\ volatile_cache' = Drop(volatile_cache, K)
  /\ borrows' = {w \in borrows : w.key \notin K}

\* The keys cache_invalidate_tree(p) drops, of those the handle knows.
Known == DOMAIN read_cache \cup DOMAIN volatile_cache \cup {w.key : w \in borrows}
Below(p) == {k \in Known : under_prefix(k, p)}

Started(c) ==
  [phase |-> IF c.op \in ResolvingOps THEN "resolve" ELSE "exec",
   req |-> c, cur |-> c.key, hop |-> 0]

\* Defect: the flush keeps the listing after a failure.
BeginFlush_KeepsList(c) ==
  \E w \in pending : \E r \in Outcomes(set(store, w.key, w.buf.val)) :
    /\ store' = r.store
    /\ Invalidate({w.key})
    /\ pending' = {}
    /\ list_cache' = IF r.ok THEN {} ELSE list_cache
    /\ IF r.ok THEN call' = Started(c) /\ UNCHANGED ret ELSE Return(FALSE)
    /\ UNCHANGED retired

\* Entry of a call: flush the staged write.  If that fails the write is lost
\* and the call returns 1 without doing anything.
BeginFlush(c) ==
  \E w \in pending : \E r \in Outcomes(set(store, w.key, w.buf.val)) :
    /\ store' = r.store
    /\ Invalidate({w.key})
    /\ pending' = {} /\ list_cache' = {}
    /\ IF r.ok THEN call' = Started(c) /\ UNCHANGED ret ELSE Return(FALSE)
    /\ UNCHANGED retired

\* Defect: an entry point that does not flush.
BeginClean_NoFlush(c) ==
  /\ call' = Started(c)
  /\ list_cache' = IF c.op \in StructOps THEN {} ELSE list_cache
  /\ UNCHANGED <<store, caches, pending, ret, borrows>>

BeginClean(c) ==
  /\ pending = {}
  /\ call' = Started(c)
  /\ list_cache' = IF c.op \in StructOps THEN {} ELSE list_cache
  /\ UNCHANGED <<store, caches, pending, ret, borrows>>

\* Memory is the model's bound: a call starts when it cannot run out of it.
Begin(c) ==
  /\ open /\ call = Idle
  /\ Cardinality(FreeIds) > MAX_PTR_HOPS + 1
  /\ BeginFlush(c) \/ BeginClean(c)
  /\ UNCHANGED open

-----------------------------------------------------------------------------
\* resolve_cached_key, one hop per step.

Missing == Return(call.req.op = "Get")

\* Defect: hops are not counted.
Follow_Uncounted(v) ==
  IF v.kind = "ptr" /\ call.req.resolve
  THEN IF v.body = <<>> THEN Missing
       ELSE call' = [call EXCEPT !.cur = v.body] /\ UNCHANGED ret
  ELSE call' = [call EXCEPT !.phase = "found"] /\ UNCHANGED ret

\* cur holds v: follow it, or it is the final key.
Follow(v) ==
  IF v.kind = "ptr" /\ call.req.resolve
  THEN CASE call.hop = MAX_PTR_HOPS -> Return(FALSE)
         [] call.hop # MAX_PTR_HOPS /\ v.body = <<>> -> Missing
         [] OTHER -> /\ call' = [call EXCEPT !.cur = v.body, !.hop = call.hop + 1]
                     /\ UNCHANGED ret
  ELSE call' = [call EXCEPT !.phase = "found"] /\ UNCHANGED ret

FetchHit ==
  /\ call.phase = "resolve" /\ ~ is_volatile(call.cur) /\ call.cur \in DOMAIN read_cache
  /\ Follow(read_cache[call.cur].val)
  /\ UNCHANGED <<store, open, caches, pending, list_cache, borrows>>

\* A missing key is not cached.
FetchMiss ==
  LET raw == get_raw(store, call.cur)
  IN /\ call.phase = "resolve" /\ ~ is_volatile(call.cur) /\ call.cur \notin DOMAIN read_cache
     /\ Memory
     /\ IF raw = Absent
        THEN Missing /\ UNCHANGED read_cache
        ELSE read_cache' = Put(read_cache, call.cur, NewBuffer(raw)) /\ Follow(raw)
     /\ UNCHANGED <<store, open, volatile_cache, retired, pending, list_cache, borrows>>

\* Defect: the ring wraps one slot early.
RingAfter_Three(ring, buf) ==
  LET next == (ring.which + 1) % 3
  IN [slots |-> [ring.slots EXCEPT ![next] = buf], which |-> next]

\* volatile_refresh moves on to the next slot when the contents changed.
RingAfter(ring, buf) ==
  LET next == (ring.which + 1) % 4
  IN [slots |-> [ring.slots EXCEPT ![next] = buf], which |-> next]

\* A ring view outlives three changes of its key.
Aged(views, k) ==
  {IF w.ring /\ w.key = k THEN [w EXCEPT !.age = w.age + 1] ELSE w :
     w \in {x \in views : x.ring /\ x.key = k => x.age < 3}}

\* Defect: only the directory entry itself is dropped, not the code below it.
StaleCode_Shallow(k, prev, raw) ==
  IF prev # Absent /\ raw # prev /\ ctime_dir(k) # <<>>
  THEN {x \in DOMAIN read_cache : x = ctime_dir(k)} ELSE {}

\* A changed ..ctime retires what is cached of its function.
StaleCode(k, prev, raw) ==
  IF prev # Absent /\ raw # prev /\ ctime_dir(k) # <<>>
  THEN {x \in DOMAIN read_cache : under_prefix(x, ctime_dir(k))} ELSE {}

FetchVolatile ==
  LET k == call.cur
      raw == get_raw(store, k)
      ring == IF k \in DOMAIN volatile_cache THEN volatile_cache[k] ELSE NewRing
      prev == ring.slots[ring.which].val
      stale == StaleCode(k, prev, raw)
      buf == IF raw = Absent THEN EmptySlot ELSE NewBuffer(raw)
  IN /\ call.phase = "resolve" /\ is_volatile(k) /\ Memory
     /\ volatile_cache' = Put(volatile_cache, k, IF raw = prev THEN ring ELSE RingAfter(ring, buf))
     /\ borrows' = IF raw = prev THEN borrows ELSE Aged(borrows, k)
     /\ read_cache' = Drop(read_cache, stale)
     /\ retired' = retired \cup {read_cache[x] : x \in stale}
     /\ list_cache' = IF prev # Absent /\ raw # prev /\ ctime_dir(k) # <<>> THEN {} ELSE list_cache
     /\ IF raw = Absent THEN Missing ELSE Follow(raw)
     /\ UNCHANGED <<store, open, pending>>

FetchFails ==
  /\ Faults
  /\ call.phase = "resolve"
  /\ is_volatile(call.cur) \/ call.cur \notin DOMAIN read_cache
  /\ Return(FALSE)
  /\ UNCHANGED <<store, open, caches, pending, list_cache, borrows>>

-----------------------------------------------------------------------------
\* Calls on a resolved key.

Running(op, phase) == call.phase = phase /\ call.req.op = op

\* cached_slice of the final key.
Current(k) ==
  IF is_volatile(k) THEN volatile_cache[k].slots[volatile_cache[k].which] ELSE read_cache[k]

\* kvspaceGet and kvspaceGetPart hand out a view of the cached buffer.
Get ==
  /\ Running("Get", "found")
  /\ borrows' = borrows \cup {View(call.cur, Current(call.cur), is_volatile(call.cur))}
  /\ Return(TRUE)
  /\ UNCHANGED <<store, open, caches, pending, list_cache>>

GetHead ==
  /\ Running("GetHead", "found")
  /\ Return(TRUE)
  /\ UNCHANGED <<store, open, caches, pending, list_cache, borrows>>

SetPart ==
  /\ Running("SetPart", "found")
  /\ list_cache' = {}
  /\ \E r \in Outcomes(set_part(store, call.cur, call.req.n, call.req.val.body)) :
       /\ store' = r.store
       /\ IF r.ok THEN Invalidate({call.cur})
                  ELSE UNCHANGED <<read_cache, volatile_cache, borrows>>
       /\ Return(r.ok)
  /\ UNCHANGED <<open, retired, pending>>

\* The cached buffer itself becomes the write buffer; read_cache is looked at
\* first, also for a control key.  On a length mismatch it is dropped.
WriteInPlace ==
  LET k == call.cur
      buf == IF k \in DOMAIN read_cache THEN read_cache[k] ELSE [Current(k) EXCEPT !.id = NewId]
  IN /\ Running("WriteInPlace", "found") /\ Memory
     /\ IF Len(buf.val.body) = call.req.n
        THEN /\ Invalidate({k})
             /\ pending' = {[key |-> k, buf |-> buf]}
             /\ Return(TRUE)
        ELSE /\ read_cache' = Drop(read_cache, {k})
             /\ volatile_cache' = IF k \in DOMAIN read_cache THEN volatile_cache
                                  ELSE Drop(volatile_cache, {k})
             /\ borrows' = {w \in borrows : w.key # k}
             /\ UNCHANGED pending
             /\ Return(FALSE)
     /\ UNCHANGED <<store, open, retired, list_cache>>

-----------------------------------------------------------------------------
\* Calls that do not resolve first.

\* A head that build_xvalue_head refuses stages nothing.
WriteNewPlace ==
  LET k == call.req.key
      val == call.req.val
  IN /\ Running("WriteNewPlace", "exec") /\ Memory
     /\ IF val.kind \in Kinds
        THEN Invalidate({k}) /\ pending' = {[key |-> k, buf |-> NewBuffer(val)]}
        ELSE UNCHANGED <<read_cache, volatile_cache, borrows, pending>>
     /\ Return(val.kind \in Kinds)
     /\ UNCHANGED <<store, open, retired, list_cache>>

SetValue ==
  /\ Running("SetValue", "exec")
  /\ list_cache' = IF call.req.val.kind \in Kinds THEN {} ELSE list_cache
  /\ \E r \in Outcomes(set(store, call.req.key, call.req.val)) :
       /\ store' = r.store
       /\ IF r.ok THEN Invalidate({call.req.key})
                  ELSE UNCHANGED <<read_cache, volatile_cache, borrows>>
       /\ Return(r.ok)
  /\ UNCHANGED <<open, retired, pending>>

\* Defect: the entries go only when the call succeeds.
Structural_OnSuccess(op, result, named) ==
  /\ Running(op, "exec")
  /\ \E r \in Outcomes(result) :
       /\ store' = r.store /\ Return(r.ok)
       /\ IF r.ok THEN Invalidate(named) ELSE UNCHANGED <<read_cache, volatile_cache, borrows>>
  /\ UNCHANGED <<open, retired, pending, list_cache>>

\* A backend call that names keys: their cache entries go whatever it returns.
Structural(op, result, named) ==
  /\ Running(op, "exec")
  /\ \E r \in Outcomes(result) : store' = r.store /\ Return(r.ok)
  /\ Invalidate(named)
  /\ UNCHANGED <<open, retired, pending, list_cache>>

DelTree ==
  Structural("DelTree", del_tree(store, call.req.key), Below(call.req.key))
Cp == Structural("Cp", cp(store, call.req.key, call.req.to), {call.req.to})
CpTree ==
  Structural("CpTree",
             cp_tree(store, call.req.key, call.req.to, SetToSeq(copy_keys(store, call.req.key))),
             Below(call.req.to))
CpList ==
  Structural("CpList",
             cp_list(store, call.req.key, call.req.to, SetToSeq(copy_keys(store, call.req.key))),
             Below(call.req.to))
Mkindex == Structural("Mkindex", mkindex(store, call.req.key), {})
MkindexExt == Structural("MkindexExt", ext_index(store, call.req.key, call.req.to), {})
RmindexExt == Structural("RmindexExt", del_ext_index(store, call.req.key), {})

\* A handoff key retires the rest of the read cache.
Del ==
  LET named == ToSet(call.req.keys)
      handoff == \E k \in named : is_handoff(k)
      kept == {k \in DOMAIN read_cache : k \notin named}
  IN /\ Running("Del", "exec")
     /\ \E r \in Outcomes(del(store, call.req.keys)) : store' = r.store /\ Return(r.ok)
     /\ read_cache' = IF handoff THEN Empty ELSE [k \in kept |-> read_cache[k]]
     /\ retired' = IF handoff THEN retired \cup {read_cache[k] : k \in kept} ELSE retired
     /\ volatile_cache' = Drop(volatile_cache, named)
     /\ borrows' = {w \in borrows : w.key \notin named}
     /\ list_cache' = IF handoff THEN {} ELSE list_cache
     /\ UNCHANGED <<open, pending>>

\* Clear drops the read cache, not the rings; every key is deleted, so every
\* view ends.
Clear ==
  /\ Running("Clear", "exec")
  /\ \E r \in Outcomes(clear(store)) :
       /\ store' = r.store
       /\ read_cache' = IF r.ok THEN Empty ELSE read_cache
       /\ borrows' = IF r.ok THEN {} ELSE borrows
       /\ Return(r.ok)
  /\ UNCHANGED <<open, volatile_cache, retired, pending, list_cache>>

-----------------------------------------------------------------------------
\* Listing.  ListLen always lists; ListAt continues the snapshot of the same
\* arguments while its index grows.

Snapshot(c, cursor) ==
  [prefix |-> c.key, expand_ext |-> c.expand_ext, resolve |-> c.resolve,
   names |-> list(store, c.key, c.expand_ext, c.resolve), cursor |-> cursor]

Reusable(c) ==
  {l \in list_cache : /\ l.prefix = c.key /\ l.expand_ext = c.expand_ext /\ l.resolve = c.resolve
                      /\ c.n > l.cursor}

ListLen ==
  /\ Running("ListLen", "exec")
  /\ IF validate_dir(call.req.key)
     THEN list_cache' = {Snapshot(call.req, -1)} /\ Return(TRUE)
     ELSE UNCHANGED list_cache /\ Return(FALSE)
  /\ UNCHANGED <<store, open, caches, pending, borrows>>

ListAt ==
  LET c == call.req
      old == CHOOSE l \in Reusable(c) : TRUE
      snap == IF Reusable(c) # {} THEN [old EXCEPT !.cursor = c.n] ELSE Snapshot(c, c.n)
  IN /\ Running("ListAt", "exec")
     /\ IF validate_dir(c.key)
        THEN list_cache' = {snap} /\ Return(c.n < Cardinality(snap.names))
        ELSE UNCHANGED list_cache /\ Return(FALSE)
     /\ UNCHANGED <<store, open, caches, pending, borrows>>

ListFails ==
  /\ Faults
  /\ \/ Running("ListLen", "exec")
     \/ Running("ListAt", "exec") /\ Reusable(call.req) = {}
  /\ validate_dir(call.req.key)
  /\ list_cache' = {} /\ Return(FALSE)
  /\ UNCHANGED <<store, open, caches, pending, borrows>>

-----------------------------------------------------------------------------
\* Defect: the old snapshots are freed instead of retired.
Watch_Frees ==
  /\ Running("Watch", "exec") /\ Memory
  /\ get_one(store, call.req.key) = call.req.val
  /\ LET buf == NewBuffer(call.req.val)
     IN /\ read_cache' = Put(Empty, call.req.key, buf)
        /\ borrows' = borrows \cup {View(call.req.key, buf, FALSE)}
  /\ list_cache' = {}
  /\ Return(TRUE)
  /\ UNCHANGED <<store, open, volatile_cache, retired, pending>>

\* Watch polls until the key holds the target, then keeps every old snapshot
\* alive in retired and starts the read cache anew with what it saw.
Watch ==
  /\ Running("Watch", "exec") /\ Memory
  /\ get_one(store, call.req.key) = call.req.val
  /\ LET buf == NewBuffer(call.req.val)
     IN /\ read_cache' = Put(Empty, call.req.key, buf)
        /\ borrows' = borrows \cup {View(call.req.key, buf, FALSE)}
  /\ retired' = retired \cup {read_cache[k] : k \in DOMAIN read_cache}
  /\ list_cache' = {}
  /\ Return(TRUE)
  /\ UNCHANGED <<store, open, volatile_cache, pending>>

WatchFails ==
  /\ Faults
  /\ Running("Watch", "exec")
  /\ Return(FALSE)
  /\ UNCHANGED <<store, open, caches, pending, list_cache, borrows>>

\* The body pointer of a staged write: the caller fills it before its next call.
FillBody(body) ==
  /\ call = Idle
  /\ \E w \in pending :
       /\ Len(body) = Len(w.buf.val.body)
       /\ pending' = {[w EXCEPT !.buf.val.body = body]}
  /\ UNCHANGED <<store, open, caches, list_cache, call, ret, borrows>>

\* Defect: Close flushes without looking at the result.
Close_Silent ==
  /\ open /\ call = Idle
  /\ \/ \E w \in pending : \E r \in Outcomes(set(store, w.key, w.buf.val)) : store' = r.store
     \/ pending = {} /\ store' = store
  /\ ret' = TRUE
  /\ open' = FALSE
  /\ read_cache' = Empty /\ volatile_cache' = Empty /\ retired' = {}
  /\ pending' = {} /\ list_cache' = {} /\ borrows' = {}
  /\ UNCHANGED call

\* Close flushes; a failure is written to stderr and the write is lost.
Close ==
  /\ open /\ call = Idle
  /\ \/ \E w \in pending : \E r \in Outcomes(set(store, w.key, w.buf.val)) :
          store' = r.store /\ ret' = r.ok
     \/ pending = {} /\ store' = store /\ ret' = TRUE
  /\ open' = FALSE
  /\ read_cache' = Empty /\ volatile_cache' = Empty /\ retired' = {}
  /\ pending' = {} /\ list_cache' = {} /\ borrows' = {}
  /\ UNCHANGED call

Connect ==
  /\ ~ open
  /\ open' = TRUE
  /\ UNCHANGED <<store, caches, pending, list_cache, call, ret, borrows>>

\* Another handle or process writes or deletes a key.
Environment(e) ==
  /\ \A kv \in e.when : Lookup(store, kv[1]) = kv[2]
  /\ store' = (IF e.val = Absent THEN del_one(store, e.key) ELSE set(store, e.key, e.val)).store
  /\ UNCHANGED <<open, caches, pending, list_cache, call, ret, borrows>>

Fetch == FetchHit \/ FetchMiss \/ FetchVolatile \/ FetchFails
Finish ==
  \/ Get \/ GetHead \/ SetPart \/ WriteInPlace \/ WriteNewPlace \/ SetValue
  \/ Del \/ DelTree \/ Cp \/ CpTree \/ CpList \/ Mkindex \/ MkindexExt \/ RmindexExt \/ Clear
  \/ ListLen \/ ListAt \/ ListFails \/ Watch \/ WatchFails

Next ==
  \/ \E c \in Requests : Begin(c)
  \/ Fetch
  \/ Finish
  \/ \E body \in Bodies : FillBody(body)
  \/ Close \/ Connect
  \/ \E e \in EnvWrites : Environment(e)

Spec == Init /\ [][Next]_vars

-----------------------------------------------------------------------------
IsBuffer(b, ids) == b = [id |-> b.id, val |-> b.val] /\ b.id \in ids
IsView(w) ==
  /\ w = [key |-> w.key, id |-> w.id, val |-> w.val, ring |-> w.ring, age |-> w.age]
  /\ w.ring \in BOOLEAN /\ w.age \in 0 .. 3

\* Every owner holds allocated buffers; rings have four slots; at most one write
\* is staged.
BuffersOK ==
  /\ \A k \in DOMAIN read_cache : IsBuffer(read_cache[k], BufIds)
  /\ \A k \in DOMAIN volatile_cache :
       /\ volatile_cache[k].which \in 0 .. 3
       /\ volatile_cache[k].slots = [i \in 0 .. 3 |-> volatile_cache[k].slots[i]]
       /\ \A i \in 0 .. 3 : IsBuffer(volatile_cache[k].slots[i], BufIds \cup {NoId})
  /\ \A b \in retired : IsBuffer(b, BufIds)
  /\ \A w \in pending : w = [key |-> w.key, buf |-> w.buf] /\ IsBuffer(w.buf, BufIds)
  /\ \A w, x \in pending : w = x
  /\ \A w \in borrows : IsView(w)
CallOK ==
  \/ call = Idle
  \/ /\ call = [phase |-> call.phase, req |-> call.req, cur |-> call.cur, hop |-> call.hop]
     /\ call.phase \in {"resolve", "found", "exec"}
     /\ call.hop \in 0 .. MAX_PTR_HOPS
     /\ pending = {}
     /\ call.phase = "found" =>
          call.cur \in DOMAIN (IF is_volatile(call.cur) THEN volatile_cache ELSE read_cache)

\* Shape of the handle's state: buffers as above, no write staged while a call is
\* in progress (every entry point flushes first), and the key a call has
\* resolved is in the cache the call will read (cached_slice().unwrap()).
TypeOK == open \in BOOLEAN /\ ret \in BOOLEAN /\ BuffersOK /\ CallOK

\* The buffer of a view is still allocated and holds what the view showed.
Held(w) == [id |-> w.id, val |-> w.val] \in Buffers

\* kvspaceGet, kvspaceGetPart and kvspaceWatch: a pointer handed out stays
\* valid, with unchanged bytes, until a call on this handle names its key for
\* writing or deletion, or closes it; for a control key, through three further
\* changes.  Reads, Watch, retirement and listing never break it, and the
\* buffer the caller fills for a staged write is never one it still reads.
BorrowSafe ==
  \A w \in borrows : Held(w) /\ \A p \in pending : p.buf.id # w.id

\* Reads and writes of k go to k itself: no link on the way, no extension asked.
Direct(s, k) == locate(s, k) \in {k, <<>>} /\ resolve_parent(s, k) = k

\* The keys that the step in progress names.
Named ==
  {w.key : w \in pending} \cup
  IF call = Idle THEN {} ELSE {call.req.key, call.req.to, call.cur} \cup ToSet(call.req.keys)

\* By another name: a key of the call or a cached one leads elsewhere, a copy goes
\* to what a link names, or Del of "/k/" deletes "/k" along with it.
Aliased(k) ==
  \/ \E x \in Named \cup {k} : ~ Direct(store, x)
  \/ ~ Direct(store', k)
  \/ /\ call # Idle
     /\ \/ call.req.op \in {"CpTree", "CpList"} /\ is_ptr(store, strip_dir_suf(call.req.to))
        \/ call.req.op = "Del" /\ k \notin Named /\ k \in {strip_dir_suf(x) : x \in Named}

\* Calls that keep what they make stale: the two extension calls drop no entry
\* (ffi.rs:1133-1174), SetValue, SetPart and Clear none when they fail.
KeepsCopies ==
  /\ call # Idle
  /\ \/ call.req.op \in {"MkindexExt", "RmindexExt"}
     \/ call.req.op \in {"SetValue", "SetPart", "Clear"} /\ call' = Idle /\ ~ ret'

Fresh(cache, s, k) == cache[k].val = get_raw(s, k)
Kept(k) == k \in DOMAIN read_cache /\ read_cache'[k] = read_cache[k]
OwnStep == <<open, pending, call>>' # <<open, pending, call>>

\* What this handle does to the store, failing half way included, never makes a
\* cached copy stale, and what it caches is fresh (cache_invalidate after each
\* write, delete and copy): a later read cannot be served what this handle has
\* overwritten.  Left out are the calls that keep copies, a removed or mounted
\* locator read under its directory key among them, and writes by another name.
CacheCoherent ==
  [][OwnStep /\ ~ KeepsCopies =>
       \A k \in DOMAIN read_cache' :
         \/ Fresh(read_cache', store', k)
         \/ Kept(k) /\ ~ Fresh(read_cache, store, k)
         \/ Aliased(k)]_vars

\* list_cache never survives a write of this handle, failed ones included: the
\* snapshot is what list would return (for a store only this handle writes).
ListCoherent ==
  \A l \in list_cache : l.names = list(store, l.prefix, l.expand_ext, l.resolve)

\* A staged write is never silently lost: it leaves the handle only by being
\* stored, or by a call (or Close) that does nothing else and reports failure.
StagedWriteSettled ==
  [][\A w \in pending :
       pending' = {} =>
         LET r == set(store, w.key, w.buf.val)
         IN (r.ok /\ store' = r.store) \/ (~ ret' /\ call' = Idle)]_vars

\* Every call returns, whatever pointer cycles the others build and rewrite while
\* it follows them, except a Watch while its key does not hold the target.
Waiting == Running("Watch", "exec") /\ get_one(store, call.req.key) # call.req.val
CallReturns == []<>(call = Idle \/ Waiting)

-----------------------------------------------------------------------------
(***************************************************************************)
(* Why views are safe: where the buffer of each view is, and that no two   *)
(* owners share a buffer.                                                  *)
(***************************************************************************)
Shown(w) == [id |-> w.id, val |-> w.val]
ViewsPlaced ==
  \A w \in borrows :
    IF w.ring
    THEN /\ w.key \in DOMAIN volatile_cache
         /\ volatile_cache[w.key].slots[(volatile_cache[w.key].which + 4 - w.age) % 4] = Shown(w)
    ELSE \/ w.key \in DOMAIN read_cache /\ read_cache[w.key] = Shown(w)
         \/ Shown(w) \in retired
OwnersDistinct ==
  \A k \in DOMAIN read_cache :
    /\ \A x \in DOMAIN read_cache : x # k => read_cache[x].id # read_cache[k].id
    /\ \A b \in retired : b.id # read_cache[k].id
    /\ \A x \in DOMAIN volatile_cache, i \in 0 .. 3 :
         volatile_cache[x].slots[i].id # read_cache[k].id
StagedUnseen == \A w \in borrows, p \in pending : p.buf.id # w.id
BorrowInv == TypeOK /\ ViewsPlaced /\ OwnersDistinct /\ StagedUnseen

-----------------------------------------------------------------------------
(***************************************************************************)
(* What comments of ffi.rs and tests say and the code does not keep.       *)
(***************************************************************************)

\* kvspaceGet: a view is valid until its key is overwritten or deleted.  A
\* WriteInPlace that fails on the length, and a failed Cp, free it as well.
FreedOnlyBySuccess == [][\A w \in borrows : (~ Held(w))' => ret']_vars

\* is_volatile: a control key must be read from the backend every time.  After
\* Watch, WriteInPlace stages the snapshot Watch left in read_cache.
StageMatchesGet ==
  [][Running("WriteInPlace", "found") =>
       \A w \in pending' : w.buf.val = Current(w.key).val]_vars
=============================================================================
