---------------------------- MODULE HandleProofs ----------------------------
(***************************************************************************)
(* Theorems about one handle (Handle.tla), for every set of requests, of   *)
(* writes by others, of buffers and every hop limit, with or without a     *)
(* failing backend.  The operations of the backend stay opaque but for the *)
(* fact that they return success or failure.                               *)
(***************************************************************************)
EXTENDS Handle, TLAPS

\* What BorrowInv says of the buffers, as against the call in progress.
MemInv == BuffersOK /\ ViewsPlaced /\ OwnersDistinct /\ StagedUnseen

\* NewBuffer allocates an address no owner and no view has.
LEMMA NewIdFresh ==
  ASSUME Memory
  PROVE  /\ NewId \in BufIds
         /\ \A k \in DOMAIN read_cache : read_cache[k].id # NewId
         /\ \A b \in retired : b.id # NewId
         /\ \A k \in DOMAIN volatile_cache, i \in 0 .. 3 : volatile_cache[k].slots[i].id # NewId
         /\ \A w \in borrows : w.id # NewId
  <1>1. NewId \in FreeIds
    BY DEF Memory, NewId
  <1>2. \A b \in Buffers : b.id # NewId
    BY <1>1 DEF FreeIds
  <1>3. \A w \in borrows : w.id # NewId
    BY <1>1 DEF FreeIds
  <1>4. \A k \in DOMAIN read_cache : read_cache[k] \in Buffers
    BY DEF Buffers
  <1>5. \A b \in retired : b \in Buffers
    BY DEF Buffers
  <1>6. \A k \in DOMAIN volatile_cache, i \in 0 .. 3 : volatile_cache[k].slots[i] \in Buffers
    BY DEF Buffers
  <1>. QED BY <1>1, <1>2, <1>3, <1>4, <1>5, <1>6 DEF FreeIds

\* A view's buffer is one of the handle's: the inductive invariant implies the
\* property.
LEMMA PlacedIsHeld == MemInv => BorrowSafe
  <1> SUFFICES ASSUME MemInv, NEW w \in borrows PROVE Held(w) /\ \A p \in pending : p.buf.id # w.id
    BY DEF BorrowSafe
  <1>1. \A p \in pending : p.buf.id # w.id
    BY DEF MemInv, StagedUnseen
  <1>2. CASE w.ring
    <2> DEFINE ring == volatile_cache[w.key]
               i == (ring.which + 4 - w.age) % 4
    <2>1. w.key \in DOMAIN volatile_cache /\ ring.slots[i] = Shown(w)
      BY <1>2 DEF MemInv, ViewsPlaced
    <2>2. ring.which \in 0 .. 3 /\ w.age \in 0 .. 3
      BY <2>1 DEF MemInv, BuffersOK, IsView
    <2>3. i \in 0 .. 3
      BY <2>2
    <2>4. ring.slots[i] \in Buffers
      BY <2>1, <2>3 DEF Buffers
    <2>. QED BY <1>1, <2>1, <2>4 DEF Held, Shown
  <1>3. CASE ~ w.ring
    <2>1. \/ w.key \in DOMAIN read_cache /\ read_cache[w.key] = Shown(w)
          \/ Shown(w) \in retired
      BY <1>3 DEF MemInv, ViewsPlaced
    <2>2. Shown(w) \in Buffers
      BY <2>1 DEF Buffers
    <2>. QED BY <1>1, <2>2 DEF Held, Shown
  <1>. QED BY <1>2, <1>3

\* Entries may leave the caches as long as no live view needs them: the entries
\* of keys whose views end, and entries that move to retired.
LEMMA ShrinkInv ==
  ASSUME MemInv,
         NEW R \in SUBSET DOMAIN read_cache, NEW V \in SUBSET DOMAIN volatile_cache,
         read_cache' = [k \in R |-> read_cache[k]],
         volatile_cache' = [k \in V |-> volatile_cache[k]],
         retired \subseteq retired',
         retired' \subseteq retired \cup {read_cache[k] : k \in DOMAIN read_cache \ R},
         borrows' \subseteq borrows,
         \A k \in DOMAIN read_cache \ R :
           read_cache[k] \in retired' \/ \A w \in borrows' : w.key # k,
         \A k \in DOMAIN volatile_cache \ V : \A w \in borrows' : w.key # k,
         pending' \subseteq pending
  PROVE  MemInv'
  <1>1. BuffersOK'
    <2>1. \A k \in DOMAIN read_cache' : IsBuffer(read_cache'[k], BufIds)
      BY DEF MemInv, BuffersOK
    <2>2. DOMAIN volatile_cache' = V /\ \A k \in V : volatile_cache'[k] = volatile_cache[k]
      OBVIOUS
    <2>3. \A b \in retired' : IsBuffer(b, BufIds)
      BY DEF MemInv, BuffersOK
    <2>4. /\ \A w \in pending' : w \in pending
          /\ \A w \in borrows' : w \in borrows
      OBVIOUS
    <2>. QED BY <2>1, <2>2, <2>3, <2>4 DEF MemInv, BuffersOK
  <1>2. ViewsPlaced'
    <2> SUFFICES ASSUME NEW w \in borrows'
                 PROVE  IF w.ring
                        THEN /\ w.key \in V
                             /\ volatile_cache[w.key].slots[(volatile_cache[w.key].which + 4 - w.age) % 4] = Shown(w)
                        ELSE \/ w.key \in R /\ read_cache[w.key] = Shown(w)
                             \/ Shown(w) \in retired'
      BY DEF ViewsPlaced, Shown
    <2>1. w \in borrows
      OBVIOUS
    <2>. QED BY <2>1 DEF MemInv, ViewsPlaced
  <1>3. OwnersDistinct'
    BY DEF MemInv, OwnersDistinct
  <1>4. StagedUnseen'
    BY DEF MemInv, StagedUnseen
  <1>. QED BY <1>1, <1>2, <1>3, <1>4 DEF MemInv

LEMMA SameInv == MemInv /\ UNCHANGED <<caches, pending, borrows>> => MemInv'
  BY DEF MemInv, BuffersOK, ViewsPlaced, OwnersDistinct, StagedUnseen, caches, IsBuffer, IsView, Shown

-----------------------------------------------------------------------------
\* Every backend operation returns Ok or Err.
LEMMA BackendReturns ==
  ASSUME NEW s, NEW a, NEW b, NEW c
  PROVE  /\ set(s, a, b).ok \in BOOLEAN
         /\ set_part(s, a, b, c).ok \in BOOLEAN
         /\ cp(s, a, b).ok \in BOOLEAN
         /\ del_one(s, a).ok \in BOOLEAN
         /\ del(s, a).ok \in BOOLEAN
         /\ del_tree(s, a).ok \in BOOLEAN
         /\ cp_tree(s, a, b, c).ok \in BOOLEAN
         /\ cp_list(s, a, b, c).ok \in BOOLEAN
         /\ mkindex(s, a).ok \in BOOLEAN
         /\ ext_index(s, a, b).ok \in BOOLEAN
         /\ del_ext_index(s, a).ok \in BOOLEAN
         /\ clear(s).ok \in BOOLEAN
  <1>1. \A k, v : set(s, k, v).ok \in BOOLEAN
    BY DEF set, Ok, Err
  <1>2. set_part(s, a, b, c).ok \in BOOLEAN
    BY DEF set_part, overwrite, Ok, Err
  <1>3. cp(s, a, b).ok \in BOOLEAN
    BY <1>1 DEF cp, Err
  <1>4. \A k : del_one(s, k).ok \in BOOLEAN
    BY DEF del_one, del_at, Ok, Err
  <1>5. del(s, a).ok \in BOOLEAN
    BY DEF del, Ok, Err
  <1>6. del_tree(s, a).ok \in BOOLEAN
    BY <1>4 DEF del_tree, Ok, Err
  <1>7. cp_tree(s, a, b, c).ok \in BOOLEAN
    BY DEF cp_tree, copy_tree, Ok, Err
  <1>8. cp_list(s, a, b, c).ok \in BOOLEAN
    BY DEF cp_list, copy_list, Ok, Err
  <1>9. mkindex(s, a).ok \in BOOLEAN /\ ext_index(s, a, b).ok \in BOOLEAN
    BY DEF mkindex, ext_index, Ok, Err
  <1>10. del_ext_index(s, a).ok \in BOOLEAN /\ clear(s).ok \in BOOLEAN
    BY DEF del_ext_index, clear, Ok
  <1>. QED BY <1>1, <1>2, <1>3, <1>4, <1>5, <1>6, <1>7, <1>8, <1>9, <1>10

\* A failing backend turns a result into a failure, never into a success.
LEMMA OutcomeReturns ==
  ASSUME NEW r, r.ok \in BOOLEAN, NEW x \in Outcomes(r)
  PROVE  x.ok \in BOOLEAN /\ (x.ok => x = r)
  <1>1. x = r \/ \E m : x = Err(m)
    BY DEF Outcomes
  <1>2. \A m : Err(m).ok = FALSE
    BY DEF Err
  <1>. QED BY <1>1, <1>2

-----------------------------------------------------------------------------
\* The inductive invariant, step by step.

LEMMA Parts ==
  /\ BorrowInv => open \in BOOLEAN /\ ret \in BOOLEAN /\ MemInv /\ CallOK
  /\ open' \in BOOLEAN /\ ret' \in BOOLEAN /\ MemInv' /\ CallOK' => BorrowInv'
  BY DEF BorrowInv, MemInv, TypeOK

LEMMA IdleOK == call' = Idle => CallOK'
  BY DEF CallOK

\* No write is staged while a call is in progress.
LEMMA NoneStaged ==
  ASSUME CallOK, call # Idle
  PROVE  pending = {} /\ call.hop \in 0 .. MAX_PTR_HOPS
         /\ call = [phase |-> call.phase, req |-> call.req, cur |-> call.cur, hop |-> call.hop]
  BY DEF CallOK

LEMMA InProgress == \A p : p # "idle" /\ call.phase = p => call # Idle
  BY DEF Idle

LEMMA InitInv == Init => BorrowInv
  BY DEF Init, BorrowInv, TypeOK, BuffersOK, CallOK, ViewsPlaced, OwnersDistinct, StagedUnseen, Empty

LEMMA BeginInv ==
  ASSUME BorrowInv, NEW c, Begin(c)
  PROVE  BorrowInv'
  <1> USE Parts
  <1>1. open' \in BOOLEAN
    BY DEF Begin
  <1>2. ASSUME pending' = {}, call' = Started(c) PROVE CallOK'
    <2>1. call' = [phase |-> call'.phase, req |-> call'.req, cur |-> call'.cur, hop |-> call'.hop]
      BY <1>2 DEF Started
    <2>2. call'.phase \in {"resolve", "exec"} /\ call'.hop = 0
      BY <1>2 DEF Started
    <2>3. call'.hop \in 0 .. MAX_PTR_HOPS
      BY <2>2, HopsAssumption
    <2>. QED BY <1>2, <2>1, <2>2, <2>3 DEF CallOK
  <1>3. CASE BeginFlush(c)
    <2>1. PICK w \in pending : \E r \in Outcomes(set(store, w.key, w.buf.val)) :
            /\ Invalidate({w.key})
            /\ pending' = {}
            /\ IF r.ok THEN call' = Started(c) /\ UNCHANGED ret ELSE Return(FALSE)
            /\ UNCHANGED retired
      BY <1>3 DEF BeginFlush
    <2> DEFINE R == {x \in DOMAIN read_cache : x # w.key}
               V == {x \in DOMAIN volatile_cache : x # w.key}
    <2>2. /\ read_cache' = [k \in R |-> read_cache[k]]
          /\ volatile_cache' = [k \in V |-> volatile_cache[k]]
          /\ borrows' = {v \in borrows : v.key # w.key}
      BY <2>1 DEF Invalidate, Drop
    <2>3. MemInv'
      BY <2>1, <2>2, ShrinkInv
    <2>4. ret' \in BOOLEAN /\ CallOK'
      BY <2>1, <1>2, IdleOK DEF Return
    <2>. QED BY <1>1, <2>3, <2>4
  <1>4. CASE BeginClean(c)
    <2>1. MemInv'
      BY <1>4, SameInv DEF BeginClean
    <2>2. ret' \in BOOLEAN /\ CallOK'
      BY <1>2, <1>4 DEF BeginClean
    <2>. QED BY <1>1, <2>1, <2>2
  <1>. QED BY <1>3, <1>4 DEF Begin

-----------------------------------------------------------------------------
\* Fetch: one hop of resolve_cached_key.

LEMMA FollowOK ==
  ASSUME CallOK, call.phase = "resolve", ret \in BOOLEAN, pending' = pending,
         NEW v, Follow(v) \/ Missing,
         Follow(v) => call.cur \in DOMAIN (IF is_volatile(call.cur) THEN volatile_cache' ELSE read_cache')
  PROVE  CallOK' /\ ret' \in BOOLEAN
  <1>1. /\ pending = {} /\ call.hop \in 0 .. MAX_PTR_HOPS
        /\ call = [phase |-> call.phase, req |-> call.req, cur |-> call.cur, hop |-> call.hop]
    BY NoneStaged, InProgress
  <1>2. ASSUME call' = Idle, ret' \in BOOLEAN PROVE CallOK' /\ ret' \in BOOLEAN
    BY <1>2, IdleOK
  <1>3. CASE Missing
    BY <1>2, <1>3 DEF Missing, Return
  <1>4. ASSUME call.hop # MAX_PTR_HOPS, call' = [call EXCEPT !.cur = v.body, !.hop = call.hop + 1],
               UNCHANGED ret
        PROVE  CallOK' /\ ret' \in BOOLEAN
    <2>1. /\ call' = [phase |-> call'.phase, req |-> call'.req, cur |-> call'.cur, hop |-> call'.hop]
          /\ call'.phase = "resolve" /\ call'.hop = call.hop + 1
      BY <1>1, <1>4
    <2>2. call'.hop \in 0 .. MAX_PTR_HOPS
      BY <1>1, <1>4, <2>1, HopsAssumption
    <2>. QED BY <1>1, <1>4, <2>1, <2>2 DEF CallOK
  <1>5. ASSUME call' = [call EXCEPT !.phase = "found"], UNCHANGED ret, Follow(v)
        PROVE  CallOK' /\ ret' \in BOOLEAN
    <2>1. /\ call' = [phase |-> call'.phase, req |-> call'.req, cur |-> call'.cur, hop |-> call'.hop]
          /\ call'.phase = "found" /\ call'.hop = call.hop /\ call'.cur = call.cur
      BY <1>1, <1>5
    <2>2. call'.cur \in DOMAIN (IF is_volatile(call'.cur) THEN volatile_cache' ELSE read_cache')
      BY <1>5, <2>1
    <2>. QED BY <1>1, <1>5, <2>1, <2>2 DEF CallOK
  <1>6. CASE Follow(v)
    BY <1>2, <1>3, <1>4, <1>5, <1>6 DEF Follow, Return
  <1>. QED BY <1>3, <1>6

\* A fresh buffer may enter the read cache under a key that has none.
LEMMA AllocInv ==
  ASSUME MemInv, Memory, NEW k, k \notin DOMAIN read_cache, NEW v,
         read_cache' = Put(read_cache, k, NewBuffer(v)),
         UNCHANGED <<volatile_cache, retired, pending, borrows>>
  PROVE  MemInv'
  <1> DEFINE buf == NewBuffer(v)
  <1>1. DOMAIN read_cache' = DOMAIN read_cache \cup {k}
    BY DEF Put
  <1>2. read_cache'[k] = buf /\ \A x \in DOMAIN read_cache : read_cache'[x] = read_cache[x]
    BY DEF Put
  <1>3. buf.id = NewId /\ IsBuffer(buf, BufIds)
    BY NewIdFresh DEF NewBuffer, IsBuffer
  <1> HIDE DEF buf
  <1>4. BuffersOK'
    BY <1>1, <1>2, <1>3 DEF MemInv, BuffersOK, IsView, IsBuffer
  <1>5. ViewsPlaced'
    BY <1>1, <1>2 DEF MemInv, ViewsPlaced, Shown
  <1>6. OwnersDistinct'
    BY <1>1, <1>2, <1>3, NewIdFresh DEF MemInv, OwnersDistinct
  <1>7. StagedUnseen'
    BY DEF MemInv, StagedUnseen
  <1>. QED BY <1>4, <1>5, <1>6, <1>7 DEF MemInv

\* Three changes later a slot of the ring is still there.
LEMMA RingArith ==
  ASSUME NEW q \in 0 .. 3, NEW a \in 0 .. 2
  PROVE  /\ (((q + 1) % 4) + 4 - (a + 1)) % 4 = (q + 4 - a) % 4
         /\ (q + 4 - a) % 4 # (q + 1) % 4
         /\ (q + 4 - a) % 4 \in 0 .. 3
         /\ (q + 1) % 4 \in 0 .. 3
  BY SMT

\* volatile_refresh: the key's ring stays or moves on by one slot, and what is
\* cached of a relaid function moves to retired.
LEMMA VolatileInv ==
  ASSUME MemInv, pending = {}, FetchVolatile
  PROVE  MemInv' /\ call.cur \in DOMAIN volatile_cache'
  <1> DEFINE k == call.cur
             raw == get_raw(store, k)
             ring == IF k \in DOMAIN volatile_cache THEN volatile_cache[k] ELSE NewRing
             prev == ring.slots[ring.which].val
             stale == StaleCode(k, prev, raw)
             buf == IF raw = Absent THEN EmptySlot ELSE NewBuffer(raw)
             ring2 == IF raw = prev THEN ring ELSE RingAfter(ring, buf)
  <1>1. /\ Memory
        /\ volatile_cache' = Put(volatile_cache, k, ring2)
        /\ borrows' = IF raw = prev THEN borrows ELSE Aged(borrows, k)
        /\ read_cache' = Drop(read_cache, stale)
        /\ retired' = retired \cup {read_cache[x] : x \in stale}
        /\ pending' = {}
    BY DEF FetchVolatile
  <1>2. stale \subseteq DOMAIN read_cache
    BY DEF StaleCode
  <1>3. /\ ring.which \in 0 .. 3
        /\ ring.slots = [i \in 0 .. 3 |-> ring.slots[i]]
        /\ \A i \in 0 .. 3 : IsBuffer(ring.slots[i], BufIds \cup {NoId})
    <2>1. CASE k \in DOMAIN volatile_cache
      BY <2>1 DEF MemInv, BuffersOK
    <2>2. CASE k \notin DOMAIN volatile_cache
      BY <2>2 DEF NewRing, EmptySlot, IsBuffer
    <2>. QED BY <2>1, <2>2
  <1>4. IsBuffer(buf, BufIds \cup {NoId}) /\ buf.id \in {NewId, NoId}
    BY <1>1, NewIdFresh DEF EmptySlot, NewBuffer, IsBuffer
  <1>5. \A x \in DOMAIN read_cache, i \in 0 .. 3 : ring.slots[i].id # read_cache[x].id
    <2>1. CASE k \in DOMAIN volatile_cache
      BY <2>1 DEF MemInv, OwnersDistinct
    <2>2. CASE k \notin DOMAIN volatile_cache
      BY <2>2, NoIdAssumption DEF NewRing, EmptySlot, MemInv, BuffersOK, IsBuffer
    <2>. QED BY <2>1, <2>2
  <1>6. \A x \in DOMAIN read_cache : buf.id # read_cache[x].id
    <2>1. \A x \in DOMAIN read_cache : read_cache[x].id \in BufIds
      BY DEF MemInv, BuffersOK, IsBuffer
    <2>2. \A x \in DOMAIN read_cache : read_cache[x].id # NewId
      BY <1>1, NewIdFresh
    <2>. QED BY <1>4, <2>1, <2>2, NoIdAssumption
  <1>7. \A w \in borrows : w.ring /\ w.key = k =>
          ring.slots[(ring.which + 4 - w.age) % 4] = Shown(w)
    BY DEF MemInv, ViewsPlaced
  <1> HIDE DEF raw, ring, prev, stale, buf
  <1>8. /\ DOMAIN volatile_cache' = DOMAIN volatile_cache \cup {k}
        /\ volatile_cache'[k] = ring2
        /\ \A x \in DOMAIN volatile_cache : x # k => volatile_cache'[x] = volatile_cache[x]
    BY <1>1 DEF Put
  <1>9. /\ DOMAIN read_cache' = DOMAIN read_cache \ stale
        /\ \A x \in DOMAIN read_cache \ stale : read_cache'[x] = read_cache[x]
    BY <1>1 DEF Drop
  <1> DEFINE next == (ring.which + 1) % 4
  <1>10. next \in 0 .. 3
    BY <1>3
  <1>11. ASSUME raw # prev
         PROVE  /\ ring2.which = next
                /\ ring2.slots[next] = buf
                /\ \A i \in 0 .. 3 : i # next => ring2.slots[i] = ring.slots[i]
                /\ ring2.slots = [i \in 0 .. 3 |-> ring2.slots[i]]
    BY <1>3, <1>10, <1>11 DEF RingAfter
  <1>12. ring2.which \in 0 .. 3 /\ ring2.slots = [i \in 0 .. 3 |-> ring2.slots[i]]
    BY <1>3, <1>10, <1>11
  <1>13. \A i \in 0 .. 3 : IsBuffer(ring2.slots[i], BufIds \cup {NoId})
    BY <1>3, <1>4, <1>10, <1>11
  <1>14. \A x \in DOMAIN read_cache, i \in 0 .. 3 : ring2.slots[i].id # read_cache[x].id
    BY <1>5, <1>6, <1>10, <1>11
  <1>15. ASSUME NEW w \in borrows'
         PROVE  \E v \in borrows :
                  /\ IsView(w) /\ w.key = v.key /\ w.ring = v.ring /\ Shown(w) = Shown(v)
                  /\ IF w.ring /\ w.key = k /\ raw # prev
                     THEN v.age \in 0 .. 2 /\ w.age = v.age + 1
                     ELSE w.age = v.age
    <2>1. CASE raw = prev
      BY <1>1, <2>1 DEF MemInv, BuffersOK
    <2>2. CASE raw # prev
      <3>1. w \in Aged(borrows, k)
        BY <1>1, <1>15, <2>2
      <3>2. PICK v \in borrows :
              /\ v.ring /\ v.key = k => v.age < 3
              /\ w = IF v.ring /\ v.key = k THEN [v EXCEPT !.age = v.age + 1] ELSE v
        BY <3>1 DEF Aged
      <3>3. IsView(v)
        BY DEF MemInv, BuffersOK
      <3>4. CASE v.ring /\ v.key = k
        <4>1. w = [key |-> v.key, id |-> v.id, val |-> v.val, ring |-> v.ring, age |-> v.age + 1]
          BY <3>2, <3>3, <3>4 DEF IsView
        <4>2. v.age \in 0 .. 2
          BY <3>2, <3>3, <3>4 DEF IsView
        <4>3. w.key = v.key /\ w.id = v.id /\ w.val = v.val /\ w.ring = v.ring /\ w.age = v.age + 1
          BY <4>1
        <4>4. IsView(w)
          BY <3>3, <4>1, <4>2, <4>3 DEF IsView
        <4>5. Shown(w) = Shown(v)
          BY <4>3 DEF Shown
        <4>. QED BY <2>2, <3>4, <4>2, <4>3, <4>4, <4>5
      <3>5. CASE ~ (v.ring /\ v.key = k)
        BY <3>2, <3>3, <3>5
      <3>. QED BY <3>4, <3>5
    <2>. QED BY <2>1, <2>2
  <1> HIDE DEF ring2, next
  <1>16. BuffersOK'
    <2>1. \A x \in DOMAIN read_cache' : IsBuffer(read_cache'[x], BufIds)
      BY <1>9 DEF MemInv, BuffersOK
    <2>2. \A x \in DOMAIN volatile_cache' :
            /\ volatile_cache'[x].which \in 0 .. 3
            /\ volatile_cache'[x].slots = [i \in 0 .. 3 |-> volatile_cache'[x].slots[i]]
            /\ \A i \in 0 .. 3 : IsBuffer(volatile_cache'[x].slots[i], BufIds \cup {NoId})
      <3> TAKE x \in DOMAIN volatile_cache'
      <3>1. CASE x = k
        BY <1>8, <1>12, <1>13, <3>1
      <3>2. CASE x # k
        <4>1. x \in DOMAIN volatile_cache /\ volatile_cache'[x] = volatile_cache[x]
          BY <1>8, <3>2
        <4>. QED BY <4>1 DEF MemInv, BuffersOK
      <3>. QED BY <3>1, <3>2
    <2>3. \A b \in retired' : IsBuffer(b, BufIds)
      BY <1>1, <1>2 DEF MemInv, BuffersOK
    <2>4. \A w \in borrows' : IsView(w)
      BY <1>15
    <2>. QED BY <1>1, <2>1, <2>2, <2>3, <2>4 DEF BuffersOK, IsBuffer, IsView
  <1>17. ViewsPlaced'
    <2> SUFFICES ASSUME NEW w \in borrows'
                 PROVE  IF w.ring
                        THEN /\ w.key \in DOMAIN volatile_cache'
                             /\ volatile_cache'[w.key].slots[(volatile_cache'[w.key].which + 4 - w.age) % 4] = Shown(w)
                        ELSE \/ w.key \in DOMAIN read_cache' /\ read_cache'[w.key] = Shown(w)
                             \/ Shown(w) \in retired'
      BY DEF ViewsPlaced, Shown
    <2>1. PICK v \in borrows :
            /\ w.key = v.key /\ w.ring = v.ring /\ Shown(w) = Shown(v)
            /\ IF w.ring /\ w.key = k /\ raw # prev
               THEN v.age \in 0 .. 2 /\ w.age = v.age + 1
               ELSE w.age = v.age
      BY <1>15
    <2>2. CASE ~ w.ring
      BY <1>1, <1>9, <2>1, <2>2 DEF MemInv, ViewsPlaced
    <2>3. CASE w.ring /\ w.key # k
      BY <1>8, <2>1, <2>3 DEF MemInv, ViewsPlaced
    <2>4. CASE w.ring /\ w.key = k /\ raw = prev
      <3>1. volatile_cache'[k] = ring /\ w.key \in DOMAIN volatile_cache'
        BY <1>8, <2>4 DEF ring2
      <3>2. v.ring /\ v.key = k /\ w.age = v.age /\ Shown(w) = Shown(v)
        BY <2>1, <2>4
      <3>3. ring.slots[(ring.which + 4 - v.age) % 4] = Shown(v)
        BY <1>7, <3>2
      <3>. QED BY <2>4, <3>1, <3>2, <3>3
    <2>5. CASE w.ring /\ w.key = k /\ raw # prev
      <3>1. v.age \in 0 .. 2 /\ w.age = v.age + 1
        BY <2>1, <2>5
      <3>2. ring.slots[(ring.which + 4 - v.age) % 4] = Shown(w)
        BY <1>7, <2>1, <2>5
      <3>3. (ring2.which + 4 - w.age) % 4 = (ring.which + 4 - v.age) % 4
        BY <1>3, <1>11, <2>5, <3>1, RingArith DEF next
      <3>4. /\ (ring.which + 4 - v.age) % 4 # next
            /\ (ring.which + 4 - v.age) % 4 \in 0 .. 3
        BY <1>3, <3>1, RingArith DEF next
      <3>. QED BY <1>8, <1>11, <2>5, <3>2, <3>3, <3>4
    <2>. QED BY <2>2, <2>3, <2>4, <2>5
  <1>18. OwnersDistinct'
    <2> SUFFICES ASSUME NEW y \in DOMAIN read_cache'
                 PROVE  /\ \A x \in DOMAIN read_cache' : x # y => read_cache'[x].id # read_cache'[y].id
                        /\ \A b \in retired' : b.id # read_cache'[y].id
                        /\ \A x \in DOMAIN volatile_cache', i \in 0 .. 3 :
                             volatile_cache'[x].slots[i].id # read_cache'[y].id
      BY DEF OwnersDistinct
    <2>1. y \in DOMAIN read_cache /\ y \notin stale /\ read_cache'[y] = read_cache[y]
      BY <1>9
    <2>2. \A x \in DOMAIN read_cache' : x # y => read_cache'[x].id # read_cache'[y].id
      BY <1>9, <2>1 DEF MemInv, OwnersDistinct
    <2>3. \A b \in retired' : b.id # read_cache'[y].id
      BY <1>1, <1>2, <2>1 DEF MemInv, OwnersDistinct
    <2>4. \A x \in DOMAIN volatile_cache', i \in 0 .. 3 :
            volatile_cache'[x].slots[i].id # read_cache'[y].id
      BY <1>8, <1>14, <2>1 DEF MemInv, OwnersDistinct
    <2>. QED BY <2>2, <2>3, <2>4
  <1>19. StagedUnseen'
    BY <1>1 DEF StagedUnseen
  <1>. QED BY <1>8, <1>16, <1>17, <1>18, <1>19 DEF MemInv

LEMMA FetchInv ==
  ASSUME BorrowInv, Fetch
  PROVE  BorrowInv'
  <1> USE Parts
  <1>1. /\ open \in BOOLEAN /\ ret \in BOOLEAN /\ MemInv /\ CallOK
        /\ open' = open /\ pending' = pending /\ pending = {} /\ call.phase = "resolve"
    BY NoneStaged, InProgress DEF Fetch, FetchHit, FetchMiss, FetchVolatile, FetchFails
  <1>2. CASE FetchHit
    <2>1. MemInv'
      BY <1>1, <1>2, SameInv DEF FetchHit
    <2>2. CallOK' /\ ret' \in BOOLEAN
      BY <1>1, <1>2, FollowOK DEF FetchHit, caches
    <2>. QED BY <1>1, <2>1, <2>2
  <1>3. CASE FetchMiss
    <2>1. CASE get_raw(store, call.cur) = Absent
      BY <1>1, <1>3, <2>1, SameInv, FollowOK, IdleOK DEF FetchMiss, caches, Missing, Return
    <2>2. CASE get_raw(store, call.cur) # Absent
      <3>1. /\ Memory /\ call.cur \notin DOMAIN read_cache /\ ~ is_volatile(call.cur)
            /\ read_cache' = Put(read_cache, call.cur, NewBuffer(get_raw(store, call.cur)))
            /\ UNCHANGED <<volatile_cache, retired, pending, borrows>>
            /\ Follow(get_raw(store, call.cur))
        BY <1>3, <2>2 DEF FetchMiss
      <3>2. MemInv'
        BY <1>1, <3>1, AllocInv
      <3>3. call.cur \in DOMAIN read_cache'
        BY <3>1 DEF Put
      <3>4. CallOK' /\ ret' \in BOOLEAN
        BY <1>1, <3>1, <3>3, FollowOK
      <3>. QED BY <1>1, <3>2, <3>4
    <2>. QED BY <2>1, <2>2
  <1>4. CASE FetchVolatile
    <2>1. MemInv' /\ call.cur \in DOMAIN volatile_cache'
      BY <1>1, <1>4, VolatileInv
    <2>2. is_volatile(call.cur) /\ (Missing \/ Follow(get_raw(store, call.cur)))
      BY <1>4 DEF FetchVolatile
    <2>3. CallOK' /\ ret' \in BOOLEAN
      BY <1>1, <2>1, <2>2, FollowOK
    <2>. QED BY <1>1, <2>1, <2>3
  <1>5. CASE FetchFails
    BY <1>1, <1>5, SameInv, IdleOK DEF FetchFails, Return
  <1>. QED BY <1>2, <1>3, <1>4, <1>5 DEF Fetch

-----------------------------------------------------------------------------
\* Finish: the step that ends a call.

\* Calls that read, or name no key.
LEMMA SameCacheInv ==
  ASSUME BorrowInv, GetHead \/ ListLen \/ ListAt \/ ListFails \/ WatchFails
  PROVE  BorrowInv'
  <1>1. /\ call # Idle /\ UNCHANGED <<open, pending>> /\ UNCHANGED <<caches, pending, borrows>>
        /\ call' = Idle /\ ret' \in BOOLEAN
    <2>1. CASE GetHead \/ WatchFails \/ ListFails
      BY <2>1, InProgress DEF GetHead, WatchFails, ListFails, Running, Return
    <2>2. CASE ListLen
      BY <2>2, InProgress DEF ListLen, Running, Return
    <2>3. CASE ListAt
      <3>1. call.phase = "exec" /\ UNCHANGED <<store, open, caches, pending, borrows>>
        BY <2>3 DEF ListAt, Running
      <3>2. PICK n : Return(call.req.n < n) \/ Return(FALSE)
        BY <2>3, Zenon DEF ListAt
      <3>3. (call.req.n < n) \in BOOLEAN
        OBVIOUS
      <3>4. call' = Idle /\ ret' \in BOOLEAN
        BY <3>2, <3>3 DEF Return
      <3>. QED BY <3>1, <3>4, InProgress
    <2>. QED BY <2>1, <2>2, <2>3
  <1>. QED BY <1>1, Parts, SameInv, IdleOK

\* A call that drops the entries of the keys it names.
LEMMA StructuralInv ==
  ASSUME BorrowInv, call # Idle, NEW K, Invalidate(K),
         UNCHANGED <<open, retired, pending>>,
         call' = Idle, ret' \in BOOLEAN
  PROVE  BorrowInv'
  <1>1. MemInv'
    BY ShrinkInv, Parts DEF Invalidate, Drop
  <1>. QED BY <1>1, Parts, IdleOK

LEMMA NamedInv ==
  ASSUME BorrowInv, DelTree \/ Cp \/ CpTree \/ CpList \/ Mkindex \/ MkindexExt \/ RmindexExt
  PROVE  BorrowInv'
  <1>1. call # Idle /\ UNCHANGED <<open, retired, pending>>
    BY InProgress DEF DelTree, Cp, CpTree, CpList, Mkindex, MkindexExt, RmindexExt, Structural, Running
  <1>2. call' = Idle /\ ret' \in BOOLEAN
    <2>1. CASE DelTree
      BY <2>1, BackendReturns, OutcomeReturns DEF DelTree, Structural, Return
    <2>2. CASE Cp
      BY <2>2, BackendReturns, OutcomeReturns DEF Cp, Structural, Return
    <2>3. CASE CpTree
      BY <2>3, BackendReturns, OutcomeReturns DEF CpTree, Structural, Return
    <2>4. CASE CpList
      BY <2>4, BackendReturns, OutcomeReturns DEF CpList, Structural, Return
    <2>5. CASE Mkindex
      BY <2>5, BackendReturns, OutcomeReturns DEF Mkindex, Structural, Return
    <2>6. CASE MkindexExt
      BY <2>6, BackendReturns, OutcomeReturns DEF MkindexExt, Structural, Return
    <2>7. CASE RmindexExt
      BY <2>7, BackendReturns, OutcomeReturns DEF RmindexExt, Structural, Return
    <2>. QED BY <2>1, <2>2, <2>3, <2>4, <2>5, <2>6, <2>7
  <1>3. ASSUME NEW K, Invalidate(K) PROVE BorrowInv'
    BY <1>1, <1>2, <1>3, StructuralInv
  <1>4. CASE DelTree
    <2>1. Invalidate(Below(call.req.key))
      BY <1>4 DEF DelTree, Structural
    <2>. QED BY <2>1, <1>3
  <1>5. CASE Cp
    <2>1. Invalidate({call.req.to})
      BY <1>5 DEF Cp, Structural
    <2>. QED BY <2>1, <1>3
  <1>6. CASE CpTree
    <2>1. Invalidate(Below(call.req.to))
      BY <1>6 DEF CpTree, Structural
    <2>. QED BY <2>1, <1>3
  <1>7. CASE CpList
    <2>1. Invalidate(Below(call.req.to))
      BY <1>7 DEF CpList, Structural
    <2>. QED BY <2>1, <1>3
  <1>8. CASE Mkindex \/ MkindexExt \/ RmindexExt
    <2>1. Invalidate({})
      BY <1>8 DEF Mkindex, MkindexExt, RmindexExt, Structural
    <2>. QED BY <2>1, <1>3
  <1>. QED BY <1>4, <1>5, <1>6, <1>7, <1>8

\* A new view shows the slot the call has just resolved.
LEMMA GetInv ==
  ASSUME BorrowInv, Get
  PROVE  BorrowInv'
  <1> DEFINE k == call.cur
             view == View(k, Current(k), is_volatile(k))
  <1>1. /\ MemInv /\ call.phase = "found" /\ pending = {} /\ call' = Idle /\ ret' = TRUE
        /\ UNCHANGED <<open, caches, pending>> /\ borrows' = borrows \cup {view}
    BY Parts, NoneStaged, InProgress DEF Get, Running, Return
  <1>2. k \in DOMAIN (IF is_volatile(k) THEN volatile_cache ELSE read_cache)
    BY <1>1, Parts, InProgress DEF CallOK
  <1>3. view = [key |-> k, id |-> Current(k).id, val |-> Current(k).val,
                ring |-> is_volatile(k), age |-> 0]
    BY DEF View
  <1>4. is_volatile(k) \in BOOLEAN
    BY DEF is_volatile
  <1>5. IsBuffer(Current(k), BufIds \cup {NoId})
    BY <1>1, <1>2, ZenonT(40) DEF Current, MemInv, BuffersOK, IsBuffer
  <1> HIDE DEF k, view
  <1>6. /\ IsView(view) /\ Shown(view) = Current(k)
        /\ view.key = k /\ view.ring = is_volatile(k) /\ view.age = 0
    BY <1>3, <1>4, <1>5 DEF IsView, Shown, IsBuffer
  <1>7. BuffersOK'
    BY <1>1, <1>6 DEF MemInv, BuffersOK, caches
  <1>8. ViewsPlaced'
    <2>1. CASE is_volatile(k)
      <3> DEFINE q == volatile_cache[k].which
      <3>1. k \in DOMAIN volatile_cache /\ Current(k) = volatile_cache[k].slots[q]
        BY <1>2, <2>1 DEF Current
      <3>2. q \in 0 .. 3
        BY <1>1, <3>1 DEF MemInv, BuffersOK
      <3>3. (q + 4 - 0) % 4 = q
        BY <3>2
      <3>4. volatile_cache[k].slots[(q + 4 - view.age) % 4] = Shown(view)
        BY <1>6, <3>1, <3>3
      <3>. QED BY <1>1, <1>6, <2>1, <3>1, <3>4 DEF MemInv, ViewsPlaced, caches, Shown
    <2>2. CASE ~ is_volatile(k)
      <3>1. k \in DOMAIN read_cache /\ Shown(view) = read_cache[k]
        BY <1>2, <1>6, <2>2 DEF Current
      <3>. QED BY <1>1, <1>6, <2>2, <3>1 DEF MemInv, ViewsPlaced, caches, Shown
    <2>. QED BY <2>1, <2>2
  <1>9. OwnersDistinct' /\ StagedUnseen'
    BY <1>1 DEF MemInv, OwnersDistinct, StagedUnseen, caches
  <1>. QED BY <1>1, <1>7, <1>8, <1>9, Parts, IdleOK DEF MemInv

\* SetPart and SetValue drop the key's entry when they succeed.
LEMMA WriteInv ==
  ASSUME BorrowInv, SetPart \/ SetValue
  PROVE  BorrowInv'
  <1>1. call # Idle /\ UNCHANGED <<open, retired, pending>>
    BY InProgress DEF SetPart, SetValue, Running
  <1>2. ASSUME call' = Idle, ret' \in BOOLEAN, UNCHANGED <<read_cache, volatile_cache, borrows>>
        PROVE  BorrowInv'
    BY <1>1, <1>2, SameInv, Parts, IdleOK DEF caches
  <1>3. CASE SetPart
    <2>1. PICK r \in Outcomes(set_part(store, call.cur, call.req.n, call.req.val.body)) :
            /\ IF r.ok THEN Invalidate({call.cur})
                       ELSE UNCHANGED <<read_cache, volatile_cache, borrows>>
            /\ Return(r.ok)
      BY <1>3 DEF SetPart, Invalidate
    <2>2. r.ok \in BOOLEAN
      BY BackendReturns, OutcomeReturns
    <2>3. call' = Idle /\ ret' \in BOOLEAN
      BY <2>1, <2>2 DEF Return
    <2>. QED BY <1>1, <1>2, <2>1, <2>3, StructuralInv
  <1>4. CASE SetValue
    <2>1. PICK r \in Outcomes(set(store, call.req.key, call.req.val)) :
            /\ IF r.ok THEN Invalidate({call.req.key})
                       ELSE UNCHANGED <<read_cache, volatile_cache, borrows>>
            /\ Return(r.ok)
      BY <1>4 DEF SetValue, Invalidate
    <2>2. r.ok \in BOOLEAN
      BY BackendReturns, OutcomeReturns
    <2>3. call' = Idle /\ ret' \in BOOLEAN
      BY <2>1, <2>2 DEF Return
    <2>. QED BY <1>1, <1>2, <2>1, <2>3, StructuralInv
  <1>. QED BY <1>3, <1>4

LEMMA DelInv ==
  ASSUME BorrowInv, Del
  PROVE  BorrowInv'
  <1> DEFINE named == ToSet(call.req.keys)
             handoff == \E k \in named : is_handoff(k)
             kept == {k \in DOMAIN read_cache : k \notin named}
             R == IF handoff THEN {} ELSE kept
             V == DOMAIN volatile_cache \ named
  <1>1. /\ call # Idle /\ UNCHANGED <<open, pending>> /\ call' = Idle
        /\ read_cache' = IF handoff THEN Empty ELSE [k \in kept |-> read_cache[k]]
        /\ retired' = IF handoff THEN retired \cup {read_cache[k] : k \in kept} ELSE retired
        /\ volatile_cache' = Drop(volatile_cache, named)
        /\ borrows' = {w \in borrows : w.key \notin named}
    BY InProgress DEF Del, Running, Return
  <1>2. ret' \in BOOLEAN
    BY BackendReturns, OutcomeReturns DEF Del, Return
  <1> HIDE DEF named, handoff
  <1>3. read_cache' = [k \in R |-> read_cache[k]]
    BY <1>1 DEF Empty
  <1>4. volatile_cache' = [k \in V |-> volatile_cache[k]]
    BY <1>1 DEF Drop
  <1>5. MemInv'
    <2>1. retired' \subseteq retired \cup {read_cache[k] : k \in DOMAIN read_cache \ R}
      BY <1>1
    <2>2. retired \subseteq retired'
      BY <1>1
    <2>3. \A k \in DOMAIN read_cache \ R :
            read_cache[k] \in retired' \/ \A w \in borrows' : w.key # k
      BY <1>1
    <2>4. \A k \in DOMAIN volatile_cache \ V : \A w \in borrows' : w.key # k
      BY <1>1
    <2>5. /\ R \subseteq DOMAIN read_cache /\ V \subseteq DOMAIN volatile_cache
          /\ borrows' \subseteq borrows /\ pending' \subseteq pending
      BY <1>1
    <2>6. MemInv
      BY Parts
    <2> HIDE DEF R, V
    <2>. QED BY <1>3, <1>4, <2>1, <2>2, <2>3, <2>4, <2>5, <2>6, ShrinkInv
  <1>. QED BY <1>1, <1>2, <1>5, Parts, IdleOK

LEMMA ClearInv ==
  ASSUME BorrowInv, Clear
  PROVE  BorrowInv'
  <1>1. PICK r \in Outcomes(clear(store)) :
          /\ read_cache' = IF r.ok THEN Empty ELSE read_cache
          /\ borrows' = IF r.ok THEN {} ELSE borrows
          /\ Return(r.ok)
    BY DEF Clear
  <1>2. r.ok \in BOOLEAN
    BY BackendReturns, OutcomeReturns
  <1>3. UNCHANGED <<open, volatile_cache, retired, pending>>
    BY DEF Clear
  <1>4. MemInv'
    <2>1. CASE r.ok
      BY <1>1, <1>3, <2>1, Parts
         DEF MemInv, BuffersOK, ViewsPlaced, OwnersDistinct, StagedUnseen, Empty
    <2>2. CASE ~ r.ok
      BY <1>1, <1>3, <2>2, Parts, SameInv DEF caches
    <2>. QED BY <2>1, <2>2
  <1>. QED BY <1>1, <1>2, <1>3, <1>4, Parts, IdleOK DEF Return

\* WriteNewPlace and WriteInPlace stage a buffer that no remaining view shows: a
\* fresh one, or the key's own, whose views end.
LEMMA StageInv ==
  ASSUME MemInv, pending = {}, NEW k, Invalidate({k}), UNCHANGED retired,
         NEW buf, IsBuffer(buf, BufIds), pending' = {[key |-> k, buf |-> buf]},
         \/ k \in DOMAIN read_cache /\ buf = read_cache[k]
         \/ \A w \in borrows : w.id # buf.id
  PROVE  MemInv'
  <1>1. BuffersOK'
    <2>1. /\ \A x \in DOMAIN read_cache' : IsBuffer(read_cache'[x], BufIds)
          /\ \A b \in retired' : IsBuffer(b, BufIds)
      BY DEF Invalidate, Drop, MemInv, BuffersOK
    <2>2. \A x \in DOMAIN volatile_cache' :
            x \in DOMAIN volatile_cache /\ volatile_cache'[x] = volatile_cache[x]
      BY DEF Invalidate, Drop
    <2>3. \A w \in pending' : w = [key |-> w.key, buf |-> w.buf] /\ IsBuffer(w.buf, BufIds)
      OBVIOUS
    <2>4. \A w, x \in pending' : w = x
      OBVIOUS
    <2>5. \A w \in borrows' : IsView(w)
      BY DEF Invalidate, MemInv, BuffersOK
    <2>6. \A x \in DOMAIN volatile_cache' :
            /\ volatile_cache'[x].which \in 0 .. 3
            /\ volatile_cache'[x].slots = [i \in 0 .. 3 |-> volatile_cache'[x].slots[i]]
            /\ \A i \in 0 .. 3 : IsBuffer(volatile_cache'[x].slots[i], BufIds \cup {NoId})
      BY <2>2, ZenonT(40) DEF MemInv, BuffersOK
    <2>. QED BY <2>1, <2>3, <2>4, <2>5, <2>6 DEF BuffersOK
  <1>2. ViewsPlaced'
    BY DEF Invalidate, Drop, MemInv, ViewsPlaced, Shown
  <1>3. OwnersDistinct'
    BY DEF Invalidate, Drop, MemInv, OwnersDistinct
  <1>4. ASSUME NEW w \in borrows' PROVE w.id # buf.id
    <2>1. w \in borrows /\ w.key # k /\ IsView(w)
      BY DEF Invalidate, Drop, MemInv, BuffersOK
    <2>2. ASSUME k \in DOMAIN read_cache, buf = read_cache[k] PROVE w.id # buf.id
      <3>1. CASE w.ring
        <4> DEFINE q == volatile_cache[w.key].which
        <4>1. /\ w.key \in DOMAIN volatile_cache
              /\ volatile_cache[w.key].slots[(q + 4 - w.age) % 4] = Shown(w)
          BY <2>1, <3>1 DEF MemInv, ViewsPlaced
        <4>2. q \in 0 .. 3 /\ w.age \in 0 .. 3
          BY <2>1, <4>1 DEF MemInv, BuffersOK, IsView
        <4>3. (q + 4 - w.age) % 4 \in 0 .. 3
          BY <4>2
        <4>4. Shown(w).id # buf.id
          BY <2>2, <4>1, <4>3 DEF MemInv, OwnersDistinct
        <4>. QED BY <4>4 DEF Shown
      <3>2. CASE ~ w.ring
        <4>1. \/ w.key \in DOMAIN read_cache /\ read_cache[w.key] = Shown(w)
              \/ Shown(w) \in retired
          BY <2>1, <3>2 DEF MemInv, ViewsPlaced
        <4>2. Shown(w).id # buf.id
          BY <2>1, <2>2, <4>1 DEF MemInv, OwnersDistinct
        <4>. QED BY <4>2 DEF Shown
      <3>. QED BY <3>1, <3>2
    <2>. QED BY <2>1, <2>2
  <1>5. StagedUnseen'
    BY <1>4 DEF StagedUnseen
  <1>. QED BY <1>1, <1>2, <1>3, <1>5 DEF MemInv

LEMMA WriteNewPlaceInv ==
  ASSUME BorrowInv, WriteNewPlace
  PROVE  BorrowInv'
  <1> DEFINE k == call.req.key
             buf == NewBuffer(call.req.val)
  <1>1. /\ MemInv /\ pending = {} /\ Memory /\ UNCHANGED <<open, retired>>
        /\ call' = Idle /\ ret' \in BOOLEAN
    BY Parts, NoneStaged, InProgress DEF WriteNewPlace, Running, Return
  <1>2. CASE call.req.val.kind \in Kinds
    <2>1. Invalidate({k}) /\ pending' = {[key |-> k, buf |-> buf]}
      BY <1>2 DEF WriteNewPlace, Invalidate
    <2>2. IsBuffer(buf, BufIds) /\ buf.id = NewId
      BY <1>1, NewIdFresh DEF NewBuffer, IsBuffer
    <2>3. \A w \in borrows : w.id # buf.id
      BY <1>1, <2>2, NewIdFresh
    <2> HIDE DEF k, buf
    <2>4. MemInv'
      BY <1>1, <2>1, <2>2, <2>3, StageInv
    <2>. QED BY <1>1, <2>4, Parts, IdleOK
  <1>3. CASE call.req.val.kind \notin Kinds
    <2>1. UNCHANGED <<caches, pending, borrows>>
      BY <1>1, <1>3 DEF WriteNewPlace, caches
    <2>. QED BY <1>1, <2>1, SameInv, Parts, IdleOK
  <1>. QED BY <1>2, <1>3

LEMMA WriteInPlaceInv ==
  ASSUME BorrowInv, WriteInPlace
  PROVE  BorrowInv'
  <1> DEFINE k == call.cur
             buf == IF k \in DOMAIN read_cache THEN read_cache[k] ELSE [Current(k) EXCEPT !.id = NewId]
  <1>1. /\ MemInv /\ CallOK /\ pending = {} /\ Memory /\ call # Idle /\ call.phase = "found"
        /\ UNCHANGED <<open, retired>>
    BY Parts, NoneStaged, InProgress DEF WriteInPlace, Running
  <1>2. k \in DOMAIN (IF is_volatile(k) THEN volatile_cache ELSE read_cache)
    BY <1>1 DEF CallOK
  <1>3. \/ k \in DOMAIN read_cache /\ buf = read_cache[k] /\ IsBuffer(buf, BufIds)
        \/ IsBuffer(buf, BufIds) /\ buf.id = NewId
    <2>1. CASE k \in DOMAIN read_cache
      BY <1>1, <2>1 DEF MemInv, BuffersOK
    <2>2. CASE k \notin DOMAIN read_cache
      <3>1. Current(k) = [id |-> Current(k).id, val |-> Current(k).val]
        <4>1. is_volatile(k) /\ k \in DOMAIN volatile_cache
          BY <1>2, <2>2
        <4>2. /\ volatile_cache[k].which \in 0 .. 3
              /\ \A i \in 0 .. 3 : IsBuffer(volatile_cache[k].slots[i], BufIds \cup {NoId})
          BY <1>1, <4>1 DEF MemInv, BuffersOK
        <4>. QED BY <4>1, <4>2 DEF Current, IsBuffer
      <3>2. buf = [id |-> NewId, val |-> Current(k).val]
        BY <2>2, <3>1
      <3>. QED BY <1>1, <3>2, NewIdFresh DEF IsBuffer
    <2>. QED BY <2>1, <2>2
  <1>4. CASE Len(buf.val.body) = call.req.n
    <2>1. /\ Invalidate({k}) /\ pending' = {[key |-> k, buf |-> buf]}
          /\ call' = Idle /\ ret' = TRUE
      BY <1>4 DEF WriteInPlace, Invalidate, Return
    <2> HIDE DEF k, buf
    <2>2. MemInv'
      BY <1>1, <1>3, <2>1, NewIdFresh, StageInv
    <2>. QED BY <1>1, <2>1, <2>2, Parts, IdleOK
  <1>5. CASE Len(buf.val.body) # call.req.n
    <2> DEFINE V == IF k \in DOMAIN read_cache THEN DOMAIN volatile_cache ELSE DOMAIN volatile_cache \ {k}
    <2>1. /\ read_cache' = Drop(read_cache, {k})
          /\ volatile_cache' = IF k \in DOMAIN read_cache THEN volatile_cache ELSE Drop(volatile_cache, {k})
          /\ borrows' = {w \in borrows : w.key # k}
          /\ pending' = pending /\ call' = Idle /\ ret' = FALSE
      BY <1>5 DEF WriteInPlace, Return
    <2> HIDE DEF k, buf
    <2>2. MemInv'
      <3>1. BuffersOK'
        <4>1. \A x \in DOMAIN read_cache' : x \in DOMAIN read_cache /\ read_cache'[x] = read_cache[x]
          BY <2>1 DEF Drop
        <4>2. \A x \in DOMAIN volatile_cache' :
                x \in DOMAIN volatile_cache /\ volatile_cache'[x] = volatile_cache[x]
          BY <2>1 DEF Drop
        <4>3. \A x \in DOMAIN read_cache' : IsBuffer(read_cache'[x], BufIds)
          BY <1>1, <4>1 DEF MemInv, BuffersOK
        <4>4. \A x \in DOMAIN volatile_cache' :
                /\ volatile_cache'[x].which \in 0 .. 3
                /\ volatile_cache'[x].slots = [i \in 0 .. 3 |-> volatile_cache'[x].slots[i]]
                /\ \A i \in 0 .. 3 : IsBuffer(volatile_cache'[x].slots[i], BufIds \cup {NoId})
          BY <1>1, <4>2 DEF MemInv, BuffersOK
        <4>5. (\A b \in retired' : IsBuffer(b, BufIds)) /\ (\A w \in borrows' : IsView(w))
          BY <1>1, <2>1 DEF MemInv, BuffersOK
        <4>. QED BY <1>1, <2>1, <4>3, <4>4, <4>5 DEF BuffersOK, IsBuffer, IsView
      <3>2. ViewsPlaced'
        BY <1>1, <2>1 DEF MemInv, ViewsPlaced, Shown, Drop
      <3>3. OwnersDistinct' /\ StagedUnseen'
        BY <1>1, <2>1 DEF MemInv, OwnersDistinct, StagedUnseen, Drop
      <3>. QED BY <3>1, <3>2, <3>3 DEF MemInv
    <2>. QED BY <1>1, <2>1, <2>2, Parts, IdleOK
  <1>. QED BY <1>4, <1>5

\* Watch moves the whole read cache to retired.
LEMMA WatchInv ==
  ASSUME BorrowInv, Watch
  PROVE  BorrowInv'
  <1> DEFINE k == call.req.key
             buf == NewBuffer(call.req.val)
             view == View(k, buf, FALSE)
  <1>1. /\ MemInv /\ pending = {} /\ Memory
        /\ read_cache' = Put(Empty, k, buf)
        /\ borrows' = borrows \cup {view}
        /\ retired' = retired \cup {read_cache[x] : x \in DOMAIN read_cache}
        /\ UNCHANGED <<open, volatile_cache, pending>> /\ call' = Idle /\ ret' = TRUE
    BY Parts, NoneStaged, InProgress DEF Watch, Running, Return
  <1>2. IsBuffer(buf, BufIds) /\ buf.id = NewId
    BY <1>1, NewIdFresh DEF NewBuffer, IsBuffer
  <1>3. IsView(view) /\ Shown(view) = buf /\ view.key = k /\ ~ view.ring
    BY DEF View, IsView, Shown, NewBuffer
  <1>4. DOMAIN read_cache' = {k} /\ read_cache'[k] = buf
    BY <1>1 DEF Put, Empty
  <1> HIDE DEF k, buf, view
  <1>5. BuffersOK'
    BY <1>1, <1>2, <1>3, <1>4 DEF MemInv, BuffersOK
  <1>6. ViewsPlaced'
    BY <1>1, <1>3, <1>4 DEF MemInv, ViewsPlaced, Shown
  <1>7. OwnersDistinct'
    BY <1>1, <1>2, <1>4, NewIdFresh DEF MemInv, OwnersDistinct
  <1>8. StagedUnseen'
    BY <1>1 DEF StagedUnseen
  <1>. QED BY <1>1, <1>5, <1>6, <1>7, <1>8, Parts, IdleOK DEF MemInv

-----------------------------------------------------------------------------
LEMMA StepInv == BorrowInv /\ [Next]_vars => BorrowInv'
  <1> SUFFICES ASSUME BorrowInv, [Next]_vars PROVE BorrowInv'
    OBVIOUS
  <1>1. ASSUME NEW c \in Requests, Begin(c) PROVE BorrowInv'
    BY <1>1, BeginInv
  <1>2. CASE Fetch
    BY <1>2, FetchInv
  <1>3. CASE Finish
    BY <1>3, GetInv, SameCacheInv, WriteInv, WriteInPlaceInv, WriteNewPlaceInv, DelInv, NamedInv,
       ClearInv, WatchInv DEF Finish
  <1>4. ASSUME NEW body \in Bodies, FillBody(body) PROVE BorrowInv'
    <2>1. PICK w \in pending : pending' = {[w EXCEPT !.buf.val.body = body]}
      BY <1>4 DEF FillBody
    <2>2. /\ call = Idle /\ call' = Idle /\ UNCHANGED <<open, ret, caches, borrows>>
      BY <1>4 DEF FillBody
    <2>3. w = [key |-> w.key, buf |-> w.buf] /\ IsBuffer(w.buf, BufIds)
      BY Parts DEF MemInv, BuffersOK
    <2> DEFINE p == [w EXCEPT !.buf.val.body = body]
    <2>4. p = [key |-> w.key, buf |-> [w.buf EXCEPT !.val.body = body]]
      BY <2>3
    <2>5. p.buf = [id |-> w.buf.id, val |-> [w.buf.val EXCEPT !.body = body]]
      BY <2>3, <2>4 DEF IsBuffer
    <2>6. p = [key |-> p.key, buf |-> p.buf] /\ IsBuffer(p.buf, BufIds) /\ p.buf.id = w.buf.id
      BY <2>3, <2>4, <2>5 DEF IsBuffer
    <2>7. pending' = {p}
      BY <2>1
    <2> HIDE DEF p
    <2>8. MemInv'
      <3>1. BuffersOK'
        BY <2>2, <2>6, <2>7, Parts DEF MemInv, BuffersOK, caches
      <3>2. ViewsPlaced' /\ OwnersDistinct'
        BY <2>2, Parts DEF MemInv, ViewsPlaced, OwnersDistinct, Shown, caches
      <3>3. StagedUnseen'
        BY <2>2, <2>6, <2>7, Parts DEF MemInv, StagedUnseen
      <3>. QED BY <3>1, <3>2, <3>3 DEF MemInv
    <2>. QED BY <2>2, <2>8, Parts, IdleOK
  <1>5. CASE Close
    <2>1. ret' \in BOOLEAN
      <3>1. ASSUME NEW w \in pending, NEW r \in Outcomes(set(store, w.key, w.buf.val)), ret' = r.ok
            PROVE  ret' \in BOOLEAN
        BY <3>1, BackendReturns, OutcomeReturns
      <3>. QED BY <1>5, <3>1 DEF Close
    <2>2. MemInv'
      BY <1>5 DEF Close, MemInv, BuffersOK, ViewsPlaced, OwnersDistinct, StagedUnseen, Empty
    <2>. QED BY <1>5, <2>1, <2>2, Parts, IdleOK DEF Close
  <1>6. CASE Connect \/ (\E e \in EnvWrites : Environment(e)) \/ UNCHANGED vars
    <2>1. UNCHANGED <<caches, pending, borrows, call, ret>> /\ open' \in BOOLEAN
      BY <1>6, Parts DEF Connect, Environment, vars
    <2>. QED BY <2>1, Parts, SameInv DEF CallOK, caches
  <1>. QED BY <1>1, <1>2, <1>3, <1>4, <1>5, <1>6 DEF Next

\* The inductive invariant: every view's buffer is where ViewsPlaced says, no
\* two owners share a buffer, and no view shows the staged one.
THEOREM InductiveInvariant == Spec => []BorrowInv
  BY InitInv, StepInv, PTL DEF Spec

\* The state of a handle keeps its shape; in particular no write is staged while
\* a call is in progress, and the key a call resolved is cached when it is read
\* (the unwrap of cached_slice never fails).
THEOREM TypeCorrect == Spec => []TypeOK
  <1>1. BorrowInv => TypeOK
    BY DEF BorrowInv
  <1>. QED BY <1>1, InductiveInvariant, PTL

\* A pointer returned by kvspaceGet, kvspaceGetPart or kvspaceWatch stays valid,
\* with unchanged bytes, until a call of this handle names its key for writing
\* or deletion or closes the handle; for a control key, through three changes.
THEOREM BorrowsSafe == Spec => []BorrowSafe
  <1>1. BorrowInv => BorrowSafe
    BY Parts, PlacedIsHeld
  <1>. QED BY <1>1, InductiveInvariant, PTL

-----------------------------------------------------------------------------
\* A staged write leaves the handle by being stored, or with a failure code.
LEMMA SettledStep ==
  ASSUME BorrowInv, [Next]_vars, NEW w \in pending, pending' = {}
  PROVE  LET r == set(store, w.key, w.buf.val)
         IN (r.ok /\ store' = r.store) \/ (~ ret' /\ call' = Idle)
  <1> DEFINE r == set(store, w.key, w.buf.val)
  <1>1. call = Idle /\ \A x \in pending : x = w
    BY Parts, NoneStaged DEF MemInv, BuffersOK
  <1>2. ASSUME NEW x \in Outcomes(r) PROVE x.ok \in BOOLEAN /\ (x.ok => x = r)
    BY <1>2, BackendReturns, OutcomeReturns
  <1> HIDE DEF r
  <1>3. ASSUME NEW c \in Requests, Begin(c)
        PROVE  (r.ok /\ store' = r.store) \/ (~ ret' /\ call' = Idle)
    <2>1. BeginFlush(c)
      BY <1>3 DEF Begin, BeginClean
    <2>2. PICK v \in pending : \E x \in Outcomes(set(store, v.key, v.buf.val)) :
            store' = x.store /\ (IF x.ok THEN call' = Started(c) /\ UNCHANGED ret ELSE Return(FALSE))
      BY <2>1 DEF BeginFlush
    <2>3. PICK x \in Outcomes(r) : store' = x.store /\ (~ x.ok => Return(FALSE))
      BY <1>1, <2>2 DEF r
    <2>. QED BY <1>2, <2>3 DEF Return
  <1>4. CASE Close
    <2>1. PICK x \in Outcomes(r) : store' = x.store /\ ret' = x.ok
      BY <1>1, <1>4 DEF Close, r
    <2>2. call' = Idle
      BY <1>1, <1>4 DEF Close
    <2>3. CASE x.ok
      BY <1>2, <2>1, <2>3 DEF r
    <2>4. CASE ~ x.ok
      BY <2>1, <2>2, <2>4
    <2>. QED BY <2>3, <2>4
  <1>5. ~ Fetch /\ ~ Finish
    BY <1>1, InProgress
       DEF Fetch, FetchHit, FetchMiss, FetchVolatile, FetchFails, Finish, Running, Get, GetHead,
           SetPart, WriteInPlace, WriteNewPlace, SetValue, Structural, Del, DelTree, Cp, CpTree, CpList,
           Mkindex, MkindexExt, RmindexExt, Clear, ListLen, ListAt, ListFails, Watch, WatchFails
  <1>6. ASSUME NEW body \in Bodies, FillBody(body) PROVE FALSE
    BY <1>6 DEF FillBody
  <1>7. CASE Connect \/ (\E e \in EnvWrites : Environment(e)) \/ UNCHANGED vars
    BY <1>7 DEF Connect, Environment, vars
  <1>. QED BY <1>3, <1>4, <1>5, <1>6, <1>7 DEF Next, r

\* kv_flush and kvspaceClose: a staged write is never silently lost.  The step
\* that takes it out of the handle stores it, or reports failure and does
\* nothing else; no other step touches it.
THEOREM StagedSettled == Spec => StagedWriteSettled
  <1>1. BorrowInv /\ [Next]_vars =>
          [\A w \in pending :
             pending' = {} =>
               LET r == set(store, w.key, w.buf.val)
               IN (r.ok /\ store' = r.store) \/ (~ ret' /\ call' = Idle)]_vars
    BY SettledStep
  <1>. QED BY <1>1, InductiveInvariant, PTL DEF Spec, StagedWriteSettled

-----------------------------------------------------------------------------
(***************************************************************************)
(* Why a listing is never stale: calls that may change the contents under  *)
(* it dropped it when they began, or drop it as they write.                *)
(***************************************************************************)
IsSnapshot(l) ==
  l = [prefix |-> l.prefix, expand_ext |-> l.expand_ext, resolve |-> l.resolve, names |-> l.names, cursor |-> l.cursor]
ListInv ==
  /\ call.phase = "exec" /\ call.req.op \in StructOps => list_cache = {}
  /\ \A l \in list_cache : IsSnapshot(l)
  /\ ListCoherent

\* Steps that leave the contents alone, and steps that drop the listing.
LEMMA ListKept ==
  ASSUME ListInv, store' = store, list_cache' \subseteq list_cache,
         call'.phase = "exec" => list_cache' = {} \/ call' = call
  PROVE  ListInv'
<1>1. \A l \in list_cache' : l \in list_cache
  OBVIOUS
<1>2. ListCoherent'
  BY <1>1 DEF ListInv, ListCoherent
<1>3. (call.phase = "exec" /\ call.req.op \in StructOps => list_cache = {})'
  BY DEF ListInv, StructOps
<1> QED BY <1>1, <1>2, <1>3 DEF ListInv, IsSnapshot

LEMMA ListDropped ==
  ASSUME list_cache' = {}
  PROVE  ListInv'
BY DEF ListInv, ListCoherent

\* A value of no kind is refused, and nothing is written.
LEMMA RefusedWrite ==
  ASSUME NEW k, NEW v, v.kind \notin Kinds, NEW r \in Outcomes(set(store, k, v))
  PROVE  r.store = store
<1> DEFINE q == Err(store)
<1>1. set(store, k, v) = q
  BY DEF set, settable
<1>2. q.store = store
  BY DEF Err
<1> DEFINE touched == {x \in DOMAIN store \cup DOMAIN q.store : Lookup(store, x) # Lookup(q.store, x)}
           mix(done) == [x \in (DOMAIN store \ done) \cup (DOMAIN q.store \cap done) |->
                           IF x \in done THEN q.store[x] ELSE store[x]]
<1>3. touched = {}
  BY <1>2
<1>4. (SUBSET touched) \ {{}} = {}
  BY <1>3
<1>5. r = q \/ \E done \in (SUBSET touched) \ {{}} : r = Err(mix(done))
  BY <1>1 DEF Outcomes
<1> QED BY <1>2, <1>4, <1>5

LEMMA ListStep ==
  ASSUME EnvWrites = {}, ListInv, [Next]_vars
  PROVE  ListInv'
<1>1. ASSUME NEW c \in Requests, Begin(c) PROVE ListInv'
  <2>1. CASE BeginFlush(c)
    BY <2>1, ListDropped DEF BeginFlush
  <2>2. CASE BeginClean(c)
    <3>1. store' = store /\ list_cache' \subseteq list_cache /\ call' = Started(c)
      BY <2>2 DEF BeginClean
    <3>2. CASE c.op \in StructOps
      BY <2>2, <3>2, ListDropped DEF BeginClean
    <3>3. CASE c.op \notin StructOps
      <4>1. call'.req.op \notin StructOps
        BY <3>1, <3>3 DEF Started
      <4>2. list_cache' = list_cache
        BY <2>2, <3>3 DEF BeginClean
      <4>3. ListCoherent'
        BY <3>1, <4>2 DEF ListInv, ListCoherent
      <4> QED BY <4>1, <4>2, <4>3 DEF ListInv, IsSnapshot
    <3> QED BY <3>2, <3>3
  <2> QED BY <1>1, <2>1, <2>2 DEF Begin
<1>2. ASSUME Fetch PROVE ListInv'
  <2>1. store' = store /\ list_cache' \subseteq list_cache /\ call.phase = "resolve"
    BY <1>2 DEF Fetch, FetchHit, FetchMiss, FetchVolatile, FetchFails
  <2>2. call'.phase # "exec"
    <3>1. \A v : Follow(v) => call'.phase # "exec"
      <4> SUFFICES ASSUME NEW v, Follow(v) PROVE call'.phase # "exec"
        OBVIOUS
      <4>1. CASE call' = Idle
        BY <4>1 DEF Idle
      <4>2. CASE call' = [call EXCEPT !.phase = "found"]
        <5>1. call'.phase = "found" \/ call' = call
          BY <4>2
        <5> QED BY <2>1, <5>1
      <4>3. CASE call' = [call EXCEPT !.cur = v.body, !.hop = call.hop + 1]
        BY <2>1, <4>3
      <4> QED BY <4>1, <4>2, <4>3 DEF Follow, Missing, Return
    <3>2. Missing => call'.phase # "exec"
      BY DEF Missing, Return, Idle
    <3> QED BY <1>2, <3>1, <3>2 DEF Fetch, FetchHit, FetchMiss, FetchVolatile, FetchFails, Return, Idle
  <2> QED BY <2>1, <2>2, ListKept
<1>3. ASSUME Finish PROVE ListInv'
  <2>1. ASSUME store' = store, list_cache' = list_cache, call' = Idle PROVE ListInv'
    BY <2>1, ListKept DEF Idle
  <2>2. CASE Get \/ GetHead \/ WriteInPlace \/ WriteNewPlace \/ WatchFails
    BY <2>1, <2>2 DEF Get, GetHead, WriteInPlace, WriteNewPlace, WatchFails, Return
  <2>3. CASE SetPart \/ ListFails \/ Watch
    BY <2>3, ListDropped DEF SetPart, ListFails, Watch
  <2>4. CASE SetValue
    <3>1. CASE call.req.val.kind \in Kinds
      BY <2>4, <3>1, ListDropped DEF SetValue
    <3>2. CASE call.req.val.kind \notin Kinds
      <4>1. list_cache' = list_cache /\ call' = Idle
        BY <2>4, <3>2 DEF SetValue, Return
      <4>2. PICK r \in Outcomes(set(store, call.req.key, call.req.val)) : store' = r.store
        BY <2>4 DEF SetValue
      <4>3. store' = store
        BY <3>2, <4>2, RefusedWrite
      <4> QED BY <2>1, <4>1, <4>3
    <3> QED BY <3>1, <3>2
  <2>5. CASE Del \/ DelTree \/ Cp \/ CpTree \/ CpList \/ Mkindex \/ MkindexExt \/ RmindexExt \/ Clear
    <3>1. call.phase = "exec" /\ call.req.op \in StructOps
      BY <2>5 DEF Del, DelTree, Cp, CpTree, CpList, Mkindex, MkindexExt, RmindexExt, Clear, Structural, Running, StructOps
    <3>2. list_cache = {}
      BY <3>1 DEF ListInv
    <3>3. list_cache' = {}
      BY <2>5, <3>2 DEF Del, DelTree, Cp, CpTree, CpList, Mkindex, MkindexExt, RmindexExt, Clear, Structural
    <3> QED BY <3>3, ListDropped
  <2>6. CASE ListLen
    <3>1. store' = store /\ call' = Idle
      BY <2>6 DEF ListLen, Return
    <3>2. CASE list_cache' = list_cache
      BY <2>1, <3>1, <3>2
    <3>3. CASE list_cache' = {Snapshot(call.req, -1)}
      BY <3>1, <3>3 DEF ListInv, ListCoherent, Snapshot, IsSnapshot, Idle
    <3> QED BY <2>6, <3>2, <3>3 DEF ListLen
  <2>7. CASE ListAt
    <3> DEFINE c == call.req
               old == CHOOSE l \in Reusable(c) : TRUE
               snap == IF Reusable(c) # {} THEN [old EXCEPT !.cursor = c.n] ELSE Snapshot(c, c.n)
    <3>1. store' = store /\ call' = Idle
      BY <2>7 DEF ListAt, Return
    <3>2. list_cache' = list_cache \/ list_cache' = {snap}
      BY <2>7 DEF ListAt
    <3>3. CASE list_cache' = list_cache
      BY <2>1, <3>1, <3>3
    <3>4. CASE list_cache' = {snap} /\ Reusable(c) # {}
      <4>1. old \in list_cache
        BY <3>4 DEF Reusable
      <4>2. /\ IsSnapshot(old) /\ old.names = list(store, old.prefix, old.expand_ext, old.resolve)
            /\ snap = [old EXCEPT !.cursor = c.n]
        BY <3>4, <4>1 DEF ListInv, ListCoherent
      <4> HIDE DEF old, snap
      <4>3. IsSnapshot(snap) /\ snap.names = old.names /\ snap.prefix = old.prefix
            /\ snap.expand_ext = old.expand_ext /\ snap.resolve = old.resolve
        BY <4>2 DEF IsSnapshot
      <4>4. snap.names = list(store, snap.prefix, snap.expand_ext, snap.resolve)
        BY <4>2, <4>3
      <4> QED BY <3>1, <3>4, <4>3, <4>4 DEF ListInv, ListCoherent, Idle
    <3>5. CASE list_cache' = {snap} /\ Reusable(c) = {}
      <4>1. snap = Snapshot(c, c.n)
        BY <3>5
      <4> HIDE DEF snap
      <4> QED BY <3>1, <3>5, <4>1 DEF ListInv, ListCoherent, Snapshot, IsSnapshot, Idle
    <3> QED BY <3>2, <3>3, <3>4, <3>5
  <2> QED BY <1>3, <2>2, <2>3, <2>4, <2>5, <2>6, <2>7 DEF Finish
<1>4. ASSUME NEW body \in Bodies, FillBody(body) PROVE ListInv'
  BY <1>4, ListKept DEF FillBody
<1>5. CASE Close
  BY <1>5, ListDropped DEF Close
<1>6. CASE Connect \/ UNCHANGED vars
  BY <1>6, ListKept DEF Connect, vars
<1> QED BY <1>1, <1>2, <1>3, <1>4, <1>5, <1>6 DEF Next

\* On a store that no other handle writes, ListAt never continues a listing that
\* a call of this handle has made stale, failed and half-done calls included
\* (list_cache of ffi.rs).
THEOREM ListsCoherent == EnvWrites = {} => (Spec => []ListCoherent)
<1> SUFFICES ASSUME EnvWrites = {} PROVE Spec => []ListCoherent
  OBVIOUS
<1>1. Init => ListInv
  BY DEF Init, ListInv, ListCoherent, Idle
<1>2. ListInv /\ [Next]_vars => ListInv'
  BY ListStep
<1>3. ListInv => ListCoherent
  BY DEF ListInv
<1> QED BY <1>1, <1>2, <1>3, PTL DEF Spec
=============================================================================
