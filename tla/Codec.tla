-------------------------------- MODULE Codec --------------------------------
(***************************************************************************)
(* The bytes of an XValue (headlenpow.rs, xvalue.rs): a fixed head, the    *)
(* body and attribute records.                                             *)
(*                                                                         *)
(* Widths are reduced: every field of the head, the length of a record and *)
(* reallen take one byte of base Word, padding one.  An element of a       *)
(* number or of char/utf32 takes two bytes, and names of kinds one.        *)
(*                                                                         *)
(* wire is one stored value; made says what it was made as, intact whether *)
(* no part write has gone into its head.                                   *)
(***************************************************************************)
EXTENDS Integers, SequencesExt, FiniteSetsExt

CONSTANTS Word,        \* numbers a field can hold, 2^64 in the code
          Built,       \* XValues the constructors are called with
          Langtypes,   \* langtypes of WriteNewPlace
          MaxBody,     \* bound: bytes of a body
          FillBytes,   \* bytes written into bodies
          PartBytes    \* bytes of part writes

Byte == 0 .. Word - 1

ASSUME WordAssumption == MaxBody \in Nat /\ Word \in Nat /\ Word >= 256 /\ Word > 2 * (MaxBody + 16)
ASSUME BytesAssumption ==
  /\ FillBytes \subseteq Byte /\ PartBytes \subseteq Seq(Byte)
  /\ \A lt \in Langtypes : lt \in Seq(Byte) /\ Len(lt) + 6 < Word

VARIABLES wire, made, intact

codec_vars == <<wire, made, intact>>

PREFIX == 4
BODYLEN == 1
ATTRSLEN == 2
LAYOUT == 3
PADDING == 4
LAYOUT_LENGTH == 0
LAYOUT_CAPACITY == 1
ATTR_TAG_LANGTYPE == 1
ATTR_TAG_REALLEN == 2

NoWire == <<>>
Zeros(n) == [i \in 1 .. n |-> 0]
\* n bytes behind the first from, fewer where s ends.
Slice(s, from, n) == SubSeq(s, from + 1, Min({from + n, Len(s)}))
BeginsWith(s, c) == s # <<>> /\ s[1] = c

\* Characters of langtypes.
STAR == 42
AT == 64
OPEN == 91
CLOSE == 93
COMMA == 44
ANY == 63
DOT == 183
ZERO == 48
KIND_BOOL == 98
KIND_INT16 == 105
KIND_CHAR_UTF8 == 99
KIND_CHAR == 117
OTHER_KIND == 111
CharKinds == {KIND_CHAR_UTF8, KIND_CHAR}
IsDigit(c) == c \in ZERO .. ZERO + 9

-----------------------------------------------------------------------------
\* The head layer.

NoHead == [ok |-> FALSE, layout |-> 0, reference |-> "none", langtype |-> <<>>, len |-> 0,
           attrs |-> <<>>, body |-> <<>>]
BrokenRecord == [tag |-> 0, data |-> NoWire, whole |-> FALSE]

\* The records of the attribute area, the last one broken when it runs over.
Records(attrs) ==
  LET from[i \in 1 .. Len(attrs) + 2] ==
        IF i + 1 > Len(attrs) THEN <<>>
        ELSE IF i + 1 + attrs[i + 1] > Len(attrs) THEN <<BrokenRecord>>
        ELSE <<[tag |-> attrs[i], data |-> Slice(attrs, i + 1, attrs[i + 1]), whole |-> TRUE]>>
               \o from[i + 2 + attrs[i + 1]]
  IN from[1]

\* ok is FALSE for a broken area, a second reallen or one of the wrong size.
scan_reallen(attrs) ==
  LET rs == Records(attrs)
      mine == {i \in DOMAIN rs : rs[i].tag = ATTR_TAG_REALLEN}
      ok == /\ \A i \in DOMAIN rs : rs[i].whole
            /\ Cardinality(mine) <= 1 /\ \A i \in mine : Len(rs[i].data) = 1
  IN [ok |-> ok, has |-> mine # {}, reallen |-> IF ok /\ mine # {} THEN rs[Min(mine)].data[1] ELSE 0]

find_attr(attrs, wanted) ==
  LET rs == Records(attrs)
      hits == {i \in DOMAIN rs : rs[i].tag = wanted}
  IN IF hits = {} THEN <<>> ELSE rs[Min(hits)].data

reference_of(langtype) ==
  CASE BeginsWith(langtype, STAR) -> "ptr"
    [] BeginsWith(langtype, AT) -> "ext"
    [] OTHER -> "none"

\* A capacity needs its reallen, a length may not have one.
head_of(layout, body, attrs, real) ==
  IF ~ real.ok \/ (layout = LAYOUT_CAPACITY) # real.has \/ real.reallen > Len(body) THEN NoHead
  ELSE [ok |-> TRUE, layout |-> layout, reference |-> reference_of(find_attr(attrs, ATTR_TAG_LANGTYPE)),
        langtype |-> find_attr(attrs, ATTR_TAG_LANGTYPE), len |-> Len(body), attrs |-> attrs, body |-> body]

\* Defect: the sum of the lengths wraps.
lengths_fit_Wraps(data) == (PREFIX + data[BODYLEN] + data[ATTRSLEN]) % Word <= Len(data)

\* checked_add: a sum that does not fit a word is refused.
lengths_fit(data) == PREFIX + data[BODYLEN] + data[ATTRSLEN] <= Len(data)

cut(data) ==
  LET attrs == Slice(data, PREFIX + data[BODYLEN], data[ATTRSLEN])
  IN head_of(data[LAYOUT], Slice(data, PREFIX, data[BODYLEN]), attrs, scan_reallen(attrs))
headlenpow_from_wire(data) ==
  IF Len(data) < PREFIX \/ data[PADDING] # 0 \/ data[LAYOUT] > LAYOUT_CAPACITY \/ ~ lengths_fit(data)
  THEN NoHead ELSE cut(data)

\* Defect: the capacity is taken for the length.
effective_len_Capacity(data) == headlenpow_from_wire(data).len

effective_len(data) ==
  LET h == headlenpow_from_wire(data)
  IN IF h.layout = LAYOUT_CAPACITY THEN scan_reallen(h.attrs).reallen ELSE h.len

attr_bytes(langtype) == IF langtype = <<>> THEN <<>> ELSE <<ATTR_TAG_LANGTYPE, Len(langtype)>> \o langtype
reallen_record(n) == <<ATTR_TAG_REALLEN, 1, n>>
with_head(layout, body, attrs) == <<Len(body), Len(attrs), layout, 0>> \o body \o attrs

reserve(content, langtype) == with_head(LAYOUT_LENGTH, Zeros(content), attr_bytes(langtype))
headlenpow_to_wire(body, langtype) == with_head(LAYOUT_LENGTH, body, attr_bytes(langtype))
to_wire_varlen(capacity, reallen, langtype) ==
  IF reallen > capacity THEN NoWire
  ELSE with_head(LAYOUT_CAPACITY, Zeros(capacity), attr_bytes(langtype) \o reallen_record(reallen))

prefixed(ref, langtype) ==
  (CASE ref = "ptr" -> <<STAR>> [] ref = "ext" -> <<AT>> [] OTHER -> <<>>) \o langtype

\* Defect: the capacity does not reach the wire.
build_xvalue_head_NoCap(ref, len, cap, langtype) ==
  IF len > cap \/ reference_of(langtype) # "none" THEN NoWire ELSE reserve(len, prefixed(ref, langtype))

\* ffi.rs: a langtype that already has a prefix is refused.
build_xvalue_head(ref, len, cap, langtype) ==
  IF len > cap \/ reference_of(langtype) # "none" THEN NoWire
  ELSE IF cap > len THEN to_wire_varlen(cap, len, prefixed(ref, langtype))
  ELSE reserve(len, prefixed(ref, langtype))

-----------------------------------------------------------------------------
\* The value layer.

Digits(n) ==
  LET d[k \in 0 .. n] == IF k < 10 THEN <<ZERO + k>> ELSE Append(d[k \div 10], ZERO + (k % 10)) IN d[n]
Number(s) == FoldLeft(LAMBDA n, c : 10 * n + (c - ZERO), 0, s)
AllDigits(s) == s # <<>> /\ \A i \in DOMAIN s : IsDigit(s[i])

\* str::split
Split(s, sep) ==
  LET at == SetToSortSeq({0, Len(s) + 1} \cup {i \in DOMAIN s : s[i] = sep}, LAMBDA a, b : a < b)
  IN [n \in 1 .. Len(at) - 1 |-> SubSeq(s, at[n] + 1, at[n + 1] - 1)]
Join(parts, sep) ==
  FoldLeft(LAMBDA s, p : IF s = <<>> THEN p ELSE s \o <<sep>> \o p, <<>>, parts)

\* "[d0,d1]kind"; brackets before a '·' are the key type of a map.
shape(s) == IF ~ BeginsWith(s, OPEN) \/ ~ Contains(s, CLOSE) \/ Contains(s, DOT) THEN <<>>
            ELSE SubSeq(s, 1, Min({i \in DOMAIN s : s[i] = CLOSE}))
parse_kindexpr(s) ==
  LET parts == Split(SubSeq(shape(s), 2, Len(shape(s)) - 1), COMMA)
      given == SelectSeq(parts, LAMBDA p : p # <<>>)
      ok == shape(s) # <<>> /\ \A i \in DOMAIN given : given[i] = <<ANY>> \/ AllDigits(given[i])
  IN IF ok THEN [dims |-> [i \in DOMAIN given |-> IF given[i] = <<ANY>> THEN 0 ELSE Number(given[i])],
                 kind |-> SubSeq(s, Len(shape(s)) + 1, Len(s))]
     ELSE [dims |-> <<>>, kind |-> s]

kindexpr_of(kind, dims) ==
  IF dims = <<>> THEN kind
  ELSE <<OPEN>> \o Join([i \in DOMAIN dims |-> Digits(dims[i])], COMMA) \o <<CLOSE>> \o kind

\* An XValue: its variant, kind or langtype, shape and elements (Opaque and the
\* references: bytes).  size is the array_len of an Opaque.
XValue(variant, kind, dims, data, size) ==
  [variant |-> variant, kind |-> kind, dims |-> dims, data |-> data, size |-> size]
None == XValue("none", <<>>, <<>>, <<>>, 0)
Arr(kind, dims, data) == XValue("arr", <<kind>>, dims, data, 0)

\* Elements from bytes, a rest that fills none being left out, and back.
Wide == {KIND_INT16, KIND_CHAR}
elements(kind, body) ==
  CASE kind \in Wide -> [i \in 1 .. Len(body) \div 2 |-> body[2 * i - 1] + Word * body[2 * i]]
    [] kind = KIND_BOOL -> [i \in DOMAIN body |-> IF body[i] # 0 THEN 1 ELSE 0]
    [] OTHER -> body

\* Defect: a wide element is written as one byte.
raw_bytes_Unsplit(kind, data) == data

raw_bytes(kind, data) ==
  IF kind \in Wide THEN FlattenSeq([i \in DOMAIN data |-> <<data[i] % Word, data[i] \div Word>>]) ELSE data

product(dims) == FoldLeft(LAMBDA a, b : a * b, 1, dims)
array_to_header(kind, n) ==
  IF kind # <<>> /\ kind[1] \in CharKinds THEN <<n>> ELSE IF n > 1 THEN <<n>> ELSE <<>>

\* Defect: the '*' of the wire stays in the target's kindexpr.
ptr_target_kind_Kept(langtype) == langtype

ptr_target_kind(langtype) == Tail(langtype)

\* String::from_utf8_lossy: a byte that is no text becomes the replacement
\* character, one byte here.
NOT_TEXT == 255
REPLACEMENT == 253
lossy(s) == [i \in DOMAIN s |-> IF s[i] = NOT_TEXT THEN REPLACEMENT ELSE s[i]]

\* p is the langtype as text, parsed.
XValueHead_from_wire(h, p) ==
  CASE h.reference = "ptr" -> XValue("ptr", ptr_target_kind(lossy(h.langtype)), <<>>, lossy(h.body), 0)
    [] h.reference = "ext" -> XValue("ext", Tail(lossy(h.langtype)), <<>>, lossy(h.body), 0)
    [] h.reference = "none" /\ Contains(p.kind, DOT) -> XValue("map", p.kind, <<>>, <<>>, 0)
    [] h.reference = "none" /\ p.kind \in {<<KIND_BOOL>>, <<KIND_INT16>>, <<KIND_CHAR_UTF8>>, <<KIND_CHAR>>} ->
         XValue("arr", p.kind, p.dims, elements(p.kind[1], h.body), 0)
    [] OTHER -> XValue("opaque", p.kind, <<>>, h.body, product(p.dims))

\* No langtype, no body and no attributes at all is None.
decode(h) ==
  IF ~ h.ok \/ (h.langtype = <<>> /\ h.len = 0 /\ h.attrs = <<>>) THEN None
  ELSE XValueHead_from_wire(h, parse_kindexpr(lossy(h.langtype)))
from_wire(data) == decode(headlenpow_from_wire(data))

\* A pointer's kindexpr that begins with '*' gets no second one.
langtype_of(v) ==
  CASE v.variant = "ptr" -> IF BeginsWith(v.kind, STAR) THEN v.kind ELSE prefixed("ptr", v.kind)
    [] v.variant = "ext" -> prefixed("ext", v.kind)
    [] v.variant = "arr" -> kindexpr_of(v.kind, v.dims)
    [] v.variant = "opaque" -> kindexpr_of(v.kind, array_to_header(v.kind, v.size))
    [] OTHER -> v.kind
body_of(v) == IF v.variant = "arr" THEN raw_bytes(v.kind[1], v.data) ELSE v.data
to_wire(v) == headlenpow_to_wire(body_of(v), langtype_of(v))

\* What the constructors are called with: elements that fit their width, a body
\* and a langtype that fit the fields of the head, and '*' or '@' at the front
\* of a langtype for references only.
ASSUME BuiltAssumption ==
  \A v \in Built :
    /\ v.data \in Seq(IF v.variant = "arr" /\ v.kind[1] \in Wide THEN 0 .. Word * Word - 1 ELSE Byte)
    /\ v.kind \in Seq(Byte) /\ langtype_of(v) \in Seq(Byte)
    /\ Len(body_of(v)) < Word /\ Len(langtype_of(v)) + 2 < Word
    /\ v.variant \notin {"ptr", "ext"} => reference_of(langtype_of(v)) = "none"

-----------------------------------------------------------------------------
\* What the stored value was made as; value is None after a part write and for a
\* value that was not built by a constructor.
Made(ref, langtype, len, cap, content, value) ==
  [ref |-> ref, langtype |-> langtype, len |-> len, cap |-> cap, content |-> content, value |-> value]

Unknown == Made("none", <<>>, 0, 0, <<>>, None)

CodecInit == wire = NoWire /\ made = Unknown /\ intact = FALSE

\* A constructor's value is stored.
Build(v) ==
  /\ wire' = to_wire(v) /\ intact' = TRUE
  /\ made' = Made(IF v.variant \in {"ptr", "ext"} THEN v.variant ELSE "none", langtype_of(v),
                  Len(body_of(v)), Len(body_of(v)), body_of(v), v)

\* kvspaceWriteNewPlace, and the caller writing len bytes through the pointer.
WriteNewPlace(ref, langtype, body, cap) ==
  LET new == build_xvalue_head(ref, Len(body), cap, langtype)
  IN /\ new # NoWire
     /\ wire' = [i \in DOMAIN new |-> IF i - PREFIX \in DOMAIN body THEN body[i - PREFIX] ELSE new[i]]
     /\ intact' = TRUE
     /\ made' = Made(ref, prefixed(ref, langtype), Len(body), cap, body, None)

\* Defect: the bound is the capacity.
part_fits_Capacity(data, off, buf) ==
  headlenpow_from_wire(data).ok /\ off + Len(buf) <= PREFIX + headlenpow_from_wire(data).len

part_fits(data, off, buf) ==
  headlenpow_from_wire(data).ok /\ off + Len(buf) <= PREFIX + effective_len(data)

patch(data, off, buf) ==
  [i \in DOMAIN data |-> IF i - off \in DOMAIN buf THEN buf[i - off] ELSE data[i]]

\* set_part: offsets count from the head, which can be overwritten too.
SetPart(off, buf) ==
  /\ wire # NoWire /\ part_fits(wire, off, buf)
  /\ wire' = patch(wire, off, buf)
  /\ IF off >= PREFIX
     THEN made' = [made EXCEPT !.content = patch(@, off - PREFIX, buf), !.value = None] /\ UNCHANGED intact
     ELSE made' = Unknown /\ intact' = FALSE

\* kvspaceSetValue stores what it is given, followed by extra, up to the length
\* the head says.
SetValue(extra) ==
  LET h == headlenpow_from_wire(wire \o extra)
  IN /\ wire # NoWire /\ h.ok
     /\ wire' = SubSeq(wire \o extra, 1, PREFIX + h.len + Len(h.attrs))
     /\ UNCHANGED <<made, intact>>

CodecNext ==
  \/ wire = NoWire /\ \E v \in Built : Build(v)
  \/ /\ wire = NoWire
     /\ \E ref \in {"none", "ptr", "ext"}, lt \in Langtypes, n \in 0 .. MaxBody, cap \in 0 .. MaxBody :
          \E body \in [1 .. n -> FillBytes] : WriteNewPlace(ref, lt, body, cap)
  \/ \E off \in 0 .. PREFIX + MaxBody, buf \in PartBytes : SetPart(off, buf)
  \/ SetValue(<<0>>)

CodecSpec == CodecInit /\ [][CodecNext]_codec_vars

-----------------------------------------------------------------------------
\* Type: bytes.
CodecTypeOK == \A i \in DOMAIN wire : wire[i] \in Byte

\* A value that was built, filled, patched in its body any number of times and
\* stored again reads as it was made: reference, langtype, capacity, effective
\* length and contents (headlenpow.rs from_wire and effective_len, which has to
\* find reallen behind the langtype record).
ReadsAsMade ==
  LET h == headlenpow_from_wire(wire)
  IN intact =>
       /\ h.ok /\ h.reference = made.ref /\ h.len = made.cap
       /\ effective_len(wire) = made.len
       /\ SubSeq(h.body, 1, made.len) = made.content
       /\ h.langtype = made.langtype

\* Whatever bytes a part write has put into the head, from_wire refuses the
\* value or finds body and attributes inside it, with an effective length
\* inside the body; it never reads past the end, also when the lengths overflow.
ParseSafe ==
  LET h == headlenpow_from_wire(wire)
  IN wire # NoWire /\ h.ok =>
       /\ h.len = wire[BODYLEN] /\ PREFIX + h.len + Len(h.attrs) <= Len(wire)
       /\ effective_len(wire) <= h.len

\* set_part "changes what is there and never makes the value larger": the spare
\* capacity behind the effective length, the attributes and the total length
\* stay as they are, whatever head earlier part writes have left.
PartContained ==
  [][\A off \in 0 .. PREFIX + MaxBody, buf \in PartBytes :
       wire # NoWire /\ SetPart(off, buf) =>
         /\ Len(wire') = Len(wire)
         /\ \A i \in DOMAIN wire : i > PREFIX + effective_len(wire) => wire'[i] = wire[i]]_codec_vars

\* What the wire cannot carry: the bytes of a target or locator that are no
\* text, one level of a pointer whose kindexpr begins with '*' (xvalue.rs:409
\* adds no second one), and a dimension 0 of a kind the code does not know.
Reread(v) ==
  CASE v.variant = "ptr" ->
         [v EXCEPT !.data = lossy(@), !.kind = IF BeginsWith(@, STAR) THEN Tail(@) ELSE @]
    [] v.variant = "ext" -> [v EXCEPT !.data = lossy(@)]
    [] v.variant = "opaque" /\ v.size = 0 /\ ~ (v.kind # <<>> /\ v.kind[1] \in CharKinds) ->
         [v EXCEPT !.size = 1]
    [] OTHER -> v

\* What the constructors build decodes to the same variant, kind, shape and
\* elements but for the losses of Reread; and so does, whatever its body has
\* become since, the decoded value of a stored one when it is encoded again, as
\* Watch does with every value it returns (xvalue.rs from_wire and to_wire).  The
\* effective length of a CAPACITY is no part of this: Watch returns the spare
\* bytes as contents.
RoundTrip ==
  /\ made.value # None => from_wire(wire) = Reread(made.value)
  /\ intact => from_wire(to_wire(from_wire(wire))) = Reread(from_wire(wire))
=============================================================================
