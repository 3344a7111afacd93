-------------------------------- MODULE Coord --------------------------------
(***************************************************************************)
(* Coordinate segments (coord.rs) and the order of a listing.              *)
(*                                                                         *)
(* A listing is read entry by entry, in any order (read_dir, or the        *)
(* iteration of a HashMap), and sorted with sort_by(cmp_coord), which is   *)
(* stable and promises nothing when the comparison is inconsistent.  The   *)
(* file tree shows a name twice that is both a value and a member          *)
(* container, and relies on the sort to bring the two together for dedup.  *)
(*                                                                         *)
(* A name is a sequence of bytes; numbers fit an i64.                      *)
(***************************************************************************)
EXTENDS Integers, SequencesExt, FiniteSetsExt

CONSTANTS Names,      \* member names
          MaxListed   \* bound: entries of a listing

\* Names are byte strings.
ASSUME NamesAssumption == Names \subseteq Seq(Nat)

VARIABLE listed       \* the entries read so far, sorted

OpenB == 91
CloseB == 93
CommaB == 44
Digit(c) == c \in 48 .. 57

inner(name) == SubSeq(name, 2, Len(name) - 1)

\* Not empty, in brackets, and no brackets inside.
is_coord(name) ==
  /\ Len(name) >= 3 /\ name[1] = OpenB /\ name[Len(name)] = CloseB
  /\ \A i \in DOMAIN inner(name) : inner(name)[i] \notin {OpenB, CloseB}

\* The parts of a coordinate between commas.
parts(s) ==
  LET cut[i \in 0 .. Len(s)] ==
        IF i = 0 THEN <<<<>>>>
        ELSE IF s[i] = CommaB THEN Append(cut[i - 1], <<>>)
        ELSE [cut[i - 1] EXCEPT ![Len(cut[i - 1])] = Append(@, s[i])]
  IN cut[Len(s)]

value_of(s) ==
  LET v[i \in 0 .. Len(s)] == IF i = 0 THEN 0 ELSE 10 * v[i - 1] + (s[i] - 48) IN v[Len(s)]

\* <<>> when some part is not a number.  Of a name that is_coord.
parse_coord(name) ==
  LET ps == parts(inner(name))
  IN IF \A i \in DOMAIN ps : ps[i] # <<>> /\ \A j \in DOMAIN ps[i] : Digit(ps[i][j])
     THEN [i \in DOMAIN ps |-> value_of(ps[i])] ELSE <<>>

\* The lexicographic order of byte strings and of vectors of numbers.
Cmp(s, t) ==
  LET differ == {i \in DOMAIN s \cap DOMAIN t : s[i] # t[i]}
      i == Min(differ)
      less == IF differ = {} THEN Len(s) < Len(t) ELSE s[i] < t[i]
  IN IF s = t THEN "Equal" ELSE IF less THEN "Less" ELSE "Greater"

\* Defect: numbers are compared as numbers, a number with anything else as strings.
cmp_coord_Mixed(a, b) ==
  CASE ~ is_coord(a) /\ is_coord(b) -> "Greater"
    [] is_coord(a) /\ ~ is_coord(b) -> "Less"
    [] is_coord(a) /\ is_coord(b) /\ parse_coord(a) # <<>> /\ parse_coord(b) # <<>> ->
         Cmp(parse_coord(a), parse_coord(b))
    [] OTHER -> Cmp(a, b)

cmp_coord(a, b) ==
  LET number(n) == is_coord(n) /\ parse_coord(n) # <<>>
  IN CASE is_coord(a) /\ ~ is_coord(b) -> "Less"
       [] ~ is_coord(a) /\ is_coord(b) -> "Greater"
       [] number(a) /\ is_coord(b) /\ ~ number(b) -> "Less"
       [] is_coord(a) /\ ~ number(a) /\ number(b) -> "Greater"
       [] number(a) /\ number(b) -> Cmp(parse_coord(a), parse_coord(b))
       [] OTHER -> Cmp(a, b)

\* sort_by: an entry goes behind all that are not greater.
insert(s, name) ==
  LET at == Max({0} \cup {i \in DOMAIN s : cmp_coord(s[i], name) # "Greater"})
  IN InsertAt(s, at + 1, name)

\* Defect: no dedup.
dedup_Never(s) == s

\* Vec::dedup removes a name that equals its predecessor.
dedup(s) ==
  LET kept[i \in 0 .. Len(s)] ==
        IF i = 0 THEN <<>>
        ELSE IF i > 1 /\ s[i] = s[i - 1] THEN kept[i - 1] ELSE Append(kept[i - 1], s[i])
  IN kept[Len(s)]

CoordInit == listed = <<>>

\* A name has at most two entries, a value and its member container.
ReadEntry(name) ==
  /\ Len(listed) < MaxListed
  /\ Cardinality({i \in DOMAIN listed : listed[i] = name}) < 2
  /\ listed' = insert(listed, name)

CoordNext == \E name \in Names : ReadEntry(name)

CoordSpec == CoordInit /\ [][CoordNext]_listed

-----------------------------------------------------------------------------
\* In whatever order the entries are read, the listing is in order: no entry is
\* greater than a later one, not only than its neighbour, and coordinates come
\* before other names (cmp_coord is consistent, as sort_by requires).
Sorted ==
  \A i, j \in DOMAIN listed : i < j =>
    /\ cmp_coord(listed[i], listed[j]) # "Greater"
    /\ is_coord(listed[j]) => is_coord(listed[i])

\* dedup after the sort leaves every name once (dir_children), unless another
\* spelling of the same coordinate, as [1] and [01], is listed with it: the two
\* compare Equal and may separate the entries of a name.
ListedOnce ==
  LET s == dedup(listed)
  IN \A i, j \in DOMAIN s : i # j /\ s[i] = s[j] =>
       \E k \in DOMAIN s : s[k] # s[i] /\ cmp_coord(s[k], s[i]) = "Equal"
=============================================================================
