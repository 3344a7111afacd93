----------------------------- MODULE MCBackend -----------------------------
(***************************************************************************)
(* Instances of Backend for TLC.                                           *)
(***************************************************************************)
EXTENDS Backend

AllLetters == Separators \cup ToSet(MetaRoot) \cup {"b", "m", "n", "p", "q", "s", "v", "w", "x"}

Inline(c) == [kind |-> "inline", body |-> <<c>>]
Malformed == [kind |-> "malformed", body |-> <<>>]

P == <<"/", "p">>
PD == <<"/", "p", "/">>
PX == <<"/", "p", "/", "x">>
PQ == <<"/", "p", "q">>
PM == <<"/", "p", ".", "m">>
B == <<"/", "b">>
BD == <<"/", "b", "/">>

\* Links: a chain /p -> /b -> /pq, cycles of one and two links with a link into
\* them, a link to the reserved area.
LinkKeys == {P, PX, PQ, B}
LinkDirs == {PD}
LinkDelLists == {<<PQ>>, <<P>>, <<PD>>, <<PX, P>>}
LinkTrees == {P, BD}
LinkValues == {Inline("v"), Malformed, Ptr(PQ), Ptr(B), Ptr(MetaRoot)}
LinkParts == {<<"w">>}

\* Trees: a container with member, child, runtime variable and deeper member,
\* its sibling /pq whose name begins alike, and a read-only extension.
TreeKeys == {P, PQ, PM, <<"/", "p", ".", "m", ".", "n">>, PX, <<"/", "p", "..", "s">>, <<"/", "b", "/", "x">>}
TreeDirs == {PD, BD}
TreeDelLists == {<<P>>, <<PD>>, <<<<"/", "b", "/", "x">>, BD>>}
TreeTrees == {P, BD, PM}
TreeValues == {Inline("v")}
=============================================================================
