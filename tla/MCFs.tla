-------------------------------- MODULE MCFs --------------------------------
(***************************************************************************)
(* Instances of FsLayout for TLC.                                          *)
(***************************************************************************)
EXTENDS FsLayout

\* A container with a member, a child and its child, a runtime variable and a
\* child named like a marker; its sibling "/pq" named alike.
P == <<"/", "p">>
PD == <<"/", "p", "/">>
PX == <<"/", "p", "/", "x">>
PXY == <<"/", "p", "/", "x", "/", "y">>
PM == <<"/", "p", ".", "m">>
PS == <<"/", "p", "..", "s">>
PQ == <<"/", "p", "q">>
PSelf == <<"/", "p", "/", "__self__">>

Inline(a, b) == [kind |-> "inline", body |-> <<a, b>>]
Short == [kind |-> "char", body |-> <<"c">>]

LetterSet == {"/", ".", "..", "~", "~tmp", "__self__", "__dir__", "p", "q", "x", "y", "m", "s", "v", "w", "c"}
KeySet == {P, PX, PM, PS, PQ, PSelf}
DirSet == {PD}
TreeSet == {P, PQ}
WriteSet == {<<P, Inline("v", "v")>>, <<P, Inline("w", "w")>>, <<P, Short>>, <<PX, Ptr(PQ)>>,
             <<PXY, Short>>, <<PS, Short>>, <<PQ, Short>>, <<PSelf, Short>>}
CopySet == {<<P, PM>>, <<PM, PQ>>}
PartSet == {<<P, <<"w">>>>, <<P, <<"w", "w">>>>, <<PM, <<"w">>>>}

\* A container with a runtime variable, copied.
CopiedKeySet == {P, PS, PQ}
CopiedWriteSet == {<<P, Short>>, <<PS, Short>>, <<PQ, Short>>}
=============================================================================
