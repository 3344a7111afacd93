------------------------------- MODULE MCTree -------------------------------
(***************************************************************************)
(* The tree in one of two worlds: links that form chains and cycles and    *)
(* lead into the reserved area, or containers with an extension.  A world  *)
(* has its keys, values and its bounds on what is stored.                  *)
(***************************************************************************)
EXTENDS MCBackend

VARIABLE world

Worlds ==
  [links |-> [keys |-> LinkKeys, dirs |-> LinkDirs, dels |-> LinkDelLists, trees |-> LinkTrees,
              values |-> LinkValues, parts |-> LinkParts, exts |-> {<<PD, PD>>}, maxkeys |-> 3, maxlen |-> 4],
   trees |-> [keys |-> TreeKeys, dirs |-> {PD}, dels |-> TreeDelLists, trees |-> TreeTrees,
              values |-> TreeValues, parts |-> {}, exts |-> {<<PD, BD>>}, maxkeys |-> 4, maxlen |-> 6]]
Copied == {P, PX}
AllKeys == LinkKeys \cup TreeKeys
AllDirs == LinkDirs \cup TreeDirs
AllDelLists == LinkDelLists \cup TreeDelLists
AllTrees == LinkTrees \cup TreeTrees
AllValues == LinkValues \cup TreeValues

Here == Worlds[world]
Fits == Cardinality(DOMAIN store') <= Here.maxkeys /\ \A k \in DOMAIN store' : Len(k) <= Here.maxlen
Stay == Fits /\ UNCHANGED world

TreeInit == Init /\ world \in DOMAIN Worlds
TreeNext ==
  \/ \E k \in Here.keys, v \in Here.values : Set(k, v) /\ Stay
  \/ \E k \in Here.keys, off \in Offsets, buf \in Here.parts : SetPart(k, off, buf) /\ Stay
  \/ \E src, dst \in Copied : Cp(src, dst) /\ Stay
  \/ \E ks \in Here.dels : Del(ks) /\ Stay
  \/ \E p \in Here.keys \cup Here.dirs : DelTree(p) /\ Stay
  \/ \E src, dst \in Here.trees : CpTree(src, dst) /\ Stay
  \/ \E src, dst \in Here.trees : CpList(src, dst) /\ Stay
  \/ \E d \in Here.dirs : Mkindex(d) /\ Stay
  \/ \E e \in Here.exts : ExtIndex(e[1], e[2]) /\ Stay
  \/ \E d \in Here.dirs : DelExtIndex(d) /\ Stay
  \/ Clear /\ Stay
TreeSpec == TreeInit /\ [][TreeNext]_<<world, store>>
=============================================================================
