------------------------------- MODULE MCOwn -------------------------------
(***************************************************************************)
(* One handle alone on its store, every backend access possibly failing    *)
(* half way.  Its calls come from one of two worlds: containers that are   *)
(* copied and deleted, in a store that has metadata in the reserved area,  *)
(* or single values, pointers and mounted directories in one that has none.*)
(***************************************************************************)
EXTENDS MCHandle

OwnRequests == TreeRequests \cup ValueRequests

\* None of the tree requests reaches it; Clear would.
WorldKey == MetaRoot \o <<"/", "w">>
Start(c) ==
  /\ c \in IF WorldKey \in DOMAIN store THEN TreeRequests ELSE ValueRequests
  /\ Begin(c)

OwnInit ==
  /\ store \in {Empty, Put(Empty, WorldKey, Inline("v"))}
  /\ open = TRUE
  /\ read_cache = Empty /\ volatile_cache = Empty /\ retired = {}
  /\ pending = {} /\ list_cache = {} /\ borrows = {}
  /\ call = Idle /\ ret = TRUE
OwnNext ==
  \/ \E c \in Requests : Start(c)
  \/ Fetch
  \/ Finish
  \/ \E body \in Bodies : FillBody(body)
  \/ Close \/ Connect
OwnSpec == OwnInit /\ [][OwnNext]_vars
=============================================================================
