----------------------------- MODULE MCShared ------------------------------
(***************************************************************************)
(* One store shared with another process, in one of three worlds: control  *)
(* keys, relayout, pointer cycles.  A world has its requests, the writes   *)
(* of the other process and a bound on the buffers alive; a key no call    *)
(* touches names it.                                                       *)
(***************************************************************************)
EXTENDS MCHandle

Worlds == [control |-> [requests |-> ControlRequests, env |-> ControlEnv, buffers |-> 5],
           relayout |-> [requests |-> RelayoutRequests, env |-> RelayoutEnv, buffers |-> 7],
           cycles |-> [requests |-> CycleRequests, env |-> CycleEnv, buffers |-> 3]]
AllRequests == UNION {Worlds[w].requests : w \in DOMAIN Worlds}
AllEnv == UNION {Worlds[w].env : w \in DOMAIN Worlds}

WorldKey == <<"/", "world">>
World == store[WorldKey].body[1]

\* A call starts when it cannot exceed the buffers of its world.
Start(c) ==
  /\ c \in Worlds[World].requests
  /\ Cardinality(BufIds \ FreeIds) < Worlds[World].buffers
  /\ Begin(c)
Other(e) == e \in Worlds[World].env /\ Environment(e)

SharedInit ==
  \E w \in DOMAIN Worlds :
    /\ store = Put(Empty, WorldKey, Inline(w))
    /\ open = TRUE
    /\ read_cache = Empty /\ volatile_cache = Empty /\ retired = {}
    /\ pending = {} /\ list_cache = {} /\ borrows = {}
    /\ call = Idle /\ ret = TRUE
SharedNext ==
  \/ \E c \in Requests : Start(c)
  \/ Fetch
  \/ Finish
  \/ \E body \in Bodies : FillBody(body)
  \/ Close \/ Connect
  \/ \E e \in EnvWrites : Other(e)
\* A call in progress runs on; stated for the world whose calls could go round
\* in circles.
SharedSpec ==
  SharedInit /\ [][SharedNext]_vars /\ WF_vars(World = "cycles" /\ (Fetch \/ Finish))

\* Every call returns, whatever pointer cycles the other process builds and
\* rewrites while the call follows them, except a Watch while its key does not
\* hold the target (resolve_cached_key counts hops).
CyclesReturn == World = "cycles" => CallReturns
=============================================================================
