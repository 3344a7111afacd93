------------------------------- MODULE KVStore -------------------------------
(***************************************************************************)
(* What every KVStore (store.rs) promises the backends built on it, over a *)
(* network that loses and delays requests:                                 *)
(*                                                                         *)
(*   - the contents change only by what a call asks for;                   *)
(*   - a call that returns tells the truth about some moment of its own    *)
(*     duration, one moment per key (Honest);                              *)
(*   - a call that fails, or was repeated on the way, may have its effect  *)
(*     at any later time, and calls end only by returning or by failing.   *)
(***************************************************************************)
EXTENDS StoreCalls

VARIABLES data,   \* contents: key -> bytes
          late    \* effects still under way without a call that waits for them

\* Any contents may be there already.
Init == late = {} /\ ClientsInit

Invoke(c) == \E q \in NextCalls(c) : Invoked(c, q, data) /\ UNCHANGED <<data, late>>

\* The effect of a call that is waiting, or of a request left behind.
Apply ==
  /\ \E e \in late \cup UNION {Effects(call[c], since[c]) : c \in Clients} :
       /\ data' = Effect(e, data)
       /\ late' \in {late, late \ {e}}
  /\ Seen(data')

\* A request of c is given up although it may still be executed.
Detach(c) ==
  /\ \E e \in Effects(call[c], since[c]) : late' = late \cup {e}
  /\ Unseen /\ UNCHANGED data

Return(c) ==
  /\ call[c] # NoCall
  /\ Ended(c, answer')
  /\ answer'.ok => Honest(call[c], answer'.ans, since[c])
  /\ \/ late' = late
     \/ ~ answer'.ok /\ \E e \in Effects(call[c], since[c]) : late' = late \cup {e}
  /\ UNCHANGED data

\* A step inside the store.
Internal == Unseen /\ UNCHANGED <<data, late>>

Next == Apply \/ Internal \/ \E c \in Clients : Invoke(c) \/ Detach(c) \/ Return(c)

Spec == Init /\ [][Next]_<<data, late, clients>>
=============================================================================
