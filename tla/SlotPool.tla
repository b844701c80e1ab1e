------------------------------- MODULE SlotPool -------------------------------
(***************************************************************************)
(* What core/memory/order_pool.h promises its callers, without the free    *)
(* list: a slot is free or in the hands of exactly one thread, a thread    *)
(* receives some free slot, and only its holder gives a slot back.         *)
(***************************************************************************)
CONSTANTS Threads, Slots

VARIABLES free, held

Init == /\ free = Slots
        /\ held = [t \in Threads |-> {}]

Take(t, s) == /\ s \in free
              /\ free' = free \ {s}
              /\ held' = [held EXCEPT ![t] = @ \cup {s}]

Give(t, s) == /\ s \in held[t]
              /\ held' = [held EXCEPT ![t] = @ \ {s}]
              /\ free' = free \cup {s}

Next == \E t \in Threads, s \in Slots : Take(t, s) \/ Give(t, s)

Spec == Init /\ [][Next]_<<free, held>>
=============================================================================
