------------------------------ MODULE SlotPool ------------------------------
(***************************************************************************)
(* What the browser pool promises its callers, with the semaphore, the     *)
(* queue and the locks hidden.  A request is new, then holds exactly one   *)
(* slot, then is served; a slot is free, or held by one request, or gone   *)
(* with a request whose client went away.  There is no step that refuses a *)
(* request: PoolError::CapacityExhausted is not part of the promise, so an *)
(* implementation of this module never returns it from a live pool.        *)
(***************************************************************************)
CONSTANTS
    Requests,       \* the HTTP requests of one run of the service
    Slots,          \* the (process, tab) pairs a request can be given
    Disconnecting,  \* the requests whose client may go away
    NoSlot          \* what a request without a slot holds

VARIABLES
    free,    \* the slots nobody holds
    holder,  \* the slot each request holds
    stage    \* how far each request is

vars == <<free, holder, stage>>

Init ==
    /\ free = Slots
    /\ holder = [r \in Requests |-> NoSlot]
    /\ stage = [r \in Requests |-> "new"]

Take(r, s) ==
    /\ stage[r] = "new"
    /\ s \in free
    /\ free' = free \ {s}
    /\ holder' = [holder EXCEPT ![r] = s]
    /\ stage' = [stage EXCEPT ![r] = "holding"]

Return(r) ==
    /\ stage[r] = "holding"
    /\ free' = free \cup {holder[r]}
    /\ holder' = [holder EXCEPT ![r] = NoSlot]
    /\ stage' = [stage EXCEPT ![r] = "served"]

(* A request whose client goes away takes the slot it holds, if any, with it. *)
Leave(r) ==
    /\ r \in Disconnecting
    /\ stage[r] \in {"new", "holding"}
    /\ holder' = [holder EXCEPT ![r] = NoSlot]
    /\ stage' = [stage EXCEPT ![r] = "gone"]
    /\ UNCHANGED free

Next ==
    \E r \in Requests :
        \/ \E s \in Slots : Take(r, s)
        \/ Return(r)
        \/ Leave(r)

Spec == Init /\ [][Next]_vars

(* Every request that can be served is: strong fairness for Take, because a *)
(* slot may be free only now and then while others queue for it too.        *)
Fairness ==
    \A r \in Requests :
        /\ SF_vars(\E s \in Slots : Take(r, s))
        /\ WF_vars(Return(r))

FairSpec == Spec /\ Fairness
=============================================================================
