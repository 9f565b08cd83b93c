---------------------------- MODULE ProcessTable ----------------------------
(***************************************************************************)
(* What BrowserPool promises of the Chromes behind its indices to those     *)
(* that look one up, with spawn, kill, the lock and the tasks hidden.  The  *)
(* pool serves once every index has a Chrome, and from then on none is      *)
(* without until it closes.  A Chrome may die at any time; while the pool   *)
(* serves, a dead one may be exchanged for a new one and a living one never *)
(* is.  A pool that closes, or never comes to serve, only loses Chromes.    *)
(***************************************************************************)
CONSTANT Indices  \* the ports a Chrome can be behind

VARIABLES
    mode,  \* whether the pool is starting, serving or closing
    place  \* what is behind each index: nothing, a Chrome, or a dead one

vars == <<mode, place>>

Empty == [i \in Indices |-> "empty"]

Init ==
    /\ mode = "starting"
    /\ place = Empty

(* The pool serves as soon as the last place is filled. *)
Fill(i) ==
    /\ mode = "starting"
    /\ place[i] = "empty"
    /\ place' = [place EXCEPT ![i] = "up"]
    /\ mode' = IF \E j \in Indices : place'[j] = "empty" THEN "starting" ELSE "serving"

Die(i) ==
    /\ place[i] = "up"
    /\ place' = [place EXCEPT ![i] = "dead"]
    /\ UNCHANGED mode

Replace(i) ==
    /\ mode = "serving"
    /\ place[i] = "dead"
    /\ place' = [place EXCEPT ![i] = "up"]
    /\ UNCHANGED mode

Close ==
    /\ mode # "closing"
    /\ mode' = "closing"
    /\ UNCHANGED place

Remove(i) ==
    /\ mode = "closing"
    /\ place[i] # "empty"
    /\ place' = [place EXCEPT ![i] = "empty"]
    /\ UNCHANGED mode

(* The pool is dropped with all its Chromes. *)
Drop ==
    /\ mode = "serving"
    /\ mode' = "closing"
    /\ place' = Empty

Next ==
    \/ \E i \in Indices : Fill(i) \/ Die(i) \/ Replace(i) \/ Remove(i)
    \/ Close
    \/ Drop

Spec == Init /\ [][Next]_vars
=============================================================================
