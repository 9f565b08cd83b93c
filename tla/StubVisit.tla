----------------------------- MODULE StubVisit ------------------------------
(***************************************************************************)
(* What a Turnstile solve makes of its page, with the calls, Fetch, the     *)
(* interceptor and its channel hidden.  The target is asked for at most     *)
(* once, after the solve has begun; its document is the stub for as long as *)
(* it stays, and is the target's own only if the solve has ended, or if its *)
(* URL is not the one the browser asks for.  Only a stub asks for the       *)
(* target again, and what it asks for is let through.                       *)
(***************************************************************************)
CONSTANT Solves

VARIABLES
    solve,    \* whether each solve is yet to begin, goes on, or is over
    document, \* what the page of each shows
    request,  \* what has become of the stub's own request for the target
    fits      \* the solves whose URL is the one the browser asks for

vars == <<solve, document, request, fits>>

Init ==
    /\ solve = [s \in Solves |-> "before"]
    /\ document = [s \in Solves |-> "blank"]
    /\ request = [s \in Solves |-> "none"]
    /\ fits \in SUBSET Solves

Begin(s) ==
    /\ solve[s] = "before"
    /\ solve' = [solve EXCEPT ![s] = "going"]
    /\ UNCHANGED <<document, request, fits>>

End(s) ==
    /\ solve[s] # "over"
    /\ solve' = [solve EXCEPT ![s] = "over"]
    /\ UNCHANGED <<document, request, fits>>

(* The page of s goes from one of the documents in from to the document d. *)
Turn(s, from, d) ==
    /\ document[s] \in from
    /\ document' = [document EXCEPT ![s] = d]
    /\ UNCHANGED <<solve, request, fits>>

Hold(s) == s \in fits /\ solve[s] # "before" /\ Turn(s, {"blank"}, "paused")

Serve(s) == Turn(s, {"paused"}, "stub")

Visit(s) == solve[s] = "over" /\ Turn(s, {"blank", "paused"}, "site")

Miss(s) == s \notin fits /\ solve[s] = "going" /\ Turn(s, {"blank"}, "site")

Ask(s) ==
    /\ document[s] = "stub" /\ request[s] = "none"
    /\ request' = [request EXCEPT ![s] = "paused"]
    /\ UNCHANGED <<solve, document, fits>>

LetThrough(s) ==
    /\ request[s] = "paused"
    /\ request' = [request EXCEPT ![s] = "continued"]
    /\ UNCHANGED <<solve, document, fits>>

Next ==
    \E s \in Solves :
        \/ Begin(s) \/ End(s)
        \/ Hold(s) \/ Serve(s) \/ Visit(s) \/ Miss(s)
        \/ Ask(s) \/ LetThrough(s)

Spec == Init /\ [][Next]_vars
=============================================================================
