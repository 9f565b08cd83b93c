----------------------------- MODULE RemoteCall -----------------------------
(***************************************************************************)
(* What a caller of CdpConnection::call may conclude from what it gets.     *)
(* Chrome executes a command at most once.  A result means it was executed; *)
(* "the writer task is gone" means it never was and never will be; an error *)
(* (Chrome's, or the connection's end) and a timeout say nothing: Chrome    *)
(* may have executed the command, may be about to, or may never see it.     *)
(***************************************************************************)
CONSTANT Calls

VARIABLES
    executed, \* the commands Chrome has executed
    outcome   \* what each caller got

vars == <<executed, outcome>>

Outcomes == {"result", "error", "timeout", "unsent", "abandoned"}

Init ==
    /\ executed = {}
    /\ outcome = [c \in Calls |-> "none"]

(* A command may be executed after its caller has given up on it. *)
Execute(c) ==
    /\ c \notin executed
    /\ outcome[c] \in {"none", "error", "timeout", "abandoned"}
    /\ executed' = executed \cup {c}
    /\ UNCHANGED outcome

Finish(c, o) ==
    /\ outcome[c] = "none"
    /\ o = "result" => c \in executed
    /\ o = "unsent" => c \notin executed
    /\ outcome' = [outcome EXCEPT ![c] = o]
    /\ UNCHANGED executed

Next == \E c \in Calls : Execute(c) \/ \E o \in Outcomes : Finish(c, o)

Spec == Init /\ [][Next]_vars
=============================================================================
