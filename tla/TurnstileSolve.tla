-------------------------- MODULE TurnstileSolve ---------------------------
(***************************************************************************)
(* TurnstileSolver::solve: the solver that has Chrome navigate to the       *)
(* target, and the interceptor task that serves the stub page in place of   *)
(* the target's document.  The interceptor learns of the paused request     *)
(* from the broadcast of all events of the connection, which solves on the  *)
(* same Chrome share, and whose oldest events a slow reader loses.          *)
(*                                                                          *)
(* Chrome pauses the requests that Fetch.enable names.  The solver names    *)
(* them by the URL it was given, which Chrome reads as a pattern ("*" and   *)
(* "?" are wildcards) for the URL it is to ask for: that has no fragment,   *)
(* its host is in lower case, and its path is never empty.                  *)
(*                                                                          *)
(* CDP calls are used as RemoteCall describes them: Chrome executes what it *)
(* is sent at some later time or never, and a call may fail either way.     *)
(***************************************************************************)
EXTENDS Naturals, Sequences

CONSTANTS
    Solves,         \* Turnstile solves on one connection, one session each
    Disconnecting,  \* those whose client may go away
    Capacity        \* of the broadcast channel

ASSUME TurnstileAssumption ==
    /\ Disconnecting \subseteq Solves
    /\ Capacity \in Nat \ {0}

VARIABLES
    stage,     \* where each solver is
    task,      \* its interceptor
    unread,    \* the events the interceptor has not read
    lagging,   \* the interceptors that have lost events
    commands,  \* of the solvers, not executed yet
    answers,   \* of the interceptors, not executed yet
    fetch,     \* the sessions with Fetch enabled
    page,      \* what the document of each session is
    resource,  \* the request for the target that is not for a document
    matched    \* the solves whose URL, as a pattern, fits what Chrome asks for

vars == <<stage, task, unread, lagging, commands, answers, fetch, page, resource, matched>>

solver == <<stage, commands>>
channel == <<unread, lagging>>
chrome == <<fetch, page, resource, matched>>

Stages == {"enabling", "navigating", "polling", "disabling", "done", "dropped"}
Events == [session : Solves, request : {"document", "resource", "none"}]

Subscribed == {s \in Solves : task[s] \in {"receiving", "answering"}}
Paused(s) ==
    {q \in {"document", "resource"} :
        IF q = "document" THEN page[s] = "paused" ELSE resource[s] = "paused"}

TypeOK ==
    /\ stage \in [Solves -> Stages]
    /\ task \in [Solves -> {"none", "receiving", "answering", "ended", "aborted"}]
    /\ unread \in [Solves -> Seq(Events)]
    /\ \A s \in Solves : Len(unread[s]) <= Capacity
    /\ lagging \subseteq Solves
    /\ commands \in [Solves -> SUBSET {"enable", "navigate", "disable"}]
    /\ answers \in [Solves -> SUBSET {"document", "resource"}]
    /\ fetch \subseteq Solves
    /\ page \in [Solves -> {"blank", "paused", "stub", "site"}]
    /\ resource \in [Solves -> {"none", "paused", "continued"}]
    /\ matched \subseteq Solves

Init ==
    /\ stage = [s \in Solves |-> "enabling"]
    /\ task = [s \in Solves |-> "none"]
    /\ unread = [s \in Solves |-> <<>>]
    /\ lagging = {}
    /\ commands = [s \in Solves |-> {"enable"}]
    /\ answers = [s \in Solves |-> {}]
    /\ fetch = {}
    /\ page = [s \in Solves |-> "blank"]
    /\ resource = [s \in Solves |-> "none"]
    /\ matched \in SUBSET Solves

(* Solver s sends command k and goes on to stage st. *)
Ask(s, k, st) ==
    /\ stage' = [stage EXCEPT ![s] = st]
    /\ commands' = [commands EXCEPT ![s] = @ \cup {k}]

-----------------------------------------------------------------------------
(* Forms of the actions below with a plausible bug; the specification uses  *)
(* none of them.  They show which property would notice the bug.            *)

(* The interceptor subscribes when the page has loaded. *)
EnabledUnsubscribed(s) ==
    /\ stage[s] = "enabling" /\ s \in fetch
    /\ Ask(s, "navigate", "navigating")
    /\ UNCHANGED <<task, channel, answers, chrome>>

(* Events of every session are taken for one's own. *)
ReceiveFromAnyone(s) ==
    /\ task[s] = "receiving" /\ s \notin lagging /\ unread[s] # <<>>
    /\ unread' = [unread EXCEPT ![s] = Tail(@)]
    /\ IF Head(unread[s]).request # "none"
       THEN /\ task' = [task EXCEPT ![s] = "answering"]
            /\ answers' = [answers EXCEPT ![s] = @ \cup {Head(unread[s]).request}]
       ELSE UNCHANGED <<task, answers>>
    /\ UNCHANGED <<solver, lagging, chrome>>

(* The page is reloaded once it is there, to be sure of the widget. *)
NavigatedAndReloaded(s) ==
    /\ stage[s] = "navigating" /\ page[s] \in {"stub", "site"}
    /\ Ask(s, "navigate", "polling")
    /\ UNCHANGED <<task, channel, answers, chrome>>

(* The solve ends without telling the interceptor. *)
FinishWithoutAbort(s) ==
    /\ stage[s] \in {"navigating", "polling"}
    /\ Ask(s, "disable", "disabling")
    /\ UNCHANGED <<task, channel, answers, chrome>>

(* The solve ends with Fetch enabled. *)
FinishWithoutDisable(s) ==
    /\ stage[s] \in {"navigating", "polling"}
    /\ stage' = [stage EXCEPT ![s] = "done"]
    /\ task' = [task EXCEPT ![s] = IF s \in Subscribed THEN "aborted" ELSE @]
    /\ UNCHANGED <<commands, channel, answers, chrome>>

-----------------------------------------------------------------------------
(* An event reaches every subscriber.  One whose buffer is full loses its   *)
(* oldest event, and what else it has not read does not matter any more.    *)
Emit(e) ==
    LET full == {s \in Subscribed : Len(unread[s]) = Capacity \/ s \in lagging} IN
    /\ lagging' = lagging \cup full
    /\ unread' = [s \in Solves |->
                    IF s \in full THEN <<>>
                    ELSE IF s \in Subscribed THEN Append(unread[s], e)
                    ELSE unread[s]]

-----------------------------------------------------------------------------
(* The solver *)

(* Fetch is enabled: between its reply and the call of Page.navigate the    *)
(* solver subscribes and spawns the interceptor.                            *)
Enabled(s) ==
    /\ stage[s] = "enabling" /\ s \in fetch
    /\ Ask(s, "navigate", "navigating")
    /\ task' = [task EXCEPT ![s] = "receiving"]
    /\ UNCHANGED <<channel, answers, chrome>>

EnableFails(s) ==
    /\ stage[s] = "enabling"
    /\ stage' = [stage EXCEPT ![s] = "done"]
    /\ UNCHANGED <<task, commands, channel, answers, chrome>>

(* Page.navigate returns when the document is there. *)
Navigated(s) ==
    /\ stage[s] = "navigating" /\ page[s] \in {"stub", "site"}
    /\ stage' = [stage EXCEPT ![s] = "polling"]
    /\ UNCHANGED <<task, commands, channel, answers, chrome>>

(* A token, an error or a timeout, of the navigation or of a poll.          *)
Finish(s) ==
    /\ stage[s] \in {"navigating", "polling"}
    /\ Ask(s, "disable", "disabling")
    /\ task' = [task EXCEPT ![s] = IF s \in Subscribed THEN "aborted" ELSE @]
    /\ UNCHANGED <<channel, answers, chrome>>

(* Fetch.disable has returned, with whatever outcome. *)
DisableReturns(s) ==
    /\ stage[s] = "disabling"
    /\ stage' = [stage EXCEPT ![s] = "done"]
    /\ UNCHANGED <<task, commands, channel, answers, chrome>>

(* The handler is dropped: the JoinHandle goes, the interceptor stays.      *)
Drop(s) ==
    /\ s \in Disconnecting
    /\ stage[s] \in {"enabling", "navigating", "polling", "disabling"}
    /\ stage' = [stage EXCEPT ![s] = "dropped"]
    /\ UNCHANGED <<task, commands, channel, answers, chrome>>

-----------------------------------------------------------------------------
(* The interceptor *)

(* It reads the next event, and answers a request of its own session:       *)
(* Fetch.fulfillRequest with the stub for the document, and                 *)
(* Fetch.continueRequest for anything else.                                 *)
Receive(s) ==
    /\ task[s] = "receiving" /\ s \notin lagging /\ unread[s] # <<>>
    /\ unread' = [unread EXCEPT ![s] = Tail(@)]
    /\ LET e == Head(unread[s]) IN
       IF e.session = s /\ e.request # "none"
       THEN /\ task' = [task EXCEPT ![s] = "answering"]
            /\ answers' = [answers EXCEPT ![s] = @ \cup {e.request}]
       ELSE UNCHANGED <<task, answers>>
    /\ UNCHANGED <<solver, lagging, chrome>>

(* RecvError::Lagged ends its loop. *)
ReceiveFails(s) ==
    /\ task[s] = "receiving" /\ s \in lagging
    /\ task' = [task EXCEPT ![s] = "ended"]
    /\ UNCHANGED <<solver, channel, answers, chrome>>

(* Its call has returned; a failure is logged. *)
AnswerReturns(s) ==
    /\ task[s] = "answering"
    /\ task' = [task EXCEPT ![s] = "receiving"]
    /\ UNCHANGED <<solver, channel, answers, chrome>>

-----------------------------------------------------------------------------
(* Chrome, as the solver and the interceptor use it *)

Executes(s, k) ==
    /\ k \in commands[s]
    /\ commands' = [commands EXCEPT ![s] = @ \ {k}]
    /\ UNCHANGED <<stage, task, answers>>

RunEnable(s) ==
    /\ Executes(s, "enable")
    /\ fetch' = fetch \cup {s}
    /\ UNCHANGED <<page, resource, matched, channel>>

RunNavigate(s) ==
    /\ Executes(s, "navigate")
    /\ IF s \in fetch \cap matched
       THEN /\ page' = [page EXCEPT ![s] = "paused"]
            /\ Emit([session |-> s, request |-> "document"])
       ELSE page' = [page EXCEPT ![s] = "site"] /\ UNCHANGED channel
    /\ UNCHANGED <<fetch, resource, matched>>

(* What is paused goes on to the network. *)
RunDisable(s) ==
    /\ Executes(s, "disable")
    /\ fetch' = fetch \ {s}
    /\ page' = [page EXCEPT ![s] = IF @ = "paused" THEN "site" ELSE @]
    /\ resource' = [resource EXCEPT ![s] = IF @ = "paused" THEN "continued" ELSE @]
    /\ UNCHANGED <<matched, channel>>

RunAnswer(s, q) ==
    /\ q \in answers[s]
    /\ answers' = [answers EXCEPT ![s] = @ \ {q}]
    /\ page' = [page EXCEPT ![s] = IF q = "document" /\ @ = "paused" THEN "stub" ELSE @]
    /\ resource' = [resource EXCEPT ![s] = IF q = "resource" /\ @ = "paused"
                                           THEN "continued" ELSE @]
    /\ UNCHANGED <<solver, task, channel, fetch, matched>>

(* The stub asks for the target's URL as something other than a document.   *)
RequestResource(s) ==
    /\ page[s] = "stub" /\ resource[s] = "none" /\ s \in fetch
    /\ resource' = [resource EXCEPT ![s] = "paused"]
    /\ Emit([session |-> s, request |-> "resource"])
    /\ UNCHANGED <<solver, task, answers, fetch, page, matched>>

(* Any other event of a page: Network and Runtime are enabled too. *)
OtherEvent(s) ==
    /\ page[s] \in {"stub", "site"}
    /\ Emit([session |-> s, request |-> "none"])
    /\ UNCHANGED <<solver, task, answers, chrome>>

-----------------------------------------------------------------------------
Solver(s) ==
    \/ Enabled(s)
    \/ EnableFails(s)
    \/ Navigated(s)
    \/ Finish(s)
    \/ DisableReturns(s)

Interceptor(s) ==
    \/ Receive(s)
    \/ ReceiveFails(s)
    \/ AnswerReturns(s)

Chrome(s) ==
    \/ RunEnable(s)
    \/ RunNavigate(s)
    \/ RunDisable(s)
    \/ \E q \in {"document", "resource"} : RunAnswer(s, q)
    \/ RequestResource(s)
    \/ OtherEvent(s)

Finished ==
    /\ \A s \in Solves : stage[s] \in {"done", "dropped"}
    /\ UNCHANGED vars

Next ==
    \/ \E s \in Solves : Solver(s) \/ Drop(s) \/ Interceptor(s) \/ Chrome(s)
    \/ Finished

Spec == Init /\ [][Next]_vars

(* Every call of the solver has its timeout.  That Chrome executes a        *)
(* Fetch.disable it was sent is the environment's part.                     *)
Fairness == \A s \in Solves : WF_vars(Solver(s)) /\ WF_vars(RunDisable(s))

FairSpec == Spec /\ Fairness

-----------------------------------------------------------------------------
(* While a solve goes on, a request that Chrome holds back is known to the  *)
(* interceptor, or being answered: no event slips between Fetch.enable and  *)
(* the subscription (turnstile.rs:75-80).  The exception is an interceptor  *)
(* that was too slow for the channel (turnstile.rs:85, cdp.rs:40).          *)
PausedIsKnown ==
    \A s \in Solves :
        stage[s] \in {"navigating", "polling"} =>
            \A q \in Paused(s) :
                \/ \E i \in DOMAIN unread[s] : unread[s][i] = [session |-> s, request |-> q]
                \/ q \in answers[s]
                \/ s \in lagging

(* The target never sees the navigation of a solve that goes on, whatever   *)
(* the interceptor does: the widget is in the stub, or nowhere              *)
(* (turnstile.rs:66-68).  This is so if the URL of the solve, which is made *)
(* the pattern as it is (turnstile.rs:76), is written the way Chrome writes *)
(* it.  Chrome loads the target itself for one that it rewrites, and the    *)
(* solve looks for its token there.                                         *)
SiteNotVisited ==
    \A s \in matched : stage[s] \in {"navigating", "polling"} => page[s] # "site"

(* An interceptor answers requests of its own session only, though it reads *)
(* the events of all (turnstile.rs:90-94).                                  *)
OnlyOwnAnswered ==
    \A s \in Solves :
        /\ "document" \in answers[s] => page[s] # "blank"
        /\ "resource" \in answers[s] => resource[s] # "none"

(* A solve that has ended leaves no interceptor behind, which would keep    *)
(* the connection it listens to (turnstile.rs:60).  One that was dropped    *)
(* does (turnstile.rs:84).                                                  *)
InterceptorStopped == \A s \in Subscribed : stage[s] \in {"navigating", "polling", "dropped"}

(* A solve keeps the promise of StubVisit: what the page shows follows the  *)
(* solve, whatever arrives late or is lost, and the target is asked for at  *)
(* most once (turnstile.rs:57-63, 75-78, 121-133).                          *)
PhaseOf(s) ==
    IF stage[s] = "enabling" THEN "before"
    ELSE IF stage[s] \in {"navigating", "polling"} THEN "going"
    ELSE "over"

Promise == INSTANCE StubVisit WITH
    solve <- [s \in Solves |-> PhaseOf(s)],
    document <- page,
    request <- resource,
    fits <- matched

ImplementsStubVisit == Promise!Spec

(* Chrome does not hold a document back for good, not even if the           *)
(* interceptor has ended early (turnstile.rs:61).                           *)
DocumentReleased ==
    \A s \in Solves \ Disconnecting : page[s] = "paused" ~> page[s] # "paused"
=============================================================================
