--------------------------- MODULE SolverService ---------------------------
(***************************************************************************)
(* The service as its clients and its operator see it: the two endpoints,   *)
(* each taking a slot of the pool, opening a page on it, solving, giving    *)
(* the slot back and answering with the status of what happened; and main,  *)
(* which serves until it is told to stop, lets the requests in flight end,  *)
(* and only then tears the pool down.                                       *)
(*                                                                          *)
(* The pool is what SlotPool promises of it; what the solvers do inside is  *)
(* in TurnstileSolve, SolveDeadline and PageLifecycle.                      *)
(***************************************************************************)
EXTENDS RequestInputs

CONSTANTS
    Requests, Slots, Disconnecting, NoSlot,  \* as in SlotPool
    Asks                                     \* what each client may ask for

ASSUME ServiceAssumption ==
    /\ Disconnecting \subseteq Requests
    /\ NoSlot \notin Slots

(* Every request names a URL, and one for a Turnstile also a sitekey. *)
ASSUME AskAssumption ==
    \A r \in Requests : \A i \in Asks[r] :
        /\ i.url \in Seq(Symbols)
        /\ i.kind = "turnstile" => i.sitekey \in Seq(Symbols) \ {None}

VARIABLES
    server,     \* whether main serves, drains, shuts the pool down, or has returned
    phase,      \* where the handler of each request is
    input,      \* what each request asks for
    status,     \* the status code it will be answered with
    navigated,  \* the requests whose page was sent to the URL they name
    free, holder, stage  \* the pool

pool == <<free, holder, stage>>
vars == <<server, phase, input, status, navigated, pool>>

Pool == INSTANCE SlotPool

InFlight == {"acquiring", "opening", "solving", "waiting", "releasing"}
Phases == {"absent", "answered", "gone"} \cup InFlight
Inputs == UNION {Asks[r] : r \in Requests}

TypeOK ==
    /\ server \in {"serving", "draining", "stopping", "stopped"}
    /\ phase \in [Requests -> Phases]
    /\ input \in [Requests -> Inputs \cup {None}]
    /\ status \in [Requests -> {"none", "200", "400", "503"}]
    /\ navigated \subseteq Requests
    /\ free \subseteq Slots
    /\ holder \in [Requests -> Slots \cup {NoSlot}]
    /\ stage \in [Requests -> {"new", "holding", "served", "gone"}]

Init ==
    /\ server = "serving"
    /\ phase = [r \in Requests |-> "absent"]
    /\ input = [r \in Requests |-> None]
    /\ status = [r \in Requests |-> "none"]
    /\ navigated = {}
    /\ Pool!Init

(* The handler of r moves from one phase to the next, knowing its status if *)
(* it is over.                                                              *)
Move(r, from, to, code) ==
    /\ phase[r] = from
    /\ phase' = [phase EXCEPT ![r] = to]
    /\ status' = [status EXCEPT ![r] = code]

(* What a solver insists on before it navigates. *)
Accepted(i) ==
    /\ ValidUrl(i.url)
    /\ i.kind = "turnstile" => ValidSitekey(i.sitekey)

-----------------------------------------------------------------------------
(* Forms of the actions below with a plausible bug; the specification uses  *)
(* none of them.  They show which property would notice the bug.            *)

(* The early return forgets the slot. *)
PageFailsKeepingSlot(r) ==
    /\ Move(r, "opening", "answered", "503")
    /\ UNCHANGED <<server, input, navigated, pool>>

(* The page opens on the URL right away. *)
PageOpensOnUrl(r) ==
    /\ Move(r, "opening", "solving", "none")
    /\ navigated' = navigated \cup {r}
    /\ UNCHANGED <<server, input, pool>>

(* The handler answers, and releases the slot in a task of its own. *)
ReleasedLater(r) ==
    /\ Move(r, "releasing", "answered", status[r])
    /\ UNCHANGED <<server, input, navigated, pool>>

(* The signal ends serve at once, as a select! in main would. *)
DrainedAtOnce ==
    /\ server = "draining"
    /\ server' = "stopping"
    /\ UNCHANGED <<phase, input, status, navigated, pool>>

-----------------------------------------------------------------------------
(* The handlers *)

Arrive(r, i) ==
    /\ server = "serving"
    /\ Move(r, "absent", "acquiring", "none")
    /\ input' = [input EXCEPT ![r] = i]
    /\ UNCHANGED <<server, navigated, pool>>

Acquired(r) ==
    /\ Move(r, "acquiring", "opening", "none")
    /\ \E s \in Slots : Pool!Take(r, s)
    /\ UNCHANGED <<server, input, navigated>>

PageOpens(r) ==
    /\ Move(r, "opening", "solving", "none")
    /\ UNCHANGED <<server, input, navigated, pool>>

PageFails(r) ==
    /\ Move(r, "opening", "releasing", "503")
    /\ UNCHANGED <<server, input, navigated, pool>>

(* The solver refuses its input, or a call fails before it navigates.       *)
Refuse(r) ==
    /\ Move(r, "solving", "releasing", "400")
    /\ UNCHANGED <<server, input, navigated, pool>>

Navigate(r) ==
    /\ Move(r, "solving", "waiting", "none")
    /\ Accepted(input[r])
    /\ navigated' = navigated \cup {r}
    /\ UNCHANGED <<server, input, pool>>

(* A token, or the clearance cookie of an origin.                           *)
Solved(r) ==
    /\ Move(r, "waiting", "releasing", "200")
    /\ input[r].kind = "iuam" => OriginOf(input[r].url) # None
    /\ UNCHANGED <<server, input, navigated, pool>>

SolveFails(r) ==
    /\ Move(r, "waiting", "releasing", "400")
    /\ UNCHANGED <<server, input, navigated, pool>>

Released(r) ==
    /\ Move(r, "releasing", "answered", status[r])
    /\ Pool!Return(r)
    /\ UNCHANGED <<server, input, navigated>>

(* The client disconnects and the handler is dropped. *)
Leave(r) ==
    /\ phase[r] \in InFlight
    /\ Move(r, phase[r], "gone", "none")
    /\ Pool!Leave(r)
    /\ UNCHANGED <<server, input, navigated>>

-----------------------------------------------------------------------------
(* main *)

Signal ==
    /\ server = "serving"
    /\ server' = "draining"
    /\ UNCHANGED <<phase, input, status, navigated, pool>>

(* serve returns once no connection has a request any more.                 *)
Drained ==
    /\ server = "draining"
    /\ \A r \in Requests : phase[r] \notin InFlight
    /\ server' = "stopping"
    /\ UNCHANGED <<phase, input, status, navigated, pool>>

PoolDown ==
    /\ server = "stopping"
    /\ server' = "stopped"
    /\ UNCHANGED <<phase, input, status, navigated, pool>>

Stopped == server = "stopped" /\ UNCHANGED vars

-----------------------------------------------------------------------------
Handler(r) ==
    \/ PageOpens(r)
    \/ PageFails(r)
    \/ Refuse(r)
    \/ Navigate(r)
    \/ Solved(r)
    \/ SolveFails(r)
    \/ Released(r)

Next ==
    \/ \E r \in Requests :
        \/ \E i \in Asks[r] : Arrive(r, i)
        \/ Acquired(r)
        \/ Handler(r)
        \/ Leave(r)
    \/ Signal
    \/ Drained
    \/ PoolDown
    \/ Stopped

Spec == Init /\ [][Next]_vars

(* The pool keeps SlotPool's promise, a page and a solver come to an end    *)
(* (SolveDeadline), and so does the shutdown of the pool (ShutdownEnds of   *)
(* ProcessSupervisor).  Nobody has to send a signal or to disconnect.       *)
Fairness ==
    /\ \A r \in Requests : SF_vars(Acquired(r)) /\ WF_vars(Handler(r))
    /\ WF_vars(Drained)
    /\ WF_vars(PoolDown)

FairSpec == Spec /\ Fairness

-----------------------------------------------------------------------------
(* While the pool is being torn down nobody works with it: the signal lets  *)
(* every request in flight have its answer, and its slot is back by then    *)
(* (main.rs:36-43).                                                         *)
PoolOutlivesRequests ==
    server \in {"stopping", "stopped"} =>
        \A r \in Requests : phase[r] \notin InFlight /\ holder[r] = NoSlot

(* A client has its answer only after its slot is back, whatever the status *)
(* is, so whoever asks again finds it; and as long as no client went away   *)
(* the slots are all there (handlers.rs:136,149,198,204).                   *)
AnsweredGaveBack ==
    /\ \A r \in Requests : holder[r] = NoSlot <=> phase[r] \notin InFlight \ {"acquiring"}
    /\ (\A r \in Requests : phase[r] # "gone") =>
            Slots \subseteq free \cup {holder[r] : r \in Requests}

(* The status says what was done for it: 503 only if the page was never     *)
(* sent anywhere, so that asking again is harmless; 200 only if it was, and *)
(* to a URL that passed the checks (handlers.rs:135-137,151-162,            *)
(* turnstile.rs:40-41, iuam.rs:48,84).                                      *)
StatusFits ==
    \A r \in Requests :
        /\ status[r] = "503" => r \notin navigated
        /\ status[r] = "200" => r \in navigated
        /\ r \in navigated => Accepted(input[r])

(* A request that is let through stands for all those that carry any cdata  *)
(* and action, and whose URL goes on in any way.                            *)
LetThrough(kind) == {i \in Inputs : i.kind = kind /\ Accepted(i)}
KeepsTexts == [sitekey \in {i.sitekey : i \in LetThrough("turnstile")} |->
    \A cdata \in Texts \cup {None}, action \in Texts \cup {None} :
        WidgetKeeps(sitekey, cdata, action)]
FindsOrigin == [url \in {i.url : i \in LetThrough("iuam")} |->
    \A tail \in Tails : OriginFits(url \o tail)]

(* Whatever a client has sent as cdata and action, a browser reads it off   *)
(* the stub page its request is waiting on (utils.rs:28-43, 88-95).         *)
StubKeepsInputs ==
    \A r \in navigated : input[r].kind = "turnstile" => KeepsTexts[input[r].sitekey]

(* The clearance cookie is looked up for the origin of the URL asked for,   *)
(* wherever its host ends (utils.rs:135-150, iuam.rs:84).                   *)
OriginCoversHost ==
    \A r \in navigated : input[r].kind = "iuam" => FindsOrigin[input[r].url]

(* Whoever stays gets an answer, also when the service is told to stop, as  *)
(* long as fewer clients leave than there are slots (handlers.rs:124-162).  *)
StayersGetAnswers ==
    \A r \in Requests \ Disconnecting : phase[r] = "acquiring" ~> phase[r] = "answered"

(* Once told to stop the service stops, as long as fewer clients leave than *)
(* there are slots: the requests parked in acquire are served first, which  *)
(* they never would be with every slot lost (main.rs:38-43, pool.rs:257).   *)
ShutdownCompletes == server = "draining" ~> server = "stopped"
=============================================================================
