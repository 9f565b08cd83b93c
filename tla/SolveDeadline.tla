--------------------------- MODULE SolveDeadline ---------------------------
(***************************************************************************)
(* The time a request holds its slot: acquire, new_page, the solver and     *)
(* release as the legs they consist of, each a CDP call with its timeout, a *)
(* wait that polls the page by such calls until a deadline of its own, or a *)
(* lookup in the list of processes.  The health monitor holds that list for *)
(* writing while it kills a dead Chrome, and a lookup waits for it.  The    *)
(* lock is fair and the monitor is its only writer, so the lookup is next.  *)
(*                                                                          *)
(* Time is counted from acquire, in ticks.  Timers and replies are handled  *)
(* in the tick they fall due: what the scheduler adds is left out.          *)
(***************************************************************************)
EXTENDS Integers

CONSTANTS
    CdpTimeout,      \* cdp_timeout_ms
    KillTime,        \* how long the monitor is in slot.kill() at most
    LoadTimeout,     \* load_timeout_ms
    SolveTimeout,    \* solve_timeout_ms
    NavigationPoll,  \* the pause of wait_for_navigation between two polls
    PollInterval,    \* that of wait_for_token and wait_for_cf_clearance
    Never            \* when a page not yet ready became so

ASSUME TimeAssumption ==
    /\ {CdpTimeout, KillTime, LoadTimeout, SolveTimeout} \subseteq Nat
    /\ {NavigationPoll, PollInterval} \subseteq Nat \ {0}
    /\ Never \notin Nat

VARIABLES
    kind,      \* which endpoint the request is for
    leg,       \* the leg it is in
    polling,   \* whether a wait is in a call, or pauses
    now,       \* the time
    due,       \* when the pending call or lookup ends at the latest, or the pause
    deadline,  \* the deadline of the wait
    shown,     \* since when the page shows what the wait is for
    began,     \* when the solver began
    got,       \* what it has got of what it is to return
    outcome    \* what the request comes to

vars == <<kind, leg, polling, now, due, deadline, shown, began, got, outcome>>

(* The end of acquire, and new_page; the two solvers, of which Turnstile    *)
(* intercepts first and last, and IUAM asks for the user agent and the      *)
(* address at the end; release.                                             *)
PageLegs == {"port", "find", "create", "target", "attach", "page", "runtime", "network",
             "viewport", "blank", "load"}
SolverLegs == {"intercept", "navigate", "ready", "proof", "agent", "address", "disable"}
ReleaseLegs == {"detach", "refind", "dispose"}
Legs == PageLegs \cup SolverLegs \cup ReleaseLegs

Waits == {"load", "ready", "proof"}
Lookups == {"port", "find", "refind"}

(* Those that the request survives: acquire leaves the port as it was, and  *)
(* the others are made with "let _ =", or have "unknown" for an answer.     *)
Tolerated == {"port", "address", "disable"} \cup ReleaseLegs

FirstOf(k) == IF k = "turnstile" THEN "intercept" ELSE "navigate"

(* Where a leg leads that succeeds, and where one that fails.               *)
After(k) ==
    [port |-> "find", find |-> "create", create |-> "target", target |-> "attach", attach |-> "page", page |-> "runtime",
     runtime |-> "network", network |-> "viewport", viewport |-> "blank", blank |-> "load",
     load |-> FirstOf(k), intercept |-> "navigate", navigate |-> "ready", ready |-> "proof",
     proof |-> IF k = "turnstile" THEN "disable" ELSE "agent",
     agent |-> "address", address |-> "detach", disable |-> "detach",
     detach |-> "refind", refind |-> "dispose", dispose |-> "done"]

OnFailure(k, l) ==
    IF l \in {"find", "create", "refind"} THEN "done"
    ELSE IF l \in PageLegs \ {"port"} THEN "refind"
    ELSE IF l \in {"navigate", "ready", "proof"} /\ k = "turnstile" THEN "disable"
    ELSE IF l \in {"intercept", "navigate", "ready", "proof", "agent"} THEN "detach"
    ELSE After(k)[l]

(* How long a call or a lookup takes at most.                               *)
CallTime(l) == IF l \in Lookups THEN KillTime ELSE CdpTimeout

(* How long a wait goes on, and how long it pauses.                         *)
Patience(l) == IF l = "load" THEN LoadTimeout ELSE SolveTimeout
Pause(l) == IF l = "proof" THEN PollInterval ELSE NavigationPoll

TypeOK ==
    /\ kind \in {"turnstile", "iuam"}
    /\ leg \in Legs \cup {"done"}
    /\ polling \in BOOLEAN
    /\ {now, due, deadline, began} \subseteq Nat
    /\ shown \in Nat \cup {Never}
    /\ got \subseteq {"proof", "agent"}
    /\ outcome \in {"pending", "ok", "failed", "timeout"}

Enter(l) ==
    /\ leg' = l
    /\ polling' = TRUE
    /\ due' = now + CallTime(l)
    /\ deadline' = IF l \in Waits THEN now + Patience(l) ELSE now
    /\ shown' = Never
    /\ began' = IF l \in SolverLegs /\ leg \notin SolverLegs THEN now ELSE began
    /\ UNCHANGED <<kind, now>>

Init ==
    /\ kind \in {"turnstile", "iuam"}
    /\ leg = "port"
    /\ polling = TRUE
    /\ now = 0
    /\ due = KillTime
    /\ deadline = 0
    /\ shown = Never
    /\ began = 0
    /\ got = {}
    /\ outcome = "pending"

(* The last leg a solver needs before it returns what it has got.           *)
Last(k) == IF k = "turnstile" THEN "proof" ELSE "address"

Returned == IF leg = Last(kind) THEN "ok" ELSE outcome

(* The leg has done what it was there for.                                  *)
Succeed ==
    /\ Enter(After(kind)[leg])
    /\ got' = got \cup ({leg} \cap {"proof", "agent"})
    /\ outcome' = Returned

(* It has not, which the request survives, or does not.                     *)
Forgo ==
    /\ Enter(OnFailure(kind, leg))
    /\ outcome' = Returned
    /\ UNCHANGED got

Fail(reason) ==
    /\ Enter(OnFailure(kind, leg))
    /\ outcome' = reason
    /\ UNCHANGED got

-----------------------------------------------------------------------------
(* Forms of the actions below with a plausible bug; the specification uses  *)
(* none of them.  They show which property would notice the bug.            *)

(* The wait gives up at its deadline without a last look at the page. *)
WakeUnlessLate ==
    /\ leg \in Waits /\ ~polling /\ now = due
    /\ IF now >= deadline
       THEN Fail("timeout")
       ELSE /\ polling' = TRUE
            /\ due' = now + CdpTimeout
            /\ UNCHANGED <<kind, leg, now, deadline, shown, began, got, outcome>>

(* Every poll has the whole timeout before it. *)
PollMissesAfresh ==
    /\ leg \in Waits /\ polling
    /\ polling' = FALSE
    /\ due' = now + Pause(leg)
    /\ deadline' = now + Patience(leg)
    /\ UNCHANGED <<kind, leg, now, shown, began, got, outcome>>

(* get_ip_address hands its error on with "?". *)
CallFailsAddress ==
    /\ leg \in Legs \ Waits
    /\ IF leg \in Tolerated \ {"address"} THEN Forgo ELSE Fail("failed")

-----------------------------------------------------------------------------
(* Time passes until the next timer, and meanwhile the page gets ready.     *)
Tick ==
    /\ leg # "done"
    /\ now < due
    /\ now' = now + 1
    /\ UNCHANGED <<kind, leg, polling, due, deadline, shown, began, got, outcome>>

Show ==
    /\ leg \in Waits
    /\ shown = Never
    /\ shown' = now
    /\ UNCHANGED <<kind, leg, polling, now, due, deadline, began, got, outcome>>

(* A call returns its result. *)
CallSucceeds ==
    /\ leg \in Legs \ Waits
    /\ Succeed

(* It returns an error, or times out; there is no such process, or it has   *)
(* lost its connection.                                                     *)
CallFails ==
    /\ leg \in Legs \ Waits
    /\ IF leg \in Tolerated THEN Forgo ELSE Fail("failed")

(* The script of a poll runs once between the call and its return, so it    *)
(* sees what was there before.                                              *)
PollFinds ==
    /\ leg \in Waits /\ polling
    /\ shown # Never
    /\ Succeed

(* A failed poll of the navigation counts as one that found nothing.        *)
PollMisses ==
    /\ leg \in Waits /\ polling
    /\ leg = "proof" /\ shown # Never => shown + CdpTimeout >= due
    /\ IF now >= deadline
       THEN Fail(IF leg = "proof" THEN "timeout" ELSE "failed")
       ELSE /\ polling' = FALSE
            /\ due' = now + Pause(leg)
            /\ UNCHANGED <<kind, leg, now, deadline, shown, began, got, outcome>>

(* A failed poll of the token or the cookies, or a challenge that failed,   *)
(* ends the solve.                                                          *)
PollFails ==
    /\ leg = "proof" /\ polling
    /\ Fail("failed")

Wake ==
    /\ leg \in Waits /\ ~polling /\ now = due
    /\ polling' = TRUE
    /\ due' = now + CdpTimeout
    /\ UNCHANGED <<kind, leg, now, deadline, shown, began, got, outcome>>

(* The solver refuses its input, the page being open already. *)
Refuse ==
    /\ leg = FirstOf(kind) /\ now = began
    /\ Enter("detach")
    /\ outcome' = "failed"
    /\ UNCHANGED got

Done == leg = "done" /\ UNCHANGED vars

Next ==
    \/ Tick
    \/ Show
    \/ CallSucceeds
    \/ CallFails
    \/ PollFinds
    \/ PollMisses
    \/ PollFails
    \/ Wake
    \/ Refuse
    \/ Done

Spec == Init /\ [][Next]_vars

-----------------------------------------------------------------------------
(* A slot is back at most this long after it was taken: sixteen calls, the  *)
(* three waits, in each of which one pause and one poll come beyond its     *)
(* deadline, and three lookups, each behind a Chrome that is being killed   *)
(* (pool.rs:275, 290-307, 335-415, 464-466, turnstile.rs:57-61,             *)
(* iuam.rs:56-118).                                                         *)
HoldBound ==
    16 * CdpTimeout + LoadTimeout + 2 * SolveTimeout + 2 * NavigationPoll + PollInterval
        + 3 * KillTime

HeldWithinBound == now <= HoldBound

(* The solver's share of it, for either endpoint.                           *)
SolveBound == 5 * CdpTimeout + 2 * SolveTimeout + NavigationPoll + PollInterval

SolvedWithinBound == leg \in SolverLegs => now - began <= SolveBound

(* A solve reports a timeout only if what it waited for was not there yet   *)
(* one call before its deadline: the deadline is looked at after a poll,    *)
(* never instead of one (turnstile.rs:138-169, iuam.rs:87-127).             *)
NoEarlyTimeout ==
    [][outcome = "pending" /\ outcome' = "timeout" /\ shown # Never =>
        shown + CdpTimeout >= deadline]_vars

(* What each endpoint is there to return. *)
Deliverables(k) == IF k = "turnstile" THEN {"proof"} ELSE {"proof", "agent"}

(* By the time its slot is released the solve has come to something: to a   *)
(* success if it has got all it is to return, and only then.  A clearance   *)
(* and its user agent are not lost on the address behind them               *)
(* (iuam.rs:129-158), nor a token on a Fetch.disable that fails             *)
(* (turnstile.rs:61), nor either on a release that does (pool.rs:290-307).  *)
(* A clearance is lost on a user agent that cannot be had: its error is     *)
(* handed on (iuam.rs:113-116), though the "clearance cookie is the actual  *)
(* deliverable" (iuam.rs:131).                                              *)
OutcomeFits ==
    leg \in ReleaseLegs \cup {"done"} =>
        /\ outcome # "pending"
        /\ outcome = "ok" <=> Deliverables(kind) \subseteq got

(* SOLVE_TIMEOUT is documented as the "Total operation timeout"             *)
(* (USAGE.md:283).  The solver gets the pause, the poll and the call that   *)
(* may be under way at the deadline on top of it.                           *)
SolvedWithinTimeout ==
    leg \in SolverLegs => now - began <= SolveTimeout + PollInterval + 2 * CdpTimeout
=============================================================================
