--------------------------- MODULE PageLifecycle ---------------------------
(***************************************************************************)
(* BrowserPool::new_page and the reset of a slot in BrowserPool::release:   *)
(* the browser context, page and session that each solve asks Chrome for,   *)
(* one call after the other, and gives up again.  A call behaves as         *)
(* RemoteCall says: a result means that Chrome has executed it, a failure   *)
(* (error, timeout, lost connection, or an answer without an id) means      *)
(* nothing, and Chrome may execute it later.  A browser context, its page   *)
(* and the session on it are named by the solve that asked for them.        *)
(***************************************************************************)
CONSTANTS
    Solves,        \* the solves that have acquired a slot of the process
    Disconnecting  \* those whose client may go away

ASSUME PageAssumption == Disconnecting \subseteq Solves

VARIABLES
    pc,        \* where each solve is
    ctx,       \* the solves whose slot has a browser_context_id
    session,   \* the solves whose slot has a cdp_session
    stale,     \* the solves whose connection ended with an earlier Chrome
    sent,      \* the commands each solve has sent
    ran,       \* those that Chrome has executed
    lost,      \* those that no Chrome will execute any more
    contexts,  \* Chrome's browser contexts
    pages,     \* Chrome's pages
    attached   \* Chrome's sessions on pages

vars == <<pc, ctx, session, stale, sent, ran, lost, contexts, pages, attached>>

slot == <<ctx, session>>
chrome == <<ran, contexts, pages, attached>>

Commands == {"create", "target", "attach", "detach", "dispose"}

(* Each of Commands: awaiting that call;  "prepare": enabling the domains,  *)
(* the viewport, and the navigation;  "solving": the solver has the page.   *)
InNewPage == {"create", "target", "attach", "prepare"}
InRelease == {"detach", "dispose"}
Stages == {"acquired", "solving", "released", "dropped"} \cup InNewPage \cup InRelease

TypeOK ==
    /\ pc \in [Solves -> Stages]
    /\ ctx \subseteq Solves
    /\ session \subseteq Solves
    /\ stale \subseteq Solves
    /\ sent \in [Solves -> SUBSET Commands]
    /\ ran \in [Solves -> SUBSET Commands]
    /\ lost \in [Solves -> SUBSET Commands]
    /\ attached \subseteq pages
    /\ pages \subseteq contexts
    /\ contexts \subseteq Solves

Init ==
    /\ pc = [s \in Solves |-> "acquired"]
    /\ ctx = {}
    /\ session = {}
    /\ stale = {}
    /\ sent = [s \in Solves |-> {}]
    /\ ran = [s \in Solves |-> {}]
    /\ lost = [s \in Solves |-> {}]
    /\ contexts = {}
    /\ pages = {}
    /\ attached = {}

(* Solve s sends command k and awaits it.  On the connection of an earlier  *)
(* Chrome it goes nowhere.                                                  *)
Await(s, k, dead) ==
    /\ pc' = [pc EXCEPT ![s] = k]
    /\ sent' = [sent EXCEPT ![s] = @ \cup {k}]
    /\ lost' = IF dead THEN [lost EXCEPT ![s] = @ \cup {k}] ELSE lost

(* release, once the session is closed: the browser context, if there is    *)
(* one, is disposed of over the connection the process has by now.  That    *)
(* there is a connection holds until the pool shuts down, which this module *)
(* leaves to BrowserPool.                                                   *)
Dispose(s) ==
    /\ ctx' = ctx \ {s}
    /\ IF s \in ctx
       THEN Await(s, "dispose", FALSE)
       ELSE pc' = [pc EXCEPT ![s] = "released"] /\ UNCHANGED <<sent, lost>>

(* The pending call of s has been answered with its result. *)
Answered(s, k) == pc[s] = k /\ k \in ran[s]

-----------------------------------------------------------------------------
(* Forms of the actions below with a plausible bug; the specification uses  *)
(* none of them.  They show which property would notice the bug.            *)

(* The slot learns of its browser context only with the finished page. *)
CreatedUnnoted(s) ==
    /\ Answered(s, "create")
    /\ Await(s, "target", s \in stale)
    /\ UNCHANGED <<slot, stale, chrome>>

(* The outcome of attachToTarget is not looked at. *)
AttachedAnyhow(s) ==
    /\ pc[s] = "attach"
    /\ pc' = [pc EXCEPT ![s] = "prepare"]
    /\ UNCHANGED <<slot, stale, sent, lost, chrome>>

(* A failed call is waited for. *)
NeverFail(s) == FALSE /\ UNCHANGED <<vars, s>>

-----------------------------------------------------------------------------
(* new_page *)

Create(s) ==
    /\ pc[s] = "acquired"
    /\ Await(s, "create", FALSE)
    /\ UNCHANGED <<slot, stale, chrome>>

Created(s) ==
    /\ Answered(s, "create")
    /\ ctx' = ctx \cup {s}
    /\ Await(s, "target", s \in stale)
    /\ UNCHANGED <<session, stale, chrome>>

TargetMade(s) ==
    /\ Answered(s, "target")
    /\ Await(s, "attach", s \in stale)
    /\ UNCHANGED <<slot, stale, chrome>>

Attached(s) ==
    /\ Answered(s, "attach")
    /\ pc' = [pc EXCEPT ![s] = "prepare"]
    /\ UNCHANGED <<slot, stale, sent, lost, chrome>>

(* The domains are enabled and the page has loaded: only now does the slot  *)
(* get its session, and the solver starts.                                  *)
Prepared(s) ==
    /\ pc[s] = "prepare"
    /\ s \notin stale
    /\ session' = session \cup {s}
    /\ pc' = [pc EXCEPT ![s] = "solving"]
    /\ UNCHANGED <<ctx, stale, sent, lost, chrome>>

(* A call or the preparation fails, and the handler calls release.          *)
NewPageFails(s) ==
    /\ pc[s] \in InNewPage
    /\ Dispose(s)
    /\ UNCHANGED <<session, stale, chrome>>

-----------------------------------------------------------------------------
(* release *)

(* The solver is through, and the session is closed.                        *)
Detach(s) ==
    /\ pc[s] = "solving"
    /\ session' = session \ {s}
    /\ Await(s, "detach", s \in stale)
    /\ UNCHANGED <<ctx, stale, chrome>>

(* detachFromTarget has returned, with whatever outcome. *)
Detached(s) ==
    /\ pc[s] = "detach"
    /\ Dispose(s)
    /\ UNCHANGED <<session, stale, chrome>>

(* ... and disposeBrowserContext: the slot goes back to the pool. *)
Disposed(s) ==
    /\ pc[s] = "dispose"
    /\ pc' = [pc EXCEPT ![s] = "released"]
    /\ UNCHANGED <<slot, stale, sent, lost, chrome>>

(* The handler is dropped with the slot and all that it remembers. *)
Drop(s) ==
    /\ s \in Disconnecting
    /\ pc[s] \in {"acquired", "solving"} \cup InNewPage \cup InRelease
    /\ pc' = [pc EXCEPT ![s] = "dropped"]
    /\ ctx' = ctx \ {s}
    /\ session' = session \ {s}
    /\ UNCHANGED <<stale, sent, lost, chrome>>

-----------------------------------------------------------------------------
(* Chrome, as new_page and release meet it *)

(* Chrome executes command k of solve s, sooner or later. *)
Takes(s, k) ==
    /\ k \in sent[s] \ (ran[s] \cup lost[s])
    /\ ran' = [ran EXCEPT ![s] = @ \cup {k}]
    /\ UNCHANGED <<pc, slot, stale, sent, lost>>

RunCreate(s) ==
    /\ Takes(s, "create")
    /\ contexts' = contexts \cup {s}
    /\ UNCHANGED <<pages, attached>>

RunTarget(s) ==
    /\ Takes(s, "target")
    /\ s \in contexts
    /\ pages' = pages \cup {s}
    /\ UNCHANGED <<contexts, attached>>

RunAttach(s) ==
    /\ Takes(s, "attach")
    /\ s \in pages
    /\ attached' = attached \cup {s}
    /\ UNCHANGED <<contexts, pages>>

RunDetach(s) ==
    /\ Takes(s, "detach")
    /\ attached' = attached \ {s}
    /\ UNCHANGED <<contexts, pages>>

(* A browser context goes with its pages and the sessions on them. *)
RunDispose(s) ==
    /\ Takes(s, "dispose")
    /\ contexts' = contexts \ {s}
    /\ pages' = pages \ {s}
    /\ attached' = attached \ {s}

(* Chrome crashes and the health monitor puts another in its place: its     *)
(* contexts are gone, what was under way to it is lost, and whoever is in   *)
(* new_page or solving keeps the old connection.                            *)
Restart ==
    /\ contexts' = {}
    /\ pages' = {}
    /\ attached' = {}
    /\ lost' = [s \in Solves |-> lost[s] \cup (sent[s] \ ran[s])]
    /\ stale' = stale \cup {s \in Solves : pc[s] \in InNewPage \cup {"solving"}}
    /\ UNCHANGED <<pc, slot, sent, ran>>

-----------------------------------------------------------------------------
NewPage(s) ==
    \/ Create(s)
    \/ Created(s)
    \/ TargetMade(s)
    \/ Attached(s)
    \/ Prepared(s)
    \/ NewPageFails(s)

Release(s) == Detach(s) \/ Detached(s) \/ Disposed(s)

Chrome(s) ==
    \/ RunCreate(s)
    \/ RunTarget(s)
    \/ RunAttach(s)
    \/ RunDetach(s)
    \/ RunDispose(s)

Finished ==
    /\ \A s \in Solves : pc[s] \in {"released", "dropped"}
    /\ UNCHANGED vars

Next ==
    \/ \E s \in Solves : NewPage(s) \/ Release(s) \/ Drop(s) \/ Chrome(s)
    \/ Restart
    \/ Finished

Spec == Init /\ [][Next]_vars

(* Every call has a timeout, and the solver a deadline; Chrome owes nothing. *)
Fairness == \A s \in Solves : WF_vars(NewPage(s) \/ Release(s))

FairSpec == Spec /\ Fairness

-----------------------------------------------------------------------------
(* After release, Chrome keeps the browser context of a solve only if the   *)
(* call that made it was not answered, or Chrome has not carried out the    *)
(* order to dispose of it: at whichever call new_page fails, the slot       *)
(* remembers what release has to give up (pool.rs:369, pool.rs:297).        *)
ContextsAccounted ==
    \A s \in contexts :
        pc[s] = "released" =>
            \/ "target" \notin sent[s]
            \/ "dispose" \in sent[s] \ ran[s]

(* A solver works on a page of its own with a session on it, and nothing    *)
(* takes them away while it does, as long as this Chrome lives.             *)
SolverHasPage ==
    \A s \in Solves : pc[s] = "solving" => s \in attached \cup stale

(* Whatever fails in new_page, in the solver or in release, the slot comes  *)
(* back: what BrowserPool assumes of a request that holds one.              *)
SlotsComeBack ==
    \A s \in Solves \ Disconnecting : <>(pc[s] = "released")
=============================================================================
