------------------------ MODULE SolveDeadlineProofs ------------------------
(***************************************************************************)
(* What SolveDeadline promises holds for every value of the timeouts.       *)
(*                                                                          *)
(* The bounds are not inductive: how much time is left depends on the leg.  *)
(* StartBy says when a leg begins at the latest, EndBy when it is over, and *)
(* LegTimes that a leg leads nowhere that may have begun already.  A wait   *)
(* looks at its deadline after each poll, so it pauses only before it, and  *)
(* the pause and one poll are all that comes behind it (Timely).            *)
(***************************************************************************)
EXTENDS SolveDeadline, TLAPS

Kinds == {"turnstile", "iuam"}

(* The legs of either endpoint. *)
LegsOf(k) ==
    Legs \ IF k = "turnstile" THEN {"agent", "address"} ELSE {"intercept", "disable"}

(* The first of these calls is the interception, which IUAM has not.        *)
Extra(k) == IF k = "turnstile" THEN CdpTimeout ELSE 0

(* The time the lookups of acquire and new_page and the wait for the load   *)
(* may take, then what the solver's waits add.                              *)
LoadTime == 2 * KillTime + LoadTimeout + NavigationPoll
ReadyTime == LoadTime + SolveTimeout + NavigationPoll
ProofTime == ReadyTime + SolveTimeout + PollInterval

StartBy(k) ==
    [port |-> 0, find |-> KillTime, create |-> 2 * KillTime,
     target |-> CdpTimeout + 2 * KillTime, attach |-> 2 * CdpTimeout + 2 * KillTime,
     page |-> 3 * CdpTimeout + 2 * KillTime, runtime |-> 4 * CdpTimeout + 2 * KillTime,
     network |-> 5 * CdpTimeout + 2 * KillTime, viewport |-> 6 * CdpTimeout + 2 * KillTime,
     blank |-> 7 * CdpTimeout + 2 * KillTime, load |-> 8 * CdpTimeout + 2 * KillTime,
     intercept |-> 9 * CdpTimeout + LoadTime,
     navigate |-> 9 * CdpTimeout + Extra(k) + LoadTime,
     ready |-> 10 * CdpTimeout + Extra(k) + LoadTime,
     proof |-> 11 * CdpTimeout + Extra(k) + ReadyTime,
     agent |-> 12 * CdpTimeout + ProofTime, address |-> 13 * CdpTimeout + ProofTime,
     disable |-> 13 * CdpTimeout + ProofTime,
     detach |-> 14 * CdpTimeout + ProofTime, refind |-> 15 * CdpTimeout + ProofTime,
     dispose |-> 15 * CdpTimeout + KillTime + ProofTime,
     done |-> 16 * CdpTimeout + KillTime + ProofTime]

EndBy(k, l) ==
    StartBy(k)[l] + CallTime(l) + IF l \in Waits THEN Patience(l) + Pause(l) ELSE 0

(* The solver's legs, counted from when it began. *)
Share(k, l) == EndBy(k, l) - StartBy(k)[FirstOf(k)]

(* A pending call or pause ends in the time of its leg, and a pause leaves  *)
(* time for one more call.                                                  *)
Timely ==
    leg # "done" =>
        /\ leg \in LegsOf(kind)
        /\ now <= due
        /\ due + (IF polling THEN 0 ELSE CdpTimeout) <= EndBy(kind, leg)
        /\ leg \in SolverLegs =>
            due + (IF polling THEN 0 ELSE CdpTimeout) <= began + Share(kind, leg)

(* The same of the deadline of a wait, which is behind its begin.           *)
DeadlineTimely ==
    leg \in Waits =>
        /\ deadline + Pause(leg) + CdpTimeout <= EndBy(kind, leg)
        /\ leg \in SolverLegs => deadline + Pause(leg) + CdpTimeout <= began + Share(kind, leg)

DoneTimely == leg = "done" => now <= HoldBound

(* What has been got tells how far the solver is, and the outcome follows   *)
(* from it once the solver has returned.                                    *)
Settled ==
    /\ leg \in PageLegs \cup {"intercept", "navigate", "ready", "proof"} =>
          outcome = "pending" /\ got = {}
    /\ leg = "agent" => outcome = "pending" /\ got = {"proof"}
    /\ leg = "address" => outcome = "pending" /\ got = {"proof", "agent"}
    /\ leg \in {"disable", "done"} \cup ReleaseLegs =>
          /\ outcome # "pending"
          /\ outcome = "ok" <=> Deliverables(kind) \subseteq got

IInv ==
    /\ TypeOK
    /\ Timely
    /\ DeadlineTimely
    /\ DoneTimely
    /\ Settled
    /\ ~polling => leg \in Waits

-----------------------------------------------------------------------------
(* Where a leg leads, time enough is left; and the solver's legs lead from  *)
(* one to the next, or out of the solver.                                   *)
LEMMA LegTimes ==
  ASSUME NEW k \in Kinds, NEW l \in LegsOf(k), NEW m,
         m \in {After(k)[l], OnFailure(k, l)} \/ (l = FirstOf(k) /\ m = "detach")
  PROVE  /\ m \in LegsOf(k) \cup {"done"}
         /\ EndBy(k, l) <= StartBy(k)[m]
         /\ m \in SolverLegs => l \in SolverLegs \/ m = FirstOf(k)
<1> USE TimeAssumption
    DEF LegsOf, Legs, SolverLegs, Waits, After, OnFailure, FirstOf, PageLegs, ReleaseLegs,
        EndBy, StartBy, CallTime, Lookups, Extra, Patience, Pause, LoadTime, ReadyTime, ProofTime, Kinds
<1>1. CASE l \in PageLegs
  BY <1>1
<1>2. CASE l \in SolverLegs
  BY <1>2
<1>3. CASE l \in ReleaseLegs
  BY <1>3
<1> QED  BY <1>1, <1>2, <1>3

LEMMA LegTypes ==
  ASSUME NEW k \in Kinds, NEW l \in LegsOf(k) \cup {"done"}
  PROVE  /\ StartBy(k)[l] \in Nat
         /\ Patience(l) \in Nat /\ Pause(l) \in Nat
         /\ CallTime(l) \in Nat /\ (l \in Waits => CallTime(l) = CdpTimeout)
         /\ StartBy(k)["done"] = HoldBound
         /\ StartBy(k)[FirstOf(k)] \in Nat
         /\ FirstOf(k) \notin Waits
BY TimeAssumption
DEF LegsOf, Legs, SolverLegs, Waits, FirstOf, PageLegs, ReleaseLegs, HoldBound,
    StartBy, CallTime, Lookups, Extra, Patience, Pause, LoadTime, ReadyTime, ProofTime, Kinds

(* Entering a leg in the time of the one before keeps to the time of both.  *)
LEMMA EnterTimely ==
  ASSUME TypeOK, Timely, leg # "done", NEW m, Enter(m),
         m \in LegsOf(kind) \cup {"done"},
         EndBy(kind, leg) <= StartBy(kind)[m],
         m \in SolverLegs => leg \in SolverLegs \/ m = FirstOf(kind)
  PROVE  /\ Timely' /\ DeadlineTimely' /\ DoneTimely'
         /\ polling' /\ leg' = m /\ kind' = kind
         /\ {now', due', deadline', began'} \subseteq Nat /\ shown' = Never
<1>1. kind \in Kinds /\ leg \in LegsOf(kind) /\ CdpTimeout \in Nat
  BY TimeAssumption DEF TypeOK, Kinds, Timely
<1>2. /\ StartBy(kind)[m] \in Nat
      /\ Patience(m) \in Nat /\ Pause(m) \in Nat
      /\ CallTime(m) \in Nat /\ (m \in Waits => CallTime(m) = CdpTimeout)
      /\ StartBy(kind)["done"] = HoldBound
      /\ StartBy(kind)[FirstOf(kind)] \in Nat /\ FirstOf(kind) \notin Waits
  BY <1>1, LegTypes
<1>3. /\ StartBy(kind)[leg] \in Nat /\ Patience(leg) \in Nat /\ Pause(leg) \in Nat
      /\ CallTime(leg) \in Nat
  BY <1>1, LegTypes
<1>4. {now, due, deadline, began} \subseteq Nat
  BY DEF TypeOK
<1>5. now <= EndBy(kind, leg) /\ (leg \in SolverLegs => now <= began + Share(kind, leg))
  BY <1>1, <1>3, <1>4, <1>2 DEF Timely, EndBy, Share
<1>6. /\ leg' = m /\ polling' /\ kind' = kind /\ now' = now
      /\ due' = now + CallTime(m) /\ shown' = Never
      /\ deadline' = IF m \in Waits THEN now + Patience(m) ELSE now
      /\ began' = IF m \in SolverLegs /\ leg \notin SolverLegs THEN now ELSE began
  BY DEF Enter
<1>7. DoneTimely'
  BY <1>1, <1>2, <1>3, <1>4, <1>5, <1>6 DEF DoneTimely, EndBy
<1>8. now <= StartBy(kind)[m]
  BY <1>1, <1>2, <1>3, <1>4, <1>5 DEF EndBy
<1>9. m \in SolverLegs =>
        now <= began' + StartBy(kind)[m] - StartBy(kind)[FirstOf(kind)]
  <2>1. CASE leg \in SolverLegs
    BY <2>1, <1>1, <1>2, <1>3, <1>4, <1>5, <1>6 DEF EndBy, Share
  <2>2. CASE leg \notin SolverLegs
    BY <2>2, <1>2, <1>4, <1>6
  <2> QED  BY <2>1, <2>2
<1>10. Timely'
  BY <1>1, <1>2, <1>4, <1>6, <1>8, <1>9 DEF Timely, EndBy, Share
<1>11. DeadlineTimely'
  BY <1>1, <1>2, <1>4, <1>6, <1>8, <1>9 DEF DeadlineTimely, EndBy, Share
<1> QED  BY <1>1, <1>2, <1>4, <1>6, <1>7, <1>10, <1>11

(* A leg that ends the solve in vain ends it before all has been got.       *)
LEMMA FailSettles ==
  ASSUME kind \in Kinds, leg \in LegsOf(kind), Settled, leg \notin Tolerated,
         NEW reason \in {"failed", "timeout"},
         leg' = OnFailure(kind, leg), kind' = kind, outcome' = reason, got' = got
  PROVE  Settled'
<1> USE DEF Settled, Deliverables, Tolerated, OnFailure, After, FirstOf, LegsOf, Legs, PageLegs,
            SolverLegs, ReleaseLegs, Kinds
<1>1. CASE leg \in PageLegs
  BY <1>1
<1>2. CASE leg \in SolverLegs
  BY <1>2
<1>3. CASE leg \in ReleaseLegs
  BY <1>3
<1> QED  BY <1>1, <1>2, <1>3

(* A leg that succeeds, or whose failure the request survives, leads on with *)
(* what has been got.                                                       *)
LEMMA MoveSettles ==
  ASSUME kind \in Kinds, leg \in LegsOf(kind), Settled,
         \/ leg' = After(kind)[leg]
         \/ leg \in Tolerated /\ leg' = OnFailure(kind, leg),
         kind' = kind, outcome' = Returned, got' = got \cup ({leg} \cap {"proof", "agent"})
  PROVE  Settled'
<1> USE DEF Settled, Deliverables, Returned, Last, Tolerated, OnFailure, After, FirstOf, LegsOf,
            Legs, PageLegs, SolverLegs, ReleaseLegs, Kinds
<1>1. CASE leg \in PageLegs
  BY <1>1
<1>2. CASE leg \in {"intercept", "navigate", "ready"}
  BY <1>2
<1>4. CASE leg = "proof"
  BY <1>4
<1>5. CASE leg = "agent"
  BY <1>5
<1>6. CASE leg = "address"
  BY <1>6
<1>7. CASE leg = "disable"
  BY <1>7
<1>3. CASE leg \in ReleaseLegs
  BY <1>3
<1> QED  BY <1>1, <1>2, <1>3, <1>4, <1>5, <1>6, <1>7

LEMMA MoveIInv ==
  ASSUME IInv, leg # "done", NEW m \in {After(kind)[leg], OnFailure(kind, leg)}, Enter(m),
         got' \subseteq {"proof", "agent"}, outcome' \in {"pending", "ok", "failed", "timeout"},
         Settled'
  PROVE  IInv'
<1>1. kind \in Kinds /\ leg \in LegsOf(kind)
  BY DEF IInv, TypeOK, Kinds, Timely
<1>2. /\ m \in LegsOf(kind) \cup {"done"}
      /\ EndBy(kind, leg) <= StartBy(kind)[m]
      /\ m \in SolverLegs => leg \in SolverLegs \/ m = FirstOf(kind)
  BY <1>1, LegTimes
<1>3. /\ Timely' /\ DeadlineTimely' /\ DoneTimely'
      /\ polling' /\ leg' = m /\ kind' = kind
      /\ {now', due', deadline', began'} \subseteq Nat /\ shown' = Never
  BY <1>2, EnterTimely DEF IInv
<1>4. TypeOK'
  BY <1>2, <1>3 DEF IInv, TypeOK, LegsOf, Enter
<1> QED  BY <1>3, <1>4 DEF IInv

LEMMA FailIInv ==
  ASSUME IInv, leg # "done", leg \notin Tolerated,
         NEW reason \in {"failed", "timeout"}, Fail(reason)
  PROVE  IInv'
<1>1. kind \in Kinds /\ leg \in LegsOf(kind)
  BY DEF IInv, TypeOK, Kinds, Timely
<1>2. Enter(OnFailure(kind, leg)) /\ outcome' = reason /\ got' = got
  BY DEF Fail
<1>3. leg' = OnFailure(kind, leg) /\ kind' = kind
  BY <1>2 DEF Enter
<1>4. Settled'
  BY <1>1, <1>2, <1>3, FailSettles DEF IInv
<1> QED  BY <1>2, <1>4, MoveIInv DEF IInv, TypeOK

LEMMA SucceedIInv ==
  ASSUME IInv, leg # "done", Succeed \/ (leg \in Tolerated /\ Forgo)
  PROVE  IInv'
<1>1. kind \in Kinds /\ leg \in LegsOf(kind) /\ TypeOK
  BY DEF IInv, TypeOK, Kinds, Timely
<1>2. outcome' = Returned /\ got' = got \cup ({leg} \cap {"proof", "agent"})
  BY DEF Succeed, Forgo, Tolerated, ReleaseLegs
<1>3. PICK m \in {After(kind)[leg], OnFailure(kind, leg)} :
        Enter(m) /\ (m = After(kind)[leg] \/ (leg \in Tolerated /\ m = OnFailure(kind, leg)))
  BY DEF Succeed, Forgo
<1>4. leg' = m /\ kind' = kind
  BY <1>3 DEF Enter
<1>5. Settled'
  BY <1>1, <1>2, <1>3, <1>4, MoveSettles DEF IInv
<1>6. got' \subseteq {"proof", "agent"} /\ outcome' \in {"pending", "ok", "failed", "timeout"}
  BY <1>1, <1>2 DEF TypeOK, Returned
<1> QED  BY <1>3, <1>5, <1>6, MoveIInv

LEMMA WaitTypes ==
  ASSUME TypeOK, Timely, leg \in Waits
  PROVE  /\ {Patience(leg), Pause(leg), EndBy(kind, leg)} \subseteq Nat
         /\ Share(kind, leg) \in Int
<1>1. leg \in LegsOf(kind) /\ kind \in Kinds
  BY DEF Waits, Timely, TypeOK, Kinds
<1>2. /\ StartBy(kind)[leg] \in Nat /\ Patience(leg) \in Nat /\ Pause(leg) \in Nat
      /\ CallTime(leg) \in Nat
      /\ StartBy(kind)[FirstOf(kind)] \in Nat
  BY <1>1, LegTypes
<1> QED  BY <1>2, TimeAssumption DEF EndBy, Share

LEMMA InitIInv == Init => IInv
<1> SUFFICES ASSUME Init PROVE IInv
  OBVIOUS
<1>1. kind \in Kinds /\ leg = "port" /\ leg \in LegsOf(kind) /\ leg \notin Waits \cup SolverLegs
  BY DEF Init, Kinds, LegsOf, Legs, PageLegs, Waits, SolverLegs
<1>2. EndBy(kind, leg) = KillTime
  BY <1>1, TimeAssumption DEF EndBy, StartBy, CallTime, Lookups
<1>3. TypeOK
  BY TimeAssumption DEF Init, TypeOK, Legs, PageLegs
<1>4. Timely /\ DeadlineTimely /\ DoneTimely
  BY <1>1, <1>2, TimeAssumption DEF Init, Timely, DeadlineTimely, DoneTimely
<1>5. Settled
  BY DEF Init, Settled, PageLegs, ReleaseLegs
<1> QED  BY <1>3, <1>4, <1>5 DEF IInv, Init

LEMMA NextIInv == IInv /\ [Next]_vars => IInv'
<1> SUFFICES ASSUME IInv, [Next]_vars PROVE IInv'
  OBVIOUS
<1> USE TimeAssumption
<1>0. TypeOK /\ Timely /\ DeadlineTimely /\ Settled /\ (~polling => leg \in Waits)
  BY DEF IInv
<1>a. leg \in Waits =>
        /\ {Patience(leg), Pause(leg), EndBy(kind, leg)} \subseteq Nat
        /\ Share(kind, leg) \in Int
  BY <1>0, WaitTypes
<1>1. CASE Tick
  BY <1>0, <1>1 DEF Tick, IInv, TypeOK, Timely, DeadlineTimely, DoneTimely, Settled
<1>2. CASE Show
  BY <1>0, <1>2 DEF Show, IInv, TypeOK, Timely, DeadlineTimely, DoneTimely, Settled
<1>3. CASE CallSucceeds
  <2>1. leg # "done" /\ Succeed
    BY <1>3 DEF CallSucceeds, Legs, PageLegs, SolverLegs, ReleaseLegs
  <2> QED  BY <2>1, SucceedIInv
<1>4. CASE CallFails
  <2>1. leg # "done" /\ (IF leg \in Tolerated THEN Forgo ELSE Fail("failed"))
    BY <1>4 DEF CallFails, Legs, PageLegs, SolverLegs, ReleaseLegs
  <2> QED  BY <2>1, SucceedIInv, FailIInv
<1>5. CASE PollFinds
  <2>1. leg # "done" /\ Succeed
    BY <1>5 DEF PollFinds, Waits
  <2> QED  BY <2>1, SucceedIInv
<1>6. CASE PollMisses
  <2>1. CASE now >= deadline
    <3>1. leg # "done" /\ leg \notin Tolerated
      BY <1>6 DEF PollMisses, Waits, Tolerated, ReleaseLegs
    <3>2. PICK reason \in {"failed", "timeout"} : Fail(reason)
      BY <1>6, <2>1 DEF PollMisses
    <3> QED  BY <3>1, <3>2, FailIInv
  <2>2. CASE ~(now >= deadline)
    <3>1. /\ leg \in Waits /\ polling' = FALSE /\ due' = now + Pause(leg)
          /\ UNCHANGED <<kind, leg, now, deadline, shown, began, got, outcome>>
      BY <1>6, <2>2 DEF PollMisses
    <3>2. now \in Nat /\ deadline \in Nat /\ began \in Nat
      BY <1>0 DEF TypeOK
    <3>3. now < deadline
      BY <2>2, <3>2
    <3>4. Timely'
      BY <1>a, <1>0, <3>1, <3>2, <3>3 DEF Timely, DeadlineTimely
    <3>5. TypeOK'
      <4>1. due' \in Nat
        BY <1>a, <3>1, <3>2
      <4>2. polling' \in BOOLEAN
        BY <3>1
      <4> QED  BY <1>0, <3>1, <4>1, <4>2 DEF TypeOK
    <3>6. DeadlineTimely' /\ DoneTimely' /\ Settled' /\ leg' \in Waits
      BY <3>1 DEF IInv, DeadlineTimely, DoneTimely, Settled, Waits
    <3> QED  BY <3>4, <3>5, <3>6 DEF IInv
  <2> QED  BY <2>1, <2>2
<1>7. CASE PollFails
  <2>1. leg # "done" /\ leg \notin Tolerated /\ Fail("failed")
    BY <1>7 DEF PollFails, Tolerated, ReleaseLegs
  <2> QED  BY <2>1, FailIInv
<1>8. CASE Wake
  <2>1. /\ leg \in Waits /\ ~polling /\ now = due /\ polling' = TRUE /\ due' = now + CdpTimeout
        /\ UNCHANGED <<kind, leg, now, deadline, shown, began, got, outcome>>
    BY <1>8 DEF Wake
  <2>2. Timely'
    BY <1>a, <1>0, <2>1 DEF Timely, TypeOK
  <2> QED  BY <1>0, <1>a, <2>1, <2>2 DEF IInv, TypeOK, DeadlineTimely, DoneTimely, Settled
<1>9. CASE Refuse
  <2>1. leg = FirstOf(kind) /\ Enter("detach") /\ outcome' = "failed" /\ got' = got
    BY <1>9 DEF Refuse
  <2>2. leg # "done" /\ leg \in LegsOf(kind) /\ kind \in Kinds
    BY <1>0, <2>1 DEF FirstOf, Timely, TypeOK, Kinds
  <2>3. /\ "detach" \in LegsOf(kind) \cup {"done"}
        /\ EndBy(kind, leg) <= StartBy(kind)["detach"]
        /\ "detach" \notin SolverLegs
    BY <2>1, <2>2, LegTimes DEF LegsOf, Legs, ReleaseLegs, SolverLegs
  <2>4. /\ Timely' /\ DeadlineTimely' /\ DoneTimely'
        /\ polling' /\ leg' = "detach" /\ kind' = kind
        /\ {now', due', deadline', began'} \subseteq Nat /\ shown' = Never
    BY <1>0, <2>1, <2>2, <2>3, EnterTimely
  <2>5. Settled'
    BY <1>0, <2>1, <2>2, <2>4
    DEF Settled, Deliverables, FirstOf, PageLegs, ReleaseLegs, Kinds
  <2>6. TypeOK'
    BY <1>0, <2>1, <2>3, <2>4 DEF TypeOK, LegsOf, Enter
  <2> QED  BY <2>4, <2>5, <2>6 DEF IInv
<1>10. CASE Done
  BY <1>10 DEF Done, vars, IInv, TypeOK, Timely, DeadlineTimely, DoneTimely, Settled
<1>11. CASE UNCHANGED vars
  BY <1>11 DEF vars, IInv, TypeOK, Timely, DeadlineTimely, DoneTimely, Settled
<1> QED  BY <1>1, <1>2, <1>3, <1>4, <1>5, <1>6, <1>7, <1>8, <1>9, <1>10, <1>11 DEF Next

-----------------------------------------------------------------------------
THEOREM Inductive == Spec => []IInv
<1> QED  BY InitIInv, NextIInv, PTL DEF Spec

(* Types of the legs, the clock and the outcome. *)
THEOREM TypeCorrect == Spec => []TypeOK
<1>1. IInv => TypeOK
  BY DEF IInv
<1> QED  BY <1>1, Inductive, PTL

LEMMA Bounded == IInv => HeldWithinBound /\ SolvedWithinBound
<1> SUFFICES ASSUME IInv PROVE HeldWithinBound /\ SolvedWithinBound
  OBVIOUS
<1>1. CASE leg = "done"
  BY <1>1 DEF IInv, DoneTimely, HeldWithinBound, SolvedWithinBound, SolverLegs
<1>2. CASE leg # "done"
  <2>1. kind \in Kinds /\ leg \in LegsOf(kind) /\ {now, due, began} \subseteq Nat
    BY <1>2 DEF IInv, TypeOK, Timely, Kinds
  <2>2. EndBy(kind, leg) <= HoldBound /\ EndBy(kind, leg) \in Nat
    BY <2>1, TimeAssumption
    DEF LegsOf, Legs, SolverLegs, Waits, PageLegs, ReleaseLegs, HoldBound, EndBy,
        StartBy, CallTime, Lookups, Extra, Patience, Pause, LoadTime, ReadyTime, ProofTime, Kinds
  <2>3. leg \in SolverLegs => Share(kind, leg) <= SolveBound /\ Share(kind, leg) \in Int
    BY <2>1, TimeAssumption
    DEF LegsOf, Legs, SolverLegs, Waits, PageLegs, ReleaseLegs, SolveBound, EndBy, Share,
        FirstOf, StartBy, CallTime, Lookups, Extra, Patience, Pause, LoadTime, ReadyTime, ProofTime, Kinds
  <2>4. /\ now <= due
        /\ due + (IF polling THEN 0 ELSE CdpTimeout) <= EndBy(kind, leg)
        /\ leg \in SolverLegs =>
             due + (IF polling THEN 0 ELSE CdpTimeout) <= began + Share(kind, leg)
    BY <1>2 DEF IInv, Timely
  <2>5. SolveBound \in Nat /\ HoldBound \in Nat /\ CdpTimeout \in Nat
    BY TimeAssumption DEF SolveBound, HoldBound
  <2> QED  BY <2>1, <2>2, <2>3, <2>4, <2>5 DEF HeldWithinBound, SolvedWithinBound
<1> QED  BY <1>1, <1>2

(* The slot is back within the bound, whatever the timeouts are and however *)
(* the calls and the page behave (pool.rs:353-415, turnstile.rs:57-61).     *)
THEOREM Held == Spec => []HeldWithinBound
<1> QED  BY Bounded, Inductive, PTL

(* ... and so is the solver.                                                *)
THEOREM Solved == Spec => []SolvedWithinBound
<1> QED  BY Bounded, Inductive, PTL

(* What is returned when the slot goes back is a success exactly if all     *)
(* there is to return was got (iuam.rs:108-158, turnstile.rs:57-63).        *)
THEOREM Outcomes == Spec => []OutcomeFits
<1>1. IInv => OutcomeFits
  BY DEF IInv, Settled, OutcomeFits
<1> QED  BY <1>1, Inductive, PTL

(* A timeout is reported only after a poll that ended behind the deadline   *)
(* and could not see what was shown (turnstile.rs:138-169, iuam.rs:87-127). *)
THEOREM LastLook == Spec => NoEarlyTimeout
<1> DEFINE Step ==
      outcome = "pending" /\ outcome' = "timeout" /\ shown # Never =>
        shown + CdpTimeout >= deadline
<1>1. IInv /\ Next => Step
  <2> SUFFICES ASSUME IInv, Next, outcome = "pending", outcome' = "timeout", shown # Never
               PROVE  shown + CdpTimeout >= deadline
    OBVIOUS
  <2>1. PollMisses /\ now >= deadline
    BY DEF Next, Tick, Show, CallSucceeds, CallFails, PollFinds, PollMisses, PollFails, Wake,
           Refuse, Done, Succeed, Forgo, Returned, Fail, vars
  <2>2. leg = "proof" /\ shown + CdpTimeout >= due
    BY <2>1 DEF PollMisses, Fail
  <2>3. {now, due, deadline, shown} \subseteq Nat /\ now <= due
    BY <2>2 DEF IInv, TypeOK, Timely
  <2> QED  BY <2>1, <2>2, <2>3, TimeAssumption
<1>2. IInv /\ [Next]_vars => [Step]_vars
  BY <1>1
<1> QED  BY <1>2, Inductive, PTL DEF Spec, NoEarlyTimeout
=============================================================================
