------------------------ MODULE PageLifecycleProofs ------------------------
(***************************************************************************)
(* ContextsAccounted and SolverHasPage for any number of solves.  Neither   *)
(* is inductive: both rest on what has been sent at which stage, and on     *)
(* what each command that was sent or executed implies of the ones before.  *)
(***************************************************************************)
EXTENDS PageLifecycle, TLAPS

(* Stages before release has sent anything, and those at which the slot     *)
(* has a browser context.                                                   *)
Working == InNewPage \cup {"acquired", "solving"}
Equipped == {"target", "attach", "prepare", "solving", "detach"}

(* What is sent, in terms of the stage and of what is executed. *)
SentInOrder(s) ==
    /\ ran[s] \subseteq sent[s]
    /\ pc[s] \in Working => sent[s] \cap InRelease = {}
    /\ pc[s] \in {"acquired", "create"} => "target" \notin sent[s]
    /\ "target" \in sent[s] => "create" \in ran[s]
    /\ s \in ctx \/ "dispose" \in sent[s] => "target" \in sent[s]

(* The order to dispose of a browser context is given, or still can be. *)
ContextKept(s) ==
    /\ pc[s] \in Equipped => s \in ctx
    /\ pc[s] \in {"dispose", "released"} /\ "target" \in sent[s] => "dispose" \in sent[s]
    /\ "dispose" \in ran[s] => s \notin contexts

(* A session exists once Chrome has answered, until release. *)
SessionKept(s) ==
    /\ pc[s] = "acquired" => "attach" \notin sent[s]
    /\ pc[s] \in {"prepare", "solving"} => "attach" \in ran[s]
    /\ pc[s] \in Working /\ "attach" \in ran[s] => s \in attached \cup stale

IInv ==
    /\ TypeOK
    /\ \A s \in Solves : SentInOrder(s) /\ ContextKept(s) /\ SessionKept(s)
-----------------------------------------------------------------------------
(* Init establishes the invariant. *)
LEMMA InitInv == Init => IInv
  BY DEF Init, IInv, TypeOK, SentInOrder, ContextKept, SessionKept, Stages, InNewPage,
         InRelease, Working, Equipped, Commands

(* new_page keeps the invariant, at whichever call it fails (pool.rs:329-424). *)
LEMMA NewPageInv ==
    ASSUME IInv, NEW s \in Solves, NewPage(s)
    PROVE  IInv'
<1>1. CASE Create(s)
  <2>1. TypeOK'
    BY <1>1 DEF IInv, TypeOK, Create, Await, slot, chrome, Commands, Stages, InNewPage, InRelease
  <2>2. ASSUME NEW t \in Solves
        PROVE  (SentInOrder(t) /\ ContextKept(t) /\ SessionKept(t))'
    BY <1>1 DEF IInv, TypeOK, SentInOrder, ContextKept, SessionKept, Create, Await, slot, chrome,
       Commands, Stages, InNewPage, InRelease, Working, Equipped
  <2> QED BY <2>1, <2>2 DEF IInv
<1>2. CASE Created(s)
  <2>1. TypeOK'
    BY <1>2 DEF IInv, TypeOK, Created, Answered, Await, chrome, Commands, Stages, InNewPage, InRelease
  <2>2. ASSUME NEW t \in Solves
        PROVE  (SentInOrder(t) /\ ContextKept(t) /\ SessionKept(t))'
    BY <1>2 DEF IInv, TypeOK, SentInOrder, ContextKept, SessionKept, Created, Answered, Await, chrome,
       Commands, Stages, InNewPage, InRelease, Working, Equipped
  <2> QED BY <2>1, <2>2 DEF IInv
<1>3. CASE TargetMade(s)
  <2>1. TypeOK'
    BY <1>3 DEF IInv, TypeOK, TargetMade, Answered, Await, slot, chrome, Commands, Stages, InNewPage, InRelease
  <2>2. ASSUME NEW t \in Solves
        PROVE  (SentInOrder(t) /\ ContextKept(t) /\ SessionKept(t))'
    BY <1>3 DEF IInv, TypeOK, SentInOrder, ContextKept, SessionKept, TargetMade, Answered, Await, slot, chrome,
       Commands, Stages, InNewPage, InRelease, Working, Equipped
  <2> QED BY <2>1, <2>2 DEF IInv
<1>4. CASE Attached(s)
  <2>1. TypeOK'
    BY <1>4 DEF IInv, TypeOK, Attached, Answered, slot, chrome, Commands, Stages, InNewPage, InRelease
  <2>2. ASSUME NEW t \in Solves
        PROVE  (SentInOrder(t) /\ ContextKept(t) /\ SessionKept(t))'
    BY <1>4 DEF IInv, TypeOK, SentInOrder, ContextKept, SessionKept, Attached, Answered, slot, chrome,
       Commands, Stages, InNewPage, InRelease, Working, Equipped
  <2> QED BY <2>1, <2>2 DEF IInv
<1>5. CASE Prepared(s)
  <2>1. TypeOK'
    BY <1>5 DEF IInv, TypeOK, Prepared, chrome, Commands, Stages, InNewPage, InRelease
  <2>2. ASSUME NEW t \in Solves
        PROVE  (SentInOrder(t) /\ ContextKept(t) /\ SessionKept(t))'
    BY <1>5 DEF IInv, TypeOK, SentInOrder, ContextKept, SessionKept, Prepared, chrome,
       Commands, Stages, InNewPage, InRelease, Working, Equipped
  <2> QED BY <2>1, <2>2 DEF IInv
<1>6. CASE NewPageFails(s)
  <2>1. TypeOK'
    BY <1>6 DEF IInv, TypeOK, NewPageFails, Dispose, Await, chrome, Commands, Stages, InNewPage, InRelease
  <2>2. ASSUME NEW t \in Solves
        PROVE  (SentInOrder(t) /\ ContextKept(t) /\ SessionKept(t))'
    BY <1>6 DEF IInv, TypeOK, SentInOrder, ContextKept, SessionKept, NewPageFails, Dispose, Await, chrome,
       Commands, Stages, InNewPage, InRelease, Working, Equipped
  <2> QED BY <2>1, <2>2 DEF IInv
<1> QED BY <1>1, <1>2, <1>3, <1>4, <1>5, <1>6 DEF NewPage

(* So does release (pool.rs:290-318). *)
LEMMA ReleaseInv ==
    ASSUME IInv, NEW s \in Solves, Release(s)
    PROVE  IInv'
<1>1. CASE Detach(s)
  <2>1. TypeOK'
    BY <1>1 DEF IInv, TypeOK, Detach, Await, chrome, Commands, Stages, InNewPage, InRelease
  <2>2. ASSUME NEW t \in Solves
        PROVE  (SentInOrder(t) /\ ContextKept(t) /\ SessionKept(t))'
    BY <1>1 DEF IInv, TypeOK, SentInOrder, ContextKept, SessionKept, Detach, Await, chrome,
       Commands, Stages, InNewPage, InRelease, Working, Equipped
  <2> QED BY <2>1, <2>2 DEF IInv
<1>2. CASE Detached(s)
  <2>1. TypeOK'
    BY <1>2 DEF IInv, TypeOK, Detached, Dispose, Await, chrome, Commands, Stages, InNewPage, InRelease
  <2>2. ASSUME NEW t \in Solves
        PROVE  (SentInOrder(t) /\ ContextKept(t) /\ SessionKept(t))'
    BY <1>2 DEF IInv, TypeOK, SentInOrder, ContextKept, SessionKept, Detached, Dispose, Await, chrome,
       Commands, Stages, InNewPage, InRelease, Working, Equipped
  <2> QED BY <2>1, <2>2 DEF IInv
<1>3. CASE Disposed(s)
  <2>1. TypeOK'
    BY <1>3 DEF IInv, TypeOK, Disposed, slot, chrome, Commands, Stages, InNewPage, InRelease
  <2>2. ASSUME NEW t \in Solves
        PROVE  (SentInOrder(t) /\ ContextKept(t) /\ SessionKept(t))'
    BY <1>3 DEF IInv, TypeOK, SentInOrder, ContextKept, SessionKept, Disposed, slot, chrome,
       Commands, Stages, InNewPage, InRelease, Working, Equipped
  <2> QED BY <2>1, <2>2 DEF IInv
<1> QED BY <1>1, <1>2, <1>3 DEF Release

(* So does Chrome, whenever it executes a command. *)
LEMMA ChromeInv ==
    ASSUME IInv, NEW s \in Solves, Chrome(s)
    PROVE  IInv'
<1>1. CASE RunCreate(s)
  <2>1. TypeOK'
    BY <1>1 DEF IInv, TypeOK, RunCreate, Takes, slot, Commands, Stages, InNewPage, InRelease
  <2>2. ASSUME NEW t \in Solves
        PROVE  (SentInOrder(t) /\ ContextKept(t) /\ SessionKept(t))'
    BY <1>1 DEF IInv, TypeOK, SentInOrder, ContextKept, SessionKept, RunCreate, Takes, slot,
       Commands, Stages, InNewPage, InRelease, Working, Equipped
  <2> QED BY <2>1, <2>2 DEF IInv
<1>2. CASE RunTarget(s)
  <2>1. TypeOK'
    BY <1>2 DEF IInv, TypeOK, RunTarget, Takes, slot, Commands, Stages, InNewPage, InRelease
  <2>2. ASSUME NEW t \in Solves
        PROVE  (SentInOrder(t) /\ ContextKept(t) /\ SessionKept(t))'
    BY <1>2 DEF IInv, TypeOK, SentInOrder, ContextKept, SessionKept, RunTarget, Takes, slot,
       Commands, Stages, InNewPage, InRelease, Working, Equipped
  <2> QED BY <2>1, <2>2 DEF IInv
<1>3. CASE RunAttach(s)
  <2>1. TypeOK'
    BY <1>3 DEF IInv, TypeOK, RunAttach, Takes, slot, Commands, Stages, InNewPage, InRelease
  <2>2. ASSUME NEW t \in Solves
        PROVE  (SentInOrder(t) /\ ContextKept(t) /\ SessionKept(t))'
    BY <1>3 DEF IInv, TypeOK, SentInOrder, ContextKept, SessionKept, RunAttach, Takes, slot,
       Commands, Stages, InNewPage, InRelease, Working, Equipped
  <2> QED BY <2>1, <2>2 DEF IInv
<1>4. CASE RunDetach(s)
  <2>1. TypeOK'
    BY <1>4 DEF IInv, TypeOK, RunDetach, Takes, slot, Commands, Stages, InNewPage, InRelease
  <2>2. ASSUME NEW t \in Solves
        PROVE  (SentInOrder(t) /\ ContextKept(t) /\ SessionKept(t))'
    BY <1>4 DEF IInv, TypeOK, SentInOrder, ContextKept, SessionKept, RunDetach, Takes, slot,
       Commands, Stages, InNewPage, InRelease, Working, Equipped
  <2> QED BY <2>1, <2>2 DEF IInv
<1>5. CASE RunDispose(s)
  <2>1. TypeOK'
    BY <1>5 DEF IInv, TypeOK, RunDispose, Takes, slot, Commands, Stages, InNewPage, InRelease
  <2>2. ASSUME NEW t \in Solves
        PROVE  (SentInOrder(t) /\ ContextKept(t) /\ SessionKept(t))'
    BY <1>5 DEF IInv, TypeOK, SentInOrder, ContextKept, SessionKept, RunDispose, Takes, slot,
       Commands, Stages, InNewPage, InRelease, Working, Equipped
  <2> QED BY <2>1, <2>2 DEF IInv
<1> QED BY <1>1, <1>2, <1>3, <1>4, <1>5 DEF Chrome

(* So does a request that goes away. *)
LEMMA DropInv ==
    ASSUME IInv, NEW s \in Solves, Drop(s)
    PROVE  IInv'
<1>1. TypeOK'
  BY DEF IInv, TypeOK, Drop, chrome, Stages
<1>2. ASSUME NEW t \in Solves
      PROVE  (SentInOrder(t) /\ ContextKept(t) /\ SessionKept(t))'
  BY DEF IInv, TypeOK, SentInOrder, ContextKept, SessionKept, Drop, chrome,
     Stages, InNewPage, InRelease, Working, Equipped
<1> QED BY <1>1, <1>2 DEF IInv

(* A new Chrome has no session, and whoever counted on one is stale. *)
LEMMA RestartInv ==
    ASSUME IInv, Restart
    PROVE  IInv'
<1>1. TypeOK'
  BY DEF IInv, TypeOK, Restart, slot, Stages
<1>2. ASSUME NEW t \in Solves
      PROVE  (SentInOrder(t) /\ ContextKept(t) /\ SessionKept(t))'
  <2>1. UNCHANGED <<pc[t], sent[t], ran[t], ctx>>
    BY DEF Restart, slot
  <2>2. pc[t] = "acquired" => "attach" \notin ran[t]
    BY DEF IInv, SentInOrder, SessionKept
  <2> QED
    BY <2>1, <2>2 DEF IInv, TypeOK, SentInOrder, ContextKept, SessionKept, Restart,
       InNewPage, Working, Equipped
<1> QED BY <1>1, <1>2 DEF IInv

(* Every step of the specification preserves the invariant. *)
LEMMA NextInv == IInv /\ [Next]_vars => IInv'
<1> SUFFICES ASSUME IInv, [Next]_vars
             PROVE  IInv'
  OBVIOUS
<1>1. CASE UNCHANGED vars
  BY <1>1 DEF vars, IInv, TypeOK, SentInOrder, ContextKept, SessionKept
<1>2. ASSUME NEW s \in Solves, NewPage(s) \/ Release(s) \/ Drop(s) \/ Chrome(s)
      PROVE  IInv'
  BY <1>2, NewPageInv, ReleaseInv, DropInv, ChromeInv
<1>3. CASE Restart
  BY <1>3, RestartInv
<1>4. CASE Finished
  BY <1>1, <1>4 DEF Finished
<1> QED BY <1>1, <1>2, <1>3, <1>4 DEF Next

-----------------------------------------------------------------------------
(* The invariant holds throughout new_page, release and whatever Chrome     *)
(* does meanwhile.                                                          *)
THEOREM Inductive == Spec => []IInv
  BY InitInv, NextInv, PTL DEF Spec

(* Types, and that a session is on a page and a page in a browser context.  *)
THEOREM TypeCorrect == Spec => []TypeOK
<1>1. IInv => TypeOK
  BY DEF IInv
<1> QED BY <1>1, Inductive, PTL

(* At whichever call new_page fails, release gives up the browser context   *)
(* that the slot remembers (pool.rs:297, 369).                              *)
THEOREM Accounted == Spec => []ContextsAccounted
<1>1. IInv => ContextsAccounted
  <2> SUFFICES ASSUME IInv, NEW s \in contexts, pc[s] = "released", "target" \in sent[s]
               PROVE  "dispose" \in sent[s] \ ran[s]
    BY DEF ContextsAccounted
  <2>1. s \in Solves
    BY DEF IInv, TypeOK
  <2> QED BY <2>1 DEF IInv, ContextKept
<1> QED BY <1>1, Inductive, PTL

(* No solver works without a session while its Chrome lives (pool.rs:395,   *)
(* 417).                                                                    *)
THEOREM Attachment == Spec => []SolverHasPage
<1>1. IInv => SolverHasPage
  BY DEF IInv, SolverHasPage, SessionKept, Working
<1> QED BY <1>1, Inductive, PTL
=============================================================================
