-------------------------- MODULE BrowserPoolProofs --------------------------
(***************************************************************************)
(* What holds of BrowserPool for every pool size, every number of tabs and  *)
(* any finite set of requests, whichever of them disconnect.  Four groups   *)
(* of facts build the invariant IInv, each proved to be kept by a step with *)
(* the help of those before it:                                             *)
(*   TypeOK, NoLostWakeup               (InitQueue, NextQueue)              *)
(*   HoldersHaveSlots, SlotExclusive    (InitExclusive, NextExclusive)      *)
(*   PermitsConserved, SlotsConserved   (InitCounts, NextCounts)            *)
(*   ActiveIsHeld                       (InitActive, NextActive)            *)
(* IInv then gives PermitsBacked, and with it that every step of the pool   *)
(* is a step of SlotPool or a stutter.                                      *)
(***************************************************************************)
EXTENDS BrowserPool, SequenceLemmas, FiniteSetTheorems, TLAPS

-----------------------------------------------------------------------------
(* The initial queue.                                                       *)

(* Quotient and remainder, by which InitialQueue names its slots. *)
LEMMA DivMod ==
  ASSUME NEW a \in Nat, NEW b \in Nat \ {0}
  PROVE  /\ a \div b \in Nat
         /\ a % b \in 0 .. b - 1
         /\ a = b * (a \div b) + (a % b)
OBVIOUS

(* Products grow with a factor: the last slot of a process stays in bounds. *)
LEMMA TimesMonotone ==
  ASSUME NEW a \in Nat, NEW b \in Nat, NEW c \in Nat, b <= c
  PROVE  a * b \in Nat /\ a * b <= a * c
OBVIOUS

(* BrowserPool::new queues every slot, each one once. *)
LEMMA QueueType ==
  /\ Capacity \in Nat \ {0}
  /\ InitialQueue \in Seq(Slots)
  /\ Len(InitialQueue) = Capacity
  /\ IsInjective(InitialQueue)
  /\ ToSet(InitialQueue) = Slots
<1> DEFINE proc(k) == (k - 1) \div TabsPerProcess
           tab(k) == (k - 1) % TabsPerProcess
<1>1. Capacity \in Nat \ {0}
  BY PoolAssumption DEF Capacity
<1>2. ASSUME NEW k \in 1 .. Capacity
      PROVE  /\ proc(k) \in 0 .. PoolSize - 1
             /\ tab(k) \in 0 .. TabsPerProcess - 1
             /\ k - 1 = TabsPerProcess * proc(k) + tab(k)
             /\ InitialQueue[k] = <<proc(k), tab(k) + 1>>
  <2>1. k - 1 \in Nat /\ k - 1 < PoolSize * TabsPerProcess
    BY PoolAssumption DEF Capacity
  <2>2. /\ proc(k) \in Nat
        /\ tab(k) \in 0 .. TabsPerProcess - 1
        /\ k - 1 = TabsPerProcess * proc(k) + tab(k)
    BY <2>1, DivMod, PoolAssumption
  <2>3. InitialQueue[k] = <<proc(k), tab(k) + 1>>
    BY DEF InitialQueue
  <2> HIDE DEF proc, tab
  <2>4. proc(k) < PoolSize
    <3> SUFFICES ASSUME ~(proc(k) < PoolSize) PROVE FALSE
      OBVIOUS
    <3>1. PoolSize <= proc(k)
      BY <2>2, PoolAssumption
    <3>2. TabsPerProcess * PoolSize <= TabsPerProcess * proc(k)
      BY <3>1, <2>2, TimesMonotone, PoolAssumption
    <3>3. TabsPerProcess * proc(k) \in Nat
      BY <2>2, TimesMonotone, PoolAssumption
    <3> QED  BY <2>1, <2>2, <3>2, <3>3, PoolAssumption
  <2> QED  BY <2>2, <2>3, <2>4, PoolAssumption
<1>3. DOMAIN InitialQueue = 1 .. Capacity
  BY DEF InitialQueue
<1>4. InitialQueue \in Seq(Slots) /\ Len(InitialQueue) = Capacity
  <2>1. \A k \in 1 .. Capacity : InitialQueue[k] \in Slots
    <3> SUFFICES ASSUME NEW k \in 1 .. Capacity
                 PROVE  InitialQueue[k] \in Slots
      OBVIOUS
    <3>1. proc(k) \in 0 .. PoolSize - 1 /\ tab(k) + 1 \in 1 .. TabsPerProcess
      BY <1>2, PoolAssumption
    <3>2. InitialQueue[k] = <<proc(k), tab(k) + 1>>
      BY <1>2
    <3> HIDE DEF proc, tab
    <3> QED  BY <3>1, <3>2 DEF Slots
  <2>2. InitialQueue \in [1 .. Capacity -> Slots]
    BY <2>1, <1>3 DEF InitialQueue
  <2> QED  BY <2>2, <1>1
<1> HIDE DEF proc, tab
<1>5. IsInjective(InitialQueue)
  <2> SUFFICES ASSUME NEW i \in 1 .. Capacity, NEW j \in 1 .. Capacity,
                      InitialQueue[i] = InitialQueue[j]
               PROVE  i = j
    BY <1>3 DEF IsInjective
  <2>1. proc(i) = proc(j) /\ tab(i) = tab(j)
    BY <1>2, PoolAssumption
  <2>2. i - 1 = j - 1
    BY <2>1, <1>2
  <2> QED  BY <2>2, <1>1
<1>6. ToSet(InitialQueue) = Slots
  <2> SUFFICES ASSUME NEW p \in 0 .. PoolSize - 1, NEW t \in 1 .. TabsPerProcess
               PROVE  \E k \in 1 .. Capacity : InitialQueue[k] = <<p, t>>
    <3>1. ToSet(InitialQueue) \subseteq Slots
      BY <1>4 DEF ToSet
    <3>2. ASSUME NEW x \in Slots
          PROVE  x \in ToSet(InitialQueue)
      <4>1. x = <<x[1], x[2]>> /\ x[1] \in 0 .. PoolSize - 1 /\ x[2] \in 1 .. TabsPerProcess
        BY DEF Slots
      <4>2. \E k \in 1 .. Capacity : InitialQueue[k] = <<x[1], x[2]>>
        BY <4>1
      <4> QED  BY <4>1, <4>2, <1>3 DEF ToSet
    <3> QED  BY <3>1, <3>2
  <2> DEFINE k == TabsPerProcess * p + t
  <2>1. k \in 1 .. Capacity
    <3>1. TabsPerProcess * p \in Nat
      BY TimesMonotone, PoolAssumption
    <3>2. TabsPerProcess * p <= TabsPerProcess * (PoolSize - 1)
      BY TimesMonotone, PoolAssumption
    <3>3. TabsPerProcess * (PoolSize - 1) + TabsPerProcess = Capacity
      BY PoolAssumption DEF Capacity
    <3>4. TabsPerProcess * (PoolSize - 1) \in Nat
      BY TimesMonotone, PoolAssumption
    <3> QED  BY <3>1, <3>2, <3>3, <3>4, <1>1, PoolAssumption
  <2>2. TabsPerProcess * p + (t - 1) = TabsPerProcess * proc(k) + tab(k)
    <3>1. TabsPerProcess * p \in Nat
      BY TimesMonotone, PoolAssumption
    <3> QED  BY <2>1, <1>2, <3>1
  <2> HIDE DEF k
  <2>3. proc(k) = p
    <3>1. proc(k) \in Nat /\ tab(k) \in 0 .. TabsPerProcess - 1 /\ p \in Nat
      BY <2>1, <1>2, PoolAssumption
    <3> DEFINE T == TabsPerProcess
               q == proc(k)
               u == tab(k)
    <3>2. T \in Nat \ {0} /\ T * p \in Nat /\ T * q \in Nat
      BY <3>1, TimesMonotone, PoolAssumption
    <3>3. ASSUME p < q  PROVE FALSE
      <4>1. p + 1 <= q /\ p + 1 \in Nat
        BY <3>3, <3>1
      <4>2. T * (p + 1) <= T * q
        BY <4>1, <3>1, <3>2, TimesMonotone
      <4>3. T * (p + 1) = T * p + T
        BY <3>1, <3>2
      <4> HIDE DEF T, q, u
      <4> QED  BY <4>2, <4>3, <3>1, <3>2, <2>2 DEF T, q, u
    <3>4. ASSUME q < p  PROVE FALSE
      <4>1. q + 1 <= p /\ q + 1 \in Nat
        BY <3>4, <3>1
      <4>2. T * (q + 1) <= T * p
        BY <4>1, <3>1, <3>2, TimesMonotone
      <4>3. T * (q + 1) = T * q + T
        BY <3>1, <3>2
      <4> QED  BY <4>2, <4>3, <3>1, <3>2, <2>2
    <3> QED  BY <3>1, <3>3, <3>4
  <2>4. tab(k) = t - 1
    BY <2>1, <2>2, <2>3, <1>2, PoolAssumption, TimesMonotone
  <2> QED  BY <2>1, <2>3, <2>4, <1>2
<1> QED  BY <1>1, <1>4, <1>5, <1>6

-----------------------------------------------------------------------------
(* Counting the requests at some stages.                                    *)

(* The number of requests at some stages is a natural number.               *)
LEMMA CountType ==
  ASSUME NEW S
  PROVE  IsFiniteSet(At(S)) /\ Cardinality(At(S)) \in Nat
BY FS_Subset, FS_CardinalityType, PoolAssumption DEF At

CountIn(f, S) == Cardinality({q \in Requests : f[q] \in S})

OnlyMoves(f, g, r) == \A q \in Requests \ {r} : g[q] = f[q]

(* One request moving changes a count by whether it enters or leaves.       *)
LEMMA CountStep ==
  ASSUME NEW f, NEW g, NEW r \in Requests, NEW S, OnlyMoves(f, g, r)
  PROVE  /\ CountIn(f, S) \in Nat
         /\ CountIn(g, S) \in Nat
         /\ CountIn(g, S) = CountIn(f, S) + (IF g[r] \in S THEN 1 ELSE 0)
                                         - (IF f[r] \in S THEN 1 ELSE 0)
<1> DEFINE F == {q \in Requests : f[q] \in S}
           G == {q \in Requests : g[q] \in S}
<1>1. IsFiniteSet(F) /\ IsFiniteSet(G) /\ Cardinality(F) \in Nat /\ Cardinality(G) \in Nat
  BY FS_Subset, FS_CardinalityType, PoolAssumption
<1>2. f[r] \in S <=> r \in F
  OBVIOUS
<1>3. G = IF g[r] \in S THEN F \cup {r} ELSE F \ {r}
  BY DEF OnlyMoves
<1>4. CountIn(f, S) = Cardinality(F) /\ CountIn(g, S) = Cardinality(G)
  BY DEF CountIn
<1> HIDE DEF F, G
<1>5. g[r] \in S => Cardinality(G) = IF r \in F THEN Cardinality(F) ELSE Cardinality(F) + 1
  BY <1>1, <1>3, FS_AddElement
<1>6. g[r] \notin S => Cardinality(G) = IF r \in F THEN Cardinality(F) - 1 ELSE Cardinality(F)
  BY <1>1, <1>3, FS_RemoveElement
<1> QED  BY <1>1, <1>2, <1>4, <1>5, <1>6

-----------------------------------------------------------------------------
(* Types and the semaphore's queue.                                         *)

(* A permit that comes back moves its giver to s and nobody else, except    *)
(* the oldest parked request, which it wakes.                               *)
LEMMA AddPermitEffect ==
  ASSUME TypeOK, NoLostWakeup, NEW r \in Requests, NEW s \in Over,
         pc[r] # "waiting", AddPermit(r, s)
  PROVE  /\ permits' \in Nat
         /\ waiters' \in Seq(Requests)
         /\ pc' \in [Requests -> Stages]
         /\ pc'[r] = s
         /\ \A q \in Requests \ {r} :
               pc'[q] = pc[q] \/ (pc[q] = "waiting" /\ pc'[q] = "granted")
         /\ NoLostWakeup'
<1>1. CASE waiters = <<>>
  <2>1. /\ permits' = permits + 1
        /\ waiters' = <<>>
        /\ pc' = [pc EXCEPT ![r] = s]
    BY <1>1 DEF AddPermit
  <2>2. At({"waiting"})' = At({"waiting"})
    BY <2>1 DEF At, TypeOK, Over, Dropped
  <2> QED  BY <2>1, <2>2, <1>1 DEF TypeOK, NoLostWakeup, Stages
<1>2. CASE waiters # <<>>
  <2> DEFINE h == Head(waiters)
  <2>1. /\ permits' = permits
        /\ waiters' = Tail(waiters)
        /\ pc' = [pc EXCEPT ![r] = s, ![h] = "granted"]
    BY <1>2 DEF AddPermit
  <2>2. /\ Tail(waiters) \in Seq(Requests)
        /\ h \in Requests
        /\ h \in ToSet(waiters)
        /\ IsInjective(Tail(waiters))
        /\ ToSet(Tail(waiters)) = ToSet(waiters) \ {h}
    BY <1>2, TailDistinct DEF TypeOK, NoLostWakeup
  <2>3. pc[h] = "waiting" /\ h # r
    BY <2>2 DEF NoLostWakeup, At
  <2> HIDE DEF h
  <2>4. At({"waiting"})' = At({"waiting"}) \ {h}
    BY <2>1, <2>2, <2>3 DEF At, TypeOK, Over, Dropped
  <2>5. NoLostWakeup'
    BY <2>1, <2>2, <2>4, <1>2 DEF NoLostWakeup
  <2>6. /\ pc' \in [Requests -> Stages]
        /\ pc'[r] = s
        /\ pc'[h] = "granted"
        /\ \A q \in Requests \ {r, h} : pc'[q] = pc[q]
    BY <2>1, <2>2, <2>3 DEF TypeOK, Stages, Running
  <2> QED  BY <2>1, <2>2, <2>3, <2>5, <2>6 DEF TypeOK
<1> QED  BY <1>1, <1>2

(* A request that neither enters nor leaves the queue keeps it in order.    *)
LEMMA SameWaiters ==
  ASSUME TypeOK, NoLostWakeup, NEW r \in Requests, NEW s \in Stages \ {"waiting"},
         pc[r] # "waiting", pc' = [pc EXCEPT ![r] = s],
         waiters' = waiters, permits' = permits \/ (permits > 0 /\ permits' = permits - 1)
  PROVE  NoLostWakeup' /\ pc' \in [Requests -> Stages] /\ permits' \in Nat
<1>1. At({"waiting"})' = At({"waiting"})
  BY DEF At, TypeOK
<1>2. waiters' # <<>> => permits' = 0
  BY DEF NoLostWakeup, TypeOK
<1> QED  BY <1>1, <1>2 DEF NoLostWakeup, TypeOK

(* The requests with a slot are those between pop_front and push_back.      *)
HoldersHaveSlots ==
  \A r \in Requests : slot[r] # NoSlot <=> pc[r] \in Holding \cup {"lostSlot"}

(* BrowserPool::new leaves a well-typed pool with nobody parked.            *)
LEMMA InitQueue == Init => TypeOK /\ NoLostWakeup
<1> SUFFICES ASSUME Init PROVE TypeOK /\ NoLostWakeup
  OBVIOUS
<1>1. TypeOK
  BY QueueType DEF Init, TypeOK, Stages, Readings
<1>2. NoLostWakeup
  BY DEF Init, NoLostWakeup, At, ToSet, IsInjective
<1> QED  BY <1>1, <1>2

(* Types, and the semaphore's queue of parked requests, after every step.   *)
LEMMA NextQueue ==
  ASSUME TypeOK, NoLostWakeup, HoldersHaveSlots, [Next]_vars
  PROVE  TypeOK' /\ NoLostWakeup'
<1> USE DEF Stages, Running, Holding, Over, Dropped
<1>1. ASSUME NEW r \in Requests, TakePermit(r)  PROVE TypeOK' /\ NoLostWakeup'
  <2>1. NoLostWakeup' /\ pc' \in [Requests -> Stages] /\ permits' \in Nat
    BY <1>1, SameWaiters DEF TakePermit
  <2> QED  BY <2>1, <1>1 DEF TakePermit, TypeOK
<1>2. ASSUME NEW r \in Requests, Park(r)  PROVE TypeOK' /\ NoLostWakeup'
  <2>1. r \notin ToSet(waiters)
    BY <1>2 DEF Park, NoLostWakeup, At
  <2>2. /\ waiters' \in Seq(Requests)
        /\ IsInjective(waiters')
        /\ ToSet(waiters') = ToSet(waiters) \cup {r}
    BY <2>1, <1>2, AppendDistinct DEF Park, TypeOK, NoLostWakeup
  <2>3. At({"waiting"})' = At({"waiting"}) \cup {r}
    BY <1>2 DEF Park, At, TypeOK
  <2>4. NoLostWakeup'
    BY <2>2, <2>3, <1>2 DEF Park, NoLostWakeup
  <2> QED  BY <2>2, <2>4, <1>2 DEF Park, TypeOK
<1>3. ASSUME NEW r \in Requests, ForgetPermit(r)  PROVE TypeOK' /\ NoLostWakeup'
  <2>1. NoLostWakeup' /\ pc' \in [Requests -> Stages]
    BY <1>3, SameWaiters DEF ForgetPermit
  <2> QED  BY <2>1, <1>3 DEF ForgetPermit, TypeOK
<1>4. ASSUME NEW r \in Requests, PopSlot(r)  PROVE TypeOK' /\ NoLostWakeup'
  <2>1. CASE available # <<>>
    <3>1. NoLostWakeup' /\ pc' \in [Requests -> Stages]
      BY <1>4, <2>1, SameWaiters DEF PopSlot
    <3>2. Tail(available) \in Seq(Slots) /\ Head(available) \in Slots
      BY <2>1 DEF TypeOK
    <3> QED  BY <3>1, <3>2, <1>4, <2>1 DEF PopSlot, TypeOK
  <2>2. CASE available = <<>>
    <3>1. AddPermit(r, "refused") /\ pc[r] # "waiting"
      BY <1>4, <2>2 DEF PopSlot
    <3>2. /\ permits' \in Nat /\ waiters' \in Seq(Requests)
          /\ pc' \in [Requests -> Stages] /\ NoLostWakeup'
      BY <3>1, AddPermitEffect
    <3> QED  BY <3>2, <1>4, <2>2 DEF PopSlot, TypeOK
  <2> QED  BY <2>1, <2>2
<1>5. ASSUME NEW r \in Requests, Activate(r)  PROVE TypeOK' /\ NoLostWakeup'
  <2>1. NoLostWakeup' /\ pc' \in [Requests -> Stages]
    BY <1>5, SameWaiters DEF Activate
  <2>2. slot[r] \in Slots
    BY <1>5 DEF Activate, TypeOK, HoldersHaveSlots
  <2> QED  BY <2>1, <2>2, <1>5 DEF Activate, TypeOK
<1>6. ASSUME NEW r \in Requests, FinishSolve(r)  PROVE TypeOK' /\ NoLostWakeup'
  <2>1. NoLostWakeup' /\ pc' \in [Requests -> Stages]
    BY <1>6, SameWaiters DEF FinishSolve
  <2> QED  BY <2>1, <1>6 DEF FinishSolve, TypeOK
<1>7. ASSUME NEW r \in Requests, Unlist(r)  PROVE TypeOK' /\ NoLostWakeup'
  <2>1. NoLostWakeup' /\ pc' \in [Requests -> Stages]
    BY <1>7, SameWaiters DEF Unlist
  <2> QED  BY <2>1, <1>7 DEF Unlist, TypeOK
<1>8. ASSUME NEW r \in Requests, PushSlot(r)  PROVE TypeOK' /\ NoLostWakeup'
  <2>1. NoLostWakeup' /\ pc' \in [Requests -> Stages]
    BY <1>8, SameWaiters DEF PushSlot
  <2>2. slot[r] \in Slots
    BY <1>8 DEF PushSlot, TypeOK, HoldersHaveSlots
  <2> QED  BY <2>1, <2>2, <1>8 DEF PushSlot, TypeOK
<1>9. ASSUME NEW r \in Requests, ReturnPermit(r)  PROVE TypeOK' /\ NoLostWakeup'
  <2>1. AddPermit(r, "done") /\ pc[r] # "waiting"
    BY <1>9 DEF ReturnPermit
  <2>2. /\ permits' \in Nat /\ waiters' \in Seq(Requests)
        /\ pc' \in [Requests -> Stages] /\ NoLostWakeup'
    BY <2>1, AddPermitEffect
  <2> QED  BY <2>2, <1>9 DEF ReturnPermit, TypeOK
<1>10. ASSUME NEW r \in Requests, LeaveQueue(r)  PROVE TypeOK' /\ NoLostWakeup'
  <2>1. PICK i \in DOMAIN waiters : waiters[i] = r /\ waiters' = RemoveAt(waiters, i)
    BY <1>10 DEF LeaveQueue
  <2>2. /\ waiters' \in Seq(Requests)
        /\ IsInjective(waiters')
        /\ ToSet(waiters') = ToSet(waiters) \ {r}
    BY <2>1, RemoveAtDistinct DEF TypeOK, NoLostWakeup
  <2>3. At({"waiting"})' = At({"waiting"}) \ {r}
    BY <1>10 DEF LeaveQueue, At, TypeOK
  <2>4. waiters # <<>>
    BY <2>1
  <2>5. NoLostWakeup'
    BY <2>2, <2>3, <2>4, <1>10 DEF LeaveQueue, NoLostWakeup
  <2> QED  BY <2>2, <2>5, <1>10 DEF LeaveQueue, TypeOK
<1>11. ASSUME NEW r \in Requests, LeaveGranted(r)  PROVE TypeOK' /\ NoLostWakeup'
  <2>1. AddPermit(r, "withdrawn") /\ pc[r] # "waiting"
    BY <1>11 DEF LeaveGranted
  <2>2. /\ permits' \in Nat /\ waiters' \in Seq(Requests)
        /\ pc' \in [Requests -> Stages] /\ NoLostWakeup'
    BY <2>1, AddPermitEffect
  <2> QED  BY <2>2, <1>11 DEF LeaveGranted, TypeOK
<1>12. ASSUME NEW r \in Requests, LosePermit(r)  PROVE TypeOK' /\ NoLostWakeup'
  <2>1. NoLostWakeup' /\ pc' \in [Requests -> Stages]
    BY <1>12, SameWaiters DEF LosePermit
  <2> QED  BY <2>1, <1>12 DEF LosePermit, TypeOK
<1>13. ASSUME NEW r \in Requests, LoseSlot(r)  PROVE TypeOK' /\ NoLostWakeup'
  <2>1. NoLostWakeup' /\ pc' \in [Requests -> Stages]
    BY <1>13, SameWaiters DEF LoseSlot
  <2> QED  BY <2>1, <1>13 DEF LoseSlot, TypeOK
<1>14. ASSUME NEW p \in Probes, GetCapacityStats(p)  PROVE TypeOK' /\ NoLostWakeup'
  <2>1. Len(available) \in Nat /\ Cardinality(active) \in Nat
    <3>1. IsFiniteSet(Slots)
      <4>1. IsFiniteSet(0 .. PoolSize - 1) /\ IsFiniteSet(1 .. TabsPerProcess)
        BY FS_Interval, PoolAssumption
      <4> QED  BY <4>1, FS_Product DEF Slots
    <3> QED  BY <3>1, FS_Subset, FS_CardinalityType DEF TypeOK
  <2>2. reading' \in [Probes -> Readings]
    <3>1. reading \in [Probes -> Readings]
      BY DEF TypeOK
    <3>2. ASSUME ReadAvailable(p)  PROVE reading' \in [Probes -> Readings]
      BY <3>1, <3>2, <2>1 DEF ReadAvailable, Readings
    <3>3. ASSUME ReadActive(p)  PROVE reading' \in [Probes -> Readings]
      BY <3>1, <3>3, <2>1 DEF ReadActive, Readings
    <3> QED  BY <1>14, <3>2, <3>3 DEF GetCapacityStats
  <2>3. UNCHANGED <<permits, waiters, available, active, pc, slot>>
    BY <1>14 DEF GetCapacityStats, ReadAvailable, ReadActive
  <2> QED  BY <2>2, <2>3 DEF TypeOK, NoLostWakeup, At
<1>15. CASE UNCHANGED vars
  BY <1>15 DEF vars, TypeOK, NoLostWakeup, At
<1> QED
  BY <1>1, <1>2, <1>3, <1>4, <1>5, <1>6, <1>7, <1>8, <1>9, <1>10, <1>11, <1>12,
     <1>13, <1>14, <1>15
  DEF Next, Acquire, Release, Disconnect, Finished

-----------------------------------------------------------------------------
(* Who holds which slot.                                                    *)

(* BrowserPool::new queues distinct slots and nobody holds one.             *)
LEMMA InitExclusive == Init => HoldersHaveSlots /\ SlotExclusive
<1> SUFFICES ASSUME Init PROVE HoldersHaveSlots /\ SlotExclusive
  OBVIOUS
<1>1. NoSlot \notin ToSet(InitialQueue)
  BY QueueType, PoolAssumption DEF Slots
<1> QED  BY <1>1, QueueType DEF Init, HoldersHaveSlots, SlotExclusive, QueuedSlots, Holding

(* A step that leaves the queue and every slot alone, and moves nobody from *)
(* a stage with a slot to one without, or back.                             *)
LEMMA SameSlots ==
  ASSUME HoldersHaveSlots, SlotExclusive, slot' = slot, available' = available,
         \A q \in Requests : pc'[q] \in Holding \cup {"lostSlot"}
                               <=> pc[q] \in Holding \cup {"lostSlot"}
  PROVE  HoldersHaveSlots' /\ SlotExclusive'
BY DEF HoldersHaveSlots, SlotExclusive, QueuedSlots

(* No step of acquire, release or a disconnect duplicates a slot.           *)
LEMMA NextExclusive ==
  ASSUME TypeOK, NoLostWakeup, HoldersHaveSlots, SlotExclusive, [Next]_vars
  PROVE  HoldersHaveSlots' /\ SlotExclusive'
<1> DEFINE Keepers == Holding \cup {"lostSlot"}
<1>1. ASSUME NEW r \in Requests, TakePermit(r)  PROVE HoldersHaveSlots' /\ SlotExclusive'
  <2>1. /\ slot' = slot /\ available' = available
        /\ \A q \in Requests : pc'[q] \in Keepers <=> pc[q] \in Keepers
    BY <1>1 DEF TakePermit, TypeOK, Holding
  <2> QED  BY <2>1, SameSlots
<1>2. ASSUME NEW r \in Requests, Park(r)  PROVE HoldersHaveSlots' /\ SlotExclusive'
  <2>1. /\ slot' = slot /\ available' = available
        /\ \A q \in Requests : pc'[q] \in Keepers <=> pc[q] \in Keepers
    BY <1>2 DEF Park, TypeOK, Holding
  <2> QED  BY <2>1, SameSlots
<1>3. ASSUME NEW r \in Requests, ForgetPermit(r)  PROVE HoldersHaveSlots' /\ SlotExclusive'
  <2>1. /\ slot' = slot /\ available' = available
        /\ \A q \in Requests : pc'[q] \in Keepers <=> pc[q] \in Keepers
    BY <1>3 DEF ForgetPermit, TypeOK, Holding
  <2> QED  BY <2>1, SameSlots
<1>4. ASSUME NEW r \in Requests, PopSlot(r)  PROVE HoldersHaveSlots' /\ SlotExclusive'
  <2>1. CASE available # <<>>
    <3> DEFINE h == Head(available)
    <3>1. /\ h \in Slots /\ h \in QueuedSlots
          /\ IsInjective(Tail(available))
          /\ ToSet(Tail(available)) = QueuedSlots \ {h}
      BY <2>1, TailDistinct DEF TypeOK, SlotExclusive, QueuedSlots
    <3>2. /\ slot' = [slot EXCEPT ![r] = h]
          /\ available' = Tail(available)
          /\ pc' = [pc EXCEPT ![r] = "popped"]
          /\ pc[r] = "permitted"
      BY <1>4, <2>1 DEF PopSlot
    <3> HIDE DEF h
    <3>3. h # NoSlot
      BY <3>1, PoolAssumption DEF Slots
    <3>4. HoldersHaveSlots'
      BY <3>2, <3>3 DEF HoldersHaveSlots, TypeOK, Holding
    <3>5. QueuedSlots' = QueuedSlots \ {h}
      BY <3>1, <3>2 DEF QueuedSlots
    <3>6. \A q \in Requests : slot[q] # h
      BY <3>1 DEF SlotExclusive
    <3>7. SlotExclusive'
      BY <3>1, <3>2, <3>5, <3>6 DEF SlotExclusive, TypeOK
    <3> QED  BY <3>4, <3>7
  <2>2. CASE available = <<>>
    <3>1. /\ AddPermit(r, "refused") /\ pc[r] # "waiting" /\ pc[r] \notin Keepers
          /\ slot' = slot /\ available' = available
      BY <1>4, <2>2 DEF PopSlot, Holding
    <3>2. \A q \in Requests : pc'[q] \in Keepers <=> pc[q] \in Keepers
      BY <3>1, AddPermitEffect DEF Holding, Over, Dropped
    <3> QED  BY <3>1, <3>2, SameSlots
  <2> QED  BY <2>1, <2>2
<1>5. ASSUME NEW r \in Requests, Activate(r)  PROVE HoldersHaveSlots' /\ SlotExclusive'
  <2>1. /\ slot' = slot /\ available' = available
        /\ \A q \in Requests : pc'[q] \in Keepers <=> pc[q] \in Keepers
    BY <1>5 DEF Activate, TypeOK, Holding
  <2> QED  BY <2>1, SameSlots
<1>6. ASSUME NEW r \in Requests, FinishSolve(r)  PROVE HoldersHaveSlots' /\ SlotExclusive'
  <2>1. /\ slot' = slot /\ available' = available
        /\ \A q \in Requests : pc'[q] \in Keepers <=> pc[q] \in Keepers
    BY <1>6 DEF FinishSolve, TypeOK, Holding
  <2> QED  BY <2>1, SameSlots
<1>7. ASSUME NEW r \in Requests, Unlist(r)  PROVE HoldersHaveSlots' /\ SlotExclusive'
  <2>1. /\ slot' = slot /\ available' = available
        /\ \A q \in Requests : pc'[q] \in Keepers <=> pc[q] \in Keepers
    BY <1>7 DEF Unlist, TypeOK, Holding
  <2> QED  BY <2>1, SameSlots
<1>8. ASSUME NEW r \in Requests, PushSlot(r)  PROVE HoldersHaveSlots' /\ SlotExclusive'
  <2>1. /\ available' = Append(available, slot[r])
        /\ slot' = [slot EXCEPT ![r] = NoSlot]
        /\ pc' = [pc EXCEPT ![r] = "pushed"]
        /\ pc[r] = "unlisted"
    BY <1>8 DEF PushSlot
  <2>2. slot[r] \in Slots /\ slot[r] # NoSlot /\ slot[r] \notin ToSet(available)
    BY <2>1 DEF HoldersHaveSlots, SlotExclusive, QueuedSlots, TypeOK, Holding
  <2>3. IsInjective(available') /\ QueuedSlots' = QueuedSlots \cup {slot[r]}
    BY <2>1, <2>2, AppendDistinct DEF TypeOK, SlotExclusive, QueuedSlots
  <2>4. HoldersHaveSlots'
    BY <2>1 DEF HoldersHaveSlots, TypeOK, Holding
  <2>5. NoSlot \notin QueuedSlots
    <3>1. \A i \in DOMAIN available : available[i] \in Slots
      BY DEF TypeOK
    <3> QED  BY <3>1, PoolAssumption DEF QueuedSlots, ToSet, Slots
  <2>6. SlotExclusive'
    BY <2>1, <2>2, <2>3, <2>5 DEF SlotExclusive, TypeOK
  <2> QED  BY <2>4, <2>6
<1>9. ASSUME NEW r \in Requests, ReturnPermit(r)  PROVE HoldersHaveSlots' /\ SlotExclusive'
  <2>1. /\ AddPermit(r, "done") /\ pc[r] # "waiting" /\ pc[r] \notin Keepers
        /\ slot' = slot /\ available' = available
    BY <1>9 DEF ReturnPermit, Holding
  <2>2. \A q \in Requests : pc'[q] \in Keepers <=> pc[q] \in Keepers
    BY <2>1, AddPermitEffect DEF Holding, Over, Dropped
  <2> QED  BY <2>1, <2>2, SameSlots
<1>10. ASSUME NEW r \in Requests, LeaveQueue(r)  PROVE HoldersHaveSlots' /\ SlotExclusive'
  <2>1. pc[r] = "waiting"
    BY <1>10 DEF LeaveQueue, NoLostWakeup, ToSet, At
  <2>2. /\ slot' = slot /\ available' = available
        /\ \A q \in Requests : pc'[q] \in Keepers <=> pc[q] \in Keepers
    BY <1>10, <2>1 DEF LeaveQueue, TypeOK, Holding
  <2> QED  BY <2>2, SameSlots
<1>11. ASSUME NEW r \in Requests, LeaveGranted(r)  PROVE HoldersHaveSlots' /\ SlotExclusive'
  <2>1. /\ AddPermit(r, "withdrawn") /\ pc[r] # "waiting" /\ pc[r] \notin Keepers
        /\ slot' = slot /\ available' = available
    BY <1>11 DEF LeaveGranted, Holding
  <2>2. \A q \in Requests : pc'[q] \in Keepers <=> pc[q] \in Keepers
    BY <2>1, AddPermitEffect DEF Holding, Over, Dropped
  <2> QED  BY <2>1, <2>2, SameSlots
<1>12. ASSUME NEW r \in Requests, LosePermit(r)  PROVE HoldersHaveSlots' /\ SlotExclusive'
  <2>1. /\ slot' = slot /\ available' = available
        /\ \A q \in Requests : pc'[q] \in Keepers <=> pc[q] \in Keepers
    BY <1>12 DEF LosePermit, TypeOK, Holding
  <2> QED  BY <2>1, SameSlots
<1>13. ASSUME NEW r \in Requests, LoseSlot(r)  PROVE HoldersHaveSlots' /\ SlotExclusive'
  <2>1. /\ slot' = slot /\ available' = available
        /\ \A q \in Requests : pc'[q] \in Keepers <=> pc[q] \in Keepers
    BY <1>13 DEF LoseSlot, TypeOK, Holding
  <2> QED  BY <2>1, SameSlots
<1>14. ASSUME NEW p \in Probes, GetCapacityStats(p)  PROVE HoldersHaveSlots' /\ SlotExclusive'
  BY <1>14, SameSlots DEF GetCapacityStats, ReadAvailable, ReadActive
<1>15. CASE UNCHANGED vars
  BY <1>15, SameSlots DEF vars
<1> QED
  BY <1>1, <1>2, <1>3, <1>4, <1>5, <1>6, <1>7, <1>8, <1>9, <1>10, <1>11, <1>12,
     <1>13, <1>14, <1>15
  DEF Next, Acquire, Release, Disconnect, Finished

-----------------------------------------------------------------------------
(* Counting permits and slots.                                              *)

PermitKeepers == Running \cup {"lostPermit", "lostSlot"}
SlotKeepers == Holding \cup {"lostSlot"}

MovesTo(r, s) == pc' = [pc EXCEPT ![r] = s]

(* CountStep for one request moving in a step of the pool.                  *)
LEMMA MoveCounts ==
  ASSUME TypeOK, NEW r \in Requests, NEW s, MovesTo(r, s), NEW S
  PROVE  /\ Cardinality(At(S)) \in Nat
         /\ Cardinality(At(S)') \in Nat
         /\ pc[r] \in S /\ s \in S => Cardinality(At(S)') = Cardinality(At(S))
         /\ pc[r] \notin S /\ s \notin S => Cardinality(At(S)') = Cardinality(At(S))
         /\ pc[r] \notin S /\ s \in S => Cardinality(At(S)') = Cardinality(At(S)) + 1
         /\ pc[r] \in S /\ s \notin S => Cardinality(At(S)') = Cardinality(At(S)) - 1
<1>1. pc'[r] = s /\ OnlyMoves(pc, pc', r)
  BY DEF TypeOK, OnlyMoves, MovesTo
<1>2. Cardinality(At(S)) = CountIn(pc, S) /\ Cardinality(At(S)') = CountIn(pc', S)
  BY DEF At, CountIn
<1>3. /\ CountIn(pc, S) \in Nat
      /\ CountIn(pc', S) \in Nat
      /\ CountIn(pc', S) = CountIn(pc, S) + (IF pc'[r] \in S THEN 1 ELSE 0)
                                         - (IF pc[r] \in S THEN 1 ELSE 0)
  BY <1>1, CountStep
<1> QED  BY <1>1, <1>2, <1>3

(* A permit that comes back leaves its giver, for the semaphore or for the  *)
(* oldest parked request; no slot moves.                                    *)
LEMMA AddPermitCounts ==
  ASSUME TypeOK, NoLostWakeup, NEW r \in Requests, NEW s \in Over \ PermitKeepers,
         pc[r] \in PermitKeepers \ SlotKeepers, AddPermit(r, s)
  PROVE  /\ permits' + Cardinality(At(PermitKeepers)') = permits + Cardinality(At(PermitKeepers))
         /\ Cardinality(At(SlotKeepers)') = Cardinality(At(SlotKeepers))
<1> USE DEF PermitKeepers, SlotKeepers, Running, Holding
<1>1. CASE waiters = <<>>
  <2>1. permits' = permits + 1 /\ pc' = [pc EXCEPT ![r] = s]
    BY <1>1 DEF AddPermit
  <2>2. Cardinality(At(PermitKeepers)') = Cardinality(At(PermitKeepers)) - 1
    BY <2>1, MoveCounts DEF MovesTo
  <2>3. Cardinality(At(SlotKeepers)') = Cardinality(At(SlotKeepers))
    BY <2>1, MoveCounts DEF MovesTo
  <2>4. permits \in Nat /\ Cardinality(At(PermitKeepers)) \in Nat
    BY CountType DEF TypeOK
  <2> QED  BY <2>1, <2>2, <2>3, <2>4
<1>2. CASE waiters # <<>>
  <2> DEFINE h == Head(waiters)
             f == [pc EXCEPT ![r] = s]
  <2>1. h \in Requests /\ h \in ToSet(waiters)
    BY <1>2, TailDistinct DEF TypeOK, NoLostWakeup
  <2>2. pc[h] = "waiting" /\ h # r
    BY <2>1 DEF NoLostWakeup, At
  <2>3. permits' = permits /\ pc' = [f EXCEPT ![h] = "granted"]
    BY <1>2, <2>1, <2>2 DEF AddPermit, TypeOK
  <2>4. /\ f[r] = s /\ OnlyMoves(pc, f, r)
        /\ pc'[h] = "granted" /\ OnlyMoves(f, pc', h)
        /\ f[h] = "waiting"
    BY <2>1, <2>2, <2>3 DEF TypeOK, OnlyMoves
  <2>5. /\ "granted" \in PermitKeepers /\ "granted" \notin SlotKeepers
        /\ "waiting" \notin PermitKeepers /\ "waiting" \notin SlotKeepers
        /\ pc[r] \in PermitKeepers /\ pc[r] \notin SlotKeepers
        /\ s \notin PermitKeepers /\ s \notin SlotKeepers
    OBVIOUS
  <2> HIDE DEF PermitKeepers, SlotKeepers
  <2>6. /\ CountIn(pc, PermitKeepers) \in Nat
        /\ CountIn(f, PermitKeepers) = CountIn(pc, PermitKeepers) - 1
        /\ CountIn(f, SlotKeepers) = CountIn(pc, SlotKeepers)
    <3> HIDE DEF f
    <3> QED  BY <2>4, <2>5, CountStep
  <2> HIDE DEF f
  <2>7. /\ CountIn(pc', PermitKeepers) = CountIn(f, PermitKeepers) + 1
        /\ CountIn(pc', SlotKeepers) = CountIn(f, SlotKeepers)
    <3> HIDE DEF h
    <3> QED  BY <2>1, <2>4, <2>5, CountStep
  <2>8. /\ Cardinality(At(PermitKeepers)) = CountIn(pc, PermitKeepers)
        /\ Cardinality(At(SlotKeepers)) = CountIn(pc, SlotKeepers)
        /\ Cardinality(At(PermitKeepers)') = CountIn(pc', PermitKeepers)
        /\ Cardinality(At(SlotKeepers)') = CountIn(pc', SlotKeepers)
    BY DEF At, CountIn
  <2> QED  BY <2>3, <2>6, <2>7, <2>8
<1> QED  BY <1>1, <1>2

(* As many permits and queued slots as the capacity at start.               *)
LEMMA InitCounts == Init => PermitsConserved /\ SlotsConserved
<1> SUFFICES ASSUME Init PROVE PermitsConserved /\ SlotsConserved
  OBVIOUS
<1>1. /\ At(Running \cup {"lostPermit", "lostSlot"}) = {}
      /\ At(Holding \cup {"lostSlot"}) = {}
  BY DEF Init, At, Running, Holding
<1>2. Cardinality({}) = 0 /\ permits = Capacity /\ Len(available) = Capacity
  BY FS_EmptySet, QueueType DEF Init
<1>3. Cardinality(At(Running \cup {"lostPermit", "lostSlot"})) = 0
  BY <1>1, <1>2, Zenon
<1>4. Cardinality(At(Holding \cup {"lostSlot"})) = 0
  BY <1>1, <1>2, Zenon
<1> QED  BY <1>2, <1>3, <1>4, QueueType DEF PermitsConserved, SlotsConserved

(* No step of acquire, release or a disconnect changes the two sums.        *)
LEMMA NextCounts ==
  ASSUME TypeOK, NoLostWakeup, PermitsConserved, SlotsConserved, [Next]_vars
  PROVE  PermitsConserved' /\ SlotsConserved'
<1> DEFINE P == PermitKeepers
           K == SlotKeepers
           cP == Cardinality(At(P))
           cK == Cardinality(At(K))
<1>a. /\ permits + cP = Capacity
      /\ Len(available) + cK = Capacity
      /\ permits \in Nat /\ Len(available) \in Nat /\ cP \in Nat /\ cK \in Nat
  BY CountType DEF PermitsConserved, SlotsConserved, TypeOK, PermitKeepers, SlotKeepers
<1>b. SUFFICES permits' + cP' = permits + cP /\ Len(available') + cK' = Len(available) + cK
  BY <1>a DEF PermitsConserved, SlotsConserved, PermitKeepers, SlotKeepers
<1> DEFINE Goal == permits' + cP' = permits + cP /\ Len(available') + cK' = Len(available) + cK
<1>1. ASSUME NEW r \in Requests, TakePermit(r)  PROVE Goal
  <2>1. /\ pc' = [pc EXCEPT ![r] = "permitted"] /\ pc[r] = "idle"
        /\ "idle" \notin P /\ "permitted" \in P
        /\ "idle" \notin K /\ "permitted" \notin K
    BY <1>1 DEF TakePermit, PermitKeepers, SlotKeepers, Running, Holding
  <2>2. cP' = cP + 1 /\ cK' = cK
    BY <2>1, MoveCounts DEF MovesTo
  <2> HIDE DEF cP, cK
  <2> QED  BY <2>2, <1>a, <1>1 DEF TakePermit
<1>2. ASSUME NEW r \in Requests, Park(r)  PROVE Goal
  <2>1. /\ pc' = [pc EXCEPT ![r] = "waiting"] /\ pc[r] = "idle"
        /\ "idle" \notin P /\ "waiting" \notin P
        /\ "idle" \notin K /\ "waiting" \notin K
    BY <1>2 DEF Park, PermitKeepers, SlotKeepers, Running, Holding
  <2>2. cP' = cP /\ cK' = cK
    BY <2>1, MoveCounts DEF MovesTo
  <2> HIDE DEF cP, cK
  <2> QED  BY <2>2, <1>a, <1>2 DEF Park
<1>3. ASSUME NEW r \in Requests, ForgetPermit(r)  PROVE Goal
  <2>1. /\ pc' = [pc EXCEPT ![r] = "permitted"] /\ pc[r] = "granted"
        /\ "granted" \in P /\ "permitted" \in P
        /\ "granted" \notin K /\ "permitted" \notin K
    BY <1>3 DEF ForgetPermit, PermitKeepers, SlotKeepers, Running, Holding
  <2>2. cP' = cP /\ cK' = cK
    BY <2>1, MoveCounts DEF MovesTo
  <2> HIDE DEF cP, cK
  <2> QED  BY <2>2, <1>a, <1>3 DEF ForgetPermit
<1>4. ASSUME NEW r \in Requests, PopSlot(r)  PROVE Goal
  <2>1. CASE available # <<>>
    <3>0. /\ pc' = [pc EXCEPT ![r] = "popped"] /\ pc[r] = "permitted"
          /\ "permitted" \in P /\ "popped" \in P
          /\ "permitted" \notin K /\ "popped" \in K
      BY <1>4, <2>1 DEF PopSlot, PermitKeepers, SlotKeepers, Running, Holding
    <3>1. cP' = cP /\ cK' = cK + 1
      BY <3>0, MoveCounts DEF MovesTo
    <3>2. Len(available') = Len(available) - 1 /\ permits' = permits
      BY <1>4, <2>1, HeadTailProperties DEF PopSlot, TypeOK
    <3> HIDE DEF cP, cK
    <3> QED  BY <3>1, <3>2, <1>a
  <2>2. CASE available = <<>>
    <3>1. AddPermit(r, "refused") /\ pc[r] \in P \ K /\ available' = available
      BY <1>4, <2>2 DEF PopSlot, PermitKeepers, SlotKeepers, Running, Holding
    <3> QED  BY <3>1, AddPermitCounts DEF PermitKeepers, SlotKeepers, Running, Holding, Over, Dropped
  <2> QED  BY <2>1, <2>2
<1>5. ASSUME NEW r \in Requests, Activate(r)  PROVE Goal
  <2>1. /\ pc' = [pc EXCEPT ![r] = "solving"] /\ pc[r] = "popped"
        /\ "popped" \in P /\ "solving" \in P
        /\ "popped" \in K /\ "solving" \in K
    BY <1>5 DEF Activate, PermitKeepers, SlotKeepers, Running, Holding
  <2>2. cP' = cP /\ cK' = cK
    BY <2>1, MoveCounts DEF MovesTo
  <2> HIDE DEF cP, cK
  <2> QED  BY <2>2, <1>a, <1>5 DEF Activate
<1>6. ASSUME NEW r \in Requests, FinishSolve(r)  PROVE Goal
  <2>1. /\ pc' = [pc EXCEPT ![r] = "releasing"] /\ pc[r] = "solving"
        /\ "solving" \in P /\ "releasing" \in P
        /\ "solving" \in K /\ "releasing" \in K
    BY <1>6 DEF FinishSolve, PermitKeepers, SlotKeepers, Running, Holding
  <2>2. cP' = cP /\ cK' = cK
    BY <2>1, MoveCounts DEF MovesTo
  <2> HIDE DEF cP, cK
  <2> QED  BY <2>2, <1>a, <1>6 DEF FinishSolve
<1>7. ASSUME NEW r \in Requests, Unlist(r)  PROVE Goal
  <2>1. /\ pc' = [pc EXCEPT ![r] = "unlisted"] /\ pc[r] = "releasing"
        /\ "releasing" \in P /\ "unlisted" \in P
        /\ "releasing" \in K /\ "unlisted" \in K
    BY <1>7 DEF Unlist, PermitKeepers, SlotKeepers, Running, Holding
  <2>2. cP' = cP /\ cK' = cK
    BY <2>1, MoveCounts DEF MovesTo
  <2> HIDE DEF cP, cK
  <2> QED  BY <2>2, <1>a, <1>7 DEF Unlist
<1>8. ASSUME NEW r \in Requests, PushSlot(r)  PROVE Goal
  <2>1. /\ pc' = [pc EXCEPT ![r] = "pushed"] /\ pc[r] = "unlisted"
        /\ "unlisted" \in P /\ "pushed" \in P
        /\ "unlisted" \in K /\ "pushed" \notin K
    BY <1>8 DEF PushSlot, PermitKeepers, SlotKeepers, Running, Holding
  <2>2. cP' = cP /\ cK' = cK - 1
    BY <2>1, MoveCounts DEF MovesTo
  <2>3. Len(available') = Len(available) + 1 /\ permits' = permits
    BY <1>8 DEF PushSlot, TypeOK
  <2> HIDE DEF cP, cK
  <2> QED  BY <2>2, <2>3, <1>a
<1>9. ASSUME NEW r \in Requests, ReturnPermit(r)  PROVE Goal
  <2>1. /\ AddPermit(r, "done") /\ pc[r] \in P \ K /\ available' = available
    BY <1>9 DEF ReturnPermit, PermitKeepers, SlotKeepers, Running, Holding
  <2> QED  BY <2>1, AddPermitCounts DEF PermitKeepers, SlotKeepers, Running, Holding, Over, Dropped
<1>10. ASSUME NEW r \in Requests, LeaveQueue(r)  PROVE Goal
  <2>0. pc[r] = "waiting"
    BY <1>10 DEF LeaveQueue, NoLostWakeup, ToSet, At
  <2>1. /\ pc' = [pc EXCEPT ![r] = "withdrawn"] /\ pc[r] = "waiting"
        /\ "waiting" \notin P /\ "withdrawn" \notin P
        /\ "waiting" \notin K /\ "withdrawn" \notin K
    BY <1>10, <2>0 DEF LeaveQueue, PermitKeepers, SlotKeepers, Running, Holding
  <2>2. cP' = cP /\ cK' = cK
    BY <2>1, MoveCounts DEF MovesTo
  <2> HIDE DEF cP, cK
  <2> QED  BY <2>2, <1>a, <1>10 DEF LeaveQueue
<1>11. ASSUME NEW r \in Requests, LeaveGranted(r)  PROVE Goal
  <2>1. /\ AddPermit(r, "withdrawn") /\ pc[r] \in P \ K /\ available' = available
    BY <1>11 DEF LeaveGranted, PermitKeepers, SlotKeepers, Running, Holding
  <2> QED  BY <2>1, AddPermitCounts DEF PermitKeepers, SlotKeepers, Running, Holding, Over, Dropped
<1>12. ASSUME NEW r \in Requests, LosePermit(r)  PROVE Goal
  <2>1. /\ pc' = [pc EXCEPT ![r] = "lostPermit"] /\ pc[r] = "permitted"
        /\ "permitted" \in P /\ "lostPermit" \in P
        /\ "permitted" \notin K /\ "lostPermit" \notin K
    BY <1>12 DEF LosePermit, PermitKeepers, SlotKeepers, Running, Holding
  <2>2. cP' = cP /\ cK' = cK
    BY <2>1, MoveCounts DEF MovesTo
  <2> HIDE DEF cP, cK
  <2> QED  BY <2>2, <1>a, <1>12 DEF LosePermit
<1>13. ASSUME NEW r \in Requests, LoseSlot(r)  PROVE Goal
  <2>1. /\ pc' = [pc EXCEPT ![r] = "lostSlot"]
        /\ pc[r] \in P /\ "lostSlot" \in P
        /\ pc[r] \in K /\ "lostSlot" \in K
    BY <1>13 DEF LoseSlot, PermitKeepers, SlotKeepers, Running
  <2>2. cP' = cP /\ cK' = cK
    BY <2>1, MoveCounts DEF MovesTo
  <2> HIDE DEF cP, cK
  <2> QED  BY <2>2, <1>a, <1>13 DEF LoseSlot
<1>14. ASSUME NEW p \in Probes, GetCapacityStats(p)  PROVE Goal
  BY <1>14 DEF GetCapacityStats, ReadAvailable, ReadActive, At
<1>15. CASE UNCHANGED vars
  BY <1>15 DEF vars, At
<1> QED
  BY <1>1, <1>2, <1>3, <1>4, <1>5, <1>6, <1>7, <1>8, <1>9, <1>10, <1>11, <1>12,
     <1>13, <1>14, <1>15
  DEF Next, Acquire, Release, Disconnect, Finished

-----------------------------------------------------------------------------
(* active_contexts lists exactly the slots in use.                          *)

(* active_contexts starts empty.                                            *)
LEMMA InitActive == Init => ActiveIsHeld
BY DEF Init, ActiveIsHeld, At

(* A step that neither changes active_contexts nor moves a request into or  *)
(* out of the stages in which its slot is listed.                           *)
LEMMA SameActive ==
  ASSUME ActiveIsHeld, slot' = slot, active' = active,
         \A q \in Requests : \A s \in {"solving", "releasing", "lostSlot"} :
            pc'[q] = s <=> pc[q] = s
  PROVE  ActiveIsHeld'
BY DEF ActiveIsHeld, At

(* acquire and release keep active_contexts to the slots in use.            *)
LEMMA NextActive ==
  ASSUME TypeOK, NoLostWakeup, HoldersHaveSlots, SlotExclusive, ActiveIsHeld, [Next]_vars
  PROVE  ActiveIsHeld'
<1> DEFINE Listed == {"solving", "releasing", "lostSlot"}
<1>1. ASSUME NEW r \in Requests, TakePermit(r)  PROVE ActiveIsHeld'
  <2>1. /\ slot' = slot /\ active' = active
        /\ \A q \in Requests : \A s \in Listed : pc'[q] = s <=> pc[q] = s
    BY <1>1 DEF TakePermit, TypeOK
  <2> QED  BY <2>1, SameActive
<1>2. ASSUME NEW r \in Requests, Park(r)  PROVE ActiveIsHeld'
  <2>1. /\ slot' = slot /\ active' = active
        /\ \A q \in Requests : \A s \in Listed : pc'[q] = s <=> pc[q] = s
    BY <1>2 DEF Park, TypeOK
  <2> QED  BY <2>1, SameActive
<1>3. ASSUME NEW r \in Requests, ForgetPermit(r)  PROVE ActiveIsHeld'
  <2>1. /\ slot' = slot /\ active' = active
        /\ \A q \in Requests : \A s \in Listed : pc'[q] = s <=> pc[q] = s
    BY <1>3 DEF ForgetPermit, TypeOK
  <2> QED  BY <2>1, SameActive
<1>4. ASSUME NEW r \in Requests, PopSlot(r)  PROVE ActiveIsHeld'
  <2>1. CASE available # <<>>
    <3>1. /\ slot' = [slot EXCEPT ![r] = Head(available)] /\ active' = active
          /\ pc' = [pc EXCEPT ![r] = "popped"] /\ pc[r] = "permitted"
      BY <1>4, <2>1 DEF PopSlot
    <3> QED  BY <3>1 DEF ActiveIsHeld, At, TypeOK
  <2>2. CASE available = <<>>
    <3>1. /\ AddPermit(r, "refused") /\ pc[r] # "waiting" /\ pc[r] \notin Listed
          /\ slot' = slot /\ active' = active
      BY <1>4, <2>2 DEF PopSlot
    <3>2. \A q \in Requests : \A s \in Listed : pc'[q] = s <=> pc[q] = s
      BY <3>1, AddPermitEffect DEF Over, Dropped
    <3> QED  BY <3>1, <3>2, SameActive
  <2> QED  BY <2>1, <2>2
<1>5. ASSUME NEW r \in Requests, Activate(r)  PROVE ActiveIsHeld'
  BY <1>5 DEF Activate, ActiveIsHeld, At, TypeOK
<1>6. ASSUME NEW r \in Requests, FinishSolve(r)  PROVE ActiveIsHeld'
  BY <1>6 DEF FinishSolve, ActiveIsHeld, At, TypeOK
<1>7. ASSUME NEW r \in Requests, Unlist(r)  PROVE ActiveIsHeld'
  <2>1. /\ pc[r] = "releasing" /\ pc' = [pc EXCEPT ![r] = "unlisted"]
        /\ active' = active \ {slot[r]} /\ slot' = slot
    BY <1>7 DEF Unlist
  <2>2. ASSUME NEW q \in Requests, pc'[q] \in {"solving", "releasing"}
        PROVE  slot'[q] \in active'
    <3>1. q # r /\ pc[q] \in {"solving", "releasing"}
      BY <2>1, <2>2 DEF TypeOK
    <3>2. slot[q] # NoSlot /\ slot[q] \in active
      BY <3>1 DEF HoldersHaveSlots, Holding, ActiveIsHeld, At
    <3> QED  BY <2>1, <3>1, <3>2 DEF SlotExclusive
  <2>3. ASSUME NEW s \in active'
        PROVE  \E q \in Requests : pc'[q] \in Listed /\ slot'[q] = s
    <3>1. PICK q \in Requests : pc[q] \in Listed /\ slot[q] = s
      BY <2>1, <2>3 DEF ActiveIsHeld, At
    <3>2. q # r
      BY <2>1, <2>3, <3>1
    <3> QED  BY <2>1, <3>1, <3>2 DEF TypeOK
  <2> QED  BY <2>2, <2>3 DEF ActiveIsHeld, At
<1>8. ASSUME NEW r \in Requests, PushSlot(r)  PROVE ActiveIsHeld'
  BY <1>8 DEF PushSlot, ActiveIsHeld, At, TypeOK
<1>9. ASSUME NEW r \in Requests, ReturnPermit(r)  PROVE ActiveIsHeld'
  <2>1. /\ AddPermit(r, "done") /\ pc[r] # "waiting" /\ pc[r] \notin Listed
        /\ slot' = slot /\ active' = active
    BY <1>9 DEF ReturnPermit
  <2>2. \A q \in Requests : \A s \in Listed : pc'[q] = s <=> pc[q] = s
    BY <2>1, AddPermitEffect DEF Over, Dropped
  <2> QED  BY <2>1, <2>2, SameActive
<1>10. ASSUME NEW r \in Requests, LeaveQueue(r)  PROVE ActiveIsHeld'
  <2>1. pc[r] = "waiting"
    BY <1>10 DEF LeaveQueue, NoLostWakeup, ToSet, At
  <2>2. /\ slot' = slot /\ active' = active
        /\ \A q \in Requests : \A s \in Listed : pc'[q] = s <=> pc[q] = s
    BY <1>10, <2>1 DEF LeaveQueue, TypeOK
  <2> QED  BY <2>2, SameActive
<1>11. ASSUME NEW r \in Requests, LeaveGranted(r)  PROVE ActiveIsHeld'
  <2>1. /\ AddPermit(r, "withdrawn") /\ pc[r] # "waiting" /\ pc[r] \notin Listed
        /\ slot' = slot /\ active' = active
    BY <1>11 DEF LeaveGranted
  <2>2. \A q \in Requests : \A s \in Listed : pc'[q] = s <=> pc[q] = s
    BY <2>1, AddPermitEffect DEF Over, Dropped
  <2> QED  BY <2>1, <2>2, SameActive
<1>12. ASSUME NEW r \in Requests, LosePermit(r)  PROVE ActiveIsHeld'
  <2>1. /\ slot' = slot /\ active' = active
        /\ \A q \in Requests : \A s \in Listed : pc'[q] = s <=> pc[q] = s
    BY <1>12 DEF LosePermit, TypeOK
  <2> QED  BY <2>1, SameActive
<1>13. ASSUME NEW r \in Requests, LoseSlot(r)  PROVE ActiveIsHeld'
  BY <1>13 DEF LoseSlot, ActiveIsHeld, At, TypeOK, Holding
<1>14. ASSUME NEW p \in Probes, GetCapacityStats(p)  PROVE ActiveIsHeld'
  BY <1>14, SameActive DEF GetCapacityStats, ReadAvailable, ReadActive
<1>15. CASE UNCHANGED vars
  BY <1>15, SameActive DEF vars
<1> QED
  BY <1>1, <1>2, <1>3, <1>4, <1>5, <1>6, <1>7, <1>8, <1>9, <1>10, <1>11, <1>12,
     <1>13, <1>14, <1>15
  DEF Next, Acquire, Release, Disconnect, Finished

-----------------------------------------------------------------------------
(* The inductive invariant.  No property above is inductive alone: that the *)
(* counts are kept rests on the queue of the semaphore being in order (the  *)
(* request woken by add_permits is a parked one), and that active_contexts  *)
(* is exact rests on slots being exclusive (unlisting one does not unlist   *)
(* another's).                                                              *)
IInv ==
  /\ TypeOK
  /\ NoLostWakeup
  /\ HoldersHaveSlots
  /\ SlotExclusive
  /\ ActiveIsHeld
  /\ PermitsConserved
  /\ SlotsConserved

(* The invariant holds in every reachable state of the pool. *)
THEOREM Inductive == Spec => []IInv
<1>1. Init => IInv
  BY InitQueue, InitExclusive, InitActive, InitCounts DEF IInv
<1>2. IInv /\ [Next]_vars => IInv'
  BY NextQueue, NextExclusive, NextActive, NextCounts DEF IInv
<1> QED  BY <1>1, <1>2, PTL DEF Spec

(* Types, for pools of every size and any number of requests. *)
THEOREM TypeCorrect == Spec => []TypeOK
<1>1. IInv => TypeOK
  BY DEF IInv
<1> QED  BY <1>1, Inductive, PTL

(* No permit and no slot is lost or made up between acquire and release, in *)
(* any interleaving and whichever clients disconnect.                       *)
THEOREM Conservation == Spec => []CapacityConserved
<1>1. IInv => CapacityConserved
  BY DEF IInv, CapacityConserved
<1> QED  BY <1>1, Inductive, PTL

(* A slot is never handed to two requests, nor queued while it is held.     *)
THEOREM Exclusion == Spec => []SlotExclusive
<1>1. IInv => SlotExclusive
  BY DEF IInv
<1> QED  BY <1>1, Inductive, PTL

(* active_contexts lists the slots being solved on and none in the queue.   *)
THEOREM ActiveExact == Spec => []ActiveIsHeld
<1>1. IInv => ActiveIsHeld
  BY DEF IInv
<1> QED  BY <1>1, Inductive, PTL

(* No request parks beside a free permit, and none is forgotten. *)
THEOREM WakeUps == Spec => []NoLostWakeup
<1>1. IInv => NoLostWakeup
  BY DEF IInv
<1> QED  BY <1>1, Inductive, PTL

(* The two sums and the stages between a permit and its slot: every permit  *)
(* that acquire may still spend has a slot in the queue.                    *)
LEMMA Backed == IInv => PermitsBacked
<1> SUFFICES ASSUME IInv PROVE PermitsBacked
  OBVIOUS
<1> DEFINE G == At({"granted", "permitted"})
           K == At(SlotKeepers)
           P == At(PermitKeepers)
<1>1. /\ IsFiniteSet(G) /\ IsFiniteSet(K) /\ IsFiniteSet(P)
      /\ Cardinality(G) \in Nat /\ Cardinality(K) \in Nat /\ Cardinality(P) \in Nat
  BY CountType
<1>2. G \cup K \subseteq P /\ G \cap K = {}
  BY DEF At, PermitKeepers, SlotKeepers, Running, Holding
<1>3. /\ permits + Cardinality(P) = Capacity
      /\ Len(available) + Cardinality(K) = Capacity
      /\ permits \in Nat /\ Len(available) \in Nat
  BY DEF IInv, PermitsConserved, SlotsConserved, PermitKeepers, SlotKeepers, TypeOK
<1> HIDE DEF G, K, P
<1>4. Cardinality(G \cup K) = Cardinality(G) + Cardinality(K)
  <2>1. Cardinality(G \cup K) = Cardinality(G) + Cardinality(K) - Cardinality(G \cap K)
    BY <1>1, FS_Union
  <2>2. Cardinality(G \cap K) = 0
    BY <1>2, FS_EmptySet
  <2> QED  BY <1>1, <2>1, <2>2
<1>5. Cardinality(G \cup K) <= Cardinality(P)
  BY <1>1, <1>2, FS_Subset
<1>6. permits + Cardinality(G) <= Len(available)
  BY <1>1, <1>3, <1>4, <1>5, QueueType
<1> QED  BY <1>6 DEF PermitsBacked, G

(* acquire never finds the queue empty behind a permit: the None branch,    *)
(* and with it PoolError::CapacityExhausted, is out of reach.               *)
THEOREM NeverEmptyHanded == Spec => []PermitsBacked
BY Backed, Inductive, PTL

-----------------------------------------------------------------------------
(* What the pool owes to the clients that stay.                             *)

(* Only requests whose client leaves end dropped. *)
LeaversOnly == At(Dropped) \subseteq Disconnecting

LEMMA NextLeavers ==
  ASSUME TypeOK, NoLostWakeup, LeaversOnly, [Next]_vars
  PROVE  LeaversOnly'
<1> USE DEF Over, Dropped, Stages
<1> SUFFICES ASSUME NEW q \in Requests, pc'[q] \in Dropped, pc[q] \notin Dropped
             PROVE  q \in Disconnecting
  BY DEF LeaversOnly, At
<1>1. ASSUME NEW r \in Requests, NEW s \in Over, pc[r] # "waiting", AddPermit(r, s),
             s \in Dropped => r \in Disconnecting
      PROVE  q \in Disconnecting
  <2>1. pc'[r] = s /\ (q # r => pc'[q] = pc[q] \/ pc'[q] = "granted")
    BY <1>1, AddPermitEffect
  <2> QED  BY <1>1, <2>1
<1>2. ASSUME NEW r \in Requests, NEW s, pc' = [pc EXCEPT ![r] = s],
             s \in Dropped => r \in Disconnecting
      PROVE  q \in Disconnecting
  BY <1>2 DEF TypeOK
<1>3. ASSUME NEW r \in Requests, Acquire(r) \/ FinishSolve(r)
      PROVE  q \in Disconnecting
  <2>1. CASE PopSlot(r) /\ available = <<>>
    BY <1>1, <2>1 DEF PopSlot
  <2>2. CASE PopSlot(r) /\ available # <<>>
    BY <1>2, <2>2 DEF PopSlot
  <2>3. CASE TakePermit(r) \/ Park(r) \/ ForgetPermit(r) \/ Activate(r) \/ FinishSolve(r)
    BY <1>2, <2>3 DEF TakePermit, Park, ForgetPermit, Activate, FinishSolve
  <2> QED  BY <1>3, <2>1, <2>2, <2>3 DEF Acquire
<1>4. ASSUME NEW r \in Requests, Release(r)
      PROVE  q \in Disconnecting
  <2>1. CASE ReturnPermit(r)
    BY <1>1, <2>1 DEF ReturnPermit
  <2>2. CASE Unlist(r) \/ PushSlot(r)
    BY <1>2, <2>2 DEF Unlist, PushSlot
  <2> QED  BY <1>4, <2>1, <2>2 DEF Release
<1>5. ASSUME NEW r \in Requests, Disconnect(r)
      PROVE  q \in Disconnecting
  <2>1. CASE LeaveGranted(r)
    BY <1>1, <2>1 DEF LeaveGranted
  <2>2. CASE LeaveQueue(r) \/ LosePermit(r) \/ LoseSlot(r)
    BY <1>2, <2>2 DEF LeaveQueue, LosePermit, LoseSlot
  <2> QED  BY <1>5, <2>1, <2>2 DEF Disconnect
<1>6. CASE (\E p \in Probes : GetCapacityStats(p)) \/ Finished \/ UNCHANGED vars
  <2>1. pc' = pc
    BY <1>6 DEF GetCapacityStats, ReadAvailable, ReadActive, Finished, vars
  <2> QED  BY <2>1
<1> QED  BY <1>3, <1>4, <1>5, <1>6 DEF Next

LEMMA Leavers == Spec => [](IInv /\ LeaversOnly)
<1>1. Init => LeaversOnly
  BY DEF Init, LeaversOnly, At, Dropped
<1>2. IInv /\ LeaversOnly /\ [Next]_vars => LeaversOnly'
  BY NextLeavers DEF IInv
<1> QED  BY <1>1, <1>2, Inductive, PTL DEF Spec

(* Nobody parks behind slots that are all lost, unless as many clients      *)
(* leave as there are slots (pool.rs:257, 265).                             *)
THEOREM SomebodyReleases == Spec => []NoStandstill
<1>1. IInv /\ LeaversOnly => NoStandstill
  <2> SUFFICES ASSUME IInv, LeaversOnly, waiters # <<>>,
                      Cardinality(Disconnecting) < Capacity, At(Running) = {}
               PROVE  FALSE
    BY DEF NoStandstill
  <2>1. At(PermitKeepers) \subseteq Disconnecting
    BY DEF PermitKeepers, At, LeaversOnly, Dropped
  <2>2. IsFiniteSet(Disconnecting) /\ Cardinality(Disconnecting) \in Nat
    BY PoolAssumption, FS_Subset, FS_CardinalityType
  <2>3. Cardinality(At(PermitKeepers)) <= Cardinality(Disconnecting)
    BY <2>1, <2>2, FS_Subset
  <2>4. permits = 0 /\ permits + Cardinality(At(PermitKeepers)) = Capacity
    BY DEF IInv, NoLostWakeup, PermitsConserved, PermitKeepers
  <2>5. Cardinality(At(PermitKeepers)) \in Nat /\ Capacity \in Nat
    BY CountType, QueueType
  <2> QED  BY <2>2, <2>3, <2>4, <2>5
<1> QED  BY <1>1, Leavers, PTL

(* As long as every client stays, capacity does not drift                   *)
(* (tests/integration_tests.rs:122): only disconnects cost any.             *)
THEOREM NoDriftWhileClientsStay ==
  ASSUME Disconnecting = {}
  PROVE  Spec => []NoDrift
<1>1. IInv /\ LeaversOnly => NoDrift
  <2> SUFFICES ASSUME IInv, LeaversOnly, At(Over) = Requests
               PROVE  permits = Capacity /\ Len(available) = Capacity
    BY DEF NoDrift
  <2>1. At(PermitKeepers) = {} /\ At(SlotKeepers) = {}
    BY DEF PermitKeepers, SlotKeepers, At, LeaversOnly, Dropped, Over, Running, Holding
  <2>2. Cardinality(At(PermitKeepers)) = 0 /\ Cardinality(At(SlotKeepers)) = 0
    BY <2>1, FS_EmptySet, Zenon
  <2>3. /\ permits + Cardinality(At(PermitKeepers)) = Capacity
        /\ Len(available) + Cardinality(At(SlotKeepers)) = Capacity
        /\ permits \in Nat /\ Len(available) \in Nat
    BY DEF IInv, PermitsConserved, SlotsConserved, PermitKeepers, SlotKeepers, TypeOK
  <2> QED  BY <2>2, <2>3, QueueType
<1> QED  BY <1>1, Leavers, PTL

-----------------------------------------------------------------------------
(* The pool implements SlotPool.                                            *)

(* A request with a permit finds a slot, whatever the others do.            *)
LEMMA PermittedFindsSlot ==
  ASSUME IInv, NEW r \in Requests, pc[r] = "permitted"
  PROVE  available # <<>>
<1> DEFINE G == At({"granted", "permitted"})
<1>1. IsFiniteSet(G) /\ Cardinality(G) \in Nat /\ r \in G
  BY CountType DEF At
<1> HIDE DEF G
<1>2. Cardinality(G) # 0
  BY <1>1, FS_EmptySet
<1>3. permits + Cardinality(G) <= Len(available) /\ permits \in Nat
  BY Backed DEF G, PermitsBacked, IInv, TypeOK
<1> QED  BY <1>1, <1>2, <1>3

Holder == [r \in Requests |-> HeldBy(r)]
Stage == [r \in Requests |-> StageOf(r)]

(* A step that keeps the queue of slots and moves every request, at most,   *)
(* between two stages that look the same to SlotPool.                       *)
LEMMA Stutters ==
  ASSUME available' = available,
         \A q \in Requests : StageOf(q)' = StageOf(q) /\ HeldBy(q)' = HeldBy(q)
  PROVE  UNCHANGED <<QueuedSlots, Holder, Stage>>
BY DEF QueuedSlots, Holder, Stage

(* A step of the pool is a step of SlotPool or leaves its variables alone.  *)
LEMMA NextImplements ==
  ASSUME IInv, IInv', [Next]_vars
  PROVE  [Promise!Next]_(Promise!vars)
<1> DEFINE Same == UNCHANGED <<QueuedSlots, Holder, Stage>>
<1>a. Same => UNCHANGED Promise!vars
  BY DEF Promise!vars, Holder, Stage
<1>b. TypeOK
  BY DEF IInv
<1> USE DEF Holding, Dropped
<1>1. ASSUME NEW r \in Requests, TakePermit(r)  PROVE Same
  <2>1. available' = available /\ slot' = slot
    BY <1>1 DEF TakePermit
  <2>2. \A q \in Requests : StageOf(q)' = StageOf(q) /\ HeldBy(q)' = HeldBy(q)
    BY <1>1, <1>b, <2>1 DEF TakePermit, TypeOK, StageOf, HeldBy
  <2> QED  BY <2>1, <2>2, Stutters
<1>2. ASSUME NEW r \in Requests, Park(r)  PROVE Same
  <2>1. available' = available /\ slot' = slot
    BY <1>2 DEF Park
  <2>2. \A q \in Requests : StageOf(q)' = StageOf(q) /\ HeldBy(q)' = HeldBy(q)
    BY <1>2, <1>b, <2>1 DEF Park, TypeOK, StageOf, HeldBy
  <2> QED  BY <2>1, <2>2, Stutters
<1>3. ASSUME NEW r \in Requests, ForgetPermit(r)  PROVE Same
  <2>1. available' = available /\ slot' = slot
    BY <1>3 DEF ForgetPermit
  <2>2. \A q \in Requests : StageOf(q)' = StageOf(q) /\ HeldBy(q)' = HeldBy(q)
    BY <1>3, <1>b, <2>1 DEF ForgetPermit, TypeOK, StageOf, HeldBy
  <2> QED  BY <2>1, <2>2, Stutters
<1>4. ASSUME NEW r \in Requests, PopSlot(r)  PROVE Promise!Take(r, Head(available))
  <2> DEFINE h == Head(available)
  <2>1. available # <<>>
    BY <1>4, PermittedFindsSlot DEF PopSlot
  <2>2. /\ slot' = [slot EXCEPT ![r] = h]
        /\ available' = Tail(available)
        /\ pc' = [pc EXCEPT ![r] = "popped"]
        /\ pc[r] = "permitted"
    BY <1>4, <2>1 DEF PopSlot
  <2>3. h \in QueuedSlots /\ QueuedSlots' = QueuedSlots \ {h}
    BY <2>1, <2>2, TailDistinct DEF IInv, TypeOK, SlotExclusive, QueuedSlots
  <2> HIDE DEF h
  <2>4. /\ Stage[r] = "new"
        /\ Holder' = [Holder EXCEPT ![r] = h]
        /\ Stage' = [Stage EXCEPT ![r] = "holding"]
    BY <2>2, <1>b DEF Stage, Holder, StageOf, HeldBy, TypeOK
  <2> QED  BY <2>3, <2>4 DEF Promise!Take, Holder, Stage, h
<1>5. ASSUME NEW r \in Requests, Activate(r)  PROVE Same
  <2>1. available' = available /\ slot' = slot
    BY <1>5 DEF Activate
  <2>2. \A q \in Requests : StageOf(q)' = StageOf(q) /\ HeldBy(q)' = HeldBy(q)
    BY <1>5, <1>b, <2>1 DEF Activate, TypeOK, StageOf, HeldBy
  <2> QED  BY <2>1, <2>2, Stutters
<1>6. ASSUME NEW r \in Requests, FinishSolve(r)  PROVE Same
  <2>1. available' = available /\ slot' = slot
    BY <1>6 DEF FinishSolve
  <2>2. \A q \in Requests : StageOf(q)' = StageOf(q) /\ HeldBy(q)' = HeldBy(q)
    BY <1>6, <1>b, <2>1 DEF FinishSolve, TypeOK, StageOf, HeldBy
  <2> QED  BY <2>1, <2>2, Stutters
<1>7. ASSUME NEW r \in Requests, Unlist(r)  PROVE Same
  <2>1. available' = available /\ slot' = slot
    BY <1>7 DEF Unlist
  <2>2. \A q \in Requests : StageOf(q)' = StageOf(q) /\ HeldBy(q)' = HeldBy(q)
    BY <1>7, <1>b, <2>1 DEF Unlist, TypeOK, StageOf, HeldBy
  <2> QED  BY <2>1, <2>2, Stutters
<1>8. ASSUME NEW r \in Requests, PushSlot(r)  PROVE Promise!Return(r)
  <2>1. /\ available' = Append(available, slot[r])
        /\ slot' = [slot EXCEPT ![r] = NoSlot]
        /\ pc' = [pc EXCEPT ![r] = "pushed"]
        /\ pc[r] = "unlisted"
    BY <1>8 DEF PushSlot
  <2>2. slot[r] \in Slots /\ slot[r] \notin ToSet(available)
    BY <2>1 DEF IInv, HoldersHaveSlots, SlotExclusive, QueuedSlots, TypeOK
  <2>3. QueuedSlots' = QueuedSlots \cup {slot[r]}
    BY <2>1, <2>2, AppendDistinct DEF IInv, TypeOK, SlotExclusive, QueuedSlots
  <2>4. /\ Stage[r] = "holding" /\ Holder[r] = slot[r]
        /\ Holder' = [Holder EXCEPT ![r] = NoSlot]
        /\ Stage' = [Stage EXCEPT ![r] = "served"]
    BY <2>1, <1>b DEF Stage, Holder, StageOf, HeldBy, TypeOK
  <2> QED  BY <2>3, <2>4 DEF Promise!Return, Holder, Stage
<1>9. ASSUME NEW r \in Requests, ReturnPermit(r)  PROVE Same
  <2>1. /\ AddPermit(r, "done") /\ pc[r] = "pushed"
        /\ available' = available /\ slot' = slot
    BY <1>9 DEF ReturnPermit
  <2>2. /\ pc'[r] = "done"
        /\ \A q \in Requests \ {r} :
              pc'[q] = pc[q] \/ (pc[q] = "waiting" /\ pc'[q] = "granted")
    BY <2>1, AddPermitEffect DEF IInv, Over
  <2>3. \A q \in Requests : StageOf(q)' = StageOf(q) /\ HeldBy(q)' = HeldBy(q)
    BY <2>1, <2>2 DEF StageOf, HeldBy
  <2> QED  BY <2>1, <2>3, Stutters
<1>10. ASSUME NEW r \in Requests, LeaveQueue(r)  PROVE Promise!Leave(r)
  <2>1. /\ pc' = [pc EXCEPT ![r] = "withdrawn"] /\ pc[r] = "waiting"
        /\ available' = available /\ slot' = slot /\ r \in Disconnecting
    BY <1>10 DEF LeaveQueue, IInv, NoLostWakeup, ToSet, At
  <2>2. /\ Stage[r] \in {"new", "holding"}
        /\ Holder' = [Holder EXCEPT ![r] = NoSlot]
        /\ Stage' = [Stage EXCEPT ![r] = "gone"]
    BY <2>1, <1>b DEF Stage, Holder, StageOf, HeldBy, TypeOK
  <2> QED  BY <2>1, <2>2 DEF Promise!Leave, Holder, Stage, QueuedSlots
<1>11. ASSUME NEW r \in Requests, LeaveGranted(r)  PROVE Promise!Leave(r)
  <2>1. /\ AddPermit(r, "withdrawn") /\ pc[r] = "granted"
        /\ available' = available /\ slot' = slot /\ r \in Disconnecting
    BY <1>11 DEF LeaveGranted
  <2>2. /\ pc'[r] = "withdrawn"
        /\ \A q \in Requests \ {r} :
              pc'[q] = pc[q] \/ (pc[q] = "waiting" /\ pc'[q] = "granted")
    BY <2>1, AddPermitEffect DEF IInv, Over
  <2>3. \A q \in Requests \ {r} : StageOf(q)' = StageOf(q) /\ HeldBy(q)' = HeldBy(q)
    BY <2>1, <2>2 DEF StageOf, HeldBy
  <2>4. /\ StageOf(r) = "new" /\ StageOf(r)' = "gone"
        /\ HeldBy(r)' = NoSlot
    BY <2>1, <2>2 DEF StageOf, HeldBy
  <2>5. /\ Holder' = [Holder EXCEPT ![r] = NoSlot]
        /\ Stage' = [Stage EXCEPT ![r] = "gone"]
    BY <2>3, <2>4 DEF Holder, Stage
  <2>6. Stage[r] = "new"
    BY <2>4 DEF Stage
  <2> QED  BY <2>1, <2>5, <2>6 DEF Promise!Leave, Holder, Stage, QueuedSlots
<1>12. ASSUME NEW r \in Requests, LosePermit(r)  PROVE Promise!Leave(r)
  <2>1. /\ pc' = [pc EXCEPT ![r] = "lostPermit"] /\ pc[r] = "permitted"
        /\ available' = available /\ slot' = slot /\ r \in Disconnecting
    BY <1>12 DEF LosePermit
  <2>2. /\ Stage[r] \in {"new", "holding"}
        /\ Holder' = [Holder EXCEPT ![r] = NoSlot]
        /\ Stage' = [Stage EXCEPT ![r] = "gone"]
    BY <2>1, <1>b DEF Stage, Holder, StageOf, HeldBy, TypeOK
  <2> QED  BY <2>1, <2>2 DEF Promise!Leave, Holder, Stage, QueuedSlots
<1>13. ASSUME NEW r \in Requests, LoseSlot(r)  PROVE Promise!Leave(r)
  <2>1. /\ pc' = [pc EXCEPT ![r] = "lostSlot"] /\ pc[r] \in Holding
        /\ available' = available /\ slot' = slot /\ r \in Disconnecting
    BY <1>13 DEF LoseSlot
  <2>2. /\ Stage[r] \in {"new", "holding"}
        /\ Holder' = [Holder EXCEPT ![r] = NoSlot]
        /\ Stage' = [Stage EXCEPT ![r] = "gone"]
    BY <2>1, <1>b DEF Stage, Holder, StageOf, HeldBy, TypeOK
  <2> QED  BY <2>1, <2>2 DEF Promise!Leave, Holder, Stage, QueuedSlots
<1>14. ASSUME NEW p \in Probes, GetCapacityStats(p)  PROVE Same
  BY <1>14 DEF GetCapacityStats, ReadAvailable, ReadActive, QueuedSlots, Holder, Stage,
               HeldBy, StageOf
<1>15. ASSUME UNCHANGED vars  PROVE Same
  <2>1. pc' = pc /\ slot' = slot /\ available' = available
    BY <1>15 DEF vars
  <2>2. \A q \in Requests : StageOf(q)' = StageOf(q) /\ HeldBy(q)' = HeldBy(q)
    BY <2>1 DEF StageOf, HeldBy
  <2> QED  BY <2>1, <2>2, Stutters
<1>16. ASSUME NEW r \in Requests, PopSlot(r)  PROVE Head(available) \in Slots
  <2>1. available # <<>>
    BY <1>16, PermittedFindsSlot DEF PopSlot
  <2> QED  BY <2>1, <1>b DEF TypeOK
<1>17. ASSUME NEW r \in Requests,
              Acquire(r) \/ FinishSolve(r) \/ Release(r) \/ Disconnect(r)
       PROVE  Same \/ Promise!Next
  <2>1. CASE PopSlot(r)
    BY <2>1, <1>4, <1>16 DEF Promise!Next
  <2>2. CASE PushSlot(r)
    BY <2>2, <1>8 DEF Promise!Next
  <2>3. CASE LeaveQueue(r) \/ LeaveGranted(r) \/ LosePermit(r) \/ LoseSlot(r)
    BY <2>3, <1>10, <1>11, <1>12, <1>13 DEF Promise!Next
  <2> QED
    BY <2>1, <2>2, <2>3, <1>1, <1>2, <1>3, <1>5, <1>6, <1>7, <1>9, <1>17
    DEF Acquire, Release, Disconnect
<1>18. Same \/ Promise!Next
  <2> HIDE DEF Same
  <2>1. CASE Next
    BY <2>1, <1>14, <1>15, <1>17 DEF Next, Finished
  <2>2. CASE UNCHANGED vars
    BY <2>2, <1>15
  <2> QED  BY <2>1, <2>2
<1> QED  BY <1>18, <1>a

(* Every behaviour of the pool, with its semaphore, queue and map hidden,   *)
(* is one of SlotPool: requests take free slots whole, give them back or    *)
(* take them away, and are never refused.                                   *)
THEOREM Implements == Spec => Promise!Spec
<1>1. Init => Promise!Init
  <2> SUFFICES ASSUME Init PROVE Promise!Init
    OBVIOUS
  <2>1. QueuedSlots = Slots
    BY QueueType DEF Init, QueuedSlots
  <2>2. \A r \in Requests : StageOf(r) = "new" /\ HeldBy(r) = NoSlot
    BY DEF Init, StageOf, HeldBy, Holding, Dropped
  <2> QED  BY <2>1, <2>2 DEF Promise!Init
<1>2. IInv /\ IInv' /\ [Next]_vars => [Promise!Next]_(Promise!vars)
  BY NextImplements
<1> QED  BY <1>1, <1>2, Inductive, PTL DEF Spec, Promise!Spec
=============================================================================
