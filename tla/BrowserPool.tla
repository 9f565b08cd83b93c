----------------------------- MODULE BrowserPool -----------------------------
(***************************************************************************)
(* browser::pool::BrowserPool as the handlers of api/handlers.rs use it: a  *)
(* fair semaphore, a queue of free slots, a map of slots in use, and one    *)
(* request after another going through acquire, new_page and a solver, and  *)
(* release.  Each lock and each permit is taken by itself, so every await   *)
(* of acquire and release is a place where other requests run in between    *)
(* and where a request whose client disconnects is dropped.                 *)
(***************************************************************************)
EXTENDS Integers, Sequences, FiniteSets, SequencesExt

CONSTANTS
    PoolSize,       \* config.browser_pool_size
    TabsPerProcess, \* config.tabs_per_process
    Requests,       \* the HTTP requests of one run of the service
    Disconnecting,  \* the requests whose client may disconnect before the answer
    Probes,         \* the GET /health requests
    NoSlot          \* a request holding no slot

ASSUME PoolAssumption ==
    /\ PoolSize \in Nat \ {0}
    /\ TabsPerProcess \in Nat \ {0}
    /\ IsFiniteSet(Requests)
    /\ Disconnecting \subseteq Requests
    /\ NoSlot \notin (0 .. PoolSize - 1) \X (1 .. TabsPerProcess)

Capacity == PoolSize * TabsPerProcess

(* A slot: the process_index of a BrowserContext and which of its tabs it is *)
(* (context_id, a fresh UUID, in the code).                                  *)
Slots == (0 .. PoolSize - 1) \X (1 .. TabsPerProcess)

VARIABLES
    permits,   \* free permits of the semaphore
    waiters,   \* requests parked in semaphore.acquire(), oldest first
    available, \* available_contexts
    active,    \* the slots listed in active_contexts
    pc,        \* where each request is
    slot,      \* the slot each request holds, or held when it was dropped
    reading    \* what each probe has read so far

vars == <<permits, waiters, available, active, pc, slot, reading>>

(* "granted"   a permit was assigned to the parked request;                 *)
(* "permitted" the permit is forgotten, the slot not yet popped;            *)
(* "popped"    the slot is popped, not yet listed in active_contexts;       *)
(* "solving"   new_page and the solver;  "releasing" the CDP calls of       *)
(* release;  "unlisted" out of active_contexts, not yet queued;             *)
(* "pushed"    queued, the permit not yet added.                            *)
Holding == {"popped", "solving", "releasing", "unlisted"}
Running == {"granted", "permitted", "pushed"} \cup Holding

(* How a request ends: answered, refused with 503, or dropped with nothing, *)
(* with a permit it had forgotten, or with a slot.                          *)
Dropped == {"withdrawn", "lostPermit", "lostSlot"}
Over == {"done", "refused"} \cup Dropped

Stages == {"idle", "waiting"} \cup Running \cup Over

(* get_capacity_stats reads one map after the other, under separate locks.  *)
Readings == [stage : {"idle", "available", "done"},
             available : Nat, active : Nat]

TypeOK ==
    /\ permits \in Nat
    /\ waiters \in Seq(Requests)
    /\ available \in Seq(Slots)
    /\ active \subseteq Slots
    /\ pc \in [Requests -> Stages]
    /\ slot \in [Requests -> Slots \cup {NoSlot}]
    /\ reading \in [Probes -> Readings]

-----------------------------------------------------------------------------
(* BrowserPool::new: the slots of process 0 first, then those of process 1, *)
(* ..., and one permit per slot.                                            *)
InitialQueue ==
    [k \in 1 .. Capacity |->
        <<(k - 1) \div TabsPerProcess, ((k - 1) % TabsPerProcess) + 1>>]

Init ==
    /\ permits = Capacity
    /\ waiters = <<>>
    /\ available = InitialQueue
    /\ active = {}
    /\ pc = [r \in Requests |-> "idle"]
    /\ slot = [r \in Requests |-> NoSlot]
    /\ reading = [p \in Probes |-> [stage |-> "idle", available |-> 0, active |-> 0]]

(* Semaphore::add_permits(1) while request r moves to stage s: the oldest   *)
(* parked request is assigned the permit; only without one does it become   *)
(* free.                                                                    *)
AddPermit(r, s) ==
    \/ /\ waiters = <<>>
       /\ permits' = permits + 1
       /\ pc' = [pc EXCEPT ![r] = s]
       /\ UNCHANGED waiters
    \/ /\ waiters # <<>>
       /\ pc' = [pc EXCEPT ![r] = s, ![Head(waiters)] = "granted"]
       /\ waiters' = Tail(waiters)
       /\ UNCHANGED permits

-----------------------------------------------------------------------------
(* Forms of the actions below with a plausible bug; the specification uses  *)
(* none of them.  They show which property would notice the bug.            *)

(* The permit is dropped instead of forgotten, so it goes back by itself. *)
TakePermitAndDrop(r) ==
    /\ pc[r] = "idle"
    /\ permits > 0
    /\ pc' = [pc EXCEPT ![r] = "permitted"]
    /\ UNCHANGED <<permits, waiters, available, active, slot, reading>>

(* front() where pop_front() is meant. *)
PeekSlot(r) ==
    /\ pc[r] = "permitted"
    /\ available # <<>>
    /\ slot' = [slot EXCEPT ![r] = Head(available)]
    /\ pc' = [pc EXCEPT ![r] = "popped"]
    /\ UNCHANGED <<permits, waiters, available, active, reading>>

(* The slot goes back to the queue before it leaves active_contexts. *)
UnlistAfterPush(r) ==
    /\ pc[r] = "releasing"
    /\ available' = Append(available, slot[r])
    /\ pc' = [pc EXCEPT ![r] = "unlisted"]
    /\ UNCHANGED <<permits, waiters, active, slot, reading>>

(* The permit is counted, but no parked request is woken for it. *)
ReturnPermitQuietly(r) ==
    /\ pc[r] = "pushed"
    /\ permits' = permits + 1
    /\ pc' = [pc EXCEPT ![r] = "done"]
    /\ UNCHANGED <<waiters, available, active, slot, reading>>

(* The handler answers without release. *)
FinishUnreleased(r) ==
    /\ pc[r] = "solving"
    /\ pc' = [pc EXCEPT ![r] = "done"]
    /\ UNCHANGED <<permits, waiters, available, active, slot, reading>>

(* A Drop for BrowserContext that gives back the permit but not the slot. *)
LoseSlotKeepPermit(r) ==
    /\ r \in Disconnecting
    /\ pc[r] \in Holding
    /\ AddPermit(r, "lostSlot")
    /\ UNCHANGED <<available, active, slot, reading>>

-----------------------------------------------------------------------------
(* acquire: a free permit is taken at once and forgotten in the same poll.  *)
TakePermit(r) ==
    /\ pc[r] = "idle"
    /\ permits > 0
    /\ permits' = permits - 1
    /\ pc' = [pc EXCEPT ![r] = "permitted"]
    /\ UNCHANGED <<waiters, available, active, slot, reading>>

(* acquire with no free permit: the request parks behind the others. *)
Park(r) ==
    /\ pc[r] = "idle"
    /\ permits = 0
    /\ waiters' = Append(waiters, r)
    /\ pc' = [pc EXCEPT ![r] = "waiting"]
    /\ UNCHANGED <<permits, available, active, slot, reading>>

(* The parked request is polled again, finds its permit and forgets it. *)
ForgetPermit(r) ==
    /\ pc[r] = "granted"
    /\ pc' = [pc EXCEPT ![r] = "permitted"]
    /\ UNCHANGED <<permits, waiters, available, active, slot, reading>>

(* The front slot is taken.  With an empty queue (the None branch) the       *)
(* permit goes back and the caller answers 503.                              *)
PopSlot(r) ==
    /\ pc[r] = "permitted"
    /\ IF available # <<>>
       THEN /\ slot' = [slot EXCEPT ![r] = Head(available)]
            /\ available' = Tail(available)
            /\ pc' = [pc EXCEPT ![r] = "popped"]
            /\ UNCHANGED <<permits, waiters>>
       ELSE AddPermit(r, "refused") /\ UNCHANGED <<slot, available>>
    /\ UNCHANGED <<active, reading>>

(* The port is refreshed from the process, the slot listed as active, and   *)
(* acquire returns it.                                                      *)
Activate(r) ==
    /\ pc[r] = "popped"
    /\ active' = active \cup {slot[r]}
    /\ pc' = [pc EXCEPT ![r] = "solving"]
    /\ UNCHANGED <<permits, waiters, available, slot, reading>>

(* new_page failed, or the solver returned a token or an error: on each of  *)
(* these paths the handler calls release.                                   *)
FinishSolve(r) ==
    /\ pc[r] = "solving"
    /\ pc' = [pc EXCEPT ![r] = "releasing"]
    /\ UNCHANGED <<permits, waiters, available, active, slot, reading>>

(* release: once detachFromTarget and disposeBrowserContext have returned.  *)
Unlist(r) ==
    /\ pc[r] = "releasing"
    /\ active' = active \ {slot[r]}
    /\ pc' = [pc EXCEPT ![r] = "unlisted"]
    /\ UNCHANGED <<permits, waiters, available, slot, reading>>

PushSlot(r) ==
    /\ pc[r] = "unlisted"
    /\ available' = Append(available, slot[r])
    /\ slot' = [slot EXCEPT ![r] = NoSlot]
    /\ pc' = [pc EXCEPT ![r] = "pushed"]
    /\ UNCHANGED <<permits, waiters, active, reading>>

(* add_permits(1), and the handler answers. *)
ReturnPermit(r) ==
    /\ pc[r] = "pushed"
    /\ AddPermit(r, "done")
    /\ UNCHANGED <<available, active, slot, reading>>

-----------------------------------------------------------------------------
(* The client disconnects and axum drops the handler at one of its awaits.  *)
(* There is none between push_back and add_permits, so a "pushed" request   *)
(* always goes on.                                                          *)

(* Dropping a pending Acquire takes the request out of the semaphore's queue. *)
LeaveQueue(r) ==
    /\ r \in Disconnecting
    /\ \E i \in DOMAIN waiters :
        waiters[i] = r /\ waiters' = RemoveAt(waiters, i)
    /\ pc' = [pc EXCEPT ![r] = "withdrawn"]
    /\ UNCHANGED <<permits, available, active, slot, reading>>

(* ... and one that was already assigned a permit gives it back. *)
LeaveGranted(r) ==
    /\ r \in Disconnecting
    /\ pc[r] = "granted"
    /\ AddPermit(r, "withdrawn")
    /\ UNCHANGED <<available, active, slot, reading>>

(* After forget() nothing gives the permit back: the slot it stood for stays *)
(* in the queue, out of reach.                                               *)
LosePermit(r) ==
    /\ r \in Disconnecting
    /\ pc[r] = "permitted"
    /\ pc' = [pc EXCEPT ![r] = "lostPermit"]
    /\ UNCHANGED <<permits, waiters, available, active, slot, reading>>

(* BrowserContext has no Drop: the slot is gone, and its entry in            *)
(* active_contexts stays if it has one.                                      *)
LoseSlot(r) ==
    /\ r \in Disconnecting
    /\ pc[r] \in Holding
    /\ pc' = [pc EXCEPT ![r] = "lostSlot"]
    /\ UNCHANGED <<permits, waiters, available, active, slot, reading>>

-----------------------------------------------------------------------------
(* GET /health: available_contexts, then active_contexts. *)
ReadAvailable(p) ==
    /\ reading[p].stage = "idle"
    /\ reading' = [reading EXCEPT ![p].stage = "available",
                                  ![p].available = Len(available)]
    /\ UNCHANGED <<permits, waiters, available, active, pc, slot>>

ReadActive(p) ==
    /\ reading[p].stage = "available"
    /\ reading' = [reading EXCEPT ![p].stage = "done",
                                  ![p].active = Cardinality(active)]
    /\ UNCHANGED <<permits, waiters, available, active, pc, slot>>

-----------------------------------------------------------------------------
Acquire(r) ==
    \/ TakePermit(r)
    \/ Park(r)
    \/ ForgetPermit(r)
    \/ PopSlot(r)
    \/ Activate(r)

Release(r) ==
    \/ Unlist(r)
    \/ PushSlot(r)
    \/ ReturnPermit(r)

Disconnect(r) ==
    \/ LeaveQueue(r)
    \/ LeaveGranted(r)
    \/ LosePermit(r)
    \/ LoseSlot(r)

GetCapacityStats(p) == ReadAvailable(p) \/ ReadActive(p)

(* Every request is over and every probe answered. *)
Finished ==
    /\ \A r \in Requests : pc[r] \in Over
    /\ \A p \in Probes : reading[p].stage = "done"
    /\ UNCHANGED vars

Next ==
    \/ \E r \in Requests : Acquire(r) \/ FinishSolve(r) \/ Release(r) \/ Disconnect(r)
    \/ \E p \in Probes : GetCapacityStats(p)
    \/ Finished

Spec == Init /\ [][Next]_vars

(* The runtime polls every handler that is ready, every CDP call and every  *)
(* polling loop between acquire and release has a deadline, and the pool's  *)
(* locks are held for a moment only.  Nobody has to disconnect.             *)
Fairness ==
    \A r \in Requests :
        WF_vars(Acquire(r)) /\ WF_vars(FinishSolve(r)) /\ WF_vars(Release(r))

FairSpec == Spec /\ Fairness

-----------------------------------------------------------------------------
At(S) == {r \in Requests : pc[r] \in S}

QueuedSlots == ToSet(available)

(* Every permit is free, or on its way through one request, or was lost with *)
(* one request: acquire forgets its permit exactly once and release adds     *)
(* exactly one back, whatever happens in between (pool.rs:263-265,315).      *)
PermitsConserved ==
    permits + Cardinality(At(Running \cup {"lostPermit", "lostSlot"})) = Capacity

(* Every slot is queued, or held by one request, or was lost with one. *)
SlotsConserved ==
    Len(available) + Cardinality(At(Holding \cup {"lostSlot"})) = Capacity

(* No capacity is lost or made up but with a request that is dropped.       *)
CapacityConserved == PermitsConserved /\ SlotsConserved

(* Free permits and permits already given to acquirers never outnumber the  *)
(* queued slots, because release queues the slot before it adds the permit: *)
(* the None branch of acquire (pool.rs:267-273) is never taken.             *)
PermitsBacked ==
    permits + Cardinality(At({"granted", "permitted"})) <= Len(available)

(* No two requests hold the same slot, a held slot is not in the queue, and *)
(* no slot is queued twice: two solves never share a browser context slot.  *)
SlotExclusive ==
    /\ \A r, q \in Requests : r # q /\ slot[r] = slot[q] => slot[r] = NoSlot
    /\ \A r \in Requests : slot[r] \notin QueuedSlots
    /\ IsInjective(available)

(* active_contexts lists every slot that is being solved on, and nothing    *)
(* that is back in the queue: release unlists before it queues, so it never *)
(* removes the entry of the slot's next user (pool.rs:310-314).             *)
ActiveIsHeld ==
    /\ \A r \in At({"solving", "releasing"}) : slot[r] \in active
    /\ \A s \in active : \E r \in At({"solving", "releasing", "lostSlot"}) : slot[r] = s

(* A request parks only while no permit is free, every parked request is in *)
(* the semaphore's queue once, and nobody else is: no wake-up is lost, with *)
(* clients leaving the queue at any moment.                                 *)
NoLostWakeup ==
    /\ waiters # <<>> => permits = 0
    /\ At({"waiting"}) = ToSet(waiters)
    /\ IsInjective(waiters)

(* A request that parks waits for one that is on its way through the pool   *)
(* and will release, as long as fewer clients leave than there are slots:   *)
(* never for slots that all have been lost (pool.rs:257, 265).              *)
NoStandstill ==
    waiters # <<>> /\ Cardinality(Disconnecting) < Capacity => At(Running) # {}

(* Every request whose client stays is answered, and never with 503, as     *)
(* long as fewer clients leave with a slot than there are slots.            *)
StayersAnswered ==
    \A r \in Requests \ Disconnecting : <>(pc[r] = "done")

-----------------------------------------------------------------------------
(* Capacity does not drift: with every request over, the semaphore has all  *)
(* its permits and the queue all its slots (tests/integration_tests.rs:122, *)
(* "capacity must not drift across cycles").                                *)
NoDrift ==
    At(Over) = Requests => permits = Capacity /\ Len(available) = Capacity

(* GET /health reports the capacity of the pool as its total (USAGE.md:111). *)
TotalIsCapacity ==
    \A p \in Probes :
        reading[p].stage = "done" => reading[p].available + reading[p].active = Capacity

-----------------------------------------------------------------------------
(* The pool implements SlotPool: what a request holds there is the slot it  *)
(* has popped and not pushed back.                                          *)
StageOf(r) ==
    IF pc[r] \in Holding THEN "holding"
    ELSE IF pc[r] \in {"pushed", "done"} THEN "served"
    ELSE IF pc[r] \in Dropped THEN "gone"
    ELSE IF pc[r] = "refused" THEN "refused"
    ELSE "new"

HeldBy(r) == IF pc[r] \in Holding THEN slot[r] ELSE NoSlot

Promise == INSTANCE SlotPool WITH
    free <- QueuedSlots,
    holder <- [r \in Requests |-> HeldBy(r)],
    stage <- [r \in Requests |-> StageOf(r)]

ImplementsSlotPool == Promise!FairSpec
=============================================================================
