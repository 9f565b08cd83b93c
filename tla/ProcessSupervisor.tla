------------------------- MODULE ProcessSupervisor -------------------------
(***************************************************************************)
(* The Chrome processes behind browser::pool::BrowserPool: BrowserPool::new *)
(* starts them, the health monitor replaces the dead ones, shutdown kills   *)
(* them, and acquire, release and new_page look one up.  Three actors run   *)
(* the same two routines, BrowserProcess::spawn and BrowserProcess::kill,   *)
(* and meet at the RwLock around the vector of processes.                   *)
(*                                                                          *)
(* An instance stands for one run of Chrome with its BrowserProcess.  It is *)
(* used again once it has left no trace, so nothing bounds the number of    *)
(* crashes and restarts.                                                    *)
(***************************************************************************)
EXTENDS Integers, FiniteSets

CONSTANTS
    PoolSize,    \* config.browser_pool_size
    Instances,   \* runs of Chrome that may leave traces at the same time
    Readers,     \* calls that look a process up
    NoInstance   \* no run of Chrome

ASSUME SupervisorAssumption ==
    /\ PoolSize \in Nat \ {0}
    /\ IsFiniteSet(Instances)
    /\ Cardinality(Instances) > PoolSize
    /\ NoInstance \notin Instances

(* An index is also a port: cdp_port_base + index. *)
Indices == 0 .. PoolSize - 1

(* "new" is BrowserPool::new, the others are the tasks of those names. *)
Actors == {"new", "monitor", "shutdown"}

VARIABLES
    table,   \* processes: which instance is at each index
    chrome,  \* the Chrome process of each instance
    dir,     \* the instances whose user_data_dir exists
    child,   \* the instances whose BrowserProcess has its Child
    link,    \* the connection of each instance's BrowserProcess
    pc,      \* where each actor is
    at,      \* the index each actor is working on
    fresh,   \* the instance that spawn is starting, for new or the monitor
    dead,    \* the dead processes the monitor has found and not handled yet
    lock,    \* who holds the write lock of processes across an await
    reader   \* where each reader is

vars == <<table, chrome, dir, child, link, pc, at, fresh, dead, lock, reader>>

browser == <<chrome, dir, child, link>>

(* "spawn" before spawn;  "starting" polling DevTools and connecting;       *)
(* "cleaning" killing what failed to start;  "started" the replacement      *)
(* waits for the lock;  "ask" in kill, before its Child is taken;  "reap"   *)
(* in kill, waiting for the Child to exit.                                  *)
Spawning == {"starting", "cleaning", "started"}
Killing == {"ask", "reap"}
PCs == {"spawn", "idle", "locking", "served", "failed", "done", "skipped", "off"}
           \cup Spawning \cup Killing

TypeOK ==
    /\ table \in [Indices -> Instances \cup {NoInstance}]
    /\ chrome \in [Instances -> {"none", "up", "dead"}]
    /\ dir \subseteq Instances
    /\ child \subseteq Instances
    /\ link \in [Instances -> {"none", "open", "lost"}]
    /\ pc \in [Actors -> PCs]
    /\ at \in [Actors -> 0 .. PoolSize]
    /\ fresh \in Instances \cup {NoInstance}
    /\ dead \subseteq Indices
    /\ lock \in Actors \cup {"none"}
    /\ reader \in [Readers -> {"new", "blocked", "done"}]

Init ==
    /\ table = [i \in Indices |-> NoInstance]
    /\ chrome = [b \in Instances |-> "none"]
    /\ dir = {}
    /\ child = {}
    /\ link = [b \in Instances |-> "none"]
    /\ pc = [a \in Actors |-> IF a = "new" THEN "spawn"
                           ELSE IF a = "monitor" THEN "off" ELSE "idle"]
    /\ at = [a \in Actors |-> 0]
    /\ fresh = NoInstance
    /\ dead = {}
    /\ lock = "none"
    /\ reader = [r \in Readers |-> "new"]

Listed == {table[i] : i \in Indices} \ {NoInstance}

Victim(a) == table[at[a]]

(* shutdown has aborted the monitor: it ends at the await it is in.         *)
Aborted == pc["shutdown"] # "idle"

(* The monitor goes on with its list of dead processes, in order of index,  *)
(* or back to sleep.                                                        *)
Proceed(rest) ==
    /\ dead' = rest
    /\ IF rest = {}
       THEN pc' = [pc EXCEPT !["monitor"] = "idle"] /\ UNCHANGED at
       ELSE /\ pc' = [pc EXCEPT !["monitor"] = "spawn"]
            /\ \E i \in rest : /\ \A j \in rest : i <= j
                               /\ at' = [at EXCEPT !["monitor"] = i]

(* spawn has failed: new kills what it had started, the monitor logs it.    *)
SpawnFailed(a) ==
    \/ /\ a = "new"
       /\ pc' = [pc EXCEPT ![a] = IF at[a] = 0 THEN "failed" ELSE "ask"]
       /\ at' = [at EXCEPT ![a] = 0]
       /\ UNCHANGED dead
    \/ a = "monitor" /\ Proceed(dead \ {at[a]})

(* Instance b leaves nothing behind. *)
Erase(b) ==
    /\ chrome' = [chrome EXCEPT ![b] = "none"]
    /\ dir' = dir \ {b}
    /\ child' = child \ {b}
    /\ link' = [link EXCEPT ![b] = "none"]

-----------------------------------------------------------------------------
(* Forms of the actions below with a plausible bug; the specification uses  *)
(* none of them.  They show which property would notice the bug.            *)

(* The scan does not ask whether the process is alive. *)
ScanEverything ==
    /\ pc["monitor"] = "idle"
    /\ ~Aborted
    /\ lock = "none"
    /\ child # {}
    /\ Proceed({i \in Indices : table[i] \in child})
    /\ UNCHANGED <<table, browser, fresh, lock, reader>>

(* The old process is killed and the replacement forgotten. *)
ReapOnly ==
    /\ pc["monitor"] = "reap"
    /\ ~Aborted
    /\ Erase(Victim("monitor"))
    /\ lock' = "none"
    /\ fresh' = NoInstance
    /\ Proceed(dead \ {at["monitor"]})
    /\ UNCHANGED <<table, reader>>

(* The dead process is overwritten by its replacement, and not killed first. *)
ReplaceUnkilled ==
    /\ pc["monitor"] = "reap"
    /\ ~Aborted
    /\ table' = [table EXCEPT ![at["monitor"]] = fresh]
    /\ fresh' = NoInstance
    /\ lock' = "none"
    /\ Proceed(dead \ {at["monitor"]})
    /\ UNCHANGED <<browser, reader>>

(* Without kill_on_drop: an aborted restart leaves its Chrome running. *)
DropWithoutKill ==
    /\ Aborted
    /\ pc["monitor"] \notin {"off", "done"}
    /\ pc' = [pc EXCEPT !["monitor"] = "done"]
    /\ fresh' = NoInstance
    /\ lock' = IF lock = "monitor" THEN "none" ELSE lock
    /\ UNCHANGED <<table, browser, at, dead, reader>>

(* shutdown only asks the monitor to stop: the restart goes on. *)
ReplaceAfterAbort ==
    /\ pc["monitor"] = "reap"
    /\ Erase(Victim("monitor"))
    /\ table' = [table EXCEPT ![at["monitor"]] = fresh]
    /\ fresh' = NoInstance
    /\ lock' = "none"
    /\ Proceed(dead \ {at["monitor"]})
    /\ UNCHANGED reader

(* The lock outlives the aborted task. *)
DropKeepingLock ==
    /\ Aborted
    /\ pc["monitor"] \notin {"off", "done"}
    /\ pc' = [pc EXCEPT !["monitor"] = "done"]
    /\ fresh' = NoInstance
    /\ chrome' = [b \in Instances |-> IF b = fresh THEN "dead" ELSE chrome[b]]
    /\ link' = [b \in Instances |-> IF b = fresh THEN "none" ELSE link[b]]
    /\ child' = child \ {fresh}
    /\ UNCHANGED <<table, dir, at, dead, lock, reader>>

-----------------------------------------------------------------------------
(* BrowserProcess::spawn, for new and for the monitor                       *)

MaySpawn(a) == a \in {"new", "monitor"} /\ (a = "monitor" => ~Aborted)

(* The directory is made and the command started. *)
StartChrome(a) ==
    /\ MaySpawn(a)
    /\ pc[a] = "spawn"
    /\ \E b \in Instances :
        /\ chrome[b] = "none"
        /\ b \notin dir
        /\ fresh' = b
        /\ chrome' = [chrome EXCEPT ![b] = "up"]
        /\ dir' = dir \cup {b}
    /\ pc' = [pc EXCEPT ![a] = "starting"]
    /\ UNCHANGED <<table, child, link, at, dead, lock, reader>>

(* The directory cannot be made, or the command not be started; then the    *)
(* directory is removed at once.                                            *)
SpawnRefused(a) ==
    /\ MaySpawn(a)
    /\ pc[a] = "spawn"
    /\ SpawnFailed(a)
    /\ UNCHANGED <<table, browser, fresh, lock, reader>>

(* DevTools answers and the WebSocket is connected.  new lists the process  *)
(* and goes on to the next, or starts the monitor and returns the pool; the *)
(* monitor waits for the lock.                                              *)
ChromeAnswers(a) ==
    /\ MaySpawn(a)
    /\ pc[a] = "starting"
    /\ chrome[fresh] = "up"
    /\ child' = child \cup {fresh}
    /\ link' = [link EXCEPT ![fresh] = "open"]
    /\ \/ /\ a = "new"
          /\ table' = [table EXCEPT ![at[a]] = fresh]
          /\ fresh' = NoInstance
          /\ at' = [at EXCEPT ![a] = @ + 1]
          /\ IF at[a] + 1 = PoolSize
             THEN pc' = [pc EXCEPT ![a] = "served", !["monitor"] = "idle"]
             ELSE pc' = [pc EXCEPT ![a] = "spawn"]
       \/ /\ a = "monitor"
          /\ pc' = [pc EXCEPT ![a] = "started"]
          /\ UNCHANGED <<table, fresh, at>>
    /\ UNCHANGED <<chrome, dir, dead, lock, reader>>

(* The startup timeout passes, or the connection fails. *)
StartupFails(a) ==
    /\ MaySpawn(a)
    /\ pc[a] = "starting"
    /\ pc' = [pc EXCEPT ![a] = "cleaning"]
    /\ UNCHANGED <<table, browser, at, fresh, dead, lock, reader>>

CleanUp(a) ==
    /\ MaySpawn(a)
    /\ pc[a] = "cleaning"
    /\ Erase(fresh)
    /\ fresh' = NoInstance
    /\ SpawnFailed(a)
    /\ UNCHANGED <<table, lock, reader>>

-----------------------------------------------------------------------------
(* BrowserProcess::kill, for all three                                      *)

(* Browser.close is answered or times out, Chrome may exit on it, and the   *)
(* Child is taken.                                                          *)
AskToClose(a) ==
    /\ a = "monitor" => ~Aborted
    /\ pc[a] = "ask"
    /\ \/ UNCHANGED <<chrome, link>>
       \/ /\ link[Victim(a)] = "open"
          /\ chrome' = [chrome EXCEPT ![Victim(a)] = "dead"]
          /\ link' = [link EXCEPT ![Victim(a)] = "lost"]
    /\ child' = child \ {Victim(a)}
    /\ pc' = [pc EXCEPT ![a] = "reap"]
    /\ UNCHANGED <<table, dir, at, fresh, dead, lock, reader>>

(* The Child exits or is killed, the connection is closed and the directory *)
(* removed; the monitor then puts its replacement in place.                 *)
ReapAndReplace ==
    /\ pc["monitor"] = "reap"
    /\ ~Aborted
    /\ Erase(Victim("monitor"))
    /\ table' = [table EXCEPT ![at["monitor"]] = fresh]
    /\ fresh' = NoInstance
    /\ lock' = "none"
    /\ Proceed(dead \ {at["monitor"]})
    /\ UNCHANGED reader

(* new goes through the processes it had started, shutdown through all;     *)
(* shutdown then clears the vector and drops the lock.                      *)
ReapAndGoOn(a) ==
    /\ a \in {"new", "shutdown"}
    /\ pc[a] = "reap"
    /\ Erase(Victim(a))
    /\ table' = [table EXCEPT ![at[a]] = NoInstance]
    /\ at' = [at EXCEPT ![a] = @ + 1]
    /\ IF \E i \in Indices : i > at[a] /\ table[i] # NoInstance
       THEN pc' = [pc EXCEPT ![a] = "ask"] /\ UNCHANGED lock
       ELSE /\ pc' = [pc EXCEPT ![a] = IF a = "new" THEN "failed" ELSE "done"]
            /\ lock' = "none"
    /\ UNCHANGED <<fresh, dead, reader>>

-----------------------------------------------------------------------------
(* The health monitor                                                       *)

(* Under the write lock, with no await: the processes whose Child has       *)
(* exited.  A process without a Child is not looked at, and neither is a    *)
(* connection.                                                              *)
Scan ==
    /\ pc["monitor"] = "idle"
    /\ ~Aborted
    /\ lock = "none"
    /\ \E b \in Listed \cap child : chrome[b] = "dead"
    /\ Proceed({i \in Indices : table[i] \in child /\ chrome[table[i]] = "dead"})
    /\ UNCHANGED <<table, browser, fresh, lock, reader>>

LockForRestart ==
    /\ pc["monitor"] = "started"
    /\ ~Aborted
    /\ lock = "none"
    /\ lock' = "monitor"
    /\ pc' = [pc EXCEPT !["monitor"] = "ask"]
    /\ UNCHANGED <<table, browser, at, fresh, dead, reader>>

(* The aborted task is dropped with all it holds: the lock, and the Child   *)
(* of the replacement, which dies (kill_on_drop).  Its directory stays.     *)
MonitorDropped ==
    /\ Aborted
    /\ pc["monitor"] \notin {"off", "done"}
    /\ pc' = [pc EXCEPT !["monitor"] = "done"]
    /\ fresh' = NoInstance
    /\ chrome' = [b \in Instances |-> IF b = fresh THEN "dead" ELSE chrome[b]]
    /\ link' = [b \in Instances |-> IF b = fresh THEN "none" ELSE link[b]]
    /\ lock' = IF lock = "monitor" THEN "none" ELSE lock
    /\ child' = child \ {fresh}
    /\ UNCHANGED <<table, dir, at, dead, reader>>

-----------------------------------------------------------------------------
(* BrowserPool::shutdown *)

AbortMonitor ==
    /\ pc["new"] = "served"
    /\ pc["shutdown"] = "idle"
    /\ pc' = [pc EXCEPT !["shutdown"] = "locking"]
    /\ UNCHANGED <<table, browser, at, fresh, dead, lock, reader>>

LockForShutdown ==
    /\ pc["shutdown"] = "locking"
    /\ lock = "none"
    /\ lock' = "shutdown"
    /\ pc' = [pc EXCEPT !["shutdown"] = "ask"]
    /\ UNCHANGED <<table, browser, at, fresh, dead, reader>>

(* main returns when the listener cannot be bound: the runtime drops the    *)
(* pool and the monitor, and shutdown is not called.                        *)
BindFails ==
    /\ pc["new"] = "served"
    /\ pc["shutdown"] = "idle"
    /\ pc' = [pc EXCEPT !["monitor"] = "done", !["shutdown"] = "skipped"]
    /\ table' = [i \in Indices |-> NoInstance]
    /\ chrome' = [b \in Instances |-> IF chrome[b] = "up" THEN "dead" ELSE chrome[b]]
    /\ child' = {}
    /\ link' = [b \in Instances |-> "none"]
    /\ fresh' = NoInstance
    /\ lock' = "none"
    /\ UNCHANGED <<dir, at, dead, reader>>

-----------------------------------------------------------------------------
(* acquire (for the port) and connection_for take a read lock for a moment, *)
(* or wait for the writer that holds it.                                    *)

LookUp(r) ==
    /\ pc["new"] = "served"
    /\ reader[r] = "new"
    /\ reader' = [reader EXCEPT ![r] = IF lock = "none" THEN "done" ELSE "blocked"]
    /\ UNCHANGED <<table, browser, pc, at, fresh, dead, lock>>

LookUpAgain(r) ==
    /\ reader[r] = "blocked"
    /\ lock = "none"
    /\ reader' = [reader EXCEPT ![r] = "done"]
    /\ UNCHANGED <<table, browser, pc, at, fresh, dead, lock>>

-----------------------------------------------------------------------------
(* Chrome crashes, and its connection with it; or only the connection ends, *)
(* as on a message above the WebSocket's size limit.                        *)
Crash(b) ==
    /\ chrome[b] = "up"
    /\ chrome' = [chrome EXCEPT ![b] = "dead"]
    /\ link' = [link EXCEPT ![b] = IF @ = "open" THEN "lost" ELSE @]
    /\ UNCHANGED <<table, dir, child, pc, at, fresh, dead, lock, reader>>

LinkEnds(b) ==
    /\ link[b] = "open"
    /\ link' = [link EXCEPT ![b] = "lost"]
    /\ UNCHANGED <<table, chrome, dir, child, pc, at, fresh, dead, lock, reader>>

-----------------------------------------------------------------------------
SpawnProcess(a) ==
    \/ StartChrome(a)
    \/ SpawnRefused(a)
    \/ ChromeAnswers(a)
    \/ StartupFails(a)
    \/ CleanUp(a)

KillProcess(a) == AskToClose(a) \/ ReapAndGoOn(a)

Monitor == Scan \/ LockForRestart \/ ReapAndReplace \/ MonitorDropped

Shutdown == AbortMonitor \/ LockForShutdown

(* The program is over. *)
Stopped ==
    \/ pc["new"] = "failed"
    \/ pc["shutdown"] \in {"done", "skipped"} /\ pc["monitor"] = "done"

Finished == Stopped /\ UNCHANGED vars

Next ==
    \/ \E a \in Actors : SpawnProcess(a) \/ KillProcess(a)
    \/ Monitor
    \/ Shutdown
    \/ BindFails
    \/ \E r \in Readers : LookUp(r) \/ LookUpAgain(r)
    \/ \E b \in Instances : Crash(b) \/ LinkEnds(b)
    \/ Finished

Spec == Init /\ [][Next]_vars

(* Every await of spawn and kill has a deadline, an aborted task is dropped, *)
(* and the lock is fair.  Nobody has to call shutdown.  A Chrome that the   *)
(* monitor starts for an index over and over comes up in the end.           *)
Fairness ==
    /\ \A a \in Actors : WF_vars(SpawnProcess(a)) /\ WF_vars(KillProcess(a))
    /\ \A i \in Indices :
        /\ SF_vars(at["monitor"] = i /\ StartChrome("monitor"))
        /\ SF_vars(at["monitor"] = i /\ ChromeAnswers("monitor"))
    /\ WF_vars(Monitor)
    /\ WF_vars(LockForShutdown)
    /\ \A r \in Readers : SF_vars(LookUpAgain(r))

FairSpec == Spec /\ Fairness

-----------------------------------------------------------------------------
Serving == pc["new"] = "served" /\ ~Aborted

(* The scan skips a process without a Child (pool.rs:452): with the lock    *)
(* free, every index has a process and every process its Child, so that no  *)
(* index falls out of supervision, whatever restart fails or succeeds.      *)
NoIndexUnwatched ==
    Serving /\ lock = "none" => \A i \in Indices : table[i] \in child

(* Two runs of Chrome never share a port: the one that is replaced has      *)
(* exited before its replacement starts (pool.rs:462 reuses the port).      *)
OneChromePerPort ==
    /\ \A i, j \in Indices : i # j /\ table[i] = table[j] => table[i] = NoInstance
    /\ \A a \in {"new", "monitor"} :
        pc[a] \in Spawning /\ Victim(a) # NoInstance => chrome[Victim(a)] # "up"

(* Every running Chrome belongs to a BrowserProcess in the vector, or to    *)
(* the spawn that is starting it: none survives a failed startup, a failed  *)
(* or aborted restart, or the shutdown (pool.rs:69, pool.rs:221).           *)
NoOrphan ==
    \A b \in Instances : chrome[b] = "up" => b \in Listed \cup {fresh}

(* A startup that fails leaves no process and no directory.  *)
FailedStartIsClean ==
    pc["new"] = "failed" => dir = {} /\ \A b \in Instances : chrome[b] # "up"

(* Restarts leave no profile directory behind, however many there are and   *)
(* however they end: each belongs to a process in the vector, or to the     *)
(* spawn under way (pool.rs:84, 99-106, 191).  A shutdown may leave one,    *)
(* that of the replacement it caught the monitor with, and never a second.  *)
Stray == dir \ (Listed \cup {fresh})
RestartsLeaveNoDirectory ==
    /\ pc["monitor"] # "done" => Stray = {}
    /\ pc["shutdown"] # "skipped" => \A b, c \in Stray : b = c

(* A startup, a restart and a shutdown clean up behind themselves. *)
NothingLeftBehind == FailedStartIsClean /\ RestartsLeaveNoDirectory

(* The monitor never takes down a Chrome that runs. *)
MonitorSparesLiving ==
    pc["monitor"] \in Killing => chrome[Victim("monitor")] = "dead"

(* However old the monitor's list of dead processes is, it starts a Chrome  *)
(* beside none that runs, and kills none that runs (pool.rs:448-472).       *)
OnlyDeadReplaced == OneChromePerPort /\ MonitorSparesLiving

(* A process that has died is replaced, unless the program ends, once the   *)
(* replacements no longer crash before they are in place.                   *)
CrashRepaired ==
    <>[](pc["monitor"] # "cleaning" /\ fresh # NoInstance => chrome[fresh] = "up") =>
        \A i \in Indices :
            (Serving /\ chrome[table[i]] = "dead") ~> (~Serving \/ chrome[table[i]] = "up")

(* A call that looks up a process goes on, through restarts and shutdown.   *)
LookUpReturns == \A r \in Readers : reader[r] = "blocked" ~> reader[r] = "done"

(* shutdown ends, even in the middle of a restart, and the monitor with it. *)
ShutdownEnds == pc["shutdown"] = "locking" ~> Stopped

-----------------------------------------------------------------------------
(* The pool keeps the promise of ProcessTable: while it serves, every index *)
(* has a Chrome, which only its own end takes away (pool.rs:212-230,        *)
(* 439-470, 480-492).                                                       *)
PlaceOf(i) == IF table[i] = NoInstance THEN "empty" ELSE chrome[table[i]]

ModeOf ==
    IF Serving THEN "serving"
    ELSE IF pc["new"] \in {"spawn", "starting", "cleaning"} THEN "starting"
    ELSE "closing"

Promise == INSTANCE ProcessTable WITH
    mode <- ModeOf,
    place <- [i \in Indices |-> PlaceOf(i)]

ImplementsProcessTable == Promise!Spec

-----------------------------------------------------------------------------
(* "Shutdown all processes and clean up resources" (USAGE.md:118): after it *)
(* no profile directory is left.                                            *)
ShutdownLeavesNoDirectory ==
    Stopped /\ pc["shutdown"] = "done" => dir = {}

(* "Cleanup of dead CDP sessions" by the health monitor                     *)
(* (IMPLEMENTATION.md:278): a lost connection is replaced in the end.       *)
LostLinkRepaired ==
    \A i \in Indices :
        (Serving /\ link[table[i]] = "lost") ~> (~Serving \/ link[table[i]] = "open")
=============================================================================
