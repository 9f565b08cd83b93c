---------------------- MODULE ProcessSupervisorProofs ----------------------
(***************************************************************************)
(* The safety of ProcessSupervisor, for every size of the pool and every    *)
(* set of runs of Chrome.                                                   *)
(*                                                                          *)
(* None of the properties is inductive.  The invariant says how far each    *)
(* actor may be when the others are where they are (Stages, Locks), which   *)
(* indices hold a process meanwhile (Places), that every process has one    *)
(* owner (Owned) and its Child (Watched), and that what the monitor has     *)
(* found dead stays dead until it is replaced (DeadKnown).                  *)
(***************************************************************************)
EXTENDS ProcessSupervisor, TLAPS

Starting == {"spawn", "starting", "cleaning"}
Restarting == {"spawn"} \cup Spawning \cup Killing
Open == {"idle", "locking"}

Filled(i) == table[i] # NoInstance

Stages ==
    /\ pc["new"] \in {"served", "failed"} \cup Starting \cup Killing
    /\ pc["monitor"] \in {"off", "idle", "done"} \cup Restarting
    /\ pc["shutdown"] \in {"done", "skipped"} \cup Open \cup Killing
    /\ pc["new"] = "served" => pc["monitor"] # "off"
    /\ pc["new"] # "served" => pc["monitor"] = "off" /\ pc["shutdown"] = "idle"

Locks ==
    /\ lock # "new"
    /\ lock = "monitor" <=> pc["monitor"] \in Killing
    /\ lock = "shutdown" <=> pc["shutdown"] \in Killing
    /\ pc["monitor"] \in Killing => pc["shutdown"] \in Open

(* new fills the indices in order, and empties them in order if it fails;   *)
(* so does shutdown.                                                        *)
Places ==
    /\ pc["new"] \in Starting =>
        at["new"] \in Indices /\ \A i \in Indices : Filled(i) <=> i < at["new"]
    /\ pc["new"] \in Killing =>
        /\ at["new"] \in Indices /\ Filled(at["new"])
        /\ \A i \in Indices : i < at["new"] => ~Filled(i)
        /\ \A i, j \in Indices : at["new"] <= j /\ j <= i /\ Filled(i) => Filled(j)
    /\ pc["new"] = "failed" => \A i \in Indices : ~Filled(i)
    /\ pc["shutdown"] \in Open => at["shutdown"] = 0
    /\ pc["new"] = "served" /\ pc["shutdown"] \in Open => \A i \in Indices : Filled(i)
    /\ pc["shutdown"] \in Killing =>
        at["shutdown"] \in Indices /\ \A i \in Indices : Filled(i) <=> i >= at["shutdown"]
    /\ pc["shutdown"] \in {"done", "skipped"} => \A i \in Indices : ~Filled(i)

Belongs(b) == b = fresh \/ \E i \in Indices : table[i] = b

Owned ==
    /\ \A i, j \in Indices : i # j /\ table[i] = table[j] => ~Filled(i)
    /\ \A i \in Indices : Filled(i) => table[i] \in dir /\ table[i] # fresh
    /\ fresh # NoInstance => fresh \in dir
    /\ fresh # NoInstance <=>
        pc["new"] \in {"starting", "cleaning"} \/ pc["monitor"] \in Spawning \cup Killing
    /\ \A b \in Instances : chrome[b] = "up" => Belongs(b)

(* Every directory belongs to someone until the monitor ends, and at most   *)
(* one does not when it was aborted.                                        *)
Strays ==
    /\ pc["monitor"] # "done" => \A b \in dir : Belongs(b)
    /\ pc["shutdown"] # "skipped" =>
        \A b, c \in dir : Belongs(b) \/ Belongs(c) \/ b = c

Watched ==
    /\ pc["new"] \in Starting => \A i \in Indices : Filled(i) => table[i] \in child
    /\ pc["new"] = "served" /\ pc["shutdown"] = "idle" =>
        \A i \in Indices :
            table[i] \in child \/ (pc["monitor"] = "reap" /\ i = at["monitor"])
    /\ pc["monitor"] \in {"started"} \cup Killing => fresh \in child

DeadKnown ==
    pc["monitor"] \in Restarting =>
        /\ at["monitor"] \in dead
        /\ \A i \in dead : Filled(i) => chrome[table[i]] = "dead"

(* A process that belongs to someone has its Chrome, be it dead.            *)
Manned == \A b \in Instances : Belongs(b) => chrome[b] # "none"

IInv ==
    /\ TypeOK
    /\ Stages
    /\ Locks
    /\ Places
    /\ Owned
    /\ Manned
    /\ Strays
    /\ Watched
    /\ DeadKnown

-----------------------------------------------------------------------------
LEMMA InitInv == Init => IInv
<1> SUFFICES ASSUME Init PROVE IInv
  OBVIOUS
<1> USE SupervisorAssumption
    DEF Init, Indices, Actors, Starting, Restarting, Open, Spawning, Killing, Filled, Belongs
<1>1. TypeOK
  BY DEF TypeOK, PCs
<1>2. Stages /\ Locks
  BY DEF Stages, Locks
<1>3. Places
  BY DEF Places
<1>4. Owned
  BY DEF Owned
<1>5. Watched /\ DeadKnown /\ Manned /\ Strays
  BY DEF Watched, DeadKnown, Manned, Strays
<1> QED  BY <1>1, <1>2, <1>3, <1>4, <1>5 DEF IInv

(* Going on leaves the monitor asleep, or at one of the remaining indices.  *)
LEMMA ProceedEffect ==
    ASSUME TypeOK, NEW rest \in SUBSET Indices, Proceed(rest)
    PROVE  /\ dead' = rest
           /\ pc' \in [Actors -> PCs]
           /\ pc'["monitor"] \in {"idle", "spawn"}
           /\ pc'["new"] = pc["new"] /\ pc'["shutdown"] = pc["shutdown"]
           /\ at' \in [Actors -> 0 .. PoolSize]
           /\ at'["new"] = at["new"] /\ at'["shutdown"] = at["shutdown"]
           /\ pc'["monitor"] = "spawn" => at'["monitor"] \in rest
<1> USE SupervisorAssumption DEF Proceed, TypeOK, PCs, Actors, Indices
<1>1. CASE rest = {}
  BY <1>1
<1>2. CASE rest # {}
  <2>1. PICK i \in rest : at' = [at EXCEPT !["monitor"] = i]
    BY <1>2
  <2> QED  BY <1>2, <2>1
<1> QED  BY <1>1, <1>2

LEMMA StartChromeInv ==
    ASSUME IInv, NEW a \in Actors, StartChrome(a)
    PROVE  IInv'
<1> USE SupervisorAssumption
    DEF IInv, Actors, Starting, Restarting, Open, Spawning, Killing, Filled, Aborted, MaySpawn
<1>1. a \in {"new", "monitor"} /\ pc[a] = "spawn" /\ fresh = NoInstance
  BY DEF StartChrome, Owned, Stages
<1>2. PICK b \in Instances :
        /\ chrome[b] = "none" /\ b \notin dir /\ fresh' = b
        /\ chrome' = [chrome EXCEPT ![b] = "up"] /\ dir' = dir \cup {b}
        /\ pc' = [pc EXCEPT ![a] = "starting"]
        /\ UNCHANGED <<table, child, link, at, dead, lock, reader>>
  BY DEF StartChrome
<1>3. TypeOK'
  BY <1>1, <1>2 DEF TypeOK, PCs
<1>4. Stages' /\ Locks'
  BY <1>1, <1>2 DEF TypeOK, Stages, Locks
<1>5. Places'
  BY <1>1, <1>2 DEF TypeOK, Places, Stages
<1>6. Owned' /\ Manned' /\ Strays'
  BY <1>1, <1>2 DEF TypeOK, Owned, Manned, Strays, Stages, Belongs
<1>7. Watched'
  BY <1>1, <1>2 DEF TypeOK, Watched, Stages
<1>8. DeadKnown'
  BY <1>1, <1>2 DEF TypeOK, DeadKnown, Stages, Owned
<1> QED  BY <1>3, <1>4, <1>5, <1>6, <1>7, <1>8

LEMMA SpawnRefusedInv ==
    ASSUME IInv, NEW a \in Actors, SpawnRefused(a)
    PROVE  IInv'
<1> USE SupervisorAssumption
    DEF IInv, Actors, Starting, Restarting, Open, Spawning, Killing, Filled, Aborted, MaySpawn
<1>1. /\ pc[a] = "spawn" /\ SpawnFailed(a) /\ fresh = NoInstance
      /\ UNCHANGED <<table, chrome, dir, child, link, fresh, lock, reader>>
  BY DEF SpawnRefused, Owned, Stages, browser
<1>2. CASE a = "new"
  <2>1. /\ pc' = [pc EXCEPT !["new"] = IF at["new"] = 0 THEN "failed" ELSE "ask"]
        /\ at' = [at EXCEPT !["new"] = 0]
        /\ dead' = dead
    BY <1>1, <1>2 DEF SpawnFailed
  <2>2. TypeOK'
    BY <1>1, <2>1 DEF TypeOK, PCs
  <2>3. Stages' /\ Locks'
    BY <1>1, <1>2, <2>1 DEF TypeOK, Stages, Locks
  <2>4. Places'
    BY <1>1, <1>2, <2>1 DEF TypeOK, Places, Stages, Indices
  <2>5. Owned' /\ Manned' /\ Strays'
    BY <1>1, <1>2, <2>1 DEF TypeOK, Owned, Manned, Strays, Stages, Belongs
  <2>6. Watched' /\ DeadKnown'
    BY <1>1, <1>2, <2>1 DEF TypeOK, Watched, DeadKnown, Stages
  <2> QED  BY <2>2, <2>3, <2>4, <2>5, <2>6
<1>3. CASE a = "monitor"
  <2>1. Proceed(dead \ {at["monitor"]}) /\ dead \ {at["monitor"]} \in SUBSET Indices
    BY <1>1, <1>3 DEF SpawnFailed, TypeOK
  <2>2. /\ dead' = dead \ {at["monitor"]}
        /\ pc' \in [Actors -> PCs]
        /\ pc'["monitor"] \in {"idle", "spawn"}
        /\ pc'["new"] = pc["new"] /\ pc'["shutdown"] = pc["shutdown"]
        /\ at' \in [Actors -> 0 .. PoolSize]
        /\ at'["new"] = at["new"] /\ at'["shutdown"] = at["shutdown"]
        /\ pc'["monitor"] = "spawn" => at'["monitor"] \in dead \ {at["monitor"]}
    BY <2>1, ProceedEffect
  <2>3. TypeOK'
    BY <1>1, <2>2 DEF TypeOK
  <2>4. Stages' /\ Locks'
    BY <1>1, <1>3, <2>2 DEF TypeOK, Stages, Locks
  <2>5. Places'
    BY <1>1, <1>3, <2>2 DEF Places, Stages
  <2>6. Owned' /\ Manned' /\ Strays'
    BY <1>1, <1>3, <2>2 DEF Owned, Manned, Strays, Stages, Belongs
  <2>7. Watched' /\ DeadKnown'
    BY <1>1, <1>3, <2>2 DEF Watched, DeadKnown, Stages
  <2> QED  BY <2>3, <2>4, <2>5, <2>6, <2>7
<1> QED  BY <1>2, <1>3 DEF SpawnRefused

LEMMA ChromeAnswersInv ==
    ASSUME IInv, NEW a \in Actors, ChromeAnswers(a)
    PROVE  IInv'
<1> USE SupervisorAssumption
    DEF IInv, Actors, Starting, Restarting, Open, Spawning, Killing, Filled, Aborted, MaySpawn
<1>1. /\ pc[a] = "starting" /\ fresh \in Instances /\ fresh # NoInstance
      /\ chrome[fresh] = "up"
      /\ child' = child \cup {fresh}
      /\ link' = [link EXCEPT ![fresh] = "open"]
      /\ UNCHANGED <<chrome, dir, dead, lock, reader>>
  BY DEF ChromeAnswers, TypeOK, Owned, Stages
<1>2. CASE a = "new"
  <2>1. /\ pc["new"] = "starting" /\ at["new"] \in Indices
        /\ table' = [table EXCEPT ![at["new"]] = fresh]
        /\ fresh' = NoInstance
        /\ at' = [at EXCEPT !["new"] = @ + 1]
        /\ IF at["new"] + 1 = PoolSize
           THEN pc' = [pc EXCEPT !["new"] = "served", !["monitor"] = "idle"]
           ELSE pc' = [pc EXCEPT !["new"] = "spawn"]
    BY <1>1, <1>2 DEF ChromeAnswers, Places
  <2>2. TypeOK'
    BY <1>1, <2>1 DEF TypeOK, PCs, Indices
  <2>3. Stages' /\ Locks'
    BY <1>1, <2>1 DEF TypeOK, Stages, Locks
  <2>4. Places'
    BY <1>1, <2>1 DEF TypeOK, Places, Stages, Indices
  <2>5. Owned'
    <3>1. \A i, j \in Indices : i # j /\ table'[i] = table'[j] => table'[i] = NoInstance
      BY <1>1, <2>1 DEF TypeOK, Owned
    <3>2. \A i \in Indices : Filled(i)' => table'[i] \in dir' /\ table'[i] # fresh'
      BY <1>1, <2>1 DEF TypeOK, Owned
    <3>3. \A b \in Instances : Belongs(b) => Belongs(b)'
      BY <1>1, <2>1 DEF TypeOK, Belongs, Places
    <3> QED  BY <1>1, <2>1, <3>1, <3>2, <3>3 DEF TypeOK, Owned, Stages
  <2>6. Watched' /\ DeadKnown'
    BY <1>1, <2>1 DEF TypeOK, Watched, DeadKnown, Stages, Places, Indices
  <2>7. Manned'
    BY <1>1, <2>1 DEF TypeOK, Manned, Belongs
  <2>8. Strays'
    <3>1. \A b \in Instances : Belongs(b) => Belongs(b)'
      BY <1>1, <2>1 DEF TypeOK, Belongs, Places
    <3>2. dir \subseteq Instances /\ dir' = dir /\ pc["monitor"] # "done"
      BY <1>1, <2>1 DEF TypeOK, Stages
    <3> QED  BY <3>1, <3>2 DEF Strays
  <2> QED  BY <2>2, <2>3, <2>4, <2>5, <2>6, <2>7, <2>8
<1>3. CASE a = "monitor"
  <2>1. pc["monitor"] = "starting" /\ pc' = [pc EXCEPT !["monitor"] = "started"]
        /\ UNCHANGED <<table, fresh, at>>
    BY <1>1, <1>3 DEF ChromeAnswers
  <2>2. TypeOK'
    BY <1>1, <2>1 DEF TypeOK, PCs
  <2>3. Stages' /\ Locks'
    BY <1>1, <2>1 DEF TypeOK, Stages, Locks
  <2>4. Places'
    BY <1>1, <2>1 DEF TypeOK, Places, Stages
  <2>5. Owned' /\ Manned' /\ Strays'
    BY <1>1, <2>1 DEF TypeOK, Owned, Manned, Strays, Stages, Belongs
  <2>6. Watched' /\ DeadKnown'
    BY <1>1, <2>1 DEF TypeOK, Watched, DeadKnown, Stages
  <2> QED  BY <2>2, <2>3, <2>4, <2>5, <2>6
<1> QED  BY <1>2, <1>3 DEF ChromeAnswers

LEMMA StartupFailsInv ==
    ASSUME IInv, NEW a \in Actors, StartupFails(a)
    PROVE  IInv'
<1> USE SupervisorAssumption
    DEF IInv, Actors, Starting, Restarting, Open, Spawning, Killing, Filled, Aborted, MaySpawn
<1>1. /\ a \in {"new", "monitor"} /\ pc[a] = "starting"
      /\ pc' = [pc EXCEPT ![a] = "cleaning"]
      /\ UNCHANGED <<table, chrome, dir, child, link, at, fresh, dead, lock, reader>>
  BY DEF StartupFails, browser
<1>2. TypeOK'
  BY <1>1 DEF TypeOK, PCs
<1>3. Stages' /\ Locks'
  BY <1>1 DEF TypeOK, Stages, Locks
<1>4. Places'
  BY <1>1 DEF TypeOK, Places, Stages
<1>5. Owned' /\ Manned' /\ Strays'
  BY <1>1 DEF TypeOK, Owned, Manned, Strays, Stages, Belongs
<1>6. Watched' /\ DeadKnown'
  BY <1>1 DEF TypeOK, Watched, DeadKnown, Stages
<1> QED  BY <1>2, <1>3, <1>4, <1>5, <1>6

LEMMA CleanUpInv ==
    ASSUME IInv, NEW a \in Actors, CleanUp(a)
    PROVE  IInv'
<1> USE SupervisorAssumption
    DEF IInv, Actors, Starting, Restarting, Open, Spawning, Killing, Filled, Aborted, MaySpawn
<1>1. /\ pc[a] = "cleaning" /\ SpawnFailed(a)
      /\ fresh \in Instances /\ fresh # NoInstance
      /\ chrome' = [chrome EXCEPT ![fresh] = "none"]
      /\ dir' = dir \ {fresh} /\ child' = child \ {fresh}
      /\ link' = [link EXCEPT ![fresh] = "none"]
      /\ fresh' = NoInstance
      /\ UNCHANGED <<table, lock, reader>>
  BY DEF CleanUp, Erase, TypeOK, Owned, Stages
<1>2. \A i \in Indices : table[i] # fresh
  BY <1>1 DEF Owned
<1>3. CASE a = "new"
  <2>1. /\ pc["new"] = "cleaning"
        /\ pc' = [pc EXCEPT !["new"] = IF at["new"] = 0 THEN "failed" ELSE "ask"]
        /\ at' = [at EXCEPT !["new"] = 0]
        /\ dead' = dead
    BY <1>1, <1>3 DEF SpawnFailed
  <2>2. TypeOK'
    BY <1>1, <2>1 DEF TypeOK, PCs
  <2>3. Stages' /\ Locks'
    BY <1>1, <2>1 DEF TypeOK, Stages, Locks
  <2>4. Places'
    BY <1>1, <2>1 DEF TypeOK, Places, Stages, Indices
  <2>5. Owned' /\ Manned' /\ Strays'
    BY <1>1, <1>2, <2>1 DEF TypeOK, Owned, Manned, Strays, Stages, Belongs
  <2>6. Watched' /\ DeadKnown'
    BY <1>1, <1>2, <2>1 DEF TypeOK, Watched, DeadKnown, Stages
  <2> QED  BY <2>2, <2>3, <2>4, <2>5, <2>6
<1>4. CASE a = "monitor"
  <2>1. Proceed(dead \ {at["monitor"]}) /\ dead \ {at["monitor"]} \in SUBSET Indices
    BY <1>1, <1>4 DEF SpawnFailed, TypeOK
  <2>2. /\ dead' = dead \ {at["monitor"]}
        /\ pc' \in [Actors -> PCs]
        /\ pc'["monitor"] \in {"idle", "spawn"}
        /\ pc'["new"] = pc["new"] /\ pc'["shutdown"] = pc["shutdown"]
        /\ at' \in [Actors -> 0 .. PoolSize]
        /\ at'["new"] = at["new"] /\ at'["shutdown"] = at["shutdown"]
        /\ pc'["monitor"] = "spawn" => at'["monitor"] \in dead \ {at["monitor"]}
    BY <2>1, ProceedEffect
  <2>3. TypeOK'
    BY <1>1, <2>2 DEF TypeOK
  <2>4. Stages' /\ Locks'
    BY <1>1, <1>4, <2>2 DEF TypeOK, Stages, Locks
  <2>5. Places'
    BY <1>1, <1>4, <2>2 DEF Places, Stages
  <2>6. Owned' /\ Manned' /\ Strays'
    BY <1>1, <1>2, <1>4, <2>2 DEF TypeOK, Owned, Manned, Strays, Stages, Belongs
  <2>7. Watched' /\ DeadKnown'
    BY <1>1, <1>2, <1>4, <2>2 DEF TypeOK, Watched, DeadKnown, Stages
  <2> QED  BY <2>3, <2>4, <2>5, <2>6, <2>7
<1> QED  BY <1>3, <1>4 DEF CleanUp

LEMMA AskToCloseInv ==
    ASSUME IInv, NEW a \in Actors, AskToClose(a)
    PROVE  IInv'
<1> USE SupervisorAssumption
    DEF IInv, Actors, Starting, Restarting, Open, Spawning, Killing, Filled, Aborted
<1>1. /\ pc[a] = "ask" /\ (a = "monitor" => pc["shutdown"] = "idle")
      /\ child' = child \ {Victim(a)}
      /\ pc' = [pc EXCEPT ![a] = "reap"]
      /\ UNCHANGED <<table, dir, at, fresh, dead, lock, reader>>
  BY DEF AskToClose
<1>2. at[a] \in Indices /\ Filled(at[a]) /\ Victim(a) \in Instances
  BY <1>1 DEF TypeOK, Places, DeadKnown, Victim, Stages, Locks
<1>3. /\ chrome' \in [Instances -> {"none", "up", "dead"}]
      /\ link' \in [Instances -> {"none", "open", "lost"}]
      /\ \A b \in Instances : chrome'[b] = chrome[b] \/ chrome'[b] = "dead"
  BY <1>2 DEF AskToClose, TypeOK
<1>4. TypeOK'
  BY <1>1, <1>3 DEF TypeOK, PCs
<1>5. Stages' /\ Locks'
  BY <1>1 DEF TypeOK, Stages, Locks
<1>6. Places'
  BY <1>1 DEF TypeOK, Places, Stages
<1>7. Owned' /\ Manned' /\ Strays'
  BY <1>1, <1>3 DEF TypeOK, Owned, Manned, Strays, Stages, Belongs
<1>8. Watched'
  <2>1. \A i \in Indices : table[i] = Victim(a) => i = at[a]
    BY <1>2 DEF Owned, Victim
  <2>2. fresh # Victim(a)
    BY <1>2 DEF Owned, Victim
  <2> QED  BY <1>1, <2>1, <2>2 DEF TypeOK, Watched, Stages, Locks
<1>9. DeadKnown'
  BY <1>1, <1>3 DEF TypeOK, DeadKnown, Stages
<1> QED  BY <1>4, <1>5, <1>6, <1>7, <1>8, <1>9

LEMMA ReapAndReplaceInv ==
    ASSUME IInv, ReapAndReplace
    PROVE  IInv'
<1> USE SupervisorAssumption
    DEF IInv, Actors, Starting, Restarting, Open, Spawning, Killing, Filled, Aborted
<1> DEFINE i == at["monitor"]
           v == Victim("monitor")
<1>1. /\ pc["monitor"] = "reap" /\ pc["shutdown"] = "idle" /\ pc["new"] = "served"
      /\ i \in dead /\ i \in Indices /\ Filled(i)
      /\ v = table[i] /\ v \in Instances
      /\ fresh \in Instances /\ fresh # NoInstance /\ fresh # v
  BY DEF ReapAndReplace, TypeOK, Stages, Locks, Places, Owned, DeadKnown, Victim
<1>2. /\ chrome' = [chrome EXCEPT ![v] = "none"]
      /\ dir' = dir \ {v} /\ child' = child \ {v}
      /\ link' = [link EXCEPT ![v] = "none"]
      /\ table' = [table EXCEPT ![i] = fresh]
      /\ fresh' = NoInstance /\ lock' = "none" /\ reader' = reader
      /\ Proceed(dead \ {i}) /\ dead \ {i} \in SUBSET Indices
  BY DEF ReapAndReplace, Erase, TypeOK
<1>3. /\ dead' = dead \ {i}
      /\ pc' \in [Actors -> PCs]
      /\ pc'["monitor"] \in {"idle", "spawn"}
      /\ pc'["new"] = pc["new"] /\ pc'["shutdown"] = pc["shutdown"]
      /\ at' \in [Actors -> 0 .. PoolSize]
      /\ at'["new"] = at["new"] /\ at'["shutdown"] = at["shutdown"]
      /\ pc'["monitor"] = "spawn" => at'["monitor"] \in dead \ {i}
  BY <1>2, ProceedEffect
<1>4. \A j \in Indices : table[j] # fresh /\ (j # i => table[j] # v)
  BY <1>1 DEF Owned
<1> HIDE DEF i, v
<1>5. TypeOK'
  BY <1>1, <1>2, <1>3 DEF TypeOK
<1>6. Stages' /\ Locks'
  BY <1>1, <1>2, <1>3 DEF TypeOK, Stages, Locks
<1>7. Places'
  BY <1>1, <1>2, <1>3 DEF TypeOK, Places, Stages
<1>8. Owned'
  <2>1. \A j \in Indices : table'[j] = IF j = i THEN fresh ELSE table[j]
    BY <1>1, <1>2 DEF TypeOK
  <2>2. \A j, k \in Indices : j # k /\ table'[j] = table'[k] => table'[j] = NoInstance
    BY <1>1, <1>4, <2>1 DEF Owned
  <2>3. \A j \in Indices : Filled(j)' => table'[j] \in dir' /\ table'[j] # fresh'
    BY <1>1, <1>2, <1>4, <2>1 DEF Owned
  <2>4. \A b \in Instances : chrome'[b] = "up" => Belongs(b)'
    BY <1>1, <1>2, <1>4, <2>1 DEF TypeOK, Owned, Belongs
  <2> QED  BY <1>1, <1>2, <1>3, <2>2, <2>3, <2>4 DEF Owned
<1>9. Watched'
  <2>1. fresh \in child /\ \A j \in Indices : j # i => table[j] \in child
    BY <1>1 DEF Watched, i
  <2>2. \A j \in Indices : table'[j] \in child'
    BY <1>1, <1>2, <1>4, <2>1 DEF TypeOK
  <2> QED  BY <1>1, <1>3, <2>2 DEF Watched
<1>10. DeadKnown'
  BY <1>1, <1>2, <1>3, <1>4 DEF TypeOK, DeadKnown
<1>11. Manned'
  <2>1. \A b \in Instances : Belongs(b)' => Belongs(b) /\ b # v
    BY <1>1, <1>2, <1>4 DEF TypeOK, Belongs
  <2> QED  BY <1>1, <1>2, <2>1 DEF TypeOK, Manned
<1>12. Strays'
  <2>1. dir \subseteq Instances /\ \A b \in dir : Belongs(b)
    BY <1>1 DEF TypeOK, Strays, Stages
  <2>2. \A b \in Instances : Belongs(b) /\ b # v => Belongs(b)'
    BY <1>1, <1>2 DEF TypeOK, Belongs
  <2> QED  BY <1>2, <2>1, <2>2 DEF Strays
<1> QED  BY <1>5, <1>6, <1>7, <1>8, <1>9, <1>10, <1>11, <1>12

LEMMA ReapAndGoOnInv ==
    ASSUME IInv, NEW a \in Actors, ReapAndGoOn(a)
    PROVE  IInv'
<1> USE SupervisorAssumption
    DEF IInv, Actors, Starting, Restarting, Open, Spawning, Killing, Filled
<1> DEFINE i == at[a]
           v == Victim(a)
           more == \E j \in Indices : j > i /\ Filled(j)
<1>1. /\ a \in {"new", "shutdown"} /\ pc[a] = "reap"
      /\ i \in Indices /\ Filled(i)
      /\ v = table[i] /\ v \in Instances
  BY DEF ReapAndGoOn, TypeOK, Places, Victim, Stages
<1>2. /\ chrome' = [chrome EXCEPT ![v] = "none"]
      /\ dir' = dir \ {v} /\ child' = child \ {v}
      /\ link' = [link EXCEPT ![v] = "none"]
      /\ table' = [table EXCEPT ![i] = NoInstance]
      /\ at' = [at EXCEPT ![a] = @ + 1]
      /\ UNCHANGED <<fresh, dead, reader>>
  BY DEF ReapAndGoOn, Erase
<1>3. /\ more => pc' = [pc EXCEPT ![a] = "ask"] /\ lock' = lock
      /\ ~more => /\ pc' = [pc EXCEPT ![a] = IF a = "new" THEN "failed" ELSE "done"]
                  /\ lock' = "none"
  BY DEF ReapAndGoOn
<1>4. \A j \in Indices : j # i => table[j] # v
  BY <1>1 DEF Owned
<1>5. \A j \in Indices : table'[j] = IF j = i THEN NoInstance ELSE table[j]
  BY <1>1, <1>2 DEF TypeOK
<1>6. TypeOK'
  BY <1>1, <1>2, <1>3 DEF TypeOK, PCs, Indices
<1>7. Stages' /\ Locks'
  BY <1>1, <1>3 DEF TypeOK, Stages, Locks
<1>8. Places'
  BY <1>1, <1>2, <1>3, <1>5 DEF TypeOK, Places, Stages, Indices
<1>9. Owned'
  <2>1. \A b \in Instances : Belongs(b) /\ b # v => Belongs(b)'
    BY <1>1, <1>2, <1>5 DEF Belongs
  <2>2. \A j, k \in Indices : j # k /\ table'[j] = table'[k] => table'[j] = NoInstance
    BY <1>5 DEF Owned
  <2>3. \A j \in Indices : Filled(j)' => table'[j] \in dir' /\ table'[j] # fresh'
    BY <1>2, <1>4, <1>5 DEF Owned
  <2>4. fresh' # NoInstance => fresh' \in dir'
    BY <1>1, <1>2 DEF Owned
  <2>5. fresh' # NoInstance <=> pc'["new"] \in {"starting", "cleaning"}
                                 \/ pc'["monitor"] \in Spawning \cup Killing
    BY <1>1, <1>2, <1>3 DEF TypeOK, Owned
  <2>6. \A b \in Instances : chrome'[b] = "up" => Belongs(b)'
    BY <1>1, <1>2, <2>1 DEF TypeOK, Owned
  <2> QED  BY <2>2, <2>3, <2>4, <2>5, <2>6 DEF Owned
<1>10. Watched'
  <2>1. fresh # v
    BY <1>1 DEF Owned
  <2> QED  BY <1>1, <1>2, <1>3, <1>5, <2>1 DEF TypeOK, Watched, Stages
<1>11. DeadKnown'
  BY <1>1, <1>2, <1>3, <1>4, <1>5 DEF TypeOK, DeadKnown, Stages
<1>12. Manned'
  <2>1. fresh # v
    BY <1>1 DEF Owned
  <2>2. \A b \in Instances : Belongs(b)' => Belongs(b) /\ b # v
    BY <1>1, <1>2, <1>4, <1>5, <2>1 DEF Belongs
  <2> QED  BY <1>1, <1>2, <2>2 DEF TypeOK, Manned
<1>13. Strays'
  <2>1. \A b \in Instances : Belongs(b) /\ b # v => Belongs(b)'
    BY <1>1, <1>2, <1>5 DEF Belongs
  <2>2. dir \subseteq Instances /\ pc'["monitor"] = pc["monitor"]
    BY <1>1, <1>3 DEF TypeOK
  <2>3. pc["shutdown"] # "skipped"
    BY <1>1 DEF Stages
  <2> QED  BY <1>2, <2>1, <2>2, <2>3 DEF Strays
<1> QED  BY <1>6, <1>7, <1>8, <1>9, <1>10, <1>11, <1>12, <1>13

LEMMA ScanInv == IInv /\ Scan => IInv'
<1> SUFFICES ASSUME IInv, Scan PROVE IInv'
  OBVIOUS
<1> USE SupervisorAssumption
    DEF IInv, Actors, Starting, Restarting, Open, Spawning, Killing, Filled, Aborted
<1> DEFINE found == {i \in Indices : table[i] \in child /\ chrome[table[i]] = "dead"}
<1>1. /\ pc["monitor"] = "idle" /\ pc["shutdown"] = "idle"
      /\ Proceed(found) /\ found \in SUBSET Indices
      /\ UNCHANGED <<table, chrome, dir, child, link, fresh, lock, reader>>
  BY DEF Scan, browser
<1>2. /\ dead' = found
      /\ pc' \in [Actors -> PCs]
      /\ pc'["monitor"] \in {"idle", "spawn"}
      /\ pc'["new"] = pc["new"] /\ pc'["shutdown"] = pc["shutdown"]
      /\ at' \in [Actors -> 0 .. PoolSize]
      /\ at'["new"] = at["new"] /\ at'["shutdown"] = at["shutdown"]
      /\ pc'["monitor"] = "spawn" => at'["monitor"] \in found
  BY <1>1, ProceedEffect
<1>3. TypeOK'
  BY <1>1, <1>2 DEF TypeOK
<1>4. Stages' /\ Locks'
  BY <1>1, <1>2 DEF TypeOK, Stages, Locks
<1>5. Places'
  BY <1>1, <1>2 DEF Places, Stages
<1>6. Owned' /\ Manned' /\ Strays'
  BY <1>1, <1>2 DEF Owned, Manned, Strays, Stages, Belongs
<1>7. Watched' /\ DeadKnown'
  BY <1>1, <1>2 DEF Watched, DeadKnown, Stages
<1> QED  BY <1>3, <1>4, <1>5, <1>6, <1>7

LEMMA LockForRestartInv == IInv /\ LockForRestart => IInv'
<1> SUFFICES ASSUME IInv, LockForRestart PROVE IInv'
  OBVIOUS
<1> USE SupervisorAssumption
    DEF IInv, Actors, Starting, Restarting, Open, Spawning, Killing, Filled, Aborted,
        LockForRestart, browser
<1>1. TypeOK'
  BY DEF TypeOK, PCs
<1>2. Stages' /\ Locks'
  BY DEF TypeOK, Stages, Locks
<1>3. Places'
  BY DEF TypeOK, Places, Stages
<1>4. Owned' /\ Manned' /\ Strays'
  BY DEF TypeOK, Owned, Manned, Strays, Stages, Belongs
<1>5. Watched' /\ DeadKnown'
  BY DEF TypeOK, Watched, DeadKnown, Stages
<1> QED  BY <1>1, <1>2, <1>3, <1>4, <1>5

LEMMA MonitorDroppedInv == IInv /\ MonitorDropped => IInv'
<1> SUFFICES ASSUME IInv, MonitorDropped PROVE IInv'
  OBVIOUS
<1> USE SupervisorAssumption
    DEF IInv, Actors, Starting, Restarting, Open, Spawning, Killing, Filled, Aborted,
        MonitorDropped
<1>1. pc["new"] = "served" /\ pc["shutdown"] # "idle"
  BY DEF Stages
<1>2. TypeOK'
  BY DEF TypeOK, PCs
<1>3. Stages' /\ Locks'
  BY DEF TypeOK, Stages, Locks
<1>4. Places'
  BY <1>1 DEF TypeOK, Places, Stages
<1>5. Owned' /\ Manned' /\ Strays'
  BY <1>1 DEF TypeOK, Owned, Manned, Strays, Stages, Belongs
<1>6. Watched' /\ DeadKnown'
  BY <1>1 DEF TypeOK, Watched, DeadKnown, Stages
<1> QED  BY <1>2, <1>3, <1>4, <1>5, <1>6

LEMMA ShutdownStartsInv == IInv /\ (AbortMonitor \/ LockForShutdown) => IInv'
<1> SUFFICES ASSUME IInv, AbortMonitor \/ LockForShutdown PROVE IInv'
  OBVIOUS
<1> USE SupervisorAssumption
    DEF IInv, Actors, Starting, Restarting, Open, Spawning, Killing, Filled,
        AbortMonitor, LockForShutdown, browser
<1>1. TypeOK'
  BY DEF TypeOK, PCs
<1>2. Stages' /\ Locks'
  BY DEF TypeOK, Stages, Locks
<1>3. Places'
  BY DEF TypeOK, Places, Stages, Indices
<1>4. Owned' /\ Manned' /\ Strays'
  BY DEF TypeOK, Owned, Manned, Strays, Stages, Belongs
<1>5. Watched' /\ DeadKnown'
  BY DEF TypeOK, Watched, DeadKnown, Stages
<1> QED  BY <1>1, <1>2, <1>3, <1>4, <1>5

LEMMA BindFailsInv == IInv /\ BindFails => IInv'
<1> SUFFICES ASSUME IInv, BindFails PROVE IInv'
  OBVIOUS
<1> USE SupervisorAssumption
    DEF IInv, Actors, Starting, Restarting, Open, Spawning, Killing, Filled, BindFails
<1>1. TypeOK'
  BY DEF TypeOK, PCs
<1>2. Stages' /\ Locks'
  BY DEF TypeOK, Stages, Locks
<1>3. Places'
  BY DEF TypeOK, Places, Stages
<1>4. Owned' /\ Manned' /\ Strays'
  BY DEF TypeOK, Owned, Manned, Strays, Stages, Belongs
<1>5. Watched' /\ DeadKnown'
  BY DEF TypeOK, Watched, DeadKnown, Stages
<1> QED  BY <1>1, <1>2, <1>3, <1>4, <1>5

(* Readers, crashes, lost connections and stuttering leave alone all that   *)
(* the invariant is about but the chromes that die.                         *)
LEMMA OthersInv ==
    ASSUME IInv,
           \/ \E r \in Readers : LookUp(r) \/ LookUpAgain(r)
           \/ \E b \in Instances : Crash(b) \/ LinkEnds(b)
           \/ UNCHANGED vars
    PROVE  IInv'
<1> USE SupervisorAssumption
    DEF IInv, Actors, Starting, Restarting, Open, Spawning, Killing, Filled,
        LookUp, LookUpAgain, Crash, LinkEnds, vars, browser
<1>1. UNCHANGED <<table, dir, child, pc, at, fresh, dead, lock>>
  OBVIOUS
<1>2. \A b \in Instances : chrome'[b] = chrome[b] \/ chrome'[b] = "dead"
  BY DEF TypeOK
<1>3. TypeOK'
  BY DEF TypeOK
<1>4. Stages' /\ Locks' /\ Places' /\ Watched'
  BY <1>1 DEF Stages, Locks, Places, Watched
<1>5. Owned' /\ Manned' /\ Strays'
  BY <1>1, <1>2 DEF TypeOK, Owned, Manned, Strays, Belongs
<1>6. DeadKnown'
  BY <1>1, <1>2 DEF TypeOK, DeadKnown
<1> QED  BY <1>3, <1>4, <1>5, <1>6

LEMMA StepInv == IInv /\ [Next]_vars => IInv'
<1> SUFFICES ASSUME IInv, [Next]_vars PROVE IInv'
  OBVIOUS
<1>1. ASSUME NEW a \in Actors, SpawnProcess(a) PROVE IInv'
  BY <1>1, StartChromeInv, SpawnRefusedInv, ChromeAnswersInv, StartupFailsInv, CleanUpInv
     DEF SpawnProcess
<1>2. ASSUME NEW a \in Actors, KillProcess(a) PROVE IInv'
  BY <1>2, AskToCloseInv, ReapAndGoOnInv DEF KillProcess
<1>3. CASE Monitor
  BY <1>3, ScanInv, LockForRestartInv, ReapAndReplaceInv, MonitorDroppedInv DEF Monitor
<1>4. CASE Shutdown
  BY <1>4, ShutdownStartsInv DEF Shutdown
<1>5. CASE BindFails
  BY <1>5, BindFailsInv
<1>6. CASE \/ \E r \in Readers : LookUp(r) \/ LookUpAgain(r)
          \/ \E b \in Instances : Crash(b) \/ LinkEnds(b)
  BY <1>6, OthersInv
<1>7. CASE Finished \/ UNCHANGED vars
  BY <1>7, OthersInv DEF Finished
<1> QED  BY <1>1, <1>2, <1>3, <1>4, <1>5, <1>6, <1>7 DEF Next

-----------------------------------------------------------------------------
(* The invariant holds in every state, for every size of the pool.          *)
THEOREM Inductive == Spec => []IInv
BY InitInv, StepInv, PTL DEF Spec

(* Every variable keeps its type; at["new"] reaches PoolSize and no more.   *)
THEOREM TypeCorrect == Spec => []TypeOK
<1>1. IInv => TypeOK
  BY DEF IInv
<1> QED  BY <1>1, Inductive, PTL

(* With the lock free, no index falls out of the monitor's scan: whatever   *)
(* restart fails or succeeds, every process in the vector has its Child     *)
(* (pool.rs:452).                                                           *)
THEOREM Watches == Spec => []NoIndexUnwatched
<1>1. IInv => NoIndexUnwatched
  BY DEF IInv, NoIndexUnwatched, Serving, Aborted, Watched, Locks, Killing
<1> QED  BY <1>1, Inductive, PTL

(* Two runs of Chrome never share a port: new starts each index once, and   *)
(* the monitor only one that it knows to be dead (pool.rs:462).             *)
THEOREM PortsAreExclusive == Spec => []OneChromePerPort
<1>1. IInv => OneChromePerPort
  <2> SUFFICES ASSUME IInv PROVE OneChromePerPort
    OBVIOUS
  <2>1. \A i, j \in Indices : i # j /\ table[i] = table[j] => table[i] = NoInstance
    BY DEF IInv, Owned, Filled
  <2>2. pc["new"] \in Spawning => Victim("new") = NoInstance
    BY DEF IInv, Spawning, Victim, Places, Filled, Starting, Stages, Killing, Indices
  <2>3. pc["monitor"] \in Spawning /\ Victim("monitor") # NoInstance
            => chrome[Victim("monitor")] # "up"
    BY DEF IInv, DeadKnown, Restarting, Victim, Filled
  <2> QED  BY <2>1, <2>2, <2>3 DEF OneChromePerPort
<1> QED  BY <1>1, Inductive, PTL

(* Every running Chrome has an owner that will kill it, through failed      *)
(* startups, failed and aborted restarts and the shutdown (pool.rs:69,      *)
(* pool.rs:221).                                                            *)
THEOREM OwnsEveryChrome == Spec => []NoOrphan
<1>1. IInv => NoOrphan
  BY SupervisorAssumption DEF IInv, Owned, Belongs, NoOrphan, Listed
<1> QED  BY <1>1, Inductive, PTL

(* A startup that fails leaves no process and no directory (pool.rs:221).   *)
THEOREM FailsClean == Spec => []FailedStartIsClean
<1>1. IInv => FailedStartIsClean
  BY SupervisorAssumption
     DEF IInv, TypeOK, Owned, Strays, Belongs, Places, Filled, Stages, FailedStartIsClean,
         Killing, Spawning
<1> QED  BY <1>1, Inductive, PTL

(* Restarts leave no directory behind, and a shutdown at most one           *)
(* (pool.rs:84, 99-106, 191, 482).                                          *)
THEOREM LeavesNoDirectory == Spec => []RestartsLeaveNoDirectory
<1>1. IInv => RestartsLeaveNoDirectory
  <2> SUFFICES ASSUME IInv PROVE RestartsLeaveNoDirectory
    OBVIOUS
  <2>1. \A b \in Instances : Belongs(b) => b \in Listed \cup {fresh}
    BY SupervisorAssumption DEF Belongs, Listed
  <2>2. dir \subseteq Instances
    BY DEF IInv, TypeOK
  <2> QED  BY <2>1, <2>2 DEF IInv, Strays, RestartsLeaveNoDirectory, Stray
<1> QED  BY <1>1, Inductive, PTL

(* The monitor kills no Chrome that runs (pool.rs:472).                     *)
THEOREM SparesLiving == Spec => []MonitorSparesLiving
<1>1. IInv => MonitorSparesLiving
  <2> SUFFICES ASSUME IInv, pc["monitor"] \in Killing
               PROVE  chrome[Victim("monitor")] = "dead"
    BY DEF MonitorSparesLiving
  <2>1. /\ at["monitor"] \in dead /\ at["monitor"] \in Indices
        /\ pc["new"] = "served" /\ pc["shutdown"] \in Open
    BY DEF IInv, TypeOK, DeadKnown, Restarting, Locks, Stages, Killing
  <2> QED  BY <2>1 DEF IInv, Places, DeadKnown, Restarting, Victim
<1> QED  BY <1>1, Inductive, PTL

(* Whatever fails or is cut short, nothing is left behind but the directory *)
(* of one replacement a shutdown caught the monitor with (pool.rs:84, 221). *)
THEOREM LeavesNothing == Spec => []NothingLeftBehind
<1> QED  BY FailsClean, LeavesNoDirectory, PTL DEF NothingLeftBehind

(* What the monitor replaces is dead, when it starts the replacement and    *)
(* when it kills the old process (pool.rs:448-472).                         *)
THEOREM ReplacesTheDead == Spec => []OnlyDeadReplaced
<1> QED  BY PortsAreExclusive, SparesLiving, PTL DEF OnlyDeadReplaced

-----------------------------------------------------------------------------
(* The pool keeps the promise of ProcessTable.                              *)
PlaceMap == [i \in Indices |-> PlaceOf(i)]

(* Nothing in the vector changes, as far as ProcessTable sees it.           *)
LEMMA Stutters ==
    ASSUME ModeOf' = ModeOf, \A i \in Indices : PlaceOf(i)' = PlaceOf(i)
    PROVE  UNCHANGED Promise!vars
BY DEF Promise!vars

(* One place changes. *)
LEMMA OnePlace ==
    ASSUME NEW i \in Indices, NEW x, PlaceOf(i)' = x,
           \A j \in Indices \ {i} : PlaceOf(j)' = PlaceOf(j)
    PROVE  PlaceMap' = [PlaceMap EXCEPT ![i] = x]
BY DEF PlaceMap

(* A step that moves the monitor only, and changes no listed Chrome.        *)
LEMMA MonitorStutters ==
    ASSUME pc'["new"] = pc["new"], pc'["shutdown"] = pc["shutdown"], table' = table,
           \A i \in Indices : Filled(i) => chrome'[table[i]] = chrome[table[i]]
    PROVE  UNCHANGED Promise!vars
<1>1. ModeOf' = ModeOf
  BY DEF ModeOf, Serving, Aborted
<1>2. \A i \in Indices : PlaceOf(i)' = PlaceOf(i)
  BY DEF PlaceOf, Filled
<1> QED  BY <1>1, <1>2, Stutters

(* A Chrome that belongs to one index dies there and nowhere else.          *)
LEMMA DeathAt ==
    ASSUME IInv, NEW i \in Indices, Filled(i), chrome[table[i]] = "up",
           table' = table, chrome' = [chrome EXCEPT ![table[i]] = "dead"], ModeOf' = ModeOf
    PROVE  Promise!Die(i)
<1>1. \A j \in Indices \ {i} : Filled(j) => table[j] # table[i]
  BY DEF IInv, Owned
<1>2. PlaceOf(i) = "up" /\ PlaceOf(i)' = "dead"
  BY DEF PlaceOf, Filled, IInv, TypeOK
<1>3. \A j \in Indices \ {i} : PlaceOf(j)' = PlaceOf(j)
  BY <1>1 DEF PlaceOf, Filled, IInv, TypeOK
<1>4. PlaceMap' = [PlaceMap EXCEPT ![i] = "dead"] /\ PlaceMap[i] = "up"
  BY <1>2, <1>3, OnePlace DEF PlaceMap
<1> QED  BY <1>4 DEF Promise!Die, PlaceMap

(* spawn fills the places one by one for new, and none for the monitor.     *)
LEMMA SpawnImplements ==
    ASSUME IInv, NEW a \in Actors, SpawnProcess(a)
    PROVE  [Promise!Next]_(Promise!vars)
<1> USE DEF MaySpawn
<1>1. a \in {"new", "monitor"}
  BY DEF SpawnProcess, StartChrome, SpawnRefused, ChromeAnswers, StartupFails, CleanUp
<1>2. TypeOK /\ Stages
  BY DEF IInv
<1>3. CASE StartChrome(a)
  <2>1. PICK b \in Instances :
          /\ chrome[b] = "none" /\ chrome' = [chrome EXCEPT ![b] = "up"]
          /\ pc[a] = "spawn" /\ pc' = [pc EXCEPT ![a] = "starting"] /\ table' = table
    BY <1>3 DEF StartChrome
  <2>2. ModeOf' = ModeOf
    BY <1>1, <1>2, <2>1 DEF ModeOf, Serving, Aborted, TypeOK, Actors
  <2>3. \A i \in Indices : table[i] # b
    BY <2>1 DEF IInv, Manned, Belongs
  <2>4. \A i \in Indices : PlaceOf(i)' = PlaceOf(i)
    BY <1>2, <2>1, <2>3 DEF PlaceOf, TypeOK
  <2> QED  BY <2>2, <2>4, Stutters
<1>4. CASE SpawnRefused(a) \/ StartupFails(a) \/ CleanUp(a)
  <2>1. table' = table
    BY <1>4 DEF SpawnRefused, StartupFails, CleanUp
  <2>2. \A i \in Indices : Filled(i) => chrome'[table[i]] = chrome[table[i]]
    BY <1>2, <1>4 DEF SpawnRefused, StartupFails, CleanUp, Erase, browser, IInv, Owned, TypeOK, Filled
  <2>3. \A i \in Indices : PlaceOf(i)' = PlaceOf(i)
    BY <2>1, <2>2 DEF PlaceOf, Filled
  <2>4. CASE a = "new" /\ StartupFails(a)
    <3>1. ModeOf' = ModeOf
      BY <1>2, <2>4 DEF StartupFails, ModeOf, Serving, Aborted, TypeOK, Actors
    <3> QED  BY <2>3, <3>1, Stutters
  <2>5. CASE a = "new" /\ ~ StartupFails(a)
    <3>1. /\ pc["new"] \in {"spawn", "cleaning"} /\ SpawnFailed("new")
      BY <1>4, <2>5 DEF SpawnRefused, CleanUp
    <3>2. pc'["new"] \in {"failed", "ask"} /\ pc'["shutdown"] = pc["shutdown"]
      BY <1>2, <3>1 DEF SpawnFailed, TypeOK, Actors
    <3>3. ModeOf = "starting" /\ ModeOf' = "closing"
      BY <3>1, <3>2 DEF ModeOf, Serving
    <3>4. PlaceMap' = PlaceMap
      BY <2>3 DEF PlaceMap
    <3> QED  BY <3>3, <3>4 DEF Promise!Next, Promise!Close, PlaceMap
  <2>6. CASE a = "monitor"
    <3>1. /\ pc'["new"] = pc["new"] /\ pc'["shutdown"] = pc["shutdown"]
      <4>1. CASE StartupFails(a)
        BY <1>2, <2>6, <4>1 DEF StartupFails, TypeOK, Actors
      <4>2. CASE SpawnRefused(a) \/ CleanUp(a)
        <5>1. Proceed(dead \ {at["monitor"]}) /\ dead \ {at["monitor"]} \in SUBSET Indices
          BY <1>2, <2>6, <4>2 DEF SpawnRefused, CleanUp, SpawnFailed, TypeOK
        <5> QED  BY <1>2, <5>1, ProceedEffect
      <4> QED  BY <1>4, <4>1, <4>2
    <3> QED  BY <2>1, <2>2, <3>1, MonitorStutters
  <2> QED  BY <1>1, <2>4, <2>5, <2>6
<1>5. CASE ChromeAnswers(a) /\ a = "monitor"
  <2>1. /\ pc'["new"] = pc["new"] /\ pc'["shutdown"] = pc["shutdown"]
        /\ table' = table /\ chrome' = chrome
    BY <1>2, <1>5 DEF ChromeAnswers, TypeOK, Actors
  <2> QED  BY <2>1, MonitorStutters
<1>6. CASE ChromeAnswers(a) /\ a = "new"
  <2>0. PICK n \in Indices : n = at["new"]
    BY <1>6 DEF ChromeAnswers, IInv, Places, Starting
  <2>1. /\ pc["new"] = "starting" /\ fresh \in Instances
        /\ chrome[fresh] = "up" /\ chrome' = chrome
        /\ table' = [table EXCEPT ![n] = fresh]
        /\ IF n + 1 = PoolSize
           THEN pc' = [pc EXCEPT !["new"] = "served", !["monitor"] = "idle"]
           ELSE pc' = [pc EXCEPT !["new"] = "spawn"]
        /\ pc["shutdown"] = "idle"
    BY <1>6, <2>0 DEF ChromeAnswers, IInv, Places, Starting, Stages, Owned, TypeOK
  <2>2. \A i \in Indices : Filled(i) <=> i < n
    BY <2>0, <2>1 DEF IInv, Places, Starting
  <2>3. PlaceOf(n) = "empty" /\ PlaceOf(n)' = "up"
    BY <1>2, <2>1, <2>2, SupervisorAssumption DEF PlaceOf, Filled, TypeOK, Indices
  <2>4. \A j \in Indices \ {n} : PlaceOf(j)' = PlaceOf(j)
    BY <1>2, <2>1 DEF PlaceOf, TypeOK
  <2>5. PlaceMap' = [PlaceMap EXCEPT ![n] = "up"] /\ PlaceMap[n] = "empty"
    BY <2>3, <2>4, OnePlace DEF PlaceMap
  <2>6. ModeOf = "starting"
    BY <2>1 DEF ModeOf, Serving
  <2>7. ModeOf' = IF n + 1 = PoolSize THEN "serving" ELSE "starting"
    BY <1>2, <2>1 DEF ModeOf, Serving, Aborted, TypeOK, Actors
  <2>8. (\E j \in Indices : PlaceMap'[j] = "empty") <=> n + 1 # PoolSize
    <3>1. \A j \in Indices : PlaceMap'[j] = PlaceOf(j)'
      BY DEF PlaceMap
    <3>2. \A j \in Indices : Filled(j) => PlaceOf(j) # "empty"
      BY <1>2 DEF PlaceOf, Filled, TypeOK
    <3>3. \A j \in Indices : ~ Filled(j) => PlaceOf(j) = "empty"
      BY DEF PlaceOf, Filled
    <3>4. CASE n + 1 # PoolSize
      <4>1. n + 1 \in Indices /\ ~ (n + 1 < n) /\ n + 1 # n
        BY <3>4, SupervisorAssumption DEF Indices
      <4>2. PlaceOf(n + 1)' = "empty"
        BY <2>2, <2>4, <3>3, <4>1
      <4> QED  BY <3>1, <3>4, <4>1, <4>2
    <3>5. CASE n + 1 = PoolSize
      <4>1. \A j \in Indices : j < n \/ j = n
        BY <3>5, SupervisorAssumption DEF Indices
      <4>2. \A j \in Indices : PlaceOf(j)' # "empty"
        BY <2>2, <2>3, <2>4, <3>2, <4>1
      <4> QED  BY <3>1, <3>5, <4>2
    <3> QED  BY <3>4, <3>5
  <2>9. Promise!Fill(n)
    BY <2>5, <2>6, <2>7, <2>8 DEF Promise!Fill, PlaceMap
  <2> QED  BY <2>9 DEF Promise!Next
<1> QED  BY <1>1, <1>3, <1>4, <1>5, <1>6 DEF SpawnProcess

(* kill takes a Chrome away from a pool that closes.                        *)
LEMMA KillImplements ==
    ASSUME IInv, NEW a \in Actors, KillProcess(a)
    PROVE  [Promise!Next]_(Promise!vars)
<1>1. TypeOK /\ Stages
  BY DEF IInv
<1>2. CASE AskToClose(a)
  <2>1. /\ pc[a] = "ask" /\ pc' = [pc EXCEPT ![a] = "reap"] /\ table' = table
        /\ chrome' = chrome \/ chrome' = [chrome EXCEPT ![Victim(a)] = "dead"]
    BY <1>2 DEF AskToClose
  <2>2. ModeOf' = ModeOf
    BY <1>1, <2>1 DEF ModeOf, Serving, Aborted, TypeOK, Actors, Stages, Open, Killing
  <2>3. at[a] \in Indices /\ Filled(at[a])
    BY <1>1, <1>2, <2>1
       DEF IInv, TypeOK, Places, DeadKnown, Restarting, Killing, Stages, Locks, Open, Actors, Filled
  <2>4. CASE chrome' = chrome
    <3>1. \A i \in Indices : PlaceOf(i)' = PlaceOf(i)
      BY <2>1, <2>4 DEF PlaceOf
    <3> QED  BY <2>2, <3>1, Stutters
  <2>5. CASE chrome' # chrome
    <3>1. chrome' = [chrome EXCEPT ![table[at[a]]] = "dead"] /\ table[at[a]] \in Instances
      BY <1>1, <2>1, <2>3, <2>5 DEF Victim, Filled, TypeOK
    <3>2. chrome[table[at[a]]] # "none"
      BY <2>3, <3>1 DEF IInv, Manned, Belongs
    <3>3. chrome[table[at[a]]] = "up"
      BY <1>1, <2>5, <3>1, <3>2 DEF TypeOK
    <3>4. Promise!Die(at[a])
      BY <2>1, <2>2, <2>3, <3>1, <3>3, DeathAt
    <3> QED  BY <2>3, <3>4 DEF Promise!Next
  <2> QED  BY <2>4, <2>5
<1>3. CASE ReapAndGoOn(a)
  <2>0. PICK i \in Indices : i = at[a] /\ Filled(i)
    BY <1>1, <1>3 DEF ReapAndGoOn, IInv, TypeOK, Places, Victim, Stages, Killing, Filled
  <2>1. PICK v \in Instances : v = table[i]
    BY <1>1, <2>0 DEF TypeOK, Filled
  <2>2. a \in {"new", "shutdown"} /\ pc[a] = "reap"
    BY <1>3 DEF ReapAndGoOn
  <2>3. /\ chrome' = [chrome EXCEPT ![v] = "none"]
        /\ table' = [table EXCEPT ![i] = NoInstance]
        /\ pc'[a] \in {"ask", "failed", "done"} /\ (pc'[a] = "failed" => a = "new")
        /\ (pc'[a] = "done" => a = "shutdown")
        /\ \A b \in Actors \ {a} : pc'[b] = pc[b]
    BY <1>1, <1>3, <2>0, <2>1, <2>2 DEF ReapAndGoOn, Erase, Victim, TypeOK
  <2>4. ModeOf = "closing" /\ ModeOf' = "closing"
    BY <1>1, <2>2, <2>3 DEF ModeOf, Serving, Aborted, Stages, Actors, Starting, Spawning, Killing, Open
  <2>5. PlaceOf(i) # "empty" /\ PlaceOf(i)' = "empty"
    BY <1>1, <2>0, <2>1, <2>3 DEF PlaceOf, Filled, TypeOK
  <2>6. \A j \in Indices \ {i} : PlaceOf(j)' = PlaceOf(j)
    <3>1. \A j \in Indices \ {i} : Filled(j) => table[j] # v
      BY <2>0, <2>1 DEF IInv, Owned
    <3> QED  BY <1>1, <2>1, <2>3, <3>1 DEF PlaceOf, Filled, TypeOK
  <2>7. PlaceMap' = [PlaceMap EXCEPT ![i] = "empty"] /\ PlaceMap[i] # "empty"
    BY <2>5, <2>6, OnePlace DEF PlaceMap
  <2>8. Promise!Remove(i)
    BY <2>4, <2>7 DEF Promise!Remove, PlaceMap
  <2> QED  BY <2>8 DEF Promise!Next
<1> QED  BY <1>2, <1>3 DEF KillProcess

(* The monitor exchanges a dead Chrome, and nothing else.                   *)
LEMMA MonitorImplements ==
    ASSUME IInv, Monitor
    PROVE  [Promise!Next]_(Promise!vars)
<1>1. TypeOK /\ Stages
  BY DEF IInv
<1>2. CASE Scan
  <2> DEFINE found == {i \in Indices : table[i] \in child /\ chrome[table[i]] = "dead"}
  <2>1. Proceed(found) /\ found \in SUBSET Indices /\ table' = table /\ chrome' = chrome
    BY <1>2 DEF Scan, browser
  <2>2. pc'["new"] = pc["new"] /\ pc'["shutdown"] = pc["shutdown"]
    BY <1>1, <2>1, ProceedEffect
  <2> QED  BY <2>1, <2>2, MonitorStutters
<1>3. CASE LockForRestart
  <2>1. /\ pc'["new"] = pc["new"] /\ pc'["shutdown"] = pc["shutdown"]
        /\ table' = table /\ chrome' = chrome
    BY <1>1, <1>3 DEF LockForRestart, browser, TypeOK, Actors
  <2> QED  BY <2>1, MonitorStutters
<1>4. CASE MonitorDropped
  <2>1. /\ pc'["new"] = pc["new"] /\ pc'["shutdown"] = pc["shutdown"] /\ table' = table
        /\ chrome' = [b \in Instances |-> IF b = fresh THEN "dead" ELSE chrome[b]]
    BY <1>1, <1>4 DEF MonitorDropped, TypeOK, Actors
  <2>2. \A i \in Indices : Filled(i) => table[i] # fresh /\ table[i] \in Instances
    BY <1>1 DEF IInv, Owned, TypeOK, Filled
  <2>3. \A i \in Indices : Filled(i) => chrome'[table[i]] = chrome[table[i]]
    BY <2>1, <2>2
  <2> QED  BY <2>1, <2>3, MonitorStutters
<1>5. CASE ReapAndReplace
  <2>0. PICK i \in Indices : i = at["monitor"] /\ i \in dead /\ Filled(i)
    BY <1>5 DEF ReapAndReplace, IInv, TypeOK, Stages, Locks, Places, DeadKnown, Killing, Restarting,
                Spawning, Open, Filled
  <2>1. PICK v \in Instances : v = table[i]
    BY <1>1, <2>0 DEF TypeOK, Filled
  <2>2. PICK f \in Instances : f = fresh /\ f # v
    BY <1>1, <1>5, <2>0, <2>1 DEF ReapAndReplace, IInv, Owned, Killing, Restarting, Spawning, Starting, Filled, TypeOK, Actors
  <2>3. /\ pc["monitor"] = "reap" /\ pc["shutdown"] = "idle" /\ pc["new"] = "served"
        /\ chrome[v] = "dead"
    BY <1>5, <2>0, <2>1 DEF ReapAndReplace, Aborted, IInv, TypeOK, Stages, Locks, DeadKnown, Killing,
                Restarting, Spawning, Open
  <2>4. /\ chrome' = [chrome EXCEPT ![v] = "none"]
        /\ table' = [table EXCEPT ![i] = f]
        /\ Proceed(dead \ {i}) /\ dead \ {i} \in SUBSET Indices
    BY <1>1, <1>5, <2>0, <2>1, <2>2 DEF ReapAndReplace, Erase, Victim, TypeOK
  <2>5. pc'["new"] = pc["new"] /\ pc'["shutdown"] = pc["shutdown"]
    BY <1>1, <2>4, ProceedEffect
  <2>6. ModeOf = "serving" /\ ModeOf' = "serving"
    BY <2>3, <2>5 DEF ModeOf, Serving, Aborted
  <2>7. PlaceOf(i) = "dead" /\ PlaceOf(i)' = chrome[f]
    BY <1>1, <2>0, <2>1, <2>2, <2>3, <2>4, SupervisorAssumption DEF PlaceOf, Filled, TypeOK
  <2>8. \A j \in Indices \ {i} : PlaceOf(j)' = PlaceOf(j)
    <3>1. \A j \in Indices \ {i} : Filled(j) => table[j] # v
      BY <2>0, <2>1 DEF IInv, Owned
    <3> QED  BY <1>1, <2>1, <2>4, <3>1 DEF PlaceOf, Filled, TypeOK
  <2>9. chrome[f] \in {"up", "dead"}
    BY <1>1, <2>2, <2>3, SupervisorAssumption DEF IInv, Manned, Belongs, TypeOK
  <2>10. CASE chrome[f] = "dead"
    <3>1. \A j \in Indices : PlaceOf(j)' = PlaceOf(j)
      BY <2>7, <2>8, <2>10
    <3> QED  BY <2>6, <3>1, Stutters
  <2>11. CASE chrome[f] = "up"
    <3>1. PlaceMap' = [PlaceMap EXCEPT ![i] = "up"] /\ PlaceMap[i] = "dead"
      BY <2>7, <2>8, <2>11, OnePlace DEF PlaceMap
    <3>2. Promise!Replace(i)
      BY <2>6, <3>1 DEF Promise!Replace, PlaceMap
    <3> QED  BY <3>2 DEF Promise!Next
  <2> QED  BY <2>9, <2>10, <2>11
<1> QED  BY <1>2, <1>3, <1>4, <1>5 DEF Monitor

(* The program closes the pool, a Chrome dies, or nothing is to be seen.    *)
LEMMA OthersImplement ==
    ASSUME IInv,
           \/ Shutdown
           \/ BindFails
           \/ \E r \in Readers : LookUp(r) \/ LookUpAgain(r)
           \/ \E b \in Instances : Crash(b) \/ LinkEnds(b)
           \/ UNCHANGED vars
    PROVE  [Promise!Next]_(Promise!vars)
<1>1. TypeOK /\ Stages
  BY DEF IInv
<1>2. CASE AbortMonitor
  <2>1. ModeOf = "serving" /\ ModeOf' = "closing"
    BY <1>1, <1>2 DEF AbortMonitor, ModeOf, Serving, Aborted, TypeOK, Actors
  <2>2. PlaceMap' = PlaceMap
    BY <1>2 DEF AbortMonitor, browser, PlaceMap, PlaceOf
  <2> QED  BY <2>1, <2>2 DEF Promise!Next, Promise!Close, PlaceMap
<1>3. CASE BindFails
  <2>1. ModeOf = "serving" /\ ModeOf' = "closing"
    BY <1>1, <1>3 DEF BindFails, ModeOf, Serving, Aborted, TypeOK, Actors
  <2>2. PlaceMap' = [i \in Indices |-> "empty"]
    BY <1>3 DEF BindFails, PlaceMap, PlaceOf
  <2> QED  BY <2>1, <2>2 DEF Promise!Next, Promise!Drop, Promise!Empty, PlaceMap
<1>4. CASE LockForShutdown
  <2>1. ModeOf' = ModeOf
    BY <1>1, <1>4 DEF LockForShutdown, ModeOf, Serving, Aborted, TypeOK, Actors
  <2>2. \A i \in Indices : PlaceOf(i)' = PlaceOf(i)
    BY <1>4 DEF LockForShutdown, browser, PlaceOf
  <2> QED  BY <2>1, <2>2, Stutters
<1>5. CASE (\E r \in Readers : LookUp(r) \/ LookUpAgain(r)) \/ UNCHANGED vars
  <2>1. table' = table /\ chrome' = chrome /\ pc' = pc
    BY <1>5 DEF LookUp, LookUpAgain, vars, browser
  <2> QED  BY <2>1, MonitorStutters
<1>6. ASSUME NEW b \in Instances, Crash(b)
      PROVE  [Promise!Next]_(Promise!vars)
  <2>1. /\ chrome[b] = "up" /\ chrome' = [chrome EXCEPT ![b] = "dead"]
        /\ table' = table /\ pc' = pc
    BY <1>6 DEF Crash
  <2>2. ModeOf' = ModeOf
    BY <2>1 DEF ModeOf, Serving, Aborted
  <2>3. CASE \E i \in Indices : table[i] = b
    <3>1. PICK i \in Indices : table[i] = b
      BY <2>3
    <3>2. Filled(i)
      BY <3>1, SupervisorAssumption DEF Filled
    <3>3. Promise!Die(i)
      BY <2>1, <2>2, <3>1, <3>2, DeathAt
    <3> QED  BY <3>3 DEF Promise!Next
  <2>4. CASE \A i \in Indices : table[i] # b
    <3>1. \A i \in Indices : PlaceOf(i)' = PlaceOf(i)
      BY <1>1, <2>1, <2>4 DEF PlaceOf, TypeOK
    <3> QED  BY <2>2, <3>1, Stutters
  <2> QED  BY <2>3, <2>4
<1>7. ASSUME NEW b \in Instances, LinkEnds(b)
      PROVE  [Promise!Next]_(Promise!vars)
  <2>1. table' = table /\ chrome' = chrome /\ pc' = pc
    BY <1>7 DEF LinkEnds
  <2> QED  BY <2>1, MonitorStutters
<1>8. CASE \E b \in Instances : Crash(b) \/ LinkEnds(b)
  BY <1>6, <1>7, <1>8
<1>9. CASE Shutdown
  BY <1>2, <1>4, <1>9 DEF Shutdown
<1> QED  BY <1>3, <1>5, <1>8, <1>9

LEMMA NextImplements ==
    ASSUME IInv, [Next]_vars
    PROVE  [Promise!Next]_(Promise!vars)
BY SpawnImplements, KillImplements, MonitorImplements, OthersImplement DEF Next, Finished

(* Every behaviour of new, the monitor and shutdown, with spawn, kill, the  *)
(* lock and the directories hidden, is one of ProcessTable: a pool serves   *)
(* with a Chrome at every index, exchanges dead ones only, and never fills  *)
(* a place once it closes.                                                  *)
THEOREM Implements == Spec => ImplementsProcessTable
<1>1. Init => Promise!Init
  <2> SUFFICES ASSUME Init PROVE Promise!Init
    OBVIOUS
  <2>1. ModeOf = "starting"
    BY DEF Init, ModeOf, Serving, Actors
  <2>2. PlaceMap = [i \in Indices |-> "empty"]
    BY DEF Init, PlaceMap, PlaceOf
  <2> QED  BY <2>1, <2>2 DEF Promise!Init, Promise!Empty, PlaceMap
<1>2. IInv /\ [Next]_vars => [Promise!Next]_(Promise!vars)
  BY NextImplements
<1> QED  BY <1>1, <1>2, Inductive, PTL DEF Spec, ImplementsProcessTable, Promise!Spec
=============================================================================
