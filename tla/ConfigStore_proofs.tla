----------------------------- MODULE ConfigStore_proofs -----------------------------
(***************************************************************************)
(* Theorems about ConfigStore, for any set of clients and configurations,  *)
(* any faults and any bounds: its types, that the file keeps what a client *)
(* was told is saved, and that the wake tasks follow the configuration.    *)
(* The invariant says what the lock protects at every step of a save       *)
(* (SavesAgree), what the worker still owes (NewestQueued), and what a     *)
(* sync that is logged as completed left behind (WorkDone).                *)
(***************************************************************************)
EXTENDS ConfigStore, TLAPS

Up == {"loaded", "serving"}

\* The config_io lock: one client at a time is past the write of the file.
Holds(c) == saving[c].phase \in {"written", "remembered"}
OneSave == \A c, d \in Clients : Holds(c) /\ Holds(d) => c = d

\* Only a backend that serves has clients and a worker.
OnlyServing ==
    backend # "serving" =>
        /\ \A c \in Clients : saving[c] = Idle
        /\ queue = <<>> /\ worker = Idle /\ applied = NothingApplied
MemoryIsLoaded == backend # "down" => memory \in Configs

OnDisk(config) == disk = config \/ overwritten

\* The file is ahead of the memory by exactly the save that holds the lock.
SavesAgree ==
    /\ AcknowledgedIsOnDisk
    /\ \A c \in Clients :
         /\ saving[c].phase = "written" => OnDisk(saving[c].config)
         /\ saving[c].phase = "remembered" => memory = saving[c].config /\ OnDisk(memory)

\* What the worker takes next, or has taken, is the memory, but for a snapshot
\* that is about to be queued.
NewestQueued ==
    backend = "serving" /\ (\A c \in Clients : saving[c].phase # "remembered") =>
        IF queue = <<>> THEN seen = memory ELSE queue[Len(queue)] = memory

\* The worker works on the snapshot taken last; the tasks are those of the
\* schedules applied, unless they are being replaced or a sync has failed.
WorkDone ==
    /\ worker # Idle => worker.config = seen
    /\ worker.phase = "creating" => tasks \cup worker.todo = WakeTasks(worker.config.schedules)
    /\ log = "completed" /\ applied.schedules # None =>
         /\ worker.phase # "creating" => tasks = WakeTasks(applied.schedules)
         /\ worker = Idle => seen # None /\ applied.schedules = seen.schedules

SInv == StoreTypeOK /\ OneSave /\ OnlyServing /\ MemoryIsLoaded /\ SavesAgree /\ NewestQueued /\ WorkDone

-----------------------------------------------------------------------------
LEMMA SavePhases ==
    ASSUME StoreTypeOK, NEW c \in Clients
    PROVE  /\ saving[c].phase \in {"idle", "waiting", "written", "remembered"}
           /\ saving[c].phase = "idle" <=> saving[c] = Idle
           /\ saving[c].phase # "idle" => /\ saving[c].config \in Configs
                                          /\ saving[c] = [phase |-> saving[c].phase,
                                                          config |-> saving[c].config]
<1>1. CASE saving[c] = Idle
  BY <1>1 DEF Idle
<1>2. CASE saving[c] \in Saves
  <2>1. saving[c].phase \in {"waiting", "written", "remembered"} /\ saving[c].config \in Configs
        /\ saving[c] = [phase |-> saving[c].phase, config |-> saving[c].config]
    BY <1>2 DEF Saves
  <2>2. saving[c].phase # Idle.phase
    BY <2>1 DEF Idle
  <2> QED  BY <2>1, <2>2 DEF Idle
<1> QED  BY <1>1, <1>2 DEF StoreTypeOK

LEMMA WorkPhases ==
    ASSUME StoreTypeOK
    PROVE  /\ worker.phase \in {"idle", "firewall", "schedules", "creating"}
           /\ worker.phase = "idle" <=> worker = Idle
           /\ worker # Idle => worker.config \in Configs
           /\ worker.phase \in {"firewall", "schedules"} =>
                 worker = [phase |-> worker.phase, config |-> worker.config]
           /\ worker.phase = "creating" =>
                 /\ worker.todo \subseteq AllTasks
                 /\ worker = [phase |-> "creating", config |-> worker.config, todo |-> worker.todo]
<1>1. CASE worker = Idle
  BY <1>1 DEF Idle
<1>2. CASE worker \in [phase : {"firewall", "schedules"}, config : Configs]
  <2>1. worker.phase \in {"firewall", "schedules"} /\ worker.config \in Configs
        /\ worker = [phase |-> worker.phase, config |-> worker.config]
    BY <1>2
  <2>2. worker.phase # Idle.phase
    BY <2>1 DEF Idle
  <2> QED  BY <2>1, <2>2 DEF Idle
<1>3. CASE worker \in [phase : {"creating"}, config : Configs, todo : SUBSET AllTasks]
  <2>1. worker.phase = "creating" /\ worker.config \in Configs /\ worker.todo \subseteq AllTasks
        /\ worker = [phase |-> "creating", config |-> worker.config, todo |-> worker.todo]
    BY <1>3
  <2>2. worker.phase # Idle.phase
    BY <2>1 DEF Idle
  <2> QED  BY <2>1, <2>2 DEF Idle
<1> QED  BY <1>1, <1>2, <1>3 DEF StoreTypeOK, Work

\* The tasks of a configuration are among all tasks.
LEMMA TasksOfConfig ==
    ASSUME NEW c \in Configs
    PROVE  WakeTasks(c.schedules) \subseteq AllTasks
BY DEF AllTasks

LEMMA DefaultLoads == ASSUME StoreTypeOK PROVE Loaded \in Configs
BY StoreAssumption DEF Loaded

LEMMA InitStore == Init => SInv
<1> SUFFICES ASSUME Init PROVE SInv
  OBVIOUS
<1>1. StoreTypeOK
  <2>1. queue \in Seq(Configs) /\ saves \in 0..MaxSaves /\ starts \in 0..MaxStarts
    BY StoreAssumption DEF Init
  <2>2. applied \in [web : {c.web : c \in Configs} \cup {None},
                    schedules : {c.schedules : c \in Configs} \cup {None}]
    BY DEF Init, NothingApplied
  <2>3. saving \in [Clients -> Saves \cup {Idle}] /\ worker \in Work \cup {Idle}
    BY DEF Init
  <2> QED  BY <2>1, <2>2, <2>3 DEF Init, StoreTypeOK
<1>2. OneSave /\ OnlyServing /\ MemoryIsLoaded
  BY DEF Init, OneSave, Holds, OnlyServing, MemoryIsLoaded, Idle
<1>3. SavesAgree /\ NewestQueued
  BY DEF Init, SavesAgree, AcknowledgedIsOnDisk, NewestQueued, Idle
<1>4. WorkDone
  BY DEF Init, WorkDone, Idle
<1> QED  BY <1>1, <1>2, <1>3, <1>4 DEF SInv

-----------------------------------------------------------------------------
(* Types *)

\* What the loading and the saving change.
LEMMA TypesOfSaving ==
    ASSUME StoreTypeOK, MemoryIsLoaded,
           \/ LoadReads \/ LoadSaves \/ Serve \/ Crash \/ FileDamaged
           \/ DesktopReads \/ DesktopSaves
           \/ \E c \in Clients, cfg \in Configs : Request(c, cfg)
           \/ \E c \in Clients : SaveStep(c)
    PROVE  StoreTypeOK'
<1> USE DEF StoreTypeOK
<1>1. CASE LoadReads \/ LoadSaves \/ FileDamaged \/ DesktopReads \/ DesktopSaves
  <2>1. /\ UNCHANGED <<saving, queue, worker, applied, seen, tasks, rule, log, saves>>
        /\ memory' \in Configs \cup {None} /\ desktop' \in Configs \cup {None}
        /\ disk' \in Configs \cup {None, Unreadable}
        /\ backend' \in {"down", "loading", "loaded", "serving"} /\ overwritten' \in BOOLEAN
    BY <1>1, DefaultLoads DEF LoadReads, LoadSaves, FileDamaged, DesktopReads, DesktopSaves,
       windowsVars, desktopVars, counters
  <2>2. starts' \in 0..MaxStarts
    BY <1>1, StoreAssumption DEF LoadReads, LoadSaves, FileDamaged, DesktopReads, DesktopSaves,
       counters
  <2> QED  BY <2>1, <2>2
<1>2. CASE Serve
  <2>1. memory \in Configs /\ queue' \in Seq(Configs)
    BY <1>2 DEF Serve, MemoryIsLoaded
  <2> QED  BY <1>2, <2>1 DEF Serve, windowsVars, desktopVars, counters
<1>3. CASE Crash
  <2>1. applied' \in [web : {c.web : c \in Configs} \cup {None},
                     schedules : {c.schedules : c \in Configs} \cup {None}]
    BY <1>3 DEF Crash, NothingApplied
  <2>2. saving' \in [Clients -> Saves \cup {Idle}] /\ queue' \in Seq(Configs)
        /\ worker' \in Work \cup {Idle}
    BY <1>3 DEF Crash
  <2> QED  BY <1>3, <2>1, <2>2 DEF Crash, desktopVars, counters
<1>4. ASSUME NEW c \in Clients, NEW cfg \in Configs, Request(c, cfg)  PROVE StoreTypeOK'
  <2>1. saving' \in [Clients -> Saves \cup {Idle}]
    BY <1>4 DEF Request, Saves
  <2>2. saves' \in 0..MaxSaves
    BY <1>4, StoreAssumption DEF Request
  <2> QED  BY <1>4, <2>1, <2>2 DEF Request, windowsVars, desktopVars
<1>5. ASSUME NEW c \in Clients, SaveStep(c)  PROVE StoreTypeOK'
  <2>1. saving[c].phase # "idle"
    BY <1>5 DEF SaveStep, WriteFile, WriteFails, Remember, QueueSnapshot
  <2>2. /\ saving[c].config \in Configs
        /\ saving[c] = [phase |-> saving[c].phase, config |-> saving[c].config]
    BY <2>1, SavePhases
  <2>3. \/ saving' = [saving EXCEPT ![c] = Idle]
        \/ \E p \in {"written", "remembered"} : saving' = [saving EXCEPT ![c].phase = p]
    BY <1>5 DEF SaveStep, WriteFile, WriteFails, Remember, QueueSnapshot, Becomes
  <2>4. saving' \in [Clients -> Saves \cup {Idle}]
    BY <2>2, <2>3 DEF Saves
  <2>5. /\ queue' \in {queue, Append(queue, saving[c].config)}
        /\ UNCHANGED <<backend, windowsVars, desktop, counters>>
    BY <1>5 DEF SaveStep, WriteFile, WriteFails, Remember, QueueSnapshot, saveRest
  <2>6. queue' \in Seq(Configs)
    <3>1. \A q \in Seq(Configs), x \in Configs : Append(q, x) \in Seq(Configs)
      OBVIOUS
    <3>2. Append(queue, saving[c].config) \in Seq(Configs)
      BY <2>2, <3>1
    <3> QED  BY <2>5, <3>2
  <2>7. disk' \in Configs \cup {None, Unreadable} /\ memory' \in Configs \cup {None}
    BY <1>5, <2>2 DEF SaveStep, WriteFile, WriteFails, Remember, QueueSnapshot, saveRest
  <2>8. overwritten' \in BOOLEAN
    BY <1>5 DEF SaveStep, WriteFile, WriteFails, Remember, QueueSnapshot, saveRest
  <2>9. UNCHANGED <<backend, worker, applied, seen, tasks, rule, log, desktop, saves, starts>>
    BY <2>5 DEF windowsVars, counters
  <2> QED  BY <2>4, <2>6, <2>7, <2>8, <2>9
<1> QED  BY <1>1, <1>2, <1>3, <1>4, <1>5

\* What the worker changes.
LEMMA TypesOfWorker == ASSUME StoreTypeOK, WorkerStep PROVE StoreTypeOK'
<1> USE DEF StoreTypeOK
<1>1. /\ UNCHANGED <<disk, backend, memory, saving, desktop, overwritten, saves, starts>>
      /\ queue' \in {queue, <<>>}
    BY DEF WorkerStep, TakeNewest, RefreshFirewall, SkipSchedules, DeleteTasks, CreateTask,
           SyncFails, SyncCompletes, workerRest, desktopVars, counters
<1>2. log' \in {"none", "completed", "failed"}
    BY DEF WorkerStep, TakeNewest, RefreshFirewall, SkipSchedules, DeleteTasks, CreateTask,
           SyncFails, SyncCompletes
<1>3. CASE TakeNewest
  <2>1. queue[Len(queue)] \in Configs
    BY <1>3 DEF TakeNewest
  <2>2. worker' \in Work
    BY <1>3, <2>1 DEF TakeNewest, Work
  <2> QED  BY <1>1, <1>2, <1>3, <2>1, <2>2 DEF TakeNewest
<1>4. CASE RefreshFirewall
  <2>1. worker.config \in Configs /\ worker = [phase |-> "firewall", config |-> worker.config]
    BY <1>4, WorkPhases DEF RefreshFirewall, Idle
  <2>2. worker' \in Work
    BY <1>4, <2>1 DEF RefreshFirewall, Work
  <2>3. rule' \in {c.web : c \in Configs} \cup {None}
    BY <1>4, <2>1 DEF RefreshFirewall
  <2>4. applied' \in [web : {c.web : c \in Configs} \cup {None},
                     schedules : {c.schedules : c \in Configs} \cup {None}]
    BY <1>4, <2>1 DEF RefreshFirewall
  <2> QED  BY <1>1, <1>2, <1>4, <2>2, <2>3, <2>4 DEF RefreshFirewall
<1>5. CASE SkipSchedules
  BY <1>1, <1>2, <1>5 DEF SkipSchedules
<1>6. CASE DeleteTasks
  <2>1. worker.config \in Configs
    BY <1>6, WorkPhases DEF DeleteTasks
  <2>2. worker' \in Work
    BY <1>6, <2>1, TasksOfConfig DEF DeleteTasks, Work
  <2> QED  BY <1>1, <1>2, <1>6, <2>2 DEF DeleteTasks
<1>7. CASE CreateTask
  <2>1. worker.config \in Configs /\ worker.todo \subseteq AllTasks
        /\ worker = [phase |-> "creating", config |-> worker.config, todo |-> worker.todo]
    BY <1>7, WorkPhases DEF CreateTask
  <2>2. PICK task \in worker.todo :
          tasks' = tasks \cup {task} /\ worker' = [worker EXCEPT !.todo = @ \ {task}]
    BY <1>7 DEF CreateTask
  <2>3. worker' \in Work
    BY <2>1, <2>2 DEF Work
  <2> QED  BY <1>1, <1>2, <1>7, <2>1, <2>2, <2>3 DEF CreateTask
<1>8. CASE SyncFails
  BY <1>1, <1>2, <1>8 DEF SyncFails
<1>9. CASE SyncCompletes
  <2>1. worker.config \in Configs
    BY <1>9, WorkPhases DEF SyncCompletes, Idle
  <2>2. applied' \in [web : {c.web : c \in Configs} \cup {None},
                     schedules : {c.schedules : c \in Configs} \cup {None}]
    BY <1>9, <2>1 DEF SyncCompletes
  <2> QED  BY <1>1, <1>2, <1>9, <2>2 DEF SyncCompletes
<1> QED  BY <1>3, <1>4, <1>5, <1>6, <1>7, <1>8, <1>9 DEF WorkerStep

-----------------------------------------------------------------------------
(* The lock, the file and the memory *)

LEMMA LockStep ==
    ASSUME SInv, [Next]_storeVars
    PROVE  (OneSave /\ OnlyServing /\ MemoryIsLoaded /\ SavesAgree)'
<1> USE DEF SInv
<1>0. \A c \in Clients : saving[c].phase \in {"idle", "waiting", "written", "remembered"}
      /\ (saving[c].phase = "idle" <=> saving[c] = Idle)
  BY SavePhases
<1>1. CASE LoadReads \/ LoadSaves \/ FileDamaged \/ DesktopReads \/ DesktopSaves
  <2>1. UNCHANGED <<saving, queue, worker, applied>>
    BY <1>1 DEF LoadReads, LoadSaves, FileDamaged, DesktopReads, DesktopSaves, windowsVars
  <2>2. /\ MemoryIsLoaded' /\ (backend' # backend => backend # "serving" /\ backend' # "serving")
    BY <1>1, DefaultLoads DEF LoadReads, LoadSaves, FileDamaged, DesktopReads, DesktopSaves,
       MemoryIsLoaded
  <2>3. OneSave' /\ OnlyServing'
    BY <2>1, <2>2 DEF OneSave, Holds, OnlyServing
  <2>4. SavesAgree'
    <3>1. CASE LoadReads \/ LoadSaves
      <4>1. \A c \in Clients : saving[c] = Idle
        BY <3>1 DEF LoadReads, LoadSaves, OnlyServing
      <4>2. AcknowledgedIsOnDisk'
        BY <3>1 DEF LoadReads, LoadSaves, AcknowledgedIsOnDisk
      <4> QED  BY <4>1, <4>2, <2>1 DEF SavesAgree, Idle
    <3>2. CASE FileDamaged
      <4>1. \A c \in Clients : saving[c] = Idle
        BY <3>2 DEF FileDamaged, OnlyServing
      <4>2. AcknowledgedIsOnDisk'
        BY <3>2 DEF FileDamaged, AcknowledgedIsOnDisk
      <4> QED  BY <4>1, <4>2, <2>1 DEF SavesAgree, Idle
    <3>3. CASE DesktopReads
      BY <3>3, <2>1 DEF DesktopReads, SavesAgree, AcknowledgedIsOnDisk, OnDisk, LockFree
    <3>4. CASE DesktopSaves
      BY <3>4, <2>1 DEF DesktopSaves, SavesAgree, AcknowledgedIsOnDisk, OnDisk, LockFree
    <3> QED  BY <1>1, <3>1, <3>2, <3>3, <3>4
  <2> QED  BY <2>2, <2>3, <2>4
<1>2. CASE Serve
  BY <1>2 DEF Serve, desktopVars, OneSave, Holds, OnlyServing, MemoryIsLoaded, SavesAgree,
     AcknowledgedIsOnDisk, OnDisk, LockFree
<1>3. CASE Crash
  BY <1>3 DEF Crash, OneSave, Holds, OnlyServing, MemoryIsLoaded, SavesAgree, AcknowledgedIsOnDisk,
     Idle
<1>4. ASSUME NEW c \in Clients, NEW cfg \in Configs, Request(c, cfg)
      PROVE  (OneSave /\ OnlyServing /\ MemoryIsLoaded /\ SavesAgree)'
  <2>1. /\ saving[c].phase = "idle" /\ saving'[c].phase = "waiting"
        /\ \A d \in Clients : d # c => saving'[d] = saving[d]
        /\ UNCHANGED <<backend, memory, disk, overwritten>> /\ backend = "serving"
    BY <1>4, SavePhases DEF Request, desktopVars, StoreTypeOK
  <2> QED
    BY <2>1 DEF OneSave, Holds, OnlyServing, MemoryIsLoaded, SavesAgree, AcknowledgedIsOnDisk,
       OnDisk, LockFree
<1>5. ASSUME NEW c \in Clients, SaveStep(c)
      PROVE  (OneSave /\ OnlyServing /\ MemoryIsLoaded /\ SavesAgree)'
  <2>1. /\ saving[c].phase # "idle" /\ backend = "serving" /\ backend' = backend
        /\ \A d \in Clients : d # c => saving'[d] = saving[d]
    BY <1>5 DEF SaveStep, WriteFile, WriteFails, Remember, QueueSnapshot, Becomes, saveRest,
       OnlyServing, StoreTypeOK, Idle
  <2>2. saving[c].config \in Configs
        /\ saving[c] = [phase |-> saving[c].phase, config |-> saving[c].config]
    BY <2>1, SavePhases
  <2>3. MemoryIsLoaded' /\ OnlyServing'
    BY <1>5, <2>1, <2>2 DEF SaveStep, WriteFile, WriteFails, Remember, QueueSnapshot,
       MemoryIsLoaded, OnlyServing
  <2>4. CASE WriteFile(c)
    <3>1. saving'[c].phase = "written" /\ saving'[c].config = saving[c].config
      BY <2>4, <2>2 DEF WriteFile, Becomes, StoreTypeOK
    <3>2. disk' = saving[c].config /\ \A d \in Clients : ~Holds(d)
      BY <2>4, <1>0 DEF WriteFile, LockFree, Holds
    <3> QED
      BY <2>1, <2>3, <3>1, <3>2 DEF OneSave, Holds, SavesAgree, AcknowledgedIsOnDisk, LockFree, OnDisk
  <2>5. CASE WriteFails(c)
    <3>1. saving'[c] = Idle /\ \A d \in Clients : ~Holds(d)
      BY <2>5, <1>0 DEF WriteFails, LockFree, Holds, StoreTypeOK
    <3>2. AcknowledgedIsOnDisk'
      BY <2>5, <2>1 DEF WriteFails, SavesAgree, AcknowledgedIsOnDisk
    <3> QED
      BY <2>1, <2>3, <3>1, <3>2 DEF OneSave, Holds, SavesAgree, Idle
  <2>6. CASE Remember(c)
    <3>1. saving'[c].phase = "remembered" /\ saving'[c].config = saving[c].config
      BY <2>6, <2>2 DEF Remember, Becomes, StoreTypeOK
    <3>2. \A d \in Clients : Holds(d) => d = c
      BY <2>6 DEF Remember, Holds, OneSave
    <3> QED
      BY <2>1, <2>3, <2>6, <3>1, <3>2
      DEF Remember, OneSave, Holds, SavesAgree, AcknowledgedIsOnDisk, LockFree, OnDisk
  <2>7. CASE QueueSnapshot(c)
    <3>1. saving'[c] = Idle /\ UNCHANGED <<disk, memory, overwritten>>
      BY <2>7 DEF QueueSnapshot, StoreTypeOK
    <3>2. \A d \in Clients : Holds(d) => d = c
      BY <2>7 DEF QueueSnapshot, Holds, OneSave
    <3> QED
      BY <2>1, <2>3, <2>7, <3>1, <3>2
      DEF QueueSnapshot, OneSave, Holds, SavesAgree, AcknowledgedIsOnDisk, OnDisk, Idle
  <2> QED  BY <1>5, <2>4, <2>5, <2>6, <2>7 DEF SaveStep
<1>6. CASE WorkerStep \/ UNCHANGED storeVars
  <2>1. UNCHANGED <<disk, backend, memory, saving, overwritten>>
    BY <1>6 DEF WorkerStep, TakeNewest, RefreshFirewall, SkipSchedules, DeleteTasks, CreateTask,
       SyncFails, SyncCompletes, workerRest, desktopVars, storeVars
  <2>2. backend # "serving" => UNCHANGED <<queue, worker, applied>>
    BY <1>6 DEF WorkerStep, TakeNewest, RefreshFirewall, SkipSchedules, DeleteTasks, CreateTask,
       SyncFails, SyncCompletes, OnlyServing, Idle, storeVars, windowsVars
  <2> QED
    BY <2>1, <2>2 DEF OneSave, Holds, OnlyServing, MemoryIsLoaded, SavesAgree, AcknowledgedIsOnDisk,
       LockFree, OnDisk
<1> QED  BY <1>1, <1>2, <1>3, <1>4, <1>5, <1>6 DEF Next

-----------------------------------------------------------------------------
(* The worker *)

LEMMA QueueStep == ASSUME SInv, [Next]_storeVars PROVE NewestQueued'
<1> USE DEF SInv
<1>1. CASE LoadReads \/ LoadSaves \/ FileDamaged \/ DesktopReads \/ DesktopSaves
  BY <1>1 DEF LoadReads, LoadSaves, FileDamaged, DesktopReads, DesktopSaves, windowsVars,
     NewestQueued
<1>2. CASE Serve
  <2>1. queue' # <<>> /\ queue'[Len(queue')] = memory'
    BY <1>2 DEF Serve
  <2> QED  BY <2>1 DEF NewestQueued
<1>3. CASE Crash
  BY <1>3 DEF Crash, NewestQueued
<1>4. ASSUME NEW c \in Clients, NEW cfg \in Configs, Request(c, cfg)  PROVE NewestQueued'
  <2>1. /\ saving[c].phase = "idle"
        /\ \A d \in Clients : d # c => saving'[d] = saving[d]
    BY <1>4, SavePhases DEF Request, StoreTypeOK
  <2> QED  BY <1>4, <2>1 DEF Request, windowsVars, NewestQueued
<1>5. ASSUME NEW c \in Clients, SaveStep(c)  PROVE NewestQueued'
  <2>1. \A d \in Clients : d # c => saving'[d] = saving[d]
    BY <1>5 DEF SaveStep, WriteFile, WriteFails, Remember, QueueSnapshot, Becomes, StoreTypeOK
  <2>2. CASE WriteFile(c) \/ WriteFails(c)
    <3>1. saving[c].phase # "remembered"
      BY <2>2 DEF WriteFile, WriteFails
    <3> QED
      BY <2>1, <2>2, <3>1 DEF WriteFile, WriteFails, saveRest, windowsVars, NewestQueued
  <2>3. CASE Remember(c)
    <3>1. saving'[c].phase = "remembered"
      <4>1. saving[c] = [phase |-> saving[c].phase, config |-> saving[c].config]
        BY <2>3, SavePhases DEF Remember
      <4> QED  BY <2>3, <4>1 DEF Remember, Becomes, StoreTypeOK
    <3> QED  BY <3>1 DEF NewestQueued
  <2>4. CASE QueueSnapshot(c)
    <3>1. memory = saving[c].config /\ saving[c].config \in Configs
      BY <2>4, SavePhases DEF QueueSnapshot, SavesAgree
    <3>2. queue' # <<>> /\ queue'[Len(queue')] = memory
      BY <2>4, <3>1 DEF QueueSnapshot, StoreTypeOK
    <3> QED  BY <2>4, <3>2 DEF QueueSnapshot, NewestQueued
  <2> QED  BY <1>5, <2>2, <2>3, <2>4 DEF SaveStep
<1>6. CASE TakeNewest
  BY <1>6 DEF TakeNewest, workerRest, NewestQueued
<1>7. CASE RefreshFirewall \/ SkipSchedules \/ DeleteTasks \/ CreateTask \/ SyncFails \/ SyncCompletes
           \/ UNCHANGED storeVars
  <2>1. UNCHANGED <<backend, memory, saving, queue, seen>>
    BY <1>7 DEF RefreshFirewall, SkipSchedules, DeleteTasks, CreateTask, SyncFails, SyncCompletes,
       workerRest, storeVars, windowsVars
  <2> QED  BY <2>1 DEF NewestQueued
<1> QED  BY <1>1, <1>2, <1>3, <1>4, <1>5, <1>6, <1>7 DEF Next, WorkerStep

LEMMA WorkStep == ASSUME SInv, [Next]_storeVars PROVE WorkDone'
<1> USE DEF SInv
<1>1. CASE UNCHANGED windowsVars
  BY <1>1 DEF windowsVars, WorkDone
<1>2. CASE Crash
  BY <1>2 DEF Crash, WorkDone, NothingApplied, Idle
<1>3. CASE TakeNewest
  <2>1. queue[Len(queue)] \in Configs
    BY <1>3 DEF TakeNewest, StoreTypeOK
  <2>2. /\ worker' = [phase |-> "firewall", config |-> seen'] /\ worker.phase = "idle"
        /\ UNCHANGED <<applied, tasks, log>>
    BY <1>3 DEF TakeNewest, Idle
  <2>3. worker'.phase = "firewall" /\ worker'.config = seen' /\ worker' # Idle
    <3>1. worker'.phase # Idle.phase
      BY <2>2 DEF Idle
    <3> QED  BY <2>2, <3>1
  <2> QED  BY <2>2, <2>3 DEF WorkDone
<1>4. CASE RefreshFirewall
  <2>1. worker # Idle /\ worker = [phase |-> "firewall", config |-> worker.config]
    BY <1>4, WorkPhases DEF RefreshFirewall
  <2>2. worker' = [phase |-> "schedules", config |-> worker.config]
    BY <1>4, <2>1 DEF RefreshFirewall
  <2>3. worker'.phase = "schedules" /\ worker'.config = worker.config /\ worker' # Idle
    <3>1. worker'.phase # Idle.phase
      BY <2>2 DEF Idle
    <3> QED  BY <2>2, <3>1
  <2>4. applied'.schedules = applied.schedules /\ UNCHANGED <<tasks, log, seen>>
    BY <1>4 DEF RefreshFirewall, StoreTypeOK
  <2> QED  BY <2>1, <2>3, <2>4 DEF WorkDone
<1>5. CASE SkipSchedules
  <2>1. worker # Idle /\ worker.phase = "schedules" /\ worker.config \in Configs
    BY <1>5, WorkPhases DEF SkipSchedules
  <2>2. worker.config = seen /\ seen # None
    BY <2>1, StoreAssumption DEF WorkDone
  <2> QED  BY <1>5, <2>1, <2>2 DEF SkipSchedules, WorkDone, Idle
<1>6. CASE DeleteTasks
  <2>1. worker # Idle
    BY <1>6, WorkPhases DEF DeleteTasks
  <2>2. worker'.phase = "creating" /\ worker'.config = worker.config /\ worker' # Idle
        /\ worker'.todo = WakeTasks(worker.config.schedules)
    <3>1. worker'.phase # Idle.phase
      BY <1>6 DEF DeleteTasks, Idle
    <3> QED  BY <1>6, <3>1 DEF DeleteTasks
  <2> QED  BY <1>6, <2>1, <2>2 DEF DeleteTasks, WorkDone
<1>7. CASE CreateTask
  <2>1. /\ worker # Idle /\ worker.todo \subseteq AllTasks
        /\ worker = [phase |-> "creating", config |-> worker.config, todo |-> worker.todo]
    BY <1>7, WorkPhases DEF CreateTask
  <2>2. PICK task \in worker.todo :
          tasks' = tasks \cup {task} /\ worker' = [worker EXCEPT !.todo = @ \ {task}]
    BY <1>7 DEF CreateTask
  <2>3. /\ worker' = [phase |-> "creating", config |-> worker.config, todo |-> worker.todo \ {task}]
    BY <2>1, <2>2
  <2>4. /\ worker'.phase = "creating" /\ worker'.config = worker.config /\ worker' # Idle
        /\ worker'.todo = worker.todo \ {task}
    <3>1. worker'.phase # Idle.phase
      BY <2>3 DEF Idle
    <3> QED  BY <2>3, <3>1
  <2>5. tasks' \cup worker'.todo = tasks \cup worker.todo
    BY <2>2, <2>4
  <2> QED  BY <1>7, <2>1, <2>4, <2>5 DEF CreateTask, WorkDone
<1>8. CASE SyncFails
  BY <1>8 DEF SyncFails, WorkDone, Idle
<1>9. CASE SyncCompletes
  <2>1. worker # Idle /\ worker.config \in Configs /\ worker.config = seen /\ seen # None
    BY <1>9, WorkPhases, StoreAssumption DEF SyncCompletes, WorkDone
  <2>2. tasks = WakeTasks(worker.config.schedules)
    BY <1>9 DEF SyncCompletes, WorkDone
  <2>3. applied'.schedules = worker.config.schedules
    BY <1>9 DEF SyncCompletes, StoreTypeOK
  <2> QED  BY <1>9, <2>1, <2>2, <2>3 DEF SyncCompletes, WorkDone, Idle
<1> QED
  BY <1>1, <1>2, <1>3, <1>4, <1>5, <1>6, <1>7, <1>8, <1>9
  DEF Next, WorkerStep, SaveStep, LoadReads, LoadSaves, Serve, FileDamaged, DesktopReads,
      DesktopSaves, Request, WriteFile, WriteFails, Remember, QueueSnapshot, saveRest, storeVars

LEMMA StoreStep == SInv /\ [Next]_storeVars => SInv'
<1> SUFFICES ASSUME SInv, [Next]_storeVars PROVE SInv'
  OBVIOUS
<1>1. StoreTypeOK'
  <2>1. CASE UNCHANGED storeVars
    BY <2>1 DEF storeVars, windowsVars, desktopVars, counters, SInv, StoreTypeOK
  <2> QED  BY <2>1, TypesOfSaving, TypesOfWorker DEF SInv, Next
<1> QED  BY <1>1, LockStep, QueueStep, WorkStep DEF SInv

LEMMA StoreInvariance == Spec => []SInv
BY InitStore, StoreStep, PTL DEF Spec

-----------------------------------------------------------------------------
\* The store, the saves in progress and the worker keep their types; what a damaged
\* file holds never becomes the configuration.
THEOREM StoreTyped == Spec => []StoreTypeOK
<1>1. SInv => StoreTypeOK
  BY DEF SInv
<1> QED  BY <1>1, StoreInvariance, PTL

\* No acknowledged save is lost by a crash, and no failed one leaves anything behind,
\* for any number of clients at once.
THEOREM AcknowledgedIsKept == Spec => []AcknowledgedIsOnDisk
<1>1. SInv => AcknowledgedIsOnDisk
  BY DEF SInv, SavesAgree
<1> QED  BY <1>1, StoreInvariance, PTL

\* When everything is quiet after a completed wake sync, the wake tasks are those of
\* the configuration, whatever was saved, failed or superseded before.
THEOREM TimersAreCurrent == Spec => []TimersFollowConfig
<1>1. SInv => TimersFollowConfig
  <2> SUFFICES ASSUME SInv, backend = "serving", LockFree, queue = <<>>, worker = Idle,
                      log = "completed", applied.schedules # None
               PROVE  tasks = WakeTasks(memory.schedules)
    BY DEF TimersFollowConfig
  <2>1. seen = memory
    BY DEF SInv, NewestQueued, LockFree
  <2>2. tasks = WakeTasks(applied.schedules) /\ applied.schedules = seen.schedules
    BY DEF SInv, WorkDone, Idle
  <2> QED  BY <2>1, <2>2
<1> QED  BY <1>1, StoreInvariance, PTL

-----------------------------------------------------------------------------
(* Wake times *)

LEMMA Quotients ==
    ASSUME NEW D \in Nat \ {0}, NEW n \in Int
    PROVE  /\ 0 <= n /\ n < D => n \div D = 0 /\ n % D = n
           /\ -D <= n /\ n < 0 => n \div D = -1 /\ n % D = n + D
<1>1. CASE 0 <= n /\ n < D
  BY <1>1, SMT
<1>2. CASE -D <= n /\ n < 0
  BY <1>2, SMT
<1> QED  BY <1>1, <1>2

\* A wake is the lead ahead of the start it is for, and in the week.
LEMMA WakeIsAhead ==
    ASSUME NEW w, NEW day \in 1..7, w.start \in 0..(DayMinutes - 1), w.lead \in Nat
    PROVE  LET at   == WakeMoment(w, day)
               lead == IF w.lead < DayMinutes THEN w.lead ELSE DayMinutes
           IN  /\ at.day \in 1..7 /\ at.minute \in 0..(DayMinutes - 1)
               /\ (StartMinute(w, day) - ((at.day - 1) * DayMinutes + at.minute)) % WeekMinutes = lead
<1> DEFINE lead == IF w.lead < DayMinutes THEN w.lead ELSE DayMinutes
           wake == w.start - lead
           at   == WakeMoment(w, day)
           ahead == StartMinute(w, day) - ((at.day - 1) * DayMinutes + at.minute)
<1>1. DayMinutes \in Nat \ {0} /\ lead \in 0..DayMinutes
  BY DayMinutesAssumption
<1>2. wake \in Int /\ -DayMinutes <= wake /\ wake < DayMinutes
  BY <1>1
<1>3. CASE wake >= 0
  <2>1. wake \div DayMinutes = 0 /\ wake % DayMinutes = wake
    BY <1>1, <1>2, <1>3, Quotients
  <2>2. at.day = day /\ at.minute = wake
    BY <2>1 DEF WakeMoment
  <2>3. ahead = lead
    BY <1>1, <2>2 DEF StartMinute
  <2>4. ahead % WeekMinutes = lead
    BY <1>1, <2>3, Quotients DEF WeekMinutes
  <2> QED  BY <1>1, <1>2, <1>3, <2>2, <2>4
<1>4. CASE wake < 0
  <2>1. wake \div DayMinutes = -1 /\ wake % DayMinutes = wake + DayMinutes
    BY <1>1, <1>2, <1>4, Quotients
  <2>2. at.day = (IF day = 1 THEN 7 ELSE day - 1) /\ at.minute = wake + DayMinutes
    BY <2>1 DEF WakeMoment
  <2>3. CASE day = 1
    <3>1. ahead = lead - WeekMinutes
      BY <1>1, <2>2, <2>3 DEF StartMinute, WeekMinutes
    <3>2. /\ WeekMinutes \in Nat \ {0} /\ ahead \in Int
          /\ -WeekMinutes <= ahead /\ ahead < 0
      BY <1>1, <3>1 DEF WeekMinutes
    <3>3. ahead % WeekMinutes = ahead + WeekMinutes
      BY <3>2, Quotients
    <3>4. ahead % WeekMinutes = lead
      BY <1>1, <3>1, <3>3 DEF WeekMinutes
    <3> QED  BY <1>1, <1>2, <1>4, <2>2, <2>3, <3>4
  <2>4. CASE day # 1
    <3>1. ahead = lead
      BY <1>1, <2>2, <2>4 DEF StartMinute
    <3>2. ahead % WeekMinutes = lead
      BY <1>1, <3>1, Quotients DEF WeekMinutes
    <3> QED  BY <1>1, <1>2, <1>4, <2>2, <2>4, <3>2
  <2> QED  BY <2>3, <2>4
<1> QED  BY <1>1, <1>2, <1>3, <1>4

\* Every wake task wakes the computer as long before a start as was asked, up to a
\* day, for any number of minutes in a day.
THEOREM WakesInTime == Spec => []WakesAheadOfStart
<1>1. SInv => WakesAheadOfStart
  <2> SUFFICES ASSUME SInv, NEW task \in tasks
               PROVE  \E c \in Configs : \E w \in c.schedules :
                         /\ w.id = task.id /\ task.for \in w.days
                         /\ task.at.day \in 1..7 /\ task.at.minute \in 0..(DayMinutes - 1)
                         /\ (StartMinute(w, task.for) - WakeMinute(task)) % WeekMinutes
                              = IF w.lead < DayMinutes THEN w.lead ELSE DayMinutes
    BY DEF WakesAheadOfStart
  <2>1. PICK c \in Configs : task \in WakeTasks(c.schedules)
    BY DEF SInv, StoreTypeOK, AllTasks
  <2>2. PICK w \in c.schedules : \E d \in w.days \cap (1..7) :
          task = [id |-> w.id, for |-> d, at |-> WakeMoment(w, d)]
    BY <2>1 DEF WakeTasks
  <2>3. w.start \in 0..(DayMinutes - 1) /\ w.lead \in Nat
    BY WindowAssumption
  <2>4. PICK d \in w.days \cap (1..7) : task = [id |-> w.id, for |-> d, at |-> WakeMoment(w, d)]
    BY <2>2
  <2>5. task.id = w.id /\ task.for = d /\ task.at = WakeMoment(w, d)
    BY <2>4
  <2> QED  BY <2>3, <2>4, <2>5, WakeIsAhead DEF WakeMinute
<1> QED  BY <1>1, StoreInvariance, PTL
=============================================================================
