-------------------------------- MODULE ConfigStore --------------------------------
(***************************************************************************)
(* The configuration of MinerDesk: one file, the copy in the memory of the *)
(* backend, and the worker that brings Windows into line with it (lib.rs,  *)
(* config_sync.rs).  API threads save whole configurations concurrently,   *)
(* one at a time under the config_io lock; a save writes the file, then    *)
(* the memory, then queues a snapshot for the worker.  The worker takes    *)
(* the newest snapshot, refreshes the firewall rule of the web page, and   *)
(* replaces every wake task: it deletes them all and creates them again    *)
(* one by one.  On Windows the Desktop is a second process that loads the  *)
(* same file, and loading it writes it back.                               *)
(***************************************************************************)
EXTENDS WakeTimers, Sequences, FiniteSets

CONSTANTS
    Clients,         \* API threads
    Configs,         \* configurations, records of schedules and web
    DefaultConfig,   \* AppConfig::default()
    Unreadable,      \* a file that cannot be read or parsed
    None,            \* no configuration, or no value yet
    Faults,          \* what may go wrong: "disk", "sync", "crash", "torn"
    DesktopLoads,    \* TRUE when a Desktop process loads the file too (Windows)
    MaxSaves, MaxStarts   \* bounds on the saves and the starts of a behaviour

ASSUME StoreAssumption ==
    /\ DefaultConfig \in Configs
    /\ Unreadable \notin Configs /\ None \notin Configs /\ Unreadable # None
    /\ Faults \subseteq {"disk", "sync", "crash", "torn"}
    /\ DesktopLoads \in BOOLEAN
    /\ MaxSaves \in Nat /\ MaxStarts \in Nat

\* A start is a time of day (parse_time), a lead an unsigned number.
ASSUME WindowAssumption ==
    \A c \in Configs : \A w \in c.schedules : w.start \in 0..(DayMinutes - 1) /\ w.lead \in Nat

VARIABLES
    disk,        \* the configuration file
    backend,     \* "down", "loading", "loaded" or "serving"
    memory,      \* CoreState.config of the backend
    saving,      \* for each client, the save it performs
    queue,       \* snapshots the worker has not taken
    worker,      \* what the worker is doing
    applied,     \* applied_web and applied_schedules, kept by the worker
    seen,        \* the last snapshot the worker has taken
    tasks,       \* wake tasks registered in Windows
    rule,        \* the web setting the firewall rule was made for
    log,         \* the last wake sync in the diagnostics: "none", "completed" or "failed"
    desktop,     \* the configuration the Desktop has loaded and not written back yet
    overwritten, \* the Desktop's last write changed the file, and nobody wrote since
    saves, starts

windowsVars == <<worker, applied, seen, tasks, rule, log>>
counters == <<saves, starts>>
desktopVars == <<desktop, overwritten>>
storeVars == <<disk, backend, memory, saving, queue, windowsVars, desktopVars, counters>>

Idle == [phase |-> "idle"]
AllTasks == UNION {WakeTasks(c.schedules) : c \in Configs}

Saves == [phase : {"waiting", "written", "remembered"}, config : Configs]
Work == [phase : {"firewall", "schedules"}, config : Configs]
        \cup [phase : {"creating"}, config : Configs, todo : SUBSET AllTasks]

StoreTypeOK ==
    /\ disk \in Configs \cup {None, Unreadable}
    /\ backend \in {"down", "loading", "loaded", "serving"}
    /\ memory \in Configs \cup {None} /\ desktop \in Configs \cup {None}
    /\ saving \in [Clients -> Saves \cup {Idle}]
    /\ queue \in Seq(Configs)
    /\ worker \in Work \cup {Idle}
    /\ applied \in [web : {c.web : c \in Configs} \cup {None},
                    schedules : {c.schedules : c \in Configs} \cup {None}]
    /\ seen \in Configs \cup {None} /\ overwritten \in BOOLEAN
    /\ tasks \subseteq AllTasks
    /\ rule \in {c.web : c \in Configs} \cup {None}
    /\ log \in {"none", "completed", "failed"}
    /\ saves \in 0..MaxSaves /\ starts \in 0..MaxStarts

NothingApplied == [web |-> None, schedules |-> None]

Init ==
    /\ disk = None /\ backend = "down" /\ memory = None
    /\ desktop = None /\ overwritten = FALSE
    /\ saving = [c \in Clients |-> Idle]
    /\ queue = <<>> /\ worker = Idle /\ applied = NothingApplied /\ seen = None
    /\ tasks = {} /\ rule = None /\ log = "none"
    /\ saves = 0 /\ starts = 0

-----------------------------------------------------------------------------
(* Loading *)

\* Mutation: whatever the file holds is taken.
LoadedUnchecked == disk

\* CoreState::load: a file that is missing or unreadable gives the defaults.
Loaded == IF disk \in Configs THEN disk ELSE DefaultConfig

LoadReads ==
    /\ backend = "down" /\ starts < MaxStarts
    /\ starts' = starts + 1
    /\ backend' = "loading"
    /\ memory' = Loaded
    /\ UNCHANGED <<disk, saving, queue, windowsVars, desktopVars, saves>>

\* The loaded configuration is written back at once; a process that cannot
\* write it ends.
LoadSaves ==
    /\ backend = "loading"
    /\ \/ disk' = memory /\ overwritten' = FALSE /\ backend' = "loaded" /\ memory' = memory
       \/ /\ "disk" \in Faults
          /\ backend' = "down" /\ memory' = None
          /\ UNCHANGED <<disk, overwritten>>
    /\ UNCHANGED <<saving, queue, windowsVars, desktop, counters>>

LockFree == \A c \in Clients : saving[c].phase \in {"idle", "waiting"}

\* Mutation: the worker is started without the snapshot of that moment.
ServeUnsynced ==
    /\ backend = "loaded" /\ LockFree
    /\ backend' = "serving"
    /\ UNCHANGED <<disk, memory, saving, queue, windowsVars, desktopVars, counters>>

\* serve_bound_web: the worker starts under the config_io lock, with the
\* configuration of that moment queued first.
Serve ==
    /\ backend = "loaded" /\ LockFree
    /\ backend' = "serving"
    /\ queue' = <<memory>>
    /\ UNCHANGED <<disk, memory, saving, windowsVars, desktopVars, counters>>

\* The backend process ends; what the worker was doing to Windows stops there.
Crash ==
    /\ "crash" \in Faults /\ backend # "down"
    /\ backend' = "down" /\ memory' = None
    /\ saving' = [c \in Clients |-> Idle]
    /\ queue' = <<>> /\ worker' = Idle /\ applied' = NothingApplied /\ seen' = None
    /\ UNCHANGED <<disk, tasks, rule, log, desktopVars, counters>>

\* Something else than MinerDesk damages the file.
FileDamaged ==
    /\ "torn" \in Faults /\ backend = "down"
    /\ disk' = Unreadable
    /\ UNCHANGED <<backend, memory, saving, queue, windowsVars, desktopVars, counters>>

\* The Desktop loads the file when it starts, when it exits and before it
\* installs an update: it reads...
DesktopReads ==
    /\ DesktopLoads /\ desktop = None
    /\ desktop' = Loaded
    /\ UNCHANGED <<disk, backend, memory, saving, queue, windowsVars, overwritten, counters>>

\* ...and writes back what it has read.
DesktopSaves ==
    /\ desktop # None
    /\ disk' = desktop
    /\ overwritten' = (overwritten \/ disk # desktop)
    /\ desktop' = None
    /\ UNCHANGED <<backend, memory, saving, queue, windowsVars, counters>>

-----------------------------------------------------------------------------
(* Saving *)

Becomes(c, phase) == saving' = [saving EXCEPT ![c].phase = phase]
saveRest == <<backend, windowsVars, desktop, counters>>

\* api_put_config, on a thread of its own.
Request(c, cfg) ==
    /\ backend = "serving" /\ saving[c] = Idle /\ saves < MaxSaves
    /\ saving' = [saving EXCEPT ![c] = [phase |-> "waiting", config |-> cfg]]
    /\ saves' = saves + 1
    /\ UNCHANGED <<disk, backend, memory, queue, windowsVars, desktopVars, starts>>

\* replace_config takes the lock and renames a complete temporary file over
\* the old one...
WriteFile(c) ==
    /\ saving[c].phase = "waiting" /\ LockFree
    /\ disk' = saving[c].config /\ overwritten' = FALSE
    /\ Becomes(c, "written")
    /\ UNCHANGED <<memory, queue, saveRest>>

\* Mutation: the memory changes although the file could not be written.
WriteFailsRemembered(c) ==
    /\ "disk" \in Faults
    /\ saving[c].phase = "waiting" /\ LockFree
    /\ memory' = saving[c].config
    /\ saving' = [saving EXCEPT ![c] = Idle]
    /\ UNCHANGED <<disk, overwritten, queue, saveRest>>

\* ...or fails, and nothing has changed.
WriteFails(c) ==
    /\ "disk" \in Faults
    /\ saving[c].phase = "waiting" /\ LockFree
    /\ saving' = [saving EXCEPT ![c] = Idle]
    /\ UNCHANGED <<disk, overwritten, memory, queue, saveRest>>

\* Mutation: the lock is released before the snapshot is queued.
RememberAndUnlock(c) ==
    /\ saving[c].phase = "written"
    /\ memory' = saving[c].config
    /\ saving' = [saving EXCEPT ![c] = Idle]
    /\ UNCHANGED <<disk, overwritten, queue, saveRest>>

Remember(c) ==
    /\ saving[c].phase = "written"
    /\ memory' = saving[c].config
    /\ Becomes(c, "remembered")
    /\ UNCHANGED <<disk, overwritten, queue, saveRest>>

\* The snapshot is queued under the lock, which is then released.
QueueSnapshot(c) ==
    /\ saving[c].phase = "remembered"
    /\ queue' = Append(queue, saving[c].config)
    /\ saving' = [saving EXCEPT ![c] = Idle]
    /\ UNCHANGED <<disk, overwritten, memory, saveRest>>

-----------------------------------------------------------------------------
(* The Windows worker *)

workerRest == <<disk, backend, memory, saving, desktopVars, counters>>

\* config_sync: the newest snapshot supersedes those before it.
TakeNewest ==
    /\ worker = Idle /\ queue # <<>>
    /\ worker' = [phase |-> "firewall", config |-> queue[Len(queue)]]
    /\ seen' = queue[Len(queue)]
    /\ queue' = <<>>
    /\ UNCHANGED <<applied, tasks, rule, log, workerRest>>

\* refresh_windows_web_firewall removes the rule and makes it again, when the
\* setting is not the one applied last.
RefreshFirewall ==
    /\ worker.phase = "firewall"
    /\ LET web == worker.config.web IN
       \/ applied.web = web /\ UNCHANGED <<applied, rule>>
       \/ applied.web # web /\ rule' = web /\ applied' = [applied EXCEPT !.web = web]
       \/ applied.web # web /\ "sync" \in Faults /\ rule' = None /\ UNCHANGED applied
    /\ worker' = [worker EXCEPT !.phase = "schedules"]
    /\ UNCHANGED <<queue, seen, tasks, log, workerRest>>

\* A configuration whose schedules are those applied last leaves the tasks alone.
SkipSchedules ==
    /\ worker.phase = "schedules" /\ applied.schedules = worker.config.schedules
    /\ worker' = Idle
    /\ UNCHANGED <<queue, applied, seen, tasks, rule, log, workerRest>>

\* sync_windows_wake_tasks deletes every task of MinerDesk...
DeleteTasks ==
    /\ worker.phase = "schedules" /\ applied.schedules # worker.config.schedules
    /\ tasks' = {}
    /\ worker' = [phase |-> "creating", config |-> worker.config,
                  todo |-> WakeTasks(worker.config.schedules)]
    /\ UNCHANGED <<queue, applied, seen, rule, log, workerRest>>

\* ...creates them one after the other...
CreateTask ==
    /\ worker.phase = "creating"
    /\ \E task \in worker.todo :
        /\ tasks' = tasks \cup {task}
        /\ worker' = [worker EXCEPT !.todo = @ \ {task}]
    /\ UNCHANGED <<queue, applied, seen, rule, log, workerRest>>

\* ...and gives up at the first that fails: the failure is logged and nothing more.
SyncFails ==
    /\ "sync" \in Faults
    /\ \/ worker.phase = "schedules" /\ applied.schedules # worker.config.schedules
       \/ worker.phase = "creating" /\ worker.todo # {}
    /\ log' = "failed"
    /\ worker' = Idle
    /\ UNCHANGED <<queue, applied, seen, tasks, rule, workerRest>>

SyncCompletes ==
    /\ worker.phase = "creating" /\ worker.todo = {}
    /\ applied' = [applied EXCEPT !.schedules = worker.config.schedules]
    /\ log' = "completed"
    /\ worker' = Idle
    /\ UNCHANGED <<queue, seen, tasks, rule, workerRest>>

-----------------------------------------------------------------------------
SaveStep(c) == WriteFile(c) \/ WriteFails(c) \/ Remember(c) \/ QueueSnapshot(c)

WorkerStep ==
    \/ TakeNewest \/ RefreshFirewall \/ SkipSchedules
    \/ DeleteTasks \/ CreateTask \/ SyncFails \/ SyncCompletes

Next ==
    \/ LoadReads \/ LoadSaves \/ Serve \/ Crash \/ FileDamaged
    \/ DesktopReads \/ DesktopSaves
    \/ \E c \in Clients, cfg \in Configs : Request(c, cfg)
    \/ \E c \in Clients : SaveStep(c)
    \/ WorkerStep

\* A thread that has begun a save goes on with it, and so does the worker.
Fairness == WF_storeVars(WorkerStep) /\ \A c \in Clients : WF_storeVars(SaveStep(c))

Spec == Init /\ [][Next]_storeVars /\ Fairness

-----------------------------------------------------------------------------
\* What a client has been told is saved is in the file: while no save is under
\* way, the file and the memory of the backend hold the same configuration, so a
\* crash loses no acknowledged save and a failed one leaves nothing behind.
\* The Desktop is the one exception: a load that overlaps a save undoes it.
AcknowledgedIsOnDisk ==
    backend \in {"loaded", "serving"} /\ LockFree => disk = memory \/ overwritten

\* Saves that overlap, fail or follow each other faster than Windows works: when
\* everything is quiet and the last wake sync has completed, the tasks
\* are those of the configuration in memory, none missing and none left over.
TimersFollowConfig ==
    /\ backend = "serving" /\ LockFree /\ queue = <<>> /\ worker = Idle
    /\ log = "completed" /\ applied.schedules # None
    => tasks = WakeTasks(memory.schedules)

\* A wake task goes off exactly the asked number of minutes (at most a day)
\* before the start it was made for, also across midnight and from Monday back to
\* Sunday.
WakesAheadOfStart ==
    \A task \in tasks : \E c \in Configs : \E w \in c.schedules :
        /\ w.id = task.id /\ task.for \in w.days
        /\ task.at.day \in 1..7 /\ task.at.minute \in 0..(DayMinutes - 1)
        /\ (StartMinute(w, task.for) - WakeMinute(task)) % WeekMinutes
             = IF w.lead < DayMinutes THEN w.lead ELSE DayMinutes

\* The newest configuration reaches Windows: the worker takes it, unless a newer
\* one replaces it or the backend ends.
NewestReachesWorker ==
    \A cfg \in Configs :
        (backend = "serving" /\ memory = cfg)
            ~> (seen = cfg \/ memory # cfg \/ backend # "serving")
=============================================================================
