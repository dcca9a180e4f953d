------------------------------ MODULE MinerLifecycle ------------------------------
(***************************************************************************)
(* The life of the miner processes of one MinerDesk backend (CoreState in  *)
(* lib.rs): the commands of the HTTP API, the scheduler thread, the        *)
(* wallet switches of the dev tip, shutdown, crash and restart.            *)
(*                                                                         *)
(* Every start, stop and restart holds the `lifecycle` mutex.  The mutex   *)
(* is free when neither `launch` nor `tick` is in progress: `launch` is    *)
(* the call of start_miner_mode_locked under way, `tick` the pass of       *)
(* scheduler_tick_locked under way.  What the code does while it holds the *)
(* mutex and can be interleaved with the rest of the program (the spawn of *)
(* a process, which may wait two minutes for a password, and the starts of *)
(* one scheduler pass) takes several steps here; configuration edits, the  *)
(* exit of a process, status polls, the shutdown flag and the clock move   *)
(* between them.  Error texts and logs are left out.                       *)
(***************************************************************************)
EXTENDS ScheduleControl

CONSTANTS
    Miners,       \* profile identifiers
    Schedules,    \* schedule identifiers
    Gpus,         \* GPU identifiers a profile may name
    AllGpus,      \* an empty gpu_ids field
    NoProfile, NoWindow,   \* a profile, a schedule the configuration lacks
    Configs,      \* the configurations a client may save
    CrashGuard,   \* TRUE on Windows: a job object kills the miners of a dead backend
    Faults,       \* what may go wrong: see FaultKinds
    MaxClock,     \* bound on the clock
    SetBack,      \* the seconds the local clock loses when it is set back
    NoChild, NoLaunch, NoTick, NoPower

FaultKinds == {"launch",     \* a launch the guards allow fails
               "stop",       \* an elevated supervisor does not confirm a stop
               "persist",    \* the holds cannot be written to disk
               "crash",      \* the backend dies without a shutdown
               "exit",       \* the owner shuts the backend down
               "update",     \* an application update stops it, and may fail
               "edit",       \* the configuration is saved
               "die",        \* a miner exits by itself
               "tip",        \* the dev tip switches wallets
               "clock"}      \* the local clock is set back (end of summer time)

Profile == [enabled: BOOLEAN, gpus: SUBSET Gpus \cup {AllGpus},
            overlap: BOOLEAN, root: BOOLEAN]

Window == [enabled: BOOLEAN, days: SUBSET Weekday, start: TimeOfDay, end: TimeOfDay,
           miners: SUBSET Miners, suspends: BOOLEAN]

Config == [miners: [Miners -> Profile \cup {NoProfile}],
           schedules: [Schedules -> Window \cup {NoWindow}]]

ASSUME LifecycleAssumption ==
    /\ Configs \subseteq Config
    /\ CrashGuard \in BOOLEAN
    /\ Faults \subseteq FaultKinds
    /\ MaxClock \in Nat
    /\ SetBack \in Nat

VARIABLES
    now,          \* the host's local time, in seconds
    cfg,          \* the configuration, in memory and on disk
    child,        \* the tracked process of each profile (children)
    untracked,    \* profiles with a live process no backend tracks
    runtime,      \* the status shown of each profile (MinerRuntimeView)
    holds,        \* manual Stop holds in memory (manual_schedule)
    savedHolds,   \* the same, in scheduler-manual-stops.json
    pending,      \* the schedule whose sleep or hibernation is counting down
    previous,     \* schedules active at the scheduler's previous pass
    scheduler,    \* whether the scheduler thread runs
    backend,      \* where the backend process is in its life
    launch,       \* start_miner_mode_locked in progress, and for whom
    tick          \* scheduler_tick_locked in progress

procVars == <<child, untracked, runtime>>
holdVars == <<holds, savedHolds>>
schedVars == <<previous, scheduler, tick>>
vars == <<now, cfg, procVars, holdVars, pending, schedVars, backend, launch>>

Origin == {"manual", "schedule"}
Process == [alive: BOOLEAN, profile: Profile]
RuntimeView == [running: BOOLEAN, startedBy: Origin \cup {""}, tip: BOOLEAN]
Launch == [by: {"start", "force", "tip", "tick"}, miner: Miners, startedBy: Origin,
           tip: BOOLEAN, profile: Profile \cup {NoProfile}]
Occurrences == Schedules \X Int
Pass == [cfg: Config, active: [Miners -> SUBSET Occurrences],
         windows: SUBSET Schedules, todo: SUBSET Miners]

ASSUME AbsenceAssumption ==
    /\ NoProfile \notin Profile
    /\ NoWindow \notin Window
    /\ NoChild \notin Process
    /\ NoLaunch \notin Launch

TypeOK ==
    /\ now \in 0 .. MaxClock
    /\ cfg \in Configs
    /\ child \in [Miners -> Process \cup {NoChild}]
    /\ untracked \subseteq Miners
    /\ runtime \in [Miners -> RuntimeView]
    /\ holds \in [Miners -> SUBSET Occurrences]
    /\ savedHolds \in [Miners -> SUBSET Occurrences]
    /\ pending \in Schedules \cup {NoPower}
    /\ previous \subseteq Schedules
    /\ scheduler \in {"running", "exited"}
    /\ backend \in {"up", "exiting", "updating", "swept", "installing", "down"}
    /\ launch \in Launch \cup {NoLaunch}
    /\ tick \in Pass \cup {NoTick}

-----------------------------------------------------------------------------
(* What the handlers compute *)

WindowOccurrence(c, s, t) ==
    IF c.schedules[s] = NoWindow THEN {} ELSE ActiveOccurrence(c.schedules[s], Moment(t))

ActiveScheduleIds(c, t) == {s \in Schedules : WindowOccurrence(c, s, t) # {}}

\* active_miners: the occurrences active for each profile.
ScheduleOccurrences(c, t) ==
    [m \in Miners |->
        UNION {{<<s, d>> : d \in WindowOccurrence(c, s, t)} :
               s \in {x \in ActiveScheduleIds(c, t) : m \in c.schedules[x].miners}}]

HasSchedule(c, m) ==
    \E s \in Schedules : /\ c.schedules[s] # NoWindow
                         /\ c.schedules[s].enabled
                         /\ m \in c.schedules[s].miners

ShuttingDown == backend \in {"exiting", "updating", "swept", "installing"}

LifecycleFree == launch = NoLaunch /\ tick = NoTick

Exited(m) == child[m] # NoChild /\ ~child[m].alive
Alive(m) == child[m] # NoChild /\ child[m].alive

MarkStopped(rt, S) ==
    [m \in Miners |-> IF m \in S
                      THEN [running |-> FALSE, startedBy |-> rt[m].startedBy, tip |-> FALSE]
                      ELSE rt[m]]

Untrack(ch, S) == [m \in Miners |-> IF m \in S THEN NoChild ELSE ch[m]]

\* refresh_processes: children that have exited leave both tables.
RefreshedChild == Untrack(child, {m \in Miners : Exited(m)})
RefreshedRuntime == MarkStopped(runtime, {m \in Miners : Exited(m)})
RefreshProcesses == /\ child' = RefreshedChild
                    /\ runtime' = RefreshedRuntime
                    /\ UNCHANGED untracked

\* stop_miner_locked for every profile of S.
StopMiners(S) == /\ child' = Untrack(child, S)
                 /\ runtime' = MarkStopped(runtime, S)
                 /\ UNCHANGED untracked

\* A stop fails, and the child stays tracked, only when a live elevated
\* supervisor does not confirm it.
StopMayFail(m) == "stop" \in Faults /\ Alive(m) /\ child[m].profile.root

\* persist_manual_schedule, which the handlers call when the table changed.
SaveHolds(h) ==
    /\ holds' = h
    /\ \/ h # holds /\ savedHolds' = h
       \/ (h = holds \/ "persist" \in Faults) /\ UNCHANGED savedHolds

\* Mutation: an empty gpu_ids field names no GPU.
GpuConflictNamed(p, q) ==
    /\ ~p.overlap /\ ~q.overlap
    /\ p.gpus # AllGpus /\ q.gpus # AllGpus /\ p.gpus \cap q.gpus # {}

GpuConflict(p, q) ==
    /\ ~p.overlap /\ ~q.overlap
    /\ p.gpus = AllGpus \/ q.gpus = AllGpus \/ p.gpus \cap q.gpus # {}

\* check_gpu_conflict compares saved profiles, of the miners shown as running.
CheckGpuConflict(candidate) ==
    \E o \in Miners : /\ Alive(o)
                      /\ cfg.miners[o] # NoProfile
                      /\ GpuConflict(candidate, cfg.miners[o])

-----------------------------------------------------------------------------
Init ==
    /\ now = 0
    /\ cfg \in Configs
    /\ child = [m \in Miners |-> NoChild]
    /\ untracked = {}
    /\ runtime = [m \in Miners |-> [running |-> FALSE, startedBy |-> "", tip |-> FALSE]]
    /\ holds = [m \in Miners |-> {}]
    /\ savedHolds = [m \in Miners |-> {}]
    /\ pending = NoPower
    /\ previous = {}
    /\ scheduler = "running"
    /\ backend = "up"
    /\ launch = NoLaunch
    /\ tick = NoTick

NewLaunch(by, m, startedBy, tip) ==
    [by |-> by, miner |-> m, startedBy |-> startedBy, tip |-> tip, profile |-> NoProfile]

-----------------------------------------------------------------------------
(* Commands of the API, each holding the mutex from its first read *)

UserOrigin(m) ==
    UserStartOrigin(HasSchedule(cfg, m), ScheduleOccurrences(cfg, now)[m] # {}, FALSE)

MayStart(m) == /\ backend = "up"
               /\ LifecycleFree
               /\ cfg.miners[m] # NoProfile
               /\ cfg.miners[m].enabled

\* Start, Restart and each step of Start all, inside a window or for a profile
\* without one.  A restart first stops the running process; when that stop
\* fails the command ends with an error and has changed nothing.
StartOrRestart(m, restart) ==
    /\ MayStart(m)
    /\ UserOrigin(m) # "waiting"
    /\ IF restart THEN StopMiners({m}) ELSE UNCHANGED procVars
    /\ launch' = NewLaunch("start", m, UserOrigin(m), FALSE)
    /\ UNCHANGED <<now, cfg, holdVars, pending, schedVars, backend>>

\* Mutation: the cleared hold is not written to disk.
StartWaitsUnsaved(m) ==
    /\ MayStart(m)
    /\ UserOrigin(m) = "waiting"
    /\ child' = Untrack(child, {m})
    /\ runtime' = [MarkStopped(runtime, {m}) EXCEPT ![m].startedBy = "schedule"]
    /\ holds' = Resume(holds, m)
    /\ UNCHANGED <<now, cfg, untracked, savedHolds, pending, schedVars, backend, launch>>

\* The same commands outside every window of a scheduled profile: nothing is
\* launched, a running session is stopped, and the profile waits unheld.
StartWaits(m) ==
    /\ MayStart(m)
    /\ UserOrigin(m) = "waiting"
    /\ child' = Untrack(child, {m})
    /\ runtime' = [MarkStopped(runtime, {m}) EXCEPT ![m].startedBy = "schedule"]
    /\ SaveHolds(Resume(holds, m))
    /\ UNCHANGED <<now, cfg, untracked, pending, schedVars, backend, launch>>

\* Force mining drops a sleep countdown before it knows whether it can start.
ForceStart(m) ==
    /\ backend # "down"
    /\ LifecycleFree
    /\ pending' = NoPower
    /\ launch' = NewLaunch("force", m, "manual", FALSE)
    /\ UNCHANGED <<now, cfg, procVars, holdVars, schedVars, backend>>

\* Mutation: a stop that was not confirmed is shown as done.
StopManuallyShown(m) ==
    /\ backend # "down"
    /\ LifecycleFree
    /\ SaveHolds(Pause(holds, m, ScheduleOccurrences(cfg, now)))
    /\ \/ StopMiners({m})
       \/ /\ StopMayFail(m)
          /\ runtime' = MarkStopped(runtime, {m})
          /\ UNCHANGED <<child, untracked>>
    /\ UNCHANGED <<now, cfg, pending, schedVars, backend, launch>>

\* Stop holds the current occurrences, saves the hold, then stops the process,
\* also when the save failed.
StopManually(m) ==
    /\ backend # "down"
    /\ LifecycleFree
    /\ SaveHolds(Pause(holds, m, ScheduleOccurrences(cfg, now)))
    /\ \/ StopMiners({m})
       \/ StopMayFail(m) /\ UNCHANGED procVars
    /\ UNCHANGED <<now, cfg, pending, schedVars, backend, launch>>

\* Stop all holds every profile with an active occurrence, then stops the
\* processes one by one in no particular order, and gives up at the first one
\* that does not confirm.
StopAllManually ==
    /\ backend # "down"
    /\ LifecycleFree
    /\ SaveHolds(PauseAll(holds, ScheduleOccurrences(cfg, now)))
    /\ LET tracked == {m \in Miners : child[m] # NoChild}
       IN  \/ StopMiners(tracked)
           \/ \E f \in tracked : /\ StopMayFail(f)
                                 /\ \E S \in SUBSET (tracked \ {f}) : StopMiners(S)
    /\ UNCHANGED <<now, cfg, pending, schedVars, backend, launch>>

-----------------------------------------------------------------------------
(* start_miner_mode_locked *)

\* The mutex is released, or the scheduler pass goes on with its next profile.
Return ==
    /\ launch' = NoLaunch
    /\ tick' = IF launch.by = "tick"
               THEN [tick EXCEPT !.todo = @ \ {launch.miner}] ELSE tick
    /\ UNCHANGED <<previous, scheduler>>

\* What the caller does after a successful return, the profile having process
\* table `ch` and status table `rt`: a user's command takes the session over,
\* cancels the sleep countdown and clears the profile's hold.
Succeed(ch, rt) ==
    /\ child' = ch
    /\ IF launch.by \in {"start", "force"}
       THEN /\ runtime' = [rt EXCEPT ![launch.miner].startedBy = launch.startedBy]
            /\ pending' = NoPower
            /\ SaveHolds(Resume(holds, launch.miner))
       ELSE /\ runtime' = rt
            /\ UNCHANGED <<pending, holdVars>>
    /\ Return
    /\ UNCHANGED <<now, cfg, untracked, backend>>

\* The checks before a process is created, against the configuration of now.
Launchable(m) ==
    /\ ~ShuttingDown
    /\ cfg.miners[m] # NoProfile
    /\ cfg.miners[m].enabled
    /\ ~CheckGpuConflict(cfg.miners[m])

AlreadyRunning ==
    /\ launch # NoLaunch /\ launch.profile = NoProfile
    /\ ~ShuttingDown
    /\ Alive(launch.miner)
    /\ Succeed(RefreshedChild, RefreshedRuntime)

BeginSpawn ==
    /\ launch # NoLaunch /\ launch.profile = NoProfile
    /\ ~Alive(launch.miner)
    /\ Launchable(launch.miner)
    /\ RefreshProcesses
    /\ launch' = [launch EXCEPT !.profile = cfg.miners[launch.miner]]
    /\ UNCHANGED <<now, cfg, holdVars, pending, schedVars, backend>>

\* The process runs with the profile the checks read, whatever was saved since.
SpawnSucceeds ==
    /\ launch # NoLaunch /\ launch.profile # NoProfile
    /\ LET m == launch.miner
       IN  Succeed([child EXCEPT ![m] = [alive |-> TRUE, profile |-> launch.profile]],
                   [runtime EXCEPT ![m] = [running |-> TRUE, startedBy |-> launch.startedBy,
                                           tip |-> launch.tip]])

\* A refusal, or a failure the guards cannot foresee (no executable, no wallet
\* for the tip, password dialog declined): the caller returns the error.
LaunchFails ==
    /\ launch # NoLaunch
    /\ \/ /\ launch.profile # NoProfile /\ "launch" \in Faults
          /\ UNCHANGED procVars
       \/ /\ launch.profile = NoProfile /\ ShuttingDown
          /\ UNCHANGED procVars
       \/ /\ launch.profile = NoProfile /\ ~ShuttingDown /\ ~Alive(launch.miner)
          /\ "launch" \in Faults \/ ~Launchable(launch.miner)
          /\ RefreshProcesses
    /\ Return
    /\ UNCHANGED <<now, cfg, holdVars, pending, backend>>

-----------------------------------------------------------------------------
(* The scheduler thread: one pass every second *)

\* Mutation: a pass only starts the profiles of windows that have just opened.
TickBeginEdge ==
    /\ backend = "up" /\ scheduler = "running" /\ LifecycleFree
    /\ RefreshProcesses
    /\ LET active == ScheduleOccurrences(cfg, now)
       IN  /\ SaveHolds(Prune(holds, active))
           /\ tick' = [cfg |-> cfg, active |-> active,
                       windows |-> ActiveScheduleIds(cfg, now),
                       todo |-> {m \in Miners : \E o \in active[m] : o[1] \notin previous}]
    /\ UNCHANGED <<now, cfg, pending, previous, scheduler, backend, launch>>

TickBegin ==
    /\ backend = "up" /\ scheduler = "running" /\ LifecycleFree
    /\ RefreshProcesses
    /\ LET active == ScheduleOccurrences(cfg, now)
       IN  /\ SaveHolds(Prune(holds, active))
           /\ tick' = [cfg |-> cfg, active |-> active,
                       windows |-> ActiveScheduleIds(cfg, now),
                       todo |-> {m \in Miners : active[m] # {}}]
    /\ UNCHANGED <<now, cfg, pending, previous, scheduler, backend, launch>>

\* An eligible profile is left alone when it is held or already running.
TickSkip(m) ==
    /\ tick # NoTick /\ launch = NoLaunch
    /\ m \in tick.todo
    /\ \/ IsPaused(holds, m, tick.active) /\ UNCHANGED procVars
       \/ ~IsPaused(holds, m, tick.active) /\ Alive(m) /\ RefreshProcesses
    /\ tick' = [tick EXCEPT !.todo = @ \ {m}]
    /\ UNCHANGED <<now, cfg, holdVars, pending, previous, scheduler, backend, launch>>

TickStart(m) ==
    /\ tick # NoTick /\ launch = NoLaunch
    /\ m \in tick.todo
    /\ ~IsPaused(holds, m, tick.active) /\ ~Alive(m)
    /\ RefreshProcesses
    /\ launch' = NewLaunch("tick", m, "schedule", FALSE)
    /\ UNCHANGED <<now, cfg, holdVars, pending, schedVars, backend>>

\* The end of the pass: sessions whose windows are over are stopped, and the
\* end of the last window may ask for a sleep or a hibernation.
TickEnd ==
    /\ tick # NoTick /\ launch = NoLaunch /\ tick.todo = {}
    /\ LET over == {m \in Miners : SchedulerShouldStop(runtime[m].running,
                                       runtime[m].startedBy, tick.active[m] # {})}
           idle == \A m \in Miners : tick.active[m] = {}
           ended == previous \ tick.windows
           exited == IF idle /\ ended # {} THEN {m \in Miners : Exited(m)} ELSE {}
           asking == {s \in ended : /\ tick.cfg.schedules[s] # NoWindow
                                    /\ tick.cfg.schedules[s].suspends}
       IN  /\ \E failed \in SUBSET {m \in over : StopMayFail(m)} :
                  StopMiners((over \ failed) \cup exited)
           /\ IF /\ idle /\ asking # {} /\ pending = NoPower
                 /\ \A m \in Miners : ~runtime'[m].running
              THEN pending' \in asking
              ELSE UNCHANGED pending
    /\ previous' = tick.windows
    /\ tick' = NoTick
    /\ UNCHANGED <<now, cfg, holdVars, scheduler, backend, launch>>

\* The thread returns for good at the first pass it finds the flag set.
SchedulerExits ==
    /\ ShuttingDown /\ scheduler = "running" /\ LifecycleFree
    /\ scheduler' = "exited"
    /\ UNCHANGED <<now, cfg, procVars, holdVars, pending, previous, tick, backend, launch>>

-----------------------------------------------------------------------------
(* The dev tip: restart_miner_mode, asked for by a monitor that looked at the *)
(* profiles some time ago *)

TipSwitch(m, tip) ==
    /\ "tip" \in Faults
    /\ backend = "up" /\ LifecycleFree
    /\ Alive(m)
    /\ child' = Untrack(RefreshedChild, {m})
    /\ runtime' = MarkStopped(RefreshedRuntime, {m})
    /\ launch' = NewLaunch("tip", m, runtime[m].startedBy, tip)
    /\ UNCHANGED <<now, cfg, untracked, holdVars, pending, schedVars, backend>>

-----------------------------------------------------------------------------
(* Shutdown, crash and restart of the backend *)

\* stop_all raises the flag before it asks for the mutex.  "exiting": the owner
\* leaves or the watchdog found no Desktop.  "updating": a verified update is
\* about to be installed.
BeginShutdown(to) ==
    /\ \/ to = "exiting" /\ "exit" \in Faults
       \/ to = "updating" /\ "update" \in Faults
    /\ backend = "up"
    /\ backend' = to
    /\ pending' = NoPower
    /\ UNCHANGED <<now, cfg, procVars, holdVars, schedVars, launch>>

\* Mutation: the sweep does not wait for the mutex.
SweepAtOnce ==
    /\ backend \in {"exiting", "updating"}
    /\ \E failed \in SUBSET {m \in Miners : StopMayFail(m)} :
           StopMiners({m \in Miners : child[m] # NoChild} \ failed)
    /\ backend' = IF backend = "exiting" THEN "swept" ELSE "installing"
    /\ UNCHANGED <<now, cfg, holdVars, pending, schedVars, launch>>

\* The sweep of stop_all; errors of single stops are ignored.
Sweep ==
    /\ backend \in {"exiting", "updating"} /\ LifecycleFree
    /\ \E failed \in SUBSET {m \in Miners : StopMayFail(m)} :
           StopMiners({m \in Miners : child[m] # NoChild} \ failed)
    /\ backend' = IF backend = "exiting" THEN "swept" ELSE "installing"
    /\ UNCHANGED <<now, cfg, holdVars, pending, schedVars, launch>>

\* The process is gone: its tables with it.  A supervisor stops its miner when
\* the pipe to the backend closes, and the job object does so on Windows; any
\* other live miner goes on without a backend.
ProcessGone ==
    /\ backend' = "down"
    /\ child' = Untrack(child, Miners)
    /\ untracked' = untracked \cup
                    {m \in Miners : Alive(m) /\ ~CrashGuard /\ ~child[m].profile.root}
    /\ runtime' = [m \in Miners |-> [running |-> FALSE, startedBy |-> "", tip |-> FALSE]]
    /\ pending' = NoPower
    /\ previous' = {}
    /\ scheduler' = "exited"
    /\ launch' = NoLaunch
    /\ tick' = NoTick
    /\ UNCHANGED <<now, cfg>>

\* What the next process will load of the holds is in the file.
Dies == ProcessGone /\ holds' = savedHolds /\ UNCHANGED savedHolds

Exit == backend \in {"swept", "installing"} /\ Dies

Crash == "crash" \in Faults /\ backend # "down" /\ Dies

\* A crash inside a Stop that has written the table `h`, has stopped no process
\* and answers nobody.
CutShort(h) ==
    /\ "crash" \in Faults /\ backend # "down" /\ LifecycleFree
    /\ h # holds
    /\ holds' = h /\ savedHolds' = h
    /\ ProcessGone

StopCutShort(m) == CutShort(Pause(holds, m, ScheduleOccurrences(cfg, now)))
StopAllCutShort == CutShort(PauseAll(holds, ScheduleOccurrences(cfg, now)))

\* A failed installation on Linux lowers the flag again and starts nothing.
UpdateFails ==
    /\ backend = "installing"
    /\ backend' = "up"
    /\ UNCHANGED <<now, cfg, procVars, holdVars, pending, schedVars, launch>>

\* CoreState::load and start_scheduler; ProcessGone left what load resets.
Load ==
    /\ backend = "down"
    /\ backend' = "up"
    /\ scheduler' = "running"
    /\ UNCHANGED <<now, cfg, procVars, holdVars, pending, previous, tick, launch>>

-----------------------------------------------------------------------------
(* The rest of the program and the world, which take no lifecycle mutex *)

\* Any status poll.
Refresh ==
    /\ backend # "down"
    /\ \E m \in Miners : Exited(m)
    /\ RefreshProcesses
    /\ UNCHANGED <<now, cfg, holdVars, pending, schedVars, backend, launch>>

CancelPowerAction ==
    /\ backend # "down" /\ pending # NoPower
    /\ pending' = NoPower
    /\ UNCHANGED <<now, cfg, procVars, holdVars, schedVars, backend, launch>>

\* PUT /api/config replaces the whole document, in memory and on disk.
ReplaceConfig(c) ==
    /\ "edit" \in Faults
    /\ backend # "down"
    /\ c # cfg
    /\ cfg' = c
    /\ UNCHANGED <<now, procVars, holdVars, pending, schedVars, backend, launch>>

MinerExits(m) ==
    /\ "die" \in Faults
    /\ Alive(m)
    /\ child' = [child EXCEPT ![m].alive = FALSE]
    /\ UNCHANGED <<now, cfg, untracked, runtime, holdVars, pending, schedVars, backend, launch>>

UntrackedExits(m) ==
    /\ m \in untracked
    /\ untracked' = untracked \ {m}
    /\ UNCHANGED <<now, cfg, child, runtime, holdVars, pending, schedVars, backend, launch>>

ClockAdvances ==
    /\ now < MaxClock
    /\ now' = now + 1
    /\ UNCHANGED <<cfg, procVars, holdVars, pending, schedVars, backend, launch>>

ClockSetBack ==
    /\ "clock" \in Faults /\ SetBack <= now
    /\ now' = now - SetBack
    /\ UNCHANGED <<cfg, procVars, holdVars, pending, schedVars, backend, launch>>

-----------------------------------------------------------------------------
UserCommand ==
    \/ \E m \in Miners, restart \in BOOLEAN : StartOrRestart(m, restart)
    \/ \E m \in Miners : StartWaits(m) \/ ForceStart(m) \/ StopManually(m)
    \/ StopAllManually
    \/ CancelPowerAction

LaunchStep == AlreadyRunning \/ BeginSpawn \/ SpawnSucceeds \/ LaunchFails

SchedulerStep ==
    TickBegin \/ (\E m \in Miners : TickSkip(m) \/ TickStart(m)) \/ TickEnd \/ SchedulerExits

BackendLife ==
    \/ \E to \in {"exiting", "updating"} : BeginShutdown(to)
    \/ Sweep \/ Exit \/ Crash \/ UpdateFails \/ Load

CrashInStop == (\E m \in Miners : StopCutShort(m)) \/ StopAllCutShort

Environment ==
    \/ Refresh
    \/ \E c \in Configs : ReplaceConfig(c)
    \/ \E m \in Miners : MinerExits(m) \/ UntrackedExits(m)
    \/ ClockAdvances \/ ClockSetBack

Next ==
    \/ UserCommand \/ LaunchStep \/ SchedulerStep
    \/ \E m \in Miners, tip \in BOOLEAN : TipSwitch(m, tip)
    \/ BackendLife \/ CrashInStop \/ Environment

Spec == Init /\ [][Next]_vars

\* A launch returns within its time limit, and the scheduler thread comes back
\* for the mutex every second, which users cannot hold at every one of its
\* attempts; neither users, nor the clock, nor a process owe a step.
Fairness == WF_vars(LaunchStep) /\ SF_vars(SchedulerStep)

FairSpec == Spec /\ Fairness

-----------------------------------------------------------------------------
(* Safety *)

\* The status table and the process table tell the same story, whatever failed
\* in between: a profile is shown running exactly while its process is tracked
\* (a stop that is not confirmed keeps both), a running session has an owner,
\* and only a running session mines for the tip.
StatusMatchesProcess ==
    \A m \in Miners : /\ runtime[m].running <=> child[m] # NoChild
                      /\ runtime[m].running => runtime[m].startedBy \in Origin
                      /\ runtime[m].tip => runtime[m].running

\* A hold and a process exclude each other: once a Stop has put a hold on a
\* profile no scheduler pass and no wallet switch has it running or is about to
\* launch it, until a user's command has cleared the hold or a pass has found
\* its occurrences over.  (A supervisor that does not confirm the stop leaves
\* its miner tracked, so the claim is for confirmed stops.)
HoldMeansStopped ==
    "stop" \notin Faults =>
        \A m \in Miners : holds[m] # {} =>
            /\ child[m] = NoChild
            /\ launch # NoLaunch /\ launch.miner = m => launch.by \in {"start", "force"}

\* Every handler that changes the table of holds writes it through, so that a
\* crash at any point, also between the write and the stop of the process, loses
\* no hold and revives none.
HoldsDurable == "persist" \notin Faults => savedHolds = holds

\* After the sweep of stop_all the backend has no miner left but one whose
\* supervisor did not confirm, and no launch that was under way when the flag
\* went up can still create one.
NothingAfterSweep ==
    backend \in {"swept", "installing"} =>
        /\ \A m \in Miners : child[m] # NoChild => "stop" \in Faults /\ child[m].profile.root
        /\ launch # NoLaunch => launch.profile = NoProfile

\* The GPUs a process launched with this profile mines on.
UsedGpus(p) == IF p.gpus = AllGpus THEN Gpus ELSE p.gpus

\* Two tracked processes never mine on a common GPU unless one of them was
\* launched with permission to share.  (Claimed of configurations that differ
\* in nothing the conflict check reads.)
GpuExclusive ==
    \A m, o \in Miners : m # o /\ Alive(m) /\ Alive(o) =>
        LET p == child[m].profile
            q == child[o].profile
        IN  p.overlap \/ q.overlap \/ UsedGpus(p) \cap UsedGpus(q) = {}

-----------------------------------------------------------------------------
(* The promise.  Passes, the two tables, the file of the holds, the life of the *)
(* backend, and miners a dead backend left behind have no counterpart in it.    *)

Promise == INSTANCE MiningPromise WITH
    Profiles <- Miners,
    mines <- {m \in Miners : Alive(m)},
    asked <- IF launch # NoLaunch /\ launch.by \in {"start", "force"}
             THEN {launch.miner} ELSE {},
    barred <- holds,
    open <- ScheduleOccurrences(cfg, now)

\* With confirmed stops and a disk that takes writes, every step of the commands,
\* the scheduler, the wallet switches, a shutdown, a crash and a reload does to
\* mining and to what a Stop has barred only what the promise allows: a profile that
\* is barred mines only at the user's request, a request that fails, another
\* profile's command and a restart of the program unbar nothing.
KeepsPromise == Promise!Spec

-----------------------------------------------------------------------------
(* Liveness, under FairSpec *)

Scheduled(m) == ScheduleOccurrences(cfg, now)[m] # {}

\* A session the scheduler owns does not outlive its windows: while the backend
\* serves, the session is stopped, unless a window opens again or a command makes
\* it unlimited.
ScheduledSessionEnds ==
    \A m \in Miners :
        (backend = "up" /\ Alive(m) /\ runtime[m].startedBy = "schedule" /\ ~Scheduled(m))
            ~> (\/ backend # "up" \/ ~Alive(m)
                \/ runtime[m].startedBy = "manual" \/ Scheduled(m))

Eligible(m) == /\ backend = "up" /\ scheduler = "running"
               /\ Scheduled(m) /\ holds[m] = {}
               /\ cfg.miners[m] # NoProfile /\ cfg.miners[m].enabled
               /\ ~CheckGpuConflict(cfg.miners[m])

\* A profile that stays eligible in an open window is mining before long, also
\* when its first attempts were refused (its GPU was still taken by a session
\* the same pass was about to stop).
EligibleIsStarted ==
    \A m \in Miners : Eligible(m) ~> (Alive(m) \/ ~Eligible(m))

=============================================================================
