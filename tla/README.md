# A verification project for MinerDesk

MinerDesk keeps mining processes running on a desktop machine: started and stopped by hand, by weekly
windows, after a reboot, with a password dialog or a stored authorization for elevated miners on Linux, with a
sleep or a hibernation at the end of a schedule. Most of what can go wrong is a matter of order: a launch that is
still spawning when the program shuts down, a Stop that meets the scheduler, a configuration saved in the middle of
a launch, a countdown canceled in its last second, a supervisor that outlives its backend. This directory holds
TLA+ modules translated from the source, the TLC configurations that check them, and TLAPS proofs.

    tlc -config <run>.cfg <module>        # module and cfg of every run: PROJECT.json, "runs"
    tlapm MinerLifecycle_proofs.tla

Files without a directory below are in `src-tauri/src/`; `helper/` stands for `src-tauri/linux-helper/`.

## 1. Inventory

One backend process (`minerdesk-headless`, or the Desktop process itself) owns everything; windows of the
user interface, local or remote, talk to it over HTTP. Its state is `CoreState` in `lib.rs`, shared by
the request handlers and a few threads. There is one coarse lock, the `lifecycle` mutex, around every start
and stop, and one small mutex per field. A request handler may therefore be interleaved with any other
thread at every point where it does not hold the coarse lock, and readers of a single field at every point.

| Component | State | Operations | Hard because | Status |
|---|---|---|---|---|
| **Schedule policy** (`schedule_control.rs`) | the table of manual holds | `active_occurrence`, `active_miners`, `user_start_origin`, `scheduler_should_stop_session`, `pause`, `pause_all`, `resume`, `is_paused`, `prune` | windows over midnight and over the end of the week; overlapping windows of one profile | modelled |
| **Miner lifecycle and scheduler** (`lib.rs` 664-1345, 3159-3172) | `children`, `runtime`, `config`, `manual_schedule` and its file; `previous` active schedules | Start, Restart, Force, Stop, Stop all, status polls, `PUT /api/config`; one pass a second: prune holds, start, stop, ask for power | a launch takes up to two minutes while statuses, edits and the clock go on; stops that are not confirmed; holds that cannot be written; a crash between any two steps | modelled |
| **Power action** (`lib.rs` 850-915, 3132-3157) | `pending_power`, `last_power_ui_seen` | request, poll, confirm, cancel, execute | nothing here holds the coarse lock: check-then-act in two threads | modelled |
| **Dev tip monitor** (`lib.rs` 2584-2662, 1201-1218) | credit, end of the slice, last tick, `switching` per profile | accrue, switch to the developer's wallet and back | decides on a snapshot; a restart that fails half way | modelled |
| **Desktop leases** (`lib.rs` 3571-3707) | last heartbeat per Desktop PID | heartbeat, shutdown request, watchdog | a probe outside the lock; a Desktop that leaves or arrives during the watchdog's decision | modelled |
| **Configuration store and worker** (`lib.rs` 664-850, `config_sync.rs`) | `config.json`, its copy in memory, the newest snapshot, wake tasks, firewall rule | load, replace; background work on Windows | latest-wins coalescing; a sync that deletes before it creates; a second process that loads and writes the file | modelled |
| **Elevated launches** (`linux_elevation.rs`, `linux_terminal.rs`, `helper/supervisor.rs`) | a supervisor per elevated miner | handshake over a pipe, confirmed stop, end of file, revoked record | two processes that die independently, time limits on both sides | modelled |
| **Authorizations** (`linux_authorization*.rs`, `helper/authorization.rs`) | grant in the configuration, root-owned store | review, enroll, launch, revoke | file state against files, settings and snapshots that change | modelled |
| **Application updates** (`app_updates.rs`) | pending update, cache of the newest release, block on the backend's start | check, download, hand over, install | three awaits, a shared cache, mining that has to stop first | modelled |
| **Backend startup** (`desktop_web.rs`, `main.rs`, `lib.rs`) | running backend | start, restart, end of the web server | starts beside an installation; two instances on one port | partly |
| **User interface commands** (`src/App.tsx`, `api.ts`, `minerCommands.ts`) | draft, busy flags, requests in flight | save before command, time limit, reload | an answer later than the time limit; saves out of order | partly |
| **Engine command lines, tuning, tip wallets** (`lib.rs` 2300-2900) | none | from a profile to a command line | five conventions for a value per card | partly |
| Engine download; metrics and logs; Windows integration; installers; texts | | | mostly conversions and calls to the operating system | no |

Interactions: the API, the scheduler thread and the tip monitor meet on the `lifecycle` mutex. The
configuration is one document, read afresh several times in one operation and replaced as a whole by a
request that takes no coarse lock. Shutdown raises an atomic flag before it asks for the mutex. The power
action is requested by the pass (under the mutex), executed by the same thread after the pass (not under
it), and removed by any successful start. An elevated child is a pipe to a supervisor; a grant is a file the
supervisor looks at once a second. `PROJECT.json` lists every component with its state of modelling, and every
hazard at its line with the properties that cover it.

What makes each part correct, in one line:

- Schedule policy: the occurrence named is the one whose interval of absolute time contains the moment.
- Lifecycle: statuses tell the truth; a Stop wins over everything but the user; holds survive crashes;
  a GPU is never shared without permission; nothing is left after a shutdown.
- Scheduler: what is due gets started, what is over gets stopped, whatever was refused meanwhile.
- Power: never without the confirmation the schedule asked for; a countdown always ends.
- Dev tip: a slice ends on time; the seconds granted stay within the percentage of the time mined for the user, and
  of what the monitor cannot see; a slice pays the right coin.
- Leases: a backend with a live Desktop is not stopped for silence; one without any is stopped eventually.
- Store: what a client was told is saved is in the file, and Windows follows the newest configuration.
- Elevation: no root miner without a session, except one that is about to end.
- Authorizations: what runs is what the user reviewed; a grant comes from its review and from nothing else.
- Updates: what is installed was confirmed and is newer; mining is interrupted for an installation only.
- Window: one command at a time, mining with what was shown, buttons that work again.

## 2. Modules

| Module | Models | Extends |
|---|---|---|
| `ScheduleControl` | `schedule_control.rs`, every function, as operators | |
| `WindowWeek` | one window evaluated second after second (`schedule_active`) | `ScheduleControl` |
| `GpuTuning`, `TipWallets` | command-line options per card; wallets of a tip slice | |
| `MinerLifecycle` | everything under the mutex, the scheduler thread, shutdown, crash, restart, edits, clock | `ScheduleControl` |
| `UserIntent` | `MinerLifecycle` with two history variables: what the user stopped, and what was acknowledged | `MinerLifecycle` |
| `MiningPromise` | abstract: what the commands and the windows of a profile promise | |
| `PowerAction` | the same as `MinerLifecycle` with the countdown, the dialog and the two places that suspend | `MinerLifecycle` |
| `DevTip` | the tip monitor of one profile against sessions, edits and failed restarts | |
| `DesktopLease` | heartbeats, the owner's shutdown request, the watchdog and its probe | |
| `WakeTimers`, `ConfigStore` | wake-task arithmetic; file, memory, worker and Desktop | `WakeTimers` |
| `RootSession` | abstract: what an elevated launch promises | |
| `LinuxElevation` | backend, supervisor and miner over a pipe; implements `RootSession` | |
| `LinuxAuthorization` | grants, the store, launches made under them | `LinuxElevation` |
| `AppUpdates` | check, download, hand-over, and the starts of the backend beside them | |
| `UiCommands` | one window: draft, requests in flight, what arrives late | |
| `MC...` | the values of the runs; `MCDecisions` puts `WindowWeek`, `GpuTuning`, `TipWallets` side by side | |
| `..._proofs` | the theorems of the module they are named for. `MinerLifecycle_proofs` also has those of `UserIntent`, `WindowWeek` and `GpuTuning`, `DevTip_proofs` those of `TipWallets`, `LinuxAuthorization_proofs` those of `LinuxElevation`; `PowerAction_proofs` extends `MinerLifecycle_proofs` | `TLAPS` |

### MinerLifecycle

- `child[m]` is the entry of `children` and `runtime[m]` the entry of the status table: two tables behind two
  mutexes, kept in step by hand in a dozen places. A child remembers the `profile` it was launched with, which
  the code does not; the properties about GPUs and elevation need it.
- The mutex is free when `launch` and `tick` are both empty. `launch` is a call of `start_miner_mode_locked` in
  progress. It is a step before and a step after the spawn, because during the spawn (up to 120 s with a
  password dialog) everything that takes no coarse lock goes on. `tick` is a scheduler pass in progress, with
  the evaluation it works on. All the rest that happens under the mutex is short, and its only other readers take
  one field at a time, so it is one step.
- `holds`/`savedHolds` are memory and file. `SaveHolds` writes only when the table changed, as the handlers do.
- A crash may fall between any two of these steps, and inside a Stop: `StopCutShort` has the hold written, the process
  not yet stopped and nobody answered. The wait for a process inside `stop_miner_locked` is not taken apart: the
  code removes the child (line 1221) up to six seconds before it marks the status (1228-1231), and a poll in between
  sees the two tables differ. `StatusMatchesProcess` is about the time before and after.
- `backend` is the atomic flag and what raised it: `exiting` and `updating` (flag up, sweep not done), `swept`,
  `installing`, `down` (no process). `untracked` are the miners a crash leaves behind.
- `cfg` is memory and file at once; `ConfigStore` takes the write apart.
- `ClockSetBack` is the local clock at the end of summer time. Time is in seconds of a day of `DaySeconds`.
- `Faults` is a constant: which of the unhappy steps (failed launch, unconfirmed stop, failed write, crash,
  shutdown, update, edit, death, tip, clock) an instance contains. The theorems hold for every value.

Actions bear the names of the commands (`StartOrRestart`, `StartWaits` for a start outside every window,
`ForceStart`, `StopManually`, `StopAllManually`, `Sweep`, `TickBegin` ...). A command's guard includes its
early returns; a command that ends with an error before it changes anything is a stuttering step.

`MiningPromise` is what all this looks like to somebody who sees only which profiles mine: `mines`, the requests of
the user not yet answered (`asked`), the occurrences a Stop was about (`barred`) and those that are open (`open`). A
profile that is barred mines only at the user's request; a request that is refused, another profile's command, a
crash and a reload unbar nothing; a crash inside a Stop may bar what the Stop was about. `KeepsPromise` maps `mines` to the live tracked processes, `asked` to a launch on
behalf of a user, `barred` to the holds in memory and `open` to the schedule's evaluation of this moment; passes, both
tables, the file and the life of the backend disappear. It is a claim about confirmed stops and a disk that takes
writes: an elevated miner whose stop failed is held and mines, and the tip monitor may then restart it.

### UserIntent, PowerAction

`stopped` collects the dated occurrences for which the user pressed Stop, until the user successfully starts the
profile again. The program's own memory of it, the holds, is pruned, saved, lost and reloaded; the history is not.

A pass that ends with `TickEnd` is followed, on the same thread, by `TimerCopies`, `TimerChecksMiners`,
`TimerChecksDeadline` and `TimerExecutes`; a confirmation is `ConfirmTakes`, `ConfirmChecksMiners`,
`ConfirmExecutes`. Each of them is one lock acquisition of the code, or a group of them: the deadline, the lease of
the dialog and the removal of the pending action are one step, for they are adjacent reads without a blocking call.
Steps of the lifecycle are interleaved everywhere. `left` and `age` are the distances from now to `deadline_unix`
and from `last_power_ui_seen` to now. While the machine is suspended nothing moves but the wake-up.

### DevTip, TipWallets, GpuTuning, WindowWeek

`DevTip`: `credit`, `until` and `last` are the monitor's maps for one profile (credit multiplied so that the ratio of
the percentage is exact), `monitor` where its thread is: asleep, looking, deciding, switching, starting. Between the
look and the switch the session may end, be started again, or be edited. `granted` and `earned` are histories.
`refused` counts returns that failed. A switch takes `SwitchTime`, during which a start of the same profile waits for
the mutex. `Unseen` names what the monitor cannot know and counts as mined: a session that ended and began again
between two looks.

`TipWallets`: `Detected` and `TipWalletsOf` are `detected_coin_id` and `apply_dev_tip_wallets` over hints instead
of strings: a wallet, an algorithm and a pool each name a coin or none, and coins are tried in an order.
`GpuTuning`: `Option` is what the argument builder of each engine makes of the values of the cards (a complete list, a filtered
one, one filled with neutral values, one with a place for every index up to the largest card, one shared value) and
`Applied` how that engine reads it, as the engines document their options. `ZeroForBlank` names the cards whose value
BzMiner's lists for core clock and power limit lose: a blank beside a value, a zero without one. Both are decisions without a history; `MCDecisions`
enumerates their inputs and lets TLC follow the one step.

### DesktopLease

One backend of the desktop-owned kind. Desktops send heartbeats, fall silent (a stalled window, a suspended
machine), die, or leave by a shutdown request. The watchdog wakes up, collects the silent ones, probes each of them
outside the lock (the probe may fail), then looks again under the lock. The last check and the stop are two steps.

### ConfigStore, WakeTimers

`disk` and `memory`; `saving[c]` is a request of `PUT /api/config`, in the order of the code: wait for `config_io`,
write the file, replace the memory, queue a snapshot, release the lock. A write that fails changes nothing: the file is
replaced by a rename. What damages it (`"torn"`) comes from outside, while the backend is down; the next load then takes
the defaults and writes them back. `queue`, `seen`, `applied` are
the worker's; it skips what has not changed, deletes all wake tasks and creates them again one at a time, and may
fail at each. `DesktopReads`/`DesktopSaves` are the second process, whose load writes the file back; `overwritten`
records that this undid a save. `WakeTimers` has the arithmetic of the tasks (days ahead, minutes before).

### RootSession, LinuxElevation, LinuxAuthorization

`LinuxElevation`: an attempt is a launcher, the supervisor it becomes and the miner in its process group.
`helper[a]` is where it is, `alive` the miners, `ready` the reports written to its output, `shut` the pipes the
backend has closed, `tracked` the session the lifecycle knows, `call` the one call under the mutex. Time limits
are steps that may be taken at any moment. A call given up closes the pipe first; an attempt that is still in
its dialog is then killed before the call returns, one that is already approved is left behind, told to end, and the
next call may begin beside it. Only a backend that dies leaves an attempt in the dialog.

`RootSession` knows of an attempt whether it is new, starting, running, doomed or over, and who mines.
`SessionState` maps the protocol to them; `ImplementsRootSession` is the abstract specification under that map, with
its liveness (a doomed miner ends).

`LinuxAuthorization`: `profile` is the settings and the grant in the configuration, `files` the content of the
miner's folder, `copy`, `folder`, `records`, `print` the root-owned store: snapshot, state of the directory (none,
without a usable record, complete), records in force, and the fingerprint each grant was made for. `op` is the
dialog's handler (`authorize`, `revoke`) and its awaits, `enroll` the enrolling helper with its two looks at the owner's
pipe. A running miner may change its snapshot. A launch checks the fingerprint of the settings, the supervisor that
of the files. A miner that was given up, and has not ended, may change the snapshot between the check and the start
of the next one: `Overtaken` marks that case in `runs`.

### AppUpdates

`job` is the check or installation in progress with its await: asking, manifest, downloading, handover, waiting,
installing. `pending` is the update kept for the button, `cache` the newest release with its age, shared with web
clients. The Windows flavour stops the backend process first and blocks its start; the other stops the miners in its
own process. `Publish` may publish a newer release at any await.

### UiCommands

A handler is a call slot with what its closure captured; the requests it sent are `puts`
and `orders`, which the backend takes in any order, also after the window gave them up. `commandBusy` is the
reference, `busy` the state beside it that disables buttons. `base` is what the window was last told the
backend holds, `newest` the number of the newest save the backend has taken. `picking` is what the open file dialogs of
`pickExecutable` will put back, like a download: the configuration of the moment they were opened. Polls that only
display are left out.

## 3. Runs

Windows of the lifecycle runs are `Day` = [1,3) and `Night` = [2,1) in days of four seconds: they overlap and cross
midnight.

| Run | Instance and bounds | Shows |
|---|---|---|
| `decisions` | every window over a 3-second day and the weekdays Sunday, Monday, Tuesday, for a week and a day; three cards, every engine and field; every combination of coin hints | `OccurrenceIsItsInterval`, `TuningReachesItsCard`, `SliceIsTheDevelopers` |
| `user_intent` | two profiles (one elevated), two overlapping windows, clock to 4 (the night window has opened, the day window has opened and closed, midnight has passed); launch, die, tip, crash (also inside a Stop), exit | `HoldMeansStopped`, `HoldsDurable`, `StopWins` |
| `unconfirmed_stops` | one elevated profile, all faults, edits that disable the profile or remove its window | `StatusMatchesProcess`, `NothingAfterSweep` |
| `hand_over` | two profiles that want the same GPU in consecutive windows, under fairness; die, crash, clock | `GpuExclusive`, `ScheduledSessionEnds`, `EligibleIsStarted`, `KeepsPromise` |
| `power` | one elevated profile, one window that asks for an attended sleep and may be removed, countdown 2, lease 1; launch, stop, persist, die, exit, update, edit, crash | `UnattendedNeverSleeps`, `CountdownResolves` |
| `dev_tip` | tip of one third, slices of 2 to 3 seconds, monitor every 2 seconds, switch of one; clock 18, 24 units of earned credit (at least two slices); failed stops and starts | `FairShare`, `TipEndsOnTime` |
| `desktop_lease` | two Desktops, each of which comes and goes once, grace 2, probes may fail | `RunningKeepsLease`, `StopsOnlyAbandoned`, `AbandonedBackendStops` |
| `config_store` | two clients, three configurations, days of four minutes, 2 saves, 2 starts, every fault, a Desktop that loads the file | `StoreTypeOK`, `AcknowledgedIsOnDisk`, `TimersFollowConfig`, `WakesAheadOfStart`, `NewestReachesWorker` |
| `elevation` | two overlapping attempts, one grant, a backend that is root and may kill its helper | `ElevationTypeOK`, `NoForgottenMiner`, `RevokedMinerEnds`, `ImplementsRootSession` |
| `authorization` | one attempt at a time, two grants, two contents of the folder, two settings, every fault | `TypeOK`, `ApprovedIsReviewed`, `GrantsComeFromReviews` |
| `app_updates` | three versions, both platforms | `UpdateTypeOK`, `BlockedOnlyInHandover`, `InstallsWhatWasConfirmed`, `InterruptsOnlyToInstall`, `UpdateEnds` |
| `ui_commands` | two calls in flight, two edits of each of two fields, two saves, one action of the backend, refusals and time limits | `OneCommand`, `UnsavedIsMarked`, `StartsWhatWasShown`, `CommandsEnd` |

The bounds are small because the hazards are: two profiles are enough for a conflict, two windows for an overlap,
one midnight for an overnight occurrence, one crash and one reload for durability, two attempts for one that outlives
its call, two saves for one that overtakes the other, three versions for a release published between the
confirmation and the download. A clock or a counter that stops at its bound ends no behaviour of the lifecycle: users,
passes and faults go on in the last second for ever. The others may stop (the backend has ended, every attempt is
used up, the clock of the tip has run out), so their deadlock is not checked. `authorization` uses symmetry, and a
view that forgets what is recorded of an attempt that is over; both are sound here because the run has no liveness
property and no property speaks of an attempt that has ended. The case `Overtaken`, which needs two launches of one
grant at once, is outside that instance: an instance of two attempts and one grant (4.6 million states) has it, and the
theorem `OnlyReviewedRuns` covers every number of them. The countdown must be longer than the lease
(`PowerAssumption`): the code clamps it to at least 5 s against 3 s.

### What the code does not keep

Several sentences of the documentation, or of a comment, are stated in the modules and are not properties of
the runs, because the code does not keep them. Adding the definition to the cfg named, with the change given here, makes TLC show it.

- `ScheduledSessionEnds` (`docs/SCHEDULING.md:7`), in `HandOver.cfg` with `"update"` among the faults:
  `install_app_update` lowers `shutting_down` after a failed installation (`app_updates.rs:256`), but the scheduler
  thread has returned. Sessions started afterwards in their window are never stopped.
- `GpuExclusive`, in `HandOver.cfg` with `"edit"` and two configurations, in which the first profile has the GPU of the
  second one or another: the conflict check reads the
  *saved* GPUs of running profiles. After an edit of a running profile a second miner is admitted to its GPU.
- `AcknowledgedStopIsSaved`, in `UserIntent.cfg` with `"persist"`: whether holds are written depends on whether memory
  changed. A Stop repeated after a failed write writes nothing and reports success.
- `SleepsWhenIdle` and `CancelAborts` (`lib.rs:882-883`), in `PowerAction.cfg`: the check for running miners and the
  suspension are not atomic, in either place; the scheduler thread executes its copy of the action, so a
  cancellation or a start in between is answered with success and has no effect.
- `NoDesktopLosesBackend`, in `DesktopLease.cfg`: between the decision to stop and the exit of the process, which
  may be minutes apart when `stop_all` waits for a launch, a Desktop may attach and loses the backend.
- `EditsStay` (`src/App.tsx:505`), in `UiCommands.cfg`: a download, and a file dialog, write back the configuration
  captured when they began, and a changed token or an action of the backend loads the saved one over the draft.
- `BlanksStayBlank` (`docs/GPU-TUNING.md:18`, `lib.rs:2688-2689`), in `Decisions.cfg`: a zero must be passed as
  requested, for it may unlock a clock, and a blank must never become one. The lists of BzMiner's core clock and power
  limit (`lib.rs:2768-2772`) fill blanks with 0 and omit an option whose values are all 0. With 1500 for card 0 and
  nothing for card 1 the command line sets card 1 to 0; with 0 for the only card it says nothing. The two sentences are
  written about the locks and offsets that `append_extended_gpu_tuning` adds, where they hold; their reason is one of core
  clocks as well. `TuningReachesItsCard` excepts just these cards (`ZeroForBlank`).

Other limits, named in the properties that make room for them:

- A window that opens during a countdown stops it only by the miner it starts. When that start fails, the machine
  sleeps inside an open window.
- A window that ends in the hour which the local clock repeats: its hold is pruned at the first end, and the
  same dated occurrence opens again without it. An edit that closes a window and opens it again has the same effect, and
  so has a crash after a write that failed. `StopWins` is therefore checked and proved without `"clock"`, `"edit"` and
  `"persist"`, and, as an unconfirmed stop leaves its process, without `"stop"`.
- On Windows the Desktop loads the file and writes it back without the backend's lock: a save in between is undone on
  disk (`overwritten`). On Linux two Desktops would do the same to each other.
- Saves are whole documents: of two clients, the last one wins, with what it did not know of.
- A wake sync that fails after it deleted tasks is not repeated when the schedules return to the ones applied before;
  `TimersFollowConfig` is about completed syncs.
- A withdrawal of the tip that fails leaves a slice without an end (`lib.rs:2606`); a tip chosen again then never ends.
  A restart the monitor does not see is counted as mined.
- A revocation whose second half fails has removed the record but not the directory; `Store::revoke` refuses to
  work on a directory without a record, so it fails for ever after, and the grant stays in the configuration. A launch
  under it is refused. A crash after an enrollment leaves a grant in the store that nothing names.
- One probe without an answer counts as a backend that is gone, so an installer may start beside one that is only busy;
  and a start under way when an update is handed over may bring a backend up during the installation.
- A save the window gave up after its time limit may reach the backend after the next one, and wins. While a save or
  a start is in flight, Stop is disabled too; an authorization that ends enables the buttons early.
- A crash leaves the miners of profiles that are not elevated running on Linux (`untracked`); nothing adopts them.

The type invariants of `MinerLifecycle`, `DevTip`, `DesktopLease`, `UiCommands` and `PowerAction` are in the modules and
hold; one line in a cfg checks them, and each is a theorem. The runs spend their time on the deeper invariants.

### Fairness

`FairSpec` of the lifecycle asks for weak fairness of `LaunchStep` (every launch returns: the spawn, the handshake and the
password dialog have time limits) and strong fairness of `SchedulerStep` (the thread asks for the mutex every second;
users would have to hold it at every one of its attempts). Users, clock, processes and faults owe nothing, so nothing
here relies on a user giving up. `FairPowerSpec` adds that the thread's own steps go on, that seconds pass, that
a suspended machine wakes, and that a shutdown which has begun gets the mutex and exits (both need the mutex, hence
strong fairness).

- `DesktopLease`: the watchdog's steps and time.
- `ConfigStore`: the worker and the saves under way go on; clients owe no save, and failures are steps that also go on.
- `LinuxElevation`: a supervisor that has been approved goes on (it polls); nobody owes an approval, a report or an exit.
- `AppUpdates`: the job goes on, because every request has a time limit; the password dialog of the `.deb` installation
  has none in the code and is assumed to be answered.
- `UiCommands`: a call goes on, because `requestJson` has a time limit; the backend owes nothing.

## 4. Proofs

All theorems hold for every value of the constants that their assumptions allow. Hardly one of the properties is
inductive as it stands; each module of proofs joins them with what is missing into one invariant, proves one lemma per
conjunct (one step per action) and joins those. Every safety property of every run is stated by a theorem.

### Lifecycle

`MinerLifecycle_proofs`, for any number of profiles, windows and GPUs, any faults, any configurations:

    TypeCorrect           Spec => []TypeOK
    StatusIsTruthful      Spec => []StatusMatchesProcess
    HoldExcludesProcess   Spec => []HoldMeansStopped
    HoldsSurviveCrash     Spec => []HoldsDurable
    SweepIsFinal          Spec => []NothingAfterSweep

`IInv` is their conjunction with two more. `MutexOwner`: a launch on behalf of a pass exists only inside that pass, for
a profile still to do; without it a pass and a command could hold the mutex together in the induction hypothesis.
`PassHolds`: during a pass, every hold lies within the occurrences the pass evaluated (it has just pruned them), so
"not paused" for the pass means "not held"; that is what lets `HoldMeansStopped` survive `TickStart`. `StatusStep` uses
typing; `HoldStep` uses `PassHolds`, `MutexOwner` and `StatusMatchesProcess`.

    LifecycleKeepsPromise   "stop" \notin Faults /\ "persist" \notin Faults => (Spec => KeepsPromise)

says that `MinerLifecycle` implements `MiningPromise`, as a whole: one lemma per group of actions, and in it one step per
action that names the step of the promise it is. `IInv` is needed in two places. A pass or a change of wallets comes back
with a mining profile: the promise lets the program start only what is not barred, and `HoldMeansStopped` says that
such a launch is never about a held profile. A crash leaves in memory what the file had: `HoldsDurable` makes that a step
that unbars nothing; one that cuts a Stop short has barred what the whole Stop would have (`CutShortBars`).

    StopsHold                   HoldsLast /\ "stop" \notin Faults => (IntentSpec => []StopWins)
    AcknowledgedStopsAreSaved   HoldsLast => (IntentSpec => []AcknowledgedStopIsSaved)

are about the memory that `UserIntent` adds, where `HoldsLast` excludes a failed write, a clock set back and edits. TLC
refutes `StopWins` when any of the four faults is admitted, so no premise is idle. The invariant is `StopIsHeld`: what the
user stopped, and is open, is held. It is the prune of a pass that endangers it: an occurrence the pass
finds closed loses its hold for good, and would return without it if it opened again. That it cannot is a fact about
weekly windows in absolute time, `OpenBetween` (an occurrence open at two moments is open between them), together with
`WasOpen`: what was stopped was open at some earlier moment.

    OccurrencesAreIntervals     WeekSpec => []OccurrenceIsItsInterval

is where that fact comes from: for every length of day, window and set of weekdays, the evaluation of `schedule_control.rs`, by
weekday and second of the day, names exactly the occurrences whose interval of absolute seconds contains the moment
(`OccurrenceCovers`), over midnight and over the end of the week, where Monday's yesterday is Sunday
(`WeekdayBefore`). The proof is arithmetic of quotients and remainders (`Division`, `DaysApart`, `DivisionGrows`).

    GpusAreExclusive      ConfigsAgree => (Spec => []GpuExclusive)

where `ConfigsAgree` says that the configurations a client may save differ in nothing the conflict check reads: which
profiles exist, their GPUs, their permission to share. The premise is needed, as section 3 says, and is all that is
needed: enabling a profile, moving a window, and every fault are allowed. The check compares saved profiles and the
property speaks of processes, so `GInv` relates the two: a process runs on the GPUs its saved profile names
(`ProcessesAreKnown`), no two processes dispute one (`Undisputed`), and a process being spawned stays admissible until it
exists (`SpawnIsAdmissible`), because only a spawn creates a process (`OnlySpawnCreates`) and only one can be under way.

    TuningIsExact         profiles \subseteq TunedProfiles /\ CardsEnd =>
                              (TuningInit(profiles) /\ [][StartEngine]_tuningVars => []TuningReachesItsCard)

    OthersKeepBlanks      for the same profiles, without BzMiner's core clock and power limit:
                              TuningInit(profiles) /\ [][StartEngine]_tuningVars => []BlanksStayBlank

for any number of cards (`CardsEnd`: a host has a last one), any selection and any order. There is one lemma for
each way of writing values per card: `CompleteReaches`, `FilledReaches`, `IndexedReaches` (whose list has a place for
every index up to the largest card, hence `LargestNumber`), `SharedReaches`, and `Positions` for what they have in
common, that a card's place in the list is its place in the selection. The last steps go over the engines. The first
theorem is exact but for the cards of `ZeroForBlank`, of which it claims nothing; the second says that nobody else has
such cards, and that there the documented rule holds as written.

`PowerAction_proofs`, from `PowerAssumption` in addition:

    PowerInvariance       PowerSpec => [](IInv /\ PInv)
    PowerTypeCorrect      PowerSpec => []PowerTypeOK
    Unattended            PowerSpec => UnattendedNeverSleeps
    PowerKeepsPromise     "stop" \notin Faults /\ "persist" \notin Faults => (PowerSpec => KeepsPromise)

The first carries every promise of the lifecycle over: the threads of the power action only reap exited processes
(`ReapStep`) and drop the pending action (`DropStep`); that they do nothing else is `PowerStepIs`, and the last theorem
is its use for the promise. `PInv` adds to the types: whatever is pending, copied or being
confirmed has a request behind it (`Requested`); and `ClosedDialogAges`, a relation between two clocks that no
line of the code mentions together: as long as no dialog polled since the request, the age of the last poll and
what is left of the countdown add up to at least the countdown. At the deadline nothing is left, so the age exceeds
the lease, unless a dialog polled. It is there that the countdown has to be longer than the lease.

### Dev tip

`DevTip_proofs`, for any percentage, any lengths of slices, sleeps and switches, any faults, from `TipAssumption`:

    TipTyped              Spec => []TypeOK
    ShareIsFair           Spec => []FairShare
    SlicesEnd             Spec => []TipEndsOnTime

`FairShare` compares two histories; what connects them is an account, `PaidFor`: the credit, the slices granted, and the
seconds the monitor may still count (`Uncounted`) are together covered by what was earned. That no second is counted
twice is then a matter of the monitor's clocks (`ClocksFit`) and of who started the session it looks at
(`WhoseSession`, `IdleIsSeen`). `TipEndsOnTime` follows from `OnTime`, which adds that the monitor, wherever its thread
is, wakes before the deadline.

    SlicesPayTheDeveloper   WalletsInit(rigs) /\ [][PrepareSlice]_tipWalletVars => []SliceIsTheDevelopers

for any rigs and any list of coins: `DetectedIsNamed` (a coin is detected only if a hint names it, whichever comes
first in the order of coins) and `TipWalletsArePaid`.

### Leases

    LeaseTyped                Spec => []TypeOK
    LeaseOutlastsSilence      Spec => []RunningKeepsLease
    NeverStopsUnderDesktop    Spec => StopsOnlyAbandoned

for any number of Desktops and any grace, from `LeaseAssumption`. The invariant adds that an answer "dead" stays true
however late it is used (`DeadIsGone`), that only a Desktop on its way out has asked for a shutdown
(`FarewellsAreMeant`), and that nobody has heard of a process before it started (`HeardOfStarted`): PIDs are not
reused in the model.

### Elevated launches and authorizations

`LinuxAuthorization_proofs`, first the launches, for any number of overlapping attempts and grants:

    ElevationTyped        ElevationSpec => []ElevationTypeOK
    ProtocolHolds         ElevationSpec => []ProtocolInv
    NoneForgotten         ElevationSpec => []NoForgottenMiner
    ElevationRefines      ElevationSpec => Abstract!Init /\ [][Abstract!Next]_(Abstract!vars)

`ProtocolInv` says what a call waits for (`CallIsAbout`), that a report or a session comes from a supervisor
(`ReportsAreTrue`), and that a launcher that may still start or run a miner is the session's, is waited for, or has been
told to end (`Watched`). `ElevationRefines` is the safety part of `ImplementsRootSession`: every step of the two
processes is a step of `RootSession` or a stutter. The proof goes over `ProtocolStep`, which leaves the store of records
to its owner, so that both theorems and lemmas serve the authorizations as well. These, under every fault:

    AuthorizationTyped    Spec => []TypeOK
    OnlyReviewedRuns      Spec => []ApprovedIsReviewed
    OnlyReviewsGrant      Spec => GrantsComeFromReviews

Every step here is a step of the launch protocol (`NextIsProtocol`), which brings `ProtocolInv`. `AInv` adds that
no launch is made under a grant not enrolled, that an unused identifier has nothing in the store, that an enrollment has
its grant for itself, that an answer is the one to its own question (`AnswerFits`), that what is saved was enrolled for
what was reviewed (`SaveFits`), and that a snapshot between its check and the start of its miner is what it was
(`CheckedIsReviewed`).

### Store and updates

`ConfigStore_proofs`, for any clients, configurations, faults and bounds:

    StoreTyped            Spec => []StoreTypeOK
    AcknowledgedIsKept    Spec => []AcknowledgedIsOnDisk
    TimersAreCurrent      Spec => []TimersFollowConfig
    WakesInTime           Spec => []WakesAheadOfStart

`SInv` says that one save at a time is past the write of the file (`OneSave`), that only a serving backend has clients
and a worker (`OnlyServing`), how far the file may be ahead of the memory at every step of a save (`SavesAgree`), that
what the worker takes next, or has taken, is the memory (`NewestQueued`), and what a sync in progress and a completed
one leave (`WorkDone`). `WakesInTime` needs no history: it is arithmetic about every task of every configuration
(`WakeIsAhead`, from `Quotients`).

`AppUpdates_proofs`, for any versions:

    UpdatesTyped                 Spec => []UpdateTypeOK
    BlockIsLifted                Spec => []BlockedOnlyInHandover
    InstalledIsConfirmed         Spec => InstallsWhatWasConfirmed
    OnlyInstallationsInterrupt   Spec => InterruptsOnlyToInstall

`UInv` adds that whatever was found, confirmed or downloaded is newer than what is installed (`OnlyNewer`) and that the
block of the backend's start is exactly the hand-over (`BlockFits`).

### Window

`UiCommands_proofs`, for any fields, any number of calls in flight, edits and saves, any faults:

    WindowTyped           Spec => []UiTypeOK
    CommandsExclude       Spec => []OneCommand
    UnsavedStaysMarked    Spec => []UnsavedIsMarked
    StartsAreShown        Spec => []StartsWhatWasShown

`UInv` says that `commandBusy` is set exactly while a slot is in a command (`Exclusive`), that a request whose caller still
waits carries what the caller holds (`PutsWait`, `OrdersWait`), and that saves are numbered as they are sent and taken
once (`Numbered`). The last theorem rests on `AllKnown`: whatever the window was ever told of the backend, in `base`, in
an answer on its way or in an order, is what the backend holds, or older, or the backend has been overtaken by a save that
arrived too late. It is stable because numbers only grow, and implies the property at the moment an order is sent.

### Only model-checked

Everything under fairness: `CountdownResolves`, `ScheduledSessionEnds`, `EligibleIsStarted`, `AbandonedBackendStops`,
`RevokedMinerEnds`, `NewestReachesWorker`, `UpdateEnds`, `CommandsEnd`, and the liveness of `ImplementsRootSession`
(its safety is `ElevationRefines`). The rules for weak and strong fairness need ENABLED, which the prover does not
support.

## 5. Not modelled, and the plan

Left out of the modules above: error texts and logs, the wording of statuses, `expected_stops` and the other fields of
a status that only the display reads. Poisoned mutexes are ignored. A PID that the system gives to another process while
its lease is silent would keep the backend alive; the model has no such process. A shutdown request without a PID, which
no Desktop of this version sends, is left out. Of the window: polls that only display, security settings, discovery of
GPUs, the migration of old settings. Of the authorizations: a backend that is root and could kill the enrolling helper.
Of the startup: the bind of the port with its retries, and two Desktops that start at once. Of the command lines:
everything but the values per card and the wallets (pools, algorithms, extra arguments are conversions of text).

Next, in this order:

1. Startup: port, discovery and two Desktops against `DesktopLease`.
2. An abstract specification of the store (what a client was told is what the next start finds) that `ConfigStore`
   implements, in the way `MinerLifecycle` implements `MiningPromise`.

Not planned, with reasons in `PROJECT.json`: engine downloads, metric parsing, Windows integration by
PowerShell, installers, texts.
