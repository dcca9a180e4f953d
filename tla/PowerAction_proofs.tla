----------------------------- MODULE PowerAction_proofs -----------------------------
(***************************************************************************)
(* Proofs about PowerAction: the threads of a power action keep their      *)
(* types, and a sleep that requires a confirmation never runs out          *)
(* unattended without a dialog having been open.                           *)
(*                                                                         *)
(* The second claim rests on an arithmetic relation between two clocks     *)
(* that nothing in the code mentions together: as long as no dialog polled *)
(* since the request, the age of the last poll and what is left of the     *)
(* countdown add up to at least the whole countdown.                       *)
(*                                                                         *)
(* The invariant of MinerLifecycle is carried along: the power action      *)
(* takes part in the lifecycle only by reaping exited processes and by     *)
(* dropping the pending action.                                            *)
(***************************************************************************)
EXTENDS PowerAction, MinerLifecycle_proofs

\* An action that is counting down, being served or being confirmed has a
\* request it goes back to.
Requested ==
    \/ pending # NoPower
    \/ timer.at \in {"copied", "idle", "due"}
    \/ confirming.at # "none"
    => request # "none"

ClosedDialogAges ==
    request # "none" /\ ~seen => age > Lease \/ age + left >= Countdown

DueWasSeen == timer.at = "due" /\ timer.action \in Attended => seen

PInv == /\ PowerTypeOK
        /\ pending \in Schedules \cup {NoPower}
        /\ Requested
        /\ ClosedDialogAges
        /\ DueWasSeen

-----------------------------------------------------------------------------
(* Only the end of a pass requests a power action. *)

LEMMA LaunchPending == LaunchStep => pending' \in {pending, NoPower}
<1>1. AlreadyRunning => pending' \in {pending, NoPower}
  BY DEF AlreadyRunning, Succeed
<1>2. BeginSpawn => pending' = pending
  BY DEF BeginSpawn
<1>3. SpawnSucceeds => pending' \in {pending, NoPower}
  BY DEF SpawnSucceeds, Succeed
<1>4. LaunchFails => pending' = pending
  BY DEF LaunchFails
<1> QED  BY <1>1, <1>2, <1>3, <1>4 DEF LaunchStep

LEMMA CommandPending == UserCommand => pending' \in {pending, NoPower}
<1>1. ASSUME NEW m \in Miners, NEW restart \in BOOLEAN, StartOrRestart(m, restart)
      PROVE  pending' = pending
  BY <1>1 DEF StartOrRestart
<1>2. ASSUME NEW m \in Miners, StartWaits(m) \/ ForceStart(m) \/ StopManually(m)
      PROVE  pending' \in {pending, NoPower}
  BY <1>2 DEF StartWaits, ForceStart, StopManually
<1>3. StopAllManually \/ CancelPowerAction => pending' \in {pending, NoPower}
  BY DEF StopAllManually, CancelPowerAction
<1> QED  BY <1>1, <1>2, <1>3 DEF UserCommand

LEMMA WorldPending ==
    Environment \/ (\E m \in Miners, tip \in BOOLEAN : TipSwitch(m, tip))
        => pending' = pending
<1>1. Refresh \/ ClockAdvances \/ ClockSetBack => pending' = pending
  BY DEF Refresh, ClockAdvances, ClockSetBack
<1>2. ASSUME NEW c \in Configs, ReplaceConfig(c)  PROVE pending' = pending
  BY <1>2 DEF ReplaceConfig
<1>3. ASSUME NEW m \in Miners, MinerExits(m) \/ UntrackedExits(m)
      PROVE  pending' = pending
  BY <1>3 DEF MinerExits, UntrackedExits
<1>4. ASSUME NEW m \in Miners, NEW tip \in BOOLEAN, TipSwitch(m, tip)
      PROVE  pending' = pending
  BY <1>4 DEF TipSwitch
<1> QED  BY <1>1, <1>2, <1>3, <1>4 DEF Environment

LEMMA BackendPending ==
    \/ \E to \in {"exiting", "updating"} : BeginShutdown(to)
    \/ UpdateFails \/ Load \/ Sweep
    => pending' \in {pending, NoPower}
  BY DEF BeginShutdown, UpdateFails, Load, Sweep

LEMMA PassPending ==
    TickBegin \/ (\E m \in Miners : TickSkip(m) \/ TickStart(m)) \/ SchedulerExits
        => pending' = pending
<1>1. TickBegin \/ SchedulerExits => pending' = pending
  BY DEF TickBegin, SchedulerExits
<1>2. ASSUME NEW m \in Miners, TickSkip(m) \/ TickStart(m)  PROVE pending' = pending
  BY <1>2 DEF TickSkip, TickStart
<1> QED  BY <1>1, <1>2

\* What the end of a pass makes pending is a schedule that asks for it.
LEMMA TickEndPending ==
    ASSUME TypeOK, TickEnd
    PROVE  pending' = pending \/ (pending = NoPower /\ pending' \in Schedules)
<1> SUFFICES ASSUME pending' # pending
             PROVE  pending = NoPower /\ pending' \in Schedules
    OBVIOUS
<1>1. pending = NoPower /\ pending' \in previous
  BY DEF TickEnd
<1> QED  BY <1>1 DEF TypeOK

-----------------------------------------------------------------------------
(* The invariant of the lifecycle *)

LEMMA Reaps ==
    ASSUME IInv, RefreshProcesses, NEW m \in Miners
    PROVE  /\ Exited(m) => child'[m] = NoChild /\ runtime'[m].running = FALSE
                                             /\ runtime'[m].tip = FALSE
           /\ ~Exited(m) => child'[m] = child[m] /\ runtime'[m] = runtime[m]
  BY DEF RefreshProcesses, RefreshedChild, RefreshedRuntime, Untrack, MarkStopped

\* Reaping exited processes and dropping the pending action at the same time.
LEMMA ReapStep ==
    ASSUME IInv, RefreshProcesses, pending' \in {pending, NoPower},
           UNCHANGED <<now, cfg, holdVars, schedVars, backend, launch>>
    PROVE  IInv'
<1>1. TypeOK'
  <2>1. child' \in ChildTable /\ runtime' \in RuntimeTable /\ untracked' = untracked
    BY UntrackType, MarkStoppedType
       DEF IInv, TypeOK, ChildTable, RuntimeTable, RefreshProcesses, RefreshedChild,
           RefreshedRuntime
  <2> QED  BY <2>1 DEF IInv, TypeOK, ChildTable, RuntimeTable, holdVars, schedVars
<1>2. MutexOwner' /\ PassHolds' /\ HoldsDurable'
  BY DEF IInv, MutexOwner, PassHolds, HoldsDurable, holdVars, schedVars
<1>3. StatusMatchesProcess'
  <2> SUFFICES ASSUME NEW m \in Miners
               PROVE  /\ runtime'[m].running <=> child'[m] # NoChild
                      /\ runtime'[m].running => runtime'[m].startedBy \in Origin
                      /\ runtime'[m].tip => runtime'[m].running
      BY DEF StatusMatchesProcess
  <2> QED  BY Reaps DEF IInv, StatusMatchesProcess
<1>4. HoldMeansStopped'
  BY Reaps DEF IInv, HoldMeansStopped, holdVars
<1>5. NothingAfterSweep'
  BY Reaps DEF IInv, NothingAfterSweep
<1> QED  BY <1>1, <1>2, <1>3, <1>4, <1>5 DEF IInv

LEMMA DropStep ==
    ASSUME IInv, pending' \in {pending, NoPower},
           UNCHANGED <<now, cfg, procVars, holdVars, schedVars, backend, launch>>
    PROVE  IInv'
  BY DEF IInv, TypeOK, MutexOwner, PassHolds, StatusMatchesProcess, HoldMeansStopped,
         HoldsDurable, NothingAfterSweep, procVars, holdVars, schedVars

LEMMA LifecycleInit == PowerInit => IInv
  BY IInvInit DEF PowerInit

\* The threads of the power action reap exited processes and drop what is pending;
\* all else is a step of the lifecycle.
Reaping == RefreshProcesses /\ pending' \in {pending, NoPower}
           /\ UNCHANGED <<now, cfg, holdVars, schedVars, backend, launch>>
Dropping == pending' \in {pending, NoPower}
            /\ UNCHANGED <<now, cfg, procVars, holdVars, schedVars, backend, launch>>

LEMMA PowerStepIs == [PowerNext]_fullVars => [Next]_vars \/ Reaping \/ Dropping
<1> SUFFICES ASSUME [PowerNext]_fullVars  PROVE [Next]_vars \/ Reaping \/ Dropping
    OBVIOUS
<1>1. CASE LaunchRuns \/ CommandRuns \/ WorldRuns \/ BackendRuns \/ SweepRuns
  BY <1>1 DEF LaunchRuns, CommandRuns, WorldRuns, BackendRuns, SweepRuns, Awake,
              Next, BackendLife
<1>2. CASE Goes(Exit) \/ Goes(Crash) \/ Goes(CrashInStop) \/ PassRuns \/ PassEnds
  BY <1>2 DEF Goes, PassRuns, PassEnds, Next, BackendLife, SchedulerStep
<1>3. CASE TimerChecksMiners \/ ConfirmChecksMiners
  BY <1>3 DEF TimerChecksMiners, ConfirmChecksMiners, Reaping
<1>4. CASE TimerChecksDeadline \/ ConfirmTakes
  BY <1>4 DEF TimerChecksDeadline, ConfirmTakes, Dropping
<1>5. CASE \/ TimerCopies \/ TimerExecutes \/ ConfirmExecutes
           \/ UiPolls \/ SecondPasses \/ Wakes
  BY <1>5 DEF TimerCopies, TimerExecutes, ConfirmExecutes, UiPolls, SecondPasses, Wakes
<1>6. CASE UNCHANGED fullVars
  BY <1>6 DEF fullVars
<1> QED  BY <1>1, <1>2, <1>3, <1>4, <1>5, <1>6 DEF PowerNext, TimerStep

LEMMA LifecycleNext == IInv /\ [PowerNext]_fullVars => IInv'
  BY PowerStepIs, IInvNext, ReapStep, DropStep DEF Reaping, Dropping

-----------------------------------------------------------------------------
(* The invariant of the power action *)

LEMMA Bounds == /\ Countdown \in Int /\ Lease \in Int
                /\ 0 <= Lease /\ Lease < Countdown
                /\ 0 \in 0 .. Countdown /\ Countdown \in 0 .. Countdown
                /\ 0 \in 0 .. (Lease + 1) /\ (Lease + 1) \in 0 .. (Lease + 1)
  BY PowerAssumption

LEMMA PInvInit == PowerInit => PInv
<1> SUFFICES ASSUME PowerInit  PROVE PInv
    OBVIOUS
<1>1. pending = NoPower /\ request = "none" /\ seen = FALSE
  BY DEF PowerInit, Init
<1>2. timer = [at |-> "tick", action |-> NoPower]
      /\ confirming = [at |-> "none", action |-> NoPower]
  BY DEF PowerInit, Without, Holding
<1>3. PowerTypeOK
  <2>1. left \in 0 .. Countdown /\ age \in 0 .. (Lease + 1) /\ asleep \in BOOLEAN
    BY Bounds DEF PowerInit
  <2>2. timer \in Step /\ confirming \in Step
    BY <1>2 DEF Step, Places
  <2> QED  BY <1>1, <1>2, <2>1, <2>2 DEF PowerTypeOK
<1> QED  BY <1>1, <1>2, <1>3 DEF PInv, Requested, ClosedDialogAges, DueWasSeen

\* A step of the lifecycle at most removes the pending action.
LEMMA AwakeStep ==
    ASSUME PInv, pending' \in {pending, NoPower}, request' = Canceled,
           UNCHANGED <<left, age, timer, confirming, asleep, seen>>
    PROVE  PInv'
<1>1. request' \in {request, "canceled"} /\ (request = "none" => request' = "none")
  BY DEF Canceled
<1>2. PowerTypeOK'
  BY <1>1 DEF PInv, PowerTypeOK
<1> QED  BY <1>1, <1>2 DEF PInv, Requested, ClosedDialogAges, DueWasSeen

LEMMA GoesStep ==
    ASSUME PInv, pending' = NoPower,
           timer' = Without("tick"), confirming' = Without("none"),
           request' = "none", seen' = FALSE, UNCHANGED <<left, age, asleep>>
    PROVE  PInv'
<1>1. timer' = [at |-> "tick", action |-> NoPower]
      /\ confirming' = [at |-> "none", action |-> NoPower]
  BY DEF Without, Holding
<1>2. timer' \in Step /\ confirming' \in Step
  BY <1>1 DEF Step, Places
<1>3. /\ timer'.at = "tick" /\ timer'.action = NoPower
      /\ confirming'.at = "none" /\ confirming'.action = NoPower
  BY <1>1
<1>4. /\ left' \in 0 .. Countdown /\ age' \in 0 .. (Lease + 1)
      /\ asleep' \in BOOLEAN /\ request' = "none" /\ seen' = FALSE
  BY DEF PInv, PowerTypeOK
<1>5. PowerTypeOK'
  BY <1>2, <1>3, <1>4 DEF PowerTypeOK
<1> QED  BY <1>3, <1>4, <1>5 DEF PInv, Requested, ClosedDialogAges, DueWasSeen

LEMMA PassEndsStep == ASSUME TypeOK, PInv, PassEnds  PROVE PInv'
<1>1. timer' = [at |-> "power", action |-> NoPower]
  BY DEF PassEnds, Without, Holding
<1>2. pending' = pending \/ (pending = NoPower /\ pending' \in Schedules)
  BY TickEndPending DEF PassEnds
<1>3. CASE pending = NoPower /\ pending' # NoPower
  <2>1. left' = Countdown /\ request' = "live" /\ seen' = FALSE
        /\ UNCHANGED <<age, confirming, asleep>>
    BY <1>3 DEF PassEnds
  <2>2. PowerTypeOK'
    BY <1>1, <2>1, Bounds DEF PInv, PowerTypeOK, Step, Places
  <2>3. age \in Int /\ age >= 0
    BY Bounds DEF PInv, PowerTypeOK
  <2>4. ClosedDialogAges'
    BY <2>1, <2>3, Bounds DEF ClosedDialogAges
  <2> QED  BY <1>1, <1>2, <2>1, <2>2, <2>4 DEF PInv, Requested, DueWasSeen
<1>4. CASE ~(pending = NoPower /\ pending' # NoPower)
  <2>1. UNCHANGED <<left, request, seen, age, confirming, asleep>>
    BY <1>4 DEF PassEnds
  <2>2. PowerTypeOK'
    BY <1>1, <2>1 DEF PInv, PowerTypeOK, Step, Places
  <2> QED  BY <1>1, <1>2, <1>4, <2>1, <2>2
           DEF PInv, Requested, ClosedDialogAges, DueWasSeen
<1> QED  BY <1>3, <1>4

-----------------------------------------------------------------------------
(* The thread that serves the countdown *)

LEMMA CopiesStep == ASSUME PInv, TimerCopies  PROVE PInv'
<1>1. UNCHANGED <<pending, left, age, confirming, asleep, request, seen>>
  BY DEF TimerCopies, vars
<1>2. CASE pending = NoPower
  <2>1. timer' = [at |-> "tick", action |-> NoPower]
    BY <1>2 DEF TimerCopies, Without, Holding
  <2> QED  BY <1>1, <2>1
           DEF PInv, PowerTypeOK, Step, Places, Requested, ClosedDialogAges, DueWasSeen
<1>3. CASE pending # NoPower
  <2>1. timer' = [at |-> "copied", action |-> pending]
    BY <1>3 DEF TimerCopies, Holding
  <2> QED  BY <1>1, <1>3, <2>1
           DEF PInv, PowerTypeOK, Step, Places, Requested, ClosedDialogAges, DueWasSeen
<1> QED  BY <1>2, <1>3

LEMMA MinersStep == ASSUME PInv, TimerChecksMiners  PROVE PInv'
<1>1. UNCHANGED <<left, age, confirming, asleep, seen>> /\ request' = Canceled
      /\ timer.at = "copied" /\ timer \in Step
  BY DEF TimerChecksMiners, PInv, PowerTypeOK
<1>2. request' \in {request, "canceled"} /\ (request = "none" => request' = "none")
  BY <1>1 DEF Canceled
<1>3. pending' \in {pending, NoPower}
      /\ timer' \in {[at |-> "tick", action |-> NoPower],
                     [at |-> "idle", action |-> timer.action]}
  BY <1>1 DEF TimerChecksMiners, Without, Holding, Step
<1>4. PowerTypeOK'
  BY <1>1, <1>2, <1>3 DEF PInv, PowerTypeOK, Step, Places
<1> QED  BY <1>1, <1>2, <1>3, <1>4 DEF PInv, Requested, ClosedDialogAges, DueWasSeen

\* The step that matters: when the countdown is over and the dialog's lease is
\* not, the two clocks show that the dialog polled since the request.
LEMMA DeadlineStep == ASSUME PInv, TimerChecksDeadline  PROVE PInv'
<1>1. UNCHANGED <<left, age, confirming, asleep, seen>>
      /\ timer.at = "idle" /\ timer \in Step
  BY DEF TimerChecksDeadline, PInv, PowerTypeOK
<1>2. request' \in {request, "canceled"} /\ (request = "none" => request' = "none")
  BY DEF TimerChecksDeadline, Canceled
<1>3. /\ pending' \in {pending, NoPower}
      /\ \/ timer' = [at |-> "tick", action |-> NoPower]
         \/ /\ timer' = [at |-> "due", action |-> timer.action]
            /\ ~(left > 0) /\ ~(timer.action \in Attended /\ age > Lease)
  BY <1>1 DEF TimerChecksDeadline, Without, Holding, Step
<1>4. PowerTypeOK'
  BY <1>1, <1>2, <1>3 DEF PInv, PowerTypeOK, Step, Places
<1>5. DueWasSeen'
  <2> SUFFICES ASSUME timer'.at = "due", timer'.action \in Attended  PROVE seen'
      BY DEF DueWasSeen
  <2>1. ~(left > 0) /\ ~(age > Lease)
    BY <1>3
  <2>2. left \in Int /\ left >= 0 /\ age \in Int
    BY Bounds DEF PInv, PowerTypeOK
  <2>3. ~(age > Lease \/ age + left >= Countdown)
    BY <2>1, <2>2, Bounds
  <2>4. request # "none"
    BY <1>1 DEF PInv, Requested
  <2>5. seen
    BY <2>3, <2>4 DEF PInv, ClosedDialogAges
  <2> QED  BY <1>1, <2>5
<1> QED  BY <1>1, <1>2, <1>3, <1>4, <1>5 DEF PInv, Requested, ClosedDialogAges

LEMMA ExecutesStep == ASSUME PInv, TimerExecutes  PROVE PInv'
<1>1. /\ UNCHANGED <<pending, left, age, confirming, seen>>
      /\ asleep' = TRUE /\ request' = "served" /\ request # "none"
      /\ timer' = [at |-> "tick", action |-> NoPower]
  BY DEF TimerExecutes, vars, Without, Holding, PInv, Requested
<1> QED  BY <1>1
         DEF PInv, PowerTypeOK, Step, Places, Requested, ClosedDialogAges, DueWasSeen

-----------------------------------------------------------------------------
(* The API and time *)

LEMMA TakesStep == ASSUME PInv, ConfirmTakes  PROVE PInv'
<1>1. /\ UNCHANGED <<left, age, timer, asleep, request, seen>>
      /\ pending # NoPower /\ pending' = NoPower
      /\ confirming' = [at |-> "copied", action |-> pending]
  BY DEF ConfirmTakes, Holding
<1> QED  BY <1>1
         DEF PInv, PowerTypeOK, Step, Places, Requested, ClosedDialogAges, DueWasSeen

LEMMA ConfirmMinersStep == ASSUME PInv, ConfirmChecksMiners  PROVE PInv'
<1>1. /\ UNCHANGED <<pending, left, age, timer, asleep, seen>>
      /\ confirming.at = "copied" /\ confirming \in Step
      /\ request' \in {request, "canceled"} /\ request # "none"
  BY DEF ConfirmChecksMiners, PInv, PowerTypeOK, Requested
<1>2. confirming' \in {[at |-> "none", action |-> NoPower],
                       [at |-> "due", action |-> confirming.action]}
  BY <1>1 DEF ConfirmChecksMiners, Without, Holding, Step
<1> QED  BY <1>1, <1>2
         DEF PInv, PowerTypeOK, Step, Places, Requested, ClosedDialogAges, DueWasSeen

LEMMA ConfirmExecutesStep == ASSUME PInv, ConfirmExecutes  PROVE PInv'
<1>1. /\ UNCHANGED <<pending, left, age, timer, seen>>
      /\ asleep' = TRUE /\ request' = "served" /\ request # "none"
      /\ confirming' = [at |-> "none", action |-> NoPower]
  BY DEF ConfirmExecutes, vars, Without, Holding, PInv, Requested
<1> QED  BY <1>1
         DEF PInv, PowerTypeOK, Step, Places, Requested, ClosedDialogAges, DueWasSeen

LEMMA PollStep == ASSUME PInv, UiPolls  PROVE PInv'
<1>1. /\ UNCHANGED <<pending, left, timer, confirming, asleep, request>>
      /\ age' = 0 /\ seen' = TRUE
  BY DEF UiPolls, vars
<1> QED  BY <1>1, Bounds
         DEF PInv, PowerTypeOK, Requested, ClosedDialogAges, DueWasSeen

LEMMA SecondStep == ASSUME PInv, SecondPasses  PROVE PInv'
<1>1. /\ UNCHANGED <<pending, timer, confirming, asleep, request, seen>>
      /\ left' = IF left > 0 THEN left - 1 ELSE 0
      /\ age' = IF age <= Lease THEN age + 1 ELSE age
  BY DEF SecondPasses, vars
<1>2. left \in 0 .. Countdown /\ age \in 0 .. (Lease + 1)
  BY DEF PInv, PowerTypeOK
<1>3. left' \in 0 .. Countdown /\ age' \in 0 .. (Lease + 1)
  BY <1>1, <1>2, Bounds
<1>4. (age > Lease \/ age + left >= Countdown)
        => (age' > Lease \/ age' + left' >= Countdown)
  BY <1>1, <1>2, Bounds
<1> QED  BY <1>1, <1>3, <1>4
         DEF PInv, PowerTypeOK, Requested, ClosedDialogAges, DueWasSeen

LEMMA WakesStep == ASSUME PInv, Wakes  PROVE PInv'
<1>1. UNCHANGED <<pending, left, age, timer, confirming, request, seen>> /\ asleep' = FALSE
  BY DEF Wakes, vars
<1> QED  BY <1>1
         DEF PInv, PowerTypeOK, Requested, ClosedDialogAges, DueWasSeen

LEMMA PInvNext == TypeOK /\ PInv /\ [PowerNext]_fullVars => PInv'
<1> SUFFICES ASSUME TypeOK, PInv, [PowerNext]_fullVars  PROVE PInv'
    OBVIOUS
<1>1. CASE LaunchRuns
  BY <1>1, LaunchPending, AwakeStep DEF LaunchRuns, Awake
<1>2. CASE CommandRuns
  BY <1>2, CommandPending, AwakeStep DEF CommandRuns, Awake
<1>3. CASE WorldRuns
  BY <1>3, WorldPending, AwakeStep DEF WorldRuns, Awake
<1>4. CASE BackendRuns \/ SweepRuns
  BY <1>4, BackendPending, AwakeStep DEF BackendRuns, SweepRuns, Awake
<1>5. CASE Goes(Exit) \/ Goes(Crash) \/ Goes(CrashInStop)
  BY <1>5, GoesStep DEF Goes, Exit, Crash, Dies, CrashInStop, StopCutShort, StopAllCutShort,
                        CutShort, ProcessGone
<1>6. CASE PassRuns
  <2>1. pending' = pending
    BY <1>6, PassPending DEF PassRuns
  <2>2. UNCHANGED <<left, age, timer, confirming, asleep, request, seen>>
    BY <1>6 DEF PassRuns, powerVars
  <2> QED  BY <2>1, <2>2
           DEF PInv, PowerTypeOK, Requested, ClosedDialogAges, DueWasSeen
<1>7. CASE PassEnds
  BY <1>7, PassEndsStep
<1>8. CASE TimerStep
  BY <1>8, CopiesStep, MinersStep, DeadlineStep, ExecutesStep DEF TimerStep
<1>9. CASE ConfirmTakes \/ ConfirmChecksMiners \/ ConfirmExecutes
  BY <1>9, TakesStep, ConfirmMinersStep, ConfirmExecutesStep
<1>10. CASE UiPolls \/ SecondPasses \/ Wakes
  BY <1>10, PollStep, SecondStep, WakesStep
<1>11. CASE UNCHANGED fullVars
  BY <1>11 DEF fullVars, vars, powerVars, PInv, PowerTypeOK, Requested,
               ClosedDialogAges, DueWasSeen
<1> QED  BY <1>1, <1>2, <1>3, <1>4, <1>5, <1>6, <1>7, <1>8, <1>9, <1>10, <1>11
         DEF PowerNext

\* With the power action running beside it the lifecycle keeps its invariant, and
\* so every promise MinerLifecycle_proofs makes.
THEOREM PowerInvariance == PowerSpec => [](IInv /\ PInv)
<1>1. PowerInit => IInv /\ PInv
  BY LifecycleInit, PInvInit
<1>2. IInv /\ PInv /\ [PowerNext]_fullVars => IInv' /\ PInv'
  BY LifecycleNext, PInvNext DEF IInv
<1> QED  BY <1>1, <1>2, PTL DEF PowerSpec

\* The threads that serve a power action keep their types, and hold an action
\* exactly while they are between their first and their last step.
THEOREM PowerTypeCorrect == PowerSpec => []PowerTypeOK
<1>1. PInv => PowerTypeOK
  BY DEF PInv
<1> QED  BY <1>1, PowerInvariance, PTL

\* An action that requires a confirmation is executed at the end of its countdown
\* only if a dialog polled since it was requested, for every countdown that is
\* longer than the lease and every interleaving with the rest of the program.
THEOREM Unattended == PowerSpec => UnattendedNeverSleeps
<1>1. PInv => [TimerExecutes /\ timer.action \in Attended => seen]_fullVars
  BY DEF PInv, DueWasSeen, TimerExecutes
<1> QED  BY <1>1, PowerInvariance, PTL DEF UnattendedNeverSleeps

\* A countdown, its dialog and a suspension add nothing to what a profile may do: with
\* them the lifecycle still implements MiningPromise, under the same two premises.
THEOREM PowerKeepsPromise ==
    "stop" \notin Faults /\ "persist" \notin Faults => (PowerSpec => KeepsPromise)
<1> SUFFICES ASSUME "stop" \notin Faults, "persist" \notin Faults
             PROVE  PowerSpec => KeepsPromise
    OBVIOUS
<1>1. PowerInit => Promise!Init
  BY PromiseInit DEF PowerInit
<1>2. ASSUME Reaping \/ Dropping  PROVE PromiseStep
  <2>1. MiningNow' = MiningNow
    BY <1>2, RefreshEndsNothing DEF Reaping, Dropping, procVars, MiningNow, Alive
  <2>2. UNCHANGED <<AskedNow, holds, OpenNow>>
    BY <1>2 DEF Reaping, Dropping, holdVars, AskedNow, OpenNow
  <2> QED  BY <2>1, <2>2, PromiseIs
<1>3. IInv /\ IInv' /\ [PowerNext]_fullVars => [Promise!Next]_(Promise!vars)
  BY <1>2, PowerStepIs, StepKeepsPromise DEF PromiseStep
<1> QED  BY <1>1, <1>3, PowerInvariance, PTL DEF PowerSpec, KeepsPromise, Promise!Spec

=============================================================================
