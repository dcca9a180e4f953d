--------------------------- MODULE MinerLifecycle_proofs ---------------------------
(***************************************************************************)
(* The safety of MinerLifecycle for every set of profiles, schedules and   *)
(* configurations, and every combination of faults; that it implements     *)
(* MiningPromise; what a weekly window means in absolute time; why a Stop  *)
(* outlasts everything but its occurrence, with the memory that UserIntent *)
(* adds; the exclusive use of the GPUs; and the tuning each of them gets.  *)
(***************************************************************************)
EXTENDS UserIntent, WindowWeek, GpuTuning, WellFoundedInduction, TLAPS

-----------------------------------------------------------------------------
(* What the helpers return *)

ChildTable == [Miners -> Process \cup {NoChild}]
RuntimeTable == [Miners -> RuntimeView]
HoldTable == [Miners -> SUBSET Occurrences]

LEMMA UntrackType ==
    ASSUME NEW ch \in ChildTable, NEW S
    PROVE  Untrack(ch, S) \in ChildTable
BY DEF Untrack, ChildTable

LEMMA MarkStoppedType ==
    ASSUME NEW rt \in RuntimeTable, NEW S
    PROVE  MarkStopped(rt, S) \in RuntimeTable
BY DEF MarkStopped, RuntimeTable, RuntimeView

LEMMA OwnerType ==
    ASSUME NEW rt \in RuntimeTable, NEW m \in Miners, NEW startedBy \in Origin
    PROVE  [rt EXCEPT ![m].startedBy = startedBy] \in RuntimeTable
<1>1. [rt[m] EXCEPT !.startedBy = startedBy] \in RuntimeView
  BY DEF RuntimeTable, RuntimeView
<1>. QED BY <1>1 DEF RuntimeTable

LEMMA ActiveOccurrenceType ==
    ASSUME NEW w, NEW t \in Nat
    PROVE  ActiveOccurrence(w, Moment(t)) \subseteq Int
<1>1. Moment(t).day \in Int
  BY DaySecondsAssumption DEF Moment
<1>. QED BY <1>1 DEF ActiveOccurrence

LEMMA WindowOccurrenceType ==
    ASSUME NEW c, NEW s, NEW t \in Nat
    PROVE  WindowOccurrence(c, s, t) \subseteq Int
BY ActiveOccurrenceType DEF WindowOccurrence

LEMMA ScheduleOccurrencesType ==
    ASSUME NEW c, NEW t \in Nat
    PROVE  ScheduleOccurrences(c, t) \in HoldTable
<1>. SUFFICES ASSUME NEW m \in Miners
     PROVE  UNION {{<<s, d>> : d \in WindowOccurrence(c, s, t)} :
                   s \in {x \in ActiveScheduleIds(c, t) : m \in c.schedules[x].miners}}
            \subseteq Occurrences
  BY DEF ScheduleOccurrences, HoldTable
<1>1. \A s \in Schedules : {<<s, d>> : d \in WindowOccurrence(c, s, t)} \subseteq Occurrences
  BY WindowOccurrenceType DEF Occurrences
<1>. QED BY <1>1 DEF ActiveScheduleIds

LEMMA HoldOperatorsType ==
    ASSUME NEW h \in HoldTable, NEW active \in HoldTable, NEW m \in Miners
    PROVE  /\ Pause(h, m, active) \in HoldTable
           /\ PauseAll(h, active) \in HoldTable
           /\ Resume(h, m) \in HoldTable
           /\ Prune(h, active) \in HoldTable
BY DEF Pause, PauseAll, Resume, Prune, HoldTable

LEMMA SaveHoldsType ==
    ASSUME NEW h \in HoldTable, savedHolds \in HoldTable, SaveHolds(h)
    PROVE  holds' \in HoldTable /\ savedHolds' \in HoldTable
BY DEF SaveHolds

-----------------------------------------------------------------------------
(* The inductive invariant *)

\* The mutex has one owner: during a pass every launch is the pass's own.
MutexOwner ==
    launch # NoLaunch => (launch.by = "tick" <=> tick # NoTick)

\* While a pass works through its profiles, the holds are those it pruned: each
\* of them names an occurrence the pass found active.
PassHolds ==
    tick # NoTick => \A m \in Miners : holds[m] \subseteq tick.active[m]

IInv == /\ TypeOK
        /\ MutexOwner
        /\ PassHolds
        /\ StatusMatchesProcess
        /\ HoldMeansStopped
        /\ HoldsDurable
        /\ NothingAfterSweep

-----------------------------------------------------------------------------
(* Types *)

LEMMA InitType == Init => TypeOK
<1>. SUFFICES ASSUME Init PROVE TypeOK
  OBVIOUS
<1>1. [running |-> FALSE, startedBy |-> "", tip |-> FALSE] \in RuntimeView
  BY DEF RuntimeView
<1>2. runtime \in [Miners -> RuntimeView]
  BY <1>1, Zenon DEF Init
<1>3. child \in [Miners -> Process \cup {NoChild}]
  BY DEF Init
<1>4. holds \in [Miners -> SUBSET Occurrences] /\ savedHolds \in [Miners -> SUBSET Occurrences]
  BY DEF Init
<1>5. now \in 0 .. MaxClock
  <2>1. MaxClock \in Nat
    BY LifecycleAssumption
  <2>2. now = 0
    BY DEF Init
  <2>. QED BY <2>1, <2>2
<1>. QED BY <1>2, <1>3, <1>4, <1>5 DEF Init, TypeOK

LEMMA NewLaunchType ==
    ASSUME NEW by \in {"start", "force", "tip", "tick"}, NEW m \in Miners,
           NEW startedBy \in Origin, NEW tip \in BOOLEAN
    PROVE  NewLaunch(by, m, startedBy, tip) \in Launch
BY DEF NewLaunch, Launch

\* What a Stop that is cut short has written.
LEMMA CutShortSaves ==
    ASSUME CrashInStop, holds \in HoldTable, ScheduleOccurrences(cfg, now) \in HoldTable
    PROVE  \E h \in HoldTable : CutShort(h)
<1>1. CASE StopAllCutShort
  <2>1. PauseAll(holds, ScheduleOccurrences(cfg, now)) \in HoldTable
    BY DEF PauseAll, HoldTable
  <2>. QED BY <1>1, <2>1 DEF StopAllCutShort
<1>2. ASSUME NEW m \in Miners, StopCutShort(m)
      PROVE  \E h \in HoldTable : CutShort(h)
  BY <1>2, HoldOperatorsType DEF StopCutShort
<1>. QED BY <1>1, <1>2 DEF CrashInStop

LEMMA TypeStep ==
    ASSUME TypeOK, MutexOwner, StatusMatchesProcess, [Next]_vars
    PROVE  TypeOK'
<1>. USE DEF vars, procVars, holdVars, schedVars
<1>child. child \in ChildTable /\ runtime \in RuntimeTable
  BY DEF TypeOK, ChildTable, RuntimeTable
<1>holds. holds \in HoldTable /\ savedHolds \in HoldTable
  BY DEF TypeOK, HoldTable
<1>active. ScheduleOccurrences(cfg, now) \in HoldTable
  BY ScheduleOccurrencesType DEF TypeOK
<1>tables. \A S : /\ Untrack(child, S) \in ChildTable
                  /\ MarkStopped(runtime, S) \in RuntimeTable
  BY <1>child, UntrackType, MarkStoppedType
<1>refresh. RefreshProcesses => /\ child' \in ChildTable
                                /\ runtime' \in RuntimeTable
                                /\ untracked' = untracked
  BY <1>tables DEF RefreshProcesses, RefreshedChild, RefreshedRuntime
<1>stop. \A S : StopMiners(S) => /\ child' \in ChildTable
                                 /\ runtime' \in RuntimeTable
                                 /\ untracked' = untracked
  BY <1>tables DEF StopMiners
<1>return. launch # NoLaunch /\ Return => launch' = NoLaunch /\ tick' \in Pass \cup {NoTick}
  BY DEF Return, MutexOwner, TypeOK, Pass
<1>1. ASSUME NEW m \in Miners, NEW restart \in BOOLEAN, StartOrRestart(m, restart)
      PROVE  TypeOK'
  <2>1. launch' \in Launch
    <3>1. UserOrigin(m) \in Origin
      BY <1>1 DEF StartOrRestart, UserOrigin, UserStartOrigin, Origin
    <3>. QED BY <1>1, <3>1, NewLaunchType DEF StartOrRestart
  <2>. QED BY <1>1, <2>1, <1>stop DEF StartOrRestart, TypeOK, ChildTable, RuntimeTable
<1>2. ASSUME NEW m \in Miners, StartWaits(m)
      PROVE  TypeOK'
  <2>1. runtime' \in RuntimeTable
    BY <1>2, <1>tables, OwnerType DEF StartWaits, Origin
  <2>2. holds' \in HoldTable /\ savedHolds' \in HoldTable
    BY <1>2, <1>holds, <1>active, HoldOperatorsType, SaveHoldsType DEF StartWaits
  <2>. QED BY <1>2, <1>tables, <2>1, <2>2
       DEF StartWaits, TypeOK, ChildTable, RuntimeTable, HoldTable
<1>3. ASSUME NEW m \in Miners, ForceStart(m)
      PROVE  TypeOK'
  BY <1>3, NewLaunchType DEF ForceStart, TypeOK, Origin
<1>4. ASSUME NEW m \in Miners, StopManually(m)
      PROVE  TypeOK'
  <2>1. holds' \in HoldTable /\ savedHolds' \in HoldTable
    BY <1>4, <1>holds, <1>active, HoldOperatorsType, SaveHoldsType DEF StopManually
  <2>. QED BY <1>4, <1>stop, <2>1
       DEF StopManually, TypeOK, ChildTable, RuntimeTable, HoldTable
<1>5. CASE StopAllManually
  <2>1. holds' \in HoldTable /\ savedHolds' \in HoldTable
    <3>1. PauseAll(holds, ScheduleOccurrences(cfg, now)) \in HoldTable
      BY <1>holds, <1>active DEF PauseAll, HoldTable
    <3>. QED BY <1>5, <1>holds, <3>1, SaveHoldsType DEF StopAllManually
  <2>2. /\ child' \in ChildTable /\ runtime' \in RuntimeTable
        /\ untracked' = untracked
    BY <1>5, <1>stop DEF StopAllManually
  <2>. QED BY <1>5, <2>1, <2>2
       DEF StopAllManually, TypeOK, ChildTable, RuntimeTable, HoldTable
<1>6. CASE AlreadyRunning \/ SpawnSucceeds
  <2>1. ASSUME NEW ch \in ChildTable, NEW rt \in RuntimeTable,
               launch # NoLaunch, Succeed(ch, rt)
        PROVE  TypeOK'
    <3>1. launch.miner \in Miners /\ launch.startedBy \in Origin
      BY <2>1 DEF TypeOK, Launch
    <3>2. runtime' \in RuntimeTable
      BY <2>1, <3>1, OwnerType DEF Succeed
    <3>3. holds' \in HoldTable /\ savedHolds' \in HoldTable
      BY <2>1, <3>1, <1>holds, <1>active, HoldOperatorsType, SaveHoldsType DEF Succeed
    <3>4. pending' \in Schedules \cup {NoPower}
      BY <2>1 DEF Succeed, TypeOK
    <3>5. launch' = NoLaunch /\ tick' \in Pass \cup {NoTick}
      BY <2>1, <1>return DEF Succeed
    <3>. QED BY <2>1, <3>2, <3>3, <3>4, <3>5
         DEF Succeed, Return, TypeOK, ChildTable, RuntimeTable, HoldTable
  <2>2. CASE AlreadyRunning
    BY <2>1, <2>2, <1>tables
    DEF AlreadyRunning, RefreshedChild, RefreshedRuntime, TypeOK
  <2>3. CASE SpawnSucceeds
    <3>1. launch \in Launch /\ launch.profile \in Profile
      BY <2>3 DEF SpawnSucceeds, TypeOK, Launch
    <3>2. /\ [alive |-> TRUE, profile |-> launch.profile] \in Process
          /\ [running |-> TRUE, startedBy |-> launch.startedBy, tip |-> launch.tip]
               \in RuntimeView
      BY <3>1 DEF Process, Launch, RuntimeView
    <3>3. /\ [child EXCEPT ![launch.miner] =
                 [alive |-> TRUE, profile |-> launch.profile]] \in ChildTable
          /\ [runtime EXCEPT ![launch.miner] =
                 [running |-> TRUE, startedBy |-> launch.startedBy, tip |-> launch.tip]]
               \in RuntimeTable
      BY <3>2, <1>child, Zenon DEF ChildTable, RuntimeTable
    <3>. QED BY <2>1, <2>3, <3>1, <3>3 DEF SpawnSucceeds
  <2>. QED BY <1>6, <2>2, <2>3
<1>7. CASE BeginSpawn
  <2>1. launch' \in Launch
    BY <1>7, LifecycleAssumption DEF BeginSpawn, Launchable, TypeOK, Launch, Config
  <2>. QED BY <1>7, <2>1, <1>refresh DEF BeginSpawn, TypeOK, ChildTable, RuntimeTable
<1>8. CASE LaunchFails
  <2>1. launch' = NoLaunch /\ tick' \in Pass \cup {NoTick}
    BY <1>8, <1>return DEF LaunchFails
  <2>2. /\ child' \in ChildTable /\ runtime' \in RuntimeTable
        /\ untracked' = untracked
    BY <1>8, <1>child, <1>refresh DEF LaunchFails
  <2>. QED BY <1>8, <2>1, <2>2
       DEF LaunchFails, Return, TypeOK, ChildTable, RuntimeTable
<1>9. CASE TickBegin
  <2>1. holds' \in HoldTable /\ savedHolds' \in HoldTable
    <3>1. Prune(holds, ScheduleOccurrences(cfg, now)) \in HoldTable
      BY <1>holds, <1>active DEF Prune, HoldTable
    <3>. QED BY <1>9, <1>holds, <3>1, SaveHoldsType DEF TickBegin
  <2>2. tick' \in Pass
    BY <1>9, <1>active, LifecycleAssumption
    DEF TickBegin, TypeOK, Pass, HoldTable, ActiveScheduleIds
  <2>. QED BY <1>9, <2>1, <2>2, <1>refresh
       DEF TickBegin, TypeOK, ChildTable, RuntimeTable, HoldTable
<1>10. ASSUME NEW m \in Miners, TickSkip(m)
       PROVE  TypeOK'
  <2>1. tick' \in Pass
    BY <1>10 DEF TickSkip, TypeOK, Pass
  <2>2. /\ child' \in ChildTable /\ runtime' \in RuntimeTable
        /\ untracked' = untracked
    BY <1>10, <1>child, <1>refresh DEF TickSkip
  <2>. QED BY <1>10, <2>1, <2>2 DEF TickSkip, TypeOK, ChildTable, RuntimeTable
<1>11. ASSUME NEW m \in Miners, TickStart(m)
       PROVE  TypeOK'
  BY <1>11, <1>refresh, NewLaunchType
  DEF TickStart, TypeOK, Origin, ChildTable, RuntimeTable
<1>12. CASE TickEnd
  <2>1. /\ child' \in ChildTable /\ runtime' \in RuntimeTable
        /\ untracked' = untracked
    BY <1>12, <1>stop DEF TickEnd
  <2>2. pending' \in Schedules \cup {NoPower}
    BY <1>12 DEF TickEnd, TypeOK
  <2>3. previous' \subseteq Schedules /\ tick' = NoTick
    BY <1>12 DEF TickEnd, TypeOK, Pass
  <2>. QED BY <1>12, <2>1, <2>2, <2>3 DEF TickEnd, TypeOK, ChildTable, RuntimeTable
<1>13. CASE SchedulerExits
  BY <1>13 DEF SchedulerExits, TypeOK
<1>14. ASSUME NEW m \in Miners, NEW tip \in BOOLEAN, TipSwitch(m, tip)
       PROVE  TypeOK'
  <2>1. runtime[m].startedBy \in Origin
    BY <1>14 DEF TipSwitch, Alive, StatusMatchesProcess
  <2>2. launch' \in Launch
    BY <1>14, <2>1, NewLaunchType DEF TipSwitch
  <2>3. child' \in ChildTable /\ runtime' \in RuntimeTable
    BY <1>14, <1>tables, UntrackType, MarkStoppedType
    DEF TipSwitch, RefreshedChild, RefreshedRuntime
  <2>. QED BY <1>14, <2>2, <2>3 DEF TipSwitch, TypeOK, ChildTable, RuntimeTable
<1>15. ASSUME NEW to \in {"exiting", "updating"}, BeginShutdown(to)
       PROVE  TypeOK'
  BY <1>15 DEF BeginShutdown, TypeOK
<1>16. CASE Sweep
  <2>1. /\ child' \in ChildTable /\ runtime' \in RuntimeTable
        /\ untracked' = untracked
    BY <1>16, <1>stop DEF Sweep
  <2>. QED BY <1>16, <2>1 DEF Sweep, TypeOK, ChildTable, RuntimeTable
<1>17. CASE Exit \/ Crash
  <2>1. Dies
    BY <1>17 DEF Exit, Crash
  <2>. QED BY <2>1, <1>tables DEF Dies, ProcessGone, TypeOK, RuntimeView, ChildTable
<1>18. CASE UpdateFails \/ Load
  BY <1>18 DEF UpdateFails, Load, TypeOK
<1>19. CASE Refresh
  BY <1>19, <1>refresh DEF Refresh, TypeOK, ChildTable, RuntimeTable
<1>20. CASE CancelPowerAction
  BY <1>20 DEF CancelPowerAction, TypeOK
<1>21. ASSUME NEW c \in Configs, ReplaceConfig(c)
       PROVE  TypeOK'
  BY <1>21 DEF ReplaceConfig, TypeOK
<1>22. ASSUME NEW m \in Miners, MinerExits(m)
       PROVE  TypeOK'
  BY <1>22 DEF MinerExits, Alive, TypeOK, Process
<1>23. ASSUME NEW m \in Miners, UntrackedExits(m)
       PROVE  TypeOK'
  BY <1>23 DEF UntrackedExits, TypeOK
<1>24. CASE ClockAdvances \/ ClockSetBack
  BY <1>24, LifecycleAssumption DEF ClockAdvances, ClockSetBack, TypeOK
<1>25. CASE CrashInStop
  <2>1. PICK h \in HoldTable : CutShort(h)
    BY <1>25, <1>holds, <1>active, CutShortSaves
  <2>. QED BY <2>1, <1>tables
       DEF CutShort, ProcessGone, TypeOK, RuntimeView, ChildTable, HoldTable
<1>26. CASE UNCHANGED vars
  BY <1>26 DEF TypeOK
<1>. QED
  BY <1>1, <1>2, <1>3, <1>4, <1>5, <1>6, <1>7, <1>8, <1>9, <1>10, <1>11, <1>12, <1>13,
     <1>14, <1>15, <1>16, <1>17, <1>18, <1>19, <1>20, <1>21, <1>22, <1>23, <1>24, <1>25,
     <1>26
  DEF Next, UserCommand, LaunchStep, SchedulerStep, BackendLife, Environment

-----------------------------------------------------------------------------
(* The mutex *)

LEMMA MutexStep ==
    ASSUME TypeOK, MutexOwner, [Next]_vars
    PROVE  MutexOwner'
<1>. USE DEF vars, procVars, holdVars, schedVars, MutexOwner
<1>1. CASE UserCommand
  <2>1. ASSUME NEW m \in Miners, NEW restart \in BOOLEAN, StartOrRestart(m, restart)
        PROVE  MutexOwner'
    BY <2>1 DEF StartOrRestart, MayStart, LifecycleFree, NewLaunch
  <2>2. ASSUME NEW m \in Miners, ForceStart(m)
        PROVE  MutexOwner'
    BY <2>2 DEF ForceStart, LifecycleFree, NewLaunch
  <2>3. ASSUME NEW m \in Miners, StartWaits(m) \/ StopManually(m)
        PROVE  MutexOwner'
    BY <2>3 DEF StartWaits, StopManually, MayStart
  <2>4. CASE StopAllManually \/ CancelPowerAction
    BY <2>4 DEF StopAllManually, CancelPowerAction
  <2>. QED BY <1>1, <2>1, <2>2, <2>3, <2>4 DEF UserCommand
<1>2. CASE AlreadyRunning \/ SpawnSucceeds \/ LaunchFails
  BY <1>2 DEF AlreadyRunning, SpawnSucceeds, LaunchFails, Succeed, Return
<1>3. CASE BeginSpawn
  <2>1. launch \in Launch /\ launch'.by = launch.by /\ tick' = tick
    BY <1>3 DEF BeginSpawn, TypeOK, Launch
  <2>. QED BY <1>3, <2>1 DEF BeginSpawn
<1>4. CASE SchedulerStep
  BY <1>4 DEF SchedulerStep, TickBegin, TickSkip, TickStart, TickEnd, SchedulerExits,
     LifecycleFree, NewLaunch
<1>5. ASSUME NEW m \in Miners, NEW tip \in BOOLEAN, TipSwitch(m, tip)
      PROVE  MutexOwner'
  BY <1>5 DEF TipSwitch, LifecycleFree, NewLaunch
<1>6. CASE BackendLife
  BY <1>6 DEF BackendLife, BeginShutdown, Sweep, Exit, Crash, Dies, ProcessGone,
     UpdateFails, Load
<1>7. CASE Environment
  BY <1>7 DEF Environment, Refresh, ReplaceConfig, MinerExits, UntrackedExits,
     ClockAdvances, ClockSetBack
<1>8. CASE CrashInStop
  BY <1>8 DEF CrashInStop, StopCutShort, StopAllCutShort, CutShort, ProcessGone
<1>9. CASE UNCHANGED vars
  BY <1>9
<1>. QED BY <1>1, <1>2, <1>3, <1>4, <1>5, <1>6, <1>7, <1>8, <1>9 DEF Next, LaunchStep

-----------------------------------------------------------------------------
(* The two tables *)

Agree(ch, rt) ==
    \A m \in Miners : /\ rt[m].running <=> ch[m] # NoChild
                      /\ rt[m].running => rt[m].startedBy \in Origin
                      /\ rt[m].tip => rt[m].running

LEMMA StopsAgree ==
    ASSUME NEW ch, NEW rt, Agree(ch, rt), NEW S
    PROVE  Agree(Untrack(ch, S), MarkStopped(rt, S))
<1>. SUFFICES ASSUME NEW m \in Miners
     PROVE  /\ MarkStopped(rt, S)[m].running <=> Untrack(ch, S)[m] # NoChild
            /\ MarkStopped(rt, S)[m].running => MarkStopped(rt, S)[m].startedBy \in Origin
            /\ MarkStopped(rt, S)[m].tip => MarkStopped(rt, S)[m].running
  BY DEF Agree
<1>1. CASE m \in S
  <2>1. Untrack(ch, S)[m] = NoChild
    BY <1>1 DEF Untrack
  <2>2. MarkStopped(rt, S)[m].running = FALSE /\ MarkStopped(rt, S)[m].tip = FALSE
    BY <1>1 DEF MarkStopped
  <2>. QED BY <2>1, <2>2
<1>2. CASE m \notin S
  BY <1>2 DEF Untrack, MarkStopped, Agree
<1>. QED BY <1>1, <1>2

LEMMA OwnerAgrees ==
    ASSUME NEW ch, NEW rt \in RuntimeTable, Agree(ch, rt), NEW m \in Miners,
           NEW startedBy \in Origin
    PROVE  Agree(ch, [rt EXCEPT ![m].startedBy = startedBy])
<1>. DEFINE new == [rt EXCEPT ![m].startedBy = startedBy]
<1>1. rt[m] \in RuntimeView
  BY DEF RuntimeTable
<1>2. /\ new[m].running = rt[m].running /\ new[m].tip = rt[m].tip
      /\ new[m].startedBy = startedBy
  BY <1>1 DEF RuntimeTable, RuntimeView
<1>3. \A o \in Miners : o # m => new[o] = rt[o]
  BY DEF RuntimeTable
<1>. QED BY <1>2, <1>3 DEF Agree

LEMMA StatusStep ==
    ASSUME TypeOK, StatusMatchesProcess, [Next]_vars
    PROVE  StatusMatchesProcess'
<1>. USE DEF vars, procVars, holdVars, schedVars
<1>process. \A p \in Profile, a \in BOOLEAN :
               [alive |-> a, profile |-> p] # NoChild
  BY AbsenceAssumption DEF Process
<1>now. Agree(child, runtime)
  BY DEF Agree, StatusMatchesProcess
<1>next. Agree(child', runtime') => StatusMatchesProcess'
  BY DEF Agree, StatusMatchesProcess
<1>table. runtime \in RuntimeTable
  BY DEF TypeOK, RuntimeTable
<1>refreshed. Agree(RefreshedChild, RefreshedRuntime) /\ RefreshedRuntime \in RuntimeTable
  BY <1>now, <1>table, StopsAgree, MarkStoppedType DEF RefreshedChild, RefreshedRuntime
<1>keep. UNCHANGED procVars => StatusMatchesProcess'
  BY <1>now, <1>next
<1>refresh. RefreshProcesses => StatusMatchesProcess'
  BY <1>refreshed, <1>next DEF RefreshProcesses
<1>stop. \A S : StopMiners(S) => StatusMatchesProcess'
  BY <1>now, <1>next, StopsAgree DEF StopMiners
<1>1. CASE \E m \in Miners, restart \in BOOLEAN : StartOrRestart(m, restart)
  BY <1>1, <1>keep, <1>stop DEF StartOrRestart
<1>2. ASSUME NEW m \in Miners, StartWaits(m)
      PROVE  StatusMatchesProcess'
  <2>1. Agree(Untrack(child, {m}), MarkStopped(runtime, {m}))
    BY <1>now, StopsAgree
  <2>2. MarkStopped(runtime, {m}) \in RuntimeTable
    BY <1>table, MarkStoppedType
  <2>. QED BY <1>2, <1>next, <2>1, <2>2, OwnerAgrees DEF StartWaits, Origin
<1>3. CASE \/ \E m \in Miners : ForceStart(m)
           \/ CancelPowerAction
           \/ SchedulerExits
           \/ \E to \in {"exiting", "updating"} : BeginShutdown(to)
           \/ UpdateFails \/ Load
           \/ \E c \in Configs : ReplaceConfig(c)
           \/ ClockAdvances \/ ClockSetBack
  BY <1>3, <1>keep DEF ForceStart, CancelPowerAction, SchedulerExits,
     BeginShutdown, UpdateFails, Load, ReplaceConfig, ClockAdvances, ClockSetBack
<1>4. CASE \/ \E m \in Miners : StopManually(m)
           \/ StopAllManually \/ TickEnd \/ Sweep
  BY <1>4, <1>keep, <1>stop DEF StopManually, StopAllManually, TickEnd, Sweep
<1>5. CASE \/ BeginSpawn \/ LaunchFails
           \/ TickBegin \/ \E m \in Miners : TickSkip(m) \/ TickStart(m)
           \/ Refresh
  BY <1>5, <1>keep, <1>refresh
  DEF BeginSpawn, LaunchFails, TickBegin, TickSkip, TickStart, Refresh
<1>6. CASE AlreadyRunning
  <2>1. launch.miner \in Miners /\ launch.startedBy \in Origin
    BY <1>6 DEF AlreadyRunning, TypeOK, Launch
  <2>. QED BY <1>6, <1>refreshed, <1>next, <2>1, OwnerAgrees DEF AlreadyRunning, Succeed
<1>7. CASE SpawnSucceeds
  <2>1. launch \in Launch /\ launch.profile \in Profile
    BY <1>7 DEF SpawnSucceeds, TypeOK, Launch
  <2>2. launch.miner \in Miners /\ launch.startedBy \in Origin /\ launch.tip \in BOOLEAN
    BY <2>1 DEF Launch
  <2>. DEFINE ch == [child EXCEPT ![launch.miner] =
                       [alive |-> TRUE, profile |-> launch.profile]]
              view == [running |-> TRUE, startedBy |-> launch.startedBy, tip |-> launch.tip]
              rt == [runtime EXCEPT ![launch.miner] = view]
  <2>3. view \in RuntimeView /\ view.running = TRUE /\ view.startedBy = launch.startedBy
    BY <2>2 DEF RuntimeView
  <2>4. /\ ch[launch.miner] # NoChild /\ rt[launch.miner] = view
        /\ \A o \in Miners : o # launch.miner => ch[o] = child[o] /\ rt[o] = runtime[o]
    BY <1>process, <1>table, <2>1, <2>2 DEF RuntimeTable, TypeOK
  <2>5. rt \in RuntimeTable
    BY <1>table, <2>3 DEF RuntimeTable
  <2>6. Agree(ch, rt)
    BY <1>now, <2>2, <2>3, <2>4 DEF Agree
  <2>7. Succeed(ch, rt)
    BY <1>7 DEF SpawnSucceeds
  <2>8. Agree(ch, [rt EXCEPT ![launch.miner].startedBy = launch.startedBy])
    BY <2>2, <2>5, <2>6, OwnerAgrees
  <2>. HIDE DEF ch, rt
  <2>. QED BY <1>next, <2>6, <2>7, <2>8 DEF Succeed
<1>8. ASSUME NEW m \in Miners, NEW tip \in BOOLEAN, TipSwitch(m, tip)
      PROVE  StatusMatchesProcess'
  BY <1>8, <1>refreshed, <1>next, StopsAgree DEF TipSwitch
<1>9. CASE Exit \/ Crash \/ CrashInStop
  <2>1. ProcessGone
    BY <1>9 DEF Exit, Crash, Dies, CrashInStop, StopCutShort, StopAllCutShort, CutShort
  <2>2. \A m \in Miners : /\ child'[m] = NoChild
                          /\ runtime'[m].running = FALSE /\ runtime'[m].tip = FALSE
    BY <2>1 DEF ProcessGone, Untrack
  <2>. QED BY <2>2 DEF StatusMatchesProcess
<1>10. ASSUME NEW m \in Miners, MinerExits(m)
       PROVE  StatusMatchesProcess'
  <2>1. child[m] \in Process
    BY <1>10 DEF MinerExits, Alive, TypeOK
  <2>2. [child[m] EXCEPT !.alive = FALSE] # NoChild
    BY <2>1, <1>process DEF Process
  <2>. QED BY <1>10, <2>1, <2>2
       DEF MinerExits, Alive, StatusMatchesProcess, TypeOK
<1>11. CASE \E m \in Miners : UntrackedExits(m)
  BY <1>11 DEF UntrackedExits, StatusMatchesProcess
<1>12. CASE UNCHANGED vars
  BY <1>12, <1>keep
<1>. QED
  BY <1>1, <1>2, <1>3, <1>4, <1>5, <1>6, <1>7, <1>8, <1>9, <1>10, <1>11, <1>12
  DEF Next, UserCommand, LaunchStep, SchedulerStep, BackendLife, Environment

-----------------------------------------------------------------------------
(* Holds *)

LEMMA SaveHoldsKeepsDurable ==
    ASSUME NEW h, HoldsDurable, SaveHolds(h)
    PROVE  HoldsDurable'
BY DEF HoldsDurable, SaveHolds

LEMMA DurableStep ==
    ASSUME HoldsDurable, [Next]_vars
    PROVE  HoldsDurable'
<1>. USE DEF vars, procVars, holdVars, schedVars
<1>keep. UNCHANGED holdVars => HoldsDurable'
  BY DEF HoldsDurable
<1>1. CASE UserCommand
  BY <1>1, <1>keep, SaveHoldsKeepsDurable
  DEF UserCommand, StartOrRestart, StartWaits, ForceStart, StopManually,
      StopAllManually, CancelPowerAction
<1>2. CASE LaunchStep
  BY <1>2, <1>keep, SaveHoldsKeepsDurable
  DEF LaunchStep, AlreadyRunning, BeginSpawn, SpawnSucceeds, LaunchFails, Succeed
<1>3. CASE SchedulerStep
  BY <1>3, <1>keep, SaveHoldsKeepsDurable
  DEF SchedulerStep, TickBegin, TickSkip, TickStart, TickEnd, SchedulerExits
<1>4. CASE BackendLife
  <2>1. CASE Exit \/ Crash
    BY <2>1 DEF Exit, Crash, Dies, HoldsDurable
  <2>. QED BY <1>4, <1>keep, <2>1 DEF BackendLife, BeginShutdown, Sweep, UpdateFails, Load
<1>5. CASE \E m \in Miners, tip \in BOOLEAN : TipSwitch(m, tip)
  BY <1>5, <1>keep DEF TipSwitch
<1>6. CASE Environment
  BY <1>6, <1>keep DEF Environment, Refresh, ReplaceConfig, MinerExits, UntrackedExits,
     ClockAdvances, ClockSetBack
<1>7. CASE CrashInStop
  BY <1>7 DEF CrashInStop, StopCutShort, StopAllCutShort, CutShort, HoldsDurable
<1>8. CASE UNCHANGED vars
  BY <1>8, <1>keep
<1>. QED BY <1>1, <1>2, <1>3, <1>4, <1>5, <1>6, <1>7, <1>8 DEF Next

LEMMA PassStep ==
    ASSUME TypeOK, MutexOwner, PassHolds, [Next]_vars
    PROVE  PassHolds'
<1>. USE DEF vars, procVars, holdVars, schedVars
<1>keep. UNCHANGED <<holds, tick>> => PassHolds'
  BY DEF PassHolds
<1>free. tick' = NoTick => PassHolds'
  BY DEF PassHolds
<1>1. CASE UserCommand
  BY <1>1, <1>keep, <1>free
  DEF UserCommand, StartOrRestart, StartWaits, ForceStart, StopManually,
      StopAllManually, CancelPowerAction, MayStart, LifecycleFree
<1>2. CASE LaunchStep
  <2>1. CASE launch # NoLaunch /\ launch.by = "tick" /\ Return /\ UNCHANGED holds
    <3>1. tick \in Pass
      BY <2>1 DEF MutexOwner, TypeOK
    <3>2. tick' \in Pass /\ tick'.active = tick.active
      BY <2>1, <3>1 DEF Return, Pass
    <3>. QED BY <2>1, <3>1, <3>2 DEF PassHolds, MutexOwner
  <2>2. CASE launch # NoLaunch /\ launch.by # "tick" /\ Return
    BY <2>2, <1>free DEF Return, MutexOwner
  <2>3. CASE BeginSpawn
    BY <2>3, <1>keep DEF BeginSpawn
  <2>. QED BY <1>2, <2>1, <2>2, <2>3
       DEF LaunchStep, AlreadyRunning, SpawnSucceeds, LaunchFails, Succeed
<1>3. CASE TickBegin
  <2>1. holds' = Prune(holds, ScheduleOccurrences(cfg, now))
    BY <1>3 DEF TickBegin, SaveHolds
  <2>2. \A m \in Miners : holds'[m] \subseteq ScheduleOccurrences(cfg, now)[m]
    BY <2>1 DEF Prune, TypeOK
  <2>. QED BY <1>3, <2>2 DEF TickBegin, PassHolds
<1>4. ASSUME NEW m \in Miners, TickSkip(m)
      PROVE  PassHolds'
  <2>1. tick \in Pass /\ tick'.active = tick.active
    BY <1>4 DEF TickSkip, TypeOK, Pass
  <2>. QED BY <1>4, <2>1 DEF TickSkip, PassHolds
<1>5. CASE (\E m \in Miners : TickStart(m)) \/ TickEnd \/ SchedulerExits
  BY <1>5, <1>keep, <1>free DEF TickStart, TickEnd, SchedulerExits
<1>6. CASE \E m \in Miners, tip \in BOOLEAN : TipSwitch(m, tip)
  BY <1>6, <1>keep DEF TipSwitch
<1>7. CASE BackendLife
  BY <1>7, <1>keep, <1>free
  DEF BackendLife, BeginShutdown, Sweep, Exit, Crash, Dies, ProcessGone, UpdateFails, Load
<1>8. CASE Environment
  BY <1>8, <1>keep DEF Environment, Refresh, ReplaceConfig, MinerExits, UntrackedExits,
     ClockAdvances, ClockSetBack
<1>9. CASE CrashInStop
  BY <1>9, <1>free DEF CrashInStop, StopCutShort, StopAllCutShort, CutShort, ProcessGone
<1>10. CASE UNCHANGED vars
  BY <1>10, <1>keep
<1>. QED BY <1>1, <1>2, <1>3, <1>4, <1>5, <1>6, <1>7, <1>8, <1>9, <1>10
         DEF Next, SchedulerStep

LEMMA HoldStep ==
    ASSUME TypeOK, PassHolds, HoldMeansStopped, [Next]_vars
    PROVE  HoldMeansStopped'
<1>. USE DEF vars, procVars, holdVars, schedVars
<1>. SUFFICES ASSUME "stop" \notin Faults, NEW m \in Miners, holds'[m] # {}
     PROVE  /\ child'[m] = NoChild
            /\ launch' # NoLaunch /\ launch'.miner = m => launch'.by \in {"start", "force"}
  BY DEF HoldMeansStopped
<1>. DEFINE Ok == /\ child'[m] = NoChild
                  /\ launch' # NoLaunch /\ launch'.miner = m =>
                        launch'.by \in {"start", "force"}
<1>old. holds[m] # {} => /\ child[m] = NoChild
                         /\ launch # NoLaunch /\ launch.miner = m =>
                               launch.by \in {"start", "force"}
  BY DEF HoldMeansStopped
<1>keep. child'[m] = child[m] /\ UNCHANGED <<holds, launch>> => Ok
  BY <1>old
<1>idle. child'[m] = NoChild /\ launch' = NoLaunch => Ok
  OBVIOUS
<1>stop. \A S : StopMiners(S) => /\ child[m] = NoChild => child'[m] = NoChild
                                 /\ m \in S => child'[m] = NoChild
  BY DEF StopMiners, Untrack
<1>refresh. RefreshProcesses /\ child[m] = NoChild => child'[m] = NoChild
  BY DEF RefreshProcesses, RefreshedChild, Untrack
<1>1. ASSUME NEW o \in Miners, NEW restart \in BOOLEAN, StartOrRestart(o, restart)
      PROVE  Ok
  BY <1>1, <1>old, <1>stop DEF StartOrRestart, NewLaunch
<1>2. ASSUME NEW o \in Miners, StartWaits(o)
      PROVE  Ok
  <2>1. m # o /\ holds'[m] = holds[m]
    BY <1>2 DEF StartWaits, SaveHolds, Resume, TypeOK
  <2>. QED BY <1>2, <1>old, <2>1 DEF StartWaits, MayStart, LifecycleFree, Untrack
<1>3. ASSUME NEW o \in Miners, ForceStart(o)
      PROVE  Ok
  BY <1>3, <1>old DEF ForceStart, NewLaunch
<1>4. ASSUME NEW o \in Miners, StopManually(o)
      PROVE  Ok
  <2>1. StopMiners({o}) /\ launch' = NoLaunch
    BY <1>4 DEF StopManually, StopMayFail, LifecycleFree
  <2>2. m # o => holds'[m] = holds[m]
    BY <1>4 DEF StopManually, SaveHolds, Pause, TypeOK
  <2>. QED BY <1>old, <1>stop, <1>idle, <2>1, <2>2
<1>5. CASE StopAllManually
  <2>1. StopMiners({o \in Miners : child[o] # NoChild}) /\ launch' = NoLaunch
    BY <1>5 DEF StopAllManually, StopMayFail, LifecycleFree
  <2>. QED BY <1>stop, <1>idle, <2>1
<1>6. CASE AlreadyRunning \/ SpawnSucceeds
  <2>1. launch # NoLaunch /\ launch' = NoLaunch /\ launch \in Launch
    BY <1>6 DEF AlreadyRunning, SpawnSucceeds, Succeed, Return, TypeOK
  <2>2. holds[m] # {}
    BY <1>6 DEF AlreadyRunning, SpawnSucceeds, Succeed, SaveHolds, Resume, TypeOK
  <2>3. CASE AlreadyRunning
    BY <2>3, <1>old, <1>idle, <2>1, <2>2
    DEF AlreadyRunning, Succeed, RefreshedChild, Untrack
  <2>4. CASE SpawnSucceeds /\ launch.miner # m
    BY <2>4, <1>old, <1>idle, <2>1, <2>2 DEF SpawnSucceeds, Succeed, TypeOK
  <2>5. CASE SpawnSucceeds /\ launch.miner = m
    <3>1. launch.by \in {"start", "force"}
      BY <2>5, <1>old, <2>1, <2>2
    <3>2. holds' = Resume(holds, m)
      BY <2>5, <3>1 DEF SpawnSucceeds, Succeed, SaveHolds
    <3>. QED BY <3>2 DEF Resume, TypeOK
  <2>. QED BY <1>6, <2>3, <2>4, <2>5
<1>7. CASE BeginSpawn
  <2>1. launch'.by = launch.by /\ launch'.miner = launch.miner /\ holds' = holds
    BY <1>7 DEF BeginSpawn, TypeOK, Launch
  <2>. QED BY <1>7, <1>old, <1>refresh, <2>1 DEF BeginSpawn
<1>8. CASE LaunchFails
  BY <1>8, <1>old, <1>refresh, <1>idle DEF LaunchFails, Return
<1>9. CASE TickBegin
  <2>1. holds[m] # {}
    BY <1>9 DEF TickBegin, SaveHolds, Prune, TypeOK
  <2>. QED BY <1>9, <1>old, <1>refresh, <1>idle, <2>1 DEF TickBegin, LifecycleFree
<1>10. ASSUME NEW o \in Miners, TickSkip(o)
       PROVE  Ok
  BY <1>10, <1>old, <1>keep, <1>refresh DEF TickSkip
<1>11. ASSUME NEW o \in Miners, TickStart(o)
       PROVE  Ok
  <2>1. holds[o] \cap tick.active[o] = {} /\ holds[o] \subseteq tick.active[o]
    BY <1>11 DEF TickStart, IsPaused, PassHolds
  <2>2. m # o
    BY <1>11, <2>1 DEF TickStart
  <2>. QED BY <1>11, <1>old, <1>refresh, <2>2 DEF TickStart, NewLaunch
<1>12. CASE TickEnd \/ Sweep
  BY <1>12, <1>old, <1>stop, <1>idle DEF TickEnd, Sweep, LifecycleFree
<1>13. CASE SchedulerExits
  BY <1>13, <1>keep DEF SchedulerExits
<1>14. ASSUME NEW o \in Miners, NEW tip \in BOOLEAN, TipSwitch(o, tip)
       PROVE  Ok
  BY <1>14, <1>old DEF TipSwitch, Alive, Untrack, RefreshedChild, NewLaunch
<1>15. CASE Exit \/ Crash \/ CrashInStop
  BY <1>15, <1>idle
  DEF Exit, Crash, Dies, CrashInStop, StopCutShort, StopAllCutShort, CutShort,
      ProcessGone, Untrack
<1>16. CASE \/ \E to \in {"exiting", "updating"} : BeginShutdown(to)
            \/ UpdateFails \/ Load \/ CancelPowerAction
  BY <1>16, <1>keep DEF BeginShutdown, UpdateFails, Load, CancelPowerAction
<1>17. CASE Refresh
  BY <1>17, <1>old, <1>refresh DEF Refresh
<1>18. ASSUME NEW o \in Miners, MinerExits(o)
       PROVE  Ok
  BY <1>18, <1>old DEF MinerExits, Alive, TypeOK
<1>19. CASE \/ \E c \in Configs : ReplaceConfig(c)
            \/ \E o \in Miners : UntrackedExits(o)
            \/ ClockAdvances \/ ClockSetBack
  BY <1>19, <1>keep DEF ReplaceConfig, UntrackedExits, ClockAdvances, ClockSetBack
<1>20. CASE UNCHANGED vars
  BY <1>20, <1>keep
<1>. QED
  BY <1>1, <1>2, <1>3, <1>4, <1>5, <1>6, <1>7, <1>8, <1>9, <1>10, <1>11, <1>12, <1>13,
     <1>14, <1>15, <1>16, <1>17, <1>18, <1>19, <1>20
  DEF Next, UserCommand, LaunchStep, SchedulerStep, BackendLife, Environment

-----------------------------------------------------------------------------
(* Shutdown *)

LEMMA SweepStep ==
    ASSUME TypeOK, NothingAfterSweep, [Next]_vars
    PROVE  NothingAfterSweep'
<1>. USE DEF vars, procVars, holdVars, schedVars
<1>. DEFINE Kept(m) == child[m] # NoChild => "stop" \in Faults /\ child[m].profile.root
            Swept == backend \in {"swept", "installing"}
<1>. SUFFICES ASSUME backend' \in {"swept", "installing"}
     PROVE  /\ \A m \in Miners : Kept(m)'
            /\ launch' # NoLaunch => launch'.profile = NoProfile
  BY DEF NothingAfterSweep
<1>. DEFINE Ok == /\ \A m \in Miners : Kept(m)'
                  /\ launch' # NoLaunch => launch'.profile = NoProfile
<1>old. Swept => /\ \A m \in Miners : Kept(m)
                 /\ launch # NoLaunch => launch.profile = NoProfile
  BY DEF NothingAfterSweep
<1>shut. Swept => ShuttingDown
  BY DEF ShuttingDown
<1>child. ASSUME Swept, \A m \in Miners : child'[m] \in {NoChild, child[m]}
          PROVE  \A m \in Miners : Kept(m)'
  BY <1>child, <1>old
<1>keep. ASSUME Swept, \A m \in Miners : child'[m] \in {NoChild, child[m]},
                launch' = launch \/ launch' = NoLaunch
         PROVE  Ok
  BY <1>keep, <1>child, <1>old
<1>stop. \A S : StopMiners(S) => \A m \in Miners : child'[m] \in {NoChild, child[m]}
  BY DEF StopMiners, Untrack
<1>refresh. /\ RefreshProcesses => \A m \in Miners : child'[m] \in {NoChild, child[m]}
            /\ \A m \in Miners : RefreshedChild[m] \in {NoChild, child[m]}
  BY DEF RefreshProcesses, RefreshedChild, Untrack
<1>1. ASSUME NEW m \in Miners, NEW restart \in BOOLEAN, StartOrRestart(m, restart)
      PROVE  Ok
  BY <1>1 DEF StartOrRestart, MayStart
<1>2. ASSUME NEW m \in Miners, StartWaits(m)
      PROVE  Ok
  BY <1>2 DEF StartWaits, MayStart
<1>3. ASSUME NEW m \in Miners, ForceStart(m)
      PROVE  Ok
  BY <1>3, <1>child DEF ForceStart, NewLaunch
<1>4. ASSUME NEW m \in Miners, StopManually(m)
      PROVE  Ok
  BY <1>4, <1>keep, <1>stop DEF StopManually
<1>5. CASE StopAllManually
  BY <1>5, <1>keep, <1>stop DEF StopAllManually
<1>6. CASE CancelPowerAction
  BY <1>6, <1>keep DEF CancelPowerAction
<1>7. CASE AlreadyRunning \/ BeginSpawn
  BY <1>7, <1>shut DEF AlreadyRunning, BeginSpawn, Launchable, Succeed
<1>8. CASE SpawnSucceeds
  BY <1>8, <1>old DEF SpawnSucceeds, Succeed
<1>9. CASE LaunchFails
  BY <1>9, <1>keep, <1>refresh DEF LaunchFails, Return
<1>10. CASE TickBegin
  BY <1>10 DEF TickBegin
<1>11. CASE (\E m \in Miners : TickSkip(m)) \/ SchedulerExits
  BY <1>11, <1>keep, <1>refresh DEF TickSkip, SchedulerExits
<1>12. ASSUME NEW m \in Miners, TickStart(m)
       PROVE  Ok
  BY <1>12, <1>child, <1>refresh DEF TickStart, NewLaunch
<1>13. CASE TickEnd
  BY <1>13, <1>keep, <1>stop DEF TickEnd
<1>14. ASSUME NEW m \in Miners, NEW tip \in BOOLEAN, TipSwitch(m, tip)
       PROVE  Ok
  BY <1>14 DEF TipSwitch
<1>15. CASE Sweep
  <2>1. PICK failed \in SUBSET {m \in Miners : StopMayFail(m)} :
           StopMiners({m \in Miners : child[m] # NoChild} \ failed)
    BY <1>15 DEF Sweep
  <2>2. launch' = NoLaunch
    BY <1>15 DEF Sweep, LifecycleFree
  <2>3. \A m \in Miners : child'[m] # NoChild => m \in failed /\ child'[m] = child[m]
    BY <2>1 DEF StopMiners, Untrack
  <2>. QED BY <2>2, <2>3 DEF StopMayFail
<1>16. CASE Exit \/ Crash \/ CrashInStop
  BY <1>16 DEF Exit, Crash, Dies, CrashInStop, StopCutShort, StopAllCutShort, CutShort,
     ProcessGone
<1>17. CASE \/ \E to \in {"exiting", "updating"} : BeginShutdown(to)
            \/ UpdateFails \/ Load
  BY <1>17 DEF BeginShutdown, UpdateFails, Load
<1>18. CASE Refresh
  BY <1>18, <1>keep, <1>refresh DEF Refresh
<1>19. ASSUME NEW m \in Miners, MinerExits(m)
       PROVE  Ok
  <2>1. child[m] \in Process
    BY <1>19 DEF MinerExits, Alive, TypeOK
  <2>2. child'[m].profile = child[m].profile /\ child[m] # NoChild
    BY <1>19, <2>1 DEF MinerExits, Alive, Process, TypeOK
  <2>3. \A o \in Miners : o # m => child'[o] = child[o]
    BY <1>19 DEF MinerExits, TypeOK
  <2>. QED BY <1>19, <1>old, <2>2, <2>3 DEF MinerExits
<1>20. CASE \/ \E c \in Configs : ReplaceConfig(c)
            \/ \E m \in Miners : UntrackedExits(m)
            \/ ClockAdvances \/ ClockSetBack
  BY <1>20, <1>keep DEF ReplaceConfig, UntrackedExits, ClockAdvances, ClockSetBack
<1>21. CASE UNCHANGED vars
  BY <1>21, <1>keep
<1>. QED
  BY <1>1, <1>2, <1>3, <1>4, <1>5, <1>6, <1>7, <1>8, <1>9, <1>10, <1>11, <1>12, <1>13,
     <1>14, <1>15, <1>16, <1>17, <1>18, <1>19, <1>20, <1>21
  DEF Next, UserCommand, LaunchStep, SchedulerStep, BackendLife, Environment

-----------------------------------------------------------------------------
(* The theorems *)

LEMMA IInvInit == Init => IInv
<1>1. Init => TypeOK
  BY InitType
<1>2. Init => MutexOwner /\ PassHolds
  BY DEF Init, MutexOwner, PassHolds
<1>3. Init => StatusMatchesProcess
  <2>. SUFFICES ASSUME Init PROVE StatusMatchesProcess
    OBVIOUS
  <2>1. /\ child = [m \in Miners |-> NoChild]
        /\ runtime = [m \in Miners |-> [running |-> FALSE, startedBy |-> "", tip |-> FALSE]]
    BY DEF Init
  <2>2. \A m \in Miners : runtime[m].running = FALSE /\ runtime[m].tip = FALSE
    BY <2>1
  <2>. QED BY <2>1, <2>2 DEF StatusMatchesProcess
<1>4. Init => HoldMeansStopped /\ HoldsDurable /\ NothingAfterSweep
  BY DEF Init, HoldMeansStopped, HoldsDurable, NothingAfterSweep
<1>. QED BY <1>1, <1>2, <1>3, <1>4 DEF IInv

LEMMA IInvNext == IInv /\ [Next]_vars => IInv'
  BY TypeStep, MutexStep, PassStep, StatusStep, HoldStep, DurableStep, SweepStep DEF IInv

\* The strengthened invariant holds of every execution, whatever fails: types,
\* the single owner of the mutex and the holds of a pass support the rest.
THEOREM Invariance == Spec => []IInv
  BY IInvInit, IInvNext, PTL DEF Spec

\* Every variable keeps its type: in particular a wallet switch finds an owner to
\* restart the session for, because the two tables agree.
THEOREM TypeCorrect == Spec => []TypeOK
<1>1. IInv => TypeOK
  BY DEF IInv
<1>. QED BY <1>1, Invariance, PTL

\* The status table and the process table agree after every handler, including
\* those that a supervisor or a launch failed half-way.
THEOREM StatusIsTruthful == Spec => []StatusMatchesProcess
<1>1. IInv => StatusMatchesProcess
  BY DEF IInv
<1>. QED BY <1>1, Invariance, PTL

\* A held profile is neither running nor about to be launched by anyone but the
\* user, for every set of overlapping windows, also when the clock goes back,
\* the configuration is edited during a pass or the backend restarts.
THEOREM HoldExcludesProcess == Spec => []HoldMeansStopped
<1>1. IInv => HoldMeansStopped
  BY DEF IInv
<1>. QED BY <1>1, Invariance, PTL

\* As long as the disk takes writes, memory and disk hold the same holds, so a
\* crash between any two steps changes nothing about them.
THEOREM HoldsSurviveCrash == Spec => []HoldsDurable
<1>1. IInv => HoldsDurable
  BY DEF IInv
<1>. QED BY <1>1, Invariance, PTL

\* A launch that was under way when the shutdown flag went up never leaves a
\* process behind the sweep.
THEOREM SweepIsFinal == Spec => []NothingAfterSweep
<1>1. IInv => NothingAfterSweep
  BY DEF IInv
<1>. QED BY <1>1, Invariance, PTL

-----------------------------------------------------------------------------
(* The promise: step by step, what MiningPromise allows.  The premises are the  *)
(* two the promise makes; IInv gives that a pass or a change of wallets launches *)
(* no profile that is held (HoldMeansStopped), and that a crash finds in the     *)
(* file what was in memory (HoldsDurable).                                       *)

MiningNow == {m \in Miners : Alive(m)}
AskedNow == IF launch # NoLaunch /\ launch.by \in {"start", "force"} THEN {launch.miner} ELSE {}
OpenNow == ScheduleOccurrences(cfg, now)

PromiseStep == Promise!Next \/ UNCHANGED Promise!vars

\* Stopping and refreshing only ever end mining; refreshing does not even that.
LEMMA StopsEndMining ==
    ASSUME NEW S, StopMiners(S)
    PROVE  MiningNow' = MiningNow \ S
<1>1. \A m \in Miners : Alive(m)' <=> Alive(m) /\ m \notin S
  BY DEF StopMiners, Untrack, Alive
<1>. QED BY <1>1 DEF MiningNow

LEMMA RefreshEndsNothing ==
    ASSUME RefreshProcesses
    PROVE  MiningNow' = MiningNow
<1>1. \A m \in Miners : Alive(m)' <=> Alive(m)
  BY DEF RefreshProcesses, RefreshedChild, Untrack, Exited, Alive
<1>. QED BY <1>1 DEF MiningNow

\* What a step of the promise is, in the variables it is mapped to.
LEMMA PromiseIs ==
    /\ \A S : MiningNow' = MiningNow \ S /\ S \subseteq Miners
              /\ UNCHANGED <<AskedNow, holds, OpenNow>> => PromiseStep
    /\ UNCHANGED <<MiningNow, AskedNow, holds, OpenNow>> => PromiseStep
<1>1. ASSUME NEW S, MiningNow' = MiningNow \ S, S \subseteq Miners,
             UNCHANGED <<AskedNow, holds, OpenNow>>
      PROVE  PromiseStep
  <2>1. Promise!MiningEnds(S)
    BY <1>1 DEF Promise!MiningEnds, MiningNow, AskedNow, OpenNow
  <2>. QED BY <1>1, <2>1 DEF PromiseStep, Promise!Next
<1>2. ASSUME UNCHANGED <<MiningNow, AskedNow, holds, OpenNow>>
      PROVE  PromiseStep
  BY <1>2 DEF PromiseStep, Promise!vars, MiningNow, AskedNow, OpenNow
<1>. QED BY <1>1, <1>2

LEMMA PromiseInit == Init => Promise!Init
<1>. SUFFICES ASSUME Init PROVE Promise!Init
  OBVIOUS
<1>1. MiningNow = {} /\ AskedNow = {}
  BY DEF Init, MiningNow, AskedNow, Alive
<1>2. OpenNow \in [Miners -> SUBSET Occurrences]
  BY ScheduleOccurrencesType DEF Init, OpenNow, HoldTable
<1>. QED BY <1>1, <1>2 DEF Init, Promise!Init, MiningNow, AskedNow, OpenNow

LEMMA CommandsKeepPromise ==
    ASSUME IInv, "stop" \notin Faults, UserCommand
    PROVE  PromiseStep
<1>. USE DEF vars, procVars, holdVars, schedVars
<1>type. holds \in HoldTable
  BY DEF IInv, TypeOK, HoldTable
<1>1. ASSUME NEW m \in Miners, NEW restart \in BOOLEAN, StartOrRestart(m, restart)
      PROVE  PromiseStep
  <2>1. AskedNow = {} /\ AskedNow' = {m} /\ UNCHANGED <<holds, OpenNow>>
    <3>1. UserOrigin(m) \in Origin
      BY <1>1 DEF StartOrRestart, UserOrigin, UserStartOrigin, Origin
    <3>2. launch' \in Launch /\ launch'.by = "start" /\ launch'.miner = m
      BY <1>1, <3>1, NewLaunchType DEF StartOrRestart, NewLaunch
    <3>. QED BY <1>1, <3>2, AbsenceAssumption
         DEF StartOrRestart, MayStart, LifecycleFree, AskedNow, OpenNow
  <2>2. MiningNow' = MiningNow \/ MiningNow' = MiningNow \ {m}
    BY <1>1, StopsEndMining DEF StartOrRestart, MiningNow, Alive
  <2>3. Promise!UserAsks(m)
    BY <2>1, <2>2 DEF Promise!UserAsks, MiningNow, AskedNow, OpenNow
  <2>. QED BY <2>3 DEF PromiseStep, Promise!Next
<1>2. ASSUME NEW m \in Miners, StartWaits(m)
      PROVE  PromiseStep
  <2>1. holds' = [holds EXCEPT ![m] = {}] /\ OpenNow[m] = {}
    BY <1>2 DEF StartWaits, SaveHolds, Resume, UserOrigin, UserStartOrigin, OpenNow
  <2>2. \A o \in Miners : Alive(o)' <=> Alive(o) /\ o # m
    BY <1>2 DEF StartWaits, Untrack, Alive
  <2>3. MiningNow' = MiningNow \ {m}
    BY <2>2 DEF MiningNow
  <2>4. UNCHANGED <<AskedNow, OpenNow>>
    BY <1>2 DEF StartWaits, AskedNow, OpenNow
  <2>5. Promise!UserWaits(m)
    BY <2>1, <2>3, <2>4 DEF Promise!UserWaits, MiningNow, AskedNow, OpenNow
  <2>. QED BY <2>5 DEF PromiseStep, Promise!Next
<1>3. ASSUME NEW m \in Miners, ForceStart(m)
      PROVE  PromiseStep
  <2>1. AskedNow = {} /\ AskedNow' = {m} /\ UNCHANGED <<MiningNow, holds, OpenNow>>
    <3>1. launch' \in Launch /\ launch'.by = "force" /\ launch'.miner = m
      BY <1>3, NewLaunchType DEF ForceStart, NewLaunch, Origin
    <3>. QED BY <1>3, <3>1, AbsenceAssumption
         DEF ForceStart, LifecycleFree, AskedNow, MiningNow, Alive, OpenNow
  <2>2. Promise!UserAsks(m)
    BY <2>1 DEF Promise!UserAsks, MiningNow, AskedNow, OpenNow
  <2>. QED BY <2>2 DEF PromiseStep, Promise!Next
<1>4. ASSUME NEW m \in Miners, StopManually(m)
      PROVE  PromiseStep
  <2>1. MiningNow' = MiningNow \ {m}
    BY <1>4, StopsEndMining DEF StopManually, StopMayFail
  <2>2. holds' = [p \in Miners |-> IF p \in {m} /\ OpenNow[p] # {} THEN OpenNow[p] ELSE holds[p]]
    BY <1>4, <1>type DEF StopManually, SaveHolds, Pause, HoldTable, OpenNow
  <2>3. UNCHANGED <<AskedNow, OpenNow>>
    BY <1>4 DEF StopManually, AskedNow, OpenNow
  <2>4. Promise!UserStops({m})
    BY <2>1, <2>2, <2>3 DEF Promise!UserStops, Promise!Barring, MiningNow, AskedNow, OpenNow
  <2>. QED BY <2>4 DEF PromiseStep, Promise!Next
<1>5. CASE StopAllManually
  <2>1. MiningNow' = MiningNow \ Miners
    <3>1. StopMiners({m \in Miners : child[m] # NoChild})
      BY <1>5 DEF StopAllManually, StopMayFail
    <3>2. MiningNow' = MiningNow \ {m \in Miners : child[m] # NoChild}
      BY <3>1, StopsEndMining
    <3>. QED BY <3>2 DEF MiningNow, Alive
  <2>2. holds' = [p \in Miners |-> IF p \in Miners /\ OpenNow[p] # {} THEN OpenNow[p] ELSE holds[p]]
    BY <1>5, <1>type DEF StopAllManually, SaveHolds, PauseAll, HoldTable, OpenNow
  <2>3. UNCHANGED <<AskedNow, OpenNow>>
    BY <1>5 DEF StopAllManually, AskedNow, OpenNow
  <2>4. Promise!UserStops(Miners)
    BY <2>1, <2>2, <2>3 DEF Promise!UserStops, Promise!Barring, MiningNow, AskedNow, OpenNow
  <2>. QED BY <2>4 DEF PromiseStep, Promise!Next
<1>6. CASE CancelPowerAction
  BY <1>6, PromiseIs DEF CancelPowerAction, MiningNow, Alive, AskedNow, OpenNow
<1>. QED BY <1>1, <1>2, <1>3, <1>4, <1>5, <1>6 DEF UserCommand

\* A launch that comes back: with a mining profile at the user's request, with one
\* the program was not barred from, or with an error.
LEMMA LaunchesKeepPromise ==
    ASSUME IInv, "stop" \notin Faults, LaunchStep
    PROVE  PromiseStep
<1>. USE DEF vars, procVars, holdVars, schedVars
<1>. DEFINE m == launch.miner
            users == launch.by \in {"start", "force"}
<1>type. launch \in Launch /\ m \in Miners /\ holds \in HoldTable
  BY DEF IInv, TypeOK, HoldTable, Launch, LaunchStep, AlreadyRunning, BeginSpawn,
     SpawnSucceeds, LaunchFails
<1>there. launch # NoLaunch
  BY DEF LaunchStep, AlreadyRunning, BeginSpawn, SpawnSucceeds, LaunchFails
<1>asked. AskedNow = IF users THEN {m} ELSE {}
  BY <1>there DEF AskedNow
<1>succeed. ASSUME NEW ch, NEW rt, Succeed(ch, rt), MiningNow' = MiningNow \cup {m},
                   ~users => MiningNow' = MiningNow \/ holds[m] = {}
            PROVE  PromiseStep
  <2>1. AskedNow' = {} /\ UNCHANGED OpenNow
    BY <1>succeed DEF Succeed, Return, AskedNow, OpenNow
  <2>2. CASE users
    <3>1. holds' = [holds EXCEPT ![m] = {}]
      BY <1>succeed, <2>2 DEF Succeed, SaveHolds, Resume
    <3>2. Promise!UserStarts(m)
      BY <1>succeed, <1>asked, <2>1, <2>2, <3>1
      DEF Promise!UserStarts, MiningNow, AskedNow, OpenNow
    <3>. QED BY <1>type, <3>2 DEF PromiseStep, Promise!Next
  <2>3. CASE ~users
    <3>1. UNCHANGED <<AskedNow, holds, OpenNow>>
      BY <1>succeed, <1>asked, <2>1, <2>3 DEF Succeed
    <3>2. CASE MiningNow' = MiningNow
      BY <3>1, <3>2, PromiseIs
    <3>3. CASE holds[m] = {}
      <4>1. Promise!ProgramStarts(m)
        BY <1>succeed, <3>1, <3>3 DEF Promise!ProgramStarts, MiningNow, AskedNow, OpenNow
      <4>. QED BY <1>type, <4>1 DEF PromiseStep, Promise!Next
    <3>. QED BY <1>succeed, <2>3, <3>2, <3>3
  <2>. QED BY <2>2, <2>3
<1>1. CASE AlreadyRunning
  <2>1. Succeed(RefreshedChild, RefreshedRuntime) /\ Alive(m)
    BY <1>1 DEF AlreadyRunning
  <2>2. \A o \in Miners : Alive(o)' <=> Alive(o)
    BY <2>1 DEF Succeed, RefreshedChild, Untrack, Exited, Alive
  <2>3. MiningNow' = MiningNow /\ MiningNow' = MiningNow \cup {m}
    BY <1>type, <2>1, <2>2 DEF MiningNow
  <2>. QED BY <1>succeed, <2>1, <2>3
<1>2. CASE BeginSpawn
  <2>1. launch' # NoLaunch /\ launch'.by = launch.by /\ launch'.miner = m
    <3>1. launch' = [launch EXCEPT !.profile = cfg.miners[m]]
      BY <1>2 DEF BeginSpawn
    <3>2. launch' \in Launch
      BY <1>2, <1>type, LifecycleAssumption
      DEF BeginSpawn, Launchable, IInv, TypeOK, Launch, Config
    <3>. QED BY <1>type, <3>1, <3>2, AbsenceAssumption DEF Launch
  <2>2. UNCHANGED <<AskedNow, holds, OpenNow>>
    BY <1>2, <1>asked, <2>1 DEF BeginSpawn, AskedNow, OpenNow
  <2>. QED BY <1>2, <2>2, RefreshEndsNothing, PromiseIs DEF BeginSpawn
<1>3. CASE SpawnSucceeds
  <2>. DEFINE ch == [child EXCEPT ![m] = [alive |-> TRUE, profile |-> launch.profile]]
              rt == [runtime EXCEPT ![m] = [running |-> TRUE, startedBy |-> launch.startedBy,
                                            tip |-> launch.tip]]
  <2>1. Succeed(ch, rt) /\ launch.profile # NoProfile
    BY <1>3 DEF SpawnSucceeds
  <2>2. \A o \in Miners : Alive(o)' <=> Alive(o) \/ o = m
    <3>1. child \in ChildTable /\ child' = ch
      BY <2>1 DEF Succeed, IInv, TypeOK, ChildTable
    <3>2. [alive |-> TRUE, profile |-> launch.profile] # NoChild
      <4>1. launch.profile \in Profile
        BY <1>type, <2>1 DEF Launch
      <4>2. \A p \in Profile : [alive |-> TRUE, profile |-> p] \in Process
        BY DEF Process
      <4>. QED BY <4>1, <4>2, AbsenceAssumption
    <3>. QED BY <1>type, <3>1, <3>2 DEF Alive, ChildTable
  <2>3. MiningNow' = MiningNow \cup {m}
    BY <1>type, <2>2 DEF MiningNow
  <2>4. ~users => holds[m] = {}
    BY <1>type, <1>there DEF IInv, HoldMeansStopped
  <2>. HIDE DEF ch, rt
  <2>. QED BY <1>succeed, <2>1, <2>3, <2>4
<1>4. CASE LaunchFails
  <2>1. MiningNow' = MiningNow
    BY <1>4, RefreshEndsNothing DEF LaunchFails, MiningNow, Alive
  <2>2. AskedNow' = {} /\ UNCHANGED <<holds, OpenNow>>
    BY <1>4 DEF LaunchFails, Return, AskedNow, OpenNow
  <2>3. CASE users
    <3>1. Promise!UserIsRefused(m)
      BY <1>asked, <2>1, <2>2, <2>3
      DEF Promise!UserIsRefused, MiningNow, AskedNow, OpenNow
    <3>. QED BY <1>type, <3>1 DEF PromiseStep, Promise!Next
  <2>4. CASE ~users
    BY <1>asked, <2>1, <2>2, <2>4, PromiseIs
  <2>. QED BY <2>3, <2>4
<1>. QED BY <1>1, <1>2, <1>3, <1>4 DEF LaunchStep

\* Passes and changes of wallets up to the launch they ask for.
LEMMA PassesKeepPromise ==
    ASSUME IInv, "stop" \notin Faults,
           SchedulerStep \/ \E m \in Miners, tip \in BOOLEAN : TipSwitch(m, tip)
    PROVE  PromiseStep
<1>. USE DEF vars, procVars, holdVars, schedVars
<1>1. CASE TickBegin
  <2>1. holds' = [p \in Miners |-> holds[p] \cap OpenNow[p]]
    BY <1>1 DEF TickBegin, SaveHolds, Prune, OpenNow, IInv, TypeOK
  <2>2. UNCHANGED <<AskedNow, OpenNow>> /\ MiningNow' = MiningNow
    BY <1>1, RefreshEndsNothing DEF TickBegin, AskedNow, OpenNow
  <2>3. Promise!ClosedIsForgotten
    BY <2>1, <2>2 DEF Promise!ClosedIsForgotten, MiningNow, AskedNow, OpenNow
  <2>. QED BY <2>3 DEF PromiseStep, Promise!Next
<1>2. ASSUME NEW m \in Miners, TickSkip(m)
      PROVE  PromiseStep
  BY <1>2, RefreshEndsNothing, PromiseIs DEF TickSkip, MiningNow, Alive, AskedNow, OpenNow
<1>3. ASSUME NEW m \in Miners, TickStart(m)
      PROVE  PromiseStep
  BY <1>3, RefreshEndsNothing, PromiseIs DEF TickStart, NewLaunch, AskedNow, OpenNow
<1>4. CASE TickEnd
  <2>1. \E S \in SUBSET Miners : StopMiners(S)
    BY <1>4 DEF TickEnd
  <2>2. UNCHANGED <<AskedNow, holds, OpenNow>>
    BY <1>4 DEF TickEnd, AskedNow, OpenNow
  <2>. QED BY <2>1, <2>2, StopsEndMining, PromiseIs
<1>5. CASE SchedulerExits
  BY <1>5, PromiseIs DEF SchedulerExits, MiningNow, Alive, AskedNow, OpenNow
<1>6. ASSUME NEW m \in Miners, NEW tip \in BOOLEAN, TipSwitch(m, tip)
      PROVE  PromiseStep
  <2>1. \A o \in Miners : Alive(o)' <=> Alive(o) /\ o # m
    BY <1>6 DEF TipSwitch, RefreshedChild, Untrack, Exited, Alive
  <2>2. MiningNow' = MiningNow \ {m}
    BY <2>1 DEF MiningNow
  <2>3. UNCHANGED <<AskedNow, holds, OpenNow>>
    BY <1>6 DEF TipSwitch, LifecycleFree, NewLaunch, AskedNow, OpenNow
  <2>. QED BY <2>2, <2>3, PromiseIs
<1>. QED BY <1>1, <1>2, <1>3, <1>4, <1>5, <1>6 DEF SchedulerStep

LEMMA GoneEndsMining ==
    ASSUME ProcessGone
    PROVE  MiningNow' = {} /\ AskedNow' = {} /\ UNCHANGED OpenNow
BY DEF ProcessGone, Untrack, MiningNow, Alive, AskedNow, OpenNow

\* A Stop cut short has barred what it was about, as the whole Stop would have.
LEMMA CutShortBars ==
    ASSUME IInv, CrashInStop
    PROVE  \E S \in SUBSET Miners : holds' = Promise!Barring(S) /\ ProcessGone
<1>type. holds \in HoldTable
  BY DEF IInv, TypeOK, HoldTable
<1>1. CASE StopAllCutShort
  <2>1. holds' = Promise!Barring(Miners)
    BY <1>1, <1>type
    DEF StopAllCutShort, CutShort, PauseAll, HoldTable, Promise!Barring
  <2>. QED BY <1>1, <2>1 DEF StopAllCutShort, CutShort
<1>2. ASSUME NEW m \in Miners, StopCutShort(m)
      PROVE  \E S \in SUBSET Miners : holds' = Promise!Barring(S) /\ ProcessGone
  <2>1. holds' = Promise!Barring({m})
    BY <1>2, <1>type DEF StopCutShort, CutShort, Pause, HoldTable, Promise!Barring
  <2>. QED BY <1>2, <2>1 DEF StopCutShort, CutShort
<1>. QED BY <1>1, <1>2 DEF CrashInStop

LEMMA OthersKeepPromise ==
    ASSUME IInv, "stop" \notin Faults, "persist" \notin Faults,
           BackendLife \/ CrashInStop \/ Environment \/ UNCHANGED vars, TypeOK'
    PROVE  PromiseStep
<1>. USE DEF vars, procVars, holdVars, schedVars
<1>1. CASE Exit \/ Crash
  <2>1. Dies
    BY <1>1 DEF Exit, Crash
  <2>2. MiningNow' = {} /\ AskedNow' = {} /\ UNCHANGED OpenNow
    BY <2>1, GoneEndsMining DEF Dies
  <2>3. holds' = holds /\ holds = Promise!Barring({})
    BY <2>1 DEF Dies, IInv, HoldsDurable, TypeOK, Promise!Barring
  <2>4. Promise!BackendDies({})
    BY <2>2, <2>3 DEF Promise!BackendDies, MiningNow, AskedNow, OpenNow
  <2>. QED BY <2>4 DEF PromiseStep, Promise!Next
<1>2. CASE Sweep
  <2>1. \E S \in SUBSET Miners : StopMiners(S)
    BY <1>2 DEF Sweep
  <2>2. UNCHANGED <<AskedNow, holds, OpenNow>>
    BY <1>2 DEF Sweep, AskedNow, OpenNow
  <2>. QED BY <2>1, <2>2, StopsEndMining, PromiseIs
<1>3. CASE Refresh
  BY <1>3, RefreshEndsNothing, PromiseIs DEF Refresh, AskedNow, OpenNow
<1>4. ASSUME NEW m \in Miners, MinerExits(m)
      PROVE  PromiseStep
  <2>1. \A o \in Miners : Alive(o)' <=> Alive(o) /\ o # m
    BY <1>4 DEF MinerExits, Alive, IInv, TypeOK, Process
  <2>2. MiningNow' = MiningNow \ {m}
    BY <2>1 DEF MiningNow
  <2>3. UNCHANGED <<AskedNow, holds, OpenNow>>
    BY <1>4 DEF MinerExits, AskedNow, OpenNow
  <2>. QED BY <2>2, <2>3, PromiseIs
<1>5. CASE (\E c \in Configs : ReplaceConfig(c)) \/ ClockAdvances \/ ClockSetBack
  <2>1. OpenNow' \in [Miners -> SUBSET Occurrences]
    <3>1. now' \in Nat
      BY LifecycleAssumption DEF TypeOK
    <3>. QED BY <3>1, ScheduleOccurrencesType DEF OpenNow, HoldTable
  <2>2. UNCHANGED <<MiningNow, AskedNow, holds>>
    BY <1>5 DEF ReplaceConfig, ClockAdvances, ClockSetBack, MiningNow, Alive, AskedNow
  <2>3. Promise!WindowsChange
    BY <2>1, <2>2 DEF Promise!WindowsChange, MiningNow, AskedNow, OpenNow
  <2>. QED BY <2>3 DEF PromiseStep, Promise!Next
<1>6. CASE \/ \E to \in {"exiting", "updating"} : BeginShutdown(to)
           \/ UpdateFails \/ Load
           \/ \E m \in Miners : UntrackedExits(m)
           \/ UNCHANGED vars
  BY <1>6, PromiseIs
  DEF BeginShutdown, UpdateFails, Load, UntrackedExits, MiningNow, Alive, AskedNow, OpenNow
<1>7. CASE CrashInStop
  <2>1. PICK S \in SUBSET Miners : holds' = Promise!Barring(S) /\ ProcessGone
    BY <1>7, CutShortBars
  <2>2. MiningNow' = {} /\ AskedNow' = {} /\ UNCHANGED OpenNow
    BY <2>1, GoneEndsMining
  <2>3. Promise!BackendDies(S)
    BY <2>1, <2>2 DEF Promise!BackendDies, MiningNow, AskedNow, OpenNow
  <2>. QED BY <2>3 DEF PromiseStep, Promise!Next
<1>. QED BY <1>1, <1>2, <1>3, <1>4, <1>5, <1>6, <1>7 DEF BackendLife, Environment

LEMMA StepKeepsPromise ==
    ASSUME "stop" \notin Faults, "persist" \notin Faults, IInv, IInv', [Next]_vars
    PROVE  PromiseStep
BY CommandsKeepPromise, LaunchesKeepPromise, PassesKeepPromise, OthersKeepPromise
DEF Next, IInv

\* The lifecycle implements MiningPromise, for any profiles, windows and
\* configurations, under every fault but the two it is told of: a stop that is not
\* confirmed, and a hold that cannot be written.
THEOREM LifecycleKeepsPromise ==
    "stop" \notin Faults /\ "persist" \notin Faults => (Spec => KeepsPromise)
<1>. SUFFICES ASSUME "stop" \notin Faults, "persist" \notin Faults
     PROVE  Spec => KeepsPromise
  OBVIOUS
<1>1. IInv /\ IInv' /\ [Next]_vars => [Promise!Next]_(Promise!vars)
  BY StepKeepsPromise DEF PromiseStep
<1>. QED BY <1>1, PromiseInit, Invariance, PTL DEF Spec, KeepsPromise, Promise!Spec

-----------------------------------------------------------------------------
(* The windows of the week *)

LEMMA Division ==
    ASSUME NEW t \in Nat, NEW d \in Nat \ {0}
    PROVE  t \div d \in Nat /\ t % d \in 0..(d - 1) /\ t = (t \div d) * d + (t % d)
<1>1. t \div d \in Int /\ t % d \in 0..(d - 1)
  OBVIOUS
<1>2. t = d * (t \div d) + (t % d)
  OBVIOUS
<1>3. t \div d >= 0
  OBVIOUS
<1> QED  BY <1>1, <1>2, <1>3

LEMMA WeekdayBefore ==
    ASSUME NEW day \in Nat \ {0}
    PROVE  /\ WeekdayOf(day) \in Weekday
           /\ PreviousWeekday(WeekdayOf(day)) = WeekdayOf(day - 1)
BY DEF WeekdayOf, Weekday, PreviousWeekday

\* Days do not overlap.
LEMMA DaysApart ==
    ASSUME NEW j \in Int, NEW k \in Int, NEW d \in Nat \ {0}
    PROVE  /\ j * d \in Int /\ (j + 1) * d = j * d + d
           /\ j < k => j * d + d <= k * d
<1>1. j * d \in Int /\ (j + 1) * d = j * d + d /\ k * d \in Int
  OBVIOUS
<1>2. ASSUME j < k
      PROVE  j * d + d <= k * d
  <2>1. k - (j + 1) \in Nat /\ (k - (j + 1)) * d \in Nat
    BY <1>2
  <2>2. k * d = (j + 1) * d + (k - (j + 1)) * d
    OBVIOUS
  <2> QED  BY <1>1, <2>1, <2>2
<1> QED  BY <1>1, <1>2

LEMMA DivisionGrows ==
    ASSUME NEW t \in Nat, NEW u \in Nat, NEW d \in Nat \ {0}, t <= u
    PROVE  t \div d <= u \div d
<1> DEFINE j == t \div d
           k == u \div d
           r == t % d
           v == u % d
<1>1. /\ j \in Nat /\ r \in 0..(d - 1) /\ t = j * d + r
      /\ k \in Nat /\ v \in 0..(d - 1) /\ u = k * d + v
  BY Division
<1> HIDE DEF j, k, r, v
<1>2. k < j => k * d + d <= j * d
  BY <1>1, DaysApart
<1>3. j * d \in Nat /\ k * d \in Nat
  BY <1>1
<1>4. ~(k < j)
  BY <1>1, <1>2, <1>3
<1> QED  BY <1>1, <1>4 DEF j, k

IsWindow(w) == w.enabled \in BOOLEAN /\ w.start \in TimeOfDay /\ w.end \in TimeOfDay

\* An occurrence is active exactly while its interval of absolute time lasts.
LEMMA OccurrenceCovers ==
    ASSUME NEW w, IsWindow(w), NEW t \in Nat
    PROVE  \A day \in Int : day \in ActiveOccurrence(w, Moment(t)) <=> Covers(w, day, t)
<1> DEFINE k == t \div DaySeconds
           s == t % DaySeconds
<1>1. k \in Nat /\ s \in 0..(DaySeconds - 1) /\ t = k * DaySeconds + s /\ DaySeconds \in Nat \ {0}
  BY Division, DaySecondsAssumption
<1>2. Moment(t) = [day |-> 1 + k, weekday |-> WeekdayOf(1 + k), second |-> s]
  BY DEF Moment
<1> HIDE DEF k, s
<1>3. /\ WeekdayOf(1 + k) \in Weekday
      /\ PreviousWeekday(WeekdayOf(1 + k)) = WeekdayOf(k)
  BY <1>1, WeekdayBefore
<1> SUFFICES ASSUME NEW day \in Int
             PROVE  day \in ActiveOccurrence(w, Moment(t)) <=> Covers(w, day, t)
  OBVIOUS
<1>4. CASE ~w.enabled \/ w.start = BadTime \/ w.end = BadTime
  BY <1>4 DEF ActiveOccurrence, Covers
<1>5. CASE w.enabled /\ w.start # BadTime /\ w.end # BadTime
  <2>1. w.start \in 0..(DaySeconds - 1) /\ w.end \in 0..(DaySeconds - 1)
    BY <1>5 DEF IsWindow, TimeOfDay, Second
  <2> DEFINE b == (day - 1) * DaySeconds
  <2>2. /\ b \in Int /\ k * DaySeconds \in Int
        /\ day - 1 = k => b = k * DaySeconds
        /\ day - 1 < k => b + DaySeconds <= k * DaySeconds
        /\ day = k => b + DaySeconds = k * DaySeconds
        /\ day < k => b + DaySeconds + DaySeconds <= k * DaySeconds
        /\ k < day - 1 => k * DaySeconds + DaySeconds <= b
    <3>1. day < k => day * DaySeconds + DaySeconds <= k * DaySeconds
      BY <1>1, DaysApart
    <3>2. b + DaySeconds = day * DaySeconds /\ b \in Int
      BY <1>1, DaysApart
    <3> QED  BY <1>1, <3>1, <3>2, DaysApart
  <2>3. Covers(w, day, t) <=>
          /\ w.start # w.end /\ WeekdayOf(day) \in w.days
          /\ b + w.start <= t
          /\ t < b + w.start + (IF w.start < w.end THEN w.end - w.start
                                ELSE DaySeconds - w.start + w.end)
    BY <1>5 DEF Covers
  <2> HIDE DEF b
  <2>4. ActiveOccurrence(w, Moment(t)) =
          IF w.start <= w.end
          THEN IF WeekdayOf(1 + k) \in w.days /\ w.start <= s /\ s < w.end THEN {1 + k} ELSE {}
          ELSE IF s >= w.start /\ WeekdayOf(1 + k) \in w.days THEN {1 + k}
          ELSE IF s < w.end /\ WeekdayOf(k) \in w.days THEN {k} ELSE {}
    <3>1. /\ Moment(t).day = 1 + k /\ Moment(t).weekday = WeekdayOf(1 + k) /\ Moment(t).second = s
          /\ (1 + k) - 1 = k
      BY <1>1, <1>2
    <3>2. ~(\/ ~w.enabled \/ Moment(t).weekday \notin Weekday \/ Moment(t).second >= DaySeconds
            \/ w.start = BadTime \/ w.end = BadTime)
      BY <1>1, <1>3, <1>5, <3>1
    <3> QED  BY <1>3, <3>1, <3>2 DEF ActiveOccurrence
  <2>. DEFINE lasts == IF w.start < w.end THEN w.end - w.start
                       ELSE DaySeconds - w.start + w.end
  <2>5. CASE w.start <= w.end
    <3>1. CASE day = 1 + k
      <4>1. b = k * DaySeconds /\ t = b + s
        BY <1>1, <2>2, <3>1
      <4>2. (b + w.start <= t <=> w.start <= s) /\ (w.start < w.end => (t < b + w.start + lasts <=> s < w.end))
        BY <1>1, <2>1, <2>2, <4>1
      <4>3. day \in ActiveOccurrence(w, Moment(t)) <=>
               WeekdayOf(day) \in w.days /\ w.start <= s /\ s < w.end
        BY <2>4, <2>5, <3>1
      <4>4. w.start = w.end => ~(w.start <= s /\ s < w.end)
        BY <1>1, <2>1
      <4> HIDE DEF lasts
      <4>5. w.start # w.end <=> w.start < w.end
        BY <2>1, <2>5
      <4> QED  BY <2>3, <4>2, <4>3, <4>4, <4>5 DEF lasts
    <3>2. CASE day # 1 + k
      <4>1. day \notin ActiveOccurrence(w, Moment(t))
        BY <2>4, <2>5, <3>2
      <4>2. b + DaySeconds <= t \/ t < b
        BY <1>1, <2>2, <3>2
      <4>3. w.start < w.end => t < b \/ t >= b + w.start + lasts
        BY <1>1, <2>1, <2>2, <4>2
      <4> QED  BY <1>1, <2>1, <2>2, <2>3, <2>5, <4>1, <4>3
    <3> QED  BY <3>1, <3>2
  <2>6. CASE w.start > w.end
    <3>0. lasts = DaySeconds - w.start + w.end
      BY <2>1, <2>6
    <3>1. CASE day = 1 + k
      <4>1. b = k * DaySeconds /\ t = b + s
        BY <1>1, <2>2, <3>1
      <4>2. (b + w.start <= t <=> w.start <= s) /\ t < b + w.start + lasts
        BY <1>1, <2>1, <2>2, <3>0, <4>1
      <4>3. day \in ActiveOccurrence(w, Moment(t)) <=> WeekdayOf(day) \in w.days /\ w.start <= s
        BY <1>1, <2>1, <2>4, <2>6, <3>1
      <4> QED  BY <2>1, <2>3, <2>6, <4>2, <4>3
    <3>2. CASE day = k
      <4>1. b + DaySeconds = k * DaySeconds /\ t = b + DaySeconds + s
        BY <1>1, <2>2, <3>2
      <4>2. b + w.start <= t /\ (t < b + w.start + lasts <=> s < w.end)
        BY <1>1, <2>1, <2>2, <3>0, <4>1
      <4>3. day \in ActiveOccurrence(w, Moment(t)) <=> WeekdayOf(day) \in w.days /\ s < w.end
        BY <1>1, <2>1, <2>4, <2>6, <3>2
      <4> QED  BY <2>1, <2>3, <2>6, <4>2, <4>3
    <3>3. CASE day # k /\ day # 1 + k
      <4>1. day \notin ActiveOccurrence(w, Moment(t))
        BY <2>4, <2>6, <3>3
      <4>2. b + DaySeconds + DaySeconds <= t \/ t < b
        BY <1>1, <2>2, <3>3
      <4>3. t < b \/ t >= b + w.start + lasts
        BY <1>1, <2>1, <2>2, <3>0, <4>2
      <4> QED  BY <1>1, <2>1, <2>2, <2>3, <2>6, <4>1, <4>3
    <3> QED  BY <3>1, <3>2, <3>3
  <2> QED  BY <2>1, <2>5, <2>6
<1> QED  BY <1>4, <1>5 DEF IsWindow

LEMMA OccurrenceDays ==
    ASSUME NEW w, IsWindow(w), NEW t \in Nat
    PROVE  ActiveOccurrence(w, Moment(t)) \subseteq 0..(1 + t \div DaySeconds)
<1>1. t \div DaySeconds \in Nat
  BY Division, DaySecondsAssumption
<1> QED  BY <1>1 DEF ActiveOccurrence, Moment

\* Occurrences that are active at two moments are active between them.
LEMMA OccurrenceLasts ==
    ASSUME NEW w, IsWindow(w), NEW t1 \in Nat, NEW t2 \in Nat, NEW t3 \in Nat, t1 <= t2, t2 <= t3
    PROVE  ActiveOccurrence(w, Moment(t1)) \cap ActiveOccurrence(w, Moment(t3))
             \subseteq ActiveOccurrence(w, Moment(t2))
<1> SUFFICES ASSUME NEW day, day \in ActiveOccurrence(w, Moment(t1)), day \in ActiveOccurrence(w, Moment(t3))
             PROVE  day \in ActiveOccurrence(w, Moment(t2))
  OBVIOUS
<1>1. day \in Int
  <2>1. t1 \div DaySeconds \in Nat
    BY Division, DaySecondsAssumption
  <2> QED  BY <2>1, OccurrenceDays
<1>2. Covers(w, day, t1) /\ Covers(w, day, t3)
  BY <1>1, OccurrenceCovers
<1>3. Covers(w, day, t2)
  <2> DEFINE first == (day - 1) * DaySeconds + w.start
             length == IF w.start < w.end THEN w.end - w.start ELSE DaySeconds - w.start + w.end
  <2>1. first <= t1 /\ t3 < first + length
    BY <1>2 DEF Covers
  <2>2. first \in Int /\ length \in Int
    <3>1. w.start \in Int /\ w.end \in Int
      BY <1>2, DaySecondsAssumption DEF Covers, IsWindow, TimeOfDay, Second
    <3> QED  BY <1>1, <3>1, DaySecondsAssumption
  <2> HIDE DEF first, length
  <2>3. first <= t2 /\ t2 < first + length
    BY <2>1, <2>2
  <2> QED  BY <1>2, <2>3 DEF Covers, first, length
<1> QED  BY <1>1, <1>3, OccurrenceCovers

LEMMA WindowIsRead ==
    ASSUME IsWindow(window), elapsed \in 0..LastSecond
    PROVE  ActiveOccurrence(window, Moment(elapsed))
             = {day \in 0..(2 + LastSecond \div DaySeconds) : Covers(window, day, elapsed)}
<1>1. elapsed \in Nat /\ LastSecond \in Nat
  BY WeekAssumption
<1>2. /\ elapsed \div DaySeconds \in Nat /\ LastSecond \div DaySeconds \in Nat
      /\ elapsed \div DaySeconds <= LastSecond \div DaySeconds
  <2>1. elapsed <= LastSecond
    OBVIOUS
  <2> QED  BY <1>1, <2>1, DivisionGrows, Division, DaySecondsAssumption
<1>3. ActiveOccurrence(window, Moment(elapsed)) \subseteq 0..(2 + LastSecond \div DaySeconds)
  BY <1>1, <1>2, OccurrenceDays
<1> QED  BY <1>1, <1>2, <1>3, OccurrenceCovers

WeekInv == /\ window \in WindowSet /\ elapsed \in 0..LastSecond
           /\ key = ActiveOccurrence(window, Moment(elapsed))

\* For every length of the day, every set of weekdays and every pair of times, at every
\* second of every day: the occurrence the scheduler is told of is the one whose interval
\* of absolute time contains that second.
THEOREM OccurrencesAreIntervals == WeekSpec => []OccurrenceIsItsInterval
<1>1. WeekInit => WeekInv
  BY WeekAssumption DEF WeekInit, WeekInv
<1>2. WeekInv /\ [Evaluate]_weekVars => WeekInv'
  BY WeekAssumption DEF WeekInv, Evaluate, weekVars
<1>3. WeekInv => OccurrenceIsItsInterval
  <2>1. \A w \in WindowSet : IsWindow(w)
    BY WeekAssumption DEF IsWindow
  <2> QED  BY <2>1, WindowIsRead DEF WeekInv, OccurrenceIsItsInterval
<1> QED  BY <1>1, <1>2, <1>3, PTL DEF WeekSpec

-----------------------------------------------------------------------------
(* What the user asked for: the history variables of UserIntent beside the   *)
(* lifecycle                                                                 *)

\* The faults that can undo a hold are absent: a write that fails, so that a crash
\* loses the hold, a clock set back into an occurrence whose hold a pass has
\* pruned, and an edit that opens one again.
HoldsLast == Faults \cap {"persist", "clock", "edit"} = {}

\* What a user stopped was open at some time until now.
WasOpen ==
    \A m \in Miners : \A x \in stopped[m] :
        \E time \in 0..now : x \in ScheduleOccurrences(cfg, time)[m]

\* What a user stopped is held as long as it is open.
StopIsHeld ==
    \A m \in Miners : stopped[m] \cap ScheduleOccurrences(cfg, now)[m] \subseteq holds[m]

HInv == stopped \in HoldTable /\ WasOpen /\ StopIsHeld

\* What was acknowledged was stopped.
AInv == /\ acknowledged \in [Miners -> SUBSET Occurrences]
        /\ \A m \in Miners : acknowledged[m] \subseteq stopped[m]

-----------------------------------------------------------------------------
(* Occurrences in time *)

LEMMA OccurrenceMeans ==
    ASSUME NEW c, NEW t \in Nat, NEW m \in Miners, NEW x
    PROVE  x \in ScheduleOccurrences(c, t)[m] <=>
             \E s \in Schedules : \E d \in WindowOccurrence(c, s, t) :
                 m \in c.schedules[s].miners /\ x = <<s, d>>
BY DEF ScheduleOccurrences, ActiveScheduleIds

\* Under one configuration, an occurrence of a profile that is open at two
\* moments is open between them.
LEMMA OpenBetween ==
    ASSUME NEW c \in Configs, NEW m \in Miners,
           NEW t1 \in Nat, NEW t2 \in Nat, NEW t3 \in Nat, t1 <= t2, t2 <= t3
    PROVE  ScheduleOccurrences(c, t1)[m] \cap ScheduleOccurrences(c, t3)[m]
             \subseteq ScheduleOccurrences(c, t2)[m]
<1> SUFFICES ASSUME NEW x, x \in ScheduleOccurrences(c, t1)[m],
                    x \in ScheduleOccurrences(c, t3)[m]
             PROVE  x \in ScheduleOccurrences(c, t2)[m]
  OBVIOUS
<1>0. PICK s \in Schedules : \E d \in WindowOccurrence(c, s, t1) :
          m \in c.schedules[s].miners /\ x = <<s, d>>
  BY OccurrenceMeans
<1>1. PICK d \in WindowOccurrence(c, s, t1) :
          m \in c.schedules[s].miners /\ x = <<s, d>>
  BY <1>0
<1>2. d \in WindowOccurrence(c, s, t3)
  <2>1. \E r \in Schedules : \E e \in WindowOccurrence(c, r, t3) : x = <<r, e>>
    BY OccurrenceMeans
  <2> QED  BY <1>1, <2>1
<1>3. c.schedules[s] \in Window /\ c.schedules[s] # NoWindow
  <2>1. c.schedules[s] # NoWindow
    BY <1>1 DEF WindowOccurrence
  <2> QED  BY <2>1, LifecycleAssumption DEF Config
<1>4. IsWindow(c.schedules[s])
  BY <1>3 DEF Window, IsWindow
<1>5. d \in WindowOccurrence(c, s, t2)
  <2>1. /\ d \in ActiveOccurrence(c.schedules[s], Moment(t1))
        /\ d \in ActiveOccurrence(c.schedules[s], Moment(t3))
    BY <1>2, <1>3 DEF WindowOccurrence
  <2>2. d \in ActiveOccurrence(c.schedules[s], Moment(t2))
    BY <1>4, <2>1, OccurrenceLasts
  <2> QED  BY <1>3, <2>2 DEF WindowOccurrence
<1> QED  BY <1>1, <1>5, OccurrenceMeans

-----------------------------------------------------------------------------
(* Steps *)

LEMMA IntentStepIsNext ==
    [SpokenStep \/ SilentStep]_allVars => [Next]_vars
<1>1. SpokenStep => Next
  BY DEF SpokenStep, Next, UserCommand, LaunchStep, CrashInStop
<1>2. SilentStep => Next
  BY DEF SilentStep, Next, UserCommand, LaunchStep
<1> QED  BY <1>1, <1>2 DEF allVars

LEMMA HInvInit == IntentInit => HInv
<1> SUFFICES ASSUME IntentInit PROVE HInv
  OBVIOUS
<1>1. stopped = [m \in Miners |-> {}]
  BY DEF IntentInit
<1>2. \A m \in Miners : stopped[m] = {}
  BY <1>1
<1> QED  BY <1>1, <1>2 DEF HInv, WasOpen, StopIsHeld, HoldTable

\* A step that leaves the clock, the schedules and what was stopped, and keeps
\* of every hold what is open.
LEMMA HoldsKept ==
    ASSUME HInv, UNCHANGED <<now, cfg, stopped>>,
           \A m \in Miners : holds[m] \cap ScheduleOccurrences(cfg, now)[m] \subseteq holds'[m]
    PROVE  HInv'
BY DEF HInv, WasOpen, StopIsHeld

\* A Stop of the profiles S holds what is open of each of them.
LEMMA StopHolds ==
    ASSUME HInv, TypeOK, NEW S, HearStop(S) \/ HearUnanswered(S), UNCHANGED <<now, cfg>>,
           \A m \in Miners :
               LET open == ScheduleOccurrences(cfg, now)[m]
               IN  holds'[m] = IF m \in S /\ open # {} THEN open ELSE holds[m]
    PROVE  HInv'
<1> DEFINE open == ScheduleOccurrences(cfg, now)
<1>1. stopped' = [m \in Miners |-> IF m \in S THEN stopped[m] \cup open[m] ELSE stopped[m]]
  BY DEF HearStop, HearUnanswered, Heard
<1>2. now \in Nat /\ open \in HoldTable
  BY LifecycleAssumption, ScheduleOccurrencesType DEF TypeOK
<1>3. stopped' \in HoldTable
  BY <1>1, <1>2 DEF HInv, HoldTable
<1>4. WasOpen'
  <2>1. ASSUME NEW m \in Miners, NEW x \in stopped'[m]
        PROVE  \E time \in 0..now : x \in ScheduleOccurrences(cfg, time)[m]
    <3>1. CASE x \in stopped[m]
      BY <3>1 DEF HInv, WasOpen
    <3>2. CASE x \in open[m]
      <4>1. now \in 0..now
        BY <1>2
      <4> QED  BY <3>2, <4>1
    <3> QED  BY <1>1, <2>1, <3>1, <3>2
  <2> QED  BY <2>1 DEF WasOpen
<1>5. StopIsHeld'
  <2>1. ASSUME NEW m \in Miners
        PROVE  stopped'[m] \cap open[m] \subseteq holds'[m]
    <3>1. stopped[m] \cap open[m] \subseteq holds[m]
      BY DEF HInv, StopIsHeld
    <3>2. stopped'[m] = IF m \in S THEN stopped[m] \cup open[m] ELSE stopped[m]
      BY <1>1
    <3>3. holds'[m] = IF m \in S /\ open[m] # {} THEN open[m] ELSE holds[m]
      OBVIOUS
    <3> HIDE DEF open
    <3> QED  BY <3>1, <3>2, <3>3
  <2> QED  BY <2>1 DEF StopIsHeld
<1> QED  BY <1>3, <1>4, <1>5 DEF HInv

\* A Start of m forgets what was stopped of m, and clears no other hold.
LEMMA StartReleases ==
    ASSUME HInv, TypeOK, NEW m \in Miners, HearStart(m), UNCHANGED <<now, cfg>>,
           holds' = Resume(holds, m)
    PROVE  HInv'
<1>1. stopped' = [stopped EXCEPT ![m] = {}] /\ stopped \in HoldTable
  BY DEF HearStart, HInv
<1>2. holds \in HoldTable
  BY DEF TypeOK, HoldTable
<1>3. stopped' \in HoldTable /\ stopped'[m] = {}
  BY <1>1 DEF HoldTable
<1>4. \A o \in Miners : o # m => stopped'[o] = stopped[o] /\ holds'[o] = holds[o]
  BY <1>1, <1>2 DEF HoldTable, Resume
<1>5. WasOpen'
  BY <1>3, <1>4 DEF HInv, WasOpen
<1>6. StopIsHeld'
  BY <1>3, <1>4 DEF HInv, StopIsHeld
<1> QED  BY <1>3, <1>5, <1>6 DEF HInv

\* As the clock goes on, what was stopped and is open has not been closed.
LEMMA TimeKeepsHolds ==
    ASSUME HInv, TypeOK, ClockAdvances, UNCHANGED stopped
    PROVE  HInv'
<1>1. /\ now \in Nat /\ now' = now + 1
      /\ cfg' = cfg /\ cfg \in Configs /\ holds' = holds
  BY LifecycleAssumption DEF ClockAdvances, TypeOK, holdVars
<1>2. WasOpen'
  <2>1. 0..now \subseteq 0..now'
    BY <1>1
  <2> QED  BY <1>1, <2>1 DEF HInv, WasOpen
<1>3. ASSUME NEW m \in Miners,
             NEW x \in stopped[m] \cap ScheduleOccurrences(cfg, now')[m]
      PROVE  x \in holds[m]
  <2>1. PICK time \in 0..now : x \in ScheduleOccurrences(cfg, time)[m]
    BY <1>3 DEF HInv, WasOpen
  <2>2. x \in ScheduleOccurrences(cfg, now)[m]
    BY <1>1, <1>3, <2>1, OpenBetween
  <2> QED  BY <1>3, <2>2 DEF HInv, StopIsHeld
<1>4. StopIsHeld'
  BY <1>1, <1>3 DEF StopIsHeld
<1> QED  BY <1>2, <1>4 DEF HInv

LEMMA SpokenKeepsHolds ==
    ASSUME HInv, TypeOK, SpokenStep
    PROVE  HInv'
<1>table. holds \in HoldTable /\ ScheduleOccurrences(cfg, now) \in HoldTable
  BY LifecycleAssumption, ScheduleOccurrencesType DEF TypeOK, HoldTable
<1>1. ASSUME NEW m \in Miners, \/ StopManually(m) /\ HearStop({m})
                               \/ StopCutShort(m) /\ HearUnanswered({m})
      PROVE  HInv'
  <2>1. UNCHANGED <<now, cfg>> /\ holds' = Pause(holds, m, ScheduleOccurrences(cfg, now))
    BY <1>1 DEF StopManually, SaveHolds, StopCutShort, CutShort, ProcessGone
  <2>2. \A o \in Miners :
            LET open == ScheduleOccurrences(cfg, now)[o]
            IN  holds'[o] = IF o \in {m} /\ open # {} THEN open ELSE holds[o]
    BY <1>table, <2>1 DEF Pause, HoldTable
  <2> QED  BY <1>1, <2>1, <2>2, StopHolds
<1>2. CASE \/ StopAllManually /\ HearStop(Miners)
           \/ StopAllCutShort /\ HearUnanswered(Miners)
  <2>1. UNCHANGED <<now, cfg>> /\ holds' = PauseAll(holds, ScheduleOccurrences(cfg, now))
    BY <1>2 DEF StopAllManually, SaveHolds, StopAllCutShort, CutShort, ProcessGone
  <2>2. \A o \in Miners :
            LET open == ScheduleOccurrences(cfg, now)[o]
            IN  holds'[o] = IF o \in Miners /\ open # {} THEN open ELSE holds[o]
    BY <1>table, <2>1 DEF PauseAll, HoldTable
  <2> QED  BY <1>2, <2>1, <2>2, StopHolds
<1>3. ASSUME NEW m \in Miners, StartWaits(m), HearStart(m)
      PROVE  HInv'
  BY <1>3, StartReleases DEF StartWaits, SaveHolds
<1>4. CASE /\ AlreadyRunning \/ SpawnSucceeds
           /\ launch.by \in {"start", "force"}
           /\ HearStart(launch.miner)
  <2>1. launch.miner \in Miners
    BY <1>4 DEF AlreadyRunning, SpawnSucceeds, TypeOK, Launch
  <2>2. UNCHANGED <<now, cfg>> /\ holds' = Resume(holds, launch.miner)
    BY <1>4 DEF AlreadyRunning, SpawnSucceeds, Succeed, SaveHolds
  <2> QED  BY <1>4, <2>1, <2>2, StartReleases
<1> QED  BY <1>1, <1>2, <1>3, <1>4 DEF SpokenStep

LEMMA SilentKeepsHolds ==
    ASSUME HoldsLast, HInv, TypeOK, HoldsDurable, SilentStep
    PROVE  HInv'
<1>silent. UNCHANGED stopped
  BY DEF SilentStep, intentVars
<1>keep. UNCHANGED <<now, cfg, holds>> => HInv'
  BY <1>silent, HoldsKept
<1>1. ASSUME NEW m \in Miners, NEW b \in BOOLEAN, StartOrRestart(m, b) \/ TipSwitch(m, b)
      PROVE  HInv'
  BY <1>1, <1>keep DEF StartOrRestart, TipSwitch, holdVars
<1>2. ASSUME NEW m \in Miners, \/ ForceStart(m) \/ TickSkip(m) \/ TickStart(m)
                               \/ MinerExits(m) \/ UntrackedExits(m)
      PROVE  HInv'
  BY <1>2, <1>keep DEF ForceStart, TickSkip, TickStart, MinerExits, UntrackedExits, holdVars
<1>3. CASE (AlreadyRunning \/ SpawnSucceeds) /\ launch.by \in {"tick", "tip"}
  BY <1>3, <1>keep DEF AlreadyRunning, SpawnSucceeds, Succeed, holdVars
<1>4. CASE CancelPowerAction \/ BeginSpawn \/ LaunchFails \/ TickEnd \/ SchedulerExits
  BY <1>4, <1>keep
     DEF CancelPowerAction, BeginSpawn, LaunchFails, TickEnd, SchedulerExits, holdVars
<1>5. CASE TickBegin
  <2>1. UNCHANGED <<now, cfg>> /\ holds' = Prune(holds, ScheduleOccurrences(cfg, now))
    BY <1>5 DEF TickBegin, SaveHolds
  <2>2. \A m \in Miners : holds'[m] = holds[m] \cap ScheduleOccurrences(cfg, now)[m]
    BY <2>1 DEF Prune, TypeOK
  <2> QED  BY <1>silent, <2>1, <2>2, HoldsKept
<1>6. CASE Exit \/ Crash
  <2>1. UNCHANGED <<now, cfg>> /\ holds' = savedHolds
    BY <1>6 DEF Exit, Crash, Dies, ProcessGone
  <2>2. savedHolds = holds
    BY DEF HoldsDurable, HoldsLast
  <2> QED  BY <1>keep, <2>1, <2>2
<1>7. ASSUME NEW to \in {"exiting", "updating"}, BeginShutdown(to)
      PROVE  HInv'
  BY <1>7, <1>keep DEF BeginShutdown, holdVars
<1>8. CASE Sweep \/ UpdateFails \/ Load \/ Refresh
  BY <1>8, <1>keep DEF Sweep, UpdateFails, Load, Refresh, holdVars
<1>9. CASE ClockAdvances
  BY <1>9, <1>silent, TimeKeepsHolds
<1>10. ~ClockSetBack /\ \A c \in Configs : ~ReplaceConfig(c)
  BY DEF HoldsLast, ClockSetBack, ReplaceConfig
<1> QED  BY <1>1, <1>2, <1>3, <1>4, <1>5, <1>6, <1>7, <1>8, <1>9, <1>10
         DEF SilentStep, SchedulerStep, BackendLife, Environment

LEMMA IntentInvNext ==
    ASSUME HoldsLast, IInv, HInv, [SpokenStep \/ SilentStep]_allVars
    PROVE  IInv' /\ HInv'
<1>1. IInv'
  BY IntentStepIsNext, IInvNext
<1>2. CASE SpokenStep
  BY <1>1, <1>2, SpokenKeepsHolds DEF IInv
<1>3. CASE SilentStep
  BY <1>1, <1>3, SilentKeepsHolds DEF IInv
<1>4. CASE UNCHANGED allVars
  BY <1>1, <1>4, HoldsKept DEF allVars, intentVars, vars, holdVars
<1> QED  BY <1>1, <1>2, <1>3, <1>4

LEMMA AcknowledgedStep ==
    ASSUME HInv, AInv, TypeOK, [SpokenStep \/ SilentStep]_allVars
    PROVE  AInv'
<1>1. ASSUME NEW S, HearStop(S) \/ HearUnanswered(S)
      PROVE  AInv'
  <2> DEFINE open == ScheduleOccurrences(cfg, now)
             Hear(mem) == [m \in Miners |-> IF m \in S THEN mem[m] \cup open[m] ELSE mem[m]]
  <2>1. /\ stopped' = Hear(stopped)
        /\ acknowledged' \in {acknowledged, Hear(acknowledged)}
    BY <1>1 DEF HearStop, HearUnanswered, Heard
  <2>2. open \in HoldTable
    BY LifecycleAssumption, ScheduleOccurrencesType DEF TypeOK
  <2> HIDE DEF open
  <2>3. CASE acknowledged' = acknowledged
    BY <2>1, <2>2, <2>3 DEF AInv, HoldTable
  <2>4. CASE acknowledged' = Hear(acknowledged)
    BY <2>1, <2>2, <2>4 DEF AInv, HoldTable
  <2> QED  BY <2>1, <2>3, <2>4
<1>2. ASSUME NEW m \in Miners, HearStart(m)
      PROVE  AInv'
  BY <1>2 DEF HearStart, AInv, HInv, HoldTable
<1>3. UNCHANGED intentVars => AInv'
  BY DEF AInv, intentVars
<1>4. CASE SpokenStep
  <2>1. launch # NoLaunch => launch.miner \in Miners
    BY DEF TypeOK, Launch
  <2> QED  BY <1>1, <1>2, <1>4, <2>1 DEF SpokenStep, AlreadyRunning, SpawnSucceeds
<1> QED  BY <1>3, <1>4 DEF SilentStep, allVars

LEMMA IntentInvariance == HoldsLast => (IntentSpec => [](IInv /\ HInv /\ AInv))
<1>. SUFFICES ASSUME HoldsLast PROVE IntentSpec => [](IInv /\ HInv /\ AInv)
  OBVIOUS
<1>1. IntentInit => IInv /\ HInv
  BY IInvInit, HInvInit DEF IntentInit
<1>2. IntentInit => AInv
  BY DEF IntentInit, AInv
<1>3. IInv /\ HInv /\ AInv /\ [SpokenStep \/ SilentStep]_allVars => IInv' /\ HInv' /\ AInv'
  BY IntentInvNext, AcknowledgedStep DEF IInv
<1> QED  BY <1>1, <1>2, <1>3, PTL DEF IntentSpec

\* A Stop outlasts everything but its occurrence and the user, for every set of
\* profiles and overlapping windows and every interleaving with scheduler passes,
\* wallet switches, refused launches, shutdowns, crashes and restarts.  Passes prune
\* holds, but never one of an occurrence that is open, and an occurrence that has
\* closed never opens again.  Stops are confirmed here: an elevated supervisor that
\* does not confirm keeps its miner.
THEOREM StopsHold == HoldsLast /\ "stop" \notin Faults => (IntentSpec => []StopWins)
<1>. SUFFICES ASSUME HoldsLast, "stop" \notin Faults PROVE IntentSpec => []StopWins
  OBVIOUS
<1>1. IntentSpec => [](IInv /\ HInv /\ AInv)
  BY IntentInvariance
<1>2. IInv /\ HInv => StopWins
  BY DEF IInv, HoldMeansStopped, HInv, StopIsHeld, StopWins
<1> QED  BY <1>1, <1>2, PTL

\* A Stop that was answered with success, by supervisors that confirm or do not, is on
\* disk as long as its occurrence is open: every crash finds it again.
THEOREM AcknowledgedStopsAreSaved == HoldsLast => (IntentSpec => []AcknowledgedStopIsSaved)
<1>. SUFFICES ASSUME HoldsLast PROVE IntentSpec => []AcknowledgedStopIsSaved
  OBVIOUS
<1>1. IntentSpec => [](IInv /\ HInv /\ AInv)
  BY IntentInvariance
<1>2. IInv /\ HInv /\ AInv => AcknowledgedStopIsSaved
  BY DEF HoldsLast, IInv, HoldsDurable, HInv, StopIsHeld, AInv, AcknowledgedStopIsSaved
<1> QED  BY <1>1, <1>2, PTL

-----------------------------------------------------------------------------
(* GPUs: none is shared without permission, as long as the configurations    *)
(* that are saved agree on what the conflict check reads of a profile, which *)
(* is that it exists, its GPUs and its permission to share.                  *)

SameGpus(p, q) == p.gpus = q.gpus /\ p.overlap = q.overlap

ConfigsAgree ==
    \A c, d \in Configs, m \in Miners :
        /\ c.miners[m] = NoProfile <=> d.miners[m] = NoProfile
        /\ c.miners[m] # NoProfile => SameGpus(c.miners[m], d.miners[m])

\* What a process was launched with is what the conflict check will read of it.
ProcessesAreKnown ==
    \A m \in Miners : child[m] # NoChild =>
        cfg.miners[m] # NoProfile /\ SameGpus(child[m].profile, cfg.miners[m])

Undisputed ==
    \A m, o \in Miners : m # o /\ Alive(m) /\ Alive(o) =>
        ~GpuConflict(child[m].profile, child[o].profile)

\* A process that is being spawned has passed the check, and stays admissible
\* until it exists, because nobody else can spawn meanwhile.
SpawnIsAdmissible ==
    launch # NoLaunch /\ launch.profile # NoProfile =>
        /\ cfg.miners[launch.miner] # NoProfile
        /\ SameGpus(launch.profile, cfg.miners[launch.miner])
        /\ \A o \in Miners : o # launch.miner /\ Alive(o) =>
               ~GpuConflict(launch.profile, child[o].profile)

GInv == ProcessesAreKnown /\ Undisputed /\ SpawnIsAdmissible

-----------------------------------------------------------------------------
(* What a step can do to a process, to a launch and to the configuration *)

\* The process of m is what it was, has exited, or is no longer tracked.
Fades(m) ==
    child'[m] # NoChild =>
        /\ child[m] # NoChild
        /\ child'[m].profile = child[m].profile
        /\ child'[m].alive => child[m].alive

LEMMA UntrackFades ==
    ASSUME NEW S, child' = Untrack(child, S), NEW m \in Miners
    PROVE  Fades(m)
  BY DEF Untrack, Fades

LEMMA TwiceUntracked ==
    ASSUME NEW S, NEW R, child' = Untrack(Untrack(child, S), R), NEW m \in Miners
    PROVE  Fades(m)
  BY DEF Untrack, Fades

LEMMA OnlySpawnCreates ==
    ASSUME TypeOK, Next, ~SpawnSucceeds, NEW m \in Miners
    PROVE  Fades(m)
<1>same. child' = child => Fades(m)
  BY DEF Fades
<1>1. ASSUME NEW o \in Miners, NEW restart \in BOOLEAN, StartOrRestart(o, restart)
      PROVE  Fades(m)
  BY <1>1, <1>same, UntrackFades DEF StartOrRestart, StopMiners, procVars
<1>2. ASSUME NEW o \in Miners, StartWaits(o) \/ ForceStart(o) \/ StopManually(o)
      PROVE  Fades(m)
  BY <1>2, <1>same, UntrackFades
     DEF StartWaits, ForceStart, StopManually, StopMiners, procVars
<1>3. CASE StopAllManually
  BY <1>3, UntrackFades DEF StopAllManually, StopMiners
<1>4. CASE CancelPowerAction \/ SchedulerExits \/ UpdateFails \/ Load
  BY <1>4, <1>same DEF CancelPowerAction, SchedulerExits, UpdateFails, Load, procVars
<1>5. CASE AlreadyRunning
  BY <1>5, UntrackFades DEF AlreadyRunning, Succeed, RefreshedChild
<1>6. CASE BeginSpawn \/ LaunchFails \/ TickBegin \/ Refresh
  BY <1>6, <1>same, UntrackFades
     DEF BeginSpawn, LaunchFails, TickBegin, Refresh, RefreshProcesses, RefreshedChild,
         procVars
<1>7. ASSUME NEW o \in Miners, TickSkip(o) \/ TickStart(o)
      PROVE  Fades(m)
  BY <1>7, <1>same, UntrackFades
     DEF TickSkip, TickStart, RefreshProcesses, RefreshedChild, procVars
<1>8. CASE TickEnd
  <2>1. PICK S : StopMiners(S)
    BY <1>8 DEF TickEnd
  <2> QED  BY <2>1, UntrackFades DEF StopMiners
<1>9. ASSUME NEW o \in Miners, NEW tip \in BOOLEAN, TipSwitch(o, tip)
      PROVE  Fades(m)
  BY <1>9, TwiceUntracked DEF TipSwitch, RefreshedChild
<1>10. CASE Sweep
  BY <1>10, UntrackFades DEF Sweep, StopMiners
<1>11. CASE Exit \/ Crash \/ CrashInStop
  BY <1>11, UntrackFades
     DEF Exit, Crash, Dies, CrashInStop, StopCutShort, StopAllCutShort, CutShort, ProcessGone
<1>12. ASSUME NEW to \in {"exiting", "updating"}, BeginShutdown(to)
       PROVE  Fades(m)
  BY <1>12, <1>same DEF BeginShutdown, procVars
<1>13. ASSUME NEW c \in Configs, ReplaceConfig(c)
       PROVE  Fades(m)
  BY <1>13, <1>same DEF ReplaceConfig, procVars
<1>14. ASSUME NEW o \in Miners, MinerExits(o)
       PROVE  Fades(m)
  <2>1. child' = [child EXCEPT ![o].alive = FALSE] /\ child[o] # NoChild
    BY <1>14 DEF MinerExits, Alive
  <2>2. child[o] \in Process /\ child \in [Miners -> Process \cup {NoChild}]
    BY <2>1 DEF TypeOK
  <2>3. m # o => child'[m] = child[m]
    BY <2>1, <2>2
  <2>4. child'[o].alive = FALSE /\ child'[o].profile = child[o].profile
    BY <2>1, <2>2 DEF Process
  <2> QED  BY <2>1, <2>3, <2>4 DEF Fades
<1>15. ASSUME NEW o \in Miners, UntrackedExits(o)
       PROVE  Fades(m)
  BY <1>15, <1>same DEF UntrackedExits
<1>16. CASE ClockAdvances \/ ClockSetBack
  BY <1>16, <1>same DEF ClockAdvances, ClockSetBack, procVars
<1> QED  BY <1>1, <1>2, <1>3, <1>4, <1>5, <1>6, <1>7, <1>8, <1>9, <1>10, <1>11,
            <1>12, <1>13, <1>14, <1>15, <1>16
         DEF Next, UserCommand, LaunchStep, SchedulerStep, BackendLife, Environment

LEMMA OnlyBeginSpawnAdmits ==
    ASSUME Next, ~BeginSpawn
    PROVE  \/ launch' = launch /\ ~SpawnSucceeds
           \/ launch' = NoLaunch
           \/ launch'.profile = NoProfile /\ ~SpawnSucceeds
<1>1. SpawnSucceeds \/ AlreadyRunning \/ LaunchFails => launch' = NoLaunch
  BY DEF SpawnSucceeds, AlreadyRunning, LaunchFails, Succeed, Return
<1>2. Exit \/ Crash \/ CrashInStop => launch' = NoLaunch
  BY DEF Exit, Crash, Dies, CrashInStop, StopCutShort, StopAllCutShort, CutShort, ProcessGone
<1>3. ASSUME NEW m \in Miners, NEW restart \in BOOLEAN,
             StartOrRestart(m, restart) \/ TipSwitch(m, restart)
      PROVE  launch'.profile = NoProfile
  BY <1>3 DEF StartOrRestart, TipSwitch, NewLaunch
<1>4. ASSUME NEW m \in Miners, ForceStart(m) \/ TickStart(m)
      PROVE  launch'.profile = NoProfile
  BY <1>4 DEF ForceStart, TickStart, NewLaunch
<1>5. ASSUME NEW m \in Miners, \/ StartWaits(m) \/ StopManually(m) \/ TickSkip(m)
                               \/ MinerExits(m) \/ UntrackedExits(m)
      PROVE  launch' = launch
  BY <1>5 DEF StartWaits, StopManually, TickSkip, MinerExits, UntrackedExits
<1>6. \/ StopAllManually \/ CancelPowerAction \/ TickBegin \/ TickEnd \/ SchedulerExits
      \/ Sweep \/ UpdateFails \/ Load \/ Refresh \/ ClockAdvances \/ ClockSetBack
      => launch' = launch
  BY DEF StopAllManually, CancelPowerAction, TickBegin, TickEnd, SchedulerExits, Sweep,
         UpdateFails, Load, Refresh, ClockAdvances, ClockSetBack
<1>7. ASSUME NEW to \in {"exiting", "updating"}, BeginShutdown(to)
      PROVE  launch' = launch
  BY <1>7 DEF BeginShutdown
<1>8. ASSUME NEW c \in Configs, ReplaceConfig(c)
      PROVE  launch' = launch
  BY <1>8 DEF ReplaceConfig
<1> QED  BY <1>1, <1>2, <1>3, <1>4, <1>5, <1>6, <1>7, <1>8
         DEF Next, UserCommand, LaunchStep, SchedulerStep, BackendLife, Environment

\* Whatever is saved, the conflict check reads the same of a profile.
LEMMA SavesAgree ==
    ASSUME ConfigsAgree, TypeOK, TypeOK', NEW m \in Miners, cfg.miners[m] # NoProfile
    PROVE  cfg'.miners[m] # NoProfile /\ SameGpus(cfg.miners[m], cfg'.miners[m])
<1>1. cfg \in Configs /\ cfg' \in Configs
  BY DEF TypeOK
<1> QED  BY <1>1 DEF ConfigsAgree

-----------------------------------------------------------------------------
(* The invariant *)

LEMMA KnownStep ==
    ASSUME ConfigsAgree, TypeOK, TypeOK', GInv, Next
    PROVE  ProcessesAreKnown'
<1>. SUFFICES ASSUME NEW m \in Miners, child'[m] # NoChild
     PROVE  cfg'.miners[m] # NoProfile /\ SameGpus(child'[m].profile, cfg'.miners[m])
  BY DEF ProcessesAreKnown
<1>1. CASE Fades(m)
  <2>1. cfg.miners[m] # NoProfile /\ SameGpus(child'[m].profile, cfg.miners[m])
    BY <1>1 DEF Fades, GInv, ProcessesAreKnown
  <2> QED  BY <2>1, SavesAgree DEF SameGpus
<1>2. CASE SpawnSucceeds
  <2>1. cfg' = cfg /\ launch # NoLaunch /\ launch.profile # NoProfile
        /\ child' = [child EXCEPT ![launch.miner] =
                         [alive |-> TRUE, profile |-> launch.profile]]
    BY <1>2 DEF SpawnSucceeds, Succeed
  <2>2. CASE m = launch.miner
    <3>1. child'[m].profile = launch.profile
      BY <2>1, <2>2 DEF TypeOK
    <3> QED  BY <2>1, <2>2, <3>1 DEF GInv, SpawnIsAdmissible
  <2>3. CASE m # launch.miner
    <3>1. child'[m] = child[m]
      BY <2>1, <2>3 DEF TypeOK
    <3> QED  BY <2>1, <3>1 DEF GInv, ProcessesAreKnown
  <2> QED  BY <2>2, <2>3
<1> QED  BY <1>1, <1>2, OnlySpawnCreates

LEMMA UndisputedStep ==
    ASSUME TypeOK, GInv, Next
    PROVE  Undisputed'
<1>. SUFFICES ASSUME NEW m \in Miners, NEW o \in Miners, m # o, Alive(m)', Alive(o)'
     PROVE  ~GpuConflict(child'[m].profile, child'[o].profile)
  BY DEF Undisputed
<1>1. CASE ~SpawnSucceeds
  <2>1. Fades(m) /\ Fades(o)
    BY <1>1, OnlySpawnCreates
  <2> QED  BY <2>1 DEF Fades, Alive, GInv, Undisputed
<1>2. CASE SpawnSucceeds
  <2>1. launch # NoLaunch /\ launch.profile # NoProfile
        /\ child' = [child EXCEPT ![launch.miner] =
                         [alive |-> TRUE, profile |-> launch.profile]]
    BY <1>2 DEF SpawnSucceeds, Succeed
  <2>new. ASSUME NEW p \in Miners, p = launch.miner
          PROVE  child'[p].profile = launch.profile
    BY <2>1, <2>new DEF TypeOK
  <2>old. ASSUME NEW p \in Miners, p # launch.miner
          PROVE  child'[p] = child[p]
    BY <2>1, <2>old DEF TypeOK
  <2>passed. \A p \in Miners : p # launch.miner /\ Alive(p) =>
                 ~GpuConflict(launch.profile, child[p].profile)
    BY <2>1 DEF GInv, SpawnIsAdmissible
  <2>2. CASE m = launch.miner
    <3>1. child'[m].profile = launch.profile /\ child'[o] = child[o] /\ Alive(o)
      BY <2>2, <2>new, <2>old DEF Alive
    <3> QED  BY <2>2, <2>passed, <3>1
  <2>3. CASE o = launch.miner
    <3>1. child'[o].profile = launch.profile /\ child'[m] = child[m] /\ Alive(m)
      BY <2>3, <2>new, <2>old DEF Alive
    <3>2. ~GpuConflict(launch.profile, child[m].profile)
      BY <2>3, <2>passed, <3>1
    <3> QED  BY <3>1, <3>2 DEF GpuConflict
  <2>4. CASE m # launch.miner /\ o # launch.miner
    BY <2>4, <2>old DEF Alive, GInv, Undisputed
  <2> QED  BY <2>2, <2>3, <2>4
<1> QED  BY <1>1, <1>2

LEMMA AdmissibleStep ==
    ASSUME ConfigsAgree, TypeOK, TypeOK', GInv, Next
    PROVE  SpawnIsAdmissible'
<1>. SUFFICES ASSUME launch' # NoLaunch, launch'.profile # NoProfile
     PROVE  /\ cfg'.miners[launch'.miner] # NoProfile
            /\ SameGpus(launch'.profile, cfg'.miners[launch'.miner])
            /\ \A o \in Miners : o # launch'.miner /\ Alive(o)' =>
                   ~GpuConflict(launch'.profile, child'[o].profile)
  BY DEF SpawnIsAdmissible
<1>1. CASE BeginSpawn
  <2>1. /\ launch.miner \in Miners /\ launch'.miner = launch.miner
        /\ launch'.profile = cfg.miners[launch.miner] /\ cfg' = cfg
        /\ ~CheckGpuConflict(cfg.miners[launch.miner])
        /\ cfg.miners[launch.miner] # NoProfile
    BY <1>1 DEF BeginSpawn, Launchable, TypeOK, Launch
  <2>2. ~SpawnSucceeds
    BY <1>1 DEF BeginSpawn, SpawnSucceeds
  <2>3. ASSUME NEW o \in Miners, Alive(o)'
        PROVE  ~GpuConflict(launch'.profile, child'[o].profile)
    <3>1. Alive(o) /\ child'[o].profile = child[o].profile
      BY <2>2, <2>3, OnlySpawnCreates DEF Fades, Alive
    <3>2. cfg.miners[o] # NoProfile /\ SameGpus(child[o].profile, cfg.miners[o])
      BY <3>1 DEF Alive, GInv, ProcessesAreKnown
    <3>3. ~GpuConflict(launch'.profile, cfg.miners[o])
      BY <2>1, <3>1, <3>2 DEF CheckGpuConflict
    <3> QED  BY <3>1, <3>2, <3>3 DEF SameGpus, GpuConflict
  <2> QED  BY <2>1, <2>3 DEF SameGpus
<1>2. CASE launch' = launch /\ ~SpawnSucceeds
  <2>1. /\ cfg.miners[launch.miner] # NoProfile
        /\ SameGpus(launch.profile, cfg.miners[launch.miner])
        /\ \A o \in Miners : o # launch.miner /\ Alive(o) =>
               ~GpuConflict(launch.profile, child[o].profile)
    BY <1>2 DEF GInv, SpawnIsAdmissible
  <2>2. launch.miner \in Miners
    BY <1>2 DEF TypeOK, Launch
  <2>3. \A o \in Miners : Alive(o)' => Alive(o) /\ child'[o].profile = child[o].profile
    BY <1>2, OnlySpawnCreates DEF Fades, Alive
  <2>4. /\ cfg'.miners[launch.miner] # NoProfile
        /\ SameGpus(launch.profile, cfg'.miners[launch.miner])
    BY <2>1, <2>2, SavesAgree DEF SameGpus
  <2> QED  BY <1>2, <2>1, <2>3, <2>4
<1> QED  BY <1>1, <1>2, OnlyBeginSpawnAdmits

LEMMA GInvInit == Init => GInv
<1>. SUFFICES ASSUME Init PROVE GInv
  OBVIOUS
<1>1. \A m \in Miners : child[m] = NoChild
  BY DEF Init
<1>2. launch = NoLaunch
  BY DEF Init
<1> QED  BY <1>1, <1>2 DEF GInv, ProcessesAreKnown, Undisputed, SpawnIsAdmissible, Alive

LEMMA GInvNext ==
    ASSUME ConfigsAgree, TypeOK, TypeOK', GInv, [Next]_vars
    PROVE  GInv'
<1>1. CASE Next
  BY <1>1, KnownStep, UndisputedStep, AdmissibleStep DEF GInv
<1>2. CASE UNCHANGED vars
  BY <1>2 DEF vars, procVars, holdVars, schedVars, GInv, ProcessesAreKnown, Undisputed,
              SpawnIsAdmissible, Alive
<1> QED  BY <1>1, <1>2

\* What the check compares is what the processes use: profiles it lets through
\* together have no GPU in common unless one of them permits sharing.
LEMMA UndisputedIsExclusive ==
    ASSUME TypeOK, Undisputed
    PROVE  GpuExclusive
<1>. SUFFICES ASSUME NEW m \in Miners, NEW o \in Miners, m # o, Alive(m), Alive(o),
                     ~child[m].profile.overlap, ~child[o].profile.overlap
     PROVE  UsedGpus(child[m].profile) \cap UsedGpus(child[o].profile) = {}
  BY DEF GpuExclusive
<1>1. ~GpuConflict(child[m].profile, child[o].profile)
  BY DEF Undisputed
<1> QED  BY <1>1 DEF GpuConflict, UsedGpus

\* Whatever the number of profiles and GPUs, whoever starts, restarts, switches
\* or edits them and whatever fails meanwhile, two processes without permission
\* to share have no GPU in common, provided that no save changes the GPUs or the
\* permission of a profile: check_gpu_conflict compares what is saved, and the
\* lifecycle mutex makes the check and the spawn one operation.
THEOREM GpusAreExclusive == ConfigsAgree => (Spec => []GpuExclusive)
<1>. SUFFICES ASSUME ConfigsAgree PROVE Spec => []GpuExclusive
  OBVIOUS
<1>1. Init => GInv
  BY GInvInit
<1>2. IInv /\ IInv' /\ GInv /\ [Next]_vars => GInv'
  BY GInvNext DEF IInv
<1>3. IInv /\ GInv => GpuExclusive
  BY UndisputedIsExclusive DEF IInv, GInv
<1> QED  BY <1>1, <1>2, <1>3, Invariance, PTL DEF Spec

-----------------------------------------------------------------------------
(* Tuning: what each card gets *)

TunedProfiles ==
    [engine : Engines, field : Fields, selected : Seq(Cards),
     all : Values \cup {Unset}, card : [Cards -> CardTuning]]

\* A host has a last card.
CardsEnd == \E limit \in Nat : Cards \subseteq 0..limit

\* An option gives each selected card its value, unless BzMiner's lists confuse it.
Faithful(option, p) ==
    /\ option # Refused
    /\ \A card \in Selected(p) :
           Applied(option, p, card) = Effective(p, card) \/ ZeroForBlank(p, card)

Differ(p) == \E a, b \in Selected(p) : Effective(p, a) # Effective(p, b)

LEMMA LeastNumber ==
    ASSUME NEW S, S \subseteq Nat, S # {}
    PROVE  \E i \in S : \A j \in S : i <= j
<1>1. PICK i \in S : \A j \in S : <<j, i>> \notin OpToRel(<, Nat)
  BY NatLessThanWellFounded, WFMin, Zenon
<1>2. \A j \in S : ~(j < i)
  BY <1>1 DEF OpToRel
<1> QED  BY <1>2

\* The greatest member of a bounded set is its least bound.
LEMMA LargestNumber ==
    ASSUME NEW limit \in Nat, NEW S, S \subseteq 0..limit, S # {}
    PROVE  \E i \in S : \A j \in S : j <= i
<1> DEFINE bounds == {b \in Nat : \A j \in S : j <= b}
<1>1. limit \in bounds
  OBVIOUS
<1>2. PICK b \in bounds : \A c \in bounds : b <= c
  <2> HIDE DEF bounds
  <2>1. bounds \subseteq Nat
    BY DEF bounds
  <2> QED  BY <1>1, <2>1, LeastNumber
<1>3. ASSUME b \notin S
      PROVE  FALSE
  <2>1. b \in Nat /\ \A j \in S : j \in Nat /\ j < b
    BY <1>2, <1>3
  <2>2. b - 1 \in Nat /\ ~(b <= b - 1)
    <3>1. PICK j \in S : j \in Nat /\ j < b
      BY <2>1
    <3>2. b \in Nat
      BY <2>1
    <3> QED  BY <3>1, <3>2
  <2>3. \A j \in S : j <= b - 1
    BY <2>1
  <2>4. b - 1 \in bounds
    BY <2>2, <2>3
  <2> QED  BY <1>2, <2>2, <2>4
<1> QED  BY <1>2, <1>3

LEMMA Positions ==
    ASSUME NEW p \in TunedProfiles, NEW card \in Selected(p)
    PROVE  LET positions == {i \in DOMAIN p.selected : p.selected[i] = card}
           IN  /\ positions # {}
               /\ (CHOOSE i \in positions : \A j \in positions : i <= j) \in positions
<1> DEFINE positions == {i \in DOMAIN p.selected : p.selected[i] = card}
<1>1. positions # {}
  BY DEF Selected
<1>2. positions \subseteq Nat
  BY DEF TunedProfiles
<1> HIDE DEF positions
<1>3. \E i \in positions : \A j \in positions : i <= j
  BY <1>1, <1>2, LeastNumber
<1>4. (CHOOSE i \in positions : \A j \in positions : i <= j) \in positions
  BY <1>3
<1> QED  BY <1>1, <1>4 DEF positions

\* A card of a listed option gets the value of one of its own positions.
LEMMA ListedReaches ==
    ASSUME NEW p \in TunedProfiles, NEW values, DOMAIN values = DOMAIN p.selected,
           \A i \in DOMAIN p.selected :
               values[i] = Effective(p, p.selected[i]) \/ ZeroForBlank(p, p.selected[i])
    PROVE  Faithful([form |-> "listed", values |-> values], p)
<1> DEFINE option == [form |-> "listed", values |-> values]
<1>1. option.form = "listed" /\ option.values = values /\ option # Refused
  <2>1. option.form = "listed" /\ Refused.form = "refused"
    BY DEF Refused
  <2> QED  BY <2>1
<1>2. ASSUME NEW card \in Selected(p)
      PROVE  Applied(option, p, card) = Effective(p, card) \/ ZeroForBlank(p, card)
  <2> DEFINE positions == {i \in DOMAIN p.selected : p.selected[i] = card}
             first == CHOOSE i \in positions : \A j \in positions : i <= j
  <2>1. positions # {} /\ first \in positions
    BY Positions
  <2>2. Applied(option, p, card) = values[first]
    BY <1>1, <2>1 DEF Applied
  <2>3. first \in DOMAIN p.selected /\ p.selected[first] = card
    BY <2>1
  <2> HIDE DEF option, first
  <2> QED  BY <2>2, <2>3
<1> QED  BY <1>1, <1>2 DEF Faithful

\* No option leaves every card alone.
LEMMA NoOptionReaches ==
    ASSUME NEW p, \A card \in Selected(p) : Effective(p, card) = Unset \/ ZeroForBlank(p, card)
    PROVE  Faithful(NoOption, p)
<1>1. NoOption.form = "none" /\ Refused.form = "refused"
  BY DEF NoOption, Refused
<1>2. NoOption # Refused
  BY <1>1
<1>3. \A card \in Selected(p) : Applied(NoOption, p, card) = Unset
  BY <1>1 DEF Applied
<1> QED  BY <1>2, <1>3 DEF Faithful

LEMMA CompleteReaches ==
    ASSUME NEW p \in TunedProfiles, p.selected # <<>>
    PROVE  \/ CompleteList(p) = Refused /\ Differ(p)
           \/ Faithful(CompleteList(p), p)
<1>1. CASE Settings(p) = {Unset}
  <2>1. \A card \in Selected(p) : Effective(p, card) = Unset
    BY <1>1 DEF Settings
  <2> QED  BY <1>1, <2>1, NoOptionReaches DEF CompleteList
<1>2. CASE Settings(p) # {Unset} /\ Unset \in Settings(p)
  BY <1>2 DEF CompleteList, Settings, Differ
<1>3. CASE Settings(p) # {Unset} /\ Unset \notin Settings(p)
  <2> DEFINE values == [i \in DOMAIN p.selected |-> Effective(p, p.selected[i])]
  <2>1. CompleteList(p) = [form |-> "listed", values |-> values]
    BY <1>3 DEF CompleteList
  <2>2. \A i \in DOMAIN p.selected : values[i] = Effective(p, p.selected[i])
    OBVIOUS
  <2>3. DOMAIN values = DOMAIN p.selected
    OBVIOUS
  <2> HIDE DEF values
  <2> QED  BY <2>1, <2>2, <2>3, ListedReaches
<1> QED  BY <1>1, <1>2, <1>3

LEMMA FilledReaches ==
    ASSUME NEW p \in TunedProfiles, p.selected # <<>>,
           Convention(p.engine, p.field) = "filled"
    PROVE  Faithful(FilledList(p), p)
<1> DEFINE blank == IF p.field = "fan" THEN Unset ELSE 0
           values == [i \in DOMAIN p.selected |->
                         IF Effective(p, p.selected[i]) = Unset THEN blank
                         ELSE Effective(p, p.selected[i])]
<1>1. (p.field = "fan" => blank = Unset) /\ (p.field # "fan" => blank = 0)
  OBVIOUS
<1>2. FilledList(p) = IF \A i \in DOMAIN values : values[i] = blank THEN NoOption
                      ELSE [form |-> "listed", values |-> values]
  BY DEF FilledList
<1>3. DOMAIN values = DOMAIN p.selected
  OBVIOUS
<1>4. \A i \in DOMAIN p.selected :
          values[i] = IF Effective(p, p.selected[i]) = Unset THEN blank
                      ELSE Effective(p, p.selected[i])
  OBVIOUS
<1> HIDE DEF blank, values
<1>5. CASE \A i \in DOMAIN values : values[i] = blank
  <2>1. \A card \in Selected(p) : Effective(p, card) \in {Unset, blank}
    BY <1>3, <1>4, <1>5 DEF Selected
  <2>2. \A card \in Selected(p) : Effective(p, card) = Unset \/ ZeroForBlank(p, card)
    BY <1>1, <2>1 DEF ZeroForBlank, Settings
  <2> QED  BY <1>2, <1>5, <2>2, NoOptionReaches
<1>6. CASE ~ \A i \in DOMAIN values : values[i] = blank
  <2>1. PICK i \in DOMAIN p.selected : Effective(p, p.selected[i]) \notin {Unset, blank}
    BY <1>3, <1>4, <1>6
  <2>2. p.selected[i] \in Selected(p)
    BY DEF Selected
  <2>3. p.field # "fan" => ~(Settings(p) \subseteq {Unset, 0})
    BY <1>1, <2>1, <2>2 DEF Settings
  <2>4. \A k \in DOMAIN p.selected :
            values[k] = Effective(p, p.selected[k]) \/ ZeroForBlank(p, p.selected[k])
    BY <1>1, <1>4, <2>3 DEF ZeroForBlank
  <2> QED  BY <1>2, <1>3, <1>6, <2>4, ListedReaches
<1> QED  BY <1>5, <1>6

LEMMA IndexedReaches ==
    ASSUME NEW p \in TunedProfiles, p.selected # <<>>, CardsEnd
    PROVE  Faithful(IndexedList(p), p)
<1> DEFINE largest == CHOOSE card \in Selected(p) : \A other \in Selected(p) : other <= card
           values == [i \in 1..(largest + 1) |->
                         IF i - 1 \in Selected(p) THEN Effective(p, i - 1) ELSE Unset]
           option == [form |-> "indexed", values |-> values]
<1>1. IndexedList(p) = IF Settings(p) = {Unset} THEN NoOption ELSE option
  BY DEF IndexedList
<1>2. CASE Settings(p) = {Unset}
  <2>1. \A card \in Selected(p) : Effective(p, card) = Unset
    BY <1>2 DEF Settings
  <2> QED  BY <1>1, <1>2, <2>1, NoOptionReaches
<1>3. CASE Settings(p) # {Unset}
  <2>1. option.form = "indexed" /\ option.values = values /\ option # Refused
    <3>1. option.form = "indexed" /\ Refused.form = "refused"
      BY DEF Refused
    <3> QED  BY <3>1
  <2>2. largest \in Selected(p) /\ \A other \in Selected(p) : other <= largest
    <3>1. PICK limit \in Nat : Cards \subseteq 0..limit
      BY DEF CardsEnd
    <3>2. Selected(p) \subseteq Cards /\ Selected(p) # {}
      BY DEF Selected, TunedProfiles
    <3>3. \E card \in Selected(p) : \A other \in Selected(p) : other <= card
      BY <3>1, <3>2, LargestNumber
    <3> QED  BY <3>3
  <2>3. Selected(p) \subseteq Nat
    <3>1. Selected(p) \subseteq Cards
      BY DEF Selected, TunedProfiles
    <3> QED  BY <3>1, TuningAssumption
  <2> HIDE DEF largest
  <2>4. ASSUME NEW card \in Selected(p)
        PROVE  Applied(option, p, card) = Effective(p, card)
    <3>1. card + 1 \in 1..(largest + 1) /\ (card + 1) - 1 = card
      BY <2>2, <2>3
    <3>2. card + 1 \in DOMAIN values /\ values[card + 1] = Effective(p, card)
      BY <3>1
    <3> HIDE DEF values
    <3> QED  BY <2>1, <3>2 DEF Applied
  <2> HIDE DEF option
  <2> QED  BY <1>1, <1>3, <2>1, <2>4 DEF Faithful
<1> QED  BY <1>2, <1>3

LEMMA SharedReaches ==
    ASSUME NEW p \in TunedProfiles, p.selected # <<>>
    PROVE  \/ SharedValue(p) = Refused /\ Differ(p)
           \/ Faithful(SharedValue(p), p)
<1> DEFINE value == Effective(p, p.selected[1])
           option == [form |-> "all", value |-> value]
<1>1. p.selected[1] \in Selected(p)
  BY DEF Selected, TunedProfiles
<1>2. CASE \E card \in Selected(p) : Effective(p, card) # value
  BY <1>1, <1>2 DEF SharedValue, Differ
<1>3. CASE ~ \E card \in Selected(p) : Effective(p, card) # value
  <2>1. CASE value = Unset
    <3>1. \A card \in Selected(p) : Effective(p, card) = Unset
      BY <1>3, <2>1
    <3>2. SharedValue(p) = NoOption
      BY <1>3, <2>1 DEF SharedValue
    <3> QED  BY <3>1, <3>2, NoOptionReaches
  <2>2. CASE value # Unset
    <3>1. SharedValue(p) = option
      BY <1>3, <2>2 DEF SharedValue
    <3>2. option.form = "all" /\ option.value = value /\ option # Refused
      <4>1. option.form = "all" /\ Refused.form = "refused"
        BY DEF Refused
      <4> QED  BY <4>1
    <3>3. \A card \in Selected(p) : Applied(option, p, card) = value
      BY <3>2 DEF Applied
    <3> HIDE DEF value, option
    <3> QED  BY <1>3, <3>1, <3>2, <3>3 DEF Faithful
  <2> QED  BY <2>1, <2>2
<1> QED  BY <1>2, <1>3

LEMMA OptionReaches ==
    ASSUME NEW p \in TunedProfiles, p.selected # <<>>, CardsEnd
    PROVE  LET convention == Convention(p.engine, p.field)
           IN  \/ /\ Option(p) = Refused /\ Differ(p)
                  /\ convention \in {"complete", "shared"}
               \/ convention = "none" /\ Option(p) = NoOption
               \/ Faithful(Option(p), p)
<1> DEFINE convention == Convention(p.engine, p.field)
<1>1. convention \in {"complete", "none", "filled", "indexed", "shared"}
  BY DEF Convention, TunedProfiles, Engines
<1>2. CASE convention = "none"
  BY <1>2 DEF Option
<1>3. CASE convention = "complete"
  <2>1. Option(p) = CompleteList(p)
    BY <1>3 DEF Option
  <2> QED  BY <1>3, <2>1, CompleteReaches
<1>4. CASE convention = "filled"
  <2>1. Option(p) = FilledList(p)
    BY <1>4 DEF Option
  <2> QED  BY <1>4, <2>1, FilledReaches
<1>5. CASE convention = "indexed"
  <2>1. Option(p) = IndexedList(p)
    BY <1>5 DEF Option
  <2> QED  BY <1>5, <2>1, IndexedReaches
<1>6. CASE convention = "shared"
  <2>1. Option(p) = SharedValue(p)
    BY <1>6 DEF Option
  <2> QED  BY <1>6, <2>1, SharedReaches
<1> QED  BY <1>1, <1>2, <1>3, <1>4, <1>5, <1>6

LEMMA OptionIsTuning ==
    ASSUME profile \in TunedProfiles, command = Option(profile), CardsEnd
    PROVE  TuningReachesItsCard
<1> SUFFICES ASSUME profile.selected # <<>>
             PROVE  TuningReachesItsCard
  BY DEF TuningReachesItsCard
<1>1. NoOption # Refused
  <2>1. NoOption.form = "none" /\ Refused.form = "refused"
    BY DEF NoOption, Refused
  <2> QED  BY <2>1
<1>2. CASE /\ command = Refused /\ Differ(profile)
           /\ Convention(profile.engine, profile.field) \in {"complete", "shared"}
  BY <1>2 DEF TuningReachesItsCard, Differ
<1>3. CASE /\ Convention(profile.engine, profile.field) = "none"
           /\ command = NoOption
  BY <1>1, <1>3 DEF TuningReachesItsCard
<1>4. CASE Faithful(command, profile)
  BY <1>4 DEF TuningReachesItsCard, Faithful
<1> QED  BY <1>2, <1>3, <1>4, OptionReaches

\* For every selection of cards, in any order, and every combination of values for all
\* and for one: an engine that carries the field gives each card exactly its own value,
\* but for the blanks and zeros of BzMiner's core clock and power limit that ZeroForBlank
\* names, and a start is refused only for cards that differ where the engine cannot.
THEOREM TuningIsExact ==
    ASSUME NEW CONSTANT profiles, profiles \subseteq TunedProfiles, CardsEnd
    PROVE  TuningInit(profiles) /\ [][StartEngine]_tuningVars => []TuningReachesItsCard
<1> DEFINE Started == profile \in TunedProfiles /\ command \in {NotStarted, Option(profile)}
<1>1. TuningInit(profiles) => Started
  BY DEF TuningInit
<1>2. Started /\ [StartEngine]_tuningVars => Started'
  BY DEF StartEngine, tuningVars
<1>3. Started => TuningReachesItsCard
  <2>1. command = NotStarted => TuningReachesItsCard
    BY DEF TuningReachesItsCard
  <2> QED  BY <2>1, OptionIsTuning
<1> HIDE DEF Started
<1> QED  BY <1>1, <1>2, <1>3, PTL

\* Every field but BzMiner's core clock and power limit keeps what the documentation
\* promises of it, without exception: a zero is passed as a zero and a blank card is
\* left alone.
THEOREM OthersKeepBlanks ==
    ASSUME NEW CONSTANT profiles, profiles \subseteq TunedProfiles, CardsEnd,
           \A p \in profiles : ~(p.engine = "bzminer" /\ p.field \in {"core", "power"})
    PROVE  TuningInit(profiles) /\ [][StartEngine]_tuningVars => []BlanksStayBlank
<1> DEFINE Kept == /\ profile \in TunedProfiles /\ command \in {NotStarted, Option(profile)}
                   /\ ~(profile.engine = "bzminer" /\ profile.field \in {"core", "power"})
<1>1. TuningInit(profiles) => Kept
  BY DEF TuningInit
<1>2. Kept /\ [StartEngine]_tuningVars => Kept'
  BY DEF StartEngine, tuningVars
<1>3. ASSUME Kept
      PROVE  BlanksStayBlank
  <2>1. \A card \in Selected(profile) : ~ZeroForBlank(profile, card)
    BY <1>3 DEF ZeroForBlank, Convention, TunedProfiles, Fields
  <2>2. command # NotStarted => TuningReachesItsCard
    BY <1>3, OptionIsTuning
  <2> QED  BY <2>1, <2>2 DEF BlanksStayBlank, TuningReachesItsCard
<1> HIDE DEF Kept
<1> QED  BY <1>1, <1>2, <1>3, PTL

=============================================================================
