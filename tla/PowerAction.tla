-------------------------------- MODULE PowerAction --------------------------------
(***************************************************************************)
(* The sleep or hibernation that may follow the end of a schedule: the     *)
(* countdown, the confirmation dialog and the two places that suspend the  *)
(* machine, composed with MinerLifecycle.                                  *)
(*                                                                         *)
(* None of this holds the lifecycle mutex.  After every pass the scheduler *)
(* thread copies the pending action, then checks, then cancels, then       *)
(* executes; a confirmation takes the action, then checks, then executes;  *)
(* every other step of the program can come between.                       *)
(***************************************************************************)
EXTENDS MinerLifecycle

CONSTANTS
    Attended,       \* the schedules that require a confirmation
    Countdown,      \* seconds of a countdown: clamped to at least 5 in the code
    Lease           \* seconds a poll of the dialog counts for: 3 in the code

ASSUME PowerAssumption ==
    /\ Attended \subseteq Schedules
    /\ Countdown \in Nat /\ Lease \in Nat /\ Lease < Countdown

VARIABLES
    left,           \* seconds left of the pending countdown
    age,            \* seconds since the dialog polled (last_power_ui_seen)
    timer,          \* where the scheduler thread is in its loop
    confirming,     \* the confirmation request in progress
    asleep,         \* the machine is suspended
    request,        \* history: what became of the latest request
    seen            \* history: the dialog polled since the latest request

powerVars == <<left, age, timer, confirming, asleep, request, seen>>
fullVars == <<vars, powerVars>>

\* A thread that serves the power action: where it is, and the action it holds.
Holding(where, s) == [at |-> where, action |-> s]
Without(where) == Holding(where, NoPower)

Places == {"tick", "power", "none", "copied", "idle", "due"}
Step == [at: Places, action: Schedules \cup {NoPower}]

PowerTypeOK ==
    /\ left \in 0 .. Countdown
    /\ age \in 0 .. (Lease + 1)
    /\ timer \in Step /\ timer.at # "none"
    /\ timer.action = NoPower <=> timer.at \in {"tick", "power"}
    /\ confirming \in Step /\ confirming.at \in {"none", "copied", "due"}
    /\ confirming.action = NoPower <=> confirming.at = "none"
    /\ asleep \in BOOLEAN
    /\ request \in {"none", "live", "canceled", "served"}
    /\ seen \in BOOLEAN

PowerInit ==
    /\ Init
    /\ left = 0 /\ age = Lease + 1
    /\ timer = Without("tick") /\ confirming = Without("none") /\ asleep = FALSE
    /\ request = "none" /\ seen = FALSE

AnyMinerRunning == \E m \in Miners : Alive(m)

Canceled == IF pending # NoPower /\ pending' = NoPower /\ request = "live"
            THEN "canceled" ELSE request

-----------------------------------------------------------------------------
(* Steps of the lifecycle, which run while the machine is awake *)

\* Commands, launches, edits and exits leave the countdown's threads alone.
Awake(action) == /\ ~asleep
                 /\ action
                 /\ request' = Canceled
                 /\ UNCHANGED <<left, age, timer, confirming, asleep, seen>>

LaunchRuns == Awake(LaunchStep)
CommandRuns == Awake(UserCommand)
WorldRuns == Awake(\/ Environment
                   \/ \E m \in Miners, tip \in BOOLEAN : TipSwitch(m, tip))
BackendRuns == Awake(\/ \E to \in {"exiting", "updating"} : BeginShutdown(to)
                     \/ UpdateFails \/ Load)
SweepRuns == Awake(Sweep)

\* The threads go with the process.
Goes(end) ==
    /\ ~asleep
    /\ end
    /\ timer' = Without("tick") /\ confirming' = Without("none")
    /\ request' = "none" /\ seen' = FALSE
    /\ UNCHANGED <<left, age, asleep>>

PassRuns ==
    /\ ~asleep /\ timer.at = "tick"
    /\ TickBegin \/ (\E m \in Miners : TickSkip(m) \/ TickStart(m)) \/ SchedulerExits
    /\ UNCHANGED powerVars

\* request_power_action, when the pass has found an ended schedule that asks.
PassEnds ==
    /\ ~asleep /\ timer.at = "tick"
    /\ TickEnd
    /\ timer' = Without("power")
    /\ IF pending = NoPower /\ pending' # NoPower
       THEN left' = Countdown /\ request' = "live" /\ seen' = FALSE
       ELSE UNCHANGED <<left, request, seen>>
    /\ UNCHANGED <<age, confirming, asleep>>

-----------------------------------------------------------------------------
(* process_pending_power_action, on the scheduler thread *)

TimerCopies ==
    /\ ~asleep /\ backend # "down" /\ timer.at = "power"
    /\ timer' = IF pending = NoPower THEN Without("tick") ELSE Holding("copied", pending)
    /\ UNCHANGED <<vars, left, age, confirming, asleep, request, seen>>

TimerChecksMiners ==
    /\ ~asleep /\ timer.at = "copied"
    /\ RefreshProcesses
    /\ IF AnyMinerRunning
       THEN pending' = NoPower /\ timer' = Without("tick")
       ELSE timer' = [timer EXCEPT !.at = "idle"] /\ UNCHANGED pending
    /\ request' = Canceled
    /\ UNCHANGED <<now, cfg, holdVars, schedVars, backend, launch,
                   left, age, confirming, asleep, seen>>

\* Mutation: the dialog is not looked at.
TimerIgnoresDialog ==
    /\ ~asleep /\ timer.at = "idle"
    /\ IF left > 0
       THEN timer' = Without("tick") /\ UNCHANGED pending
       ELSE timer' = [timer EXCEPT !.at = "due"] /\ pending' = NoPower
    /\ UNCHANGED <<now, cfg, procVars, holdVars, schedVars, backend, launch,
                   left, age, confirming, asleep, request, seen>>

\* Mutation: without a dialog the pass returns and leaves the action pending.
TimerKeepsPending ==
    /\ ~asleep /\ timer.at = "idle"
    /\ IF left > 0 \/ (timer.action \in Attended /\ age > Lease)
       THEN timer' = Without("tick") /\ UNCHANGED pending
       ELSE timer' = [timer EXCEPT !.at = "due"] /\ pending' = NoPower
    /\ UNCHANGED <<now, cfg, procVars, holdVars, schedVars, backend, launch,
                   left, age, confirming, asleep, request, seen>>

\* The deadline, and for a confirmed action the dialog, are looked at; in either
\* outcome but "not yet" whatever is pending by now is dropped.
TimerChecksDeadline ==
    /\ ~asleep /\ timer.at = "idle"
    /\ IF left > 0
       THEN timer' = Without("tick") /\ UNCHANGED <<pending, request>>
       ELSE /\ pending' = NoPower
            /\ IF timer.action \in Attended /\ age > Lease
               THEN timer' = Without("tick") /\ request' = Canceled
               ELSE timer' = [timer EXCEPT !.at = "due"] /\ UNCHANGED request
    /\ UNCHANGED <<now, cfg, procVars, holdVars, schedVars, backend, launch,
                   left, age, confirming, asleep, seen>>

TimerExecutes ==
    /\ ~asleep /\ timer.at = "due"
    /\ asleep' = TRUE /\ request' = "served"
    /\ timer' = Without("tick")
    /\ UNCHANGED <<vars, left, age, confirming, seen>>

-----------------------------------------------------------------------------
(* The API: confirm_power_action and the dialog's poll *)

ConfirmTakes ==
    /\ ~asleep /\ backend # "down" /\ confirming.at = "none" /\ pending # NoPower
    /\ confirming' = Holding("copied", pending)
    /\ pending' = NoPower
    /\ UNCHANGED <<now, cfg, procVars, holdVars, schedVars, backend, launch,
                   left, age, timer, asleep, request, seen>>

ConfirmChecksMiners ==
    /\ ~asleep /\ confirming.at = "copied"
    /\ RefreshProcesses
    /\ IF AnyMinerRunning
       THEN confirming' = Without("none") /\ request' = "canceled"
       ELSE confirming' = [confirming EXCEPT !.at = "due"] /\ UNCHANGED request
    /\ UNCHANGED <<now, cfg, holdVars, pending, schedVars, backend, launch,
                   left, age, timer, asleep, seen>>

ConfirmExecutes ==
    /\ ~asleep /\ confirming.at = "due"
    /\ asleep' = TRUE /\ request' = "served"
    /\ confirming' = Without("none")
    /\ UNCHANGED <<vars, left, age, timer, seen>>

UiPolls ==
    /\ ~asleep /\ backend # "down" /\ age > 0
    /\ age' = 0 /\ seen' = TRUE
    /\ UNCHANGED <<vars, left, timer, confirming, asleep, request>>

SecondPasses ==
    /\ ~asleep
    /\ left > 0 \/ age <= Lease
    /\ left' = IF left > 0 THEN left - 1 ELSE 0
    /\ age' = IF age <= Lease THEN age + 1 ELSE age
    /\ UNCHANGED <<vars, timer, confirming, asleep, request, seen>>

Wakes ==
    /\ asleep
    /\ asleep' = FALSE
    /\ UNCHANGED <<vars, left, age, timer, confirming, request, seen>>

-----------------------------------------------------------------------------
TimerStep == TimerCopies \/ TimerChecksMiners \/ TimerChecksDeadline \/ TimerExecutes

PowerNext ==
    \/ LaunchRuns \/ CommandRuns \/ WorldRuns \/ BackendRuns
    \/ SweepRuns \/ Goes(Exit) \/ Goes(Crash) \/ Goes(CrashInStop)
    \/ PassRuns \/ PassEnds
    \/ TimerStep
    \/ ConfirmTakes \/ ConfirmChecksMiners \/ ConfirmExecutes
    \/ UiPolls \/ SecondPasses \/ Wakes

PowerSpec == PowerInit /\ [][PowerNext]_fullVars

\* The scheduler thread keeps running, seconds keep passing, a suspended machine
\* is woken, and a shutdown that has begun sweeps and ends the process.
PowerFairness == /\ WF_fullVars(LaunchRuns)
                 /\ SF_fullVars(SweepRuns) /\ SF_fullVars(Goes(Exit))
                 /\ SF_fullVars(PassRuns \/ PassEnds)
                 /\ WF_fullVars(TimerStep) /\ WF_fullVars(SecondPasses) /\ WF_fullVars(Wakes)

FairPowerSpec == PowerSpec /\ PowerFairness

-----------------------------------------------------------------------------
Suspends == ~asleep /\ asleep'

\* The machine is suspended with no miner process alive.
SleepsWhenIdle == [][Suspends => ~AnyMinerRunning]_fullVars

\* A canceled action is not executed: neither after a Cancel in the dialog, nor
\* after a successful Start or Force.
CancelAborts == [][Suspends => request # "canceled"]_fullVars

\* An action that requires a confirmation runs out unattended only if a dialog
\* was open during its countdown: a poll from before the request never counts,
\* because the countdown is longer than the lease.
UnattendedNeverSleeps ==
    [][TimerExecutes /\ timer.action \in Attended => seen]_fullVars

\* Every countdown comes to an end: the action is executed, confirmed, refused or
\* dropped, also by a shutdown, and the dialog does not stay for ever.  (Unless a
\* failed update left a backend without the thread that serves the countdown.)
CountdownResolves ==
    pending # NoPower ~> (pending = NoPower \/ (backend = "up" /\ scheduler = "exited"))

=============================================================================
