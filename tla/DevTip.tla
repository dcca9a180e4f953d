---------------------------------- MODULE DevTip ----------------------------------
(***************************************************************************)
(* The dev tip of one profile (start_dev_tip_monitor of lib.rs): time      *)
(* mined for the user earns credit for the developer; when there is enough *)
(* of it, the monitor restarts the miner with the developer's wallet for a *)
(* slice of time and then restarts it with the user's.  The monitor is a   *)
(* thread that looks at a copy of the configuration and of the statuses,   *)
(* acts, and sleeps; the user, the scheduler and the miner itself start    *)
(* and end sessions meanwhile.  Credit is kept multiplied by Whole -       *)
(* TipPercent, which makes the ratio TipPercent / (Whole - TipPercent)     *)
(* exact.  What a session is, and who may start one, is MinerLifecycle's;  *)
(* here it is only which wallet it mines for.                              *)
(***************************************************************************)
EXTENDS Integers

CONSTANTS
    Whole, TipPercent,     \* the tip is TipPercent of Whole: up to 10 of 100 in the code
    MinSlice, MaxSlice,    \* 30 s and 180 s
    Sleep,                 \* between two looks of the monitor: 5 s
    SwitchTime,            \* what a restart takes
    Faults,                \* "stop": a stop is not confirmed; "start": a start fails
    MaxClock, MaxEarned,   \* bounds on the time and the seconds credited of a behaviour
    NoTime

ASSUME TipAssumption ==
    /\ TipPercent \in Nat \ {0} /\ Whole \in Nat /\ TipPercent < Whole
    /\ MinSlice \in Nat \ {0} /\ MaxSlice \in Nat /\ MinSlice <= MaxSlice
    /\ Sleep \in Nat \ {0} /\ SwitchTime \in Nat
    /\ Faults \subseteq {"stop", "start"}
    /\ MaxClock \in Nat /\ MaxEarned \in Nat /\ NoTime \notin Nat

VARIABLES
    now,
    session,   \* "user" or "tip": what is mined for; "ended" until the monitor has
               \* seen that nothing runs, then "none"
    percent,   \* dev_tip_percent of the profile
    credit,    \* dev_tip_credit_seconds
    until,     \* dev_tip_until
    last,      \* dev_tip_last_tick
    monitor,   \* asleep until a time, or in a pass that looks, switches or records
    earned,    \* the seconds that may earn credit: history
    granted,   \* the seconds of the slices granted so far: history
    refused    \* returns to the user's wallet that failed in this slice, NoTime once a
               \* withdrawal has failed: history

tipVars == <<now, session, percent, credit, until, last, monitor, earned, granted, refused>>

Session == {"none", "ended", "user", "tip"}
Reason == {"slice", "over", "withdrawn"}
Monitor ==
    [phase : {"asleep"}, wake : Nat]
    \cup [phase : {"looking"}, at : Nat, percent : {0, TipPercent}, session : Session]
    \cup [phase : {"switching", "starting", "switched", "failed"}, at : Nat, reason : Reason]

TypeOK ==
    /\ now \in Nat /\ session \in Session /\ percent \in {0, TipPercent}
    /\ credit \in Nat
    /\ until \in Nat \cup {NoTime} /\ last \in Nat \cup {NoTime}
    /\ monitor \in Monitor
    /\ earned \in Nat /\ granted \in Nat /\ refused \in Nat \cup {NoTime}

Init ==
    /\ now = 0 /\ session = "none" /\ percent = TipPercent
    /\ credit = 0 /\ until = NoTime /\ last = NoTime
    /\ monitor = [phase |-> "asleep", wake |-> 0]
    /\ earned = 0 /\ granted = 0 /\ refused = 0

Ratio == Whole - TipPercent
Running(s) == s \in {"user", "tip"}
Asleep == [phase |-> "asleep", wake |-> now + Sleep]

-----------------------------------------------------------------------------
(* Time and the rest of the program *)

Passes(seconds) ==
    /\ now' = now + seconds
    /\ earned' = IF session = "user" THEN earned + seconds ELSE earned

Advance ==
    /\ monitor.phase = "asleep" /\ now < monitor.wake /\ now < MaxClock
    /\ Passes(1)
    /\ UNCHANGED <<session, percent, credit, until, last, monitor, granted, refused>>

\* What the monitor cannot see at a start: how long ago, up to a sleep and a switch,
\* the session began when it first looks at it, and, when it has not seen the end of
\* the last session or has just withdrawn a tip, that the time since its last look was
\* not mined for the user.
Unseen == Sleep + SwitchTime + IF session = "ended" /\ last # NoTime THEN now - last ELSE 0

monitorVars == <<now, credit, until, last, monitor, granted, refused>>

\* Between the stop and the start of a switch the lifecycle mutex is held.
LifecycleFree == monitor.phase # "starting"

\* Someone starts the profile: always on the user's wallet.  The monitor may not
\* have seen the end of the last session.
SessionStarts ==
    /\ LifecycleFree /\ ~Running(session) /\ earned < MaxEarned
    /\ session' = "user"
    /\ earned' = earned + Unseen
    /\ UNCHANGED <<percent, monitorVars>>

\* Someone stops it, or the miner exits.
SessionEnds ==
    /\ LifecycleFree /\ Running(session)
    /\ session' = "ended"
    /\ UNCHANGED <<percent, earned, monitorVars>>

\* The profile is saved with another percentage, or with a coin no tip can be
\* mined on, which counts as no tip.
Edit ==
    /\ percent' \in {0, TipPercent} \ {percent}
    /\ UNCHANGED <<session, earned, monitorVars>>

-----------------------------------------------------------------------------
(* The monitor *)

rest == <<percent, earned, granted>>

Look ==
    /\ monitor.phase = "asleep" /\ now >= monitor.wake
    /\ monitor' = [phase |-> "looking", at |-> now, percent |-> percent, session |-> session]
    /\ UNCHANGED <<now, session, credit, until, last, refused, rest>>

Sees(s, tips) ==
    monitor.phase = "looking" /\ monitor.session \in s /\ (monitor.percent > 0) = tips

SeesNothing ==
    /\ Sees({"none", "ended"}, TRUE) \/ Sees({"none", "ended"}, FALSE)
    /\ last' = monitor.at /\ until' = NoTime
    /\ session' = IF session = "ended" THEN "none" ELSE session
    /\ monitor' = Asleep
    /\ UNCHANGED <<now, credit, refused, rest>>

\* A tip that has been withdrawn while a slice runs ends at once.
SeesWithdrawal ==
    /\ Sees({"tip"}, FALSE)
    /\ monitor' = [phase |-> "switching", at |-> monitor.at, reason |-> "withdrawn"]
    /\ UNCHANGED <<now, session, credit, until, last, refused, rest>>

SeesNoTip ==
    /\ Sees({"user"}, FALSE)
    /\ last' = monitor.at
    /\ monitor' = Asleep
    /\ UNCHANGED <<now, session, credit, until, refused, rest>>

\* A slice is left alone until its end; without a recorded end it is left alone
\* for good.
SeesSlice ==
    /\ Sees({"tip"}, TRUE)
    /\ monitor' = IF until # NoTime /\ monitor.at >= until /\ Running(session)
                  THEN [phase |-> "switching", at |-> monitor.at, reason |-> "over"]
                  ELSE Asleep
    /\ UNCHANGED <<now, session, credit, until, last, refused, rest>>

\* Time since the last look earns credit; enough of it starts a slice.
SeesUser ==
    /\ Sees({"user"}, TRUE)
    /\ last' = monitor.at
    /\ credit' = IF last = NoTime THEN credit ELSE credit + (monitor.at - last) * TipPercent
    /\ monitor' = IF credit' >= MinSlice * Ratio /\ Running(session)
                  THEN [phase |-> "switching", at |-> monitor.at, reason |-> "slice"]
                  ELSE Asleep
    /\ UNCHANGED <<now, session, until, refused, rest>>

Goes(phase) == monitor' = [monitor EXCEPT !.phase = phase]

\* restart_miner_mode: a session that has ended meanwhile is not started again,
\* which counts as a success...
SwitchSkipped ==
    /\ monitor.phase = "switching" /\ ~Running(session)
    /\ Goes("switched")
    /\ UNCHANGED <<now, session, credit, until, last, refused, rest>>

\* ...a stop may fail and leave the session as it is...
SwitchNotStopped ==
    /\ "stop" \in Faults
    /\ monitor.phase = "switching" /\ Running(session)
    /\ Goes("failed")
    /\ UNCHANGED <<now, session, credit, until, last, refused, rest>>

\* ...and once it is stopped it is started again, which takes a while...
SwitchStops ==
    /\ monitor.phase = "switching" /\ Running(session)
    /\ Goes("starting")
    /\ session' = "ended"
    /\ now' = now + SwitchTime
    /\ UNCHANGED <<credit, until, last, refused, rest>>

SwitchStarts ==
    /\ monitor.phase = "starting"
    /\ Goes("switched")
    /\ IF monitor.reason = "slice"
       THEN session' = "tip" /\ UNCHANGED earned
       ELSE /\ session' = "user"
            /\ earned' = earned + IF monitor.reason = "withdrawn" THEN Unseen ELSE Sleep + SwitchTime
    /\ UNCHANGED <<now, credit, until, last, refused, percent, granted>>

\* ...or cannot be.
SwitchNotStarted ==
    /\ "start" \in Faults
    /\ monitor.phase = "starting"
    /\ Goes("failed")
    /\ UNCHANGED <<now, session, credit, until, last, refused, rest>>

\* The credit in whole seconds, at most MaxSlice.
Slice == LET seconds == credit \div Ratio IN IF seconds < MaxSlice THEN seconds ELSE MaxSlice

\* Mutation: a granted slice is not taken off the credit.
SliceUncharged ==
    /\ monitor.phase = "switched" /\ monitor.reason = "slice"
    /\ until' = monitor.at + Slice
    /\ granted' = granted + Slice
    /\ refused' = 0
    /\ monitor' = Asleep
    /\ UNCHANGED <<now, session, percent, credit, last, earned>>

SliceBegins ==
    /\ monitor.phase = "switched" /\ monitor.reason = "slice"
    /\ credit' = credit - Slice * Ratio
    /\ until' = monitor.at + Slice
    /\ granted' = granted + Slice
    /\ refused' = 0
    /\ monitor' = Asleep
    /\ UNCHANGED <<now, session, percent, last, earned>>

SliceOver ==
    /\ monitor.phase = "switched" /\ monitor.reason = "over"
    /\ until' = NoTime /\ last' = monitor.at
    /\ monitor' = Asleep
    /\ UNCHANGED <<now, session, credit, refused, rest>>

\* The result of the switch is not looked at here: the end of the slice is
\* forgotten also when the session is still the developer's.
SliceWithdrawn ==
    /\ monitor.phase \in {"switched", "failed"} /\ monitor.reason = "withdrawn"
    /\ until' = NoTime
    /\ refused' = IF monitor.phase = "failed" THEN NoTime ELSE refused
    /\ monitor' = Asleep
    /\ UNCHANGED <<now, session, credit, last, rest>>

\* Mutation: the end of the slice is forgotten although the return failed.
FailureForgetsEnd ==
    /\ monitor.phase = "failed" /\ monitor.reason # "withdrawn"
    /\ until' = NoTime
    /\ refused' = IF monitor.reason = "over" /\ refused # NoTime THEN refused + 1 ELSE refused
    /\ monitor' = Asleep
    /\ UNCHANGED <<now, session, credit, last, rest>>

\* A slice that could not begin, or a return that failed, is tried again at the
\* next look.
SwitchFailed ==
    /\ monitor.phase = "failed" /\ monitor.reason # "withdrawn"
    /\ refused' = IF monitor.reason = "over" /\ refused # NoTime THEN refused + 1 ELSE refused
    /\ monitor' = Asleep
    /\ UNCHANGED <<now, session, credit, until, last, rest>>

MonitorStep ==
    \/ Look
    \/ SeesNothing \/ SeesWithdrawal \/ SeesNoTip \/ SeesSlice \/ SeesUser
    \/ SwitchSkipped \/ SwitchNotStopped \/ SwitchStops \/ SwitchStarts \/ SwitchNotStarted
    \/ SliceBegins \/ SliceOver \/ SliceWithdrawn \/ SwitchFailed

Next == Advance \/ SessionStarts \/ SessionEnds \/ Edit \/ MonitorStep

Spec == Init /\ [][Next]_tipVars

-----------------------------------------------------------------------------
\* The developer's slices never exceed the chosen share of the time mined for the
\* user and of what the monitor cannot see (Unseen): credit is earned once and every
\* slice is paid for, whatever ends, fails or is edited in between.
FairShare == granted * Ratio <= earned * TipPercent

\* A slice ends on time: while one runs its end is recorded, and it outlives that
\* end by one sleep of the monitor, and by one more for every return that failed.
\* (Not after a withdrawal that failed, which leaves no end: a tip that is then chosen
\* again never ends.)
TipEndsOnTime ==
    session = "tip" /\ percent > 0 /\ monitor.phase = "asleep" /\ refused # NoTime
        => until # NoTime /\ now <= until + (Sleep + SwitchTime) * (1 + refused)
=============================================================================
