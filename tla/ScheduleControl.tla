----------------------------- MODULE ScheduleControl -----------------------------
(***************************************************************************)
(* The pure scheduling policy of MinerDesk (schedule_control.rs): which    *)
(* dated occurrence of a weekly window is active at a local moment, what a *)
(* Start command means inside and outside the windows, and the table of    *)
(* manual Stop holds.                                                      *)
(*                                                                         *)
(* An Option is a set with at most one element.  A window's identifier and *)
(* the day its occurrence started on make the occurrence key "id@day",     *)
(* here the pair <<schedule, day>>.                                        *)
(***************************************************************************)
EXTENDS Integers

CONSTANTS
    DaySeconds,   \* seconds in a day: 86400 in the code, a handful in a model
    BadTime       \* a start or end text that parse_second refuses

ASSUME DaySecondsAssumption == DaySeconds \in Nat \ {0}

Weekday == 1 .. 7            \* ISO: Monday is 1, Sunday is 7
Second == 0 .. (DaySeconds - 1)
TimeOfDay == Second \cup {BadTime}

\* chrono numbers days from the common era, and its day 1 was a Monday.
WeekdayOf(day) == 1 + ((day - 1) % 7)

\* The local moment at which `t` seconds have passed since day 1 began.
Moment(t) == LET day == 1 + (t \div DaySeconds)
             IN  [day |-> day, weekday |-> WeekdayOf(day), second |-> t % DaySeconds]

\* Mutation: the week does not wrap, so Monday has no previous weekday.
PreviousWeekdayUnwrapped(d) == d - 1

PreviousWeekday(d) == IF d = 1 THEN 7 ELSE d - 1

\* The day on which the occurrence of `w` active at `now` started, if any.
ActiveOccurrence(w, now) ==
    IF \/ ~w.enabled
       \/ now.weekday \notin Weekday
       \/ now.second >= DaySeconds
       \/ w.start = BadTime
       \/ w.end = BadTime
    THEN {}
    ELSE IF w.start <= w.end
         THEN IF /\ now.weekday \in w.days
                 /\ w.start <= now.second
                 /\ now.second < w.end
              THEN {now.day} ELSE {}
         ELSE IF now.second >= w.start /\ now.weekday \in w.days
              THEN {now.day}
              ELSE IF now.second < w.end /\ PreviousWeekday(now.weekday) \in w.days
                   THEN {now.day - 1} ELSE {}

\* What a Start or Restart does: "manual" is an unlimited session, "waiting"
\* stops the profile until its next window (None in the code).
UserStartOrigin(hasSchedule, scheduledNow, force) ==
    IF force \/ ~hasSchedule THEN "manual"
    ELSE IF scheduledNow THEN "schedule" ELSE "waiting"

\* Mutation: the condition on the window is inverted.
ShouldStopInside(running, startedBy, scheduledNow) ==
    running /\ startedBy = "schedule" /\ scheduledNow

\* The scheduler only stops what it owns, and only outside every window.
SchedulerShouldStop(running, startedBy, scheduledNow) ==
    running /\ startedBy = "schedule" /\ ~scheduledNow

-----------------------------------------------------------------------------
(***************************************************************************)
(* ManualScheduleControl.  `holds` maps every profile to the occurrences   *)
(* its last Stop suspended ({} when the table has no entry); `active` maps *)
(* every profile to the occurrences active now.                            *)
(***************************************************************************)

\* Mutation: a profile that has a hold already keeps it as it is.
PauseOnce(holds, m, active) ==
    IF active[m] = {} \/ holds[m] # {} THEN holds ELSE [holds EXCEPT ![m] = active[m]]

Pause(holds, m, active) ==
    IF active[m] = {} THEN holds ELSE [holds EXCEPT ![m] = active[m]]

PauseAll(holds, active) ==
    [m \in DOMAIN holds |-> IF active[m] = {} THEN holds[m] ELSE active[m]]

\* Mutation: the whole table is cleared.
ResumeAll(holds, m) == [o \in DOMAIN holds |-> {}]

Resume(holds, m) == [holds EXCEPT ![m] = {}]

\* Mutation: a second window that opens during the hold lifts it.
IsPausedExactly(holds, m, active) == holds[m] # {} /\ holds[m] = active[m]

IsPaused(holds, m, active) == holds[m] \cap active[m] # {}

Prune(holds, active) == [m \in DOMAIN holds |-> holds[m] \cap active[m]]

=============================================================================
