-------------------------------- MODULE WakeTimers --------------------------------
(***************************************************************************)
(* The Windows wake tasks a list of schedule windows asks for              *)
(* (sync_windows_wake_tasks of lib.rs).  A window that is enabled with its *)
(* wake option gets one weekly task per day, some minutes ahead of its     *)
(* start; the wake may fall on an earlier weekday.                         *)
(***************************************************************************)
EXTENDS Integers

CONSTANT DayMinutes   \* minutes of a day: 1440 in the code

ASSUME DayMinutesAssumption == DayMinutes \in Nat \ {0}

WeekMinutes == 7 * DayMinutes

\* Mutation: a wake before Monday keeps the weekday of the window.
WakeMomentSameDay(window, day) ==
    LET lead == IF window.lead < DayMinutes THEN window.lead ELSE DayMinutes
    IN  [day |-> day, minute |-> (window.start - lead) % DayMinutes]

\* The weekday (1 is Monday) and the minute of the day of the wake for `day`.
WakeMoment(window, day) ==
    LET lead     == IF window.lead < DayMinutes THEN window.lead ELSE DayMinutes
        wake     == window.start - lead
        wakeDay  == day + wake \div DayMinutes
    IN  [day |-> IF wakeDay < 1 THEN wakeDay + 7 ELSE wakeDay,
         minute |-> wake % DayMinutes]

\* Tasks are named after the window and its day, so a later one replaces an
\* earlier one of the same name.
WakeTasks(windows) ==
    UNION {{[id |-> w.id, for |-> d, at |-> WakeMoment(w, d)] : d \in w.days \cap (1..7)} :
              w \in {v \in windows : v.enabled /\ v.wake}}

\* The minute of the week a task wakes the computer at, and the one it must
\* wake it for.
WakeMinute(task) == (task.at.day - 1) * DayMinutes + task.at.minute
StartMinute(window, day) == (day - 1) * DayMinutes + window.start
=============================================================================
