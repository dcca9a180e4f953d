-------------------------------- MODULE WindowWeek --------------------------------
(***************************************************************************)
(* One schedule window followed second by second through the days: the     *)
(* answers of ActiveOccurrence are compared with what the saved times mean *)
(* as intervals of absolute time.                                          *)
(***************************************************************************)
EXTENDS ScheduleControl

CONSTANTS
    WindowSet,    \* the windows to follow
    LastSecond    \* bound: the last second followed

ASSUME WeekAssumption ==
    /\ WindowSet \subseteq [enabled : BOOLEAN, days : SUBSET Weekday, start : TimeOfDay, end : TimeOfDay]
    /\ LastSecond \in Nat

VARIABLES
    window,       \* the saved window
    elapsed,      \* seconds since day 1 began
    key           \* what the last evaluation of ActiveOccurrence returned

weekVars == <<window, elapsed, key>>

WeekInit == /\ window \in WindowSet
            /\ elapsed = 0
            /\ key = ActiveOccurrence(window, Moment(0))

\* The scheduler evaluates the window again one second later.
Evaluate == /\ elapsed < LastSecond
            /\ elapsed' = elapsed + 1
            /\ key' = ActiveOccurrence(window, Moment(elapsed'))
            /\ UNCHANGED window

WeekSpec == WeekInit /\ [][Evaluate]_weekVars

-----------------------------------------------------------------------------
\* What the saved times mean: the occurrence that starts on `day` covers the
\* seconds from its start to its end, the end falling on the next day when it
\* is not after the start.  Equal times cover nothing, and so does a bad time.
Covers(w, day, time) ==
    /\ w.enabled
    /\ BadTime \notin {w.start, w.end}
    /\ w.start # w.end
    /\ WeekdayOf(day) \in w.days
    /\ LET first == (day - 1) * DaySeconds + w.start
           length == IF w.start < w.end THEN w.end - w.start
                                        ELSE DaySeconds - w.start + w.end
       IN  first <= time /\ time < first + length

\* The occurrence named by active_occurrence is exactly the one whose interval
\* of absolute time contains the present second: an overnight window belongs to
\* the day it starts on, also across the end of the week, and two occurrences
\* of one window never share a key or overlap.
OccurrenceIsItsInterval ==
    key = {day \in 0 .. (2 + LastSecond \div DaySeconds) : Covers(window, day, elapsed)}

=============================================================================
