------------------------------- MODULE DevTip_proofs -------------------------------
(***************************************************************************)
(* The dev tip for any percentage, any lengths of slices, sleeps and       *)
(* switches, and any faults: the developer's share is never exceeded, and  *)
(* a slice ends on time.  The account (PaidFor) relates credit, slices     *)
(* granted and the time the monitor has not counted yet; the clocks of the *)
(* monitor (ClocksFit) bound that time, and OnTime the end of a slice.     *)
(* Last, whom the wallets of a slice pay, for any list of coins.           *)
(***************************************************************************)
EXTENDS DevTip, TipWallets, WellFoundedInduction, TLAPS

Switching == {"switching", "starting", "switched", "failed"}

\* What the monitor has noted is not in the future, and it does not oversleep.
\* From its look to the restart no time passes; the restart takes SwitchTime.
ClocksFit ==
    /\ last # NoTime => last <= now
    /\ monitor.phase = "asleep" => now <= monitor.wake
    /\ monitor.phase \in {"looking", "switching"} => now = monitor.at
    /\ monitor.phase \in {"starting", "switched", "failed"} =>
         monitor.at <= now /\ now <= monitor.at + SwitchTime

\* Only the monitor starts a session on the developer's wallet, and only when it
\* begins a slice.
WhoseSession ==
    /\ monitor.phase = "looking" /\ monitor.session # "tip" => session # "tip"
    /\ monitor.phase = "starting" => session = "ended"
    /\ monitor.phase \in {"switching", "failed"} /\ monitor.reason = "slice" => session # "tip"
    /\ monitor.phase = "switched" /\ monitor.reason # "slice" => session # "tip"

\* While nothing runs, and the monitor knows it, it looks again before a sleep is over.
IdleIsSeen ==
    session = "none" =>
        \/ monitor.phase = "asleep" /\ (last # NoTime => monitor.wake <= last + Sleep)
        \/ /\ monitor.phase = "looking" /\ monitor.session = "none"
           /\ last # NoTime => now <= last + Sleep

\* The seconds the monitor may still count as mined for the user: since its last
\* look, or, at the end of a slice, since it decided to end it.
Since == IF monitor.phase = "switched" /\ monitor.reason = "over" THEN monitor.at ELSE last
Uncounted ==
    IF monitor.phase = "looking" /\ monitor.session = "user"
    THEN IF last = NoTime THEN 0 ELSE monitor.at - last
    ELSE IF session = "user" /\ Since # NoTime THEN now - Since ELSE 0

\* Credit, slices granted and what may still become credit are covered by what
\* has been earned.
PaidFor == credit + granted * Ratio + Uncounted * TipPercent <= earned * TipPercent

\* While a slice runs that began and whose withdrawal has not failed, its end is
\* recorded and the monitor is awake in time.
Deadline == until + (Sleep + SwitchTime) * (1 + refused)
OnTime ==
    session = "tip" /\ refused # NoTime /\ monitor.phase # "switched" =>
        /\ until # NoTime
        /\ monitor.phase = "asleep" => monitor.wake <= Deadline
        /\ now <= Deadline

TInv == TypeOK /\ ClocksFit /\ WhoseSession /\ IdleIsSeen /\ PaidFor /\ OnTime

-----------------------------------------------------------------------------
(* Numbers and records *)

LEMMA Constants ==
    /\ Ratio \in Nat \ {0} /\ TipPercent \in Nat \ {0} /\ Whole \in Nat
    /\ MinSlice \in Nat /\ MaxSlice \in Nat /\ Sleep \in Nat /\ SwitchTime \in Nat
    /\ NoTime \notin Nat
BY TipAssumption DEF Ratio

LEMMA Quotient ==
    ASSUME NEW c \in Nat, NEW r \in Nat \ {0}
    PROVE  c \div r \in Nat /\ (c \div r) * r <= c
<1>1. c = r * (c \div r) + (c % r) /\ c % r \in Nat /\ c \div r \in Int
  OBVIOUS
<1>2. c \div r >= 0
  OBVIOUS
<1> QED  BY <1>1, <1>2

LEMMA Products ==
    ASSUME NEW a \in Nat, NEW b \in Nat, NEW c \in Nat
    PROVE  /\ (a + b) * c = a * c + b * c
           /\ a * c \in Nat
           /\ a <= b => a * c <= b * c
OBVIOUS

\* A slice is never longer than what the credit pays for.
LEMMA SliceIsPaid ==
    ASSUME TypeOK
    PROVE  Slice \in Nat /\ Slice * Ratio \in Nat /\ Slice * Ratio <= credit
<1> DEFINE q == credit \div Ratio
<1>1. credit \in Nat /\ Ratio \in Nat \ {0} /\ MaxSlice \in Nat
  BY Constants DEF TypeOK
<1>2. q \in Nat /\ q * Ratio <= credit
  BY <1>1, Quotient
<1>3. Slice = IF q < MaxSlice THEN q ELSE MaxSlice
  BY DEF Slice
<1> HIDE DEF q
<1>4. Slice \in Nat /\ Slice <= q
  BY <1>1, <1>2, <1>3
<1>5. Slice * Ratio <= q * Ratio /\ Slice * Ratio \in Nat
  BY <1>1, <1>2, <1>4, Products
<1> QED  BY <1>1, <1>2, <1>4, <1>5

\* The fields of the monitor's record in each of its phases.
LEMMA MonitorPhases ==
    ASSUME TypeOK
    PROVE  /\ monitor.phase \in {"asleep", "looking"} \cup Switching
           /\ monitor.phase = "asleep" =>
                monitor.wake \in Nat /\ monitor = [phase |-> "asleep", wake |-> monitor.wake]
           /\ monitor.phase = "looking" =>
                monitor.at \in Nat /\ monitor.session \in Session /\ monitor.percent \in {0, TipPercent}
           /\ monitor.phase \in Switching =>
                /\ monitor.at \in Nat /\ monitor.reason \in Reason
                /\ monitor = [phase |-> monitor.phase, at |-> monitor.at, reason |-> monitor.reason]
BY DEF TypeOK, Monitor, Switching

\* A switch goes on with the moment and the reason it began with.
LEMMA SwitchGoesOn ==
    ASSUME TypeOK, monitor.phase \in Switching, NEW phase \in Switching, Goes(phase)
    PROVE  /\ monitor' = [phase |-> phase, at |-> monitor.at, reason |-> monitor.reason]
           /\ monitor' \in Monitor
           /\ monitor'.phase = phase /\ monitor'.at = monitor.at /\ monitor'.reason = monitor.reason
<1>1. monitor = [phase |-> monitor.phase, at |-> monitor.at, reason |-> monitor.reason]
      /\ monitor.at \in Nat /\ monitor.reason \in Reason
  BY MonitorPhases
<1>2. monitor' = [phase |-> phase, at |-> monitor.at, reason |-> monitor.reason]
  BY <1>1 DEF Goes
<1> QED  BY <1>1, <1>2 DEF Monitor, Switching

\* The monitor goes to sleep.
LEMMA FallsAsleep ==
    ASSUME TypeOK, monitor' = Asleep
    PROVE  /\ monitor' \in Monitor
           /\ monitor'.phase = "asleep" /\ monitor'.wake = now + Sleep
BY Constants DEF TypeOK, Monitor, Asleep

\* The monitor has seen, at the moment of its look, what starts a switch.
LEMMA SwitchBegins ==
    ASSUME TypeOK, monitor.phase = "looking", NEW reason \in Reason,
           monitor' = [phase |-> "switching", at |-> monitor.at, reason |-> reason]
    PROVE  /\ monitor' \in Monitor
           /\ monitor'.phase = "switching" /\ monitor'.at = monitor.at /\ monitor'.reason = reason
BY MonitorPhases DEF Monitor

-----------------------------------------------------------------------------
(* Each part of the invariant is preserved *)

LEMMA TypeStep ==
    ASSUME TypeOK, ClocksFit, Next
    PROVE  TypeOK'
<1> USE Constants
<1>1. CASE Advance
  BY <1>1 DEF TypeOK, Advance, Passes
<1>2. CASE SessionStarts
  <2>1. Unseen \in Nat
    BY DEF Unseen, TypeOK, ClocksFit
  <2> QED  BY <1>2, <2>1 DEF TypeOK, SessionStarts, monitorVars, Session
<1>3. CASE SessionEnds \/ Edit
  BY <1>3 DEF TypeOK, SessionEnds, Edit, monitorVars, Session
<1>4. CASE Look
  BY <1>4 DEF TypeOK, Look, rest, Monitor
<1>5. CASE SeesNothing \/ SeesNoTip
  <2>1. monitor.at \in Nat /\ monitor' \in Monitor
    BY <1>5, MonitorPhases, FallsAsleep DEF SeesNothing, SeesNoTip, Sees
  <2> QED  BY <1>5, <2>1 DEF TypeOK, SeesNothing, SeesNoTip, rest, Session
<1>6. CASE SeesWithdrawal
  BY <1>6, SwitchBegins DEF TypeOK, SeesWithdrawal, Sees, rest, Reason
<1>7. CASE SeesSlice
  BY <1>7, SwitchBegins, FallsAsleep DEF TypeOK, SeesSlice, Sees, rest, Reason
<1>8. CASE SeesUser
  <2>1. monitor.at \in Nat /\ monitor' \in Monitor
    BY <1>8, MonitorPhases, SwitchBegins, FallsAsleep DEF SeesUser, Sees, Reason
  <2>2. last # NoTime => monitor.at - last \in Nat
    BY <1>8, <2>1 DEF SeesUser, Sees, ClocksFit, TypeOK
  <2>3. credit' \in Nat
    BY <1>8, <2>2, Products DEF SeesUser, TypeOK
  <2> QED  BY <1>8, <2>1, <2>3 DEF TypeOK, SeesUser, rest
<1>9. CASE SwitchSkipped \/ SwitchNotStopped \/ SwitchNotStarted
  <2>1. monitor' \in Monitor
    BY <1>9, SwitchGoesOn DEF SwitchSkipped, SwitchNotStopped, SwitchNotStarted, Switching
  <2> QED  BY <1>9, <2>1 DEF TypeOK, SwitchSkipped, SwitchNotStopped, SwitchNotStarted, rest
<1>10. CASE SwitchStops
  <2>1. monitor' \in Monitor
    BY <1>10, SwitchGoesOn DEF SwitchStops, Switching
  <2> QED  BY <1>10, <2>1 DEF TypeOK, SwitchStops, rest, Session
<1>11. CASE SwitchStarts
  <2>1. monitor' \in Monitor /\ Unseen \in Nat
    BY <1>11, SwitchGoesOn DEF SwitchStarts, Switching, Unseen, TypeOK, ClocksFit
  <2> QED  BY <1>11, <2>1 DEF TypeOK, SwitchStarts, Session
<1>12. CASE SliceBegins
  <2>1. monitor.at \in Nat /\ monitor' \in Monitor
    BY <1>12, MonitorPhases, FallsAsleep DEF SliceBegins, Switching
  <2>2. Slice \in Nat /\ credit' \in Nat
    BY <1>12, SliceIsPaid DEF SliceBegins, TypeOK
  <2> QED  BY <1>12, <2>1, <2>2 DEF TypeOK, SliceBegins
<1>13. CASE SliceOver
  <2>1. monitor.at \in Nat /\ monitor' \in Monitor
    BY <1>13, MonitorPhases, FallsAsleep DEF SliceOver, Switching
  <2> QED  BY <1>13, <2>1 DEF TypeOK, SliceOver, rest
<1>14. CASE SliceWithdrawn \/ SwitchFailed
  BY <1>14, FallsAsleep DEF TypeOK, SliceWithdrawn, SwitchFailed, rest
<1> QED  BY <1>1, <1>2, <1>3, <1>4, <1>5, <1>6, <1>7, <1>8, <1>9, <1>10, <1>11, <1>12, <1>13, <1>14
         DEF Next, MonitorStep

LEMMA ClocksStep ==
    ASSUME TypeOK, ClocksFit, Next
    PROVE  ClocksFit'
<1> USE Constants
<1>1. CASE Advance
  BY <1>1, MonitorPhases DEF ClocksFit, TypeOK, Advance, Passes
<1>2. CASE SessionStarts \/ SessionEnds \/ Edit
  BY <1>2 DEF ClocksFit, SessionStarts, SessionEnds, Edit, monitorVars
<1>3. CASE Look
  BY <1>3 DEF ClocksFit, Look, TypeOK
<1>4. CASE SeesNothing \/ SeesNoTip
  BY <1>4, MonitorPhases, FallsAsleep DEF ClocksFit, SeesNothing, SeesNoTip, Sees, TypeOK
<1>5. CASE SeesWithdrawal
  BY <1>5, SwitchBegins DEF ClocksFit, SeesWithdrawal, Sees, Reason
<1>6. CASE SeesSlice
  BY <1>6, SwitchBegins, FallsAsleep DEF ClocksFit, SeesSlice, Sees, Reason, TypeOK
<1>7. CASE SeesUser
  BY <1>7, MonitorPhases, SwitchBegins, FallsAsleep DEF ClocksFit, SeesUser, Sees, Reason, TypeOK
<1>8. CASE SwitchSkipped \/ SwitchNotStopped \/ SwitchNotStarted
  BY <1>8, SwitchGoesOn, MonitorPhases
     DEF ClocksFit, SwitchSkipped, SwitchNotStopped, SwitchNotStarted, Switching, TypeOK
<1>9. CASE SwitchStops
  BY <1>9, SwitchGoesOn, MonitorPhases DEF ClocksFit, SwitchStops, Switching, TypeOK
<1>10. CASE SwitchStarts
  BY <1>10, SwitchGoesOn DEF ClocksFit, SwitchStarts, Switching
<1>11. CASE SliceBegins \/ SliceOver \/ SliceWithdrawn \/ SwitchFailed
  BY <1>11, FallsAsleep DEF ClocksFit, SliceBegins, SliceOver, SliceWithdrawn, SwitchFailed, TypeOK
<1> QED  BY <1>1, <1>2, <1>3, <1>4, <1>5, <1>6, <1>7, <1>8, <1>9, <1>10, <1>11 DEF Next, MonitorStep

LEMMA WhoseStep ==
    ASSUME TypeOK, WhoseSession, Next
    PROVE  WhoseSession'
<1>1. CASE Advance \/ Edit
  BY <1>1 DEF WhoseSession, Advance, Edit, monitorVars
<1>2. CASE SessionStarts \/ SessionEnds
  BY <1>2 DEF WhoseSession, SessionStarts, SessionEnds, LifecycleFree, monitorVars
<1>3. CASE Look
  BY <1>3 DEF WhoseSession, Look
<1>4. CASE SeesNothing \/ SeesNoTip \/ SliceBegins \/ SliceOver \/ SliceWithdrawn \/ SwitchFailed
  BY <1>4, FallsAsleep
     DEF WhoseSession, SeesNothing, SeesNoTip, SliceBegins, SliceOver, SliceWithdrawn, SwitchFailed
<1>5. CASE SeesWithdrawal
  BY <1>5, SwitchBegins DEF WhoseSession, SeesWithdrawal, Sees, Reason
<1>6. CASE SeesSlice
  BY <1>6, SwitchBegins, FallsAsleep DEF WhoseSession, SeesSlice, Sees, Reason
<1>7. CASE SeesUser
  BY <1>7, SwitchBegins, FallsAsleep DEF WhoseSession, SeesUser, Sees, Reason
<1>8. CASE SwitchSkipped
  BY <1>8, SwitchGoesOn DEF WhoseSession, SwitchSkipped, Switching, Running
<1>9. CASE SwitchNotStopped \/ SwitchNotStarted
  BY <1>9, SwitchGoesOn DEF WhoseSession, SwitchNotStopped, SwitchNotStarted, Switching
<1>10. CASE SwitchStops
  BY <1>10, SwitchGoesOn DEF WhoseSession, SwitchStops, Switching
<1>11. CASE SwitchStarts
  BY <1>11, SwitchGoesOn DEF WhoseSession, SwitchStarts, Switching
<1> QED  BY <1>1, <1>2, <1>3, <1>4, <1>5, <1>6, <1>7, <1>8, <1>9, <1>10, <1>11 DEF Next, MonitorStep

\* Only SeesNothing makes a session "none", and only time passes until the monitor
\* looks again.
LEMMA IdleStep ==
    ASSUME TypeOK, ClocksFit, IdleIsSeen, Next
    PROVE  IdleIsSeen'
<1> USE Constants
<1>1. CASE Advance
  BY <1>1 DEF IdleIsSeen, Advance, Passes, TypeOK
<1>2. CASE SessionStarts \/ SessionEnds \/ Edit
  BY <1>2 DEF IdleIsSeen, SessionStarts, SessionEnds, Edit, monitorVars
<1>3. CASE Look
  BY <1>3, MonitorPhases DEF IdleIsSeen, Look, ClocksFit, TypeOK
<1>4. CASE SeesNothing
  BY <1>4, FallsAsleep, MonitorPhases DEF IdleIsSeen, SeesNothing, Sees, ClocksFit
<1>5. CASE SeesWithdrawal \/ SeesNoTip \/ SeesSlice \/ SeesUser
  BY <1>5 DEF IdleIsSeen, SeesWithdrawal, SeesNoTip, SeesSlice, SeesUser, Sees, TypeOK, Session
<1>6. CASE SwitchSkipped \/ SwitchNotStopped \/ SwitchNotStarted
  BY <1>6 DEF IdleIsSeen, SwitchSkipped, SwitchNotStopped, SwitchNotStarted
<1>7. CASE SwitchStops \/ SwitchStarts
  BY <1>7 DEF IdleIsSeen, SwitchStops, SwitchStarts
<1>8. CASE SliceBegins \/ SliceOver \/ SliceWithdrawn \/ SwitchFailed
  BY <1>8 DEF IdleIsSeen, SliceBegins, SliceOver, SliceWithdrawn, SwitchFailed
<1> QED  BY <1>1, <1>2, <1>3, <1>4, <1>5, <1>6, <1>7, <1>8 DEF Next, MonitorStep

-----------------------------------------------------------------------------
(* The account *)

LEMMA UncountedTyped == TypeOK /\ ClocksFit => Uncounted \in Nat
BY MonitorPhases, Constants DEF TypeOK, ClocksFit, Uncounted, Since, Switching

LEMMA UncountedStaysTyped == (TypeOK /\ ClocksFit => Uncounted \in Nat)'
BY UncountedTyped, PTL

\* What is booked as credit no longer counts as uncounted, and what is newly
\* uncounted has been earned.
LEMMA Balance ==
    ASSUME NEW c \in Nat, NEW g \in Nat, NEW u \in Nat, NEW e \in Nat,
           NEW c2 \in Nat, NEW g2 \in Nat, NEW u2 \in Nat, NEW e2 \in Nat,
           NEW gain \in Nat, NEW r \in Nat, NEW p \in Nat,
           c + g * r + u * p <= e * p,
           c2 + g2 * r = c + g * r + gain * p,
           u2 + gain + e <= u + e2
    PROVE  c2 + g2 * r + u2 * p <= e2 * p
<1>1. (u2 + gain + e) * p <= (u + e2) * p
  BY Products
<1>2. (u2 + gain + e) * p = u2 * p + gain * p + e * p /\ (u + e2) * p = u * p + e2 * p
  OBVIOUS
<1>3. /\ g * r \in Nat /\ g2 * r \in Nat /\ u * p \in Nat /\ u2 * p \in Nat
      /\ gain * p \in Nat /\ e * p \in Nat /\ e2 * p \in Nat
  BY Products
<1> QED  BY <1>1, <1>2, <1>3

LEMMA Unbooked ==
    ASSUME NEW c \in Nat, NEW g \in Nat, NEW u \in Nat, NEW e \in Nat,
           NEW u2 \in Nat, NEW x \in Nat, NEW r \in Nat, NEW p \in Nat,
           c + g * r + u * p <= e * p,
           u2 <= u + x
    PROVE  c + g * r + u2 * p <= (e + x) * p
<1>1. c + g * r = c + g * r + 0 * p /\ u2 + 0 + e <= u + (e + x) /\ e + x \in Nat
  BY Products
<1> QED  BY <1>1, Balance

\* A step that books nothing, and earns x.
LEMMA NothingBooked ==
    ASSUME TypeOK, TypeOK', ClocksFit, ClocksFit', PaidFor, UNCHANGED <<credit, granted>>,
           NEW x \in Nat, earned' = earned + x, Uncounted' <= Uncounted + x
    PROVE  PaidFor'
<1>1. /\ credit \in Nat /\ granted \in Nat /\ earned \in Nat /\ Uncounted \in Nat /\ Uncounted' \in Nat
      /\ Ratio \in Nat /\ TipPercent \in Nat
  BY UncountedTyped, UncountedStaysTyped, Constants DEF TypeOK
<1>2. credit + granted * Ratio + Uncounted' * TipPercent <= (earned + x) * TipPercent
  BY <1>1, Unbooked DEF PaidFor
<1> QED  BY <1>2 DEF PaidFor, Ratio

\* A step that books nothing and earns nothing.
LEMMA NothingEarned ==
    ASSUME TypeOK, TypeOK', ClocksFit, ClocksFit', PaidFor, UNCHANGED <<credit, granted, earned>>,
           Uncounted' = Uncounted \/ Uncounted' = 0
    PROVE  PaidFor'
<1>1. Uncounted \in Nat /\ earned \in Nat
  BY UncountedTyped DEF TypeOK
<1>2. Uncounted' <= Uncounted + 0 /\ earned' = earned + 0
  BY <1>1
<1> QED  BY <1>2, NothingBooked

LEMMA PaidStep ==
    ASSUME TypeOK, ClocksFit, WhoseSession, IdleIsSeen, PaidFor, Next
    PROVE  PaidFor'
<1> USE Constants
<1>0. TypeOK' /\ ClocksFit'
  BY TypeStep, ClocksStep
<1>1. Uncounted \in Nat /\ Uncounted' \in Nat
  BY <1>0, UncountedTyped, UncountedStaysTyped
<1>2. CASE Advance
  <2> DEFINE x == IF session = "user" THEN 1 ELSE 0
  <2>1. earned' = earned + x /\ x \in Nat
    BY <1>2 DEF Advance, Passes, TypeOK
  <2>2. Uncounted' <= Uncounted + x
    BY <1>2 DEF Advance, Passes, Uncounted, Since, TypeOK, ClocksFit
  <2> QED  BY <1>0, <1>2, <2>1, <2>2, NothingBooked DEF Advance
<1>3. CASE SessionStarts
  <2>1. Uncounted' <= IF session = "none" \/ (session = "ended" /\ last = NoTime)
                      THEN Sleep + SwitchTime ELSE now - last + Sleep + SwitchTime
    BY <1>3, MonitorPhases
       DEF SessionStarts, monitorVars, LifecycleFree, Running, Uncounted, Since, TypeOK, ClocksFit,
           IdleIsSeen, Session, Switching
  <2>2. earned' = earned + Unseen
    BY <1>3 DEF SessionStarts
  <2>3. Uncounted' <= Unseen /\ Unseen \in Nat
    BY <1>3, <2>1 DEF Unseen, SessionStarts, Running, TypeOK, Session, ClocksFit
  <2>4. Uncounted' <= Uncounted + Unseen
    BY <1>1, <2>3
  <2> QED  BY <1>0, <1>3, <2>2, <2>3, <2>4, NothingBooked DEF SessionStarts, monitorVars
<1>4. CASE SessionEnds \/ Edit
  <2>1. Uncounted' = Uncounted \/ Uncounted' = 0
    BY <1>4, MonitorPhases DEF SessionEnds, Edit, monitorVars, Uncounted, Since, TypeOK, ClocksFit
  <2> QED  BY <1>0, <1>4, <2>1, NothingEarned DEF SessionEnds, Edit, monitorVars
<1>5. CASE Look
  <2>1. Uncounted' = Uncounted \/ Uncounted' = 0
    BY <1>5 DEF Look, rest, Uncounted, Since, TypeOK, ClocksFit
  <2> QED  BY <1>0, <1>5, <2>1, NothingEarned DEF Look, rest
<1>6. CASE SeesNothing \/ SeesNoTip
  <2>1. Uncounted' = Uncounted \/ Uncounted' = 0
    BY <1>6, FallsAsleep, MonitorPhases
       DEF SeesNothing, SeesNoTip, Sees, rest, Uncounted, Since, TypeOK, ClocksFit, Session
  <2> QED  BY <1>0, <1>6, <2>1, NothingEarned DEF SeesNothing, SeesNoTip, rest
<1>7. CASE SeesWithdrawal \/ SeesSlice
  <2>1. /\ monitor'.phase = "asleep" \/ monitor'.phase = "switching"
        /\ monitor.phase = "looking" /\ monitor.session # "user"
    BY <1>7, FallsAsleep, SwitchBegins DEF SeesWithdrawal, SeesSlice, Sees, Reason
  <2>2. Uncounted' = Uncounted \/ Uncounted' = 0
    BY <1>7, <2>1 DEF SeesWithdrawal, SeesSlice, rest, Uncounted, Since
  <2> QED  BY <1>0, <1>7, <2>2, NothingEarned DEF SeesWithdrawal, SeesSlice, rest
<1>8. CASE SeesUser
  <2> DEFINE gain == IF last = NoTime THEN 0 ELSE monitor.at - last
  <2>1. /\ monitor.phase = "looking" /\ monitor.session = "user" /\ monitor.at \in Nat
        /\ monitor.at = now
    BY <1>8, MonitorPhases DEF SeesUser, Sees, ClocksFit
  <2>2. gain \in Nat /\ Uncounted = gain
    BY <2>1 DEF Uncounted, TypeOK, ClocksFit
  <2>3. monitor'.phase = "asleep" \/ monitor'.phase = "switching"
    BY <1>8, FallsAsleep, SwitchBegins, <2>1 DEF SeesUser, Reason
  <2>4. Uncounted' = 0
    BY <1>8, <2>1, <2>3 DEF SeesUser, Uncounted, Since
  <2>5. credit' = credit + gain * TipPercent
    BY <1>8, Products DEF SeesUser, TypeOK
  <2> HIDE DEF gain
  <2>6. /\ credit \in Nat /\ granted \in Nat /\ earned \in Nat /\ credit' \in Nat
        /\ granted' = granted /\ earned' = earned /\ Ratio \in Nat /\ Ratio' = Ratio
    BY <1>0, <1>8 DEF SeesUser, rest, TypeOK, Ratio
  <2>7. granted * Ratio \in Nat /\ gain * TipPercent \in Nat
    BY <2>2, <2>6, Products
  <2>8. credit + granted * Ratio + gain * TipPercent <= earned * TipPercent
    BY <2>2 DEF PaidFor
  <2>9. credit' + granted * Ratio + 0 <= earned * TipPercent
    BY <2>5, <2>6, <2>7, <2>8
  <2>10. Uncounted' * TipPercent = 0
    BY <2>4, Products
  <2> QED  BY <2>6, <2>9, <2>10 DEF PaidFor
<1>9. CASE SwitchSkipped \/ SwitchNotStopped \/ SwitchNotStarted
  <2>1. Uncounted' = Uncounted \/ Uncounted' = 0
    BY <1>9, SwitchGoesOn, MonitorPhases
       DEF SwitchSkipped, SwitchNotStopped, SwitchNotStarted, rest, Running, Uncounted, Since, Switching
  <2> QED  BY <1>0, <1>9, <2>1, NothingEarned
              DEF SwitchSkipped, SwitchNotStopped, SwitchNotStarted, rest
<1>10. CASE SwitchStops
  <2>1. Uncounted' = Uncounted \/ Uncounted' = 0
    BY <1>10, SwitchGoesOn DEF SwitchStops, rest, Uncounted, Switching
  <2> QED  BY <1>0, <1>10, <2>1, NothingEarned DEF SwitchStops, rest
<1>11. CASE SwitchStarts
  <2>1. /\ monitor.phase = "starting" /\ session = "ended" /\ now \in Nat /\ earned \in Nat
        /\ monitor.at \in Nat /\ monitor.at <= now /\ now <= monitor.at + SwitchTime
        /\ monitor'.phase = "switched" /\ monitor'.at = monitor.at /\ monitor'.reason = monitor.reason
        /\ monitor.reason \in Reason
    BY <1>11, MonitorPhases, SwitchGoesOn DEF SwitchStarts, WhoseSession, ClocksFit, Switching, TypeOK
  <2>2. Unseen \in Nat /\ (last # NoTime => now - last <= Unseen) /\ Unseen >= Sleep + SwitchTime
    BY <2>1 DEF Unseen, TypeOK, ClocksFit
  <2> DEFINE x == CASE monitor.reason = "slice" -> 0
                    [] monitor.reason = "over" -> Sleep + SwitchTime
                    [] OTHER -> Unseen
  <2>3. earned' = earned + x /\ x \in Nat
    BY <1>11, <2>1, <2>2 DEF SwitchStarts, Reason
  <2>4. Uncounted' <= x
    <3>1. CASE monitor.reason = "slice"
      BY <1>11, <2>1, <3>1 DEF SwitchStarts, Uncounted
    <3>2. CASE monitor.reason = "over"
      BY <1>11, <2>1, <3>2 DEF SwitchStarts, Uncounted, Since
    <3>3. CASE monitor.reason = "withdrawn"
      BY <1>11, <2>1, <2>2, <3>3 DEF SwitchStarts, Uncounted, Since, TypeOK
    <3> QED  BY <2>1, <3>1, <3>2, <3>3 DEF Reason
  <2> HIDE DEF x
  <2>5. Uncounted' <= Uncounted + x
    BY <1>1, <2>3, <2>4
  <2> QED  BY <1>0, <1>11, <2>3, <2>5, NothingBooked DEF SwitchStarts
<1>12. CASE SliceBegins
  <2>1. Uncounted' = Uncounted /\ earned' = earned /\ Ratio' = Ratio
    BY <1>12, FallsAsleep DEF SliceBegins, Uncounted, Since, Ratio
  <2>2. credit' + granted' * Ratio = credit + granted * Ratio
    <3>1. granted' = granted + Slice /\ credit' = credit - Slice * Ratio
      BY <1>12 DEF SliceBegins
    <3>2. /\ credit \in Nat /\ granted \in Nat /\ Slice \in Nat /\ Slice * Ratio \in Nat
          /\ granted * Ratio \in Nat /\ (granted + Slice) * Ratio = granted * Ratio + Slice * Ratio
      BY SliceIsPaid, Products DEF TypeOK
    <3> QED  BY <3>1, <3>2
  <2> QED  BY <2>1, <2>2 DEF PaidFor
<1>13. CASE SliceOver
  <2>1. Uncounted' = Uncounted \/ Uncounted' = 0
    BY <1>13, FallsAsleep, MonitorPhases DEF SliceOver, rest, Uncounted, Since, Switching
  <2> QED  BY <1>0, <1>13, <2>1, NothingEarned DEF SliceOver, rest
<1>14. CASE SliceWithdrawn \/ SwitchFailed
  <2>1. Uncounted' = Uncounted \/ Uncounted' = 0
    BY <1>14, FallsAsleep DEF SliceWithdrawn, SwitchFailed, rest, Uncounted, Since
  <2> QED  BY <1>0, <1>14, <2>1, NothingEarned DEF SliceWithdrawn, SwitchFailed, rest
<1> QED  BY <1>2, <1>3, <1>4, <1>5, <1>6, <1>7, <1>8, <1>9, <1>10, <1>11, <1>12, <1>13, <1>14
         DEF Next, MonitorStep

-----------------------------------------------------------------------------
(* The end of a slice *)

LEMMA Delays ==
    ASSUME NEW d \in Nat, NEW n \in Nat
    PROVE  /\ d * (1 + n) \in Nat /\ d <= d * (1 + n)
           /\ d * (1 + (n + 1)) = d * (1 + n) + d
<1>1. d * n \in Nat /\ d * (1 + n) = d + d * n /\ d * (1 + (n + 1)) = d + d * n + d
  OBVIOUS
<1> QED  BY <1>1

\* A step of the monitor back to sleep, from its look at a slice or from a return
\* that failed, keeps the deadline.
LEMMA OnTimeStep ==
    ASSUME TypeOK, ClocksFit, WhoseSession, OnTime, Next
    PROVE  OnTime'
<1> USE Constants
<1>0. TypeOK'
  BY TypeStep
<1> SUFFICES ASSUME session' = "tip", refused' # NoTime, monitor'.phase # "switched"
             PROVE  /\ until' # NoTime
                    /\ monitor'.phase = "asleep" => monitor'.wake <= Deadline'
                    /\ now' <= Deadline'
  BY DEF OnTime
<1>1. CASE Advance
  <2>1. /\ until # NoTime /\ monitor.phase = "asleep" /\ monitor.wake <= Deadline
        /\ now + 1 <= monitor.wake /\ monitor.wake \in Nat /\ Deadline \in Nat
    BY <1>1, MonitorPhases, Delays DEF OnTime, Advance, Deadline, TypeOK
  <2>2. Deadline' = Deadline /\ monitor' = monitor /\ now' = now + 1 /\ until' = until /\ now \in Nat
    BY <1>1 DEF Advance, Passes, Deadline, TypeOK
  <2> QED  BY <2>1, <2>2
<1>2. CASE SessionStarts \/ SessionEnds
  BY <1>2 DEF SessionStarts, SessionEnds
<1>3. CASE Edit
  BY <1>3 DEF OnTime, Edit, monitorVars, Deadline
<1>4. CASE Look
  BY <1>4 DEF OnTime, Look, Deadline, ClocksFit, TypeOK
<1>5. CASE SeesNothing \/ SeesNoTip \/ SeesUser
  BY <1>5 DEF SeesNothing, SeesNoTip, SeesUser, Sees, WhoseSession
<1>6. CASE SeesWithdrawal
  BY <1>6, SwitchBegins DEF OnTime, SeesWithdrawal, Sees, Deadline, Reason
<1>7. CASE SeesSlice
  <2>1. /\ session = "tip" /\ refused # NoTime /\ until # NoTime /\ now <= Deadline
        /\ monitor.phase = "looking" /\ monitor.at = now /\ Deadline' = Deadline
        /\ UNCHANGED <<now, until>>
    BY <1>7 DEF OnTime, SeesSlice, Sees, Deadline, ClocksFit
  <2>2. until \in Nat /\ refused \in Nat /\ now \in Nat /\ Sleep + SwitchTime \in Nat
    BY <2>1 DEF TypeOK
  <2>3. CASE now >= until
    BY <1>7, <2>1, <2>3, SwitchBegins DEF SeesSlice, Running, Reason
  <2>4. CASE now < until
    <3>1. monitor'.wake = now + Sleep
      BY <1>7, <2>1, <2>2, <2>4, FallsAsleep DEF SeesSlice
    <3>2. until + (Sleep + SwitchTime) <= Deadline /\ Deadline \in Nat
      BY <2>2, Delays DEF Deadline
    <3> QED  BY <2>1, <2>2, <2>4, <3>1, <3>2
  <2> QED  BY <2>2, <2>3, <2>4
<1>8. CASE SwitchSkipped \/ SwitchStops \/ SwitchNotStarted
  BY <1>8 DEF SwitchSkipped, SwitchStops, SwitchNotStarted, Running, WhoseSession
<1>9. CASE SwitchNotStopped
  BY <1>9, SwitchGoesOn DEF OnTime, SwitchNotStopped, Deadline, Switching
<1>10. CASE SwitchStarts
  BY <1>10, SwitchGoesOn DEF SwitchStarts, Switching
<1>11. CASE SliceBegins
  BY <1>11, FallsAsleep, SliceIsPaid, MonitorPhases DEF SliceBegins, Deadline, ClocksFit, TypeOK
<1>12. CASE SliceOver
  BY <1>12 DEF SliceOver, WhoseSession
<1>13. CASE SliceWithdrawn
  BY <1>13 DEF SliceWithdrawn, WhoseSession
<1>14. CASE SwitchFailed
  <2>1. /\ session = "tip" /\ refused # NoTime /\ until # NoTime /\ now <= Deadline
        /\ refused' = refused + 1 /\ monitor'.wake = now + Sleep /\ UNCHANGED <<now, until>>
    BY <1>14, MonitorPhases, FallsAsleep DEF OnTime, SwitchFailed, WhoseSession, Switching, Reason
  <2>2. until \in Nat /\ refused \in Nat /\ now \in Nat /\ Sleep + SwitchTime \in Nat
    BY <2>1 DEF TypeOK
  <2>3. Deadline' = until + (Sleep + SwitchTime) * (1 + (refused + 1))
    BY <2>1 DEF Deadline
  <2>4. Deadline' = Deadline + (Sleep + SwitchTime) /\ Deadline \in Nat
    BY <2>2, <2>3, Delays DEF Deadline
  <2> QED  BY <2>1, <2>2, <2>4
<1> QED  BY <1>1, <1>2, <1>3, <1>4, <1>5, <1>6, <1>7, <1>8, <1>9, <1>10, <1>11, <1>12, <1>13, <1>14
         DEF Next, MonitorStep

-----------------------------------------------------------------------------
(* The theorems *)

LEMMA TInvInit == Init => TInv
BY Constants DEF Init, TInv, TypeOK, Monitor, Session, ClocksFit, WhoseSession, IdleIsSeen, PaidFor,
                 Uncounted, Since, OnTime

LEMMA TInvNext == TInv /\ [Next]_tipVars => TInv'
<1> SUFFICES ASSUME TInv, [Next]_tipVars
             PROVE  TInv'
  OBVIOUS
<1>1. CASE Next
  BY <1>1, TypeStep, ClocksStep, WhoseStep, IdleStep, PaidStep, OnTimeStep DEF TInv
<1>2. CASE UNCHANGED tipVars
  BY <1>2 DEF tipVars, TInv, TypeOK, ClocksFit, WhoseSession, IdleIsSeen, PaidFor, Uncounted, Since,
              OnTime, Deadline, Ratio
<1> QED  BY <1>1, <1>2

LEMMA TipInvariance == Spec => []TInv
BY TInvInit, TInvNext, PTL DEF Spec

\* Every variable of the monitor keeps its type.
THEOREM TipTyped == Spec => []TypeOK
<1>1. TInv => TypeOK
  BY DEF TInv
<1> QED  BY <1>1, TipInvariance, PTL

\* For every percentage, every lengths of the slices, the sleep and the restart, and
\* whatever stops, starts, fails or is edited in between: the slices granted to the
\* developer never exceed the share of the time they are taken from.
THEOREM ShareIsFair == Spec => []FairShare
<1>1. TInv => FairShare
  <2> SUFFICES ASSUME TInv
               PROVE  FairShare
    OBVIOUS
  <2>1. TypeOK /\ ClocksFit /\ PaidFor
    BY DEF TInv
  <2>2. /\ credit \in Nat /\ Uncounted * TipPercent \in Nat /\ granted * Ratio \in Nat
        /\ earned * TipPercent \in Nat
    BY <2>1, UncountedTyped, Constants, Products DEF TypeOK
  <2> QED  BY <2>1, <2>2 DEF PaidFor, FairShare
<1> QED  BY <1>1, TipInvariance, PTL

\* A slice ends on time: its end is recorded while it runs, and the monitor, with its
\* sleep, the restart it may be in and one of each for every return that failed, never
\* leaves it running later than that.
THEOREM SlicesEnd == Spec => []TipEndsOnTime
<1>1. TInv => TipEndsOnTime
  BY DEF TInv, OnTime, Deadline, TipEndsOnTime
<1> QED  BY <1>1, TipInvariance, PTL

-----------------------------------------------------------------------------
(* Whom a slice pays *)

LEMMA Least ==
    ASSUME NEW S, S \subseteq Nat, S # {}
    PROVE  \E i \in S : \A j \in S : i <= j
<1>1. PICK i \in S : \A j \in S : <<j, i>> \notin OpToRel(<, Nat)
  BY NatLessThanWellFounded, WFMin, Zenon
<1>2. \A j \in S : ~(j < i)
  BY <1>1 DEF OpToRel
<1> QED  BY <1>2

\* A coin that is detected is one that a hint names.
LEMMA DetectedIsNamed ==
    ASSUME NEW engine, NEW wallet, NEW algorithm, NEW pool,
           Detected(engine, wallet, algorithm, pool) # Unknown
    PROVE  Detected(engine, wallet, algorithm, pool) \in {wallet, algorithm, pool}
<1>1. CASE engine = "peakminer"
  BY <1>1 DEF Detected
<1>2. CASE engine # "peakminer"
  <2> DEFINE hints(i) == {wallet} \cup (IF CoinOrder[i] \in WalletOnly THEN {} ELSE {algorithm, pool})
             named == {i \in DOMAIN CoinOrder : CoinOrder[i] \in hints(i)}
             first == CHOOSE i \in named : \A j \in named : i <= j
  <2>1. named # {} /\ Detected(engine, wallet, algorithm, pool) = CoinOrder[first]
    BY <1>2 DEF Detected
  <2>2. named \subseteq Nat
    BY CoinAssumption
  <2>3. \E i \in named : \A j \in named : i <= j
    <3> HIDE DEF named
    <3> QED  BY <2>1, <2>2, Least
  <2>4. first \in named
    <3> HIDE DEF named
    <3> QED  BY <2>3
  <2>5. CoinOrder[first] \in hints(first)
    <3> HIDE DEF first
    <3> QED  BY <2>4
  <2> HIDE DEF first
  <2> QED  BY <2>1, <2>5
<1> QED  BY <1>1, <1>2

LEMMA TipWalletsArePaid ==
    ASSUME NEW r, TipWalletsOf(r) # Unknown
    PROVE  LET tip == TipWalletsOf(r)
           IN  /\ tip.wallet.owner = "developer"
               /\ tip.wallet.coin \in {r.wallet.coin, r.algorithm, r.pool} \ {Unknown}
               /\ tip.second # Unknown => tip.second.owner = "developer" /\ r.second # Unknown
<1> DEFINE coin == Detected(r.engine, r.wallet.coin, r.algorithm, r.pool)
           second == IF r.second = Unknown THEN Unknown ELSE SecondLeg(r, coin)
<1>1. coin # Unknown /\ TipWalletsOf(r) = [wallet |-> Developer(coin), second |-> second]
  BY DEF TipWalletsOf
<1>2. coin \in {r.wallet.coin, r.algorithm, r.pool}
  BY <1>1, DetectedIsNamed
<1>3. second # Unknown => second.owner = "developer" /\ r.second # Unknown
  BY DEF SecondLeg, Developer
<1> HIDE DEF coin, second
<1> QED  BY <1>1, <1>2, <1>3 DEF Developer

\* For every list of coins and whatever a profile's hints say: a slice pays the developer
\* on every leg, on a network that one of the hints names.
THEOREM SlicesPayTheDeveloper ==
    ASSUME NEW CONSTANT rigs
    PROVE  WalletsInit(rigs) /\ [][PrepareSlice]_tipWalletVars => []SliceIsTheDevelopers
<1> DEFINE Prepared == slice \in {NotYet, TipWalletsOf(rig)}
<1>1. WalletsInit(rigs) => Prepared
  BY DEF WalletsInit
<1>2. Prepared /\ [PrepareSlice]_tipWalletVars => Prepared'
  BY DEF PrepareSlice, tipWalletVars
<1>3. Prepared => SliceIsTheDevelopers
  BY TipWalletsArePaid DEF SliceIsTheDevelopers
<1> HIDE DEF Prepared
<1> QED  BY <1>1, <1>2, <1>3, PTL

=============================================================================
