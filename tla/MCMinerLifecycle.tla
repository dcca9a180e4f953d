----------------------------- MODULE MCMinerLifecycle -----------------------------
(* Small instances of MinerLifecycle: four-second days, a window inside the day *)
(* and one over midnight that overlaps it.                                      *)
EXTENDS MinerLifecycle

CONSTANTS m1, m2, s1, s2, g1, g2

EveryDay == 1 .. 7

Rig(gpus, root) == [enabled |-> TRUE, gpus |-> gpus, overlap |-> FALSE, root |-> root]

Rule(start, end, miners, suspends) ==
    [enabled |-> TRUE, days |-> EveryDay, start |-> start, end |-> end,
     miners |-> miners, suspends |-> suspends]

Document(p1, p2, w1, w2) ==
    [miners |-> [m \in Miners |-> IF m = m1 THEN p1 ELSE p2],
     schedules |-> [s \in Schedules |-> IF s = s1 THEN w1 ELSE w2]]

Day == Rule(1, 3, {m1}, TRUE)
Night == Rule(2, 1, {m1, m2}, FALSE)

\* Two profiles on two GPUs, the second one elevated.
TwoRigs == {Document(Rig({g1}, FALSE), Rig({g2}, TRUE), Day, Night)}

\* Two profiles on one GPU, whose windows follow each other.
HandOver == {Document(Rig({g1}, FALSE), Rig(AllGpus, FALSE),
                      Rule(1, 2, {m1}, FALSE), Rule(2, 1, {m2}, FALSE))}

\* An elevated profile that may be disabled, and a window that may be removed.
RootEdits == {Document([Rig({g1}, TRUE) EXCEPT !.enabled = e], NoProfile, w, NoWindow) :
              e \in BOOLEAN, w \in {Day, NoWindow}}

\* The same profile, always enabled.
RootDays == {d \in RootEdits : d.miners[m1].enabled}
=============================================================================
