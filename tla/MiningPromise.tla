------------------------------ MODULE MiningPromise ------------------------------
(***************************************************************************)
(* What the commands of a profile and its windows promise to whoever looks *)
(* only at which profiles mine: the abstract specification MinerLifecycle  *)
(* implements as long as stops are confirmed and holds can be written.     *)
(*                                                                         *)
(* A Stop bars the program, not the user, from the occurrences that are    *)
(* open.  What is barred is forgotten as it closes, or when the user has   *)
(* the profile mining or waiting again; a request that is refused forgets  *)
(* nothing.  Mining may end at any moment; it begins at the user's request *)
(* or, for a profile that is not barred, by itself.  Passes, the two       *)
(* tables, the file of the holds, shutdowns, crashes and restarts are      *)
(* nothing here but the end of some mining and of the requests.            *)
(***************************************************************************)
CONSTANTS
    Profiles,
    Occurrences    \* dated occurrences of windows

VARIABLES
    mines,     \* the profiles that mine
    asked,     \* the profiles the user has asked to start
    barred,    \* of each profile, the occurrences a Stop was about
    open       \* of each profile, the occurrences that are open

vars == <<mines, asked, barred, open>>

Init == /\ mines = {}
        /\ asked = {}
        /\ barred = [p \in Profiles |-> {}]
        /\ open \in [Profiles -> SUBSET Occurrences]

\* A Start, a Force, or a Restart, which first stops what runs.
UserAsks(p) ==
    /\ asked' = asked \cup {p}
    /\ mines' \in {mines, mines \ {p}}
    /\ UNCHANGED <<barred, open>>

UserStarts(p) ==
    /\ p \in asked
    /\ asked' = asked \ {p}
    /\ mines' = mines \cup {p}
    /\ barred' = [barred EXCEPT ![p] = {}]
    /\ UNCHANGED open

UserIsRefused(p) == asked' = asked \ {p} /\ UNCHANGED <<mines, barred, open>>

\* A Start or a Restart outside every window of a scheduled profile.
UserWaits(p) ==
    /\ open[p] = {}
    /\ mines' = mines \ {p}
    /\ barred' = [barred EXCEPT ![p] = {}]
    /\ UNCHANGED <<asked, open>>

Barring(S) == [p \in Profiles |-> IF p \in S /\ open[p] # {} THEN open[p] ELSE barred[p]]

\* Stop and Stop all: outside every window a Stop leaves what is barred.
UserStops(S) ==
    /\ mines' = mines \ S
    /\ barred' = Barring(S)
    /\ UNCHANGED <<asked, open>>

\* A pass of the scheduler, or the return from a change of wallets.
ProgramStarts(p) ==
    /\ barred[p] = {}
    /\ mines' = mines \cup {p}
    /\ UNCHANGED <<asked, barred, open>>

\* A window has ended, a process has exited or is being replaced, the program leaves.
MiningEnds(S) == mines' = mines \ S /\ UNCHANGED <<asked, barred, open>>

\* A crash; the Stop of S it may have cut short is done or has left no trace.
BackendDies(S) ==
    /\ mines' = {} /\ asked' = {}
    /\ barred' = Barring(S)
    /\ UNCHANGED open

ClosedIsForgotten ==
    /\ barred' = [p \in Profiles |-> barred[p] \cap open[p]]
    /\ UNCHANGED <<mines, asked, open>>

\* The clock moves on or is set back, or the windows are edited.
WindowsChange ==
    /\ open' \in [Profiles -> SUBSET Occurrences]
    /\ UNCHANGED <<mines, asked, barred>>

Next == \/ WindowsChange \/ ClosedIsForgotten
        \/ \E p \in Profiles : \/ UserAsks(p) \/ UserStarts(p) \/ UserIsRefused(p)
                               \/ UserWaits(p) \/ ProgramStarts(p)
        \/ \E S \in SUBSET Profiles : MiningEnds(S) \/ UserStops(S) \/ BackendDies(S)

Spec == Init /\ [][Next]_vars
=============================================================================
