------------------------------- MODULE RootSession -------------------------------
(***************************************************************************)
(* What an elevated launch promises to the code that asks for it: the      *)
(* abstract specification LinuxElevation implements, and what              *)
(* MinerLifecycle takes a process with a `root` profile to be.             *)
(*                                                                         *)
(* An attempt is either answered with a running miner, which is then the   *)
(* session, or given up.  A session ends when its miner has ended, never   *)
(* before, unless the backend itself dies.  An attempt given up, or left   *)
(* behind by a backend that died, is doomed: if it mines at all it soon    *)
(* stops, and when it is over it does not mine until it is begun anew.     *)
(***************************************************************************)
EXTENDS Naturals

CONSTANT Attempts   \* launches, asked for one after the other

VARIABLES
    state,    \* what each attempt is for the code that asked for it
    mining,   \* attempts whose miner runs
    epoch     \* flips whenever the backend dies

vars == <<state, mining, epoch>>

Current == {a \in Attempts : state[a] \in {"starting", "running"}}

Init == /\ state = [a \in Attempts |-> "new"]
        /\ mining = {}
        /\ epoch = FALSE

Become(a, from, to) ==
    state[a] \in from /\ state' = [state EXCEPT ![a] = to] /\ UNCHANGED epoch

Begin(a) == Current = {} /\ Become(a, {"new", "over"}, "starting") /\ UNCHANGED mining

Mines(a) == /\ state[a] \in {"starting", "doomed"}
            /\ mining' = mining \cup {a}
            /\ UNCHANGED <<state, epoch>>

Succeeds(a) == Become(a, {"starting"}, "running") /\ UNCHANGED mining

\* The launch failed or timed out.
GivenUp(a) == Become(a, {"starting"}, "doomed") /\ UNCHANGED mining

BackendDies ==
    /\ \E over \in SUBSET (Current \ mining) :
           state' = [a \in Attempts |-> IF a \in over THEN "over"
                                       ELSE IF a \in Current THEN "doomed" ELSE state[a]]
    /\ epoch' = ~epoch
    /\ UNCHANGED mining

\* The launch failed and has left nothing, or the session's end was seen.
Ended(a) == a \notin mining /\ Become(a, {"starting", "running"}, "over") /\ UNCHANGED mining

StopsMining(a) == a \in mining /\ mining' = mining \ {a} /\ UNCHANGED <<state, epoch>>

DoomedEnds(a) == Become(a, {"doomed"}, "over") /\ mining' = mining \ {a}

DoomedMinerEnds(a) == state[a] = "doomed" /\ a \in mining /\ mining' = mining \ {a}

Next == \/ BackendDies
        \/ \E a \in Attempts : \/ Begin(a) \/ Mines(a) \/ Succeeds(a) \/ GivenUp(a)
                               \/ Ended(a) \/ StopsMining(a) \/ DoomedEnds(a)

Spec == /\ Init
        /\ [][Next]_vars
        /\ \A a \in Attempts : WF_vars(DoomedMinerEnds(a) /\ (DoomedEnds(a) \/ StopsMining(a)))
=============================================================================
