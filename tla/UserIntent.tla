-------------------------------- MODULE UserIntent --------------------------------
(***************************************************************************)
(* MinerLifecycle with a memory of what the user asked for.  The program   *)
(* keeps its holds in a table it prunes, saves, loses in a crash and reads *)
(* again; the two history variables here only change when the user speaks. *)
(***************************************************************************)
EXTENDS MinerLifecycle

VARIABLES
    stopped,        \* occurrences the user stopped, since the last successful start
    acknowledged    \* those of them for which a Stop was answered with success

intentVars == <<stopped, acknowledged>>
allVars == <<vars, intentVars>>

IntentInit == /\ Init
              /\ stopped = [m \in Miners |-> {}]
              /\ acknowledged = [m \in Miners |-> {}]

\* The answer to a Stop of the profiles S: an error when the changed table was
\* not written or a process did not confirm.
Answered(S) == /\ holds' = holds \/ savedHolds' = holds'
               /\ \A m \in S : child'[m] = NoChild

Heard(mem, S) ==
    LET active == ScheduleOccurrences(cfg, now)
    IN  [m \in Miners |-> IF m \in S THEN mem[m] \cup active[m] ELSE mem[m]]

HearStop(S) ==
    /\ stopped' = Heard(stopped, S)
    /\ acknowledged' = IF Answered(S) THEN Heard(acknowledged, S) ELSE acknowledged

HearUnanswered(S) == stopped' = Heard(stopped, S) /\ UNCHANGED acknowledged

HearStart(m) == /\ stopped' = [stopped EXCEPT ![m] = {}]
                /\ acknowledged' = [acknowledged EXCEPT ![m] = {}]

SpokenStep ==
    \/ \E m \in Miners : StopManually(m) /\ HearStop({m})
    \/ StopAllManually /\ HearStop(Miners)
    \/ \E m \in Miners : StopCutShort(m) /\ HearUnanswered({m})
    \/ StopAllCutShort /\ HearUnanswered(Miners)
    \/ \E m \in Miners : StartWaits(m) /\ HearStart(m)
    \/ /\ AlreadyRunning \/ SpawnSucceeds
       /\ launch.by \in {"start", "force"}
       /\ HearStart(launch.miner)

SilentStep ==
    /\ \/ \E m \in Miners, restart \in BOOLEAN : StartOrRestart(m, restart)
       \/ \E m \in Miners : ForceStart(m)
       \/ CancelPowerAction
       \/ (AlreadyRunning \/ SpawnSucceeds) /\ launch.by \in {"tick", "tip"}
       \/ BeginSpawn \/ LaunchFails
       \/ SchedulerStep
       \/ \E m \in Miners, tip \in BOOLEAN : TipSwitch(m, tip)
       \/ BackendLife \/ Environment
    /\ UNCHANGED intentVars

IntentSpec == IntentInit /\ [][SpokenStep \/ SilentStep]_allVars

-----------------------------------------------------------------------------
\* A Stop outlasts everything but its occurrence and the user: while any of the
\* dated occurrences a user stopped is still open, the profile has no process,
\* across scheduler passes, wallet switches, overlapping windows, refused
\* restarts, shutdowns, crashes and reloads of the saved holds.
StopWins ==
    \A m \in Miners :
        stopped[m] \cap ScheduleOccurrences(cfg, now)[m] # {} => child[m] = NoChild

\* A Stop answered with success is on disk: the hold of an occurrence that is
\* still open would be found again after a crash.
AcknowledgedStopIsSaved ==
    \A m \in Miners :
        acknowledged[m] \cap ScheduleOccurrences(cfg, now)[m] # {} =>
            savedHolds[m] \cap ScheduleOccurrences(cfg, now)[m] # {}

=============================================================================
