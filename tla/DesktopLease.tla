------------------------------- MODULE DesktopLease -------------------------------
(***************************************************************************)
(* How long a backend that Desktops own lives (lib.rs): every Desktop      *)
(* process holds a lease under its PID, renewed by heartbeats; a Desktop   *)
(* that leaves asks for a shutdown; a watchdog releases the leases of      *)
(* Desktops that vanished and stops the backend when none is left.         *)
(*                                                                         *)
(* The requests of a Desktop travel on connections of their own, so they   *)
(* may be handled in any order, late, or never.  The watchdog probes a     *)
(* process without holding the lock on the leases.                         *)
(***************************************************************************)
EXTENDS Naturals

CONSTANTS
    Desktops,     \* PIDs of Desktop processes; none is used twice
    Grace,        \* seconds of silence before a process is probed: 15 in the code
    ProbeMayFail  \* whether a probe may be inconclusive (PowerShell, on Windows)

ASSUME LeaseAssumption == Grace \in Nat \ {0} /\ ProbeMayFail \in BOOLEAN

VARIABLES
    process,      \* the life of each Desktop process
    beats,        \* Desktops with a heartbeat request under way
    farewells,    \* Desktops with a shutdown request under way
    everAttached, \* some Desktop has ever attached
    clients,      \* Desktops that hold a lease
    silence,      \* seconds since the last heartbeat of each lease, up to Grace
    watchdog,     \* where the watchdog thread is
    stale,        \* leases the watchdog still has to look at in this round
    probed,       \* the process it has probed, and the answer
    backend,      \* "stopping" from the decision to stop until the process exits
    attached      \* history: Desktops whose heartbeat was ever accepted

desktopVars == <<process, beats, farewells>>
leaseVars == <<everAttached, clients, silence, attached>>
watchdogVars == <<watchdog, stale, probed>>
vars == <<desktopVars, leaseVars, watchdogVars, backend>>

Answers == {"alive", "dead", "unknown"}
NotProbed == [pid |-> {}, answer |-> "unknown"]

TypeOK ==
    /\ process \in [Desktops -> {"absent", "running", "leaving", "gone"}]
    /\ beats \subseteq Desktops /\ farewells \subseteq Desktops
    /\ everAttached \in BOOLEAN
    /\ clients \subseteq Desktops
    /\ silence \in [Desktops -> 0 .. Grace]
    /\ watchdog \in {"asleep", "collected", "probed", "stopping"}
    /\ stale \subseteq Desktops
    /\ probed \in [pid: {{}} \cup {{d} : d \in Desktops}, answer: Answers]
    /\ watchdog = "probed" <=> probed.pid # {}
    /\ backend \in {"up", "stopping", "gone"}
    /\ watchdog = "stopping" => backend # "up"
    /\ clients \subseteq attached /\ attached \subseteq Desktops
    /\ everAttached <=> attached # {}

Init ==
    /\ process = [d \in Desktops |-> "absent"]
    /\ beats = {} /\ farewells = {}
    /\ everAttached = FALSE /\ clients = {} /\ attached = {}
    /\ silence = [d \in Desktops |-> 0]
    /\ watchdog = "asleep" /\ stale = {} /\ probed = NotProbed
    /\ backend = "up"

Serving == backend # "gone"

-----------------------------------------------------------------------------
(* The Desktop processes *)

Launch(d) ==
    /\ process[d] = "absent"
    /\ process' = [process EXCEPT ![d] = "running"]
    /\ UNCHANGED <<beats, farewells, leaseVars, watchdogVars, backend>>

\* The heartbeat thread writes a request every two seconds and reads no answer.
SendBeat(d) ==
    /\ process[d] = "running" /\ d \notin beats
    /\ beats' = beats \cup {d}
    /\ UNCHANGED <<process, farewells, leaseVars, watchdogVars, backend>>

\* A Desktop that exits asks for a shutdown once, and sends no more heartbeats.
Leave(d) ==
    /\ process[d] = "running"
    /\ process' = [process EXCEPT ![d] = "leaving"]
    /\ farewells' = farewells \cup {d}
    /\ UNCHANGED <<beats, leaseVars, watchdogVars, backend>>

Vanish(d) ==
    /\ process[d] \in {"running", "leaving"}
    /\ process' = [process EXCEPT ![d] = "gone"]
    /\ UNCHANGED <<beats, farewells, leaseVars, watchdogVars, backend>>

-----------------------------------------------------------------------------
(* The handlers of the backend *)

Heartbeat(d) ==
    /\ Serving /\ d \in beats
    /\ beats' = beats \ {d}
    /\ everAttached' = TRUE
    /\ clients' = clients \cup {d}
    /\ silence' = [silence EXCEPT ![d] = 0]
    /\ attached' = attached \cup {d}
    /\ UNCHANGED <<process, farewells, watchdogVars, backend>>

\* Mutation: the leases of other Desktops are not looked at.
ShutdownAtOnce(d) ==
    /\ Serving /\ d \in farewells
    /\ farewells' = farewells \ {d}
    /\ clients' = clients \ {d}
    /\ backend' = "stopping"
    /\ UNCHANGED <<process, beats, everAttached, silence, attached, watchdogVars>>

\* The lease of the leaving Desktop ends; the backend stops unless another one
\* is held at this moment.
Shutdown(d) ==
    /\ Serving /\ d \in farewells
    /\ farewells' = farewells \ {d}
    /\ clients' = clients \ {d}
    /\ backend' = IF clients' # {} THEN backend ELSE "stopping"
    /\ UNCHANGED <<process, beats, everAttached, silence, attached, watchdogVars>>

\* Every miner is stopped, which may have to wait for a launch, then the
\* process exits.  Requests are answered until then.
Exits ==
    /\ backend = "stopping"
    /\ backend' = "gone"
    /\ UNCHANGED <<desktopVars, leaseVars, watchdogVars>>

-----------------------------------------------------------------------------
(* The watchdog thread *)

Collect ==
    /\ Serving /\ watchdog = "asleep" /\ everAttached
    /\ watchdog' = "collected"
    /\ stale' = {d \in clients : silence[d] >= Grace}
    /\ UNCHANGED <<desktopVars, leaseVars, probed, backend>>

ProbeAnswers(d, answer) ==
    /\ Serving /\ watchdog = "collected" /\ d \in stale
    /\ watchdog' = "probed"
    /\ stale' = stale \ {d}
    /\ probed' = [pid |-> {d}, answer |-> answer]
    /\ UNCHANGED <<desktopVars, leaseVars, backend>>

Probe(d) == ProbeAnswers(d, IF process[d] = "gone" THEN "dead" ELSE "alive")
ProbeFails(d) == ProbeMayFail /\ ProbeAnswers(d, "unknown")

\* Mutation: an inconclusive probe counts as a dead process.
JudgeUnknownDead ==
    /\ Serving /\ watchdog = "probed"
    /\ watchdog' = "collected"
    /\ probed' = NotProbed
    /\ LET silent == {d \in probed.pid \cap clients : silence[d] >= Grace}
       IN  IF probed.answer # "alive"
           THEN clients' = clients \ silent /\ UNCHANGED silence
           ELSE /\ silence' = [d \in Desktops |-> IF d \in silent THEN 0 ELSE silence[d]]
                /\ UNCHANGED clients
    /\ UNCHANGED <<desktopVars, everAttached, attached, stale, backend>>

\* Mutation: a dead process is left in the table.
JudgeKeeps ==
    /\ Serving /\ watchdog = "probed"
    /\ watchdog' = "collected"
    /\ probed' = NotProbed
    /\ silence' = [d \in Desktops |->
                       IF d \in probed.pid \cap clients THEN 0 ELSE silence[d]]
    /\ UNCHANGED <<desktopVars, everAttached, clients, attached, stale, backend>>

\* Under the lock again: a lease that is still silent ends if its process is dead,
\* and is given another period of grace if it is not, or if nobody knows.
Judge ==
    /\ Serving /\ watchdog = "probed"
    /\ watchdog' = "collected"
    /\ probed' = NotProbed
    /\ LET silent == {d \in probed.pid \cap clients : silence[d] >= Grace}
       IN  IF probed.answer = "dead"
           THEN clients' = clients \ silent /\ UNCHANGED silence
           ELSE /\ silence' = [d \in Desktops |-> IF d \in silent THEN 0 ELSE silence[d]]
                /\ UNCHANGED clients
    /\ UNCHANGED <<desktopVars, everAttached, attached, stale, backend>>

\* The end of a round: without any lease the backend is stopped.
Decide ==
    /\ Serving /\ watchdog = "collected" /\ stale = {}
    /\ IF clients = {} THEN watchdog' = "stopping" /\ backend' = "stopping"
                       ELSE watchdog' = "asleep" /\ UNCHANGED backend
    /\ UNCHANGED <<desktopVars, leaseVars, stale, probed>>

SecondPasses ==
    /\ \E d \in clients : silence[d] < Grace
    /\ silence' = [d \in Desktops |->
                       IF d \in clients /\ silence[d] < Grace
                       THEN silence[d] + 1 ELSE silence[d]]
    /\ UNCHANGED <<desktopVars, everAttached, clients, attached, watchdogVars, backend>>

-----------------------------------------------------------------------------
Next ==
    \/ \E d \in Desktops :
           \/ Launch(d) \/ SendBeat(d) \/ Leave(d) \/ Vanish(d)
           \/ Heartbeat(d) \/ Shutdown(d)
           \/ Probe(d) \/ ProbeFails(d)
    \/ Exits \/ Collect \/ Judge \/ Decide \/ SecondPasses

Spec == Init /\ [][Next]_vars

\* The watchdog thread runs, time passes, stopping ends, and a probe is not
\* inconclusive for ever.  A Desktop that is leaving exits; one that runs owes
\* nothing, neither a heartbeat nor an end.
Fairness ==
    /\ WF_vars(Collect) /\ WF_vars(Judge) /\ WF_vars(Decide)
    /\ WF_vars(SecondPasses) /\ WF_vars(Exits)
    /\ \A d \in Desktops : SF_vars(Probe(d)) /\ WF_vars(process[d] = "leaving" /\ Vanish(d))

FairSpec == Spec /\ Fairness

-----------------------------------------------------------------------------
\* A Desktop that ever attached keeps its lease for as long as its process runs:
\* neither a gap in its heartbeats, however long, nor a probe that fails, nor the
\* departure of another Desktop takes it away.
RunningKeepsLease ==
    \A d \in attached : process[d] = "running" => d \in clients

\* The decision to stop the miners is only taken when no Desktop that attached is
\* still running, whichever of the two places takes it.
StopsOnlyAbandoned ==
    [][backend = "up" /\ backend' = "stopping" =>
           \A d \in attached : process[d] # "running"]_vars

\* A backend is never torn down under a Desktop that attached and runs.
NoDesktopLosesBackend ==
    [][backend' = "gone" /\ backend # "gone" =>
           \A d \in attached : process[d] # "running"]_vars

\* A backend whose Desktops have all gone, with or without a farewell, is stopped
\* some time, unless another Desktop comes up.
AbandonedBackendStops ==
    (everAttached /\ \A d \in Desktops : process[d] # "running")
        ~> (backend = "gone" \/ \E d \in Desktops : process[d] = "running")

=============================================================================
