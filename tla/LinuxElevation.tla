------------------------------ MODULE LinuxElevation ------------------------------
(***************************************************************************)
(* A miner launched as root on Linux: the backend (linux_elevation.rs)     *)
(* starts a launcher, which asks for the administrator's approval and      *)
(* becomes a supervisor running as root (linux-helper/supervisor.rs); the  *)
(* supervisor starts the miner in a process group of its own, reports it   *)
(* on its output, and stops it when the control pipe to the backend is     *)
(* written to or closed, when the record of the grant it was launched      *)
(* under disappears, on a signal, or when the miner has exited.            *)
(*                                                                         *)
(* An attempt is one launcher and what becomes of it.  The backend makes   *)
(* one call at a time, under the lifecycle mutex, but an attempt it has    *)
(* given up may outlive the call.  Time limits (120 s or 15 s for a        *)
(* launch, 6 s for a stop or a cancellation) are steps that may be taken   *)
(* at any time before the answer.                                          *)
(***************************************************************************)
EXTENDS Naturals, FiniteSets

CONSTANTS
    Attempts,      \* the launches that may be about at the same time
    NoAttempt, NoCall,
    Grants,        \* identifiers of stored authorizations
    NoGrant,       \* an interactive launch
    RootBackend    \* TRUE when the backend itself runs as root: it may kill a supervisor

Call == [attempt : Attempts, phase : {"waiting", "cancelling", "stopping"}]

ASSUME ElevationAssumption ==
    /\ NoAttempt \notin Attempts /\ NoCall \notin Call
    /\ NoGrant \notin Grants
    /\ RootBackend \in BOOLEAN

VARIABLES
    helper,    \* where the launcher of each attempt is in its life
    alive,     \* attempts whose miner process runs
    ready,     \* attempts whose supervisor has reported its miner
    shut,      \* attempts whose control pipe the backend has written to or closed
    grantOf,   \* the grant each attempt was launched under
    tracked,   \* the attempt in the backend's process table (ManagedChild)
    call,      \* the launch or stop the backend waits for
    epoch,     \* flips whenever the backend dies: history
    records    \* grants whose record (grant.json) exists

elevVars == <<helper, alive, ready, shut, grantOf, tracked, call, epoch>>

HelperPhase == {"idle", "asking", "checked", "supervising", "stopping", "gone"}

\* Types, and that a miner has its supervisor, which ends after it.
ElevationTypeOK ==
    /\ helper \in [Attempts -> HelperPhase]
    /\ alive \subseteq Attempts /\ ready \subseteq Attempts /\ shut \subseteq Attempts
    /\ grantOf \in [Attempts -> Grants \cup {NoGrant}]
    /\ tracked \in Attempts \cup {NoAttempt}
    /\ call \in Call \cup {NoCall} /\ epoch \in BOOLEAN
    /\ records \subseteq Grants
    /\ \A a \in alive : helper[a] \in {"supervising", "stopping"}

ElevationInit ==
    /\ helper = [a \in Attempts |-> "idle"]
    /\ alive = {} /\ ready = {} /\ shut = {}
    /\ grantOf = [a \in Attempts |-> NoGrant]
    /\ tracked = NoAttempt
    /\ call = NoCall
    /\ epoch = FALSE

Recorded(a) == grantOf[a] = NoGrant \/ grantOf[a] \in records

-----------------------------------------------------------------------------
(* The backend *)

\* spawn_command: a profile that is not running gets a launcher.  An attempt that
\* is over may stand for the new one.
Launch(a, g) ==
    /\ call = NoCall /\ tracked = NoAttempt
    /\ helper[a] \in {"idle", "gone"}
    /\ helper' = [helper EXCEPT ![a] = "asking"]
    /\ ready' = ready \ {a} /\ shut' = shut \ {a}
    /\ grantOf' = [grantOf EXCEPT ![a] = g]
    /\ call' = [attempt |-> a, phase |-> "waiting"]
    /\ UNCHANGED <<alive, tracked, epoch>>

Waiting(a, phase) == call = [attempt |-> a, phase |-> phase]

\* The supervisor has reported its miner: the launch succeeds, whatever has
\* become of the miner since.
LaunchSucceeds(a) ==
    /\ Waiting(a, "waiting") /\ a \in ready
    /\ tracked' = a
    /\ call' = NoCall
    /\ UNCHANGED <<helper, alive, ready, shut, grantOf, epoch>>

\* Mutation: a launch given up leaves its control pipe open.
GiveUpPipeOpen(a) ==
    /\ Waiting(a, "waiting")
    /\ call' = [call EXCEPT !.phase = "cancelling"]
    /\ UNCHANGED <<helper, alive, ready, shut, grantOf, tracked, epoch>>

\* The launcher ended without a report, or the time is over (a report already
\* on its way is then lost): the pipe is closed first.
GiveUp(a) ==
    /\ Waiting(a, "waiting")
    /\ shut' = shut \cup {a}
    /\ call' = [call EXCEPT !.phase = "cancelling"]
    /\ UNCHANGED <<helper, alive, ready, grantOf, tracked, epoch>>

\* cancel_launcher: the launcher is killed after 3 s, which a backend that is
\* not root can do until the launcher has become the supervisor.  A supervisor
\* that is killed takes its miner along (PR_SET_PDEATHSIG).
CancelKills(a) ==
    /\ Waiting(a, "cancelling")
    /\ helper[a] = "asking" \/ (RootBackend /\ helper[a] # "gone")
    /\ helper' = [helper EXCEPT ![a] = "gone"]
    /\ alive' = alive \ {a}
    /\ UNCHANGED <<ready, shut, grantOf, tracked, call, epoch>>

\* The call returns its error once the launcher has gone, or after 6 s all the
\* same; nothing tracks the attempt from then on.
CancelReturns(a) ==
    /\ Waiting(a, "cancelling")
    /\ helper[a] # "asking"
    /\ call' = NoCall
    /\ UNCHANGED <<helper, alive, ready, shut, grantOf, tracked, epoch>>

\* linux_elevation::stop: a line on the pipe, which is then closed.
Stop(a) ==
    /\ call = NoCall /\ tracked = a
    /\ shut' = shut \cup {a}
    /\ call' = [attempt |-> a, phase |-> "stopping"]
    /\ UNCHANGED <<helper, alive, ready, grantOf, tracked, epoch>>

\* Mutation: a stop is confirmed as soon as the supervisor has been told.
StopConfirmedEarly(a) ==
    /\ Waiting(a, "stopping") /\ a \in shut
    /\ tracked' = NoAttempt
    /\ call' = NoCall
    /\ UNCHANGED <<helper, alive, ready, shut, grantOf, epoch>>

StopConfirmed(a) ==
    /\ Waiting(a, "stopping") /\ helper[a] = "gone"
    /\ tracked' = NoAttempt
    /\ call' = NoCall
    /\ UNCHANGED <<helper, alive, ready, shut, grantOf, epoch>>

\* After 6 s the stop fails; the supervisor stays tracked.
StopUnconfirmed(a) ==
    /\ Waiting(a, "stopping") /\ helper[a] # "gone"
    /\ call' = NoCall
    /\ UNCHANGED <<helper, alive, ready, shut, grantOf, tracked, epoch>>

\* refresh_processes has seen the supervisor's exit.
Refresh(a) ==
    /\ call = NoCall /\ tracked = a /\ helper[a] = "gone"
    /\ tracked' = NoAttempt
    /\ UNCHANGED <<helper, alive, ready, shut, grantOf, call, epoch>>

\* The backend dies, and every pipe it held is closed with it.
BackendDies ==
    /\ shut' = {a \in Attempts : helper[a] # "idle"}
    /\ tracked' = NoAttempt
    /\ call' = NoCall
    /\ epoch' = ~epoch
    /\ UNCHANGED <<helper, alive, ready, grantOf>>

-----------------------------------------------------------------------------
(* The launcher and the supervisor it becomes *)

HelperBecomes(a, from, to) == helper[a] = from /\ helper' = [helper EXCEPT ![a] = to]

helperRest == <<ready, shut, grantOf, tracked, call, epoch>>

\* The dialog is declined, or polkit refuses.
Denied(a) == HelperBecomes(a, "asking", "gone") /\ UNCHANGED <<alive, helperRest>>

\* Approval has come: the helper refuses when the pipe is no longer open, or
\* when the record of its grant is missing or does not allow the launch; what
\* the grant allows is `approved`.
HelperStarts(a, approved) ==
    /\ HelperBecomes(a, "asking",
                     IF a \notin shut /\ Recorded(a) /\ approved THEN "checked" ELSE "gone")
    /\ UNCHANGED <<alive, helperRest>>

\* The miner is started and reported, or cannot be.
SpawnMiner(a) ==
    /\ HelperBecomes(a, "checked", "supervising")
    /\ alive' = alive \cup {a}
    /\ ready' = ready \cup {a}
    /\ UNCHANGED <<shut, grantOf, tracked, call, epoch>>

SpawnFails(a) == HelperBecomes(a, "checked", "gone") /\ UNCHANGED <<alive, helperRest>>

\* Mutation: the supervisor does not look at the record of its grant.
SupervisorStopsByPipe(a) ==
    /\ HelperBecomes(a, "supervising", "stopping")
    /\ a \in shut \/ a \notin alive
    /\ UNCHANGED <<alive, helperRest>>

\* One round of the supervisor's loop that finds a reason to stop.
SupervisorStops(a) ==
    /\ HelperBecomes(a, "supervising", "stopping")
    /\ a \in shut \/ ~Recorded(a) \/ a \notin alive
    /\ UNCHANGED <<alive, helperRest>>

\* SIGTERM, SIGINT or SIGHUP.
SupervisorSignalled(a) ==
    HelperBecomes(a, "supervising", "stopping") /\ UNCHANGED <<alive, helperRest>>

\* Mutation: the group is asked to end, and not killed when it does not.
StopGroupAsks(a) == HelperBecomes(a, "stopping", "gone") /\ UNCHANGED <<alive, helperRest>>

\* stop_group: TERM, and KILL after 2 s; the supervisor ends after the miner.
StopGroup(a) ==
    /\ HelperBecomes(a, "stopping", "gone")
    /\ alive' = alive \ {a}
    /\ UNCHANGED helperRest

\* Something kills the supervisor, and the kernel its miner (PR_SET_PDEATHSIG).
SupervisorKilled(a) ==
    /\ helper[a] \in {"supervising", "stopping"}
    /\ helper' = [helper EXCEPT ![a] = "gone"]
    /\ alive' = alive \ {a}
    /\ UNCHANGED helperRest

MinerExits(a) == a \in alive /\ alive' = alive \ {a} /\ UNCHANGED <<helper, helperRest>>

-----------------------------------------------------------------------------
BackendStep(a) ==
    \/ LaunchSucceeds(a) \/ GiveUp(a) \/ CancelKills(a) \/ CancelReturns(a)
    \/ Stop(a) \/ StopConfirmed(a) \/ StopUnconfirmed(a) \/ Refresh(a)

SupervisorStep(a) == SpawnMiner(a) \/ SpawnFails(a) \/ SupervisorStops(a) \/ StopGroup(a)

Interference(a) == Denied(a) \/ SupervisorSignalled(a) \/ SupervisorKilled(a) \/ MinerExits(a)

\* A started supervisor goes on; nobody owes an approval.
SupervisorFairness == \A a \in Attempts : WF_elevVars(SupervisorStep(a))

\* The launches by themselves: grants may be revoked at any time, and what a
\* grant allows is left open.
ElevationNext ==
    \/ /\ \/ \E a \in Attempts, g \in Grants \cup {NoGrant} : Launch(a, g)
          \/ \E a \in Attempts, approved \in BOOLEAN : HelperStarts(a, approved)
          \/ \E a \in Attempts : BackendStep(a) \/ SupervisorStep(a) \/ Interference(a)
          \/ BackendDies
       /\ UNCHANGED records
    \/ \E g \in Grants : records' = records \ {g} /\ UNCHANGED elevVars

LaunchesInit == ElevationInit /\ records = Grants

ElevationSpec == /\ LaunchesInit
                 /\ [][ElevationNext]_<<elevVars, records>>
                 /\ SupervisorFairness

-----------------------------------------------------------------------------
\* Every miner that runs as root is the session's, or the one being launched, or
\* its supervisor has already been told to end it: whatever timed out, failed or
\* crashed, no root miner is both forgotten and left running.
NoForgottenMiner ==
    \A a \in alive : \/ tracked = a
                     \/ call # NoCall /\ call.attempt = a
                     \/ a \in shut
                     \/ helper[a] = "stopping"

SessionState ==
    [a \in Attempts |->
        IF helper[a] = "idle" THEN "new"
        ELSE IF tracked = a THEN "running"
        ELSE IF call = [attempt |-> a, phase |-> "waiting"] THEN "starting"
        ELSE IF helper[a] = "gone" THEN "over" ELSE "doomed"]

\* A miner whose grant has been revoked is stopped, also one whose launch was
\* under way when the record disappeared.
RevokedMinerEnds ==
    \A a \in Attempts : (a \in alive /\ ~Recorded(a)) ~> a \notin alive

Abstract == INSTANCE RootSession WITH state <- SessionState, mining <- alive

\* The protocol of pipes, reports and time limits implements RootSession: a stop
\* that is confirmed has ended the miner, a launch that fails has left nothing or
\* something that soon ends, and so has a backend that dies.
ImplementsRootSession == Abstract!Spec
=============================================================================
