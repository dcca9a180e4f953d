------------------------- MODULE LinuxAuthorization_proofs -------------------------
(***************************************************************************)
(* The safety of elevated launches and of stored authorizations, for any   *)
(* number of overlapping attempts, grants, settings and contents of the    *)
(* miner folder, under every fault and whether or not the backend is root. *)
(* First the launches by themselves: no root miner is forgotten, and every *)
(* step of the protocol is a step of RootSession or leaves it unchanged.   *)
(* Then the grants: what runs under one is what was reviewed, and one      *)
(* enters the configuration only through its review.  The invariant of the *)
(* launches carries over, for every step there is a step of the protocol.  *)
(***************************************************************************)
EXTENDS LinuxAuthorization, TLAPS

-----------------------------------------------------------------------------
(* The launches: LinuxElevation *)

\* The types without the store of records, which belongs to whoever owns it.
ProtocolTypes ==
    /\ helper \in [Attempts -> HelperPhase]
    /\ alive \subseteq Attempts /\ ready \subseteq Attempts /\ shut \subseteq Attempts
    /\ grantOf \in [Attempts -> Grants \cup {NoGrant}]
    /\ tracked \in Attempts \cup {NoAttempt}
    /\ call \in Call \cup {NoCall} /\ epoch \in BOOLEAN
    /\ \A a \in alive : helper[a] \in {"supervising", "stopping"}

\* A call waits for an attempt that has begun; only a stop has a session, and
\* whatever is being cancelled or stopped has been told so.
CallIsAbout ==
    call # NoCall =>
        /\ helper[call.attempt] # "idle"
        /\ call.phase = "stopping" => tracked = call.attempt
        /\ call.phase # "stopping" => tracked = NoAttempt
        /\ call.phase # "waiting" => call.attempt \in shut

\* A report, and with it a session, comes from a supervisor.
ReportsAreTrue ==
    /\ \A a \in ready : helper[a] \in {"supervising", "stopping", "gone"}
    /\ tracked # NoAttempt => tracked \in ready

\* A launcher that may still start or run a miner is the session's, or is waited
\* for, or has been told to end.
Watched ==
    \A a \in Attempts :
        helper[a] \in {"asking", "checked", "supervising"} =>
            tracked = a \/ (call # NoCall /\ call.attempt = a) \/ a \in shut

ProtocolInv == ProtocolTypes /\ CallIsAbout /\ ReportsAreTrue /\ Watched

\* What the backend, a launcher or the kernel may do, whoever owns the records.
ProtocolStep ==
    \/ \E a \in Attempts, g \in Grants \cup {NoGrant} : Launch(a, g)
    \/ \E a \in Attempts, approved \in BOOLEAN : HelperStarts(a, approved)
    \/ \E a \in Attempts : BackendStep(a) \/ SupervisorStep(a) \/ Interference(a)
    \/ BackendDies
    \/ UNCHANGED elevVars

-----------------------------------------------------------------------------
LEMMA BackendKeepsInv ==
    ASSUME ProtocolInv, NEW a \in Attempts, BackendStep(a)
    PROVE  ProtocolInv'
<1> USE ElevationAssumption DEF Waiting, Call, HelperPhase
<1>1. ProtocolTypes'
  BY DEF ProtocolInv, ProtocolTypes, BackendStep, LaunchSucceeds, GiveUp, CancelKills,
         CancelReturns, Stop, StopConfirmed, StopUnconfirmed, Refresh
<1>2. CallIsAbout'
  <2> USE DEF ProtocolInv, ProtocolTypes, CallIsAbout
  <2>1. CASE LaunchSucceeds(a) \/ StopConfirmed(a) \/ StopUnconfirmed(a) \/ CancelReturns(a) \/ Refresh(a)
    BY <2>1 DEF LaunchSucceeds, StopConfirmed, StopUnconfirmed, CancelReturns, Refresh
  <2>2. CASE GiveUp(a)
    <3>1. call' = [attempt |-> a, phase |-> "cancelling"] /\ tracked' = NoAttempt
      BY <2>2 DEF GiveUp
    <3> QED  BY <2>2, <3>1 DEF GiveUp
  <2>3. CASE CancelKills(a)
    BY <2>3 DEF CancelKills
  <2>4. CASE Stop(a)
    BY <2>4 DEF Stop, ReportsAreTrue
  <2> QED  BY <2>1, <2>2, <2>3, <2>4 DEF BackendStep
<1>3. ReportsAreTrue'
  BY DEF ProtocolInv, ProtocolTypes, ReportsAreTrue, BackendStep, LaunchSucceeds, GiveUp, CancelKills,
         CancelReturns, Stop, StopConfirmed, StopUnconfirmed, Refresh
<1>4. Watched'
  <2> USE DEF ProtocolInv, ProtocolTypes, CallIsAbout, Watched
  <2>1. CASE LaunchSucceeds(a)
    BY <2>1 DEF LaunchSucceeds
  <2>2. CASE StopConfirmed(a) \/ StopUnconfirmed(a)
    <3>1. call.attempt = a /\ tracked = a /\ helper' = helper /\ shut' = shut
      BY <2>2 DEF StopConfirmed, StopUnconfirmed
    <3>2. tracked' = a \/ helper[a] = "gone"
      BY <2>2 DEF StopConfirmed, StopUnconfirmed
    <3> QED  BY <3>1, <3>2
  <2>3. CASE GiveUp(a)
    BY <2>3 DEF GiveUp
  <2>4. CASE CancelKills(a)
    BY <2>4 DEF CancelKills
  <2>5. CASE Stop(a) \/ Refresh(a) \/ CancelReturns(a)
    BY <2>5 DEF Stop, Refresh, CancelReturns
  <2> QED  BY <2>1, <2>2, <2>3, <2>4, <2>5 DEF BackendStep
<1> QED  BY <1>1, <1>2, <1>3, <1>4 DEF ProtocolInv

LEMMA LauncherKeepsInv ==
    ASSUME ProtocolInv, NEW a \in Attempts,
           SupervisorStep(a) \/ Interference(a) \/ \E approved \in BOOLEAN : HelperStarts(a, approved)
    PROVE  ProtocolInv'
<1> USE DEF HelperPhase, HelperBecomes, helperRest, SupervisorStep, Interference, HelperStarts,
            SpawnMiner, SpawnFails, SupervisorStops, StopGroup, Denied, SupervisorSignalled,
            SupervisorKilled, MinerExits, ProtocolInv, ProtocolTypes
<1>1. ProtocolTypes'
  OBVIOUS
<1>2. CallIsAbout'
  BY DEF CallIsAbout, Call
<1>3. ReportsAreTrue'
  BY DEF ReportsAreTrue
<1>4. Watched'
  BY DEF Watched
<1> QED  BY <1>1, <1>2, <1>3, <1>4

LEMMA ProtocolKeepsInv == ProtocolInv /\ ProtocolStep => ProtocolInv'
<1> SUFFICES ASSUME ProtocolInv, ProtocolStep  PROVE ProtocolInv'
    OBVIOUS
<1>1. ASSUME NEW a \in Attempts, NEW g \in Grants \cup {NoGrant}, Launch(a, g)
      PROVE  ProtocolInv'
  <2> USE <1>1, ElevationAssumption DEF Launch, Call, HelperPhase, ProtocolInv, ProtocolTypes
  <2>1. ProtocolTypes' /\ ReportsAreTrue'
    BY DEF ReportsAreTrue
  <2>2. CallIsAbout'
    BY DEF CallIsAbout
  <2>3. Watched'
    BY DEF Watched
  <2> QED  BY <2>1, <2>2, <2>3
<1>2. CASE BackendDies
  BY <1>2 DEF BackendDies, ProtocolInv, ProtocolTypes, CallIsAbout, ReportsAreTrue, Watched
<1>3. CASE UNCHANGED elevVars
  BY <1>3 DEF elevVars, ProtocolInv, ProtocolTypes, CallIsAbout, ReportsAreTrue, Watched
<1> QED  BY <1>1, <1>2, <1>3, BackendKeepsInv, LauncherKeepsInv DEF ProtocolStep

LEMMA ProtocolBegins == ElevationInit => ProtocolInv
  BY ElevationAssumption DEF ElevationInit, ProtocolInv, ProtocolTypes, CallIsAbout, ReportsAreTrue, Watched,
                             HelperPhase

LEMMA WatchedMiners == ProtocolInv => NoForgottenMiner
  BY DEF ProtocolInv, ProtocolTypes, Watched, NoForgottenMiner

LEMMA NextIsProtocolStep ==
    [ElevationNext]_<<elevVars, records>> => ProtocolStep /\ records' \subseteq records
  BY DEF ElevationNext, ProtocolStep, elevVars

EInv == ProtocolInv /\ records \subseteq Grants

LEMMA ElevationInvariance == ElevationSpec => []EInv
<1>1. LaunchesInit => EInv
  BY ProtocolBegins DEF LaunchesInit, EInv
<1>2. EInv /\ [ElevationNext]_<<elevVars, records>> => EInv'
  BY NextIsProtocolStep, ProtocolKeepsInv DEF EInv
<1> QED  BY <1>1, <1>2, PTL DEF ElevationSpec

\* Every variable keeps its type, and a live root miner has a supervisor that is
\* supervising or stopping it, in every order of launches, time limits, kills and
\* crashes.
THEOREM ElevationTyped == ElevationSpec => []ElevationTypeOK
<1>1. EInv => ElevationTypeOK
  BY DEF EInv, ProtocolInv, ProtocolTypes, ElevationTypeOK
<1> QED  BY <1>1, ElevationInvariance, PTL

\* What the backend believes of the other side fits it: a call waits for an attempt
\* that has begun, what it cancels or stops has been told so, a session is one that has
\* reported, and a report comes from a supervisor that is at work or gone, never from a
\* launcher still in its dialog.
THEOREM ProtocolHolds == ElevationSpec => []ProtocolInv
<1>1. EInv => ProtocolInv
  BY DEF EInv
<1> QED  BY <1>1, ElevationInvariance, PTL

\* However many launches time out, fail or are left behind by a crash: each root
\* miner is the session's, is waited for, or has been told to end.
THEOREM NoneForgotten == ElevationSpec => []NoForgottenMiner
<1>1. EInv => NoForgottenMiner
  BY WatchedMiners DEF EInv
<1> QED  BY <1>1, ElevationInvariance, PTL
-----------------------------------------------------------------------------
(* The refinement: what each step is for RootSession *)

AbstractStep == Abstract!Next \/ UNCHANGED Abstract!vars

\* The state of one attempt, and that of all others when one changes.
LEMMA OneSession ==
    ASSUME NEW a \in Attempts, NEW to,
           SessionState'[a] = to,
           \A b \in Attempts \ {a} : SessionState'[b] = SessionState[b]
    PROVE  SessionState' = [SessionState EXCEPT ![a] = to]
<1>1. /\ SessionState = [b \in Attempts |-> SessionState[b]]
      /\ SessionState' = [b \in Attempts |-> SessionState'[b]]
  BY DEF SessionState
<1> QED  BY <1>1

LEMMA BackendSimulates ==
    ASSUME ProtocolInv, NEW a \in Attempts, BackendStep(a)
    PROVE  AbstractStep
<1> USE ElevationAssumption DEF Waiting, Call, HelperPhase, ProtocolInv, ProtocolTypes, CallIsAbout, ReportsAreTrue
<1>1. CASE LaunchSucceeds(a)
  <2>1. /\ SessionState[a] = "starting" /\ SessionState'[a] = "running"
        /\ \A b \in Attempts \ {a} : SessionState'[b] = SessionState[b]
    BY <1>1 DEF LaunchSucceeds, SessionState
  <2>2. Abstract!Succeeds(a)
    BY <1>1, <2>1, OneSession DEF Abstract!Succeeds, Abstract!Become, LaunchSucceeds
  <2> QED  BY <2>2 DEF AbstractStep, Abstract!Next
<1>2. CASE GiveUp(a)
  <2>1. /\ SessionState[a] = "starting"
        /\ SessionState'[a] = (IF helper[a] = "gone" THEN "over" ELSE "doomed")
        /\ \A b \in Attempts \ {a} : SessionState'[b] = SessionState[b]
    BY <1>2 DEF GiveUp, SessionState
  <2>2. Abstract!GivenUp(a) \/ Abstract!Ended(a)
    BY <1>2, <2>1, OneSession DEF Abstract!GivenUp, Abstract!Ended, Abstract!Become, GiveUp
  <2> QED  BY <2>2 DEF AbstractStep, Abstract!Next
<1>3. CASE CancelKills(a)
  <2>1. /\ SessionState[a] = "doomed" /\ SessionState'[a] = "over"
        /\ \A b \in Attempts \ {a} : SessionState'[b] = SessionState[b]
    BY <1>3 DEF CancelKills, SessionState
  <2>2. Abstract!DoomedEnds(a)
    BY <1>3, <2>1, OneSession DEF Abstract!DoomedEnds, Abstract!Become, CancelKills
  <2> QED  BY <2>2 DEF AbstractStep, Abstract!Next
<1>4. CASE CancelReturns(a) \/ Stop(a) \/ StopUnconfirmed(a)
  <2>1. SessionState' = SessionState
    BY <1>4 DEF CancelReturns, Stop, StopUnconfirmed, SessionState
  <2> QED  BY <1>4, <2>1 DEF AbstractStep, Abstract!vars, CancelReturns, Stop, StopUnconfirmed
<1>5. CASE StopConfirmed(a) \/ Refresh(a)
  <2>1. /\ SessionState[a] = "running" /\ SessionState'[a] = "over"
        /\ \A b \in Attempts \ {a} : SessionState'[b] = SessionState[b]
    BY <1>5 DEF StopConfirmed, Refresh, SessionState
  <2>2. Abstract!Ended(a)
    BY <1>5, <2>1, OneSession DEF Abstract!Ended, Abstract!Become, StopConfirmed, Refresh
  <2> QED  BY <2>2 DEF AbstractStep, Abstract!Next
<1> QED  BY <1>1, <1>2, <1>3, <1>4, <1>5 DEF BackendStep

\* A launcher that ends is noticed by whoever waits for it; one that was given up
\* is over.
LEMMA LauncherEnds ==
    ASSUME ProtocolInv, NEW a \in Attempts,
           helper[a] \notin {"idle", "gone"}, helper' = [helper EXCEPT ![a] = "gone"],
           alive' = alive \ {a}, UNCHANGED helperRest
    PROVE  AbstractStep
<1> USE DEF helperRest
<1>1. \A b \in Attempts \ {a} : SessionState'[b] = SessionState[b]
  BY DEF ProtocolInv, ProtocolTypes, SessionState
<1>2. CASE SessionState[a] = "doomed"
  <2>1. SessionState'[a] = "over"
    BY <1>2 DEF ProtocolInv, ProtocolTypes, SessionState
  <2>2. Abstract!DoomedEnds(a)
    BY <1>1, <1>2, <2>1, OneSession DEF Abstract!DoomedEnds, Abstract!Become
  <2> QED  BY <2>2 DEF AbstractStep, Abstract!Next
<1>3. CASE SessionState[a] # "doomed"
  <2>1. SessionState'[a] = SessionState[a]
    BY <1>3 DEF ProtocolInv, ProtocolTypes, SessionState
  <2>2. SessionState' = SessionState
    BY <1>1, <2>1 DEF SessionState
  <2>3. Abstract!StopsMining(a) \/ UNCHANGED Abstract!vars
    BY <2>2 DEF Abstract!StopsMining, Abstract!vars
  <2> QED  BY <2>3 DEF AbstractStep, Abstract!Next
<1> QED  BY <1>2, <1>3

LEMMA LauncherSimulates ==
    ASSUME ProtocolInv, NEW a \in Attempts,
           SupervisorStep(a) \/ Interference(a) \/ \E approved \in BOOLEAN : HelperStarts(a, approved)
    PROVE  AbstractStep
<1> USE DEF HelperBecomes, helperRest
<1>1. ASSUME a \notin alive, helper[a] \notin {"idle", "gone"},
             helper' = [helper EXCEPT ![a] = "gone"], UNCHANGED <<alive, helperRest>>
      PROVE  AbstractStep
  <2>1. alive' = alive \ {a}
    BY <1>1
  <2> QED  BY <1>1, <2>1, LauncherEnds
<1>2. ASSUME NEW to \in HelperPhase \ {"idle", "gone"}, helper[a] \notin {"idle", "gone"},
             helper' = [helper EXCEPT ![a] = to], UNCHANGED <<alive, helperRest>>
      PROVE  AbstractStep
  <2>1. SessionState' = SessionState
    BY <1>2 DEF SessionState, ProtocolInv, ProtocolTypes
  <2> QED  BY <1>2, <2>1 DEF AbstractStep, Abstract!vars
<1>3. CASE SpawnMiner(a)
  <2>1. tracked # a /\ helper[a] = "checked"
    BY <1>3, ElevationAssumption DEF SpawnMiner, ProtocolInv, ProtocolTypes, ReportsAreTrue
  <2>2. SessionState' = SessionState /\ SessionState[a] \in {"starting", "doomed"}
    BY <1>3, <2>1 DEF SpawnMiner, SessionState, ProtocolInv, ProtocolTypes
  <2>3. Abstract!Mines(a)
    BY <1>3, <2>2 DEF Abstract!Mines, SpawnMiner
  <2> QED  BY <2>3 DEF AbstractStep, Abstract!Next
<1>4. CASE MinerExits(a)
  <2>1. SessionState' = SessionState
    BY <1>4 DEF MinerExits, SessionState
  <2>2. Abstract!StopsMining(a)
    BY <1>4, <2>1 DEF Abstract!StopsMining, MinerExits
  <2> QED  BY <2>2 DEF AbstractStep, Abstract!Next
<1>5. CASE StopGroup(a) \/ SupervisorKilled(a)
  BY <1>5, LauncherEnds DEF StopGroup, SupervisorKilled
<1>6. CASE SupervisorStops(a) \/ SupervisorSignalled(a)
  BY <1>2, <1>6 DEF SupervisorStops, SupervisorSignalled, HelperPhase
<1>7. CASE Denied(a) \/ SpawnFails(a)
  BY <1>1, <1>7 DEF Denied, SpawnFails, ProtocolInv, ProtocolTypes
<1>8. ASSUME NEW approved \in BOOLEAN, HelperStarts(a, approved)
      PROVE  AbstractStep
  <2>1. helper[a] = "asking" /\ a \notin alive /\ UNCHANGED <<alive, helperRest>>
    BY <1>8 DEF HelperStarts, ProtocolInv, ProtocolTypes
  <2>2. \/ helper' = [helper EXCEPT ![a] = "checked"]
        \/ helper' = [helper EXCEPT ![a] = "gone"]
    BY <1>8 DEF HelperStarts
  <2> QED  BY <1>1, <1>2, <2>1, <2>2 DEF HelperPhase
<1> QED  BY <1>3, <1>4, <1>5, <1>6, <1>7, <1>8 DEF SupervisorStep, Interference

LEMMA LaunchSimulates ==
    ASSUME ProtocolInv, NEW a \in Attempts, NEW g \in Grants \cup {NoGrant}, Launch(a, g)
    PROVE  AbstractStep
<1> USE ElevationAssumption DEF Launch, ProtocolInv, ProtocolTypes, Call, HelperPhase
<1>1. \A b \in Attempts : SessionState[b] \notin {"starting", "running"}
  BY DEF SessionState
<1>2. SessionState[a] \in {"new", "over"} /\ SessionState'[a] = "starting"
  BY DEF SessionState
<1>3. \A b \in Attempts \ {a} : SessionState'[b] = SessionState[b]
  BY DEF SessionState
<1>4. Abstract!Begin(a)
  BY <1>1, <1>2, <1>3, OneSession DEF Abstract!Begin, Abstract!Become, Abstract!Current
<1> QED  BY <1>4 DEF AbstractStep, Abstract!Next

LEMMA DeathSimulates ==
    ASSUME ProtocolInv, BackendDies
    PROVE  AbstractStep
<1> USE DEF BackendDies
<1> DEFINE over == {a \in Abstract!Current : helper[a] = "gone"}
<1>1. over \in SUBSET (Abstract!Current \ alive)
  BY DEF ProtocolInv, ProtocolTypes
<1>2. SessionState' = [a \in Attempts |-> IF a \in over THEN "over"
                                          ELSE IF a \in Abstract!Current THEN "doomed" ELSE SessionState[a]]
  BY ElevationAssumption DEF SessionState, Abstract!Current, ProtocolInv, ProtocolTypes, CallIsAbout, ReportsAreTrue, Call
<1>3. Abstract!BackendDies
  BY <1>1, <1>2 DEF Abstract!BackendDies
<1> QED  BY <1>3 DEF AbstractStep, Abstract!Next

LEMMA ProtocolSimulates == ProtocolInv /\ ProtocolStep => AbstractStep
<1>1. UNCHANGED elevVars => AbstractStep
  BY DEF elevVars, AbstractStep, Abstract!vars, SessionState
<1> QED  BY <1>1, LaunchSimulates, BackendSimulates, LauncherSimulates, DeathSimulates DEF ProtocolStep

\* The safety of the refinement: whatever the pipes, reports, time limits and
\* kills do, the code that asked for a launch sees a session as RootSession
\* describes it.
THEOREM ElevationRefines == ElevationSpec => Abstract!Init /\ [][Abstract!Next]_(Abstract!vars)
<1>1. LaunchesInit => Abstract!Init
  BY DEF LaunchesInit, ElevationInit, Abstract!Init, SessionState
<1>2. EInv /\ [ElevationNext]_<<elevVars, records>> => [Abstract!Next]_(Abstract!vars)
  BY NextIsProtocolStep, ProtocolSimulates DEF EInv, AbstractStep
<1> QED  BY <1>1, <1>2, ElevationInvariance, PTL DEF ElevationSpec

-----------------------------------------------------------------------------
(* The grants: LinuxAuthorization *)

AuthTypes ==
    /\ profile \in [settings : Settings \cup {Absent}, grant : Grants \cup {NoGrant}]
    /\ files \in Contents
    /\ print \in [Grants -> Fingerprint \cup {NoPrint}]
    /\ copy \in [Grants -> Contents \cup {Absent}]
    /\ folder \in [Grants -> Folder]
    /\ records = {g \in Grants : folder[g] = "full"}
    /\ op \in Op \cup {NoOp}
    /\ enroll \in Enroll \cup {NoEnroll}
    /\ runs \in [Attempts -> Contents \cup {Absent, Overtaken}]

\* No launch is made under a grant that has not been enrolled.
GrantsAreEnrolled == \A a \in Attempts : grantOf[a] # NoGrant => print[grantOf[a]] # NoPrint

\* The store holds nothing of an identifier not used yet.
FreshIsEmpty == \A g \in Grants : print[g] = NoPrint => folder[g] = "none"

\* An enrollment has its grant for itself, and enrolls what it was asked to.
EnrollmentIsNew ==
    enroll # NoEnroll =>
        /\ enroll.phase = "asking" => print[enroll.grant] = NoPrint
        /\ enroll.phase \notin {"asking", "failed"} => print[enroll.grant] = enroll.print

\* The answer an operation waits for is the one to its own question.
AnswerFits ==
    Doing("authorize", "dialog") /\ enroll # NoEnroll =>
        enroll.grant = op.new /\ enroll.print = op.print

\* What is about to be saved was enrolled for what the user reviewed.
SaveFits ==
    Doing("authorize", "save") => op.print \in Fingerprint /\ op.new \in Grants /\ print[op.new] = op.print

\* Between its check and the start of the miner, a snapshot stays what it was,
\* unless it is removed or overtaken.
CheckedIsReviewed ==
    \A a \in Attempts :
        helper[a] = "checked" /\ grantOf[a] # NoGrant =>
            runs[a] = Overtaken \/ copy[grantOf[a]] \in {print[grantOf[a]][2], Absent}

AInv == /\ ProtocolInv /\ AuthTypes
        /\ GrantsAreEnrolled /\ FreshIsEmpty
        /\ EnrollmentIsNew /\ AnswerFits /\ SaveFits
        /\ CheckedIsReviewed /\ ApprovedIsReviewed

-----------------------------------------------------------------------------
LEMMA PrintFacts ==
    /\ NoPrint \notin Fingerprint
    /\ \A s \in Rooted, c \in Contents : <<s, c>> \in Fingerprint
    /\ \A p \in Fingerprint \cup {NoPrint} : p[2] \in Contents => p \in Fingerprint
  BY AuthorizationAssumption DEF NoPrint, Fingerprint

LEMMA NextIsProtocol == ProtocolTypes /\ AuthTypes /\ [Next]_vars => ProtocolStep
<1> SUFFICES ASSUME ProtocolTypes, AuthTypes, [Next]_vars  PROVE ProtocolStep
    OBVIOUS
<1> USE DEF ProtocolStep
<1>1. ASSUME NEW a \in Attempts, StartProfile(a)
      PROVE  ProtocolStep
  <2>1. Launch(a, profile.grant) /\ profile.grant \in Grants \cup {NoGrant}
    BY <1>1 DEF StartProfile, AuthTypes
  <2> QED  BY <2>1
<1>2. ASSUME NEW a \in Attempts, HelperDecides(a)
      PROVE  ProtocolStep
  <2>1. \E approved \in BOOLEAN : HelperStarts(a, approved)
    <3>1. HelperStarts(a, grantOf[a] = NoGrant \/ CopyIntact(grantOf[a]))
      BY <1>2 DEF HelperDecides
    <3>2. (grantOf[a] = NoGrant \/ CopyIntact(grantOf[a])) \in BOOLEAN
      BY DEF CopyIntact
    <3> QED  BY <3>1, <3>2
  <2> QED  BY <2>1
<1>3. ASSUME NEW a \in Attempts, MinerStarts(a) \/ AttemptStep(a)
      PROVE  ProtocolStep
  BY <1>3 DEF MinerStarts, AttemptStep, SupervisorStep
<1>4. CASE BeginAuthorize \/ BeginRevoke
  <2>1. UNCHANGED elevVars \/ (tracked # NoAttempt /\ Stop(tracked))
    BY <1>4 DEF BeginAuthorize, BeginRevoke, StopFirst
  <2>2. tracked # NoAttempt /\ Stop(tracked) => \E a \in Attempts : Stop(a)
    BY DEF ProtocolTypes
  <2> QED  BY <2>1, <2>2 DEF BackendStep
<1>5. CASE OperationStep \/ EnrollStep
  BY <1>5 DEF OperationStep, EnrollStep, AskToEnroll, FilesChanged, EnrollGranted, EnrollRefused, EnrollTimesOut,
              SaveGrant, SaveGrantFails, CleanUp, RevokeGrant, ForgetGrant, RevokeWithoutProfile,
              EnrollDeclined, CopyFiles, WriteRecord, SecondLook, InstallRunner, opRest, helperScope
<1>6. CASE Crash
  BY <1>6 DEF Crash
<1>7. ASSUME NEW s \in Settings \cup {Absent}, ReplaceConfig(s)
      PROVE  ProtocolStep
  BY <1>7 DEF ReplaceConfig
<1>8. ASSUME NEW c \in Contents, ChangeFiles(c) \/ \E a \in Attempts : MinerChangesCopy(a, c)
      PROVE  ProtocolStep
  BY <1>8 DEF ChangeFiles, MinerChangesCopy
<1>9. CASE UNCHANGED vars
  BY <1>9 DEF vars
<1> QED  BY <1>1, <1>2, <1>3, <1>4, <1>5, <1>6, <1>7, <1>8, <1>9 DEF Next

-----------------------------------------------------------------------------
(* The store *)

\* What a removal, complete or not, leaves behind.
StoreShrinks ==
    /\ copy' \in [Grants -> Contents \cup {Absent}]
    /\ folder' \in [Grants -> Folder]
    /\ records' = {g \in Grants : folder'[g] = "full"}
    /\ \A g \in Grants : folder[g] = "none" => folder'[g] = "none"
    /\ \A g \in Grants : copy'[g] \in {copy[g], Absent}

LEMMA StoreBecomesTyped ==
    ASSUME AuthTypes, NEW g, NEW what \in Folder, StoreBecomes(g, what), what = "full" => g \in Grants
    PROVE  /\ copy' \in [Grants -> Contents \cup {Absent}]
           /\ folder' \in [Grants -> Folder]
           /\ records' = {h \in Grants : folder'[h] = "full"}
           /\ \A h \in Grants \ {g} : folder'[h] = folder[h]
           /\ \A h \in Grants : copy'[h] \in {copy[h], Absent}
<1>1. copy' \in [Grants -> Contents \cup {Absent}] /\ \A h \in Grants : copy'[h] \in {copy[h], Absent}
  BY DEF AuthTypes, StoreBecomes
<1>2. folder' \in [Grants -> Folder] /\ \A h \in Grants \ {g} : folder'[h] = folder[h]
  BY DEF AuthTypes, StoreBecomes
<1>3. records' = {h \in Grants : folder'[h] = "full"}
  <2>1. \A h \in Grants : h \in records' <=> folder'[h] = "full"
    BY DEF AuthTypes, StoreBecomes
  <2>2. records' \subseteq Grants
    BY DEF AuthTypes, StoreBecomes
  <2> QED  BY <2>1, <2>2
<1> QED  BY <1>1, <1>2, <1>3

LEMMA RemovalShrinks ==
    ASSUME AuthTypes, NEW g, NEW what \in {"none", "bare"},
           what = "bare" => folder[g] # "none", StoreBecomes(g, what)
    PROVE  StoreShrinks
<1>1. g \in Grants => folder'[g] = what
  BY DEF AuthTypes, StoreBecomes
<1> QED  BY <1>1, StoreBecomesTyped DEF StoreShrinks, Folder

LEMMA UnchangedShrinks ==
    ASSUME AuthTypes, UNCHANGED <<folder, records, copy>>  PROVE StoreShrinks
  BY DEF AuthTypes, StoreShrinks

LEMMA RevokeShrinks ==
    ASSUME AuthTypes, NEW g, TryRevoke(g)
    PROVE  StoreShrinks
<1>1. CASE RevokeSucceeds(g)
  BY <1>1, RemovalShrinks DEF RevokeSucceeds
<1>2. CASE RevokeFails(g)
  BY <1>2, RemovalShrinks, UnchangedShrinks DEF RevokeFails
<1> QED  BY <1>1, <1>2 DEF TryRevoke

-----------------------------------------------------------------------------
(* Types, and what the store holds of an identifier *)

StoreFits == AuthTypes /\ FreshIsEmpty

LEMMA ShrinkingFits ==
    ASSUME StoreFits, StoreShrinks, print' = print
    PROVE  FreshIsEmpty'
  BY DEF StoreFits, AuthTypes, FreshIsEmpty, StoreShrinks

LEMMA StoreKept ==
    ASSUME StoreFits, UNCHANGED storeVars
    PROVE  StoreShrinks /\ FreshIsEmpty'
  BY UnchangedShrinks DEF StoreFits, AuthTypes, storeVars, FreshIsEmpty

LEMMA LaunchTypes ==
    ASSUME ProtocolTypes, StoreFits, NEW a \in Attempts,
           StartProfile(a) \/ HelperDecides(a) \/ MinerStarts(a) \/ AttemptStep(a)
    PROVE  StoreFits'
<1>1. StoreShrinks /\ FreshIsEmpty' /\ print' = print
  BY StoreKept DEF StartProfile, HelperDecides, MinerStarts, AttemptStep, storeVars
<1>2. runs' \in [Attempts -> Contents \cup {Absent, Overtaken}]
  BY DEF ProtocolTypes, StoreFits, AuthTypes, StartProfile, HelperDecides, MinerStarts, AttemptStep
<1>3. op' \in Op \cup {NoOp}
  BY DEF StoreFits, AuthTypes, StartProfile, HelperDecides, MinerStarts, AttemptStep, authVars, Op
<1> QED  BY <1>1, <1>2, <1>3 DEF StoreFits, AuthTypes, StoreShrinks, StartProfile, HelperDecides, MinerStarts,
                              AttemptStep, authVars

LEMMA OperationTypes ==
    ASSUME StoreFits, OperationStep
    PROVE  StoreFits'
<1> USE PrintFacts DEF StoreFits, AuthTypes
<1>1. StoreShrinks /\ FreshIsEmpty' /\ print' = print
  <2>1. CASE CleanUp \/ RevokeGrant
    <3>1. StoreShrinks /\ print' = print
      BY <2>1, RevokeShrinks, UnchangedShrinks DEF CleanUp, RevokeGrant, TryRevoke
    <3> QED  BY <3>1, ShrinkingFits
  <2>2. CASE ~(CleanUp \/ RevokeGrant)
    BY <2>2, StoreKept DEF OperationStep, AskToEnroll, FilesChanged, EnrollGranted, EnrollRefused,
           EnrollTimesOut, SaveGrant, SaveGrantFails, ForgetGrant, RevokeWithoutProfile, storeVars
  <2> QED  BY <2>1, <2>2
<1>2. ASSUME NEW g \in Grants, AskToEnroll(g)
      PROVE  op' \in Op \cup {NoOp} /\ enroll' \in Enroll \cup {NoEnroll} /\ UNCHANGED opRest
  <2>1. op \in Op /\ op.print \in Fingerprint
    BY <1>2 DEF AskToEnroll, Doing, Op
  <2>2. op' \in Op
    BY <1>2, <2>1 DEF AskToEnroll, Op
  <2>3. enroll' \in Enroll
    BY <1>2, <2>1 DEF AskToEnroll, Enroll
  <2> QED  BY <1>2, <2>2, <2>3 DEF AskToEnroll
<1>3. CASE FilesChanged \/ EnrollGranted \/ EnrollRefused \/ EnrollTimesOut
  <2>1. op' \in Op \cup {NoOp}
    BY <1>3 DEF FilesChanged, EnrollGranted, EnrollRefused, EnrollTimesOut, Doing, Op
  <2>2. enroll' \in Enroll \cup {NoEnroll}
    BY <1>3 DEF FilesChanged, EnrollGranted, EnrollRefused, EnrollTimesOut, Enroll
  <2> QED  BY <1>1, <1>3, <2>1, <2>2 DEF FilesChanged, EnrollGranted, EnrollRefused, EnrollTimesOut, opRest, StoreShrinks
<1>4. CASE SaveGrant \/ SaveGrantFails \/ CleanUp
  <2>1. op' \in Op \cup {NoOp}
    BY <1>4 DEF SaveGrant, SaveGrantFails, CleanUp, Doing, Op
  <2>2. profile' \in [settings : Settings \cup {Absent}, grant : Grants \cup {NoGrant}]
    BY <1>4 DEF SaveGrant, SaveGrantFails, CleanUp, Doing, Op, opRest
  <2> QED  BY <1>1, <1>4, <2>1, <2>2 DEF SaveGrant, SaveGrantFails, CleanUp, opRest, StoreShrinks
<1>5. CASE RevokeGrant \/ ForgetGrant \/ RevokeWithoutProfile
  <2>1. op' \in Op \cup {NoOp}
    <3>1. CASE RevokeGrant
      <4>1. op \in Op
        BY <3>1 DEF RevokeGrant, Doing
      <4>2. op' = NoOp \/ \E g \in Grants \cup {NoGrant} : op' = [op EXCEPT !.phase = "save", !.old = g]
        BY <3>1 DEF RevokeGrant
      <4> QED  BY <4>1, <4>2 DEF Op
    <3> QED  BY <1>5, <3>1 DEF ForgetGrant, RevokeWithoutProfile
  <2>2. profile' \in [settings : Settings \cup {Absent}, grant : Grants \cup {NoGrant}]
    BY <1>5 DEF RevokeGrant, ForgetGrant, RevokeWithoutProfile, opRest
  <2> QED  BY <1>1, <1>5, <2>1, <2>2 DEF RevokeGrant, ForgetGrant, RevokeWithoutProfile, opRest, StoreShrinks
<1> QED  BY <1>1, <1>2, <1>3, <1>4, <1>5 DEF OperationStep, StoreShrinks, opRest

LEMMA EnrollTypes ==
    ASSUME StoreFits, EnrollmentIsNew, EnrollStep
    PROVE  StoreFits'
<1> USE PrintFacts DEF StoreFits, AuthTypes
<1>1. UNCHANGED <<profile, files, op, runs>>
  BY DEF EnrollStep, EnrollDeclined, CopyFiles, WriteRecord, SecondLook, InstallRunner, helperScope, opRest
<1>2. enroll \in Enroll /\ enroll.grant \in Grants /\ enroll.print \in Fingerprint
  BY DEF EnrollStep, EnrollDeclined, CopyFiles, WriteRecord, SecondLook, InstallRunner, Answered, Enroll
<1>3. enroll' \in Enroll \cup {NoEnroll}
  <2>1. CASE EnrollDeclined \/ CopyFiles
    BY <1>2, <2>1 DEF EnrollDeclined, CopyFiles, EnrollTo, EnrollEnds, Enroll
  <2>2. CASE WriteRecord \/ SecondLook \/ InstallRunner
    BY <1>2, <2>2 DEF WriteRecord, SecondLook, InstallRunner, Abandon, EnrollTo, EnrollEnds, Enroll
  <2> QED  BY <2>1, <2>2 DEF EnrollStep
<1>4. CASE EnrollDeclined
  BY <1>1, <1>3, <1>4, StoreKept DEF EnrollDeclined, StoreShrinks, storeVars
<1>5. CASE CopyFiles
  <2>1. CASE UNCHANGED <<print, copy, folder>>
    BY <1>1, <1>3, <1>5, <2>1, StoreKept DEF CopyFiles, StoreShrinks, storeVars
  <2>2. CASE /\ copy' = [copy EXCEPT ![enroll.grant] = files]
             /\ print' = [print EXCEPT ![enroll.grant] = enroll.print]
             /\ folder' = [folder EXCEPT ![enroll.grant] = "bare"]
    <3>1. folder[enroll.grant] = "none" /\ records' = records
      BY <1>2, <1>5 DEF CopyFiles, Answered, EnrollmentIsNew, FreshIsEmpty
    <3>2. records' = {g \in Grants : folder'[g] = "full"}
      BY <1>2, <2>2, <3>1
    <3>3. FreshIsEmpty'
      BY <1>2, <2>2 DEF FreshIsEmpty
    <3> QED  BY <1>1, <1>2, <1>3, <2>2, <3>2, <3>3 DEF Folder
  <2> QED  BY <1>5, <2>1, <2>2 DEF CopyFiles
<1>6. CASE WriteRecord
  <2>1. PICK what \in Folder : StoreBecomes(enroll.grant, what) /\ print' = print
    BY <1>6 DEF WriteRecord, Abandon, Folder
  <2>2. print[enroll.grant] # NoPrint
    BY <1>2, <1>6 DEF WriteRecord, Answered, EnrollmentIsNew
  <2>3. FreshIsEmpty'
    BY <2>1, <2>2, StoreBecomesTyped, <1>2 DEF FreshIsEmpty
  <2> QED  BY <1>1, <1>2, <1>3, <2>1, <2>3, StoreBecomesTyped
<1>7. CASE SecondLook
  <2>1. CASE UNCHANGED storeVars
    BY <1>1, <1>3, <2>1, StoreKept DEF StoreShrinks, storeVars
  <2>2. CASE Abandon /\ UNCHANGED print
    <3>1. PICK what \in {"none", "bare"} : StoreBecomes(enroll.grant, what)
      BY <2>2 DEF Abandon
    <3>2. print[enroll.grant] # NoPrint
      BY <1>2, <1>7 DEF SecondLook, Answered, EnrollmentIsNew
    <3>3. FreshIsEmpty'
      BY <2>2, <3>1, <3>2, StoreBecomesTyped, <1>2 DEF FreshIsEmpty, Folder
    <3> QED  BY <1>1, <1>2, <1>3, <2>2, <3>1, <3>3, StoreBecomesTyped DEF Folder
  <2> QED  BY <1>7, <2>1, <2>2 DEF SecondLook
<1>8. CASE InstallRunner
  <2>1. StoreShrinks /\ print' = print
    BY <1>8, RevokeShrinks, UnchangedShrinks DEF InstallRunner
  <2> QED  BY <1>1, <1>3, <2>1, ShrinkingFits DEF StoreShrinks
<1> QED  BY <1>4, <1>5, <1>6, <1>7, <1>8 DEF EnrollStep

LEMMA OtherTypes ==
    ASSUME StoreFits,
           \/ BeginAuthorize \/ BeginRevoke \/ Crash \/ UNCHANGED vars
           \/ \E s \in Settings \cup {Absent} : ReplaceConfig(s)
           \/ \E c \in Contents : ChangeFiles(c) \/ \E a \in Attempts : MinerChangesCopy(a, c)
    PROVE  StoreFits'
<1> USE DEF StoreFits, AuthTypes
<1>1. CASE BeginAuthorize \/ BeginRevoke
  <2>1. PICK kind \in {"authorize", "revoke"}, seen \in Fingerprint \cup {NoPrint} :
            StopFirst(kind, seen)
    BY <1>1, PrintFacts, AuthorizationAssumption DEF BeginAuthorize, BeginRevoke, Current, Fingerprint
  <2>2. NewOp(kind, "act", seen) \in Op /\ NewOp(kind, "stop", seen) \in Op
    BY DEF NewOp, Op
  <2>3. op' \in Op
    BY <2>1, <2>2 DEF StopFirst
  <2>4. UNCHANGED <<runs, storeVars, profile, files, enroll>>
    BY <2>1 DEF StopFirst
  <2> QED  BY <2>3, <2>4, StoreKept DEF StoreShrinks, storeVars
<1>2. CASE Crash \/ UNCHANGED vars
  <2>1. op' \in Op \cup {NoOp}
    BY <1>2 DEF Crash, vars, authVars
  <2>2. enroll' \in Enroll \cup {NoEnroll}
    <3>1. enroll \in Enroll => [enroll EXCEPT !.open = FALSE] \in Enroll
      BY DEF Enroll
    <3> QED  BY <1>2, <3>1 DEF Crash, vars, authVars
  <2>3. UNCHANGED <<runs, storeVars, profile, files>>
    BY <1>2 DEF Crash, vars, authVars
  <2> QED  BY <2>1, <2>2, <2>3, StoreKept DEF StoreShrinks, storeVars
<1>3. ASSUME NEW s \in Settings \cup {Absent}, ReplaceConfig(s)
      PROVE  StoreFits'
  BY <1>3, StoreKept DEF ReplaceConfig, StoreShrinks, storeVars
<1>4. ASSUME NEW c \in Contents, ChangeFiles(c)
      PROVE  StoreFits'
  BY <1>4, StoreKept DEF ChangeFiles, StoreShrinks, storeVars
<1>5. ASSUME NEW c \in Contents, NEW a \in Attempts, MinerChangesCopy(a, c)
      PROVE  StoreFits'
  BY <1>5 DEF MinerChangesCopy, authVars, FreshIsEmpty
<1> QED  BY <1>1, <1>2, <1>3, <1>4, <1>5

LEMMA StoreFitsStep == ProtocolTypes /\ StoreFits /\ EnrollmentIsNew /\ [Next]_vars => StoreFits'
  BY LaunchTypes, OperationTypes, EnrollTypes, OtherTypes DEF Next

-----------------------------------------------------------------------------
(* Enrollments and the operations that wait for them *)

\* A fingerprint once enrolled is never replaced.
LEMMA PrintsStay ==
    ASSUME AuthTypes, EnrollmentIsNew, [Next]_vars
    PROVE  \A g \in Grants : print[g] # NoPrint => print'[g] = print[g]
<1>1. CASE CopyFiles
  <2>1. print[enroll.grant] = NoPrint
    BY <1>1 DEF CopyFiles, Answered, EnrollmentIsNew
  <2> QED  BY <1>1, <2>1 DEF CopyFiles, AuthTypes
<1>2. CASE ~CopyFiles
  <2>1. print' = print
    BY <1>2 DEF Next, StartProfile, HelperDecides, MinerStarts, AttemptStep, BeginAuthorize, BeginRevoke, StopFirst,
           OperationStep, AskToEnroll, FilesChanged, EnrollGranted, EnrollRefused, EnrollTimesOut,
           SaveGrant, SaveGrantFails, CleanUp, RevokeGrant, ForgetGrant, RevokeWithoutProfile,
           EnrollStep, EnrollDeclined, WriteRecord, SecondLook, InstallRunner, Crash,
           ReplaceConfig, ChangeFiles, MinerChangesCopy, vars, storeVars
  <2> QED  BY <2>1
<1> QED  BY <1>1, <1>2

\* Steps that leave an enrollment what it is, but for its phase and its pipe.
LEMMA EnrollmentKept ==
    ASSUME AuthTypes, [Next]_vars, ~CopyFiles, ~\E g \in Grants : AskToEnroll(g)
    PROVE  enroll' # NoEnroll =>
             /\ enroll # NoEnroll
             /\ enroll'.grant = enroll.grant /\ enroll'.print = enroll.print
             /\ enroll'.phase = "asking" => enroll.phase = "asking"
             /\ enroll'.phase \notin {"asking", "failed"} => enroll.phase \notin {"asking", "failed"}
<1> USE DEF AuthTypes, Enroll
<1>1. CASE EnrollTimesOut \/ Crash
  BY <1>1 DEF EnrollTimesOut, Crash
<1>2. CASE EnrollStep
  BY <1>2 DEF EnrollStep, EnrollDeclined, WriteRecord, SecondLook, InstallRunner, Abandon, EnrollTo, EnrollEnds, Answered
<1>3. CASE ~(EnrollTimesOut \/ Crash \/ EnrollStep)
  <2>1. enroll' = enroll \/ enroll' = NoEnroll
    BY <1>3 DEF Next, StartProfile, HelperDecides, MinerStarts, AttemptStep, BeginAuthorize, BeginRevoke, StopFirst,
           OperationStep, FilesChanged, EnrollGranted, EnrollRefused,
           SaveGrant, SaveGrantFails, CleanUp, RevokeGrant, ForgetGrant, RevokeWithoutProfile,
           ReplaceConfig, ChangeFiles, MinerChangesCopy, vars, authVars
  <2> QED  BY <2>1
<1> QED  BY <1>1, <1>2, <1>3

LEMMA EnrollmentStep == AuthTypes /\ EnrollmentIsNew /\ [Next]_vars => EnrollmentIsNew'
<1> SUFFICES ASSUME AuthTypes, EnrollmentIsNew, [Next]_vars  PROVE EnrollmentIsNew'
    OBVIOUS
<1>1. ASSUME NEW g \in Grants, AskToEnroll(g)
      PROVE  EnrollmentIsNew'
  BY <1>1 DEF AskToEnroll, Fresh, EnrollmentIsNew, storeVars
<1>2. CASE CopyFiles
  BY <1>2 DEF CopyFiles, Answered, EnrollTo, EnrollEnds, EnrollmentIsNew, AuthTypes, Enroll
<1>3. CASE ~CopyFiles /\ ~\E g \in Grants : AskToEnroll(g)
  <2>1. print' = print
    BY <1>3 DEF Next, StartProfile, HelperDecides, MinerStarts, AttemptStep, BeginAuthorize, BeginRevoke, StopFirst,
           OperationStep, FilesChanged, EnrollGranted, EnrollRefused, EnrollTimesOut,
           SaveGrant, SaveGrantFails, CleanUp, RevokeGrant, ForgetGrant, RevokeWithoutProfile,
           EnrollStep, EnrollDeclined, WriteRecord, SecondLook, InstallRunner, Crash,
           ReplaceConfig, ChangeFiles, MinerChangesCopy, vars, storeVars
  <2> QED  BY <1>3, <2>1, EnrollmentKept DEF EnrollmentIsNew
<1> QED  BY <1>1, <1>2, <1>3

\* An operation gets to the dialog by asking, and to the save by an answer.
LEMMA OperationKept ==
    ASSUME AuthTypes, [Next]_vars, ~\E g \in Grants : AskToEnroll(g), NEW phase \in {"dialog", "save"},
           Doing("authorize", phase)'
    PROVE  \/ Doing("authorize", phase) /\ op' = op
           \/ EnrollGranted /\ phase = "save" /\ op'.print = op.print /\ op'.new = op.new
<1> USE DEF AuthTypes, Doing, Op
<1>1. CASE OperationStep
  BY <1>1 DEF OperationStep, FilesChanged, EnrollGranted, EnrollRefused, EnrollTimesOut,
           SaveGrant, SaveGrantFails, CleanUp, RevokeGrant, ForgetGrant, RevokeWithoutProfile
<1>2. ASSUME NEW a \in Attempts, AttemptStep(a)
      PROVE  op' = op
  BY <1>2 DEF AttemptStep
<1>3. CASE BeginAuthorize \/ BeginRevoke
  BY <1>3 DEF BeginAuthorize, BeginRevoke, StopFirst, NewOp
<1>4. CASE ~(OperationStep \/ BeginAuthorize \/ BeginRevoke) /\ ~\E a \in Attempts : AttemptStep(a)
  BY <1>4 DEF Next, StartProfile, HelperDecides, MinerStarts,
           EnrollStep, EnrollDeclined, CopyFiles, WriteRecord, SecondLook, InstallRunner, Crash,
           ReplaceConfig, ChangeFiles, MinerChangesCopy, vars, authVars, helperScope
<1> QED  BY <1>1, <1>2, <1>3, <1>4

LEMMA AnswerStep == AuthTypes /\ AnswerFits /\ [Next]_vars => AnswerFits'
<1> SUFFICES ASSUME AuthTypes, AnswerFits, [Next]_vars  PROVE AnswerFits'
    OBVIOUS
<1>1. ASSUME NEW g \in Grants, AskToEnroll(g)
      PROVE  AnswerFits'
  BY <1>1 DEF AskToEnroll, AnswerFits, Doing, AuthTypes, Op
<1>2. CASE CopyFiles
  BY <1>2 DEF CopyFiles, EnrollTo, EnrollEnds, Answered, helperScope, AnswerFits, Doing, AuthTypes, Enroll
<1>3. CASE ~CopyFiles /\ ~\E g \in Grants : AskToEnroll(g)
  BY <1>3, OperationKept, EnrollmentKept DEF AnswerFits
<1> QED  BY <1>1, <1>2, <1>3

LEMMA SaveStep == AuthTypes /\ EnrollmentIsNew /\ AnswerFits /\ SaveFits /\ [Next]_vars => SaveFits'
<1> SUFFICES ASSUME AuthTypes, EnrollmentIsNew, AnswerFits, SaveFits, [Next]_vars, Doing("authorize", "save")'
             PROVE  op'.print \in Fingerprint /\ op'.new \in Grants /\ print'[op'.new] = op'.print
    BY DEF SaveFits
<1>1. ~\E g \in Grants : AskToEnroll(g)
  BY DEF AskToEnroll, Doing, AuthTypes, Op
<1>2. CASE Doing("authorize", "save") /\ op' = op
  BY <1>2, PrintsStay, PrintFacts DEF SaveFits
<1>3. CASE EnrollGranted /\ op'.print = op.print /\ op'.new = op.new
  <2>1. /\ enroll \in Enroll /\ enroll.grant = op.new /\ enroll.print = op.print
        /\ print[enroll.grant] = enroll.print /\ print' = print
    BY <1>3 DEF EnrollGranted, Answered, AnswerFits, EnrollmentIsNew, AuthTypes, storeVars
  <2> QED  BY <1>3, <2>1 DEF Enroll
<1> QED  BY <1>1, <1>2, <1>3, OperationKept

-----------------------------------------------------------------------------
(* Attempts and their snapshots *)

\* An attempt keeps its grant; a new launch is made under an enrolled one.
LEMMA GrantStep ==
    ProtocolTypes /\ AuthTypes /\ EnrollmentIsNew /\ GrantsAreEnrolled /\ [Next]_vars => GrantsAreEnrolled'
<1> SUFFICES ASSUME ProtocolTypes, AuthTypes, EnrollmentIsNew, GrantsAreEnrolled, [Next]_vars
             PROVE  GrantsAreEnrolled'
    OBVIOUS
<1>1. ASSUME NEW a \in Attempts, StartProfile(a)
      PROVE  GrantsAreEnrolled'
  <2>1. profile.grant # NoGrant => print[profile.grant] # NoPrint
    BY <1>1, PrintFacts, AuthorizationAssumption DEF StartProfile, Current, AuthTypes
  <2> QED  BY <1>1, <2>1 DEF StartProfile, Launch, storeVars, GrantsAreEnrolled, ProtocolTypes
<1>2. CASE ~\E a \in Attempts : StartProfile(a)
  <2>1. grantOf' = grantOf
    <3>1. CASE \E a \in Attempts : HelperDecides(a) \/ MinerStarts(a) \/ AttemptStep(a)
      BY <3>1 DEF HelperDecides, MinerStarts, AttemptStep, HelperStarts, SpawnMiner, helperRest, BackendStep,
             LaunchSucceeds, GiveUp, CancelKills, CancelReturns, Stop, StopConfirmed, StopUnconfirmed, Refresh,
             Interference, Denied, SupervisorSignalled, SupervisorKilled, MinerExits, SpawnFails,
             SupervisorStops, StopGroup
    <3>2. CASE ~\E a \in Attempts : HelperDecides(a) \/ MinerStarts(a) \/ AttemptStep(a)
      BY <1>2, <3>2 DEF Next, BeginAuthorize, BeginRevoke, StopFirst, Stop,
             OperationStep, AskToEnroll, FilesChanged, EnrollGranted, EnrollRefused, EnrollTimesOut,
             SaveGrant, SaveGrantFails, CleanUp, RevokeGrant, ForgetGrant, RevokeWithoutProfile,
             EnrollStep, EnrollDeclined, CopyFiles, WriteRecord, SecondLook, InstallRunner, Crash, BackendDies,
             ReplaceConfig, ChangeFiles, MinerChangesCopy, vars, elevVars, opRest, helperScope
    <3> QED  BY <3>1, <3>2
  <2> QED  BY <2>1, PrintsStay DEF GrantsAreEnrolled, ProtocolTypes
<1> QED  BY <1>1, <1>2

\* The steps that leave the attempts alone and no snapshot other than it was, except
\* that it may be gone, and that of an identifier not used yet.
LEMMA SnapshotsKept ==
    ASSUME AuthTypes, BeginAuthorize \/ BeginRevoke \/ OperationStep \/ EnrollStep \/ Crash
    PROVE  /\ UNCHANGED <<helper, alive, grantOf, runs>>
           /\ \A g \in Grants : print[g] # NoPrint /\ EnrollmentIsNew => copy'[g] \in {copy[g], Absent}
<1>1. UNCHANGED <<helper, alive, grantOf, runs>>
  BY DEF BeginAuthorize, BeginRevoke, StopFirst, Stop, elevVars,
             OperationStep, AskToEnroll, FilesChanged, EnrollGranted, EnrollRefused, EnrollTimesOut,
             SaveGrant, SaveGrantFails, CleanUp, RevokeGrant, ForgetGrant, RevokeWithoutProfile,
             EnrollStep, EnrollDeclined, CopyFiles, WriteRecord, SecondLook, InstallRunner, Crash, BackendDies,
             opRest, helperScope
<1>2. CASE CleanUp \/ RevokeGrant \/ InstallRunner
  <2>1. StoreShrinks
    BY <1>2, RevokeShrinks, UnchangedShrinks DEF CleanUp, RevokeGrant, InstallRunner, TryRevoke
  <2> QED  BY <1>1, <2>1 DEF StoreShrinks
<1>3. CASE WriteRecord \/ SecondLook
  <2>1. copy' = copy \/ \E what \in Folder : StoreBecomes(enroll.grant, what)
    BY <1>3 DEF WriteRecord, SecondLook, Abandon, storeVars, Folder
  <2>2. \A g \in Grants : copy'[g] \in {copy[g], Absent}
    BY <2>1 DEF StoreBecomes, AuthTypes
  <2> QED  BY <1>1, <2>2
<1>4. CASE CopyFiles
  BY <1>1, <1>4 DEF CopyFiles, Answered, EnrollmentIsNew, AuthTypes
<1>5. CASE ~(CleanUp \/ RevokeGrant \/ InstallRunner \/ WriteRecord \/ SecondLook \/ CopyFiles)
  <2>1. copy' = copy
    BY <1>5 DEF BeginAuthorize, BeginRevoke, StopFirst,
             OperationStep, AskToEnroll, FilesChanged, EnrollGranted, EnrollRefused, EnrollTimesOut,
             SaveGrant, SaveGrantFails, ForgetGrant, RevokeWithoutProfile,
             EnrollStep, EnrollDeclined, Crash, storeVars
  <2> QED  BY <1>1, <2>1
<1> QED  BY <1>2, <1>3, <1>4, <1>5

Reviewed == CheckedIsReviewed /\ ApprovedIsReviewed

LEMMA ReviewStep ==
    ASSUME ProtocolTypes, AuthTypes, EnrollmentIsNew, GrantsAreEnrolled, Reviewed, [Next]_vars
    PROVE  Reviewed'
<1> USE DEF Reviewed, CheckedIsReviewed, ApprovedIsReviewed
<1>1. ASSUME NEW a \in Attempts, StartProfile(a)
      PROVE  Reviewed'
  BY <1>1 DEF StartProfile, Launch, storeVars, ProtocolTypes, AuthTypes
<1>2. ASSUME NEW a \in Attempts, HelperDecides(a)
      PROVE  Reviewed'
  BY <1>2 DEF HelperDecides, HelperStarts, HelperBecomes, helperRest, CopyIntact, storeVars, ProtocolTypes, AuthTypes
<1>3. ASSUME NEW a \in Attempts, MinerStarts(a)
      PROVE  Reviewed'
  <2>1. grantOf[a] # NoGrant => runs'[a] \in {print[grantOf[a]][2], Overtaken}
    BY <1>3 DEF MinerStarts, SpawnMiner, HelperBecomes, ProtocolTypes, AuthTypes
  <2>2. /\ \A b \in Attempts \ {a} : helper'[b] = helper[b] /\ runs'[b] = runs[b]
        /\ helper'[a] = "supervising" /\ alive' = alive \cup {a}
        /\ UNCHANGED <<grantOf, storeVars>>
    BY <1>3 DEF MinerStarts, SpawnMiner, HelperBecomes, ProtocolTypes, AuthTypes
  <2> QED  BY <2>1, <2>2 DEF storeVars, ProtocolTypes
<1>4. ASSUME NEW a \in Attempts, AttemptStep(a)
      PROVE  Reviewed'
  <2>1. /\ UNCHANGED <<grantOf, runs, storeVars>>
        /\ alive' \subseteq alive
        /\ \A b \in Attempts : helper'[b] = "checked" => helper[b] = "checked"
    BY <1>4 DEF AttemptStep, helperRest, BackendStep, HelperBecomes,
             LaunchSucceeds, GiveUp, CancelKills, CancelReturns, Stop, StopConfirmed, StopUnconfirmed, Refresh,
             Interference, Denied, SupervisorSignalled, SupervisorKilled, MinerExits, SpawnFails,
             SupervisorStops, StopGroup, ProtocolTypes, HelperPhase
  <2> QED  BY <2>1 DEF storeVars
<1>5. CASE BeginAuthorize \/ BeginRevoke \/ OperationStep \/ EnrollStep \/ Crash
  <2>1. \A a \in Attempts : grantOf[a] # NoGrant =>
            /\ print'[grantOf[a]] = print[grantOf[a]]
            /\ copy'[grantOf[a]] \in {copy[grantOf[a]], Absent}
    BY <1>5, SnapshotsKept, PrintsStay DEF GrantsAreEnrolled, ProtocolTypes
  <2> QED  BY <1>5, <2>1, SnapshotsKept DEF ProtocolTypes
<1>6. ASSUME NEW a \in Attempts, NEW c \in Contents, MinerChangesCopy(a, c)
      PROVE  Reviewed'
  <2>1. \A b \in Attempts :
            IF helper[b] = "checked" /\ grantOf[b] = grantOf[a] THEN runs'[b] = Overtaken
            ELSE runs'[b] = runs[b]
    BY <1>6 DEF MinerChangesCopy
  <2>2. \A g \in Grants : g # grantOf[a] => copy'[g] = copy[g]
    BY <1>6 DEF MinerChangesCopy, AuthTypes
  <2> QED  BY <1>6, <2>1, <2>2 DEF MinerChangesCopy, elevVars, ProtocolTypes
<1>7. CASE (\E s \in Settings \cup {Absent} : ReplaceConfig(s)) \/ (\E c \in Contents : ChangeFiles(c)) \/ UNCHANGED vars
  BY <1>7 DEF ReplaceConfig, ChangeFiles, vars, storeVars, elevVars
<1> QED  BY <1>1, <1>2, <1>3, <1>4, <1>5, <1>6, <1>7 DEF Next

-----------------------------------------------------------------------------
LEMMA AuthorizationInvariance == Spec => []AInv
<1>1. Init => AInv
  <2> SUFFICES ASSUME Init  PROVE AInv
      OBVIOUS
  <2>1. ProtocolInv
    BY ProtocolBegins DEF Init
  <2>2. AuthTypes
    <3>1. profile \in [settings : Settings \cup {Absent}, grant : Grants \cup {NoGrant}]
      BY DEF Init
    <3>2. records = {g \in Grants : folder[g] = "full"}
      BY DEF Init
    <3> QED  BY <3>1, <3>2 DEF Init, AuthTypes, Folder
  <2>3. GrantsAreEnrolled /\ FreshIsEmpty /\ EnrollmentIsNew /\ AnswerFits /\ SaveFits
    BY DEF Init, ElevationInit, GrantsAreEnrolled, FreshIsEmpty, EnrollmentIsNew, AnswerFits, SaveFits, Doing
  <2>4. Reviewed
    BY DEF Init, ElevationInit, Reviewed, CheckedIsReviewed, ApprovedIsReviewed
  <2> QED  BY <2>1, <2>2, <2>3, <2>4 DEF AInv, Reviewed
<1>2. AInv /\ [Next]_vars => AInv'
  <2> SUFFICES ASSUME AInv, [Next]_vars  PROVE AInv'
      OBVIOUS
  <2>1. ProtocolTypes
    BY DEF AInv, ProtocolInv
  <2>2. ProtocolInv'
    BY <2>1, NextIsProtocol, ProtocolKeepsInv DEF AInv
  <2>3. AuthTypes' /\ FreshIsEmpty'
    BY <2>1, StoreFitsStep DEF AInv, StoreFits
  <2>4. EnrollmentIsNew' /\ AnswerFits' /\ SaveFits'
    BY EnrollmentStep, AnswerStep, SaveStep DEF AInv
  <2>5. GrantsAreEnrolled' /\ Reviewed'
    BY <2>1, GrantStep, ReviewStep DEF AInv, Reviewed
  <2> QED  BY <2>2, <2>3, <2>4, <2>5 DEF AInv, Reviewed
<1> QED  BY <1>1, <1>2, PTL DEF Spec

\* Every variable keeps its type; above all, the store never holds a record without
\* the snapshot it is about, whatever fails on the way.
THEOREM AuthorizationTyped == Spec => []TypeOK
<1>1. AInv => TypeOK
  BY DEF AInv, ProtocolInv, ProtocolTypes, AuthTypes, TypeOK, ElevationTypeOK
<1> QED  BY <1>1, AuthorizationInvariance, PTL

\* A miner under a grant runs the reviewed files, for any number of attempts that
\* overlap, unless one of them overtook the check of another.
THEOREM OnlyReviewedRuns == Spec => []ApprovedIsReviewed
<1>1. AInv => ApprovedIsReviewed
  BY DEF AInv
<1> QED  BY <1>1, AuthorizationInvariance, PTL

\* No grant gets into the configuration but the one just enrolled for the settings
\* that are saved with it.
THEOREM OnlyReviewsGrant == Spec => GrantsComeFromReviews
<1>1. AInv /\ [Next]_vars =>
        [profile'.grant \notin {profile.grant, NoGrant} =>
           /\ Doing("authorize", "save")
           /\ profile'.grant = op.new
           /\ print[op.new] = <<profile'.settings, op.print[2]>>]_vars
  <2> SUFFICES ASSUME AInv, [Next]_vars, profile'.grant \notin {profile.grant, NoGrant}
               PROVE  /\ Doing("authorize", "save")
                      /\ profile'.grant = op.new
                      /\ print[op.new] = <<profile'.settings, op.print[2]>>
      OBVIOUS
  <2>1. profile' # profile
    OBVIOUS
  <2>2. SaveGrant \/ ForgetGrant \/ \E s \in Settings \cup {Absent} : ReplaceConfig(s)
    BY <2>1 DEF Next, StartProfile, HelperDecides, MinerStarts, AttemptStep, BeginAuthorize, BeginRevoke, StopFirst,
           OperationStep, AskToEnroll, FilesChanged, EnrollGranted, EnrollRefused, EnrollTimesOut,
           SaveGrantFails, CleanUp, RevokeGrant, RevokeWithoutProfile,
           EnrollStep, EnrollDeclined, CopyFiles, WriteRecord, SecondLook, InstallRunner, Crash,
           ChangeFiles, MinerChangesCopy, vars, authVars, opRest, helperScope
  <2>3. ~ForgetGrant /\ ~\E s \in Settings \cup {Absent} : ReplaceConfig(s)
    BY DEF ForgetGrant, ReplaceConfig, AInv, AuthTypes
  <2>4. SaveGrant
    BY <2>2, <2>3
  <2>5. op.print = <<op.print[1], op.print[2]>>
    BY <2>4 DEF SaveGrant, AInv, SaveFits, Fingerprint
  <2> QED  BY <2>4, <2>5 DEF SaveGrant, AInv, AuthTypes, SaveFits
<1> QED  BY <1>1, AuthorizationInvariance, PTL DEF Spec, GrantsComeFromReviews
=============================================================================
