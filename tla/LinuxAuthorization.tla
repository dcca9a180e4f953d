---------------------------- MODULE LinuxAuthorization ----------------------------
(***************************************************************************)
(* Stored authorizations for unattended root starts on Linux: the dialog   *)
(* in which a user authorizes or revokes one (lib.rs and                   *)
(* linux_authorization.rs), the helper that enrolls it in a root-owned     *)
(* store (linux-helper/authorization.rs), and the launches made under it,  *)
(* by the supervisors of LinuxElevation.                                   *)
(*                                                                         *)
(* One profile.  Its settings stand for everything the launch command is   *)
(* built from; `files` is the content of the miner's folder, `copy` that   *)
(* of the root-owned snapshot.  A fingerprint binds settings and content   *)
(* (fingerprint() hashes both; the application version it also hashes is   *)
(* constant here).  A backend that is itself root could also kill the      *)
(* enrolling helper; that is left out.                                     *)
(***************************************************************************)
EXTENDS LinuxElevation

CONSTANTS
    Settings,     \* what the user may configure for the profile
    Rooted,       \* the settings with the root option
    Eligible,     \* of these, the settings enrollment() accepts
    Absent,       \* the profile has been deleted
    Contents,     \* the contents of a miner folder
    Overtaken,    \* a snapshot that changed between its check and its start
    NoOp, NoEnroll,
    Faults        \* what may go wrong

FaultKinds == {"disk",      \* the configuration cannot be written
               "store",     \* the store fails half way
               "timeout",   \* the helper answers after its time limit
               "crash"}     \* the backend dies

ASSUME AuthorizationAssumption ==
    /\ Eligible \subseteq Rooted /\ Rooted \subseteq Settings
    /\ Absent \notin Settings /\ {Absent, Overtaken} \cap Contents = {}
    /\ Absent # Overtaken
    /\ Faults \subseteq FaultKinds

Fingerprint == Settings \X Contents

VARIABLES
    profile,     \* the saved settings and grant (linux_root_authorization)
    files,       \* the miner folder
    print,       \* the fingerprint each grant was enrolled with
    copy,        \* the snapshot in each grant's directory
    folder,      \* what the store holds of each grant
    op,          \* the authorization or revocation in progress (OPERATION)
    enroll,      \* the enrolling helper
    runs         \* the snapshot the miner of an approved attempt was started from: history

storeVars == <<print, copy, folder, records>>
authVars == <<profile, files, op, enroll>>
vars == <<elevVars, runs, storeVars, authVars>>

\* A grant's directory: not there; without a record, the snapshot under way or
\* left behind; or complete.
Folder == {"none", "bare", "full"}

NoPrint == <<Absent, Absent>>

Op == [kind : {"authorize", "revoke"}, phase : {"stop", "act", "dialog", "save", "undo", "retire"},
       print : Fingerprint \cup {NoPrint},
       old : Grants \cup {NoGrant}, new : Grants \cup {NoGrant}]

Enroll == [phase : {"asking", "copied", "written", "install", "granted", "failed"},
           grant : Grants, print : Fingerprint, open : BOOLEAN]

TypeOK ==
    /\ ElevationTypeOK
    /\ profile \in [settings : Settings \cup {Absent}, grant : Grants \cup {NoGrant}]
    /\ files \in Contents
    /\ print \in [Grants -> Fingerprint \cup {NoPrint}]
    /\ copy \in [Grants -> Contents \cup {Absent}]
    /\ folder \in [Grants -> Folder]
    /\ records = {g \in Grants : folder[g] = "full"}
    /\ op \in Op \cup {NoOp}
    /\ enroll \in Enroll \cup {NoEnroll}
    /\ runs \in [Attempts -> Contents \cup {Absent, Overtaken}]

Init ==
    /\ ElevationInit
    /\ profile \in [settings : Settings, grant : {NoGrant}]
    /\ files \in Contents
    /\ print = [g \in Grants |-> NoPrint]
    /\ copy = [g \in Grants |-> Absent]
    /\ folder = [g \in Grants |-> "none"]
    /\ records = {}
    /\ op = NoOp /\ enroll = NoEnroll
    /\ runs = [a \in Attempts |-> Absent]

Current == <<profile.settings, files>>

\* A fresh random identifier.
Fresh(g) == print[g] = NoPrint /\ (enroll # NoEnroll => enroll.grant # g)

-----------------------------------------------------------------------------
(* The configuration and the folder, which change under every operation *)

\* replace_config keeps the grant the backend has for the profile, whatever the
\* client sent; a profile deleted and saved again has none.
ReplaceConfig(s) ==
    /\ profile.settings # s
    /\ profile' = [settings |-> s,
                   grant |-> IF s = Absent THEN NoGrant ELSE profile.grant]
    /\ UNCHANGED <<elevVars, runs, storeVars, files, op, enroll>>

ChangeFiles(c) ==
    /\ files' = c /\ c # files
    /\ UNCHANGED <<elevVars, runs, storeVars, profile, op, enroll>>

\* A miner running as root writes to its own snapshot, perhaps just when the next
\* launch under its grant has checked it.
MinerChangesCopy(a, c) ==
    /\ a \in alive /\ grantOf[a] # NoGrant
    /\ folder[grantOf[a]] # "none"
    /\ copy' = [copy EXCEPT ![grantOf[a]] = c]
    /\ runs' = [b \in Attempts |-> IF helper[b] = "checked" /\ grantOf[b] = grantOf[a]
                                   THEN Overtaken ELSE runs[b]]
    /\ UNCHANGED <<elevVars, print, folder, records, authVars>>

-----------------------------------------------------------------------------
(* Launches *)

\* start_miner_mode_locked for a root profile: with a grant, only while settings
\* and folder are the ones it was enrolled with (linux_authorization::spawn);
\* without one, interactively.
StartProfile(a) ==
    /\ profile.settings \in Rooted
    /\ profile.grant # NoGrant => print[profile.grant] = Current
    /\ Launch(a, profile.grant)
    /\ runs' = [runs EXCEPT ![a] = Absent]
    /\ UNCHANGED <<storeVars, authVars>>

\* The code of a snapshot still is what was enrolled (Store::approved).
CopyIntact(g) == copy[g] = print[g][2]

\* Mutation: the snapshot is not compared with the enrolled files.
HelperDecidesBlindly(a) ==
    /\ HelperStarts(a, TRUE)
    /\ UNCHANGED <<runs, storeVars, authVars>>

\* The approved helper loads the record and compares fingerprint and snapshot; the
\* interactive helper starts what the user just confirmed.
HelperDecides(a) ==
    /\ HelperStarts(a, grantOf[a] = NoGrant \/ CopyIntact(grantOf[a]))
    /\ UNCHANGED <<runs, storeVars, authVars>>

\* The miner starts from the snapshot as it is then, if it is still there.
MinerStarts(a) ==
    /\ grantOf[a] # NoGrant => copy[grantOf[a]] # Absent
    /\ SpawnMiner(a)
    /\ runs' = IF grantOf[a] = NoGrant \/ runs[a] = Overtaken THEN runs
               ELSE [runs EXCEPT ![a] = copy[grantOf[a]]]
    /\ UNCHANGED <<storeVars, authVars>>

\* Every other step of an attempt, and the stop the operation waits for: it goes
\* on when the stop was confirmed and ends with an error when it was not.
AttemptStep(a) ==
    /\ \/ BackendStep(a) \/ Interference(a)
       \/ SpawnFails(a) \/ SupervisorStops(a) \/ StopGroup(a)
    /\ op' = IF op = NoOp \/ op.phase # "stop" \/ call = NoCall \/ call' # NoCall THEN op
             ELSE IF tracked' = NoAttempt THEN [op EXCEPT !.phase = "act"] ELSE NoOp
    /\ UNCHANGED <<runs, storeVars, profile, files, enroll>>

-----------------------------------------------------------------------------
(* The operations of the backend, one at a time *)

NewOp(kind, phase, seen) ==
    [kind |-> kind, phase |-> phase, print |-> seen, old |-> profile.grant, new |-> NoGrant]

\* Both operations begin with a stop of the profile.
StopFirst(kind, seen) ==
    /\ op = NoOp /\ call = NoCall
    /\ profile.settings # Absent
    /\ \/ /\ tracked = NoAttempt
          /\ op' = NewOp(kind, "act", seen)
          /\ UNCHANGED elevVars
       \/ /\ tracked # NoAttempt
          /\ Stop(tracked)
          /\ op' = NewOp(kind, "stop", seen)
    /\ UNCHANGED <<runs, storeVars, profile, files, enroll>>

\* The user confirms the commands shown for the settings and files of now.
BeginAuthorize ==
    /\ profile.settings \in Eligible
    /\ StopFirst("authorize", Current)

BeginRevoke == StopFirst("revoke", NoPrint)

Doing(kind, phase) == op # NoOp /\ op.kind = kind /\ op.phase = phase

opRest == <<elevVars, runs, profile, files>>

\* linux_authorization::authorize compares the files again and starts the
\* enrolling helper; the lifecycle mutex is free while its dialog is open.
AskToEnroll(g) ==
    /\ Doing("authorize", "act") /\ enroll = NoEnroll /\ Fresh(g)
    /\ op.print[2] = files
    /\ enroll' = [phase |-> "asking", grant |-> g, print |-> op.print, open |-> TRUE]
    /\ op' = [op EXCEPT !.phase = "dialog", !.new = g]
    /\ UNCHANGED <<opRest, storeVars>>

FilesChanged ==
    /\ Doing("authorize", "act") /\ op.print[2] # files
    /\ op' = NoOp
    /\ UNCHANGED <<opRest, storeVars, enroll>>

Answered(phase) == enroll # NoEnroll /\ enroll.phase = phase

EnrollGranted ==
    /\ Doing("authorize", "dialog") /\ Answered("granted")
    /\ op' = [op EXCEPT !.phase = "save"]
    /\ enroll' = NoEnroll
    /\ UNCHANGED <<opRest, storeVars>>

EnrollRefused ==
    /\ Doing("authorize", "dialog") /\ Answered("failed")
    /\ op' = NoOp
    /\ enroll' = NoEnroll
    /\ UNCHANGED <<opRest, storeVars>>

\* The owner's pipe is closed, the launcher killed while it still asks, and the
\* operation ends with an error.
EnrollTimesOut ==
    /\ "timeout" \in Faults
    /\ Doing("authorize", "dialog") /\ enroll # NoEnroll
    /\ enroll' = IF enroll.phase \in {"asking", "granted", "failed"} THEN NoEnroll
                 ELSE [enroll EXCEPT !.open = FALSE]
    /\ op' = NoOp
    /\ UNCHANGED <<opRest, storeVars>>

\* Mutation: the grant is saved without a look at the settings of now.
SaveGrantBlindly ==
    /\ Doing("authorize", "save")
    /\ profile.settings # Absent
    /\ profile' = [profile EXCEPT !.grant = op.new]
    /\ op' = [op EXCEPT !.phase = "retire"]
    /\ UNCHANGED <<elevVars, runs, storeVars, files, enroll>>

\* Under the configuration lock, with the settings of now.
SaveGrant ==
    /\ Doing("authorize", "save")
    /\ profile.settings = op.print[1]
    /\ profile' = [profile EXCEPT !.grant = op.new]
    /\ op' = [op EXCEPT !.phase = "retire"]
    /\ UNCHANGED <<elevVars, runs, storeVars, files, enroll>>

SaveGrantFails ==
    /\ Doing("authorize", "save")
    /\ profile.settings # op.print[1] \/ "disk" \in Faults
    /\ op' = [op EXCEPT !.phase = "undo"]
    /\ UNCHANGED <<opRest, storeVars, enroll>>

\* Mutation: the directory goes before the record.
RecordKept(g, what) ==
    /\ folder' = [folder EXCEPT ![g] = what]
    /\ records' = IF what = "full" THEN records \cup {g} ELSE records
    /\ copy' = IF what = "none" THEN [copy EXCEPT ![g] = Absent] ELSE copy

StoreBecomes(g, what) ==
    /\ folder' = [folder EXCEPT ![g] = what]
    /\ records' = IF what = "full" THEN records \cup {g} ELSE records \ {g}
    /\ copy' = IF what = "none" THEN [copy EXCEPT ![g] = Absent] ELSE copy

\* Store::revoke through the approved helper.  The record goes first, then the
\* directory; a directory without a record is refused.
RevokeSucceeds(g) ==
    /\ folder[g] \in {"none", "full"}
    /\ StoreBecomes(g, "none")

RevokeFails(g) ==
    \/ folder[g] = "bare" /\ UNCHANGED <<folder, records, copy>>
    \/ "store" \in Faults /\ folder[g] = "full" /\ StoreBecomes(g, "bare")
    \/ "timeout" \in Faults /\ folder[g] = "full" /\ StoreBecomes(g, "none")
    \/ "store" \in Faults /\ UNCHANGED <<folder, records, copy>>

TryRevoke(g) == RevokeSucceeds(g) \/ RevokeFails(g)

\* The new grant after a failed save, the old one after a successful one; that
\* either may fail is ignored.
CleanUp ==
    /\ \/ Doing("authorize", "undo") /\ TryRevoke(op.new)
       \/ Doing("authorize", "retire") /\ op.old # NoGrant /\ TryRevoke(op.old)
       \/ Doing("authorize", "retire") /\ op.old = NoGrant /\ UNCHANGED <<folder, records, copy>>
    /\ op' = NoOp
    /\ UNCHANGED <<opRest, print, enroll>>

\* Revocation: the grant of now, first in the store, then in the configuration.
RevokeGrant ==
    /\ Doing("revoke", "act") /\ profile.settings # Absent
    /\ \/ /\ profile.grant # NoGrant /\ RevokeSucceeds(profile.grant)
          /\ op' = [op EXCEPT !.phase = "save", !.old = profile.grant]
       \/ /\ profile.grant # NoGrant /\ RevokeFails(profile.grant)
          /\ op' = NoOp
       \/ /\ profile.grant = NoGrant
          /\ op' = [op EXCEPT !.phase = "save", !.old = NoGrant]
          /\ UNCHANGED <<folder, records, copy>>
    /\ UNCHANGED <<opRest, print, enroll>>

ForgetGrant ==
    /\ Doing("revoke", "save")
    /\ \/ /\ profile.settings # Absent
          /\ profile' = IF profile.grant = op.old THEN [profile EXCEPT !.grant = NoGrant]
                        ELSE profile
       \/ /\ profile.settings = Absent \/ "disk" \in Faults
          /\ UNCHANGED profile
    /\ op' = NoOp
    /\ UNCHANGED <<elevVars, runs, storeVars, files, enroll>>

RevokeWithoutProfile ==
    /\ Doing("revoke", "act") /\ profile.settings = Absent
    /\ op' = NoOp
    /\ UNCHANGED <<opRest, storeVars, enroll>>

-----------------------------------------------------------------------------
(* The enrolling helper (enroll_from_stdin, Store::enroll) *)

helperScope == <<opRest, op>>

EnrollTo(phase) == enroll' = [enroll EXCEPT !.phase = phase]

\* A helper nobody listens to any more just ends.
EnrollEnds == enroll' = IF enroll.open THEN [enroll EXCEPT !.phase = "failed"] ELSE NoEnroll

\* The dialog is declined, or the pipe was closed before the approval.
EnrollDeclined ==
    /\ Answered("asking")
    /\ EnrollEnds
    /\ UNCHANGED <<helperScope, storeVars>>

\* The folder is copied, and what was copied compared with what was reviewed.
CopyFiles ==
    /\ Answered("asking") /\ enroll.open
    /\ LET g == enroll.grant
       IN  IF files = enroll.print[2]
           THEN /\ copy' = [copy EXCEPT ![g] = files]
                /\ print' = [print EXCEPT ![g] = enroll.print]
                /\ folder' = [folder EXCEPT ![g] = "bare"]
                /\ EnrollTo("copied")
           ELSE EnrollEnds /\ UNCHANGED <<print, copy, folder>>
    /\ UNCHANGED <<helperScope, records>>

\* The directory is removed when the enrollment fails, if it can be.
Abandon ==
    /\ \/ StoreBecomes(enroll.grant, "none")
       \/ "store" \in Faults /\ StoreBecomes(enroll.grant, "bare")
    /\ EnrollEnds

WriteRecord ==
    /\ Answered("copied")
    /\ \/ enroll.open /\ StoreBecomes(enroll.grant, "full") /\ EnrollTo("written")
       \/ (~enroll.open \/ "store" \in Faults) /\ Abandon
    /\ UNCHANGED <<helperScope, print>>

\* The second look at the owner's pipe.
SecondLook ==
    /\ Answered("written")
    /\ IF enroll.open THEN EnrollTo("install") /\ UNCHANGED storeVars
       ELSE Abandon /\ UNCHANGED print
    /\ UNCHANGED helperScope

\* install_runner, and the answer on the helper's output, which is written
\* whether or not somebody still reads it.
InstallRunner ==
    /\ Answered("install")
    /\ \/ /\ enroll' = IF enroll.open THEN [enroll EXCEPT !.phase = "granted"] ELSE NoEnroll
          /\ UNCHANGED <<folder, records, copy>>
       \/ /\ "store" \in Faults
          /\ TryRevoke(enroll.grant)
          /\ EnrollEnds
    /\ UNCHANGED <<helperScope, print>>

-----------------------------------------------------------------------------
\* The backend dies: its operation with it, its pipes are closed.
Crash ==
    /\ "crash" \in Faults
    /\ BackendDies
    /\ op' = NoOp
    /\ enroll' = IF enroll = NoEnroll \/ enroll.phase \in {"granted", "failed"} THEN NoEnroll
                 ELSE [enroll EXCEPT !.open = FALSE]
    /\ UNCHANGED <<runs, storeVars, profile, files>>

OperationStep ==
    \/ \E g \in Grants : AskToEnroll(g)
    \/ FilesChanged \/ EnrollGranted \/ EnrollRefused \/ EnrollTimesOut
    \/ SaveGrant \/ SaveGrantFails \/ CleanUp
    \/ RevokeGrant \/ ForgetGrant \/ RevokeWithoutProfile

EnrollStep == EnrollDeclined \/ CopyFiles \/ WriteRecord \/ SecondLook \/ InstallRunner

Next ==
    \/ \E a \in Attempts : StartProfile(a) \/ HelperDecides(a) \/ MinerStarts(a) \/ AttemptStep(a)
    \/ BeginAuthorize \/ BeginRevoke
    \/ OperationStep \/ EnrollStep \/ Crash
    \/ \E s \in Settings \cup {Absent} : ReplaceConfig(s)
    \/ \E c \in Contents : ChangeFiles(c)
    \/ \E a \in Attempts, c \in Contents : MinerChangesCopy(a, c)

Spec == Init /\ [][Next]_vars

-----------------------------------------------------------------------------
\* A miner launched under a grant runs the files that the user reviewed when the
\* grant was made, whatever was written since to the folder, to the snapshot by an
\* earlier miner, or to the folder while it was being copied.  (Only a miner of a
\* launch given up, not ended yet, can overtake the check of the next one.)
ApprovedIsReviewed ==
    \A a \in alive : grantOf[a] # NoGrant => runs[a] \in {print[grantOf[a]][2], Overtaken}

\* A grant gets into the configuration only through an authorization that ends,
\* and for the settings reviewed in it: not through a save of the configuration
\* by a client that still shows an older grant, nor after an edit during the
\* dialog.
GrantsComeFromReviews ==
    [][profile'.grant \notin {profile.grant, NoGrant} =>
         /\ Doing("authorize", "save")
         /\ profile'.grant = op.new
         /\ print[op.new] = <<profile'.settings, op.print[2]>>]_vars
=============================================================================
