-------------------------------- MODULE AppUpdates --------------------------------
(***************************************************************************)
(* Updates of the Desktop (app_updates.rs) and the starts of its backend   *)
(* (start_desktop_backend of lib.rs) that run beside them.  A check reads  *)
(* the newest release through a cache shared with the web clients, then    *)
(* the manifest of that release, and keeps the update it found; an         *)
(* installation downloads and verifies it, stops mining, and hands over    *)
(* to the installer.  On Windows the backend is a process of its own that  *)
(* has to be gone first, elsewhere it lives in the Desktop.  Every await   *)
(* is a step: releases are published, web clients ask, and the user        *)
(* presses buttons meanwhile.                                              *)
(***************************************************************************)
EXTENDS Naturals

CONSTANTS
    Versions,     \* version numbers; the first one is installed at the beginning
    NoVersion,
    Fail          \* a release that could not be read

ASSUME VersionAssumption ==
    /\ Versions \subseteq Nat /\ 1 \in Versions
    /\ NoVersion \notin Nat /\ Fail # NoVersion

VARIABLES
    windows,      \* the platform
    installed,    \* the version that runs
    latest,       \* the newest release on GitHub
    cache,        \* the release read last, and how old the answer is
    busy,         \* DesktopUpdates.busy
    pending,      \* the version of DesktopUpdates.pending
    job,          \* the check or the installation that holds `busy`
    blocked,      \* DESKTOP_EXIT_SHUTDOWN_STARTED, or CoreState.shutting_down
    backend,      \* the backend: "up", "stopping" or "down"
    mining,       \* whether it runs miners
    starter       \* a start_desktop_backend in progress

updateVars == <<windows, installed, latest, cache, busy, pending, job,
                blocked, backend, mining, starter>>
webVars == <<windows, installed, latest, cache>>
backendVars == <<blocked, backend, mining, starter>>

\* A release: `final` is neither a draft nor a prerelease and belongs to MinerDesk;
\* `manifest` is the version its latest.json offers under the right address.
Release == [version : Versions, final : BOOLEAN, manifest : Versions \cup {NoVersion}]

\* Answers are up to a minute old, up to six hours, or older.
Fresh == 0
Recent == 1
Old == 2

Idle == [phase |-> "idle"]
Job == [phase : {"asking"}, force : BOOLEAN]
       \cup [phase : {"manifest"}, version : Versions]
       \cup [phase : {"downloading", "handover", "waiting", "installing"},
             version : Versions, confirmed : Versions]

UpdateTypeOK ==
    /\ windows \in BOOLEAN
    /\ installed \in Versions
    /\ latest \in Release
    /\ cache \in [release : Release \cup {Fail, NoVersion}, age : {Fresh, Recent, Old}]
    /\ pending \in Versions \cup {NoVersion}
    /\ job \in Job \cup {Idle}
    /\ busy = (job # Idle)
    /\ blocked \in BOOLEAN
    /\ backend \in {"up", "stopping", "down"} /\ mining \in BOOLEAN
    /\ starter \in {"idle", "launching"}

Init ==
    /\ windows \in BOOLEAN
    /\ installed = 1
    /\ latest = [version |-> 1, final |-> TRUE, manifest |-> 1]
    /\ cache = [release |-> NoVersion, age |-> Old]
    /\ busy = FALSE /\ pending = NoVersion /\ job = Idle
    /\ blocked = FALSE /\ backend \in {"up", "down"} /\ mining = FALSE /\ starter = "idle"

-----------------------------------------------------------------------------
(* The release and its cache *)

\* Releases only move forward; a draft may become final, a manifest be replaced.
Publish ==
    /\ latest' \in {r \in Release : r.version >= latest.version} \ {latest}
    /\ UNCHANGED <<windows, installed, cache, busy, pending, job, backendVars>>

TimePasses ==
    /\ cache.age # Old
    /\ cache' = [cache EXCEPT !.age = @ + 1]
    /\ UNCHANGED <<windows, installed, latest, busy, pending, job, backendVars>>

\* notification: an answer is used again for six hours, for a minute when it was an
\* error or when the question is pressing.
Notified(force, release) ==
    LET limit == IF force \/ cache.release = Fail THEN Recent ELSE Old
    IN  IF cache.age >= limit
        THEN release \in {latest, Fail} /\ cache' = [release |-> release, age |-> Fresh]
        ELSE release = cache.release /\ UNCHANGED cache

\* A web client asks for the notification; on Windows the backend that serves it
\* has a cache of its own.
WebAsks ==
    /\ ~windows
    /\ \E force \in BOOLEAN, release \in Release \cup {Fail, NoVersion} : Notified(force, release)
    /\ UNCHANGED <<windows, installed, latest, busy, pending, job, backendVars>>

\* release_version: the version of a release that is newer than the installed one.
NewVersion(release) ==
    IF release \in Release /\ release.final /\ release.version > installed
    THEN release.version ELSE NoVersion

-----------------------------------------------------------------------------
(* check_app_update *)

Released(to) == busy' = FALSE /\ job' = to

Check(force) ==
    /\ ~busy
    /\ busy' = TRUE
    /\ job' = [phase |-> "asking", force |-> force]
    /\ UNCHANGED <<webVars, pending, backendVars>>

\* The answer has come: an error ends the check and leaves the update found
\* before, everything else forgets it first.
CheckAnswered(release) ==
    /\ job.phase = "asking"
    /\ Notified(job.force, release)
    /\ pending' = IF release = Fail THEN pending ELSE NoVersion
    /\ IF release = Fail \/ NewVersion(release) = NoVersion THEN Released(Idle)
       ELSE job' = [phase |-> "manifest", version |-> NewVersion(release)] /\ UNCHANGED busy
    /\ UNCHANGED <<windows, installed, latest, backendVars>>

\* The installation cannot be updated in place (portable, read-only, package).
CheckUnsupported(release) ==
    /\ job.phase = "asking" /\ release # Fail
    /\ Notified(job.force, release)
    /\ pending' = NoVersion
    /\ Released(Idle)
    /\ UNCHANGED <<windows, installed, latest, backendVars>>

\* The manifest counts when it offers the version of the release; another
\* release may have been published since.
CheckManifest ==
    /\ job.phase = "manifest"
    /\ \/ latest.manifest = job.version /\ pending' = job.version
       \/ UNCHANGED pending
    /\ Released(Idle)
    /\ UNCHANGED <<webVars, backendVars>>

-----------------------------------------------------------------------------
(* install_app_update *)

\* Mutation: the pending update is installed, whichever was confirmed.
InstallPending(version) ==
    /\ ~busy /\ pending # NoVersion
    /\ busy' = TRUE
    /\ job' = [phase |-> "downloading", version |-> pending, confirmed |-> version]
    /\ UNCHANGED <<webVars, pending, backendVars>>

\* Mutation: mining is stopped before there is anything to install.
InstallStopsFirst(version) ==
    /\ ~busy /\ pending = version
    /\ busy' = TRUE
    /\ job' = [phase |-> "downloading", version |-> pending, confirmed |-> version]
    /\ mining' = FALSE
    /\ UNCHANGED <<webVars, pending, blocked, backend, starter>>

\* The user has confirmed `version`, perhaps in a dialog that is no longer true.
Install(version) ==
    /\ ~busy /\ pending = version
    /\ busy' = TRUE
    /\ job' = [phase |-> "downloading", version |-> pending, confirmed |-> version]
    /\ UNCHANGED <<webVars, pending, backendVars>>

\* Mutation: the guard is not released by a failure.
DownloadFailsBusy ==
    /\ job.phase = "downloading"
    /\ job' = Idle
    /\ UNCHANGED <<webVars, busy, pending, backendVars>>

DownloadFails ==
    /\ job.phase = "downloading"
    /\ Released(Idle)
    /\ UNCHANGED <<webVars, pending, backendVars>>

Goes(phase) == job' = [job EXCEPT !.phase = phase] /\ UNCHANGED busy

\* The bytes are complete and their signature is MinerDesk's.  On Windows the
\* Desktop stops starting backends; elsewhere its own miners are stopped.
Downloaded ==
    /\ job.phase = "downloading"
    /\ blocked' = TRUE
    /\ IF windows THEN Goes("handover") /\ UNCHANGED mining
                  ELSE Goes("installing") /\ mining' = FALSE
    /\ UNCHANGED <<webVars, pending, backend, starter>>

\* The request to stop cannot be delivered, and the update is given up.
HandoverFails ==
    /\ job.phase = "handover" /\ backend # "down"
    /\ blocked' = FALSE
    /\ Released(Idle)
    /\ UNCHANGED <<webVars, pending, backend, mining, starter>>

\* A backend that answers is asked to stop.  One that does not answer the single
\* probe is taken to be down, also when it is only busy.
HandoverAsked ==
    /\ job.phase = "handover"
    /\ \/ backend # "down" /\ Goes("waiting") /\ backend' = "stopping"
       \/ Goes("installing") /\ UNCHANGED backend
    /\ UNCHANGED <<webVars, pending, blocked, mining, starter>>

\* api_backend_shutdown: the miners are stopped, then the process ends.
BackendStops ==
    /\ backend = "stopping"
    /\ backend' = "down" /\ mining' = FALSE
    /\ UNCHANGED <<webVars, busy, pending, job, blocked, starter>>

\* One probe without an answer is enough here too.
BackendGone ==
    /\ job.phase = "waiting"
    /\ Goes("installing")
    /\ UNCHANGED <<webVars, pending, backendVars>>

\* Mutation: the Desktop is not allowed to start backends again.
BackendStaysBlocked ==
    /\ job.phase = "waiting" /\ backend # "down"
    /\ Released(Idle)
    /\ UNCHANGED <<webVars, pending, backendVars>>

\* After five seconds the backend is still there: the update is given up.
BackendStays ==
    /\ job.phase = "waiting" /\ backend # "down"
    /\ blocked' = FALSE
    /\ Released(Idle)
    /\ UNCHANGED <<webVars, pending, backend, mining, starter>>

\* The installer fails or is declined.
InstallFails ==
    /\ job.phase = "installing"
    /\ blocked' = FALSE
    /\ Released(Idle)
    /\ UNCHANGED <<webVars, pending, backend, mining, starter>>

\* The installer ends this Desktop and starts the new one, or this one does.
Installed ==
    /\ job.phase = "installing"
    /\ installed' = job.version
    /\ Released(Idle) /\ pending' = NoVersion /\ blocked' = FALSE
    /\ cache' = [release |-> NoVersion, age |-> Old]
    /\ starter' = "idle"
    /\ UNCHANGED <<windows, latest, backend, mining>>

-----------------------------------------------------------------------------
(* The backend *)

\* start_desktop_backend, asked for by the splash screen or a button.
StartBackend ==
    /\ starter = "idle" /\ ~blocked /\ backend = "down"
    /\ starter' = "launching"
    /\ UNCHANGED <<webVars, busy, pending, job, blocked, backend, mining>>

\* restart_privileged_backend ends the task of the backend, and its miners with it.
RestartBackend ==
    /\ windows /\ starter = "idle" /\ ~blocked
    /\ starter' = "launching"
    /\ backend' = "down" /\ mining' = FALSE
    /\ UNCHANGED <<webVars, busy, pending, job, blocked>>

\* The task or the elevated launch has brought it up, or it has not come.
BackendStarts ==
    /\ starter = "launching"
    /\ starter' = "idle"
    /\ backend' \in {"up", backend}
    /\ UNCHANGED <<webVars, busy, pending, job, blocked, mining>>

\* serve_bound_web of a Desktop ends or cannot bind its port; its miners go on.
WebServerEnds ==
    /\ ~windows /\ backend = "up"
    /\ backend' = "down"
    /\ UNCHANGED <<webVars, busy, pending, job, blocked, mining, starter>>

Mine ==
    /\ IF windows THEN backend = "up" ELSE ~blocked
    /\ mining' = TRUE
    /\ UNCHANGED <<webVars, busy, pending, job, blocked, backend, starter>>

-----------------------------------------------------------------------------
JobStep ==
    \/ \E release \in Release \cup {Fail, NoVersion} :
           CheckAnswered(release) \/ CheckUnsupported(release)
    \/ CheckManifest
    \/ DownloadFails \/ Downloaded \/ HandoverFails \/ HandoverAsked
    \/ BackendGone \/ BackendStays \/ InstallFails \/ Installed

Next ==
    \/ Publish \/ TimePasses \/ WebAsks
    \/ \E force \in BOOLEAN : Check(force)
    \/ \E version \in Versions : Install(version)
    \/ JobStep
    \/ BackendStops \/ StartBackend \/ RestartBackend \/ BackendStarts \/ WebServerEnds \/ Mine

\* Every request of a check or an installation has a time limit; that the user
\* answers the password dialog of a Debian package some day is assumed.
Spec == Init /\ [][Next]_updateVars /\ WF_updateVars(JobStep)

-----------------------------------------------------------------------------
\* What gets installed is the version the user confirmed and newer than the one
\* that runs, however many checks, releases and clicks fall in between.
InstallsWhatWasConfirmed ==
    [][installed' # installed =>
           installed' = job.confirmed /\ installed' > installed]_updateVars

\* An update interrupts mining only for bytes that have been verified and, on
\* Windows, only once the Desktop has stopped starting backends; a check, a click on
\* a dialog that is no longer true or a failed download interrupts nothing.
InterruptsOnlyToInstall ==
    [][/\ mining /\ ~mining' => \/ job.phase = "downloading" /\ job'.phase = "installing"
                                \/ backend = "stopping"
                                \/ starter' = "launching"
       /\ backend = "up" /\ backend' = "stopping" => job.phase = "handover" /\ blocked
      ]_updateVars

\* A Desktop that may not start its backend is one that hands over to an installer:
\* no failed update leaves it that way.
BlockedOnlyInHandover == blocked => busy /\ job.phase \in {"handover", "waiting", "installing"}

\* Every update comes to an end, and with it the block on backend starts.
UpdateEnds == busy ~> ~busy
=============================================================================
