----------------------------- MODULE AppUpdates_proofs -----------------------------
(***************************************************************************)
(* Theorems about AppUpdates, for any set of versions: its types, the      *)
(* block on backend starts, and the two promises about what an update may  *)
(* install and interrupt.  Checks and installations share one guard        *)
(* (busy), so what a job found to be newer when it began still is when it  *)
(* ends; that is the part of the invariant the properties do not say.      *)
(***************************************************************************)
EXTENDS AppUpdates, TLAPS

HandingOver == {"handover", "waiting", "installing"}

\* The phases of a job after which an installation can follow.
Installing == {"downloading"} \cup HandingOver

\* Whatever is on its way to be installed is newer than what runs, and an
\* installation installs what was confirmed.
OnlyNewer ==
    /\ pending # NoVersion => pending > installed
    /\ job.phase = "manifest" => job.version > installed
    /\ job.phase \in Installing => job.version > installed /\ job.version = job.confirmed

\* The block lasts exactly as long as the hand-over.
BlockFits == blocked <=> job.phase \in HandingOver

UInv == UpdateTypeOK /\ OnlyNewer /\ BlockFits

-----------------------------------------------------------------------------
\* The phase of a job says which fields it has.
LEMMA JobKinds ==
    ASSUME UpdateTypeOK
    PROVE  /\ job.phase \in {"idle", "asking", "manifest"} \cup Installing
           /\ job.phase = "idle" <=> job = Idle
           /\ job.phase = "idle" <=> ~busy
           /\ job.phase = "asking" => job.force \in BOOLEAN
           /\ job.phase = "manifest" => job.version \in Versions
           /\ job.phase \in Installing =>
                 /\ job.version \in Versions /\ job.confirmed \in Versions
                 /\ job = [phase |-> job.phase, version |-> job.version, confirmed |-> job.confirmed]
<1> USE DEF Idle
<1>1. CASE job = Idle
  BY <1>1 DEF UpdateTypeOK, Installing, HandingOver
<1>2. CASE job \in [phase : {"asking"}, force : BOOLEAN]
  <2>1. job.phase = "asking" /\ job.phase # Idle.phase
    BY <1>2
  <2> QED  BY <1>2, <2>1 DEF UpdateTypeOK, Installing, HandingOver
<1>3. CASE job \in [phase : {"manifest"}, version : Versions]
  <2>1. job.phase = "manifest" /\ job.phase # Idle.phase
    BY <1>3
  <2> QED  BY <1>3, <2>1 DEF UpdateTypeOK, Installing, HandingOver
<1>4. CASE job \in [phase : Installing, version : Versions, confirmed : Versions]
  <2>1. /\ job.phase \in Installing /\ job.version \in Versions /\ job.confirmed \in Versions
        /\ job = [phase |-> job.phase, version |-> job.version, confirmed |-> job.confirmed]
    BY <1>4
  <2>2. job.phase # "idle" /\ job.phase # "asking" /\ job.phase # "manifest" /\ job # Idle
    BY <2>1 DEF Installing, HandingOver
  <2> QED  BY <2>1, <2>2 DEF UpdateTypeOK
<1> QED  BY <1>1, <1>2, <1>3, <1>4 DEF UpdateTypeOK, Job, Installing, HandingOver

\* A job that goes on to another phase keeps its fields.
LEMMA JobGoesOn ==
    ASSUME UpdateTypeOK, NEW p \in HandingOver, job.phase \in Installing, Goes(p)
    PROVE  /\ job' \in Job /\ job' # Idle /\ busy' = busy
           /\ job'.phase = p /\ job'.version = job.version /\ job'.confirmed = job.confirmed
<1>1. job = [phase |-> job.phase, version |-> job.version, confirmed |-> job.confirmed]
      /\ job.version \in Versions /\ job.confirmed \in Versions
  BY JobKinds
<1>2. job' = [phase |-> p, version |-> job.version, confirmed |-> job.confirmed]
  BY <1>1 DEF Goes
<1> QED  BY <1>1, <1>2 DEF Goes, Job, Idle, HandingOver

\* A cached answer is a release, an error, or nothing.
LEMMA NotifiedType ==
    ASSUME UpdateTypeOK, NEW force \in BOOLEAN, NEW release, Notified(force, release)
    PROVE  /\ cache' \in [release : Release \cup {Fail, NoVersion}, age : {Fresh, Recent, Old}]
           /\ NewVersion(release) # NoVersion =>
                 NewVersion(release) \in Versions /\ NewVersion(release) > installed
<1>1. latest \in Release
  BY DEF UpdateTypeOK
<1>2. cache' \in [release : Release \cup {Fail, NoVersion}, age : {Fresh, Recent, Old}]
  BY <1>1 DEF Notified, UpdateTypeOK
<1>3. NewVersion(release) # NoVersion =>
        NewVersion(release) \in Versions /\ NewVersion(release) > installed
  BY DEF NewVersion, Release
<1> QED  BY <1>2, <1>3

LEMMA InitUpdates == Init => UInv
<1> SUFFICES ASSUME Init PROVE UInv
  OBVIOUS
<1>1. UpdateTypeOK
  BY VersionAssumption DEF Init, UpdateTypeOK, Release, Idle, Job, Fresh, Recent, Old
<1> QED  BY <1>1 DEF Init, UInv, OnlyNewer, BlockFits, Idle, Installing, HandingOver

-----------------------------------------------------------------------------
\* The steps of releases, clients and backends leave a job alone.
LEMMA WorldStep ==
    ASSUME UInv,
           \/ Publish \/ TimePasses \/ WebAsks
           \/ BackendStops \/ StartBackend \/ RestartBackend \/ BackendStarts
           \/ WebServerEnds \/ Mine
    PROVE  UInv'
<1>1. /\ UNCHANGED <<windows, installed, busy, pending, job, blocked>>
      /\ latest' \in Release /\ backend' \in {"up", "stopping", "down"}
      /\ mining' \in BOOLEAN /\ starter' \in {"idle", "launching"}
  BY DEF UInv, UpdateTypeOK, Publish, TimePasses, WebAsks, BackendStops, StartBackend,
         RestartBackend, BackendStarts, WebServerEnds, Mine, backendVars, webVars
<1>2. cache' \in [release : Release \cup {Fail, NoVersion}, age : {Fresh, Recent, Old}]
  <2>1. CASE TimePasses
    BY <2>1 DEF TimePasses, UInv, UpdateTypeOK, Fresh, Recent, Old
  <2>2. CASE WebAsks
    <3>1. PICK force \in BOOLEAN, release \in Release \cup {Fail, NoVersion} :
            Notified(force, release)
      BY <2>2 DEF WebAsks
    <3> QED  BY <3>1, NotifiedType DEF UInv
  <2>3. CASE UNCHANGED cache
    BY <2>3 DEF UInv, UpdateTypeOK
  <2> QED
    BY <2>1, <2>2, <2>3 DEF Publish, BackendStops, StartBackend, RestartBackend, BackendStarts,
       WebServerEnds, Mine, webVars
<1>3. UpdateTypeOK'
  BY <1>1, <1>2 DEF UInv, UpdateTypeOK, Release
<1> QED  BY <1>1, <1>3 DEF UInv, OnlyNewer, BlockFits

\* A check ends with nothing, or with a version newer than the installed one.
LEMMA CheckStep ==
    ASSUME UInv,
           \/ \E force \in BOOLEAN : Check(force)
           \/ \E release \in Release \cup {Fail, NoVersion} :
                  CheckAnswered(release) \/ CheckUnsupported(release)
           \/ CheckManifest
    PROVE  UInv'
<1> USE DEF UInv
<1>1. ASSUME NEW force \in BOOLEAN, Check(force)  PROVE UInv'
  <2>1. job = Idle /\ job'.phase = "asking" /\ job' \in Job /\ job' # Idle
    BY <1>1 DEF Check, UpdateTypeOK, Job, Idle
  <2>2. UpdateTypeOK'
    BY <1>1, <2>1 DEF Check, webVars, backendVars, UpdateTypeOK
  <2> QED
    BY <1>1, <2>1, <2>2 DEF Check, webVars, backendVars, OnlyNewer, BlockFits, Idle, Installing,
       HandingOver
<1>2. ASSUME NEW release \in Release \cup {Fail, NoVersion},
             CheckAnswered(release) \/ CheckUnsupported(release)
      PROVE  UInv'
  <2>1. /\ job.phase = "asking" /\ job.force \in BOOLEAN
        /\ Notified(job.force, release)
        /\ UNCHANGED <<windows, installed, latest, backendVars>>
        /\ pending' \in {pending, NoVersion}
    BY <1>2, JobKinds DEF CheckAnswered, CheckUnsupported
  <2>2. \/ busy' = FALSE /\ job' = Idle
        \/ /\ busy' = TRUE
           /\ NewVersion(release) # NoVersion
           /\ job' = [phase |-> "manifest", version |-> NewVersion(release)]
    BY <1>2, <2>1, JobKinds DEF CheckAnswered, CheckUnsupported, Released
  <2>3. NewVersion(release) # NoVersion =>
          NewVersion(release) \in Versions /\ NewVersion(release) > installed
    BY <2>1, NotifiedType
  <2>4. cache' \in [release : Release \cup {Fail, NoVersion}, age : {Fresh, Recent, Old}]
    BY <2>1, NotifiedType
  <2>5. UpdateTypeOK'
    <3>1. job' \in Job \cup {Idle} /\ busy' = (job' # Idle)
      <4>1. CASE job' = Idle /\ busy' = FALSE
        BY <4>1
      <4>2. CASE busy' = TRUE /\ job' \in [phase : {"manifest"}, version : Versions]
        <5>1. job'.phase # Idle.phase
          BY <4>2 DEF Idle
        <5> QED  BY <4>2, <5>1 DEF Job
      <4>3. CASE /\ busy' = TRUE /\ NewVersion(release) # NoVersion
                 /\ job' = [phase |-> "manifest", version |-> NewVersion(release)]
        <5>1. NewVersion(release) \in Versions
          BY <2>3, <4>3
        <5> QED  BY <4>2, <4>3, <5>1
      <4> QED  BY <2>2, <4>1, <4>3
    <3> QED  BY <2>1, <2>4, <3>1 DEF UpdateTypeOK, backendVars
  <2>6. OnlyNewer'
    BY <2>1, <2>2, <2>3 DEF OnlyNewer, Idle, Installing, HandingOver
  <2>7. BlockFits'
    BY <2>1, <2>2 DEF BlockFits, Idle, HandingOver, backendVars
  <2> QED  BY <2>5, <2>6, <2>7
<1>3. ASSUME CheckManifest  PROVE UInv'
  <2>1. /\ job' = Idle /\ busy' = FALSE /\ job.phase = "manifest"
        /\ pending' \in {pending, job.version} /\ job.version \in Versions
        /\ UNCHANGED <<windows, installed, latest, cache, blocked, backend, mining, starter>>
    BY <1>3, JobKinds DEF CheckManifest, Released, webVars, backendVars
  <2>2. UpdateTypeOK'
    BY <2>1 DEF UpdateTypeOK
  <2> QED  BY <2>1, <2>2 DEF OnlyNewer, BlockFits, Idle, Installing, HandingOver
<1> QED  BY <1>1, <1>2, <1>3

\* An installation keeps the version it began with, and lifts the block with its end.
LEMMA InstallStep ==
    ASSUME UInv,
           \/ \E version \in Versions : Install(version)
           \/ DownloadFails \/ Downloaded \/ HandoverFails \/ HandoverAsked
           \/ BackendGone \/ BackendStays \/ InstallFails \/ Installed
    PROVE  UInv'
<1> USE DEF UInv
<1>1. ASSUME NEW version \in Versions, Install(version)  PROVE UInv'
  <2>1. /\ job' = [phase |-> "downloading", version |-> pending, confirmed |-> version]
        /\ pending = version /\ pending # NoVersion /\ job.phase = "idle" /\ busy' = TRUE
        /\ UNCHANGED <<windows, installed, latest, cache, pending, blocked, backend, mining, starter>>
    BY <1>1, VersionAssumption, JobKinds DEF Install, webVars, backendVars
  <2>0. job' \in Job /\ job' # Idle
    BY <2>1 DEF UpdateTypeOK, Job, Idle
  <2>2. UpdateTypeOK'
    BY <2>1, <2>0 DEF UpdateTypeOK
  <2> QED  BY <2>1, <2>2 DEF OnlyNewer, BlockFits, Installing, HandingOver
<1>2. ASSUME DownloadFails \/ HandoverFails \/ BackendStays \/ InstallFails  PROVE UInv'
  <2>1. /\ job' = Idle /\ busy' = FALSE /\ blocked' = FALSE
        /\ UNCHANGED <<windows, installed, latest, cache, pending, backend, mining, starter>>
    BY <1>2 DEF DownloadFails, HandoverFails, BackendStays, InstallFails, Released, webVars,
       backendVars, BlockFits, HandingOver
  <2>2. UpdateTypeOK'
    BY <2>1 DEF UpdateTypeOK
  <2> QED  BY <2>1, <2>2 DEF OnlyNewer, BlockFits, Idle, Installing, HandingOver
<1>3. ASSUME Downloaded \/ HandoverAsked \/ BackendGone  PROVE UInv'
  <2>1. job.phase \in Installing
    BY <1>3 DEF Downloaded, HandoverAsked, BackendGone, Installing, HandingOver
  <2>2. PICK p \in HandingOver : Goes(p)
    BY <1>3 DEF Downloaded, HandoverAsked, BackendGone, HandingOver
  <2>3. /\ job' \in Job /\ job' # Idle /\ busy' = busy
        /\ job'.phase = p /\ job'.version = job.version /\ job'.confirmed = job.confirmed
    BY <2>1, <2>2, JobGoesOn
  <2>4. /\ blocked' = TRUE /\ backend' \in {backend, "stopping"} /\ mining' \in {mining, FALSE}
        /\ UNCHANGED <<windows, installed, latest, cache, pending, starter>>
    BY <1>3 DEF Downloaded, HandoverAsked, BackendGone, webVars, backendVars, BlockFits, HandingOver
  <2>5. busy
    BY <2>1, JobKinds DEF Installing, HandingOver
  <2>6. UpdateTypeOK'
    BY <2>3, <2>4, <2>5 DEF UpdateTypeOK
  <2> QED  BY <2>1, <2>3, <2>4, <2>6 DEF OnlyNewer, BlockFits, Installing, HandingOver
<1>4. ASSUME Installed  PROVE UInv'
  <2>1. /\ job' = Idle /\ busy' = FALSE /\ blocked' = FALSE /\ pending' = NoVersion
        /\ installed' \in Versions /\ starter' = "idle"
        /\ cache' = [release |-> NoVersion, age |-> Old]
        /\ UNCHANGED <<windows, latest, backend, mining>>
    BY <1>4, JobKinds DEF Installed, Released, Installing, HandingOver
  <2>2. UpdateTypeOK'
    BY <2>1 DEF UpdateTypeOK
  <2> QED  BY <2>1, <2>2 DEF OnlyNewer, BlockFits, Idle, Installing, HandingOver
<1> QED  BY <1>1, <1>2, <1>3, <1>4

LEMMA UpdateStep == UInv /\ [Next]_updateVars => UInv'
<1> SUFFICES ASSUME UInv, [Next]_updateVars PROVE UInv'
  OBVIOUS
<1>1. CASE Next
  BY <1>1, WorldStep, CheckStep, InstallStep DEF Next, JobStep
<1>2. CASE UNCHANGED updateVars
  BY <1>2 DEF updateVars, UInv, UpdateTypeOK, OnlyNewer, BlockFits, Release
<1> QED  BY <1>1, <1>2

LEMMA UpdateInvariance == Spec => []UInv
BY InitUpdates, UpdateStep, PTL DEF Spec

-----------------------------------------------------------------------------
\* Checks, installations and starts of the backend keep their types, and the guard
\* is held exactly while a job is in progress.
THEOREM UpdatesTyped == Spec => []UpdateTypeOK
<1>1. UInv => UpdateTypeOK
  BY DEF UInv
<1> QED  BY <1>1, UpdateInvariance, PTL

\* No failed update leaves a Desktop that may not start its backend.
THEOREM BlockIsLifted == Spec => []BlockedOnlyInHandover
<1>1. UInv => BlockedOnlyInHandover
  BY JobKinds DEF UInv, BlockFits, BlockedOnlyInHandover, HandingOver
<1> QED  BY <1>1, UpdateInvariance, PTL

\* What is installed was confirmed and is newer than what ran.
THEOREM InstalledIsConfirmed == Spec => InstallsWhatWasConfirmed
<1>1. UInv /\ [Next]_updateVars =>
        [installed' # installed => installed' = job.confirmed /\ installed' > installed]_updateVars
  <2> SUFFICES ASSUME UInv, Next, installed' # installed
               PROVE  installed' = job.confirmed /\ installed' > installed
    OBVIOUS
  <2>1. Installed
    BY DEF Next, JobStep, Publish, TimePasses, WebAsks, Check, Install, CheckAnswered,
       CheckUnsupported, CheckManifest, DownloadFails, Downloaded, HandoverFails, HandoverAsked,
       BackendGone, BackendStays, InstallFails, BackendStops, StartBackend, RestartBackend,
       BackendStarts, WebServerEnds, Mine, webVars
  <2> QED  BY <2>1 DEF Installed, UInv, OnlyNewer, Installing, HandingOver
<1> QED  BY <1>1, UpdateInvariance, PTL DEF Spec, InstallsWhatWasConfirmed

\* Mining is interrupted by an update only for verified bytes, and a backend is
\* asked to stop only once no other may be started.
THEOREM OnlyInstallationsInterrupt == Spec => InterruptsOnlyToInstall
<1> DEFINE Interruption ==
      /\ mining /\ ~mining' => \/ job.phase = "downloading" /\ job'.phase = "installing"
                               \/ backend = "stopping"
                               \/ starter' = "launching"
      /\ backend = "up" /\ backend' = "stopping" => job.phase = "handover" /\ blocked
<1>1. UInv /\ [Next]_updateVars => [Interruption]_updateVars
  <2> SUFFICES ASSUME UInv, Next  PROVE Interruption
    OBVIOUS
  <2>1. CASE Downloaded
    <3>1. job.phase = "downloading" /\ backend' = backend
      BY <2>1 DEF Downloaded
    <3>2. windows => mining' = mining
      BY <2>1 DEF Downloaded
    <3>3. ~windows => job'.phase = "installing"
      BY <2>1, JobGoesOn DEF Downloaded, UInv, Installing, HandingOver
    <3> QED  BY <3>1, <3>2, <3>3 DEF UInv, UpdateTypeOK
  <2>2. CASE HandoverAsked
    BY <2>2 DEF HandoverAsked, UInv, BlockFits, HandingOver
  <2>3. CASE BackendStops
    BY <2>3 DEF BackendStops
  <2>4. CASE RestartBackend
    BY <2>4 DEF RestartBackend
  <2>5. CASE UNCHANGED <<backend, mining>>
    BY <2>5 DEF UInv, UpdateTypeOK
  <2>6. CASE BackendStarts \/ WebServerEnds \/ Mine
    BY <2>6 DEF BackendStarts, WebServerEnds, Mine, UInv, UpdateTypeOK
  <2> QED
    BY <2>1, <2>2, <2>3, <2>4, <2>5, <2>6 DEF Next, JobStep, Publish, TimePasses, WebAsks, Check,
       Install, CheckAnswered, CheckUnsupported, CheckManifest, DownloadFails, HandoverFails,
       BackendGone, BackendStays, InstallFails, Installed, StartBackend, backendVars
<1> QED  BY <1>1, UpdateInvariance, PTL DEF Spec, InterruptsOnlyToInstall
=============================================================================
