---------------------------- MODULE DesktopLease_proofs ----------------------------
(***************************************************************************)
(* The safety of the leases for any number of Desktops, any period of      *)
(* grace and probes that may or may not fail.                              *)
(***************************************************************************)
EXTENDS DesktopLease, TLAPS

\* Only a Desktop that is on its way out has asked for a shutdown.
FarewellsAreMeant ==
    \A d \in farewells : process[d] \in {"leaving", "gone"}

\* A process found dead stays dead, however late the answer is used.
DeadIsGone ==
    probed.answer = "dead" => \A d \in probed.pid : process[d] = "gone"

\* Nobody has heard of a process before it started.
HeardOfStarted ==
    \A d \in beats \cup attached : process[d] # "absent"

LInv == /\ TypeOK
        /\ HeardOfStarted
        /\ FarewellsAreMeant
        /\ DeadIsGone
        /\ RunningKeepsLease

-----------------------------------------------------------------------------
LEMMA LeaseTypeStep == TypeOK /\ [Next]_vars => TypeOK'
<1> SUFFICES ASSUME TypeOK, [Next]_vars  PROVE TypeOK'
    OBVIOUS
<1> USE LeaseAssumption DEF TypeOK, vars, desktopVars, leaseVars, watchdogVars
<1>1. ASSUME NEW d \in Desktops, Launch(d) \/ SendBeat(d) \/ Leave(d) \/ Vanish(d)
      PROVE  TypeOK'
  BY <1>1 DEF Launch, SendBeat, Leave, Vanish
<1>2. ASSUME NEW d \in Desktops, Heartbeat(d)
      PROVE  TypeOK'
  BY <1>2 DEF Heartbeat
<1>3. ASSUME NEW d \in Desktops, Shutdown(d)
      PROVE  TypeOK'
  BY <1>3 DEF Shutdown
<1>4. ASSUME NEW d \in Desktops, Probe(d) \/ ProbeFails(d)
      PROVE  TypeOK'
  <2>1. PICK answer \in Answers : ProbeAnswers(d, answer)
    BY <1>4 DEF Probe, ProbeFails, Answers
  <2>2. probed' = [pid |-> {d}, answer |-> answer] /\ watchdog' = "probed"
    BY <2>1 DEF ProbeAnswers
  <2>3. probed' \in [pid: {{}} \cup {{x} : x \in Desktops}, answer: Answers]
        /\ probed'.pid # {}
    BY <2>2
  <2> QED  BY <2>1, <2>2, <2>3 DEF ProbeAnswers
<1>5. CASE Judge
  <2>1. probed' = [pid |-> {}, answer |-> "unknown"] /\ watchdog' = "collected"
    BY <1>5 DEF Judge, NotProbed
  <2>2. clients' \subseteq clients /\ silence' \in [Desktops -> 0 .. Grace]
    BY <1>5 DEF Judge
  <2> QED  BY <1>5, <2>1, <2>2 DEF Judge, Answers
<1>6. CASE Exits \/ Collect \/ Decide
  BY <1>6 DEF Exits, Collect, Decide
<1>7. CASE SecondPasses
  <2>1. silence' \in [Desktops -> 0 .. Grace]
    BY <1>7 DEF SecondPasses
  <2> QED  BY <1>7, <2>1 DEF SecondPasses
<1>8. CASE UNCHANGED vars
  BY <1>8
<1> QED  BY <1>1, <1>2, <1>3, <1>4, <1>5, <1>6, <1>7, <1>8 DEF Next

LEMMA HeardStep == TypeOK /\ HeardOfStarted /\ [Next]_vars => HeardOfStarted'
<1> SUFFICES ASSUME TypeOK, HeardOfStarted, [Next]_vars  PROVE HeardOfStarted'
    OBVIOUS
<1> USE DEF HeardOfStarted, TypeOK, vars, desktopVars, leaseVars, watchdogVars
<1>1. ASSUME NEW d \in Desktops, Launch(d) \/ SendBeat(d) \/ Leave(d) \/ Vanish(d)
      PROVE  HeardOfStarted'
  BY <1>1 DEF Launch, SendBeat, Leave, Vanish
<1>2. ASSUME NEW d \in Desktops, Heartbeat(d) \/ Shutdown(d)
      PROVE  HeardOfStarted'
  BY <1>2 DEF Heartbeat, Shutdown
<1>3. ASSUME NEW d \in Desktops, Probe(d) \/ ProbeFails(d)
      PROVE  HeardOfStarted'
  BY <1>3 DEF Probe, ProbeFails, ProbeAnswers
<1>4. CASE Exits \/ Collect \/ Judge \/ Decide \/ SecondPasses \/ UNCHANGED vars
  BY <1>4 DEF Exits, Collect, Judge, Decide, SecondPasses
<1> QED  BY <1>1, <1>2, <1>3, <1>4 DEF Next

LEMMA FarewellStep == TypeOK /\ FarewellsAreMeant /\ [Next]_vars => FarewellsAreMeant'
<1> SUFFICES ASSUME TypeOK, FarewellsAreMeant, [Next]_vars  PROVE FarewellsAreMeant'
    OBVIOUS
<1> USE DEF FarewellsAreMeant, TypeOK, vars, desktopVars, leaseVars, watchdogVars
<1>1. ASSUME NEW d \in Desktops, Launch(d) \/ SendBeat(d) \/ Leave(d) \/ Vanish(d)
      PROVE  FarewellsAreMeant'
  BY <1>1 DEF Launch, SendBeat, Leave, Vanish
<1>2. ASSUME NEW d \in Desktops, Heartbeat(d) \/ Shutdown(d)
      PROVE  FarewellsAreMeant'
  BY <1>2 DEF Heartbeat, Shutdown
<1>3. ASSUME NEW d \in Desktops, Probe(d) \/ ProbeFails(d)
      PROVE  FarewellsAreMeant'
  BY <1>3 DEF Probe, ProbeFails, ProbeAnswers
<1>4. CASE Exits \/ Collect \/ Judge \/ Decide \/ SecondPasses \/ UNCHANGED vars
  BY <1>4 DEF Exits, Collect, Judge, Decide, SecondPasses
<1> QED  BY <1>1, <1>2, <1>3, <1>4 DEF Next

LEMMA DeadStep == TypeOK /\ DeadIsGone /\ [Next]_vars => DeadIsGone'
<1> SUFFICES ASSUME TypeOK, DeadIsGone, [Next]_vars  PROVE DeadIsGone'
    OBVIOUS
<1> USE DEF DeadIsGone, TypeOK, vars, desktopVars, leaseVars, watchdogVars
<1>1. ASSUME NEW d \in Desktops, Launch(d) \/ SendBeat(d) \/ Leave(d) \/ Vanish(d)
      PROVE  DeadIsGone'
  <2>1. \A x \in Desktops : process[x] = "gone" => process'[x] = "gone"
    BY <1>1 DEF Launch, SendBeat, Leave, Vanish
  <2>2. probed' = probed /\ probed.pid \subseteq Desktops
    BY <1>1 DEF Launch, SendBeat, Leave, Vanish
  <2> QED  BY <2>1, <2>2
<1>2. ASSUME NEW d \in Desktops, Heartbeat(d) \/ Shutdown(d)
      PROVE  DeadIsGone'
  BY <1>2 DEF Heartbeat, Shutdown
<1>3. ASSUME NEW d \in Desktops, Probe(d)
      PROVE  DeadIsGone'
  <2>1. probed' = [pid |-> {d},
                   answer |-> IF process[d] = "gone" THEN "dead" ELSE "alive"]
        /\ process' = process
    BY <1>3 DEF Probe, ProbeAnswers
  <2> QED  BY <2>1
<1>4. ASSUME NEW d \in Desktops, ProbeFails(d)
      PROVE  DeadIsGone'
  BY <1>4 DEF ProbeFails, ProbeAnswers
<1>5. CASE Judge
  BY <1>5 DEF Judge, NotProbed
<1>6. CASE Exits \/ Collect \/ Decide \/ SecondPasses \/ UNCHANGED vars
  BY <1>6 DEF Exits, Collect, Decide, SecondPasses
<1> QED  BY <1>1, <1>2, <1>3, <1>4, <1>5, <1>6 DEF Next

LEMMA LeaseStep == LInv /\ [Next]_vars => RunningKeepsLease'
<1> SUFFICES ASSUME LInv, [Next]_vars  PROVE RunningKeepsLease'
    OBVIOUS
<1> USE DEF LInv, RunningKeepsLease, TypeOK, vars, desktopVars, leaseVars, watchdogVars
<1>1. ASSUME NEW d \in Desktops, Launch(d)
      PROVE  RunningKeepsLease'
  \* A process that starts has never attached: its PID is its own.
  <2>1. d \notin attached
    BY <1>1 DEF Launch, HeardOfStarted
  <2> QED  BY <1>1, <2>1 DEF Launch
<1>2. ASSUME NEW d \in Desktops, SendBeat(d) \/ Leave(d) \/ Vanish(d)
      PROVE  RunningKeepsLease'
  BY <1>2 DEF SendBeat, Leave, Vanish
<1>3. ASSUME NEW d \in Desktops, Heartbeat(d)
      PROVE  RunningKeepsLease'
  BY <1>3 DEF Heartbeat
<1>4. ASSUME NEW d \in Desktops, Shutdown(d)
      PROVE  RunningKeepsLease'
  BY <1>4 DEF Shutdown, FarewellsAreMeant
<1>5. ASSUME NEW d \in Desktops, Probe(d) \/ ProbeFails(d)
      PROVE  RunningKeepsLease'
  BY <1>5 DEF Probe, ProbeFails, ProbeAnswers
<1>6. CASE Judge
  <2>1. \A d \in clients \ clients' : process[d] = "gone"
    BY <1>6 DEF Judge, DeadIsGone
  <2> QED  BY <1>6, <2>1 DEF Judge
<1>7. CASE Exits \/ Collect \/ Decide \/ SecondPasses \/ UNCHANGED vars
  BY <1>7 DEF Exits, Collect, Decide, SecondPasses
<1> QED  BY <1>1, <1>2, <1>3, <1>4, <1>5, <1>6, <1>7 DEF Next

LEMMA LeaseInvariance == Spec => []LInv
<1>1. Init => LInv
  <2> SUFFICES ASSUME Init  PROVE LInv
      OBVIOUS
  <2>1. probed = [pid |-> {}, answer |-> "unknown"]
    BY DEF Init, NotProbed
  <2>2. probed \in [pid: {{}} \cup {{d} : d \in Desktops}, answer: Answers]
    BY <2>1 DEF Answers
  <2>3. TypeOK
    <3>1. 0 \in 0 .. Grace
      BY LeaseAssumption
    <3>2. silence \in [Desktops -> 0 .. Grace]
      BY <3>1 DEF Init
    <3>3. process \in [Desktops -> {"absent", "running", "leaving", "gone"}]
      BY DEF Init
    <3>4. watchdog = "asleep" /\ probed.pid = {}
      BY <2>1 DEF Init
    <3> QED  BY <2>2, <3>2, <3>3, <3>4 DEF Init, TypeOK
  <2>4. HeardOfStarted /\ FarewellsAreMeant /\ DeadIsGone /\ RunningKeepsLease
    BY <2>1 DEF Init, HeardOfStarted, FarewellsAreMeant, DeadIsGone, RunningKeepsLease
  <2> QED  BY <2>3, <2>4 DEF LInv
<1>2. LInv /\ [Next]_vars => LInv'
  BY LeaseTypeStep, HeardStep, FarewellStep, DeadStep, LeaseStep DEF LInv
<1> QED  BY <1>1, <1>2, PTL DEF Spec

\* Leases, processes and the watchdog keep their types: a silence never exceeds
\* the grace, and the watchdog has a process in hand exactly while it probes one.
THEOREM LeaseTyped == Spec => []TypeOK
<1>1. LInv => TypeOK
  BY DEF LInv
<1> QED  BY <1>1, LeaseInvariance, PTL

\* A Desktop that attached keeps its lease while its process runs, for any number
\* of Desktops, however late requests and probes are.
THEOREM LeaseOutlastsSilence == Spec => []RunningKeepsLease
<1>1. LInv => RunningKeepsLease
  BY DEF LInv
<1> QED  BY <1>1, LeaseInvariance, PTL

\* The miners are never stopped by decision of the watchdog, or of a leaving
\* Desktop, while another Desktop that attached runs.
THEOREM NeverStopsUnderDesktop == Spec => StopsOnlyAbandoned
<1>1. ASSUME LInv, LInv', [Next]_vars, backend = "up", backend' = "stopping",
             NEW d \in attached
      PROVE  process[d] # "running"
  <2>1. (\E x \in Desktops : Shutdown(x)) \/ Decide
    BY <1>1 DEF Next, Launch, SendBeat, Leave, Vanish, Heartbeat, Probe, ProbeFails,
                ProbeAnswers, Exits, Collect, Judge, SecondPasses, vars
  <2>2. clients' = {} /\ process' = process /\ attached' = attached
    BY <1>1, <2>1 DEF Shutdown, Decide, desktopVars, leaseVars
  <2> QED  BY <1>1, <2>2 DEF LInv, RunningKeepsLease
<1>2. LInv /\ LInv' /\ [Next]_vars
        => [backend = "up" /\ backend' = "stopping" =>
                \A d \in attached : process[d] # "running"]_vars
  BY <1>1
<1> QED  BY <1>2, LeaseInvariance, PTL DEF Spec, StopsOnlyAbandoned

=============================================================================
