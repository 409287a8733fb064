------------------------ MODULE ProcessManagerProofs ------------------------
(***************************************************************************)
(* What a native `up` session guarantees for every set of components,      *)
(* every dependency graph and every choice of checks.                      *)
(***************************************************************************)
EXTENDS ProcessManager, TLAPS

USE DEF Progress, Spawned, Failures, Settled

-----------------------------------------------------------------------------
(* Type correctness                                                        *)

\* The steps of one component's startOne and of its part of the sweep keep the
\* types.
LEMMA StartStepType ==
  ASSUME TypeOK, NEW c \in Component, StartStep(c)
  PROVE  TypeOK'
<1> USE ProcessManagerAssumption
<1>1. CASE CheckGate(c)
  <2>1. PICK d \in gates[c] :
           \/ GateCleared(c, d) /\ UNCHANGED <<at, pollOf, poll, mgr>>
           \/ OpenPoll(c, d) /\ UNCHANGED <<at, gates, mgr>>
           \/ GateThrows(c, "healthFail") /\ UNCHANGED <<gates, pollOf, poll>>
    BY <1>1 DEF CheckGate
  <2>2. d \in Component
    BY DEF TypeOK
  <2>3. QED
    BY <1>1, <2>1, <2>2
    DEF CheckGate, GateCleared, OpenPoll, GateThrows, Reject, TypeOK, stopVars
<1>2. CASE BeginStart(c)
  BY <1>2 DEF BeginStart, TypeOK, stopVars
<1>3. CASE Spawn(c) \/ Listen(c)
  BY <1>3 DEF Spawn, Listen, TypeOK, stopVars
<1>4. CASE PollPassed(c)
  BY <1>4 DEF PollPassed, GateCleared, TypeOK, stopVars
<1>5. CASE PollFailed(c)
  BY <1>5 DEF PollFailed, GateThrows, Reject, TypeOK, stopVars
<1>6. CASE WatchEnds(c)
  BY <1>6 DEF WatchEnds, TypeOK, stopVars
<1>7. QED
  BY <1>1, <1>2, <1>3, <1>4, <1>5, <1>6 DEF StartStep

\* The steps of startAll itself, and of the end of `up`, keep the types.
LEMMA SessionStepType ==
  ASSUME TypeOK, SessionStep
  PROVE  TypeOK'
<1> USE ProcessManagerAssumption
<1>1. CASE LaunchBatch
  BY <1>1 DEF LaunchBatch, NextBatch, TypeOK, stopVars
<1>2. CASE BeginSweep
  BY <1>2 DEF BeginSweep, TypeOK, stopVars
<1>3. CASE SettleSweep
  BY <1>3 DEF SettleSweep, TypeOK, stopVars
<1>4. CASE RecordPids
  BY <1>4 DEF RecordPids, TypeOK, startVars, stopVars
<1>5. CASE EndSession
  BY <1>5 DEF EndSession, TypeOK, startVars, stopVars
<1>6. QED
  BY <1>1, <1>2, <1>3, <1>4, <1>5 DEF SessionStep

\* The steps of the Ctrl+C handler keep the types.
LEMMA HandlerStepType ==
  ASSUME TypeOK, HandlerStep
  PROVE  TypeOK'
<1>1. CASE StopBatch
  BY <1>1 DEF StopBatch, TypeOK, startVars
<1>2. CASE ClearPids
  BY <1>2 DEF ClearPids, TypeOK, startVars
<1>3. CASE HandlerExit
  BY <1>3 DEF HandlerExit, TypeOK, startVars, stopVars
<1>4. ASSUME NEW c \in Component, Escalate(c)
      PROVE  TypeOK'
  BY <1>4 DEF Escalate, TypeOK, startVars
<1>5. QED
  BY <1>1, <1>2, <1>3, <1>4 DEF HandlerStep

\* Every state of the session is well typed.
THEOREM TypeCorrect == Spec => []TypeOK
<1> USE ProcessManagerAssumption
<1>1. Init => TypeOK
  <2>1. Init => early \in BOOLEAN
    BY DEF Init
  <2>2. QED
    BY <2>1 DEF Init, TypeOK, NextBatch
<1>2. TypeOK /\ [Next]_vars => TypeOK'
  <2> SUFFICES ASSUME TypeOK, [Next]_vars
               PROVE  TypeOK'
    OBVIOUS
  <2>1. ASSUME NEW c \in Component, StartStep(c)
        PROVE  TypeOK'
    BY <2>1, StartStepType
  <2>2. CASE SessionStep
    BY <2>2, SessionStepType
  <2>3. ASSUME NEW c \in Component, NEW how \in {"zero", "failure"},
               ProcessExit(c, how)
        PROVE  TypeOK'
    BY <2>3 DEF ProcessExit, TypeOK, startVars
  <2>4. CASE Crash
    BY <2>4 DEF Crash, TypeOK, startVars, stopVars
  <2>5. CASE Interrupt
    BY <2>5 DEF Interrupt, TypeOK, startVars
  <2>6. CASE HandlerStep
    BY <2>6, HandlerStepType
  <2>7. CASE UNCHANGED vars
    BY <2>7 DEF vars, TypeOK
  <2>8. QED
    BY <2>1, <2>2, <2>3, <2>4, <2>5, <2>6, <2>7 DEF Next
<1>3. QED
  BY <1>1, <1>2, PTL DEF Spec

-----------------------------------------------------------------------------
(* The dependency gate                                                     *)

\* What is true of every gate at all times: one that is gone has passed its
\* check, a component said to be healthy has passed it, and nothing is started
\* with a gate left.
GateInv ==
  \A c \in Component :
     /\ HealthyDeps[c] \ gates[c] \subseteq passed
     /\ status[c] = "healthy" => c \in passed
     /\ at[c] \in Spawned \cup {"opening", "closing"} => gates[c] = {}

\* Batches: only a placed component has left "waiting", and those of its
\* dependencies that reach no cycle were spawned when its batch was launched.
BatchInv ==
  \A c \in Component :
     /\ at[c] # "waiting" => c \in placed
     /\ c \in placed => \A d \in Deps(c) : Grounded(d) => IsSpawned(d)

\* A spawned component stays so.
LEMMA SpawnedStays ==
  ASSUME TypeOK, [Next]_vars, BatchInv, NEW c \in Component, IsSpawned(c)
  PROVE  IsSpawned(c)'
<1> USE ProcessManagerAssumption DEF IsSpawned
<1>1. ASSUME NEW b \in Component, StartStep(b)
      PROVE  IsSpawned(c)'
  <2>1. CASE CheckGate(b)
    BY <2>1 DEF CheckGate, GateThrows, TypeOK
  <2>2. CASE BeginStart(b) \/ Spawn(b) \/ Listen(b) \/ WatchEnds(b)
    BY <2>2 DEF BeginStart, Spawn, Listen, WatchEnds, TypeOK
  <2>3. CASE PollPassed(b)
    BY <2>3 DEF PollPassed, TypeOK
  <2>4. CASE PollFailed(b)
    BY <2>4 DEF PollFailed, GateThrows, TypeOK
  <2>5. QED
    BY <1>1, <2>1, <2>2, <2>3, <2>4 DEF StartStep
<1>2. CASE LaunchBatch
  <2>1. c \notin NextBatch(placed)
    BY <1>2 DEF NextBatch, BatchInv, TypeOK
  <2>2. QED
    BY <1>2, <2>1 DEF LaunchBatch
<1>3. CASE BeginSweep
  BY <1>3 DEF BeginSweep, TypeOK
<1>4. CASE SettleSweep \/ RecordPids \/ EndSession
  BY <1>4 DEF SettleSweep, RecordPids, EndSession, startVars
<1>5. ASSUME NEW b \in Component, NEW how \in {"zero", "failure"},
             ProcessExit(b, how)
      PROVE  IsSpawned(c)'
  BY <1>5 DEF ProcessExit, startVars
<1>6. CASE Crash \/ Interrupt \/ HandlerStep
  BY <1>6 DEF Crash, Interrupt, HandlerStep, StopBatch, ClearPids, HandlerExit,
              Escalate, startVars
<1>7. CASE UNCHANGED vars
  BY <1>7 DEF vars
<1>8. QED
  BY <1>1, <1>2, <1>3, <1>4, <1>5, <1>6, <1>7 DEF Next, SessionStep

\* Every step keeps what is said of the gates.
LEMMA GateStep ==
  ASSUME TypeOK, GateInv, [Next]_vars
  PROVE  GateInv'
<1> USE ProcessManagerAssumption DEF GateInv
<1>1. ASSUME NEW b \in Component, StartStep(b)
      PROVE  GateInv'
  <2>1. CASE CheckGate(b)
    <3>1. PICK d \in gates[b] :
             \/ status[d] = "healthy" /\ GateCleared(b, d) /\ UNCHANGED <<at, mgr>>
             \/ UNCHANGED <<at, gates>>
             \/ GateThrows(b, "healthFail") /\ UNCHANGED gates
      BY <2>1 DEF CheckGate
    <3>2. d \in Component
      BY DEF TypeOK
    <3>3. QED
      BY <2>1, <3>1, <3>2 DEF CheckGate, GateCleared, GateThrows, TypeOK
  <2>2. CASE BeginStart(b) \/ Spawn(b) \/ Listen(b) \/ WatchEnds(b)
    BY <2>2 DEF BeginStart, Spawn, Listen, WatchEnds, TypeOK
  <2>3. CASE PollPassed(b)
    BY <2>3 DEF PollPassed, GateCleared, TypeOK
  <2>4. CASE PollFailed(b)
    BY <2>4 DEF PollFailed, GateThrows, TypeOK
  <2>5. QED
    BY <1>1, <2>1, <2>2, <2>3, <2>4 DEF StartStep
<1>2. CASE LaunchBatch
  BY <1>2 DEF LaunchBatch, TypeOK
<1>3. CASE BeginSweep
  BY <1>3 DEF BeginSweep, TypeOK
<1>4. CASE SettleSweep \/ RecordPids \/ EndSession
  BY <1>4 DEF SettleSweep, RecordPids, EndSession, startVars
<1>5. ASSUME NEW b \in Component, NEW how \in {"zero", "failure"},
             ProcessExit(b, how)
      PROVE  GateInv'
  BY <1>5 DEF ProcessExit, startVars, TypeOK
<1>6. CASE Crash \/ Interrupt \/ HandlerStep
  BY <1>6 DEF Crash, Interrupt, HandlerStep, StopBatch, ClearPids, HandlerExit,
              Escalate, startVars
<1>7. CASE UNCHANGED vars
  BY <1>7 DEF vars
<1>8. QED
  BY <1>1, <1>2, <1>3, <1>4, <1>5, <1>6, <1>7 DEF Next, SessionStep

\* A batch holds no dependency of its own that reaches no cycle: such a
\* dependency is in an earlier one.
LEMMA BatchMates ==
  ASSUME NEW done \in SUBSET Component, NEW c \in NextBatch(done),
         NEW d \in Deps(c), Grounded(d)
  PROVE  d \in done
<1> USE ProcessManagerAssumption
<1> DEFINE left == Component \ done
<1>1. d \in Component /\ c \in left /\ left \in SUBSET Component
  BY DEF Deps, NextBatch
<1>2. SUFFICES ASSUME d \in left
               PROVE  FALSE
  BY <1>1
<1>3. \E x \in left : Deps(x) \cap left = {}
  BY <1>1, <1>2 DEF Grounded
<1>4. Deps(c) \cap left = {}
  BY <1>3 DEF NextBatch
<1>5. QED
  BY <1>2, <1>4

\* The batches: a component leaves "waiting" with the launch of its batch, and
\* a batch holds only components whose grounded dependencies are up.
LEMMA BatchStep ==
  ASSUME TypeOK, BatchInv, [Next]_vars
  PROVE  BatchInv'
<1> USE ProcessManagerAssumption
<1>1. \A c \in Component : IsSpawned(c) => IsSpawned(c)'
  BY SpawnedStays
<1>2. \A c \in Component : Deps(c) \subseteq Component
  BY DEF Deps
<1>3. CASE placed' = placed /\ \A c \in Component : at[c] = "waiting" => at'[c] = "waiting"
  BY <1>1, <1>2, <1>3 DEF BatchInv
<1>4. CASE LaunchBatch
  <2>1. placed' = placed \cup NextBatch(placed)
    BY <1>4 DEF LaunchBatch
  <2>2. \A c \in Component : at'[c] # "waiting" => c \in placed'
    BY <1>4 DEF LaunchBatch, BatchInv
  <2>3. ASSUME NEW c \in NextBatch(placed), NEW d \in Deps(c), Grounded(d)
        PROVE  IsSpawned(d)
    <3>1. d \in placed
      BY <2>3, BatchMates DEF TypeOK
    <3>2. QED
      BY <1>4, <3>1 DEF LaunchBatch, IsSpawned
  <2>4. QED
    BY <1>1, <1>2, <2>1, <2>2, <2>3 DEF BatchInv
<1>5. ASSUME NEW b \in Component, StartStep(b)
      PROVE  placed' = placed /\ \A c \in Component : at[c] = "waiting" => at'[c] = "waiting"
  <2>1. CASE CheckGate(b)
    BY <2>1 DEF CheckGate, GateThrows, TypeOK
  <2>2. CASE BeginStart(b) \/ Spawn(b) \/ Listen(b) \/ WatchEnds(b)
    BY <2>2 DEF BeginStart, Spawn, Listen, WatchEnds, TypeOK
  <2>3. CASE PollPassed(b)
    BY <2>3 DEF PollPassed, TypeOK
  <2>4. CASE PollFailed(b)
    BY <2>4 DEF PollFailed, GateThrows, TypeOK
  <2>5. QED
    BY <1>5, <2>1, <2>2, <2>3, <2>4 DEF StartStep
<1>6. CASE BeginSweep
  BY <1>3, <1>6 DEF BeginSweep
<1>7. CASE SettleSweep \/ RecordPids \/ EndSession
  BY <1>3, <1>7 DEF SettleSweep, RecordPids, EndSession, startVars
<1>8. ASSUME NEW b \in Component, NEW how \in {"zero", "failure"},
             ProcessExit(b, how)
      PROVE  BatchInv'
  BY <1>3, <1>8 DEF ProcessExit, startVars
<1>9. CASE Crash \/ Interrupt \/ HandlerStep
  BY <1>3, <1>9 DEF Crash, Interrupt, HandlerStep, StopBatch, ClearPids,
              HandlerExit, Escalate, startVars
<1>10. CASE UNCHANGED vars
  BY <1>3, <1>10 DEF vars
<1>11. QED
  BY <1>3, <1>4, <1>5, <1>6, <1>7, <1>8, <1>9, <1>10 DEF Next, SessionStep

\* What the first batch depends on reaches a cycle, if it depends on anything.
LEMMA BatchInit ==
  ASSUME Init
  PROVE  BatchInv
<1>1. \A c \in Component : at[c] # "waiting" => c \in placed
  BY DEF Init
<1>2. ASSUME NEW c \in NextBatch({}), NEW d \in Deps(c), Grounded(d)
      PROVE  FALSE
  <2>1. d \in {}
    BY <1>2, BatchMates
  <2>2. QED
    BY <2>1
<1>3. QED
  BY <1>1, <1>2 DEF Init, BatchInv

\* A component is started only behind its gates: for every graph, every choice
\* of checks, and whatever exits, fails, or is interrupted meanwhile.
THEOREM DependencyGateHolds == Spec => []DependencyGate
<1>1. Init => GateInv
  BY DEF Init, GateInv
<1>2. Init => BatchInv
  BY BatchInit
<1>3. TypeOK /\ GateInv /\ BatchInv /\ [Next]_vars => GateInv' /\ BatchInv'
  BY GateStep, BatchStep
<1>4. TypeOK /\ GateInv /\ BatchInv => DependencyGate
  <2> SUFFICES ASSUME TypeOK, GateInv, BatchInv, NEW c \in Component,
                      at[c] \in Spawned \cup {"opening", "closing"}
               PROVE  /\ HealthyDeps[c] \subseteq passed
                      /\ \A d \in Deps(c) : Grounded(d) => IsSpawned(d)
    BY DEF DependencyGate
  <2>1. gates[c] = {} /\ HealthyDeps[c] \ gates[c] \subseteq passed
    BY DEF GateInv
  <2>2. c \in placed
    BY DEF BatchInv
  <2>3. QED
    BY <2>1, <2>2 DEF BatchInv
<1>5. QED
  BY TypeCorrect, <1>1, <1>2, <1>3, <1>4, PTL DEF Spec

-----------------------------------------------------------------------------
(* The sweep                                                               *)

\* What the sweep knows of a component: it polls the component itself, watches
\* only those without a check, and clears a checked one only once it has
\* passed or been heard to exit. Once sweeping, nothing is left in front of a gate.
SweepInv ==
  \A c \in Component :
     /\ at[c] = "polling" => pollOf[c] = c
     /\ at[c] = "watching" => c \notin Checked
     /\ at[c] = "cleared" /\ c \in Checked => c \in passed \/ Heard(c)
     /\ c \in missed => exit[c] # "none"
     /\ mgr = "sweeping" => at[c] \in {"watching", "polling", "cleared", "stuck"}

\* Every step keeps what the sweep knows.
LEMMA SweepStep ==
  ASSUME TypeOK, GateInv, SweepInv, [Next]_vars
  PROVE  SweepInv'
<1> USE ProcessManagerAssumption DEF SweepInv, Heard
<1>1. ASSUME NEW b \in Component, StartStep(b)
      PROVE  SweepInv'
  <2>1. CASE CheckGate(b)
    BY <2>1 DEF CheckGate, OpenPoll, GateThrows, Reject, TypeOK
  <2>2. CASE BeginStart(b) \/ Spawn(b) \/ Listen(b) \/ WatchEnds(b)
    BY <2>2 DEF BeginStart, Spawn, Listen, WatchEnds, TypeOK
  <2>3. CASE PollPassed(b)
    BY <2>3 DEF PollPassed, TypeOK
  <2>4. CASE PollFailed(b)
    BY <2>4 DEF PollFailed, GateThrows, Reject, TypeOK
  <2>5. QED
    BY <1>1, <2>1, <2>2, <2>3, <2>4 DEF StartStep
<1>2. CASE LaunchBatch
  BY <1>2 DEF LaunchBatch, TypeOK
<1>3. CASE BeginSweep
  BY <1>3 DEF BeginSweep, GateInv, TypeOK
<1>4. CASE SettleSweep \/ RecordPids \/ EndSession
  BY <1>4 DEF SettleSweep, RecordPids, EndSession, startVars, TypeOK
<1>5. ASSUME NEW b \in Component, NEW how \in {"zero", "failure"},
             ProcessExit(b, how)
      PROVE  SweepInv'
  BY <1>5 DEF ProcessExit, startVars, TypeOK
<1>6. CASE Crash \/ Interrupt \/ HandlerStep
  BY <1>6 DEF Crash, Interrupt, HandlerStep, StopBatch, ClearPids, HandlerExit,
              Escalate, startVars
<1>7. CASE UNCHANGED vars
  BY <1>7 DEF vars
<1>8. QED
  BY <1>1, <1>2, <1>3, <1>4, <1>5, <1>6, <1>7 DEF Next, SessionStep

\* startAll settles out of a sweep only where the sweep is summed up.
LEMMA SettleOnlyInSweep ==
  ASSUME TypeOK, SweepInv, [Next]_vars, mgr' # mgr
  PROVE  \/ SettleSweep
         \/ mgr = "batching" /\ mgr' \in {"sweeping", "exitFail", "healthFail"}
<1>1. ASSUME NEW b \in Component, StartStep(b)
      PROVE  mgr = "batching" /\ mgr' \in {"sweeping", "exitFail", "healthFail"}
  <2>1. at[b] = "gating" /\ mgr' \in {"exitFail", "healthFail"} /\ mgr \notin Settled
    BY <1>1 DEF StartStep, CheckGate, BeginStart, Spawn, Listen, PollPassed, PollFailed,
                WatchEnds, GateThrows, Reject
  <2>2. QED
    BY <2>1 DEF SweepInv, TypeOK
<1>2. CASE LaunchBatch \/ RecordPids \/ EndSession
  BY <1>2 DEF LaunchBatch, RecordPids, EndSession, startVars
<1>3. CASE BeginSweep
  BY <1>3 DEF BeginSweep
<1>4. ASSUME NEW b \in Component, NEW how \in {"zero", "failure"},
             ProcessExit(b, how)
      PROVE  FALSE
  BY <1>4 DEF ProcessExit, startVars
<1>5. CASE Crash \/ Interrupt \/ HandlerStep
  BY <1>5 DEF Crash, Interrupt, HandlerStep, StopBatch, ClearPids, HandlerExit,
              Escalate, startVars
<1>6. CASE UNCHANGED vars
  BY <1>6 DEF vars
<1>7. QED
  BY <1>1, <1>2, <1>3, <1>4, <1>5, <1>6 DEF Next, SessionStep

\* What the sweep sums up is the truth as far as it was heard: a success names
\* no component that is missing, unchecked, or known to have failed.
LEMMA SweepVerdict ==
  ASSUME TypeOK, SweepInv, SettleSweep, mgr' = "ok", NEW c \in Component
  PROVE  /\ IsSpawned(c)
         /\ exit[c] = "failure" => c \in missed
         /\ c \in Checked => c \in passed
<1>1. exitedComponents = {} /\ stuckComponents = {}
  BY DEF SettleSweep
<1>2. at[c] = "cleared"
  BY <1>1 DEF SettleSweep, stuckComponents
<1>3. ~Heard(c) \/ (exit[c] # "failure" /\ c \notin Checked \ passed)
  BY <1>1 DEF exitedComponents
<1>4. QED
  BY <1>2, <1>3 DEF SweepInv, IsSpawned, Heard

\* The invariants of the gates and of the sweep hold together.
LEMMA SweepInvariant == Spec => [](TypeOK /\ GateInv /\ SweepInv)
<1>1. Init => GateInv /\ SweepInv
  BY DEF Init, GateInv, SweepInv
<1>2. TypeOK /\ GateInv /\ SweepInv /\ [Next]_vars => GateInv' /\ SweepInv'
  BY GateStep, SweepStep
<1>3. QED
  BY TypeCorrect, <1>1, <1>2, PTL DEF Spec

\* `up` reports success only for an application that came up, as far as exits
\* can be heard: for every graph, every choice of checks and every moment of an
\* exit.
THEOREM SuccessMeansUpHolds == Spec => SuccessMeansUp
<1>1. TypeOK /\ SweepInv /\ [Next]_vars
        => [mgr # "ok" /\ mgr' = "ok" =>
              \A c \in Component : /\ IsSpawned(c)
                                   /\ exit[c] = "failure" => c \in missed
                                   /\ c \in Checked => c \in passed]_vars
  BY SettleOnlyInSweep, SweepVerdict
<1>2. QED
  BY SweepInvariant, <1>1, PTL DEF Spec, SuccessMeansUp

-----------------------------------------------------------------------------
(* What outlives the session                                               *)

\* Unless a gate threw, startAll goes on only when everything is spawned.
FullInv ==
  (\A c \in Component : at[c] # "threw") /\ mgr # "batching"
    => \A c \in Component : IsSpawned(c)

\* A component said to be stopped has exited, and so has one stopAll is done
\* with or whose exit went unheard; what stopAll has sent a signal or passed
\* over is among the batches it has reached, and it passes over nothing once
\* everything is launched.
StopInv ==
  /\ sig = "none" => ~early
  /\ \A c \in Component :
       /\ status[c] = "stopped" => exit[c] # "none"
       /\ ~HasProcess(c) => exit[c] = "none" /\ stop[c] \in {"idle", "absent"}
       /\ c \in missed \/ stop[c] = "done" => exit[c] # "none"
       /\ stop[c] = "absent" /\ LaunchedInFull => FALSE
       /\ sig # "none" /\ c \notin stopLeft => stop[c] # "idle"
       /\ sig = "cleared" => stop[c] \in {"absent", "done"}

\* After a launch in full, Ctrl+C found startAll settled, and the pids of all
\* components are on record once the session has got so far.
SavedInv ==
  LaunchedInFull =>
     /\ sig # "none" => mgr \in Settled
     /\ session \in {"recorded", "exited"} =>
          \/ sig = "cleared"
          \/ mgr \in Settled /\ saved = Component
     /\ session = "exited" /\ sig = "cleared" => \A c \in Component : ~Alive(c)

\* A process there was stays one the session has a handle of.
LEMMA ProcessStays ==
  ASSUME TypeOK, [Next]_vars, BatchInv, NEW c \in Component, HasProcess(c)
  PROVE  HasProcess(c)'
<1> USE ProcessManagerAssumption
<1>1. CASE IsSpawned(c)
  BY <1>1, SpawnedStays DEF HasProcess
<1>2. CASE at[c] = "closing"
  <2> USE DEF HasProcess, IsSpawned
  <2>1. ASSUME NEW b \in Component, StartStep(b)
        PROVE  HasProcess(c)'
    <3>1. CASE CheckGate(b) \/ PollPassed(b) \/ PollFailed(b)
      BY <1>2, <3>1 DEF CheckGate, PollPassed, PollFailed, GateThrows, TypeOK
    <3>2. CASE BeginStart(b) \/ Spawn(b) \/ Listen(b) \/ WatchEnds(b)
      BY <1>2, <3>2 DEF BeginStart, Spawn, Listen, WatchEnds, TypeOK
    <3>3. QED
      BY <2>1, <3>1, <3>2 DEF StartStep
  <2>2. CASE LaunchBatch
    BY <1>2, <2>2 DEF LaunchBatch, NextBatch, BatchInv
  <2>3. CASE BeginSweep
    BY <1>2, <2>3 DEF BeginSweep
  <2>4. CASE SettleSweep \/ RecordPids \/ EndSession
    BY <1>2, <2>4 DEF SettleSweep, RecordPids, EndSession, startVars
  <2>5. ASSUME NEW b \in Component, NEW how \in {"zero", "failure"},
               ProcessExit(b, how)
        PROVE  HasProcess(c)'
    BY <1>2, <2>5 DEF ProcessExit, startVars
  <2>6. CASE Crash \/ Interrupt \/ HandlerStep
    BY <1>2, <2>6 DEF Crash, Interrupt, HandlerStep, StopBatch, ClearPids,
                      HandlerExit, Escalate, startVars
  <2>7. CASE UNCHANGED vars
    BY <1>2, <2>7 DEF vars
  <2>8. QED
    BY <2>1, <2>2, <2>3, <2>4, <2>5, <2>6, <2>7 DEF Next, SessionStep
<1>3. QED
  BY <1>1, <1>2 DEF HasProcess

\* A launch once cut short stays so, and an exit is for good.
LEMMA ThrewStays ==
  ASSUME TypeOK, StopInv, BatchInv, [Next]_vars
  PROVE  /\ LaunchedInFull' => LaunchedInFull
         /\ \A c \in Component : exit[c] # "none" => exit'[c] # "none"
<1> USE ProcessManagerAssumption DEF LaunchedInFull
<1>1. ASSUME NEW b \in Component, StartStep(b)
      PROVE  (LaunchedInFull' => LaunchedInFull) /\ UNCHANGED exit
  <2>1. CASE CheckGate(b)
    BY <2>1 DEF CheckGate, GateThrows, TypeOK, stopVars
  <2>2. CASE BeginStart(b) \/ Spawn(b) \/ Listen(b) \/ WatchEnds(b)
    BY <2>2 DEF BeginStart, Spawn, Listen, WatchEnds, TypeOK, stopVars
  <2>3. CASE PollPassed(b)
    BY <2>3 DEF PollPassed, TypeOK, stopVars
  <2>4. CASE PollFailed(b)
    BY <2>4 DEF PollFailed, GateThrows, TypeOK, stopVars
  <2>5. QED
    BY <1>1, <2>1, <2>2, <2>3, <2>4 DEF StartStep
<1>2. CASE LaunchBatch
  BY <1>2 DEF LaunchBatch, TypeOK, stopVars, NextBatch, BatchInv
<1>3. CASE BeginSweep
  BY <1>3 DEF BeginSweep, stopVars
<1>4. CASE SettleSweep \/ RecordPids \/ EndSession
  BY <1>4 DEF SettleSweep, RecordPids, EndSession, startVars, stopVars
<1>5. ASSUME NEW b \in Component, NEW how \in {"zero", "failure"}, ProcessExit(b, how)
      PROVE  /\ LaunchedInFull' => LaunchedInFull
             /\ \A c \in Component : exit[c] # "none" => exit'[c] # "none"
  BY <1>5 DEF ProcessExit, startVars, TypeOK
<1>6. CASE Interrupt
  <2>1. ~early
    BY <1>6 DEF Interrupt, StopInv
  <2>2. QED
    BY <1>6, <2>1 DEF Interrupt, startVars
<1>7. CASE Crash \/ HandlerStep
  BY <1>7 DEF Crash, HandlerStep, StopBatch, ClearPids, HandlerExit, Escalate,
              startVars, stopVars
<1>8. CASE UNCHANGED vars
  BY <1>8 DEF vars
<1>9. QED
  BY <1>1, <1>2, <1>3, <1>4, <1>5, <1>6, <1>7, <1>8 DEF Next, SessionStep

\* Every step keeps what startAll has spawned when it goes on.
LEMMA FullStep ==
  ASSUME TypeOK, GateInv, BatchInv, SweepInv, FullInv, [Next]_vars
  PROVE  FullInv'
<1> USE ProcessManagerAssumption DEF FullInv
<1>1. \A c \in Component : IsSpawned(c) => IsSpawned(c)'
  BY SpawnedStays
<1>2. ASSUME NEW b \in Component, StartStep(b)
      PROVE  \/ \E c \in Component : at'[c] = "threw"
             \/ mgr' = mgr /\ \A c \in Component : at[c] = "threw" => at'[c] = "threw"
  <2>1. CASE CheckGate(b)
    BY <2>1 DEF CheckGate, GateThrows, TypeOK
  <2>2. CASE BeginStart(b) \/ Spawn(b) \/ Listen(b) \/ WatchEnds(b)
    BY <2>2 DEF BeginStart, Spawn, Listen, WatchEnds, TypeOK
  <2>3. CASE PollPassed(b)
    BY <2>3 DEF PollPassed, TypeOK
  <2>4. CASE PollFailed(b)
    BY <2>4 DEF PollFailed, GateThrows, TypeOK
  <2>5. QED
    BY <1>2, <2>1, <2>2, <2>3, <2>4 DEF StartStep
<1>3. CASE LaunchBatch
  BY <1>3 DEF LaunchBatch
<1>4. CASE BeginSweep
  BY <1>1, <1>4 DEF BeginSweep, IsSpawned
<1>5. CASE SettleSweep
  BY <1>1, <1>5 DEF SettleSweep
<1>6. CASE RecordPids \/ EndSession \/ Crash \/ Interrupt \/ HandlerStep
  BY <1>1, <1>6 DEF RecordPids, EndSession, Crash, Interrupt, HandlerStep, StopBatch,
                    ClearPids, HandlerExit, Escalate, startVars
<1>7. ASSUME NEW b \in Component, NEW how \in {"zero", "failure"}, ProcessExit(b, how)
      PROVE  FullInv'
  BY <1>1, <1>7 DEF ProcessExit, startVars
<1>8. CASE UNCHANGED vars
  BY <1>1, <1>8 DEF vars
<1>9. QED
  BY <1>1, <1>2, <1>3, <1>4, <1>5, <1>6, <1>7, <1>8 DEF Next, SessionStep

\* Every step keeps what stopAll knows of the processes.
LEMMA StopStep ==
  ASSUME TypeOK, BatchInv, FullInv, StopInv, SavedInv, [Next]_vars
  PROVE  StopInv'
<1> USE ProcessManagerAssumption
<1>1. \A c \in Component : HasProcess(c) => HasProcess(c)'
  BY ProcessStays
<1>2. /\ LaunchedInFull' => LaunchedInFull
      /\ \A c \in Component : exit[c] # "none" => exit'[c] # "none"
  BY ThrewStays
<1>3. CASE UNCHANGED <<exit, missed, stopVars>>
           /\ \A c \in Component : status'[c] = "stopped" => status[c] = "stopped"
  BY <1>1, <1>2, <1>3 DEF StopInv, stopVars
<1>4. ASSUME NEW b \in Component, StartStep(b) PROVE StopInv'
  <2>1. UNCHANGED <<exit, missed, stopVars>>
    BY <1>4 DEF StartStep, CheckGate, BeginStart, Spawn, Listen, PollPassed,
                PollFailed, WatchEnds
  <2>2. \A c \in Component : status'[c] = "stopped" => status[c] = "stopped"
    BY <1>4 DEF StartStep, CheckGate, BeginStart, Spawn, Listen, PollPassed,
                PollFailed, WatchEnds, TypeOK
  <2>3. QED
    BY <1>3, <2>1, <2>2
<1>5. CASE SessionStep \/ Crash \/ UNCHANGED vars
  <2>1. UNCHANGED <<exit, missed, stopVars, status>>
    BY <1>5 DEF SessionStep, LaunchBatch, BeginSweep, SettleSweep, RecordPids,
                EndSession, Crash, vars, stopVars
  <2>2. QED
    BY <1>3, <2>1
<1>6. ASSUME NEW b \in Component, NEW how \in {"zero", "failure"}, ProcessExit(b, how)
      PROVE  StopInv'
  <2>1. /\ UNCHANGED <<startVars, sig, stopLeft, early>>
        /\ HasProcess(b) /\ exit[b] = "none" /\ exit' = [exit EXCEPT ![b] = how]
        /\ missed' \subseteq missed \cup {b}
        /\ \A c \in Component \ {b} : status'[c] = status[c] /\ stop'[c] = stop[c]
        /\ stop'[b] = IF Stopping(b) THEN "done" ELSE stop[b]
    BY <1>6 DEF ProcessExit, Alive, TypeOK
  <2>2. \A c \in Component : exit'[c] = IF c = b THEN how ELSE exit[c]
    BY <2>1 DEF TypeOK
  <2>3. \A c \in Component : HasProcess(c)' <=> HasProcess(c)
    BY <2>1 DEF startVars, HasProcess, IsSpawned
  <2>4. sig' = sig /\ stopLeft' = stopLeft /\ early' = early
    BY <2>1
  <2>5. ASSUME NEW c \in Component, c # b
        PROVE  /\ status'[c] = "stopped" => exit'[c] # "none"
               /\ ~HasProcess(c)' => exit'[c] = "none" /\ stop'[c] \in {"idle", "absent"}
               /\ c \in missed' \/ stop'[c] = "done" => exit'[c] # "none"
               /\ stop'[c] = "absent" /\ LaunchedInFull' => FALSE
               /\ sig' # "none" /\ c \notin stopLeft' => stop'[c] # "idle"
               /\ sig' = "cleared" => stop'[c] \in {"absent", "done"}
    BY <1>2, <2>1, <2>2, <2>3, <2>4, <2>5 DEF StopInv
  <2>6. /\ exit'[b] # "none" /\ HasProcess(b)'
        /\ stop'[b] = "absent" /\ LaunchedInFull' => FALSE
        /\ sig' # "none" /\ b \notin stopLeft' => stop'[b] # "idle"
        /\ sig' = "cleared" => stop'[b] \in {"absent", "done"}
    BY <1>2, <2>1, <2>2, <2>3, <2>4 DEF StopInv, Stopping
  <2>7. QED
    BY <2>4, <2>5, <2>6 DEF StopInv
<1>7. CASE Interrupt
  <2>1. /\ sig' = "stopping" /\ stopLeft' = Component
        /\ UNCHANGED <<startVars, exit, missed, status, stop>>
    BY <1>7 DEF Interrupt
  <2>2. QED
    BY <1>1, <1>2, <2>1 DEF StopInv
<1>8. CASE StopBatch
  <2>1. /\ UNCHANGED <<startVars, exit, missed, status, sig, early>>
        /\ sig = "stopping"
        /\ \A c \in Component :
             \/ stop'[c] = stop[c] /\ (c \in stopLeft => c \in stopLeft')
             \/ stop'[c] = "absent" /\ ~HasProcess(c)
             \/ stop'[c] = "termed" /\ HasProcess(c)
             \/ stop'[c] = "done" /\ HasProcess(c) /\ (Heard(c) \/ status[c] = "stopped")
    BY <1>8 DEF StopBatch
  <2>2. LaunchedInFull => \A c \in Component : HasProcess(c)
    BY <2>1 DEF LaunchedInFull, FullInv, SavedInv, HasProcess
  <2>3. \A c \in Component : HasProcess(c)' <=> HasProcess(c)
    BY <2>1 DEF startVars, HasProcess, IsSpawned
  <2>4. QED
    BY <1>2, <2>1, <2>2, <2>3 DEF StopInv, Heard
<1>9. ASSUME NEW b \in Component, Escalate(b) PROVE StopInv'
  <2>1. /\ UNCHANGED <<startVars, exit, missed, status, sig, stopLeft, early>>
        /\ stop[b] = "termed" /\ stop' = [stop EXCEPT ![b] = "killed"]
    BY <1>9 DEF Escalate
  <2>2. \A c \in Component : stop'[c] = IF c = b THEN "killed" ELSE stop[c]
    BY <2>1 DEF TypeOK
  <2>3. \A c \in Component : HasProcess(c)' <=> HasProcess(c)
    BY <2>1 DEF startVars, HasProcess, IsSpawned
  <2>4. QED
    BY <1>2, <2>1, <2>2, <2>3 DEF StopInv
<1>10. CASE ClearPids
  <2>1. /\ UNCHANGED <<startVars, exit, missed, status, stop, stopLeft, early>>
        /\ sig = "stopping" /\ sig' = "cleared" /\ stopLeft = {}
        /\ \A c \in Component : stop[c] \notin {"termed", "killed"}
    BY <1>10 DEF ClearPids, Stopping
  <2>2. \A c \in Component : stop[c] \in {"absent", "done"}
    BY <2>1 DEF StopInv, TypeOK
  <2>3. QED
    BY <1>1, <1>2, <2>1, <2>2 DEF StopInv
<1>11. CASE HandlerExit
  BY <1>3, <1>11 DEF HandlerExit, stopVars
<1>12. QED
  BY <1>4, <1>5, <1>6, <1>7, <1>8, <1>9, <1>10, <1>11 DEF Next, HandlerStep

\* Every step keeps the record of a launch in full.
LEMMA SavedStep ==
  ASSUME TypeOK, BatchInv, FullInv, StopInv, SavedInv, [Next]_vars
  PROVE  SavedInv'
<1> USE ProcessManagerAssumption
<1>1. /\ LaunchedInFull' => LaunchedInFull
      /\ \A c \in Component : exit[c] # "none" => exit'[c] # "none"
  BY ThrewStays
<1>2. mgr \in Settled => mgr' = mgr
  BY DEF Next, StartStep, CheckGate, BeginStart, Spawn, Listen, PollPassed, PollFailed, WatchEnds,
         GateThrows, Reject, SessionStep, LaunchBatch, BeginSweep, SettleSweep, RecordPids,
         EndSession, ProcessExit, Crash, Interrupt, HandlerStep, StopBatch, ClearPids,
         HandlerExit, Escalate, startVars, vars
<1>3. SUFFICES ASSUME LaunchedInFull', LaunchedInFull PROVE SavedInv'
  BY <1>1 DEF SavedInv
<1>4. sig = "cleared" => \A c \in Component : exit[c] # "none"
  BY <1>3 DEF StopInv
<1>5. CASE UNCHANGED <<session, saved, sig>>
  BY <1>1, <1>2, <1>3, <1>4, <1>5 DEF SavedInv, Alive
<1>6. ASSUME NEW b \in Component, StartStep(b) PROVE UNCHANGED <<session, saved, sig>>
  BY <1>6 DEF StartStep, CheckGate, BeginStart, Spawn, Listen, PollPassed, PollFailed, WatchEnds,
              stopVars
<1>7. CASE RecordPids
  <2>1. /\ mgr \in Settled /\ UNCHANGED <<mgr, at, sig>> /\ session' = "recorded"
        /\ saved' = {c \in Component : IsSpawned(c)}
    BY <1>7 DEF RecordPids, startVars, stopVars
  <2>2. \A c \in Component : IsSpawned(c)
    BY <1>3, <2>1 DEF FullInv, LaunchedInFull
  <2>3. QED
    BY <2>1, <2>2 DEF SavedInv
<1>8. CASE LaunchBatch \/ BeginSweep \/ SettleSweep
  BY <1>5, <1>8 DEF LaunchBatch, BeginSweep, SettleSweep, stopVars
<1>9. CASE EndSession
  <2>1. session = "recorded" /\ UNCHANGED <<startVars, saved, stopVars, exit>>
    BY <1>9 DEF EndSession
  <2>2. QED
    BY <1>3, <1>4, <2>1 DEF SavedInv, startVars, stopVars, Alive
<1>10. CASE HandlerExit
  <2>1. sig = "cleared" /\ UNCHANGED <<startVars, saved, stopVars, exit>>
    BY <1>10 DEF HandlerExit
  <2>2. QED
    BY <1>3, <1>4, <2>1 DEF SavedInv, startVars, stopVars, Alive
<1>11. CASE ClearPids
  <2>1. /\ sig = "stopping" /\ sig' = "cleared" /\ Live
        /\ UNCHANGED <<startVars, session>>
    BY <1>11 DEF ClearPids
  <2>2. QED
    BY <1>3, <2>1 DEF SavedInv, startVars, Live
<1>12. CASE Interrupt
  <2>1. /\ sig = "none" /\ sig' = "stopping" /\ UNCHANGED <<startVars, session, saved>>
        /\ early' = (mgr \notin Settled)
    BY <1>12 DEF Interrupt
  <2>2. QED
    BY <1>3, <2>1 DEF SavedInv, LaunchedInFull, startVars
<1>13. CASE Crash
  BY <1>3, <1>13 DEF Crash, SavedInv, startVars, stopVars
<1>14. CASE StopBatch \/ \E b \in Component : Escalate(b)
  BY <1>5, <1>14 DEF StopBatch, Escalate
<1>15. ASSUME NEW b \in Component, NEW how \in {"zero", "failure"}, ProcessExit(b, how)
       PROVE  UNCHANGED <<session, saved, sig>>
  BY <1>15 DEF ProcessExit
<1>16. CASE UNCHANGED vars
  BY <1>5, <1>16 DEF vars
<1>17. QED
  BY <1>5, <1>6, <1>7, <1>8, <1>9, <1>10, <1>11, <1>12, <1>13, <1>14, <1>15, <1>16
  DEF Next, SessionStep, HandlerStep

\* The invariants of stopAll and of the record hold together.
LEMMA OutliveInvariant == Spec => [](TypeOK /\ StopInv /\ SavedInv)
<1>1. Init => BatchInv
  BY BatchInit
<1>2. Init => FullInv /\ StopInv /\ SavedInv
  BY DEF Init, FullInv, StopInv, SavedInv, LaunchedInFull
<1>3. TypeOK /\ GateInv /\ SweepInv /\ BatchInv /\ FullInv /\ StopInv /\ SavedInv
        /\ [Next]_vars => BatchInv' /\ FullInv' /\ StopInv' /\ SavedInv'
  BY BatchStep, FullStep, StopStep, SavedStep
<1>4. QED
  BY SweepInvariant, <1>1, <1>2, <1>3, PTL DEF Spec

\* What Ctrl+C forgets is dead, for every graph, whenever it comes and whatever
\* exits or ignores SIGTERM, but for what stopAll found not yet spawned.
THEOREM ClearedMeansDeadHolds == Spec => []ClearedMeansDead
<1>1. StopInv => ClearedMeansDead
  BY DEF StopInv, ClearedMeansDead, Alive
<1>2. QED
  BY OutliveInvariant, <1>1, PTL

\* What runs when `up` has returned is on record, unless its launch was cut
\* short by a gate or by Ctrl+C: the sweep settles only over spawned components.
THEOREM SurvivorsKnownHolds == Spec => []SurvivorsKnown
<1>1. SavedInv => SurvivorsKnown
  BY DEF SavedInv, SurvivorsKnown, SurvivorsRecorded
<1>2. QED
  BY OutliveInvariant, <1>1, PTL

=============================================================================
