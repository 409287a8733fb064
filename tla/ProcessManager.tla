--------------------------- MODULE ProcessManager ---------------------------
(***************************************************************************)
(* One `launchfile up` session of the native (macos-dev) provider, from    *)
(* the moment every component is registered with the ProcessManager until  *)
(* the session's own process ends: startAll's dependency batches, the      *)
(* `condition: healthy` gates, the final health sweep, the pids recorded   *)
(* in state.json, and the Ctrl+C handler's stopAll.                        *)
(*                                                                         *)
(* The session is one Node process: an action is what runs between two     *)
(* awaits, and the operating system interleaves the components' exits.     *)
(* startOne awaits the closing of the log file between the spawn and the   *)
(* listener for the process's `exit`: an exit in between is never heard    *)
(* of, and the session takes the process for a running one ever after.     *)
(* Process groups are one process each here; output, logs and environment  *)
(* are left out, time is nondeterminism (a deadline may pass at any        *)
(* point of a poll, a probe may be answered at any point of it).           *)
(***************************************************************************)
EXTENDS Naturals, FiniteSets

CONSTANTS
  Component,       \* the registered components
  StartedDeps,     \* their depends_on entries with `condition: started`
  HealthyDeps,     \* their depends_on entries with `condition: healthy`
  Checked,         \* components that declare `health:`
  Portless,        \* of those, the ones whose check needs a port and got none
  Detach,          \* `up --detach`: no Ctrl+C handler, no foreground session
  InterruptStart,  \* Ctrl+C may arrive before startAll has settled
  MayCrash         \* the session process itself may die at any point

ASSUME ProcessManagerAssumption ==
  /\ IsFiniteSet(Component)
  /\ StartedDeps \in [Component -> SUBSET Component]
  /\ HealthyDeps \in [Component -> SUBSET Component]
  /\ Checked \subseteq Component
  /\ Portless \subseteq Checked
  /\ Detach \in BOOLEAN
  /\ InterruptStart \in BOOLEAN
  /\ MayCrash \in BOOLEAN

VARIABLES
  at,        \* where each component's startOne, then its share of the sweep, is
  gates,     \* the healthy dependencies its startOne has still to clear
  pollOf,    \* the component whose check it polls
  poll,      \* "off", "open", or "doomed": begun after that exit was heard of
  exit,      \* how the component's process ended
  missed,    \* the components that ended before anything listened for it
  status,    \* ManagedProcess.status
  passed,    \* the components with ManagedProcess.healthPassed set
  mgr,       \* startAll: batching, sweeping, or how it settled
  placed,    \* the components of the batches launched so far
  session,   \* the session process: live, recorded (pids saved), ended
  saved,     \* the components whose pids are in state.json
  sig,       \* the SIGINT handler
  stop,      \* stopAll's progress on each component
  stopLeft,  \* the components of the batches stopAll has not reached
  early      \* Ctrl+C arrived before startAll had settled

startVars == <<at, gates, pollOf, poll, passed, mgr, placed>>
stopVars  == <<sig, stop, stopLeft, early>>
vars == <<at, gates, pollOf, poll, exit, missed, status, passed, mgr, placed,
          session, saved, sig, stop, stopLeft, early>>

Progress == {"waiting", "gating", "opening", "closing", "threw",
             "spawned", "watching", "polling", "cleared", "stuck"}
Spawned  == {"spawned", "watching", "polling", "cleared", "stuck"}
Failures == {"exitFail", "healthFail"}
Settled  == {"ok"} \cup Failures

TypeOK ==
  /\ at \in [Component -> Progress]
  /\ gates \in [Component -> SUBSET Component]
  /\ pollOf \in [Component -> Component]
  /\ poll \in [Component -> {"off", "open", "doomed"}]
  /\ exit \in [Component -> {"none", "zero", "failure"}]
  /\ missed \subseteq Component
  /\ status \in [Component -> {"pending", "starting", "running", "healthy",
                               "failed", "stopped"}]
  /\ passed \subseteq Component
  /\ mgr \in {"batching", "sweeping"} \cup Settled
  /\ placed \subseteq Component
  /\ session \in {"live", "recorded", "exited", "crashed"}
  /\ saved \subseteq Component
  /\ sig \in {"none", "stopping", "cleared"}
  /\ stop \in [Component -> {"idle", "absent", "termed", "killed", "done"}]
  /\ stopLeft \subseteq Component
  /\ early \in BOOLEAN

-----------------------------------------------------------------------------
(* Dependency batches                                                      *)

Deps(c) == StartedDeps[c] \cup HealthyDeps[c]

\* The next batch once those in `done` are placed: every component left with
\* no dependency left, or, on a cycle, everything that is left.
NextBatch(done) ==
  LET left  == Component \ done
      ready == {c \in left : Deps(c) \cap left = {}}
  IN  IF ready = {} THEN left ELSE ready

\* The components of the first n batches.
Placed[n \in Nat] ==
  IF n = 0 THEN {} ELSE Placed[n - 1] \cup NextBatch(Placed[n - 1])

BatchNo(c) == CHOOSE n \in 1..Cardinality(Component) :
                 c \in Placed[n] /\ c \notin Placed[n - 1]

\* Faulty: the batches are stopped in the order they were started.
FirstBatch(S) == {c \in S : \A d \in S : BatchNo(c) <= BatchNo(d)}

\* The components of S in the latest batch any of them is in.
LastBatch(S) == {c \in S : \A d \in S : BatchNo(d) <= BatchNo(c)}

-----------------------------------------------------------------------------
(* startAll                                                                *)

IsSpawned(c) == at[c] \in Spawned
HasProcess(c) == IsSpawned(c) \/ at[c] = "closing"
Alive(c) == HasProcess(c) /\ exit[c] = "none"
Live == session \in {"live", "recorded"}

\* ManagedProcess.exit is set: the exit was heard of.
Heard(c) == exit[c] # "none" /\ c \notin missed

\* Faulty: a component that was to pass a check may exit with code 0.
exitedByCode == {c \in Component : Heard(c) /\ exit[c] = "failure"}

\* Components heard to have ended before they came up.
exitedComponents ==
  {c \in Component : /\ Heard(c)
                     /\ exit[c] = "failure" \/ c \in Checked \ passed}

stuckComponents == {c \in Component : at[c] = "stuck"}

Init ==
  /\ at = [c \in Component |->
             IF c \in NextBatch({}) THEN "gating" ELSE "waiting"]
  /\ gates = HealthyDeps
  /\ pollOf = [c \in Component |-> c]
  /\ poll = [c \in Component |-> "off"]
  /\ exit = [c \in Component |-> "none"]
  /\ missed = {}
  /\ status = [c \in Component |-> "pending"]
  /\ passed = {}
  /\ mgr = "batching"
  /\ placed = NextBatch({})
  /\ session = "live"
  /\ saved = {}
  /\ sig = "none"
  /\ stop = [c \in Component |-> "idle"]
  /\ stopLeft = {}
  /\ early = FALSE

\* startAll rejects with the first failure; the rejections that follow are lost.
Reject(kind) == mgr' = IF mgr \in Settled THEN mgr ELSE kind

\* The check of d is polled on behalf of c; a poll of a process that is known
\* to have exited gives up before its first probe.
OpenPoll(c, d) ==
  /\ pollOf' = [pollOf EXCEPT ![c] = d]
  /\ poll' = [poll EXCEPT ![c] = IF Heard(d) THEN "doomed" ELSE "open"]

\* Faulty: a status is left where the progress belongs.
GateThrowsStatus(c, kind) ==
  /\ at' = [at EXCEPT ![c] = "failed"]
  /\ Reject(kind)

GateThrows(c, kind) ==
  /\ at' = [at EXCEPT ![c] = "threw"]
  /\ Reject(kind)

GateCleared(c, d) == gates' = [gates EXCEPT ![c] = @ \ {d}]

\* startOne looks at one `condition: healthy` dependency: it refuses a
\* dependency with no check, or with a check that has no port to poll, passes
\* one already healthy, and polls any other.
CheckGate(c) ==
  /\ Live /\ at[c] = "gating" /\ poll[c] = "off"
  /\ \E d \in gates[c] :
       \/ /\ status[d] = "healthy" /\ d \in Checked
          /\ GateCleared(c, d)
          /\ UNCHANGED <<at, pollOf, poll, mgr>>
       \/ /\ status[d] # "healthy" /\ d \in Checked \ Portless
          /\ OpenPoll(c, d)
          /\ UNCHANGED <<at, gates, mgr>>
       \/ /\ d \notin Checked \/ (status[d] # "healthy" /\ d \in Portless)
          /\ GateThrows(c, "healthFail")
          /\ UNCHANGED <<gates, pollOf, poll>>
  /\ UNCHANGED <<exit, missed, status, passed, placed, session, saved,
                 stopVars>>

\* Faulty: a component starts before its gates are clear.
BeginStartUngated(c) ==
  /\ Live /\ at[c] = "gating" /\ poll[c] = "off"
  /\ at' = [at EXCEPT ![c] = "opening"]
  /\ status' = [status EXCEPT ![c] = "starting"]
  /\ UNCHANGED <<gates, pollOf, poll, exit, missed, passed, mgr, placed,
                 session, saved, stopVars>>

\* Every gate is clear: the component is starting, its log file being opened.
BeginStart(c) ==
  /\ Live /\ at[c] = "gating" /\ poll[c] = "off" /\ gates[c] = {}
  /\ at' = [at EXCEPT ![c] = "opening"]
  /\ status' = [status EXCEPT ![c] = "starting"]
  /\ UNCHANGED <<gates, pollOf, poll, exit, missed, passed, mgr, placed,
                 session, saved, stopVars>>

\* The log is open: the process is spawned, leader of its own group, and the
\* session's copy of the log file is being closed.
Spawn(c) ==
  /\ Live /\ at[c] = "opening"
  /\ at' = [at EXCEPT ![c] = "closing"]
  /\ UNCHANGED <<gates, pollOf, poll, exit, missed, status, passed, mgr, placed,
                 session, saved, stopVars>>

\* The log is closed: only now is the exit listened for and the process given
\* the start time it is recorded with.
Listen(c) ==
  /\ Live /\ at[c] = "closing"
  /\ at' = [at EXCEPT ![c] = "spawned"]
  /\ status' = [status EXCEPT ![c] = "running"]
  /\ UNCHANGED <<gates, pollOf, poll, exit, missed, passed, mgr, placed,
                 session, saved, stopVars>>

\* The check polled on behalf of c passed: in a gate the dependency is clear,
\* in the sweep the component came up.
PollPassed(c) ==
  /\ Live /\ poll[c] = "open"
  /\ poll' = [poll EXCEPT ![c] = "off"]
  /\ status' = [status EXCEPT ![pollOf[c]] = "healthy"]
  /\ passed' = passed \cup {pollOf[c]}
  /\ \/ at[c] = "gating" /\ GateCleared(c, pollOf[c]) /\ UNCHANGED at
     \/ /\ at[c] = "polling"
        /\ at' = [at EXCEPT ![c] = "cleared"]
        /\ UNCHANGED gates
  /\ UNCHANGED <<pollOf, exit, missed, mgr, placed, session, saved, stopVars>>

\* The poll ended without a pass: its budget ran out or the process is heard
\* to be gone.
PollFailed(c) ==
  /\ Live /\ poll[c] # "off"
  /\ poll' = [poll EXCEPT ![c] = "off"]
  /\ LET gone == Heard(pollOf[c])
     IN  \/ at[c] = "gating" /\ GateThrows(c, IF gone THEN "exitFail" ELSE "healthFail")
         \/ /\ at[c] = "polling"
            /\ at' = [at EXCEPT ![c] = IF gone THEN "cleared" ELSE "stuck"]
            /\ UNCHANGED mgr
  /\ UNCHANGED <<gates, pollOf, exit, missed, status, passed, placed, session,
                 saved, stopVars>>

\* Every component of the batches so far is spawned: launch the next batch.
LaunchBatch ==
  /\ Live /\ mgr = "batching" /\ placed # Component
  /\ \A c \in placed : at[c] = "spawned"
  /\ placed' = placed \cup NextBatch(placed)
  /\ at' = [c \in Component |->
              IF c \in NextBatch(placed) THEN "gating" ELSE at[c]]
  /\ UNCHANGED <<gates, pollOf, poll, exit, missed, status, passed, mgr,
                 session, saved, stopVars>>

\* Every batch is up: what is already healthy is done, an unchecked component
\* is watched, a checked one polled; a check with no port rejects at once.
BeginSweep ==
  /\ Live /\ mgr = "batching" /\ placed = Component
  /\ \A c \in Component : at[c] = "spawned"
  /\ LET polled == {c \in Checked \ Portless : status[c] # "healthy"}
     IN  /\ at' = [c \in Component |->
                     CASE status[c] = "healthy" -> "cleared"
                       [] c \in polled -> "polling"
                       [] c \notin Checked -> "watching"
                       [] OTHER -> "spawned"]
         /\ poll' = [c \in Component |->
                       CASE c \notin polled -> "off"
                         [] Heard(c) -> "doomed"
                         [] OTHER -> "open"]
         /\ pollOf' = [c \in Component |-> c]
  /\ mgr' = IF \E c \in Portless : status[c] # "healthy"
              THEN "healthFail" ELSE "sweeping"
  /\ UNCHANGED <<gates, exit, missed, status, passed, placed, session, saved,
                 stopVars>>

\* Faulty: the watch has no window, only the exit ends it.
WatchEndsOnExit(c) ==
  /\ Live /\ at[c] = "watching" /\ Heard(c)
  /\ at' = [at EXCEPT ![c] = "cleared"]
  /\ UNCHANGED <<gates, pollOf, poll, exit, missed, status, passed, mgr, placed,
                 session, saved, stopVars>>

\* The watch window of an unchecked component closes, or its process exits.
WatchEnds(c) ==
  /\ Live /\ at[c] = "watching"
  /\ at' = [at EXCEPT ![c] = "cleared"]
  /\ UNCHANGED <<gates, pollOf, poll, exit, missed, status, passed, mgr, placed,
                 session, saved, stopVars>>

\* The sweep is over: an exit wins over a stuck check.
SettleSweep ==
  /\ Live /\ mgr = "sweeping"
  /\ \A c \in Component : at[c] \in {"cleared", "stuck"}
  /\ mgr' = IF exitedComponents # {} THEN "exitFail"
            ELSE IF stuckComponents # {} THEN "healthFail"
            ELSE "ok"
  /\ UNCHANGED <<at, gates, pollOf, poll, exit, missed, status, passed, placed,
                 session, saved, stopVars>>

-----------------------------------------------------------------------------
(* The processes                                                           *)

\* stopAll has sent it a signal and listens for its exit.
Stopping(c) == stop[c] \in {"termed", "killed"}

\* A component's process ends while the session lives (what a process does
\* afterwards changes nothing the session did). startOne's listener hears of it
\* once it is installed, stopOne's once stopAll has sent its signal. Of the two
\* words the two have for one exit, nothing reads which came last.
ProcessExit(c, how) ==
  /\ Live /\ Alive(c)
  /\ exit' = [exit EXCEPT ![c] = how]
  /\ missed' = IF at[c] = "closing" THEN missed \cup {c} ELSE missed
  /\ status' = [status EXCEPT ![c] =
                  IF Stopping(c) \/ (how = "zero" /\ IsSpawned(c)) THEN "stopped"
                  ELSE IF IsSpawned(c) THEN "failed" ELSE @]
  /\ stop' = [stop EXCEPT ![c] = IF Stopping(c) THEN "done" ELSE @]
  /\ UNCHANGED <<startVars, session, saved, sig, stopLeft, early>>

-----------------------------------------------------------------------------
(* The end of `up`                                                         *)

\* Faulty: pids are recorded only by a launch that succeeded.
RecordPidsOnSuccess ==
  /\ session = "live" /\ mgr \in Settled
  /\ session' = "recorded"
  /\ saved' = {c \in Component : IsSpawned(c) /\ mgr = "ok"}
  /\ UNCHANGED <<startVars, exit, missed, status, stopVars>>

\* startAll has settled: the pids of everything spawned go into state.json.
RecordPids ==
  /\ session = "live" /\ mgr \in Settled
  /\ session' = "recorded"
  /\ saved' = {c \in Component : IsSpawned(c)}
  /\ UNCHANGED <<startVars, exit, missed, status, stopVars>>

\* The CLI exits after a failure, a detached session exits once the pids are
\* saved, and a foreground one when no child and no timer of stopAll is left to
\* wait for.
EndSession ==
  /\ session = "recorded"
  /\ \/ mgr \in Failures \/ Detach
     \/ \A c \in Component : ~Alive(c) /\ stop[c] # "termed"
  /\ session' = "exited"
  /\ UNCHANGED <<startVars, exit, missed, status, saved, stopVars>>

\* The session dies where it stands: a crash, a hang-up, an unhandled `error`
\* event of a spawn that failed.
Crash ==
  /\ MayCrash /\ Live
  /\ session' = "crashed"
  /\ UNCHANGED <<startVars, exit, missed, status, saved, stopVars>>

-----------------------------------------------------------------------------
(* Ctrl+C                                                                  *)

Interrupt ==
  /\ Live /\ ~Detach /\ sig = "none"
  /\ InterruptStart \/ session = "recorded"
  /\ sig' = "stopping"
  /\ stopLeft' = Component
  /\ early' = (mgr \notin Settled)
  /\ UNCHANGED <<startVars, exit, missed, status, session, saved, stop>>

\* Faulty: stopAll waits on processes that have already exited, or passes over
\* those that are healthy.
StopBatchAwaitsDead ==
  /\ Live /\ sig = "stopping" /\ stopLeft # {}
  /\ \A c \in Component : ~Stopping(c)
  /\ LET batch == LastBatch(stopLeft)
     IN  /\ stopLeft' = stopLeft \ batch
         /\ stop' = [c \in Component |->
                       IF c \notin batch THEN stop[c]
                       ELSE IF ~HasProcess(c) THEN "absent"
                       ELSE IF status[c] = "stopped" THEN "done"
                       ELSE "termed"]
  /\ UNCHANGED <<startVars, exit, missed, status, session, saved, sig, early>>

StopBatchSkipsHealthy ==
  /\ Live /\ sig = "stopping" /\ stopLeft # {}
  /\ \A c \in Component : ~Stopping(c)
  /\ LET batch == LastBatch(stopLeft)
     IN  /\ stopLeft' = stopLeft \ batch
         /\ stop' = [c \in Component |->
                       IF c \notin batch THEN stop[c]
                       ELSE IF ~HasProcess(c) THEN "absent"
                       ELSE IF Heard(c) \/ status[c] # "running" THEN "done"
                       ELSE "termed"]
  /\ UNCHANGED <<startVars, exit, missed, status, session, saved, sig, early>>

\* stopAll reaches its next batch: what is not known to have exited is sent
\* SIGTERM and its exit awaited, a process or none that is already gone; what
\* was heard to exit or has not been spawned yet is passed over.
StopBatch ==
  /\ Live /\ sig = "stopping" /\ stopLeft # {}
  /\ \A c \in Component : ~Stopping(c)
  /\ LET batch == LastBatch(stopLeft)
     IN  /\ stopLeft' = stopLeft \ batch
         /\ stop' = [c \in Component |->
                       IF c \notin batch THEN stop[c]
                       ELSE IF ~HasProcess(c) THEN "absent"
                       ELSE IF Heard(c) \/ status[c] = "stopped" THEN "done"
                       ELSE "termed"]
  /\ UNCHANGED <<startVars, exit, missed, status, session, saved, sig, early>>

\* The grace period of a component ends with its process still there.
Escalate(c) ==
  /\ Live /\ stop[c] = "termed"
  /\ stop' = [stop EXCEPT ![c] = "killed"]
  /\ UNCHANGED <<startVars, exit, missed, status, session, saved, sig, stopLeft,
                 early>>

\* stopAll is over: the handler clears the recorded pids...
ClearPids ==
  /\ Live /\ sig = "stopping" /\ stopLeft = {}
  /\ \A c \in Component : ~Stopping(c)
  /\ sig' = "cleared"
  /\ saved' = {}
  /\ UNCHANGED <<startVars, exit, missed, status, session, stop, stopLeft,
                 early>>

\* ... and exits 0.
HandlerExit ==
  /\ Live /\ sig = "cleared"
  /\ session' = "exited"
  /\ UNCHANGED <<startVars, exit, missed, status, saved, stopVars>>

-----------------------------------------------------------------------------
StartStep(c) == \/ CheckGate(c) \/ BeginStart(c) \/ Spawn(c) \/ Listen(c)
                \/ PollPassed(c) \/ PollFailed(c) \/ WatchEnds(c)

SessionStep == \/ LaunchBatch \/ BeginSweep \/ SettleSweep \/ RecordPids
               \/ EndSession

HandlerStep == \/ StopBatch \/ ClearPids \/ HandlerExit
               \/ \E c \in Component : Escalate(c)

Next == \/ \E c \in Component : StartStep(c)
        \/ SessionStep
        \/ \E c \in Component, how \in {"zero", "failure"} : ProcessExit(c, how)
        \/ Crash
        \/ Interrupt
        \/ HandlerStep

Spec == Init /\ [][Next]_vars

\* A killed process dies.
KilledDies(c) == stop[c] = "killed" /\ ProcessExit(c, "failure")

\* Timers fire, probes are answered and promises settle; nobody need press
\* Ctrl+C, and a component need never exit unless it is killed.
Fairness ==
  /\ \A c \in Component : WF_vars(StartStep(c))
  /\ WF_vars(SessionStep)
  /\ WF_vars(HandlerStep)
  /\ \A c \in Component : WF_vars(KilledDies(c))

FairSpec == Spec /\ Fairness

-----------------------------------------------------------------------------
(* Properties                                                              *)

\* A component from which no cycle of dependencies is reached: whatever set it
\* is in has a component that depends on no other of the set.
Grounded(c) == \A S \in SUBSET Component :
                  c \in S => \E x \in S : Deps(x) \cap S = {}

\* A component is started only after every `condition: healthy` dependency
\* has passed its check, and after every dependency that reaches no cycle has
\* been spawned, whatever failed or exited meanwhile.
DependencyGate ==
  \A c \in Component : at[c] \in Spawned \cup {"opening", "closing"} =>
     /\ HealthyDeps[c] \subseteq passed
     /\ \A d \in Deps(c) : Grounded(d) => IsSpawned(d)

\* startAll reports success only with every component spawned, every declared
\* check passed at some point, and no process ended in failure but one whose
\* end came before its session listened for it.
SuccessMeansUp ==
  [][mgr # "ok" /\ mgr' = "ok" =>
       \A c \in Component : /\ IsSpawned(c)
                            /\ exit[c] = "failure" => c \in missed
                            /\ c \in Checked => c \in passed]_vars

\* Nothing cut startAll short: no gate threw, and no Ctrl+C came before it had
\* settled. A batch mate may otherwise be spawned behind everybody's back.
LaunchedInFull == ~early /\ \A c \in Component : at[c] # "threw"

\* Whenever the handler has cleared the recorded pids ("Processes are now
\* dead"), every component it forgot is dead, unless it was spawned only after
\* stopAll had found no process of it and gone on.
ClearedMeansDead ==
  sig = "cleared" =>
    \A c \in Component : Alive(c) => c \in saved \/ stop[c] = "absent"

\* stopAll works in reverse dependency order: a component that reaches no cycle
\* is told to stop only once everything that depends on it is dead, whatever
\* exits or ignores its signal meanwhile, except for what stopAll had found not
\* yet spawned.
StopsInReverse ==
  [][\A c \in Component : stop[c] = "idle" /\ stop'[c] = "termed" /\ Grounded(c) =>
       \A d \in Component :
         c \in Deps(d) => ~Alive(d) \/ stop[d] = "absent"]_vars

\* "A process that already exited fires no second `exit`; waiting on one would
\* hang shutdown": stopOne awaits only processes that have not exited.
AwaitsLiving ==
  [][\A c \in Component : stop[c] = "idle" /\ stop'[c] = "termed" =>
       exit[c] = "none"]_vars

\* Once `up` has returned control to the shell, each component still running
\* is one `launchfile down` can find in state.json.
SurvivorsRecorded ==
  session = "exited" => \A c \in Component : Alive(c) => c \in saved

\* So it is after every launch that was not cut short.
SurvivorsKnown == LaunchedInFull => SurvivorsRecorded

\* startAll settles: no gate, cycle, exit or stuck check can make it wait for
\* ever while the session lives.
StartSettles == mgr \in {"batching", "sweeping"} ~> (mgr \in Settled \/ ~Live)

\* Ctrl+C ends the session, unless stopAll waits on a process whose end came
\* before its session listened for it.
InterruptEnds ==
  sig = "stopping" ~> (~Live \/ \E c \in missed : Stopping(c))

=============================================================================
