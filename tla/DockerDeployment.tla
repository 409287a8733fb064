-------------------------- MODULE DockerDeployment --------------------------
(***************************************************************************)
(* The docker provider's state for one slug, and the `up` and `down`       *)
(* commands that work on it: ~/.launchfile/docker/<slug>/state.json and    *)
(* docker-compose.yml, the compose project's volume, and its containers.   *)
(*                                                                         *)
(* Of the Launchfile only a backing service's password is kept: minted on  *)
(* the first `up`, stored in state.json, written into the compose file and *)
(* baked into the database the first time its volume is initialised.       *)
(* Several sources (checkouts, URLs) may resolve to the slug.  Files are   *)
(* written by truncating them and writing them, two steps.                 *)
(***************************************************************************)
CONSTANTS
  Cmd,        \* command processes
  Source,     \* where a Launchfile of this name may come from
  Password,   \* the passwords that may be minted
  Absent,     \* no such file, volume or containers
  Torn,       \* a file cut short
  NoJob       \* a command that is not running

ASSUME DockerDeploymentAssumption ==
  /\ Absent # Torn
  /\ {Absent, Torn} \cap (Password \cup [src : Source, pw : Password]) = {}

VARIABLES
  state,       \* state.json: the recorded source and the minted password
  compose,     \* docker-compose.yml: the password in it
  volume,      \* the database's volume: who initialised it, and the password
  containers,  \* the app's containers: whom they run for, and the password
  pc,          \* where each command is
  job,         \* what each command is doing, with the state it has in memory
  odd          \* what has happened that the code does not reckon with

vars == <<state, compose, volume, containers, pc, job, odd>>

\* overlap: two commands were at work at once; stop: `docker compose down`
\* failed; torn: a command was killed within a file write.
Oddity == {"overlap", "stop", "torn"}

DockerState == [src : Source, pw : Password]

UpSteps   == {"load", "compose", "composing", "state", "saving", "start"}
DownSteps == {"look", "stop", "remove"}

\* `up`: the source it launches, and the password once it has one; `down`:
\* whether it destroys.
Job == [src : Source \cup {Absent}, pw : Password \cup {Absent}, destroy : BOOLEAN]

TypeOK ==
  /\ state \in DockerState \cup {Absent, Torn}
  /\ compose \in Password \cup {Absent, Torn}
  /\ volume \in DockerState \cup {Absent}
  /\ containers \in DockerState \cup {Absent}
  /\ pc \in [Cmd -> UpSteps \cup DownSteps \cup {"idle"}]
  /\ job \in [Cmd -> Job \cup {NoJob}]
  /\ \A c \in Cmd : /\ pc[c] # "idle" => job[c] \in Job
                    /\ pc[c] \in UpSteps => job[c].src \in Source
                    /\ pc[c] \in UpSteps \ {"load"} => job[c].pw \in Password
  /\ odd \subseteq Oddity

-----------------------------------------------------------------------------
AllIdle == \A c \in Cmd : pc[c] = "idle"

Begins == odd' = IF AllIdle THEN odd ELSE odd \cup {"overlap"}

Goto(c, l) == pc' = [pc EXCEPT ![c] = l]

Finish(c) ==
  /\ Goto(c, "idle")
  /\ job' = [job EXCEPT ![c] = NoJob]

\* A random value: one that is in use nowhere.
Fresh ==
  Password \ ({compose}
              \cup {x.pw : x \in {state, volume, containers} \cap DockerState}
              \cup {job[c].pw : c \in {b \in Cmd : pc[b] # "idle"}})

Init ==
  /\ state = Absent /\ compose = Absent
  /\ volume = Absent /\ containers = Absent
  /\ pc = [c \in Cmd |-> "idle"]
  /\ job = [c \in Cmd |-> NoJob]
  /\ odd = {}

-----------------------------------------------------------------------------
(* up                                                                      *)

BeginUp(c, s) ==
  /\ pc[c] = "idle" /\ Begins
  /\ job' = [job EXCEPT ![c] = [src |-> s, pw |-> Absent, destroy |-> FALSE]]
  /\ Goto(c, "load")
  /\ UNCHANGED <<state, compose, volume, containers>>

\* Faulty: whose state it is does not matter.
foreignNever(c) == FALSE

\* Existing state from another source is a different deployment.
foreign(c) == state \in DockerState /\ state.src # job[c].src

\* One of the refusals before anything is written: a foreign source, a
\* required variable or a storage path that is not supplied, a port.
Refuse(c) ==
  /\ pc[c] = "load"
  /\ Finish(c)
  /\ UNCHANGED <<state, compose, volume, containers, odd>>

\* Faulty: nothing is minted without state, or something is minted every time.
LoadStateUnminted(c) ==
  /\ pc[c] = "load" /\ ~foreign(c)
  /\ job' = [job EXCEPT ![c].pw = IF state \in DockerState THEN state.pw ELSE @]
  /\ Goto(c, "compose")
  /\ UNCHANGED <<state, compose, volume, containers, odd>>

LoadStateAfresh(c) ==
  /\ pc[c] = "load" /\ ~foreign(c)
  /\ \E p \in Fresh : job' = [job EXCEPT ![c].pw = p]
  /\ Goto(c, "compose")
  /\ UNCHANGED <<state, compose, volume, containers, odd>>

\* loadState reads a missing file and a torn one alike: no state, mint anew.
LoadState(c) ==
  /\ pc[c] = "load" /\ ~foreign(c)
  /\ \E p \in IF state \in DockerState THEN {state.pw} ELSE Fresh :
       job' = [job EXCEPT ![c].pw = p]
  /\ Goto(c, "compose")
  /\ UNCHANGED <<state, compose, volume, containers, odd>>

\* writePrivateFile opens with "w", which truncates, and then writes. A file
\* removed after it was opened stays removed.
TruncateCompose(c) ==
  /\ pc[c] = "compose"
  /\ compose' = Torn
  /\ Goto(c, "composing")
  /\ UNCHANGED <<state, volume, containers, job, odd>>

WriteCompose(c) ==
  /\ pc[c] = "composing"
  /\ compose' = IF compose = Absent THEN Absent ELSE job[c].pw
  /\ Goto(c, "state")
  /\ UNCHANGED <<state, volume, containers, job, odd>>

TruncateState(c) ==
  /\ pc[c] = "state"
  /\ state' = Torn
  /\ Goto(c, "saving")
  /\ UNCHANGED <<compose, volume, containers, job, odd>>

WriteState(c) ==
  /\ pc[c] = "saving"
  /\ state' = IF state = Absent THEN Absent
              ELSE [src |-> job[c].src, pw |-> job[c].pw]
  /\ Goto(c, "start")
  /\ UNCHANGED <<compose, volume, containers, job, odd>>

\* Pulling or building an image fails, or compose cannot read its file.
PrepareFails(c) ==
  /\ pc[c] = "start"
  /\ Finish(c)
  /\ UNCHANGED <<state, compose, volume, containers, odd>>

\* The releases and `compose up -d` work from the file on disk. A release
\* that fails leaves the database behind and starts none of the app. The
\* health gate that follows changes nothing here.
Start(c) ==
  /\ pc[c] = "start" /\ compose \in Password
  /\ LET mine == [src |-> job[c].src, pw |-> compose]
     IN  /\ volume' = IF volume = Absent THEN mine ELSE volume
         /\ containers' \in {containers, mine}
  /\ Finish(c)
  /\ UNCHANGED <<state, compose, odd>>

-----------------------------------------------------------------------------
(* down                                                                    *)

BeginDown(c, destroy) ==
  /\ pc[c] = "idle" /\ Begins
  /\ job' = [job EXCEPT ![c] = [src |-> Absent, pw |-> Absent,
                                destroy |-> destroy]]
  /\ Goto(c, "look")
  /\ UNCHANGED <<state, compose, volume, containers>>

\* Without state it exits 1.
LookForState(c) ==
  /\ pc[c] = "look"
  /\ IF state \in DockerState THEN Goto(c, "stop") /\ UNCHANGED job ELSE Finish(c)
  /\ UNCHANGED <<state, compose, volume, containers, odd>>

\* Faulty: state goes with the containers, destroy or not.
AfterStopRemoves(c) == Goto(c, "remove") /\ UNCHANGED job

AfterStop(c) == IF job[c].destroy THEN Goto(c, "remove") /\ UNCHANGED job
                ELSE Finish(c)

\* `compose down`, with -v when destroying.
StopContainers(c) ==
  /\ pc[c] = "stop" /\ compose \in Password
  /\ containers' = Absent
  /\ volume' = IF job[c].destroy THEN Absent ELSE volume
  /\ AfterStop(c)
  /\ UNCHANGED <<state, compose, odd>>

\* It failed, or could not read its file: allowFailure lets `down` go on.
StopFails(c) ==
  /\ pc[c] = "stop"
  /\ odd' = odd \cup {"stop"}
  /\ AfterStop(c)
  /\ UNCHANGED <<state, compose, volume, containers>>

RemoveState(c) ==
  /\ pc[c] = "remove"
  /\ state' = Absent /\ compose' = Absent
  /\ Finish(c)
  /\ UNCHANGED <<volume, containers, odd>>

-----------------------------------------------------------------------------
\* The command is killed; what it has done so far stays.
Crash(c) ==
  /\ pc[c] # "idle"
  /\ odd' = IF pc[c] \in {"composing", "saving"} THEN odd \cup {"torn"} ELSE odd
  /\ Finish(c)
  /\ UNCHANGED <<state, compose, volume, containers>>

Up(c) == \/ \E s \in Source : BeginUp(c, s)
         \/ Refuse(c) \/ LoadState(c)
         \/ TruncateCompose(c) \/ WriteCompose(c)
         \/ TruncateState(c) \/ WriteState(c)
         \/ PrepareFails(c) \/ Start(c)

Down(c) == \/ \E destroy \in BOOLEAN : BeginDown(c, destroy)
           \/ LookForState(c) \/ StopContainers(c) \/ StopFails(c) \/ RemoveState(c)

Next == \E c \in Cmd : Up(c) \/ Down(c) \/ Crash(c)

Spec == Init /\ [][Next]_vars

-----------------------------------------------------------------------------
(* Properties                                                              *)

\* The password a database was initialised with is never lost: whenever no
\* command is at work, state.json holds it, with the source it came from
\* (D-49: minted once, then preserved; saveState before anything starts).
\* It takes two commands at once, a `compose down` that fails or a write cut
\* short to break that; a kill anywhere else does not.
SecretKept == odd = {} /\ AllIdle /\ volume # Absent => state = volume

\* Whatever is killed or fails, two whole files never disagree: the compose
\* file a later `down`, `logs` or `bootstrap` runs with has the password that
\* state.json has.
FilesAgree ==
  /\ "overlap" \notin odd /\ AllIdle
  /\ state \in DockerState /\ compose \in Password
  => compose = state.pw

\* Through volume and containers, the commands behave as a deployment whose
\* data are created once and launched only by and with what created them, until
\* the first of the three oddities.
L == INSTANCE DeploymentLifecycle WITH
       Nothing <- Absent, data <- volume, containers <- containers, void <- odd # {}

Lifecycle == L!Spec
=============================================================================
