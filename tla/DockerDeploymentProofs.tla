----------------------- MODULE DockerDeploymentProofs -----------------------
(***************************************************************************)
(* One slug of the docker provider, for any number of shells, sources and  *)
(* passwords: until two commands work on it at once, a file write is cut   *)
(* short or `compose down` fails, the password of a database is never lost *)
(* and its deployment never adopted, wherever else a command is killed or  *)
(* fails.  That two whole files agree needs only that commands take turns. *)
(***************************************************************************)
EXTENDS DockerDeployment, TLAPS

LEMMA TypeInit == Init => TypeOK
BY DEF Init, TypeOK, UpSteps, DownSteps

\* What has happened is not forgotten.
LEMMA OddStep ==
  ASSUME [Next]_vars PROVE odd \subseteq odd' /\ (odd \subseteq Oddity => odd' \subseteq Oddity)
<1>1. CASE UNCHANGED vars
  BY <1>1 DEF vars
<1>2. ASSUME NEW c \in Cmd, Up(c)
      PROVE  odd \subseteq odd' /\ (odd \subseteq Oddity => odd' \subseteq Oddity)
  BY <1>2
  DEF Up, BeginUp, Begins, Refuse, LoadState, TruncateCompose, WriteCompose,
      TruncateState, WriteState, PrepareFails, Start, Oddity
<1>3. ASSUME NEW c \in Cmd, Down(c) \/ Crash(c)
      PROVE  odd \subseteq odd' /\ (odd \subseteq Oddity => odd' \subseteq Oddity)
  BY <1>3
  DEF Down, Crash, BeginDown, Begins, LookForState, StopContainers, StopFails,
      RemoveState, Oddity
<1> QED BY <1>1, <1>2, <1>3 DEF Next

\* A command that ends, leaving the files and the machine well formed.
FilesOK ==
  /\ state \in DockerState \cup {Absent, Torn}
  /\ compose \in Password \cup {Absent, Torn}
  /\ volume \in DockerState \cup {Absent}
  /\ containers \in DockerState \cup {Absent}
  /\ odd \subseteq Oddity

LEMMA FinishType ==
  ASSUME TypeOK, NEW c \in Cmd, Finish(c), FilesOK'
  PROVE  TypeOK'
BY DEF TypeOK, Finish, Goto, FilesOK, UpSteps, DownSteps

LEMMA GotoType ==
  ASSUME TypeOK, NEW c \in Cmd, pc[c] # "idle",
         NEW l \in UpSteps \cup DownSteps, Goto(c, l), UNCHANGED job, FilesOK',
         l \in UpSteps => pc[c] \in UpSteps \ {"load"}
  PROVE  TypeOK'
BY DEF TypeOK, Goto, FilesOK, UpSteps, DownSteps

LEMMA TypeStep == TypeOK /\ [Next]_vars => TypeOK'
<1> SUFFICES ASSUME TypeOK, [Next]_vars PROVE TypeOK'
  OBVIOUS
<1>0. FilesOK /\ odd' \subseteq Oddity
  BY OddStep DEF TypeOK, FilesOK
<1>1. CASE UNCHANGED vars
  BY <1>1 DEF vars, TypeOK
<1>2. ASSUME NEW c \in Cmd, NEW s \in Source, BeginUp(c, s) PROVE TypeOK'
  <2>1. [src |-> s, pw |-> Absent, destroy |-> FALSE] \in Job
    BY DEF Job
  <2> QED BY <1>0, <1>2, <2>1 DEF BeginUp, Goto, TypeOK, UpSteps, DownSteps
<1>3. ASSUME NEW c \in Cmd, Refuse(c) \/ PrepareFails(c) \/ Crash(c) PROVE TypeOK'
  BY <1>0, <1>3, FinishType DEF Refuse, PrepareFails, Crash, FilesOK
<1>4. ASSUME NEW c \in Cmd, LoadState(c) PROVE TypeOK'
  <2>1. PICK p \in Password : job' = [job EXCEPT ![c].pw = p]
    BY <1>4 DEF LoadState, DockerState, Fresh
  <2>2. job[c] \in Job /\ job[c].src \in Source /\ pc' = [pc EXCEPT ![c] = "compose"]
        /\ UNCHANGED <<state, compose, volume, containers>>
    BY <1>4 DEF LoadState, TypeOK, UpSteps, Goto
  <2>3. job' = [job EXCEPT ![c] = [job[c] EXCEPT !.pw = p]]
    BY <2>1 DEF TypeOK
  <2>4. [job[c] EXCEPT !.pw = p] \in Job /\ [job[c] EXCEPT !.pw = p].src = job[c].src
        /\ [job[c] EXCEPT !.pw = p].pw = p
    BY <2>2 DEF Job
  <2> QED BY <1>0, <2>2, <2>3, <2>4 DEF TypeOK, UpSteps, DownSteps
<1>5. ASSUME NEW c \in Cmd,
             TruncateCompose(c) \/ WriteCompose(c) \/ TruncateState(c) \/ WriteState(c)
      PROVE  TypeOK'
  <2>1. job[c].src \in Source /\ job[c].pw \in Password
    BY <1>5 DEF TruncateCompose, WriteCompose, TruncateState, WriteState, TypeOK, UpSteps
  <2>2. FilesOK'
    BY <1>0, <1>5, <2>1
    DEF TruncateCompose, WriteCompose, TruncateState, WriteState, FilesOK, DockerState
  <2>3. pc[c] \in UpSteps \ {"load"} /\ UNCHANGED job
    BY <1>5 DEF TruncateCompose, WriteCompose, TruncateState, WriteState, UpSteps
  <2>4. \E l \in {"composing", "state", "saving", "start"} : Goto(c, l)
    BY <1>5 DEF TruncateCompose, WriteCompose, TruncateState, WriteState
  <2> QED BY <2>2, <2>3, <2>4, GotoType DEF UpSteps
<1>6. ASSUME NEW c \in Cmd, Start(c) PROVE TypeOK'
  <2>1. job[c].src \in Source /\ compose \in Password
    BY <1>6 DEF Start, TypeOK, UpSteps
  <2>2. [src |-> job[c].src, pw |-> compose] \in DockerState
    BY <2>1 DEF DockerState
  <2>3. FilesOK'
    BY <1>0, <1>6, <2>2 DEF Start, FilesOK
  <2> QED BY <1>6, <2>3, FinishType DEF Start
<1>7. ASSUME NEW c \in Cmd, NEW destroy \in BOOLEAN, BeginDown(c, destroy) PROVE TypeOK'
  <2>1. [src |-> Absent, pw |-> Absent, destroy |-> destroy] \in Job
    BY DEF Job
  <2> QED BY <1>0, <1>7, <2>1 DEF BeginDown, Goto, TypeOK, UpSteps, DownSteps
<1>8. ASSUME NEW c \in Cmd, LookForState(c) \/ StopContainers(c) \/ StopFails(c)
      PROVE  TypeOK'
  <2>1. FilesOK' /\ pc[c] # "idle"
    BY <1>0, <1>8 DEF LookForState, StopContainers, StopFails, FilesOK
  <2>2. Finish(c) \/ \E l \in {"stop", "remove"} : Goto(c, l) /\ UNCHANGED job
    BY <1>8 DEF LookForState, StopContainers, StopFails, AfterStop
  <2> QED BY <2>1, <2>2, FinishType, GotoType DEF UpSteps, DownSteps
<1>9. ASSUME NEW c \in Cmd, RemoveState(c) PROVE TypeOK'
  BY <1>0, <1>9, FinishType DEF RemoveState, FilesOK
<1> QED
  BY <1>1, <1>2, <1>3, <1>4, <1>5, <1>6, <1>7, <1>8, <1>9 DEF Next, Up, Down

(***************************************************************************)
(* The files, the machine and the commands are well formed in every state, *)
(* whatever overlaps, fails or is killed: an `up` past loadState always    *)
(* has a password to write.                                                *)
(***************************************************************************)
THEOREM TypeCorrect == Spec => []TypeOK
BY TypeInit, TypeStep, PTL DEF Spec

-----------------------------------------------------------------------------
(***************************************************************************)
(* The invariant.  At most one command is at work; state.json describes    *)
(* the volume except while that command is rewriting it, and then the      *)
(* command has in memory what the volume has; a whole state.json comes     *)
(* with a compose file that agrees; containers run with what the volume    *)
(* was made with; and a command about to remove the state has already      *)
(* removed what it describes.                                              *)
(***************************************************************************)
Mine(c) == [src |-> job[c].src, pw |-> job[c].pw]

Loaded == {"compose", "composing", "state", "saving", "start"}

Solo == \A b, c \in Cmd : pc[b] # "idle" /\ pc[c] # "idle" => b = c

VolumeRecorded ==
  volume # Absent => state = volume \/ \E c \in Cmd : pc[c] = "saving"

ContainersMatch == containers # Absent => containers = volume

InMemory ==
  \A c \in Cmd : pc[c] \in Loaded =>
     /\ volume # Absent => volume = Mine(c)
     /\ state \in DockerState => state = Mine(c)
     /\ pc[c] \in {"state", "saving", "start"} => compose = job[c].pw
     /\ pc[c] = "start" => state \in DockerState

FilesMatch ==
  /\ state \in DockerState =>
        compose = state.pw \/ \E c \in Cmd : pc[c] = "composing"
  /\ \A c \in Cmd : (pc[c] = "composing" => compose = Torn)
                    /\ (pc[c] = "saving" => state = Torn)
                    /\ (pc[c] = "stop" => state \in DockerState)

Emptied ==
  \A c \in Cmd : pc[c] = "remove" => volume = Absent /\ containers = Absent

Inv == /\ Solo /\ VolumeRecorded /\ ContainersMatch
       /\ InMemory /\ FilesMatch /\ Emptied

LEMMA InvInit == Init => Inv
BY DockerDeploymentAssumption
DEF Init, Inv, Solo, VolumeRecorded, ContainersMatch, InMemory, FilesMatch, Emptied,
    Loaded, DockerState

\* What a step of the one command at work is to establish.
LEMMA SoloStep ==
  ASSUME TypeOK, Inv, NEW c \in Cmd, \A b \in Cmd \ {c} : pc[b] = "idle",
         \A b \in Cmd \ {c} : pc'[b] = pc[b],
         VolumeRecorded', ContainersMatch',
         pc'[c] \in Loaded =>
            /\ volume' # Absent => volume' = Mine(c)'
            /\ state' \in DockerState => state' = Mine(c)'
            /\ pc'[c] \in {"state", "saving", "start"} => compose' = job'[c].pw
            /\ pc'[c] = "start" => state' \in DockerState,
         state' \in DockerState => compose' = state'.pw \/ pc'[c] = "composing",
         pc'[c] = "composing" => compose' = Torn,
         pc'[c] = "saving" => state' = Torn,
         pc'[c] = "stop" => state' \in DockerState,
         pc'[c] = "remove" => volume' = Absent /\ containers' = Absent
  PROVE  Inv'
<1>1. Solo'
  BY DEF Solo
<1>2. InMemory'
  BY DEF InMemory, Loaded
<1>3. FilesMatch'
  BY DEF FilesMatch
<1>4. Emptied'
  BY DEF Emptied
<1> QED BY <1>1, <1>2, <1>3, <1>4 DEF Inv

LEMMA InvStep ==
  ASSUME TypeOK, TypeOK', odd = {}, odd' = {}, Inv, [Next]_vars
  PROVE  Inv'
<1> USE DockerDeploymentAssumption
<1>1. CASE UNCHANGED vars
  BY <1>1 DEF vars, Inv, Solo, VolumeRecorded, ContainersMatch, InMemory, FilesMatch,
              Emptied, Mine
<1>2. ASSUME NEW c \in Cmd, Up(c) \/ Down(c) \/ Crash(c) PROVE Inv'
  <2>1. \A b \in Cmd \ {c} : pc[b] = "idle" /\ pc'[b] = pc[b]
    BY <1>2
    DEF Up, Down, Crash, BeginUp, Refuse, LoadState, TruncateCompose, WriteCompose,
        TruncateState, WriteState, PrepareFails, Start, BeginDown, LookForState,
        StopContainers, StopFails, RemoveState, AfterStop, Finish, Goto, Begins,
        AllIdle, Inv, Solo, TypeOK
  <2> DEFINE quiet == pc'[c] \in {"idle", "load", "look"}
  <2>2. ASSUME quiet, pc[c] \in {"idle", "load", "look", "start"},
               UNCHANGED <<state, compose, volume, containers>>
        PROVE  Inv'
    BY <2>1, <2>2, SoloStep
    DEF Inv, VolumeRecorded, ContainersMatch, InMemory, FilesMatch, Loaded, TypeOK
  <2>3. ASSUME NEW s \in Source, BeginUp(c, s) PROVE Inv'
    BY <2>2, <2>3 DEF BeginUp, Goto, TypeOK
  <2>4. CASE Refuse(c) \/ PrepareFails(c)
    BY <2>2, <2>4 DEF Refuse, PrepareFails, Finish, Goto, TypeOK
  <2>5. CASE Crash(c)
    <3>1. pc[c] \notin {"composing", "saving"} /\ pc'[c] = "idle"
      BY <2>5 DEF Crash, Goto, Finish, TypeOK
    <3> QED
      BY <2>1, <2>5, <3>1, SoloStep
      DEF Crash, Inv, VolumeRecorded, ContainersMatch, FilesMatch, Loaded
  <2>6. CASE LoadState(c)
    <3>1. /\ pc[c] = "load" /\ pc'[c] = "compose"
          /\ UNCHANGED <<state, compose, volume, containers>>
      BY <2>6 DEF LoadState, Goto, TypeOK
    <3>2. job'[c].src = job[c].src /\ (state \in DockerState => job'[c].pw = state.pw)
      BY <2>6 DEF LoadState, TypeOK, UpSteps, Job
    <3>3. state \in DockerState => state = Mine(c)'
      BY <2>6, <3>2 DEF LoadState, foreign, DockerState, Mine
    <3>4. volume # Absent => state = volume /\ state \in DockerState
      BY <2>1, <3>1 DEF Inv, VolumeRecorded, TypeOK
    <3> QED
      BY <2>1, <3>1, <3>3, <3>4, SoloStep
      DEF Inv, VolumeRecorded, ContainersMatch, FilesMatch, Loaded
  <2>7. CASE TruncateCompose(c)
    <3>1. pc'[c] = "composing"
      BY <2>7 DEF TruncateCompose, Goto, Finish, TypeOK
    <3> QED
      BY <2>1, <2>7, <3>1, SoloStep
      DEF TruncateCompose, Inv, VolumeRecorded, ContainersMatch, InMemory, FilesMatch, Emptied,
          Loaded, Mine, TypeOK
  <2>8. CASE WriteCompose(c)
    <3>1. /\ pc[c] = "composing" /\ pc'[c] = "state"
          /\ UNCHANGED <<state, volume, containers, job>>
      BY <2>8 DEF WriteCompose, Goto, TypeOK
    <3>2. /\ compose = Torn /\ (volume # Absent => volume = Mine(c))
          /\ state \in DockerState => state = Mine(c)
      BY <3>1 DEF Inv, InMemory, FilesMatch, Loaded
    <3>3. compose' = job[c].pw /\ Mine(c)' = Mine(c) /\ Mine(c).pw = job[c].pw
      BY <2>8, <3>1, <3>2 DEF WriteCompose, Mine
    <3>4. VolumeRecorded' /\ ContainersMatch'
      BY <2>1, <3>1 DEF Inv, VolumeRecorded, ContainersMatch
    <3>5. /\ volume' # Absent => volume' = Mine(c)'
          /\ state' \in DockerState => state' = Mine(c)' /\ compose' = state'.pw
          /\ compose' = job'[c].pw
      BY <3>1, <3>2, <3>3 DEF DockerState
    <3> QED BY <2>1, <3>1, <3>4, <3>5, SoloStep
  <2>9. CASE TruncateState(c)
    <3>1. /\ pc[c] = "state" /\ pc'[c] = "saving" /\ state' = Torn
          /\ UNCHANGED <<compose, volume, containers, job>>
      BY <2>9 DEF TruncateState, Goto, TypeOK
    <3>2. compose = job[c].pw /\ (volume # Absent => volume = Mine(c))
      BY <3>1 DEF Inv, InMemory, Loaded
    <3>3. Torn \notin DockerState /\ Mine(c)' = Mine(c)
      BY <3>1 DEF DockerState, Mine
    <3>4. VolumeRecorded' /\ ContainersMatch'
      BY <3>1 DEF Inv, VolumeRecorded, ContainersMatch
    <3>5. /\ volume' # Absent => volume' = Mine(c)'
          /\ compose' = job'[c].pw /\ state' \notin DockerState
      BY <3>1, <3>2, <3>3 DEF DockerState
    <3> QED BY <2>1, <3>1, <3>4, <3>5, SoloStep
  <2>10. CASE WriteState(c)
    <3>1. /\ pc[c] = "saving" /\ pc'[c] = "start" /\ UNCHANGED <<compose, volume, containers, job>>
      BY <2>10 DEF WriteState, Goto, TypeOK
    <3>2. state = Torn /\ compose = job[c].pw /\ (volume # Absent => volume = Mine(c))
      BY <3>1 DEF Inv, InMemory, FilesMatch, Loaded
    <3>3. Mine(c) \in DockerState /\ Mine(c).pw = job[c].pw
      BY <3>1 DEF Mine, DockerState, TypeOK, UpSteps
    <3>4. state' = Mine(c) /\ Mine(c)' = Mine(c)
      BY <2>10, <3>1, <3>2 DEF WriteState, Mine
    <3> QED
      BY <2>1, <3>1, <3>2, <3>3, <3>4, SoloStep
      DEF Inv, VolumeRecorded, ContainersMatch, Loaded
  <2>11. CASE Start(c)
    <3>1. pc[c] = "start" /\ pc'[c] = "idle" /\ UNCHANGED <<state, compose>>
      BY <2>11 DEF Start, Finish, Goto, TypeOK
    <3>2. [src |-> job[c].src, pw |-> compose] = Mine(c) /\ state = Mine(c)
      BY <3>1 DEF Inv, InMemory, Loaded, Mine
    <3>3. volume # Absent => volume = Mine(c)
      BY <3>1 DEF Inv, InMemory, Loaded
    <3>4. volume' = Mine(c) /\ containers' \in {containers, Mine(c)}
      BY <2>11, <3>2, <3>3 DEF Start
    <3>5. VolumeRecorded' /\ ContainersMatch'
      BY <3>1, <3>2, <3>3, <3>4 DEF Inv, VolumeRecorded, ContainersMatch
    <3> QED
      BY <2>1, <3>1, <3>5, SoloStep DEF Inv, FilesMatch, Loaded
  <2>12. ASSUME NEW destroy \in BOOLEAN, BeginDown(c, destroy) PROVE Inv'
    BY <2>2, <2>12 DEF BeginDown, Goto, TypeOK
  <2>13. CASE LookForState(c)
    <3>1. /\ pc[c] = "look" /\ UNCHANGED <<state, compose, volume, containers>>
          /\ pc'[c] = IF state \in DockerState THEN "stop" ELSE "idle"
      BY <2>13 DEF LookForState, Finish, Goto, TypeOK
    <3> QED
      BY <2>1, <3>1, SoloStep
      DEF Inv, VolumeRecorded, ContainersMatch, FilesMatch, Loaded
  <2>14. CASE StopContainers(c)
    <3>1. /\ pc[c] = "stop" /\ UNCHANGED <<state, compose>> /\ containers' = Absent
          /\ volume' = IF job[c].destroy THEN Absent ELSE volume
          /\ pc'[c] = IF job[c].destroy THEN "remove" ELSE "idle"
      BY <2>14 DEF StopContainers, AfterStop, Finish, Goto, TypeOK
    <3> QED
      BY <2>1, <3>1, SoloStep
      DEF Inv, VolumeRecorded, ContainersMatch, FilesMatch, Loaded
  <2>15. CASE StopFails(c)
    BY <2>15 DEF StopFails
  <2>16. CASE RemoveState(c)
    <3>1. /\ pc[c] = "remove" /\ pc'[c] = "idle" /\ state' = Absent
          /\ UNCHANGED <<volume, containers>>
      BY <2>16 DEF RemoveState, Finish, Goto, TypeOK
    <3>2. volume = Absent /\ containers = Absent /\ state' \notin DockerState
      BY <3>1 DEF Inv, Emptied, DockerState
    <3> QED
      BY <2>1, <3>1, <3>2, SoloStep DEF VolumeRecorded, ContainersMatch, Loaded
  <2> QED
    BY <1>2, <2>3, <2>4, <2>5, <2>6, <2>7, <2>8, <2>9, <2>10, <2>11, <2>12, <2>13,
       <2>14, <2>15, <2>16 DEF Up, Down
<1> QED BY <1>1, <1>2 DEF Next

LEMMA Invariant == Spec => [](TypeOK /\ (odd = {} => Inv))
<1>1. Init => TypeOK /\ Inv
  BY TypeInit, InvInit
<1>2. TypeOK /\ (odd = {} => Inv) /\ [Next]_vars => (TypeOK /\ (odd = {} => Inv))'
  <2> SUFFICES ASSUME TypeOK, odd = {} => Inv, [Next]_vars
               PROVE  TypeOK' /\ (odd' = {} => Inv')
    OBVIOUS
  <2>1. TypeOK' /\ (odd' = {} => odd = {})
    BY TypeStep, OddStep
  <2> QED BY <2>1, InvStep
<1> QED BY <1>1, <1>2, PTL DEF Spec

(***************************************************************************)
(* Between commands state.json holds the password of the database: it is   *)
(* saved before anything starts (saveState before `compose up`) and        *)
(* removed only after the volume is.                                       *)
(***************************************************************************)
THEOREM SecretKeptHolds == Spec => []SecretKept
<1>1. TypeOK /\ (odd = {} => Inv) => SecretKept
  BY DEF Inv, VolumeRecorded, SecretKept, AllIdle
<1> QED BY <1>1, Invariant, PTL

-----------------------------------------------------------------------------
(***************************************************************************)
(* That the two files agree needs less.  Whatever fails or is killed, a    *)
(* command that has loaded a whole state.json writes its password back,    *)
(* and one that has minted a password has found no whole state.json and    *)
(* writes the compose file before it.                                      *)
(***************************************************************************)
AgreeInv ==
  "overlap" \notin odd =>
    /\ Solo
    /\ state \in DockerState /\ compose \in Password => compose = state.pw
    /\ \A c \in Cmd : pc[c] \in Loaded =>
         /\ state \in DockerState => state.pw = job[c].pw
         /\ pc[c] \in {"state", "saving", "start"} /\ compose \in Password
              => compose = job[c].pw

LEMMA AgreeStep ==
  ASSUME TypeOK, AgreeInv, [Next]_vars PROVE AgreeInv'
<1> USE DockerDeploymentAssumption
<1> SUFFICES ASSUME "overlap" \notin odd' PROVE AgreeInv'
  BY DEF AgreeInv
<1>0. "overlap" \notin odd
  BY OddStep
<1>1. CASE UNCHANGED vars
  BY <1>0, <1>1 DEF vars, AgreeInv, Solo
<1>2. ASSUME NEW c \in Cmd, Up(c) \/ Down(c) \/ Crash(c) PROVE AgreeInv'
  <2>1. \A b \in Cmd \ {c} : pc[b] = "idle" /\ pc'[b] = pc[b]
    BY <1>0, <1>2
    DEF Up, Down, Crash, BeginUp, Refuse, LoadState, TruncateCompose, WriteCompose,
        TruncateState, WriteState, PrepareFails, Start, BeginDown, LookForState,
        StopContainers, StopFails, RemoveState, AfterStop, Finish, Goto, Begins,
        AllIdle, AgreeInv, Solo, TypeOK
  <2>2. ASSUME pc'[c] \notin Loaded, UNCHANGED <<state, compose>> PROVE AgreeInv'
    BY <1>0, <2>1, <2>2 DEF AgreeInv, Solo, Loaded
  <2>3. CASE LoadState(c)
    <3>1. /\ pc'[c] = "compose" /\ UNCHANGED <<state, compose>>
          /\ state \in DockerState => state.pw = job'[c].pw
      BY <2>3 DEF LoadState, Goto, TypeOK, UpSteps, Job
    <3> QED BY <1>0, <2>1, <3>1 DEF AgreeInv, Solo, Loaded
  <2>4. CASE TruncateCompose(c)
    <3>1. /\ pc[c] = "compose" /\ pc'[c] = "composing"
          /\ UNCHANGED <<state, job>> /\ compose' \notin Password
      BY <2>4 DEF TruncateCompose, Goto, TypeOK
    <3> QED BY <1>0, <2>1, <3>1 DEF AgreeInv, Solo, Loaded
  <2>5. CASE WriteCompose(c)
    <3>1. /\ pc[c] = "composing" /\ pc'[c] = "state" /\ UNCHANGED <<state, job>>
          /\ compose' \in Password => compose' = job[c].pw
      BY <2>5 DEF WriteCompose, Goto, TypeOK
    <3> QED BY <1>0, <2>1, <3>1 DEF AgreeInv, Solo, Loaded
  <2>6. CASE TruncateState(c)
    <3>1. /\ pc[c] = "state" /\ pc'[c] = "saving"
          /\ UNCHANGED <<compose, job>> /\ state' \notin DockerState
      BY <2>6 DEF TruncateState, Goto, TypeOK, DockerState
    <3> QED BY <1>0, <2>1, <3>1 DEF AgreeInv, Solo, Loaded
  <2>7. CASE WriteState(c)
    <3>1. /\ pc[c] = "saving" /\ pc'[c] = "start" /\ UNCHANGED <<compose, job>>
          /\ state' \in DockerState => state'.pw = job[c].pw
      BY <2>7 DEF WriteState, Goto, TypeOK, DockerState
    <3> QED BY <1>0, <2>1, <3>1 DEF AgreeInv, Solo, Loaded
  <2>8. CASE RemoveState(c)
    <3>1. pc'[c] = "idle" /\ state' \notin DockerState
      BY <2>8 DEF RemoveState, Finish, Goto, TypeOK, DockerState
    <3> QED BY <1>0, <2>1, <3>1 DEF AgreeInv, Solo, Loaded
  <2>9. CASE \/ \E s \in Source : BeginUp(c, s)
             \/ Refuse(c) \/ PrepareFails(c) \/ Start(c) \/ Crash(c)
             \/ \E destroy \in BOOLEAN : BeginDown(c, destroy)
             \/ LookForState(c) \/ StopContainers(c) \/ StopFails(c)
    <3>1. UNCHANGED <<state, compose>>
      BY <2>9
      DEF BeginUp, Refuse, PrepareFails, Start, Crash, BeginDown, LookForState,
          StopContainers, StopFails
    <3>2. pc'[c] \in {"idle", "load", "look", "stop", "remove"}
      BY <2>9
      DEF BeginUp, Refuse, PrepareFails, Start, Crash, BeginDown, LookForState,
          StopContainers, StopFails, AfterStop, Finish, Goto, TypeOK
    <3> QED BY <2>2, <3>1, <3>2 DEF Loaded
  <2> QED
    BY <1>2, <2>3, <2>4, <2>5, <2>6, <2>7, <2>8, <2>9 DEF Up, Down
<1> QED BY <1>1, <1>2 DEF Next

(***************************************************************************)
(* Two whole files agree about the password, whatever fails and wherever a *)
(* command is killed, as long as commands take turns on the slug: up       *)
(* writes the compose file first, and with what state.json has if it is    *)
(* whole.                                                                  *)
(***************************************************************************)
THEOREM FilesAgreeHolds == Spec => []FilesAgree
<1>1. Init => TypeOK /\ AgreeInv
  BY TypeInit, DockerDeploymentAssumption
  DEF Init, AgreeInv, Solo, Loaded, DockerState
<1>2. TypeOK /\ AgreeInv /\ [Next]_vars => (TypeOK /\ AgreeInv)'
  BY TypeStep, AgreeStep
<1>3. AgreeInv => FilesAgree
  BY DEF AgreeInv, FilesAgree
<1> QED BY <1>1, <1>2, <1>3, PTL DEF Spec

-----------------------------------------------------------------------------
(***************************************************************************)
(* The refinement: data are created once, and every launch until they are  *)
(* destroyed is by the source and with the password that created them.     *)
(***************************************************************************)
THEOREM LifecycleImplemented == Spec => Lifecycle
<1> DEFINE Mapped == <<volume, containers, odd # {}>>
<1>1. Init => L!Init
  BY DEF Init, L!Init
<1>2. TypeOK /\ TypeOK' /\ (odd = {} => Inv) /\ [Next]_vars => [L!Next]_Mapped
  <2> SUFFICES ASSUME TypeOK, TypeOK', odd = {} => Inv, [Next]_vars, odd = {}
               PROVE  [L!Next]_Mapped
    BY OddStep DEF L!Next
  <2>1. ASSUME NEW c \in Cmd, Start(c) PROVE [L!Next]_Mapped
    <3>1. pc[c] = "start"
      BY <2>1 DEF Start
    <3>2. [src |-> job[c].src, pw |-> compose] = Mine(c)
      BY <3>1 DEF Inv, InMemory, Loaded, Mine
    <3>3. volume # Absent => volume = Mine(c)
      BY <3>1 DEF Inv, InMemory, Loaded
    <3>4. volume' = Mine(c) /\ containers' \in {containers, volume'}
      BY <2>1, <3>2, <3>3 DEF Start
    <3>5. Mine(c) \in L!Deployment
      BY <3>1 DEF Mine, L!Deployment, TypeOK, UpSteps
    <3>6. odd' = odd
      BY <2>1 DEF Start
    <3> QED
      BY <3>3, <3>4, <3>5, <3>6 DEF L!Next, L!Kept, L!Create, L!Launch
  <2>2. ASSUME NEW c \in Cmd, StopContainers(c) PROVE [L!Next]_Mapped
    BY <2>2 DEF StopContainers, L!Next, L!Kept, L!Stop, L!Destroy
  <2>3. \/ UNCHANGED <<volume, containers>>
        \/ \E c \in Cmd : Start(c) \/ StopContainers(c)
    BY DEF Next, vars, Up, Down, Crash, BeginUp, Refuse, LoadState, TruncateCompose,
           WriteCompose, TruncateState, WriteState, PrepareFails, BeginDown,
           LookForState, StopFails, RemoveState
  <2> QED BY <2>1, <2>2, <2>3 DEF L!Next, L!Void
<1> QED BY <1>1, <1>2, Invariant, PTL DEF Spec, Lifecycle, L!Spec
=============================================================================
