--------------------------- MODULE DeploymentIndex ---------------------------
(***************************************************************************)
(* ~/.launchfile/deployments/index.json and the commands that keep it:     *)
(* `launchfile up` and `launchfile down [--destroy]`, any number of them   *)
(* running at once in different shells, each a process of its own.         *)
(*                                                                         *)
(* A command finds its row, drives the provider for minutes, and then      *)
(* edits the index by reading the whole file and replacing it.  The        *)
(* provider is only what the index is about: whether an instance has       *)
(* containers (or processes) on the machine and whether the provider has   *)
(* state for it.  An instance is a (source, name) pair.                    *)
(***************************************************************************)
EXTENDS Naturals, FiniteSets

CONSTANTS
  Cmd,           \* command processes
  Inst,          \* instances: (source, name) pairs
  Id,            \* deployment ids; their number bounds the rows at one time
  Provider,      \* the providers in use, of {"docker", "macos"}
  NoRow,         \* what the index holds for an id without a row
  NoJob          \* a command that is not running

ASSUME DeploymentIndexAssumption ==
  /\ Provider \subseteq {"docker", "macos"}
  /\ NoRow \notin [inst : Inst, provider : Provider,
                   status : {"up", "down", "unhealthy", "unknown"}]

VARIABLES
  index,    \* index.json
  machine,  \* what each provider has on the machine for each instance
  pc,       \* where each command is
  job,      \* what each command is doing
  snap,     \* the index as a command last read it
  odd       \* what has befallen each instance that the index cannot know of

vars == <<index, machine, pc, job, snap, odd>>

\* ctrlc     a native session was ended with Ctrl+C
\* fault     `compose down` or a process stop failed, or a command was killed
\* overlap   a command began while another was at work on the instance
\* switched  an `up` took over the row of the instance's other provider
\* lost      a command replaced the file by an edit of a copy in which the rows
\*           of this instance were out of date
Oddity == {"ctrlc", "fault", "overlap", "switched", "lost"}

Status == {"up", "down", "unhealthy", "unknown"}

DeploymentEntry == [inst : Inst, provider : Provider, status : Status]

Index == [Id -> DeploymentEntry \cup {NoRow}]

\* op     what the command does; want: the status it will record
\* known  `up`: the instance had a row when the command began
Job == [op : {"up", "down", "destroy"}, inst : Inst, provider : Provider,
        id : Id, known : BOOLEAN, want : Status]

TypeOK ==
  /\ index \in Index
  /\ machine \in [Inst \X Provider -> [running : BOOLEAN, state : BOOLEAN]]
  /\ pc \in [Cmd -> {"idle", "provider", "read", "write"}]
  /\ job \in [Cmd -> Job \cup {NoJob}]
  /\ \A c \in Cmd : pc[c] # "idle" => job[c] \in Job
  /\ snap \in [Cmd -> Index]
  /\ odd \in [Inst -> SUBSET Oddity]

-----------------------------------------------------------------------------
Rows == {d \in Id : index[d] # NoRow}

\* The rows of an instance; findBySource takes the first of them.
RowsOf(i) == {d \in Rows : index[d].inst = i}

\* Two versions of the file have the same rows for an instance.
RowIn(f, d, i) == f[d] # NoRow /\ f[d].inst = i

SameRows(f, g, i) == \A d \in Id : RowIn(f, d, i) \/ RowIn(g, d, i) => f[d] = g[d]

Busy(i) == \E c \in Cmd : pc[c] # "idle" /\ job[c].inst = i

\* What befalls instance i: the kinds of the conditions that hold.
Befall(i, kinds) == odd' = [odd EXCEPT ![i] = @ \cup kinds]

When(cond, kind) == IF cond THEN {kind} ELSE {}

\* generateDeploymentId: an id of 28 random bits, taken to be new: in no row, no
\* running command and no copy of the file.
Fresh ==
  {d \in Id : /\ index[d] = NoRow
              /\ \A c \in Cmd : /\ pc[c] # "idle" => job[c].id # d
                                /\ snap[c][d] = NoRow}

NoRows == [d \in Id |-> NoRow]

Init ==
  /\ index = NoRows
  /\ machine = [x \in Inst \X Provider |-> [running |-> FALSE, state |-> FALSE]]
  /\ pc = [c \in Cmd |-> "idle"]
  /\ job = [c \in Cmd |-> NoJob]
  /\ snap = [c \in Cmd |-> NoRows]
  /\ odd = [i \in Inst |-> {}]

Finish(c) ==
  /\ pc' = [pc EXCEPT ![c] = "idle"]
  /\ job' = [job EXCEPT ![c] = NoJob]
  /\ snap' = [snap EXCEPT ![c] = NoRows]

Goto(c, l) == pc' = [pc EXCEPT ![c] = l]

-----------------------------------------------------------------------------
(* up                                                                      *)

\* Faulty: the command makes up an id without looking its instance up.
BeginUpAnew(c, i, p) ==
  /\ pc[c] = "idle"
  /\ \E d \in Fresh :
       job' = [job EXCEPT ![c] =
                 [op |-> "up", inst |-> i, provider |-> p, id |-> d,
                  known |-> FALSE, want |-> "up"]]
  /\ Goto(c, "provider")
  /\ Befall(i, When(Busy(i), "overlap"))
  /\ UNCHANGED <<index, machine, snap>>

\* The command looks its instance up before it launches anything; without a
\* row it makes up an id of its own.
BeginUp(c, i, p) ==
  /\ pc[c] = "idle"
  /\ \/ /\ RowsOf(i) # {}
        /\ \E d \in RowsOf(i) :
             /\ Befall(i, When(Busy(i), "overlap")
                             \cup When(index[d].provider # p, "switched"))
             /\ job' = [job EXCEPT ![c] =
                          [op |-> "up", inst |-> i, provider |-> p, id |-> d,
                           known |-> TRUE, want |-> "up"]]
     \/ /\ RowsOf(i) = {}
        /\ Befall(i, When(Busy(i), "overlap"))
        /\ \E d \in Fresh :
             /\ job' = [job EXCEPT ![c] =
                          [op |-> "up", inst |-> i, provider |-> p, id |-> d,
                           known |-> FALSE, want |-> "up"]]
  /\ Goto(c, "provider")
  /\ UNCHANGED <<index, machine, snap>>

\* Faulty: a status the index has no word for.
failedDeploymentPhase(phase) ==
  CASE phase = "health" -> "unhealthy" [] phase \in {"release", "run"} -> "failed"

\* The status a launch earns: a row for one that succeeded and for one that
\* failed with something started, none for one that failed before that.
failedDeploymentStatus(phase) ==
  CASE phase = "health" -> "unhealthy" [] phase \in {"release", "run"} -> "unknown"

RecordedPhases(p) ==
  IF p = "docker" THEN {"release", "run", "health"} ELSE {"run", "health"}

\* The launch fails before anything is started; it may have saved state.
LaunchFailsEarly(c) ==
  /\ pc[c] = "provider" /\ job[c].op = "up"
  /\ \E saved \in BOOLEAN :
       machine' = [machine EXCEPT ![<<job[c].inst, job[c].provider>>].state =
                                     @ \/ saved]
  /\ Finish(c)
  /\ UNCHANGED <<index, odd>>

\* The launch ends with the deployment up, unhealthy, or partly there.
Launch(c) ==
  /\ pc[c] = "provider" /\ job[c].op = "up"
  /\ LET x == <<job[c].inst, job[c].provider>>
     IN  \/ /\ machine' = [machine EXCEPT ![x] = [running |-> TRUE, state |-> TRUE]]
            /\ job' = [job EXCEPT ![c].want = "up"]
         \/ \E phase \in RecordedPhases(job[c].provider), some \in BOOLEAN :
              /\ phase = "health" => some
              /\ machine' = [machine EXCEPT ![x] =
                               [running |-> @.running \/ some, state |-> TRUE]]
              /\ job' = [job EXCEPT ![c].want = failedDeploymentStatus(phase)]
  /\ Goto(c, "read")
  /\ UNCHANGED <<index, snap, odd>>

-----------------------------------------------------------------------------
(* down                                                                    *)

\* resolveDeploymentTarget finds exactly one row; the command works on the
\* entry as it was read here.
BeginDown(c, d, op) ==
  /\ pc[c] = "idle" /\ d \in Rows
  /\ Befall(index[d].inst, When(Busy(index[d].inst), "overlap"))
  /\ job' = [job EXCEPT ![c] =
               [op |-> op, inst |-> index[d].inst,
                provider |-> index[d].provider, id |-> d, known |-> TRUE,
                want |-> "down"]]
  /\ Goto(c, "provider")
  /\ UNCHANGED <<index, machine, snap>>

\* Without provider state docker's `down` exits 1 and the row is left alone;
\* the native one has nothing to do and returns.
NothingToStop(c) ==
  /\ pc[c] = "provider" /\ job[c].op # "up"
  /\ ~machine[<<job[c].inst, job[c].provider>>].state
  /\ IF job[c].provider = "docker" THEN Finish(c)
     ELSE Goto(c, "read") /\ UNCHANGED <<job, snap>>
  /\ UNCHANGED <<index, machine, odd>>

\* The provider stops the deployment, and with --destroy drops its state too.
\* A stop that fails is not reported to the caller.
Stop(c) ==
  /\ pc[c] = "provider" /\ job[c].op # "up"
  /\ machine[<<job[c].inst, job[c].provider>>].state
  /\ \E failed \in BOOLEAN :
       /\ Befall(job[c].inst, When(failed, "fault"))
       /\ machine' = [machine EXCEPT ![<<job[c].inst, job[c].provider>>] =
                        [running |-> @.running /\ failed,
                         state |-> job[c].op = "down"]]
  /\ Goto(c, "read")
  /\ UNCHANGED <<index, job, snap>>

-----------------------------------------------------------------------------
(* Editing the index                                                       *)

\* Faulty: a launch that had no row updates one instead of adding it.
ReadIndexToUpdate(c) ==
  /\ pc[c] = "read"
  /\ IF job[c].op # "destroy" /\ index[job[c].id] = NoRow
       THEN Finish(c)
       ELSE /\ snap' = [snap EXCEPT ![c] = index]
            /\ Goto(c, "write") /\ UNCHANGED job
  /\ UNCHANGED <<index, machine, odd>>

\* The command reads the whole index. An update of a row that is gone writes
\* nothing; adding and removing write whatever was read.
ReadIndex(c) ==
  /\ pc[c] = "read"
  /\ IF job[c].known /\ job[c].op # "destroy" /\ index[job[c].id] = NoRow
       THEN Finish(c)
       ELSE /\ snap' = [snap EXCEPT ![c] = index]
            /\ Goto(c, "write") /\ UNCHANGED job
  /\ UNCHANGED <<index, machine, odd>>

\* Faulty: every launch is recorded as up; a destroyed deployment is marked
\* down; the rows of the other deployments are not carried over.
EditedAlwaysUp(c) ==
  LET j == job[c]
  IN  [snap[c] EXCEPT ![j.id] =
         CASE j.op = "up"      -> [inst |-> j.inst, provider |-> j.provider,
                                   status |-> "up"]
           [] j.op = "down"    -> [@ EXCEPT !.status = "down"]
           [] j.op = "destroy" -> NoRow]

EditedKeepsRow(c) ==
  LET j == job[c]
  IN  [snap[c] EXCEPT ![j.id] =
         CASE j.op = "up"  -> [inst |-> j.inst, provider |-> j.provider,
                               status |-> j.want]
           [] j.op # "up" -> IF @ = NoRow THEN NoRow ELSE [@ EXCEPT !.status = "down"]]

EditedAlone(c) ==
  LET j == job[c]
  IN  [NoRows EXCEPT ![j.id] =
         CASE j.op = "up"      -> [inst |-> j.inst, provider |-> j.provider,
                                   status |-> j.want]
           [] j.op = "down"    -> [snap[c][j.id] EXCEPT !.status = "down"]
           [] j.op = "destroy" -> NoRow]

\* What the command makes of the index it read.
Edited(c) ==
  LET j == job[c]
  IN  [snap[c] EXCEPT ![j.id] =
         CASE j.op = "up"      -> [inst |-> j.inst, provider |-> j.provider,
                                   status |-> j.want]
           [] j.op = "down"    -> [@ EXCEPT !.status = "down"]
           [] j.op = "destroy" -> NoRow]

\* The file is replaced in one rename.
WriteIndex(c) ==
  /\ pc[c] = "write"
  /\ index' = Edited(c)
  /\ odd' = [i \in Inst |->
               odd[i] \cup When(~SameRows(snap[c], index, i), "lost")]
  /\ Finish(c)
  /\ UNCHANGED machine

\* The command is killed; what it has done so far stays.
Crash(c) ==
  /\ pc[c] # "idle"
  /\ Befall(job[c].inst, {"fault"})
  /\ Finish(c)
  /\ UNCHANGED <<index, machine>>

\* Ctrl+C in the shell of a native session whose launch is over: its handler
\* stops the processes and exits. The index is not touched.
EndForeground(i) ==
  /\ "macos" \in Provider
  /\ machine[<<i, "macos">>].running
  /\ machine' = [machine EXCEPT ![<<i, "macos">>].running = FALSE]
  /\ Befall(i, {"ctrlc"} \cup When(Busy(i), "overlap"))
  /\ UNCHANGED <<index, pc, job, snap>>

-----------------------------------------------------------------------------
Step(c) == \/ LaunchFailsEarly(c) \/ Launch(c) \/ NothingToStop(c) \/ Stop(c)
           \/ ReadIndex(c) \/ WriteIndex(c)

Next ==
  \/ \E i \in Inst : EndForeground(i)
  \/ \E c \in Cmd :
          \/ \E i \in Inst, p \in Provider : BeginUp(c, i, p)
          \/ \E d \in Id, op \in {"down", "destroy"} : BeginDown(c, d, op)
          \/ Step(c)
          \/ Crash(c)

Spec == Init /\ [][Next]_vars

-----------------------------------------------------------------------------
(* Properties                                                              *)

Quiet(i) == ~Busy(i)

Never(i, kinds) == odd[i] \cap kinds = {}

\* The commands of an instance came one after another, and no command wrote an
\* old copy of its rows over newer ones.
InTurn(i) == Never(i, {"overlap", "lost"})

\* What runs on the machine has a row, with the provider it runs under: the
\* only way `down`, `status` and `logs` find it. Whatever the commands on other
\* instances do to the same file at the same time; a stop that fails, a killed
\* command, a second provider or an edit lost to another's may leave something
\* without one, an interrupted session does not.
Registered ==
  \A i \in Inst, p \in Provider :
     /\ InTurn(i) /\ Never(i, {"fault", "switched"})
     /\ machine[<<i, p>>].running /\ Quiet(i)
     => \E d \in RowsOf(i) : index[d].provider = p

\* One instance, one row, also when a launch was killed or took another provider,
\* and whatever edits of other instances' rows go on at the same time.
OneRowPerInstance ==
  \A i \in Inst : InTurn(i) => Cardinality(RowsOf(i)) <= 1

\* The row says what is on the machine: `down` means nothing runs, `up` and
\* `unhealthy` mean that something does under the row's provider, as long as
\* nothing befell the instance but a change of provider.
StatusTrue ==
  \A d \in Rows : LET e == index[d]
                      m == machine[<<e.inst, e.provider>>]
                  IN  odd[e.inst] \subseteq {"switched"} /\ Quiet(e.inst) =>
                        /\ e.status = "down" => ~m.running
                        /\ e.status \in {"up", "unhealthy"} => m.running

\* Commands read the file and replace it later, any number of them at once and
\* with no lock: to an instance whose own commands come one after another it is
\* nevertheless a registry in which a command changes the one entry of its own
\* instance, at once, until somebody replaces the file by an edit of a copy in
\* which the rows of that instance were out of date.
EntriesOf(i) ==
  {[provider |-> index[d].provider, status |-> index[d].status] : d \in RowsOf(i)}

R == INSTANCE DeploymentRegistry WITH
       entries <- [i \in Inst |-> EntriesOf(i)],
       contended <- {i \in Inst : ~InTurn(i)}

Registry == R!Spec

\* A destroyed deployment leaves nothing behind: no row without provider state,
\* whichever providers the instance has been launched with.
RowsHaveState ==
  \A d \in Rows :
     LET e == index[d]
     IN  InTurn(e.inst) /\ Never(e.inst, {"fault"}) /\ Quiet(e.inst)
           => machine[<<e.inst, e.provider>>].state
=============================================================================
