----------------------- MODULE DeploymentIndexProofs -----------------------
(***************************************************************************)
(* The deployment index is well formed whatever the commands do; and to    *)
(* an instance whose own commands come one after another it is a registry  *)
(* whose entry says what is on the machine, until an edit of an old copy   *)
(* of its rows replaces the file; for any number of shells, instances and  *)
(* ids, and whatever the commands on the other instances do meanwhile.     *)
(***************************************************************************)
EXTENDS DeploymentIndex, FiniteSetTheorems, TLAPS

\* A `down` writes only over a row it has read.
DownReadItsRow ==
  \A c \in Cmd :
     pc[c] # "idle" /\ job[c].op = "down" =>
        /\ job[c].known
        /\ pc[c] = "write" => snap[c][job[c].id] # NoRow

TypeInv == TypeOK /\ DownReadItsRow

LEMMA EditedType ==
  ASSUME TypeInv, NEW c \in Cmd, pc[c] = "write"
  PROVE  Edited(c) \in Index
<1> DEFINE j == job[c]
<1>1. j \in Job /\ snap[c] \in Index /\ j.id \in Id
  BY DEF TypeInv, TypeOK, Job
<1>2. CASE j.op = "up"
  <2>1. [inst |-> j.inst, provider |-> j.provider, status |-> j.want] \in DeploymentEntry
    BY <1>1 DEF Job, DeploymentEntry
  <2>2. Edited(c) = [snap[c] EXCEPT ![j.id] =
              [inst |-> j.inst, provider |-> j.provider, status |-> j.want]]
    BY <1>2 DEF Edited
  <2> QED BY <1>1, <2>1, <2>2 DEF Index
<1>3. CASE j.op = "down"
  <2>1. snap[c][j.id] \in DeploymentEntry
    BY <1>1, <1>3 DEF TypeInv, DownReadItsRow, Index
  <2>2. [snap[c][j.id] EXCEPT !.status = "down"] \in DeploymentEntry
    BY <2>1 DEF DeploymentEntry, Status
  <2>3. Edited(c) = [snap[c] EXCEPT ![j.id] = [snap[c][j.id] EXCEPT !.status = "down"]]
    BY <1>1, <1>3 DEF Edited, Index
  <2> QED BY <1>1, <2>2, <2>3 DEF Index
<1>4. CASE j.op = "destroy"
  <2>1. Edited(c) = [snap[c] EXCEPT ![j.id] = NoRow]
    BY <1>4 DEF Edited
  <2> QED BY <1>1, <2>1 DEF Index
<1> QED BY <1>1, <1>2, <1>3, <1>4 DEF Job

MachineOK == machine \in [Inst \X Provider -> [running : BOOLEAN, state : BOOLEAN]]

OddOK == odd \in [Inst -> SUBSET Oddity]

LEMMA BefallOdd ==
  ASSUME OddOK, NEW i, NEW kinds \in SUBSET Oddity, Befall(i, kinds)
  PROVE  OddOK' /\ (\A k \in Inst : odd[k] \subseteq odd'[k])
BY DEF OddOK, Befall

\* What befell an instance is not forgotten.
LEMMA OddStep ==
  ASSUME OddOK, [Next]_vars
  PROVE  OddOK' /\ (\A k \in Inst : odd[k] \subseteq odd'[k])
<1> DEFINE Some == \E i, kinds : kinds \in SUBSET Oddity /\ Befall(i, kinds)
<1> USE DEF Oddity, When
<1>1. CASE UNCHANGED odd
  BY <1>1 DEF OddOK
<1>2. CASE Some
  BY <1>2, BefallOdd
<1>3. ASSUME NEW c \in Cmd, WriteIndex(c)
      PROVE  OddOK' /\ (\A k \in Inst : odd[k] \subseteq odd'[k])
  BY <1>3 DEF OddOK, WriteIndex
<1>4. ASSUME NEW i \in Inst, EndForeground(i) PROVE Some
  BY <1>4 DEF EndForeground
<1>5. ASSUME NEW c \in Cmd, NEW i \in Inst, NEW p \in Provider, BeginUp(c, i, p)
      PROVE  Some
  <2>1. CASE Befall(i, When(Busy(i), "overlap"))
    BY <2>1
  <2>2. ASSUME NEW q, Befall(i, When(Busy(i), "overlap") \cup When(q # p, "switched"))
        PROVE  Some
    BY <2>2
  <2> QED BY <1>5, <2>1, <2>2 DEF BeginUp
<1>6. ASSUME NEW c \in Cmd, NEW d \in Id, NEW op \in {"down", "destroy"},
             BeginDown(c, d, op)
      PROVE  Some
  BY <1>6 DEF BeginDown
<1>7. ASSUME NEW c \in Cmd, Stop(c) PROVE Some
  <2>1. PICK failed \in BOOLEAN : Befall(job[c].inst, When(failed, "fault"))
    BY <1>7 DEF Stop
  <2> QED BY <2>1
<1>8. ASSUME NEW c \in Cmd, Crash(c) PROVE Some
  BY <1>8 DEF Crash
<1>9. ASSUME NEW c \in Cmd,
             LaunchFailsEarly(c) \/ Launch(c) \/ NothingToStop(c) \/ ReadIndex(c)
      PROVE  UNCHANGED odd
  BY <1>9 DEF LaunchFailsEarly, Launch, NothingToStop, ReadIndex
<1> QED
  BY <1>1, <1>2, <1>3, <1>4, <1>5, <1>6, <1>7, <1>8, <1>9 DEF Next, Step, vars

LEMMA MachineEdit ==
  ASSUME MachineOK, NEW x \in Inst \X Provider, NEW r \in BOOLEAN, NEW s \in BOOLEAN,
         machine' = [machine EXCEPT ![x] = [running |-> r, state |-> s]]
  PROVE  MachineOK'
BY DEF MachineOK

LEMMA LaunchFailsEarlyMachine ==
  ASSUME TypeOK, NEW c \in Cmd, LaunchFailsEarly(c) PROVE MachineOK'
<1> DEFINE x == <<job[c].inst, job[c].provider>>
<1>1. x \in Inst \X Provider /\ MachineOK
  BY DEF LaunchFailsEarly, TypeOK, Job, MachineOK
<1>2. PICK saved \in BOOLEAN : machine' = [machine EXCEPT ![x].state = @ \/ saved]
  BY DEF LaunchFailsEarly
<1>3. machine[x] \in [running : BOOLEAN, state : BOOLEAN]
  BY <1>1 DEF MachineOK
<1>4. (machine[x].state \/ saved) \in BOOLEAN
  BY Zenon
<1>5. machine[x].running \in BOOLEAN
  BY <1>3
<1>6. \E s \in BOOLEAN : machine' = [machine EXCEPT ![x].state = s]
  BY <1>2, <1>4, Zenon
<1>7. PICK s \in BOOLEAN : machine' = [machine EXCEPT ![x].state = s]
  BY <1>6
<1>8. machine' = [machine EXCEPT ![x] = [running |-> machine[x].running, state |-> s]]
  <2>1. [machine[x] EXCEPT !.state = s] = [running |-> machine[x].running, state |-> s]
    BY <1>3
  <2> HIDE DEF x
  <2> QED BY <1>7, <2>1
<1> HIDE DEF x
<1> QED BY <1>1, <1>5, <1>8, MachineEdit

LEMMA LaunchMachine ==
  ASSUME TypeOK, NEW c \in Cmd, Launch(c) PROVE MachineOK'
<1> DEFINE x == <<job[c].inst, job[c].provider>>
<1>1. x \in Inst \X Provider /\ MachineOK
  BY DEF Launch, TypeOK, Job, MachineOK
<1>2. \/ machine' = [machine EXCEPT ![x] = [running |-> TRUE, state |-> TRUE]]
      \/ \E some \in BOOLEAN :
           machine' = [machine EXCEPT ![x] = [running |-> machine[x].running \/ some,
                                              state |-> TRUE]]
  BY Zenon DEF Launch
<1>3. \A some : (machine[x].running \/ some) \in BOOLEAN
  BY Zenon
<1>4. \E r \in BOOLEAN :
        machine' = [machine EXCEPT ![x] = [running |-> r, state |-> TRUE]]
  BY <1>2, <1>3, Zenon
<1> HIDE DEF x
<1> QED BY <1>1, <1>4, MachineEdit

LEMMA StopMachine ==
  ASSUME TypeOK, NEW c \in Cmd, Stop(c) PROVE MachineOK'
<1> DEFINE x == <<job[c].inst, job[c].provider>>
<1>1. x \in Inst \X Provider /\ MachineOK
  BY DEF Stop, TypeOK, Job, MachineOK
<1>2. \E failed \in BOOLEAN :
        machine' = [machine EXCEPT ![x] = [running |-> machine[x].running /\ failed,
                                           state |-> job[c].op = "down"]]
  BY Zenon DEF Stop
<1>3. \A failed : /\ (machine[x].running /\ failed) \in BOOLEAN
                  /\ (job[c].op = "down") \in BOOLEAN
  BY Zenon
<1>4. \E r, s \in BOOLEAN :
        machine' = [machine EXCEPT ![x] = [running |-> r, state |-> s]]
  BY <1>2, <1>3, Zenon
<1> HIDE DEF x
<1> QED BY <1>1, <1>4, MachineEdit

\* A command that goes on to the index, and one that ends.
LEMMA GotoReadType ==
  ASSUME TypeInv, NEW c \in Cmd, pc[c] # "idle", Goto(c, "read"), MachineOK', OddOK',
         UNCHANGED <<index, job, snap>>
  PROVE  TypeInv'
BY DEF Goto, MachineOK, OddOK, TypeInv, TypeOK, DownReadItsRow

LEMMA FinishType ==
  ASSUME TypeInv, NEW c \in Cmd, Finish(c), MachineOK', OddOK', index' \in Index
  PROVE  TypeInv'
BY DEF Finish, NoRows, Index, MachineOK, OddOK, TypeInv, TypeOK, DownReadItsRow

LEMMA TypeInit == Init => TypeInv
BY DEF Init, TypeInv, TypeOK, DownReadItsRow, NoRows, Index

LEMMA TypeStep == TypeInv /\ [Next]_vars => TypeInv'
<1> SUFFICES ASSUME TypeInv, [Next]_vars PROVE TypeInv'
  OBVIOUS
<1> USE DEF TypeInv
<1>0. OddOK'
  BY OddStep DEF OddOK, TypeOK
<1>1. CASE UNCHANGED vars
  BY <1>1 DEF vars, TypeOK, DownReadItsRow
<1>2. ASSUME NEW i \in Inst, EndForeground(i) PROVE TypeInv'
  BY <1>0, <1>2 DEF EndForeground, OddOK, TypeOK, DownReadItsRow
<1>3. ASSUME NEW c \in Cmd, NEW i \in Inst, NEW p \in Provider, BeginUp(c, i, p)
      PROVE  TypeInv'
  <2>1. PICK j \in Job : /\ job' = [job EXCEPT ![c] = j] /\ j.op = "up"
    <3> DEFINE j(d, k) == [op |-> "up", inst |-> i, provider |-> p, id |-> d,
                           known |-> k, want |-> "up"]
    <3>1. \A d \in Id, k \in BOOLEAN : j(d, k) \in Job /\ j(d, k).op = "up"
      BY DEF Job, Status
    <3>2. RowsOf(i) \subseteq Id /\ Fresh \subseteq Id
      BY DEF RowsOf, Rows, Fresh
    <3>3. \E d \in Id, k \in BOOLEAN : job' = [job EXCEPT ![c] = j(d, k)]
      BY <1>3, <3>2 DEF BeginUp
    <3> HIDE DEF j
    <3> QED BY <3>1, <3>3
  <2>2. pc' = [pc EXCEPT ![c] = "provider"] /\ UNCHANGED <<index, machine, snap>>
    BY <1>3 DEF BeginUp, Goto
  <2> QED BY <1>0, <2>1, <2>2 DEF OddOK, TypeOK, DownReadItsRow
<1>4. ASSUME NEW c \in Cmd, NEW d \in Id, NEW op \in {"down", "destroy"},
             BeginDown(c, d, op)
      PROVE  TypeInv'
  <2>1. index[d] \in DeploymentEntry
    BY <1>4 DEF BeginDown, Rows, TypeOK, Index
  <2>2. PICK j \in Job : /\ job' = [job EXCEPT ![c] = j] /\ j.known
    <3> DEFINE j == [op |-> op, inst |-> index[d].inst,
                     provider |-> index[d].provider, id |-> d, known |-> TRUE,
                     want |-> "down"]
    <3>1. j \in Job BY <2>1 DEF DeploymentEntry, Job, Status
    <3> QED BY <1>4, <3>1 DEF BeginDown
  <2>3. pc' = [pc EXCEPT ![c] = "provider"] /\ UNCHANGED <<index, machine, snap>>
    BY <1>4 DEF BeginDown, Goto
  <2> QED BY <1>0, <2>2, <2>3 DEF OddOK, TypeOK, DownReadItsRow
<1>5. ASSUME NEW c \in Cmd, LaunchFailsEarly(c) PROVE TypeInv'
  <2>1. MachineOK'
    BY <1>5, LaunchFailsEarlyMachine
  <2>2. Finish(c) /\ UNCHANGED index
    BY <1>5 DEF LaunchFailsEarly
  <2> QED BY <2>1, <2>2, <1>0, FinishType DEF TypeOK
<1>6. ASSUME NEW c \in Cmd, Launch(c) PROVE TypeInv'
  <2>1. job[c] \in Job /\ job[c].op = "up"
    BY <1>6 DEF Launch, TypeOK, Job
  <2>2. PICK w \in Status : job' = [job EXCEPT ![c].want = w]
    BY <1>6 DEF Launch, Status, RecordedPhases, failedDeploymentStatus
  <2>3. MachineOK'
    BY <1>6, LaunchMachine
  <2>4. [job[c] EXCEPT !.want = w] \in Job /\ [job[c] EXCEPT !.want = w].op = "up"
    BY <2>1, <2>2 DEF Job
  <2>5. pc' = [pc EXCEPT ![c] = "read"] /\ UNCHANGED <<index, snap>>
    BY <1>6 DEF Launch, Goto
  <2>6. job' = [job EXCEPT ![c] = [job[c] EXCEPT !.want = w]]
    BY <2>2 DEF TypeOK
  <2> QED BY <1>0, <2>3, <2>4, <2>5, <2>6 DEF MachineOK, OddOK, TypeOK, DownReadItsRow
<1>7. ASSUME NEW c \in Cmd, NothingToStop(c) PROVE TypeInv'
  <2>1. MachineOK' /\ pc[c] # "idle" /\ UNCHANGED index
    BY <1>7 DEF NothingToStop, TypeOK, MachineOK
  <2>2. Finish(c) \/ (Goto(c, "read") /\ UNCHANGED <<job, snap>>)
    BY <1>7 DEF NothingToStop
  <2> QED BY <2>1, <2>2, <1>0, GotoReadType, FinishType DEF TypeOK
<1>8. ASSUME NEW c \in Cmd, Stop(c) PROVE TypeInv'
  <2>1. MachineOK'
    BY <1>8, StopMachine
  <2>2. pc[c] # "idle" /\ Goto(c, "read") /\ UNCHANGED <<index, job, snap>>
    BY <1>8 DEF Stop
  <2> QED BY <2>1, <2>2, <1>0, GotoReadType
<1>9. ASSUME NEW c \in Cmd, ReadIndex(c) PROVE TypeInv'
  <2>1. MachineOK' /\ UNCHANGED index
    BY <1>9 DEF ReadIndex, TypeOK, MachineOK
  <2>2. CASE Finish(c)
    BY <2>1, <2>2, <1>0, FinishType DEF TypeOK
  <2>3. CASE /\ snap' = [snap EXCEPT ![c] = index]
             /\ Goto(c, "write") /\ UNCHANGED job
             /\ ~(job[c].known /\ job[c].op # "destroy" /\ index[job[c].id] = NoRow)
    <3>1. pc[c] = "read"
      BY <1>9 DEF ReadIndex
    <3>2. TypeOK'
      BY <1>0, <2>1, <2>3, <3>1 DEF Goto, MachineOK, OddOK, TypeOK
    <3>3. DownReadItsRow'
      BY <2>1, <2>3, <3>1 DEF Goto, TypeOK, DownReadItsRow
    <3> QED BY <3>2, <3>3
  <2> QED BY <1>9, <2>2, <2>3 DEF ReadIndex
<1>10. ASSUME NEW c \in Cmd, WriteIndex(c) PROVE TypeInv'
  <2>1. Edited(c) \in Index
    BY <1>10, EditedType DEF WriteIndex
  <2>2. MachineOK' /\ Finish(c) /\ index' \in Index
    BY <1>10, <2>1 DEF WriteIndex, TypeOK, MachineOK
  <2> QED BY <2>2, <1>0, FinishType
<1>11. ASSUME NEW c \in Cmd, Crash(c) PROVE TypeInv'
  BY <1>11, <1>0, FinishType DEF Crash, TypeOK, MachineOK
<1> QED
  BY <1>1, <1>2, <1>3, <1>4, <1>5, <1>6, <1>7, <1>8, <1>9, <1>10, <1>11 DEF Next, Step

(***************************************************************************)
(* Every state of the commands and of index.json is well formed: a row is  *)
(* always a whole entry, also when a row vanishes under a command that is  *)
(* about to update it (updateDeployment).                                  *)
(***************************************************************************)
THEOREM TypeCorrect == Spec => []TypeOK
<1>1. Spec => []TypeInv
  BY TypeInit, TypeStep, PTL DEF Spec
<1>2. TypeInv => TypeOK
  BY DEF TypeInv
<1> QED BY <1>1, <1>2, PTL

-----------------------------------------------------------------------------
Engaged(c) == pc[c] # "idle"

On(c, i) == Engaged(c) /\ job[c].inst = i

(***************************************************************************)
(* An id belongs to one instance, wherever it is mentioned: in a row, in a *)
(* copy of the file and in a command's job.  An old copy can bring back a  *)
(* row, but never one in the place of another instance's.                  *)
(***************************************************************************)
Mention(d, i) ==
  \/ RowIn(index, d, i)
  \/ \E c \in Cmd : RowIn(snap[c], d, i) \/ (On(c, i) /\ job[c].id = d)

OneOwner ==
  \A d \in Id : \A i, k \in Inst : Mention(d, i) /\ Mention(d, k) => i = k

LEMMA NoNewMention ==
  ASSUME OneOwner, \A d \in Id, i \in Inst : Mention(d, i)' => Mention(d, i)
  PROVE  OneOwner'
BY DEF OneOwner

LEMMA FinishMention ==
  ASSUME TypeInv, NEW c \in Cmd, Finish(c), UNCHANGED index, OneOwner PROVE OneOwner'
<1>1. /\ pc'[c] = "idle" /\ snap'[c] = NoRows
      /\ \A b \in Cmd \ {c} : pc'[b] = pc[b] /\ job'[b] = job[b] /\ snap'[b] = snap[b]
  BY DEF Finish, TypeInv, TypeOK
<1>2. \A d \in Id : \A i : ~RowIn(NoRows, d, i)
  BY DEF RowIn, NoRows
<1> QED BY <1>1, <1>2, NoNewMention DEF Mention, RowIn, On, Engaged

LEMMA GotoMention ==
  ASSUME TypeInv, NEW c \in Cmd, Engaged(c), NEW l, Goto(c, l), OneOwner,
         UNCHANGED index, \A b \in Cmd : snap'[b] = snap[b] \/ snap'[b] = index,
         \A b \in Cmd : job'[b].inst = job[b].inst /\ job'[b].id = job[b].id
  PROVE  OneOwner'
<1>1. \A b \in Cmd : \A i : On(b, i)' => On(b, i)
  BY DEF Goto, On, Engaged, TypeInv, TypeOK
<1>2. \A d \in Id, i \in Inst : Mention(d, i)' => Mention(d, i)
  BY <1>1 DEF Mention, RowIn
<1> QED BY <1>2, NoNewMention

\* What an edit makes of a copy: the rows of other ids are as they were, and at
\* its own id is a row of the command's instance, or none, or the copy's own.
LEMMA EditedRows ==
  ASSUME TypeInv, NEW c \in Cmd, pc[c] = "write"
  PROVE  /\ \A d \in Id \ {job[c].id} : Edited(c)[d] = snap[c][d]
         /\ \/ Edited(c)[job[c].id] = NoRow /\ job[c].op = "destroy"
            \/ /\ job[c].op = "up"
               /\ Edited(c)[job[c].id] = [inst |-> job[c].inst,
                                          provider |-> job[c].provider,
                                          status |-> job[c].want]
            \/ /\ job[c].op = "down"
               /\ snap[c][job[c].id] \in DeploymentEntry
               /\ Edited(c)[job[c].id] = [snap[c][job[c].id] EXCEPT !.status = "down"]
<1> DEFINE j == job[c]
<1>1. j \in Job /\ snap[c] \in Index /\ j.id \in Id /\ pc[c] # "idle"
  BY DEF TypeInv, TypeOK, Job
<1>2. CASE j.op = "up"
  <2>1. Edited(c) = [snap[c] EXCEPT ![j.id] = [inst |-> j.inst, provider |-> j.provider,
                                               status |-> j.want]]
    BY <1>1, <1>2 DEF Edited
  <2> QED BY <1>1, <1>2, <2>1 DEF Index
<1>3. CASE j.op = "down"
  <2>1. Edited(c) = [snap[c] EXCEPT ![j.id] = [snap[c][j.id] EXCEPT !.status = "down"]]
    BY <1>1, <1>3 DEF Edited, Index
  <2>2. snap[c][j.id] # NoRow
    BY <1>1, <1>3 DEF TypeInv, DownReadItsRow
  <2> QED BY <1>1, <1>3, <2>1, <2>2 DEF Index
<1>4. CASE j.op = "destroy"
  <2>1. Edited(c) = [snap[c] EXCEPT ![j.id] = NoRow]
    BY <1>1, <1>4 DEF Edited
  <2> QED BY <1>1, <1>4, <2>1 DEF Index
<1> QED BY <1>1, <1>2, <1>3, <1>4 DEF Job

\* A row after the edit is a row of the copy, or the command's own.
LEMMA EditedOwner ==
  ASSUME TypeInv, NEW c \in Cmd, pc[c] = "write", NEW d \in Id, NEW i,
         RowIn(Edited(c), d, i)
  PROVE  RowIn(snap[c], d, i) \/ (d = job[c].id /\ i = job[c].inst)
<1> DEFINE new == Edited(c)[job[c].id]
           old == snap[c][job[c].id]
<1>1. CASE d # job[c].id
  BY <1>1, EditedRows, Zenon DEF RowIn
<1>2. CASE d = job[c].id
  <2>1. new # NoRow /\ new.inst = i
    BY <1>2 DEF RowIn
  <2>2. \A q, e : [inst |-> job[c].inst, provider |-> q, status |-> e].inst = job[c].inst
    OBVIOUS
  <2>3. old \in DeploymentEntry => [old EXCEPT !.status = "down"].inst = old.inst
    BY DEF DeploymentEntry
  <2>4. old \in DeploymentEntry => old # NoRow
    BY DeploymentIndexAssumption DEF DeploymentEntry, Status
  <2>5. CASE new = [inst |-> job[c].inst, provider |-> job[c].provider,
                    status |-> job[c].want]
    BY <1>2, <2>1, <2>2, <2>5
  <2>6. CASE old \in DeploymentEntry /\ new = [old EXCEPT !.status = "down"]
    <3>1. new.inst = old.inst
      BY <2>3, <2>6
    <3> QED BY <1>2, <2>1, <2>4, <2>6, <3>1 DEF RowIn
  <2> HIDE DEF new, old
  <2>7. new = NoRow \/ new = [inst |-> job[c].inst, provider |-> job[c].provider,
                              status |-> job[c].want]
        \/ (old \in DeploymentEntry /\ new = [old EXCEPT !.status = "down"])
    BY EditedRows, Zenon DEF new, old
  <2> QED BY <2>1, <2>5, <2>6, <2>7
<1> QED BY <1>1, <1>2

LEMMA WriteMention ==
  ASSUME TypeInv, NEW c \in Cmd, WriteIndex(c), OneOwner PROVE OneOwner'
<1>1. /\ pc'[c] = "idle" /\ snap'[c] = NoRows /\ pc[c] = "write" /\ index' = Edited(c)
      /\ \A b \in Cmd \ {c} : pc'[b] = pc[b] /\ job'[b] = job[b] /\ snap'[b] = snap[b]
  BY DEF WriteIndex, Finish, TypeInv, TypeOK
<1>2. \A d \in Id : \A i : ~RowIn(NoRows, d, i)
  BY DEF RowIn, NoRows
<1>3. \A d \in Id : \A i : RowIn(index', d, i) =>
        RowIn(snap[c], d, i) \/ (On(c, i) /\ job[c].id = d)
  BY <1>1, EditedOwner DEF On, Engaged
<1>4. \A b \in Cmd, d \in Id : \A i :
        /\ RowIn(snap'[b], d, i) => RowIn(snap[b], d, i)
        /\ On(b, i)' => On(b, i) /\ job'[b] = job[b]
  BY <1>1, <1>2 DEF On, Engaged
<1>5. \A d \in Id, i \in Inst : Mention(d, i)' <=>
        \/ RowIn(index', d, i)
        \/ \E b \in Cmd : RowIn(snap'[b], d, i) \/ (On(b, i)' /\ job'[b].id = d)
  BY DEF Mention, RowIn
<1>6. \A d \in Id, i \in Inst : Mention(d, i)' => Mention(d, i)
  BY <1>3, <1>4, <1>5 DEF Mention
<1> QED BY <1>6, NoNewMention

\* A command begins: its id was its instance's already, or nobody's.
LEMMA BeginMention ==
  ASSUME TypeInv, NEW c \in Cmd, pc[c] = "idle", UNCHANGED <<index, snap>>,
         NEW k \in Inst, NEW e \in Id, job'[c].inst = k, job'[c].id = e,
         \A b \in Cmd \ {c} : pc'[b] = pc[b] /\ job'[b] = job[b],
         Mention(e, k) \/ (\A i : ~Mention(e, i)), OneOwner
  PROVE  OneOwner'
<1>1. \A d \in Id, i \in Inst : Mention(d, i)' => Mention(d, i) \/ (d = e /\ i = k)
  BY DEF Mention, RowIn, On, Engaged
<1>2. ASSUME NEW d \in Id, NEW i \in Inst, NEW l \in Inst, Mention(d, i)', Mention(d, l)'
      PROVE  i = l
  BY <1>1, <1>2 DEF OneOwner
<1> QED BY <1>2 DEF OneOwner

\* The instance has had one provider.
Faithful(i) == Never(i, {"switched"})

\* What BeginUp and BeginDown do to a command and to its instance.
Begins(c, k) ==
  /\ pc[c] = "idle" /\ pc'[c] = "provider" /\ UNCHANGED <<index, machine, snap>>
  /\ job'[c] \in Job /\ job'[c].inst = k
  /\ \A b \in Cmd \ {c} : pc'[b] = pc[b] /\ job'[b] = job[b]
  /\ InTurn(k)' => ~Busy(k)
  /\ job'[c].op = "up" => job'[c].want = "up"
  /\ \/ /\ job'[c].known /\ RowIn(index, job'[c].id, k)
        /\ \/ index[job'[c].id].provider = job'[c].provider
           \/ job'[c].op = "up" /\ ~Faithful(k)'
     \/ /\ ~job'[c].known /\ RowsOf(k) = {} /\ job'[c].op = "up"
        /\ index[job'[c].id] = NoRow /\ \A i : ~Mention(job'[c].id, i)

LEMMA BefallShows ==
  ASSUME TypeInv, NEW i \in Inst, NEW kinds, Befall(i, kinds), NEW x \in kinds
  PROVE  \A others : x \in others => ~Never(i, others)'
BY DEF Befall, Never, TypeInv, TypeOK

LEMMA BeginUpBegins ==
  ASSUME TypeInv, NEW c \in Cmd, NEW i \in Inst, NEW p \in Provider, BeginUp(c, i, p)
  PROVE  Begins(c, i)
<1> DEFINE j(d, k) == [op |-> "up", inst |-> i, provider |-> p, id |-> d,
                       known |-> k, want |-> "up"]
<1>1. \A d \in Id, k \in BOOLEAN :
        /\ j(d, k) \in Job /\ j(d, k).inst = i /\ j(d, k).id = d
        /\ j(d, TRUE).known /\ ~j(d, FALSE).known
        /\ j(d, k).op = "up" /\ j(d, k).want = "up" /\ j(d, k).provider = p
  BY DEF Job, Status
<1>2. /\ pc[c] = "idle" /\ pc'[c] = "provider" /\ UNCHANGED <<index, machine, snap>>
      /\ \A b \in Cmd \ {c} : pc'[b] = pc[b] /\ job'[b] = job[b]
  BY DEF BeginUp, Goto, TypeInv, TypeOK
<1>3. CASE \E d \in RowsOf(i) :
             /\ Befall(i, When(Busy(i), "overlap")
                            \cup When(index[d].provider # p, "switched"))
             /\ job' = [job EXCEPT ![c] = j(d, TRUE)]
  <2>1. PICK d \in RowsOf(i) :
             /\ Befall(i, When(Busy(i), "overlap")
                            \cup When(index[d].provider # p, "switched"))
             /\ job' = [job EXCEPT ![c] = j(d, TRUE)]
    BY <1>3
  <2>2. job'[c] = j(d, TRUE) /\ d \in Id /\ RowIn(index, d, i)
    BY <2>1 DEF TypeInv, TypeOK, RowsOf, Rows, RowIn
  <2>3. InTurn(i)' => ~Busy(i)
    BY <2>1, BefallShows DEF When, InTurn
  <2>4. Faithful(i)' => index[d].provider = p
    BY <2>1, BefallShows DEF When, Faithful
  <2> HIDE DEF j
  <2>5. /\ job'[c] \in Job /\ job'[c].inst = i /\ job'[c].known /\ job'[c].want = "up"
        /\ job'[c].id = d /\ job'[c].provider = p /\ job'[c].op = "up"
    BY <1>1, <2>2
  <2> QED BY <1>2, <2>2, <2>3, <2>4, <2>5 DEF Begins
<1>4. CASE /\ RowsOf(i) = {}
           /\ Befall(i, When(Busy(i), "overlap"))
           /\ \E d \in Fresh : job' = [job EXCEPT ![c] = j(d, FALSE)]
  <2>1. PICK d \in Fresh : job' = [job EXCEPT ![c] = j(d, FALSE)]
    BY <1>4
  <2>2. job'[c] = j(d, FALSE) /\ d \in Id /\ index[d] = NoRow
    BY <2>1 DEF TypeInv, TypeOK, Fresh
  <2>3. InTurn(i)' => ~Busy(i)
    BY <1>4, BefallShows DEF When, InTurn
  <2>4. \A k : ~Mention(d, k)
    BY DEF Fresh, Mention, RowIn, On, Engaged
  <2> HIDE DEF j
  <2>5. /\ job'[c] \in Job /\ job'[c].inst = i /\ ~job'[c].known /\ job'[c].want = "up"
        /\ job'[c].id = d /\ job'[c].op = "up"
    BY <1>1, <2>2
  <2> QED BY <1>2, <1>4, <2>2, <2>3, <2>4, <2>5 DEF Begins
<1> QED BY <1>3, <1>4 DEF BeginUp

LEMMA BeginDownBegins ==
  ASSUME TypeInv, NEW c \in Cmd, NEW d \in Id, NEW op \in {"down", "destroy"},
         BeginDown(c, d, op)
  PROVE  index[d].inst \in Inst /\ Begins(c, index[d].inst)
<1> DEFINE j == [op |-> op, inst |-> index[d].inst, provider |-> index[d].provider,
                 id |-> d, known |-> TRUE, want |-> "down"]
<1>1. index[d] # NoRow /\ index[d] \in DeploymentEntry
  BY DEF BeginDown, Rows, TypeInv, TypeOK, Index
<1>2. /\ j \in Job /\ j.inst = index[d].inst /\ j.id = d /\ j.known
      /\ j.op # "up" /\ j.provider = index[d].provider
  BY <1>1 DEF DeploymentEntry, Job, Status
<1>3. /\ pc[c] = "idle" /\ pc'[c] = "provider" /\ UNCHANGED <<index, machine, snap>>
      /\ \A b \in Cmd \ {c} : pc'[b] = pc[b] /\ job'[b] = job[b]
      /\ job'[c] = j
  BY DEF BeginDown, Goto, TypeInv, TypeOK
<1>4. index[d].inst \in Inst /\ RowIn(index, d, index[d].inst)
  BY <1>1 DEF DeploymentEntry, RowIn
<1>5. InTurn(index[d].inst)' => ~Busy(index[d].inst)
  BY <1>4, BefallShows DEF BeginDown, When, InTurn
<1> HIDE DEF j
<1> QED BY <1>2, <1>3, <1>4, <1>5 DEF Begins

LEMMA OwnerStep == ASSUME TypeInv, OneOwner, [Next]_vars PROVE OneOwner'
<1>1. CASE UNCHANGED <<index, pc, job, snap>>
  BY <1>1, NoNewMention DEF Mention, RowIn, On, Engaged
<1>2. ASSUME NEW c \in Cmd, NEW k \in Inst, Begins(c, k) PROVE OneOwner'
  <2>1. job'[c].id \in Id
    BY <1>2 DEF Begins, Job
  <2>2. Mention(job'[c].id, k) \/ (\A i : ~Mention(job'[c].id, i))
    BY <1>2 DEF Begins, Mention
  <2> QED BY <1>2, <2>1, <2>2, BeginMention DEF Begins
<1>3. ASSUME NEW c \in Cmd, Finish(c), UNCHANGED index PROVE OneOwner'
  BY <1>3, FinishMention
<1>4. ASSUME NEW c \in Cmd, Engaged(c), NEW l, Goto(c, l), UNCHANGED <<index, job>>,
             UNCHANGED snap \/ snap' = [snap EXCEPT ![c] = index]
      PROVE  OneOwner'
  BY <1>4, GotoMention DEF TypeInv, TypeOK
<1>5. ASSUME NEW c \in Cmd, Launch(c) PROVE OneOwner'
  <2>1. PICK w : job' = [job EXCEPT ![c].want = w]
    BY <1>5 DEF Launch
  <2>2. \A b \in Cmd : job'[b].inst = job[b].inst /\ job'[b].id = job[b].id
    BY <1>5, <2>1 DEF Launch, TypeInv, TypeOK, Job
  <2> QED BY <1>5, <2>2, GotoMention DEF Launch, Engaged
<1>6. ASSUME NEW c \in Cmd, WriteIndex(c) PROVE OneOwner'
  BY <1>6, WriteMention
<1>7. ASSUME NEW c \in Cmd,
             LaunchFailsEarly(c) \/ NothingToStop(c) \/ Stop(c) \/ ReadIndex(c) \/ Crash(c)
      PROVE  OneOwner'
  BY <1>3, <1>4, <1>7 DEF LaunchFailsEarly, NothingToStop, Stop, ReadIndex, Crash, Engaged
<1> QED
  BY <1>1, <1>2, <1>5, <1>6, <1>7, BeginUpBegins, BeginDownBegins
  DEF Next, Step, vars, EndForeground

-----------------------------------------------------------------------------
(***************************************************************************)
(* As long as its commands come one after another and no old copy of its   *)
(* rows was written, an instance has one row at most, and the command that *)
(* is at work on it owns that row: it found it, or it made up its id.      *)
(***************************************************************************)
Solo(i) == \A b, c \in Cmd : On(b, i) /\ On(c, i) => b = c

OwnRow(i) ==
  \A c \in Cmd : On(c, i) => \A d \in Id : RowIn(index, d, i) => d = job[c].id

OneRow(i) == \A d, e \in Id : RowIn(index, d, i) /\ RowIn(index, e, i) => d = e

Turn(i) == Solo(i) /\ OwnRow(i) /\ OneRow(i)

TurnInv == \A i \in Inst : InTurn(i) => Turn(i)

LEMMA NeverGrows ==
  ASSUME TypeInv, [Next]_vars, NEW i \in Inst, NEW kinds
  PROVE  Never(i, kinds)' => Never(i, kinds)
BY OddStep DEF Never, OddOK, TypeInv, TypeOK

\* A write whose copy of an instance's rows is up to date leaves the rows of an
\* instance that is not the writer's alone, ...
LEMMA WriteAside ==
  ASSUME TypeInv, OneOwner, NEW c \in Cmd, WriteIndex(c),
         NEW i \in Inst, i # job[c].inst, InTurn(i)'
  PROVE  SameRows(index, index', i)
<1>1. pc[c] = "write" /\ index' = Edited(c) /\ job[c].id \in Id /\ job[c].inst \in Inst
  BY DEF WriteIndex, TypeInv, TypeOK, Job
<1>2. SameRows(snap[c], index, i)
  BY DEF WriteIndex, When, InTurn, Never, TypeInv, TypeOK
<1>3. ~RowIn(index, job[c].id, i) /\ ~RowIn(snap[c], job[c].id, i)
  BY <1>1 DEF OneOwner, Mention, On, Engaged
<1>4. ASSUME NEW d \in Id, RowIn(index, d, i) \/ RowIn(index', d, i)
      PROVE  index'[d] = index[d]
  <2>1. d # job[c].id
    BY <1>1, <1>3, <1>4, EditedOwner
  <2>2. index'[d] = snap[c][d]
    BY <1>1, <2>1, EditedRows, Zenon
  <2>3. RowIn(index, d, i) \/ RowIn(snap[c], d, i)
    BY <1>4, <2>2 DEF RowIn
  <2> QED BY <1>2, <2>2, <2>3 DEF SameRows
<1> QED BY <1>4 DEF SameRows

\* ... and changes of those of the writer's own instance just the writer's row.
LEMMA WriteOwn ==
  ASSUME TypeInv, OneOwner, NEW c \in Cmd, WriteIndex(c),
         NEW i \in Inst, i = job[c].inst, InTurn(i)'
  PROVE  /\ snap[c][job[c].id] = index[job[c].id]
         /\ index[job[c].id] # NoRow => index[job[c].id].inst = i
         /\ \A d \in Id : RowIn(index', d, i) => RowIn(index, d, i) \/ d = job[c].id
<1>1. pc[c] = "write" /\ index' = Edited(c) /\ job[c].id \in Id /\ On(c, i)
  BY DEF WriteIndex, TypeInv, TypeOK, Job, On, Engaged
<1>2. SameRows(snap[c], index, i)
  BY DEF WriteIndex, When, InTurn, Never, TypeInv, TypeOK
<1>3. \A d \in Id : RowIn(index', d, i) => RowIn(snap[c], d, i) \/ d = job[c].id
  BY <1>1, EditedOwner
<1>4. \A d \in Id : RowIn(snap[c], d, i) => RowIn(index, d, i)
  BY <1>2 DEF SameRows, RowIn
<1>5. /\ index[job[c].id] # NoRow => index[job[c].id].inst = i
      /\ snap[c][job[c].id] # NoRow => snap[c][job[c].id].inst = i
  <2>1. /\ index[job[c].id] # NoRow => index[job[c].id].inst \in Inst
        /\ snap[c][job[c].id] # NoRow => snap[c][job[c].id].inst \in Inst
    BY <1>1 DEF TypeInv, TypeOK, Index, DeploymentEntry
  <2> QED BY <1>1, <2>1 DEF OneOwner, Mention, RowIn
<1>6. snap[c][job[c].id] = index[job[c].id]
  BY <1>1, <1>2, <1>5 DEF SameRows, RowIn
<1> QED BY <1>3, <1>4, <1>5, <1>6

\* The instance is left alone: neither its rows nor its commands are touched.
LEMMA AsideTurn ==
  ASSUME NEW i \in Inst, Turn(i), SameRows(index, index', i),
         \A b \in Cmd : On(b, i)' => On(b, i) /\ job'[b] = job[b]
  PROVE  Turn(i)'
<1>1. \A d \in Id : RowIn(index', d, i) => RowIn(index, d, i)
  BY DEF SameRows, RowIn
<1>2. \A d \in Id : RowIn(index, d, i)' = RowIn(index', d, i)
  BY DEF RowIn
<1> QED BY <1>1, <1>2 DEF Turn, Solo, OwnRow, OneRow

\* Its one command goes on: what row it leaves is its own.
LEMMA OwnTurn ==
  ASSUME NEW i \in Inst, Turn(i), NEW c \in Cmd, On(c, i),
         \A b \in Cmd : On(b, i)' => On(b, i) /\ job'[b].id = job[b].id,
         \A d \in Id : RowIn(index', d, i) => RowIn(index, d, i) \/ d = job[c].id
  PROVE  Turn(i)'
<1>1. \A d \in Id : RowIn(index, d, i)' => d = job[c].id
  BY DEF Turn, OwnRow, RowIn
<1> QED BY <1>1 DEF Turn, Solo, OwnRow, OneRow

LEMMA BeginTurn ==
  ASSUME TypeInv, NEW c \in Cmd, NEW k \in Inst, Begins(c, k),
         Turn(k), InTurn(k)'
  PROVE  Turn(k)'
<1>1. \A b \in Cmd : On(b, k)' => b = c
  BY DEF Begins, On, Engaged, Busy
<1>2. \A d \in Id : RowIn(index, d, k)' => RowIn(index, d, k)
  BY DEF Begins, RowIn
<1>3. \A d \in Id : RowIn(index, d, k) => d = job'[c].id
  <2>1. CASE RowIn(index, job'[c].id, k)
    BY <2>1 DEF Begins, Turn, OneRow, Job
  <2>2. CASE RowsOf(k) = {}
    BY <2>2 DEF RowsOf, Rows, RowIn
  <2> QED BY <2>1, <2>2 DEF Begins
<1> QED BY <1>1, <1>2, <1>3 DEF Turn, Solo, OwnRow, OneRow

\* What the step of a command at work leaves of the commands.
Advances(c) ==
  /\ Engaged(c) /\ job[c] \in Job
  /\ \A b \in Cmd \ {c} : pc'[b] = pc[b] /\ job'[b] = job[b]
  /\ Engaged(c)' =>
       /\ job'[c].inst = job[c].inst /\ job'[c].id = job[c].id /\ job'[c].op = job[c].op
       /\ job'[c].known = job[c].known /\ job'[c].provider = job[c].provider

LEMMA StepAdvances ==
  ASSUME TypeInv, NEW c \in Cmd, Step(c) \/ Crash(c) PROVE Advances(c)
<1>1. Engaged(c) /\ job[c] \in Job
  BY DEF Step, Crash, LaunchFailsEarly, Launch, NothingToStop, Stop, ReadIndex,
         WriteIndex, Engaged, TypeInv, TypeOK
<1>2. CASE Finish(c)
  BY <1>1, <1>2 DEF Finish, Advances, Engaged, TypeInv, TypeOK
<1>3. ASSUME NEW l, Goto(c, l), UNCHANGED job PROVE Advances(c)
  BY <1>1, <1>3 DEF Goto, Advances, Engaged, TypeInv, TypeOK
<1>4. CASE Launch(c)
  <2>1. PICK w : job' = [job EXCEPT ![c].want = w]
    BY <1>4 DEF Launch
  <2>2. /\ job'[c] = [job[c] EXCEPT !.want = w]
        /\ \A b \in Cmd \ {c} : pc'[b] = pc[b] /\ job'[b] = job[b]
    BY <1>4, <2>1 DEF Launch, Goto, TypeInv, TypeOK
  <2> QED BY <1>1, <2>2 DEF Advances, Job
<1> QED
  BY <1>2, <1>3, <1>4 DEF Step, Crash, LaunchFailsEarly, NothingToStop, Stop, ReadIndex,
                          WriteIndex

LEMMA StepFile ==
  ASSUME NEW c \in Cmd, Step(c) \/ Crash(c), ~WriteIndex(c) PROVE UNCHANGED index
BY DEF Step, Crash, LaunchFailsEarly, Launch, NothingToStop, Stop, ReadIndex

\* All there is to say of an instance that is not the command's.
LEMMA StepAside ==
  ASSUME TypeInv, OneOwner, NEW c \in Cmd, Step(c) \/ Crash(c),
         NEW i \in Inst, i # job[c].inst, InTurn(i)'
  PROVE  /\ SameRows(index, index', i)
         /\ \A b \in Cmd : /\ On(b, i)' <=> On(b, i)
                           /\ On(b, i) => pc'[b] = pc[b] /\ job'[b] = job[b]
<1>1. Advances(c)
  BY StepAdvances
<1>2. SameRows(index, index', i)
  BY WriteAside, StepFile DEF SameRows
<1> QED BY <1>1, <1>2 DEF Advances, On, Engaged

LEMMA TurnStep ==
  ASSUME TypeInv, OneOwner, TurnInv, [Next]_vars, NEW i \in Inst, InTurn(i)'
  PROVE  Turn(i)'
<1>1. Turn(i)
  BY NeverGrows DEF TurnInv, InTurn
<1>2. CASE UNCHANGED <<index, pc, job>>
  BY <1>1, <1>2, AsideTurn DEF SameRows, On, Engaged
<1>3. ASSUME NEW c \in Cmd, NEW k \in Inst, Begins(c, k) PROVE Turn(i)'
  <2>1. CASE i = k
    BY <1>1, <1>3, <2>1, BeginTurn
  <2>2. CASE i # k
    <3>1. \A b \in Cmd : On(b, i)' => On(b, i) /\ job'[b] = job[b]
      BY <1>3, <2>2 DEF Begins, On, Engaged
    <3>2. SameRows(index, index', i)
      BY <1>3 DEF Begins, SameRows
    <3> QED BY <1>1, <3>1, <3>2, AsideTurn
  <2> QED BY <2>1, <2>2
<1>4. ASSUME NEW c \in Cmd, Step(c) \/ Crash(c) PROVE Turn(i)'
  <2>1. CASE i # job[c].inst
    BY <1>1, <1>4, <2>1, StepAside, AsideTurn
  <2>2. CASE i = job[c].inst
    <3>1. Advances(c) /\ On(c, i)
      BY <1>4, <2>2, StepAdvances DEF Advances, On
    <3>2. \A b \in Cmd : On(b, i)' => On(b, i) /\ job'[b].id = job[b].id
      BY <2>2, <3>1 DEF Advances, On, Engaged
    <3>3. \A d \in Id : RowIn(index', d, i) => RowIn(index, d, i) \/ d = job[c].id
      BY <1>4, <2>2, WriteOwn, StepFile
    <3> QED BY <1>1, <3>1, <3>2, <3>3, OwnTurn
  <2> QED BY <2>1, <2>2
<1> QED
  BY <1>2, <1>3, <1>4, BeginUpBegins, BeginDownBegins DEF Next, vars, EndForeground

\* An `up` never records "down".
UpNeverDown ==
  \A c \in Cmd : Engaged(c) /\ job[c].op = "up" => job[c].want # "down"

LEMMA UpNeverDownStep ==
  ASSUME TypeInv, UpNeverDown, [Next]_vars
  PROVE  UpNeverDown'
<1> USE DEF UpNeverDown, Engaged
<1>1. CASE UNCHANGED <<pc, job>>
  BY <1>1
<1>2. ASSUME NEW c \in Cmd, NEW k, Begins(c, k) PROVE UpNeverDown'
  BY <1>2 DEF Begins
<1>3. ASSUME NEW c \in Cmd, Launch(c) PROVE UpNeverDown'
  <2>1. PICK w \in {"up", "unhealthy", "unknown"} : job' = [job EXCEPT ![c].want = w]
    BY <1>3 DEF Launch, RecordedPhases, failedDeploymentStatus
  <2>2. job[c] \in Job
    BY <1>3 DEF Launch, TypeInv, TypeOK
  <2>3. job'[c].want = w
    BY <2>1, <2>2 DEF TypeInv, TypeOK, Job
  <2>4. \A b \in Cmd \ {c} : pc'[b] = pc[b] /\ job'[b] = job[b]
    BY <1>3, <2>1 DEF Launch, Goto, TypeInv, TypeOK
  <2> QED BY <2>1, <2>3, <2>4
<1>4. ASSUME NEW c \in Cmd, UNCHANGED job, NEW l, Goto(c, l), pc[c] # "idle"
      PROVE  UpNeverDown'
  BY <1>4 DEF Goto, TypeInv, TypeOK
<1>5. ASSUME NEW c \in Cmd, Finish(c) PROVE UpNeverDown'
  BY <1>5 DEF Finish, TypeInv, TypeOK
<1> QED
  BY <1>1, <1>2, <1>3, <1>4, <1>5, BeginUpBegins, BeginDownBegins
  DEF Next, vars, Step, EndForeground, LaunchFailsEarly, NothingToStop, Stop, ReadIndex,
      WriteIndex, Crash

FileInv == TypeInv /\ OneOwner /\ TurnInv /\ UpNeverDown

LEMMA FileInvariant == Spec => []FileInv
<1>1. Init => FileInv
  <2> SUFFICES ASSUME Init PROVE FileInv
    OBVIOUS
  <2>1. \A d \in Id : \A i : ~Mention(d, i) /\ ~RowIn(index, d, i)
    BY DEF Init, Mention, RowIn, NoRows, On, Engaged
  <2>2. \A c \in Cmd : ~Engaged(c)
    BY DEF Init, Engaged
  <2> QED BY <2>1, <2>2, TypeInit
          DEF FileInv, OneOwner, TurnInv, Turn, Solo, OwnRow, OneRow, On, UpNeverDown
<1>2. FileInv /\ [Next]_vars => FileInv'
  BY TypeStep, OwnerStep, TurnStep, UpNeverDownStep DEF FileInv, TurnInv
<1> QED BY <1>1, <1>2, PTL DEF Spec

(***************************************************************************)
(* An instance never has two rows, whatever was killed, stopped, moved to  *)
(* the other provider or destroyed, and whatever the commands on other     *)
(* instances do to the file meanwhile: an `up` finds the row an earlier    *)
(* one made (findBySource). Two `up`s of one instance at once, or an edit  *)
(* of an old copy of its rows, end the promise for that instance alone.    *)
(***************************************************************************)
THEOREM OneRowHolds == Spec => []OneRowPerInstance
<1>1. FileInv => OneRowPerInstance
  <2> SUFFICES ASSUME FileInv, NEW i \in Inst, InTurn(i)
               PROVE  Cardinality(RowsOf(i)) <= 1
    BY DEF OneRowPerInstance
  <2>1. CASE RowsOf(i) = {}
    BY <2>1, FS_EmptySet
  <2>2. CASE RowsOf(i) # {}
    <3>1. PICK d \in RowsOf(i) : TRUE
      BY <2>2
    <3>2. \A e \in RowsOf(i) : e = d
      BY DEF RowsOf, Rows, RowIn, FileInv, TurnInv, Turn, OneRow
    <3>3. RowsOf(i) = {d}
      BY <3>1, <3>2
    <3>4. Cardinality({d}) = 1
      BY FS_Singleton
    <3> QED BY <3>3, <3>4
  <2> QED BY <2>1, <2>2
<1> QED BY <1>1, FileInvariant, PTL

-----------------------------------------------------------------------------
\* The entries of an instance whose rows are left alone are left alone.
LEMMA AsideEntries ==
  ASSUME NEW i \in Inst, SameRows(index, index', i)
  PROVE  EntriesOf(i)' = EntriesOf(i)
<1>1. \A d \in Id : d \in RowsOf(i)' <=> d \in RowsOf(i)
  BY DEF RowsOf, Rows, SameRows, RowIn
<1>2. RowsOf(i)' = RowsOf(i)
  BY <1>1 DEF RowsOf, Rows
<1>3. \A d \in RowsOf(i) : index'[d] = index[d]
  BY DEF RowsOf, Rows, SameRows, RowIn
<1> QED BY <1>2, <1>3 DEF EntriesOf

\* A write makes of the entries of its own instance what the registry says.
LEMMA OwnEntries ==
  ASSUME FileInv, NEW c \in Cmd, WriteIndex(c),
         NEW i \in Inst, i = job[c].inst, InTurn(i), InTurn(i)'
  PROVE  \/ \E e \in R!Entry : e.status # "down" /\ EntriesOf(i)' = {e}
         \/ \E e \in EntriesOf(i) : EntriesOf(i)' = {[e EXCEPT !.status = "down"]}
         \/ EntriesOf(i)' = {}
<1> USE DEF FileInv
<1> DEFINE j == job[c]
           new == index'[j.id]
           old == index[j.id]
<1>1. /\ On(c, i) /\ j \in Job /\ j.id \in Id /\ pc[c] = "write" /\ index' = Edited(c)
  BY DEF WriteIndex, On, Engaged, TypeInv, TypeOK, Job
<1>2. \A d \in Id : d \in RowsOf(i)' <=> RowIn(index', d, i)
  BY DEF RowsOf, Rows, RowIn
<1>3. \A d \in Id : RowIn(index', d, i) => d = j.id
  BY <1>1, WriteOwn DEF TurnInv, Turn, OwnRow
<1>4. snap[c][j.id] = old /\ (old # NoRow => old.inst = i)
  BY WriteOwn
<1>5. CASE ~RowIn(index', j.id, i)
  <2>1. RowsOf(i)' = {}
    BY <1>2, <1>3, <1>5 DEF RowsOf, Rows
  <2> QED BY <2>1 DEF EntriesOf
<1>6. CASE RowIn(index', j.id, i)
  <2>1. RowsOf(i)' = {j.id}
    BY <1>1, <1>2, <1>3, <1>6 DEF RowsOf, Rows
  <2>2. EntriesOf(i)' = {[provider |-> new.provider, status |-> new.status]}
    BY <2>1 DEF EntriesOf
  <2>3. CASE /\ j.op = "up"
             /\ new = [inst |-> j.inst, provider |-> j.provider, status |-> j.want]
    <3>1. EntriesOf(i)' = {[provider |-> j.provider, status |-> j.want]}
      BY <2>2, <2>3
    <3>2. [provider |-> j.provider, status |-> j.want] \in R!Entry /\ j.want # "down"
      BY <1>1, <2>3 DEF R!Entry, Job, UpNeverDown, On
    <3> QED BY <3>1, <3>2
  <2>4. CASE old \in DeploymentEntry /\ new = [old EXCEPT !.status = "down"]
    <3> DEFINE e == [provider |-> old.provider, status |-> old.status]
    <3>1. new.provider = old.provider /\ new.status = "down"
      BY <2>4 DEF DeploymentEntry
    <3>2. [e EXCEPT !.status = "down"] = [provider |-> old.provider, status |-> "down"]
      OBVIOUS
    <3>3. j.id \in RowsOf(i)
      BY <1>1, <1>4, <2>4, DeploymentIndexAssumption
      DEF RowsOf, Rows, DeploymentEntry, Status
    <3>4. e \in EntriesOf(i)
      BY <3>3 DEF EntriesOf
    <3>5. EntriesOf(i)' = {[e EXCEPT !.status = "down"]}
      BY <2>2, <3>1, <3>2
    <3> HIDE DEF e
    <3> QED BY <3>4, <3>5
  <2>5. CASE new = NoRow
    BY <1>6, <2>5 DEF RowIn
  <2> HIDE DEF new, old, j
  <2>6. \/ new = NoRow
        \/ /\ j.op = "up"
           /\ new = [inst |-> j.inst, provider |-> j.provider, status |-> j.want]
        \/ old \in DeploymentEntry /\ new = [old EXCEPT !.status = "down"]
    BY <1>1, <1>4, EditedRows, Zenon DEF new, old, j
  <2> QED BY <2>3, <2>4, <2>5, <2>6
<1> QED BY <1>5, <1>6

(***************************************************************************)
(* The refinement: commands read the file and replace it later, any number *)
(* at once and with no lock, and still, through the entries of each        *)
(* instance, a write is one indivisible step of a registry on the writer's *)
(* own instance, for every instance that no two commands contended for.    *)
(***************************************************************************)
THEOREM RegistryImplemented == Spec => Registry
<1> DEFINE bar == [i \in Inst |-> EntriesOf(i)]
           con == {i \in Inst : ~InTurn(i)}
<1>1. Init => R!Init
  <2> SUFFICES ASSUME Init PROVE bar = [i \in Inst |-> {}] /\ con = {}
    BY DEF R!Init
  <2>1. \A i \in Inst : RowsOf(i) = {}
    BY DEF Init, NoRows, RowsOf, Rows
  <2>2. \A i \in Inst : EntriesOf(i) = {}
    BY <2>1 DEF EntriesOf
  <2> QED BY <2>2 DEF Init, InTurn, Never
<1>2. FileInv /\ [Next]_vars => [R!Next]_(R!vars)
  <2> SUFFICES ASSUME FileInv, [Next]_vars PROVE R!Next \/ UNCHANGED <<bar, con>>
    BY DEF R!vars
  <2>1. con \subseteq con'
    BY NeverGrows DEF InTurn, FileInv
  <2>2. \A i \in Inst : i \notin con' => InTurn(i)' /\ InTurn(i)
    BY <2>1
  <2>3. \A i \in Inst : bar[i] = EntriesOf(i) /\ bar'[i] = EntriesOf(i)'
    OBVIOUS
  <2> HIDE DEF bar, con
  <2>4. CASE Inst = {}
    BY <2>4 DEF bar, con
  <2>5. ASSUME NEW k \in Inst, UNCHANGED index PROVE R!Next \/ UNCHANGED <<bar, con>>
    <3>1. bar' = bar
      BY <2>5 DEF bar, EntriesOf, RowsOf, Rows
    <3>2. CASE con' = con
      BY <3>1, <3>2
    <3>3. CASE con' # con
      <4>1. PICK i \in Inst : i \in con'
        BY <2>1, <3>3 DEF con
      <4> QED BY <2>1, <3>1, <4>1 DEF R!Next, bar, con
    <3> QED BY <3>2, <3>3
  <2>6. ASSUME NEW c \in Cmd, WriteIndex(c) PROVE R!Next
    <3>1. PICK i \in Inst : i = job[c].inst
      BY <2>6 DEF WriteIndex, FileInv, TypeInv, TypeOK, Job
    <3>2. \A k \in Inst \ ({i} \cup con') : bar'[k] = bar[k]
      BY <2>2, <2>3, <2>6, <3>1, WriteAside, AsideEntries DEF FileInv
    <3>3. i \in con' \/ R!Record(i) \/ R!MarkDown(i) \/ R!Forget(i)
      <4> SUFFICES ASSUME i \notin con' PROVE R!Record(i) \/ R!MarkDown(i) \/ R!Forget(i)
        OBVIOUS
      <4>1. InTurn(i) /\ InTurn(i)'
        BY <2>2
      <4>2. CASE \E e \in R!Entry : e.status # "down" /\ EntriesOf(i)' = {e}
        BY <2>3, <4>2 DEF R!Record, bar
      <4>3. CASE \E e \in EntriesOf(i) : EntriesOf(i)' = {[e EXCEPT !.status = "down"]}
        BY <2>3, <4>3 DEF R!MarkDown, bar
      <4>4. CASE EntriesOf(i)' = {}
        BY <2>3, <4>4 DEF R!Forget, bar
      <4> QED BY <2>6, <3>1, <4>1, <4>2, <4>3, <4>4, OwnEntries
    <3> QED BY <2>1, <3>1, <3>2, <3>3 DEF R!Next, bar, con
  <2>7. UNCHANGED index \/ \E c \in Cmd : WriteIndex(c)
    BY StepFile, BeginUpBegins, BeginDownBegins
    DEF Next, vars, EndForeground, Begins, FileInv
  <2> QED BY <2>4, <2>5, <2>6, <2>7
<1> QED BY <1>1, <1>2, FileInvariant, PTL DEF Spec, Registry, R!Spec

-----------------------------------------------------------------------------
(***************************************************************************)
(* The row of an instance says what is on the machine, as long as nothing  *)
(* befell the instance but a Ctrl+C or a change of provider.               *)
(***************************************************************************)
Calm(i) == InTurn(i) /\ Never(i, {"fault"})

Running(i, p)  == machine[<<i, p>>].running
HasState(i, p) == machine[<<i, p>>].state

\* A command knows whether its instance has a row, and the row's provider is
\* its own, except for an `up` that changes it.
KnownRow(i) ==
  \A c \in Cmd : On(c, i) =>
     /\ job[c].op # "up" => job[c].known
     /\ job[c].known <=> RowIn(index, job[c].id, i)
     /\ RowIn(index, job[c].id, i) /\ (job[c].op # "up" \/ Faithful(i))
          => index[job[c].id].provider = job[c].provider

\* No command has yet changed anything of the instance on the machine.
Untouched(i) == \A c \in Cmd : On(c, i) => pc[c] = "provider"

Told(s, running) == /\ s = "down" => ~running
                    /\ s \in {"up", "unhealthy"} => running

\* Then machine and rows agree, ...
Agree(i) ==
  /\ Faithful(i) => \A p \in Provider : Running(i, p) =>
       \E d \in Id : RowIn(index, d, i) /\ index[d].provider = p
  /\ \A d \in Id : RowIn(index, d, i) =>
       /\ HasState(i, index[d].provider)
       /\ odd[i] \subseteq {"switched"} => Told(index[d].status, Running(i, index[d].provider))

\* ... and after its work on the machine a command is about to write a row that
\* does.
Ahead(c, i) ==
  LET j == job[c]
  IN  /\ Faithful(i) => \A p \in Provider : p # j.provider => ~Running(i, p)
      /\ j.op # "destroy" => HasState(i, j.provider)
      /\ j.op = "up" /\ j.want \in {"up", "unhealthy"} => Running(i, j.provider)
      /\ j.op # "up" => ~Running(i, j.provider)

AtIndex(c) == pc[c] \in {"read", "write"}

Home(i) ==
  /\ KnownRow(i)
  /\ Untouched(i) => Agree(i)
  /\ \A c \in Cmd : On(c, i) /\ AtIndex(c) => Ahead(c, i)

HomeInv == \A i \in Inst : Calm(i) => Home(i)

LEMMA RowType ==
  ASSUME TypeInv, NEW i, NEW d \in Id, RowIn(index, d, i)
  PROVE  index[d] \in DeploymentEntry /\ index[d].provider \in Provider
BY DEF RowIn, TypeInv, TypeOK, Index, DeploymentEntry

\* What each step does to the machine.
LEMMA MachineEffect ==
  ASSUME TypeInv, NEW x \in Inst \X Provider, NEW r, machine' = [machine EXCEPT ![x] = r]
  PROVE  /\ machine'[x] = r
         /\ \A i \in Inst, p \in Provider : <<i, p>> # x => machine'[<<i, p>>] = machine[<<i, p>>]
BY DEF TypeInv, TypeOK

\* An instance that a step leaves alone, on the machine too, and to which nothing
\* that its status depends on is forgotten.
LEMMA AsideHome ==
  ASSUME TypeInv, NEW i \in Inst, Home(i), SameRows(index, index', i),
         \A p \in Provider : machine'[<<i, p>>] = machine[<<i, p>>],
         \A b \in Cmd : /\ On(b, i)' <=> On(b, i)
                        /\ On(b, i) => pc'[b] = pc[b] /\ job'[b] = job[b] /\ job[b] \in Job,
         odd[i] \subseteq odd'[i]
  PROVE  Home(i)'
<1>0. Faithful(i)' => Faithful(i)
  BY DEF Faithful, Never
<1>1. \A d \in Id : /\ RowIn(index, d, i)' <=> RowIn(index, d, i)
                    /\ RowIn(index, d, i) => index'[d] = index[d]
  BY DEF SameRows, RowIn
<1>2. \A p \in Provider : Running(i, p)' = Running(i, p) /\ HasState(i, p)' = HasState(i, p)
  BY DEF Running, HasState
<1>3. KnownRow(i)'
  BY <1>0, <1>1 DEF Home, KnownRow, Job
<1>4. Untouched(i)' => Untouched(i)
  BY DEF Untouched
<1>5. Agree(i) => Agree(i)'
  BY <1>0, <1>1, <1>2, RowType DEF Agree
<1>6. ASSUME NEW b \in Cmd, On(b, i)', AtIndex(b)' PROVE Ahead(b, i)'
  <2>1. Ahead(b, i) /\ job'[b] = job[b] /\ job[b].provider \in Provider
    BY <1>6 DEF Home, AtIndex, Job
  <2> QED BY <1>0, <1>2, <2>1 DEF Ahead
<1> QED BY <1>3, <1>4, <1>5, <1>6 DEF Home

\* The instance of the command that takes a step which leaves the file alone.
LEMMA OwnHome ==
  ASSUME FileInv, NEW i \in Inst, Calm(i), Home(i), NEW c \in Cmd, On(c, i), Advances(c),
         UNCHANGED index, Faithful(i)' => Faithful(i),
         (On(c, i)' /\ AtIndex(c)' /\ Ahead(c, i)') \/ (~Engaged(c)' /\ Agree(i)')
  PROVE  Home(i)'
<1>1. \A b \in Cmd : On(b, i) <=> b = c
  BY DEF FileInv, TurnInv, Turn, Solo, Calm
<1>2. \A b \in Cmd : On(b, i)' => b = c
  BY <1>1 DEF Advances, On, Engaged
<1>3. \A d \in Id : RowIn(index, d, i)' <=> RowIn(index, d, i)
  BY DEF RowIn
<1>4. KnownRow(i)'
  BY <1>2, <1>3 DEF Home, KnownRow, Advances, On, Job
<1> QED BY <1>2, <1>4 DEF Home, Untouched, AtIndex, On, Engaged

\* All there is of an instance as long as its command has done nothing.
LEMMA BeforeWork ==
  ASSUME FileInv, NEW i \in Inst, Calm(i), Home(i), NEW c \in Cmd, On(c, i),
         pc[c] = "provider"
  PROVE  /\ Agree(i)
         /\ Faithful(i) => \A p \in Provider : Running(i, p) => p = job[c].provider
         /\ job[c].op # "up" => HasState(i, job[c].provider)
<1>1. job[c].id \in Id
  BY DEF On, Engaged, FileInv, TypeInv, TypeOK, Job
<1>2. Untouched(i)
  BY DEF Untouched, FileInv, TurnInv, Turn, Solo, Calm
<1>3. Agree(i)
  BY <1>2 DEF Home
<1>4. \A d \in Id : RowIn(index, d, i) => d = job[c].id
  BY DEF FileInv, TurnInv, Turn, OwnRow, Calm
<1>5. job[c].op # "up" \/ Faithful(i) =>
        \A d \in Id : RowIn(index, d, i) => index[d].provider = job[c].provider
  BY <1>4 DEF Home, KnownRow
<1>6. job[c].op # "up" => RowIn(index, job[c].id, i)
  BY DEF Home, KnownRow
<1> QED BY <1>1, <1>3, <1>5, <1>6 DEF Agree

LEMMA LaunchFailsEarlyHome ==
  ASSUME FileInv, NEW i \in Inst, Calm(i), Home(i), NEW c \in Cmd, On(c, i), Advances(c),
         LaunchFailsEarly(c), Faithful(i)' => Faithful(i)
  PROVE  Home(i)'
<1> DEFINE x == <<i, job[c].provider>>
<1>1. /\ x \in Inst \X Provider /\ pc[c] = "provider"
      /\ machine[x] \in [running : BOOLEAN, state : BOOLEAN]
  BY DEF LaunchFailsEarly, FileInv, TypeInv, TypeOK, Job, On, Advances
<1>2. PICK saved \in BOOLEAN : machine' = [machine EXCEPT ![x].state = @ \/ saved]
  BY DEF LaunchFailsEarly, On
<1>3. PICK s : s = (machine[x].state \/ saved)
  OBVIOUS
<1>4. machine' = [machine EXCEPT ![x] = [machine[x] EXCEPT !.state = s]]
  BY <1>2, <1>3, Zenon
<1>5. [machine[x] EXCEPT !.state = s] = [running |-> machine[x].running, state |-> s]
  BY <1>1
<1>6. machine' = [machine EXCEPT ![x] = [running |-> machine[x].running, state |-> s]]
  BY <1>4, <1>5
<1>7. machine[x].state => s
  BY <1>3, Zenon
<1>8. /\ machine'[x] = [running |-> machine[x].running, state |-> s]
      /\ \A k \in Inst, p \in Provider : <<k, p>> # x => machine'[<<k, p>>] = machine[<<k, p>>]
  <2> HIDE DEF x
  <2> QED BY <1>1, <1>6, MachineEffect DEF FileInv
<1>9. \A p \in Provider : /\ Running(i, p)' = Running(i, p)
                          /\ HasState(i, p) => HasState(i, p)'
  BY <1>7, <1>8 DEF Running, HasState
<1>10. pc'[c] = "idle" /\ UNCHANGED <<index, odd>>
  BY DEF LaunchFailsEarly, Finish, FileInv, TypeInv, TypeOK
<1>11. Agree(i)
  BY <1>1, BeforeWork
<1>12. Agree(i)'
  BY <1>9, <1>10, <1>11, RowType DEF Agree, RowIn, FileInv
<1> QED BY <1>10, <1>12, OwnHome DEF Engaged

LEMMA LaunchHome ==
  ASSUME FileInv, NEW i \in Inst, Calm(i), Home(i), NEW c \in Cmd, On(c, i), Advances(c),
         Launch(c), Faithful(i)' => Faithful(i)
  PROVE  Home(i)'
<1> DEFINE x == <<i, job[c].provider>>
<1>1. /\ x \in Inst \X Provider /\ pc[c] = "provider" /\ job[c] \in Job /\ job[c].op = "up"
  BY DEF Launch, FileInv, TypeInv, TypeOK, Job, On, Advances
<1>2. \E r, w : /\ machine' = [machine EXCEPT ![x] = [running |-> r, state |-> TRUE]]
                /\ job' = [job EXCEPT ![c].want = w]
                /\ w \in {"up", "unhealthy"} => r
  <2>1. CASE /\ machine' = [machine EXCEPT ![x] = [running |-> TRUE, state |-> TRUE]]
             /\ job' = [job EXCEPT ![c].want = "up"]
    BY <2>1
  <2>2. ASSUME NEW phase \in RecordedPhases(job[c].provider), NEW some \in BOOLEAN,
               phase = "health" => some,
               machine' = [machine EXCEPT ![x] = [running |-> machine[x].running \/ some,
                                                  state |-> TRUE]],
               job' = [job EXCEPT ![c].want = failedDeploymentStatus(phase)]
        PROVE  \E r, w : /\ machine' = [machine EXCEPT ![x] = [running |-> r, state |-> TRUE]]
                         /\ job' = [job EXCEPT ![c].want = w]
                         /\ w \in {"up", "unhealthy"} => r
    <3>1. phase # "health" => failedDeploymentStatus(phase) = "unknown"
      BY DEF RecordedPhases, failedDeploymentStatus
    <3>2. failedDeploymentStatus(phase) \in {"up", "unhealthy"} => phase = "health"
      BY <3>1
    <3>3. failedDeploymentStatus(phase) \in {"up", "unhealthy"} => (machine[x].running \/ some)
      BY <2>2, <3>2, Zenon
    <3> QED BY <2>2, <3>3, Zenon
  <2>3. i = job[c].inst
    BY DEF On
  <2> QED BY <2>1, <2>2, <2>3, Zenon DEF Launch
<1>3. PICK r, w : /\ machine' = [machine EXCEPT ![x] = [running |-> r, state |-> TRUE]]
                  /\ job' = [job EXCEPT ![c].want = w]
                  /\ w \in {"up", "unhealthy"} => r
  BY <1>2
<1>4. /\ machine'[x] = [running |-> r, state |-> TRUE]
      /\ \A k \in Inst, p \in Provider : <<k, p>> # x => machine'[<<k, p>>] = machine[<<k, p>>]
  <2> HIDE DEF x
  <2> QED BY <1>1, <1>3, MachineEffect DEF FileInv
<1>5. job'[c] = [job[c] EXCEPT !.want = w] /\ pc'[c] = "read" /\ UNCHANGED <<index, odd>>
  BY <1>3 DEF Launch, Goto, FileInv, TypeInv, TypeOK
<1>6. /\ job'[c].inst = i /\ job'[c].op = "up" /\ job'[c].provider = job[c].provider
      /\ job'[c].want = w
  BY <1>1, <1>5 DEF Job, On
<1>7. Faithful(i) => \A p \in Provider : Running(i, p) => p = job[c].provider
  BY <1>1, BeforeWork
<1>8. \A p \in Provider : p # job[c].provider => Running(i, p)' = Running(i, p)
  BY <1>4 DEF Running
<1>9. machine'[x].running = r /\ machine'[x].state
  BY <1>4
<1>10. Ahead(c, i)'
  BY <1>3, <1>6, <1>7, <1>8, <1>9 DEF Ahead, Running, HasState
<1>11. On(c, i)' /\ AtIndex(c)' /\ UNCHANGED index
  BY <1>5, <1>6 DEF On, Engaged, AtIndex
<1> QED BY <1>10, <1>11, OwnHome

LEMMA NothingToStopHome ==
  ASSUME FileInv, NEW i \in Inst, Calm(i), Home(i), NEW c \in Cmd, On(c, i),
         NothingToStop(c)
  PROVE  FALSE
BY BeforeWork DEF NothingToStop, HasState, On

LEMMA StopHome ==
  ASSUME FileInv, NEW i \in Inst, Calm(i), Home(i), NEW c \in Cmd, On(c, i), Advances(c),
         Stop(c), Calm(i)', Faithful(i)' => Faithful(i)
  PROVE  Home(i)'
<1> DEFINE x == <<i, job[c].provider>>
<1>1. /\ x \in Inst \X Provider /\ pc[c] = "provider" /\ job[c].op \in {"down", "destroy"}
      /\ UNCHANGED <<index, job>> /\ pc'[c] = "read"
  BY DEF Stop, Goto, FileInv, TypeInv, TypeOK, Job, On, Advances
<1>2. PICK failed \in BOOLEAN :
        /\ Befall(i, When(failed, "fault"))
        /\ machine' = [machine EXCEPT ![x] = [running |-> machine[x].running /\ failed,
                                              state |-> job[c].op = "down"]]
  BY Zenon DEF Stop, On
<1>3. ~failed
  BY <1>2, BefallShows DEF When, Calm, FileInv
<1>4. PICK r, s : /\ r = (machine[x].running /\ failed)
                  /\ s = (job[c].op = "down")
  BY Zenon
<1>5. machine' = [machine EXCEPT ![x] = [running |-> r, state |-> s]]
  BY <1>2, <1>4, Zenon
<1>6. ~r /\ (job[c].op = "down" => s)
  BY <1>3, <1>4, Zenon
<1>7. /\ machine'[x] = [running |-> r, state |-> s]
      /\ \A k \in Inst, p \in Provider : <<k, p>> # x => machine'[<<k, p>>] = machine[<<k, p>>]
  <2> HIDE DEF x
  <2> QED BY <1>1, <1>5, MachineEffect DEF FileInv
<1>8. Faithful(i) => \A p \in Provider : Running(i, p) => p = job[c].provider
  BY <1>1, BeforeWork
<1>9. \A p \in Provider : p # job[c].provider => Running(i, p)' = Running(i, p)
  BY <1>7 DEF Running
<1>10. machine'[x].running = r /\ machine'[x].state = s
  BY <1>7
<1>11. job'[c] = job[c]
  BY <1>1
<1>12. Ahead(c, i)'
  BY <1>1, <1>6, <1>8, <1>9, <1>10, <1>11 DEF Ahead, Running, HasState
<1>13. On(c, i)' /\ AtIndex(c)'
  BY <1>1, <1>11 DEF On, Engaged, AtIndex
<1> QED BY <1>1, <1>12, <1>13, OwnHome

\* The command reads the file: it knows its row, so it finds it.
LEMMA ReadIndexHome ==
  ASSUME FileInv, NEW i \in Inst, Calm(i), Home(i), NEW c \in Cmd, On(c, i), Advances(c),
         ReadIndex(c), Faithful(i)' => Faithful(i)
  PROVE  Home(i)'
<1>1. pc[c] = "read" /\ UNCHANGED <<index, machine, odd>>
  BY DEF ReadIndex
<1>2. ~(job[c].known /\ index[job[c].id] = NoRow)
  BY DEF Home, KnownRow, RowIn
<1>3. pc'[c] = "write" /\ job'[c] = job[c]
  BY <1>2 DEF ReadIndex, Goto, FileInv, TypeInv, TypeOK
<1>4. Ahead(c, i)
  BY <1>1 DEF Home, AtIndex
<1>5. Ahead(c, i)'
  BY <1>1, <1>3, <1>4 DEF Ahead, Running, HasState
<1>6. On(c, i)' /\ AtIndex(c)'
  BY <1>3 DEF On, Engaged, AtIndex
<1> QED BY <1>1, <1>5, <1>6, OwnHome

\* The write: the row of the instance becomes what the machine shows.
LEMMA WriteIndexHome ==
  ASSUME FileInv, FileInv', NEW i \in Inst, Calm(i), Home(i), Calm(i)',
         NEW c \in Cmd, On(c, i), Advances(c), WriteIndex(c), Faithful(i)' => Faithful(i)
  PROVE  Home(i)'
<1> DEFINE d == job[c].id
           new == index'[d]
           old == index[d]
<1>1. /\ AtIndex(c) /\ job[c] \in Job /\ d \in Id /\ i = job[c].inst
      /\ pc[c] = "write" /\ index' = Edited(c) /\ UNCHANGED machine /\ ~Engaged(c)'
  BY DEF WriteIndex, Finish, AtIndex, Advances, Job, On, Engaged, FileInv, TypeInv, TypeOK
<1>2. \A b \in Cmd : ~On(b, i)'
  BY <1>1 DEF FileInv, TurnInv, Turn, Solo, Calm, Advances, On, Engaged
<1>3. Ahead(c, i)
  BY <1>1 DEF Home
<1>4. /\ snap[c][d] = old
      /\ \A e \in Id : RowIn(index', e, i) => e = d
  BY <1>1, WriteOwn DEF FileInv, TurnInv, Turn, OwnRow, Calm
<1>5. \A p \in Provider : Running(i, p)' = Running(i, p) /\ HasState(i, p)' = HasState(i, p)
  BY <1>1 DEF Running, HasState
<1>6. \A e \in Id : RowIn(index, e, i)' = RowIn(index', e, i)
  BY DEF RowIn
<1>7. ASSUME RowIn(index', d, i), new.provider = job[c].provider, job[c].op # "destroy",
             Told(new.status, Running(i, job[c].provider))
      PROVE  Agree(i)'
  <2>1. HasState(i, job[c].provider)
    BY <1>3, <1>7 DEF Ahead
  <2>2. Faithful(i) => \A p \in Provider : Running(i, p) => p = job[c].provider
    BY <1>3 DEF Ahead
  <2>3. job[c].provider \in Provider
    BY <1>1 DEF Job
  <2> QED BY <1>1, <1>4, <1>5, <1>6, <1>7, <2>1, <2>2, <2>3 DEF Agree, Told
<1>8. CASE new = NoRow /\ job[c].op = "destroy"
  <2>1. \A e \in Id : ~RowIn(index', e, i)
    BY <1>4, <1>8 DEF RowIn
  <2>2. Faithful(i) => \A p \in Provider : ~Running(i, p)
    BY <1>3, <1>8 DEF Ahead
  <2>3. Agree(i)'
    BY <1>5, <1>6, <2>1, <2>2 DEF Agree
  <2> QED BY <1>2, <2>3 DEF Home, KnownRow
<1>9. CASE /\ job[c].op = "up"
           /\ new = [inst |-> job[c].inst, provider |-> job[c].provider,
                     status |-> job[c].want]
  <2>1. new # NoRow
    BY <1>1, <1>9, DeploymentIndexAssumption DEF Job, Status
  <2>2. new.inst = i /\ new.provider = job[c].provider /\ new.status = job[c].want
    BY <1>1, <1>9
  <2>3. RowIn(index', d, i)
    BY <2>1, <2>2 DEF RowIn
  <2>4. job[c].want # "down"
    BY <1>9 DEF FileInv, UpNeverDown, On
  <2>5. Told(job[c].want, Running(i, job[c].provider))
    BY <1>3, <1>9, <2>4 DEF Ahead, Told
  <2>6. Agree(i)'
    BY <1>7, <1>9, <2>2, <2>3, <2>5
  <2> QED BY <1>2, <2>6 DEF Home, KnownRow
<1>10. CASE /\ job[c].op = "down" /\ snap[c][d] \in DeploymentEntry
            /\ new = [snap[c][d] EXCEPT !.status = "down"]
  <2>1. old \in DeploymentEntry /\ new = [old EXCEPT !.status = "down"]
    BY <1>4, <1>10
  <2>2. /\ new.inst = old.inst /\ new.provider = old.provider /\ new.status = "down"
        /\ new \in DeploymentEntry
    BY <2>1 DEF DeploymentEntry, Status
  <2>3. new # NoRow /\ old # NoRow
    BY <2>1, <2>2, DeploymentIndexAssumption DEF DeploymentEntry, Status
  <2>4. old.inst = i
    BY <1>1, <2>3, WriteOwn DEF FileInv, Calm
  <2>5. RowIn(index', d, i) /\ RowIn(index, d, i)
    BY <2>2, <2>3, <2>4 DEF RowIn
  <2>6. new.provider = job[c].provider
    BY <1>10, <2>2, <2>5 DEF Home, KnownRow
  <2>7. Told("down", Running(i, job[c].provider))
    BY <1>3, <1>10 DEF Ahead, Told
  <2>8. Agree(i)'
    BY <1>7, <1>10, <2>2, <2>5, <2>6, <2>7
  <2> QED BY <1>2, <2>8 DEF Home, KnownRow
<1>11. \/ new = NoRow /\ job[c].op = "destroy"
       \/ /\ job[c].op = "up"
          /\ new = [inst |-> job[c].inst, provider |-> job[c].provider,
                    status |-> job[c].want]
       \/ /\ job[c].op = "down" /\ snap[c][d] \in DeploymentEntry
          /\ new = [snap[c][d] EXCEPT !.status = "down"]
  BY <1>1, EditedRows, Zenon DEF FileInv
<1> QED BY <1>8, <1>9, <1>10, <1>11

\* Ctrl+C: an instance that keeps its row runs no longer, and that has been said.
LEMMA EndForegroundHome ==
  ASSUME FileInv, NEW i \in Inst, Calm(i), Home(i), Calm(i)', EndForeground(i),
         Faithful(i)' => Faithful(i)
  PROVE  Home(i)'
<1> DEFINE x == <<i, "macos">>
<1>1. /\ UNCHANGED <<index, pc, job>> /\ x \in Inst \X Provider
      /\ Befall(i, {"ctrlc"} \cup When(Busy(i), "overlap"))
  BY DEF EndForeground
<1>2. ~Busy(i) /\ "ctrlc" \in odd'[i]
  <2>1. Busy(i) => "overlap" \in {"ctrlc"} \cup When(Busy(i), "overlap")
    BY DEF When
  <2>2. Busy(i) => ~InTurn(i)'
    BY <1>1, <2>1, BefallShows DEF InTurn, FileInv
  <2>3. odd'[i] = odd[i] \cup ({"ctrlc"} \cup When(Busy(i), "overlap"))
    BY <1>1 DEF Befall, FileInv, TypeInv, TypeOK
  <2> QED BY <2>2, <2>3 DEF Calm
<1>3. \A b \in Cmd : ~On(b, i) /\ ~On(b, i)'
  BY <1>1, <1>2 DEF Busy, On, Engaged
<1>4. PICK m : m = machine[x] /\ m \in [running : BOOLEAN, state : BOOLEAN]
  BY <1>1 DEF FileInv, TypeInv, TypeOK
<1>5. PICK n : n = [m EXCEPT !.running = FALSE]
  OBVIOUS
<1>6. machine' = [machine EXCEPT ![x] = n]
  BY <1>4, <1>5 DEF EndForeground
<1>7. n.running = FALSE /\ n.state = m.state
  BY <1>4, <1>5
<1>8. /\ machine'[x] = n
      /\ \A l \in Inst, p \in Provider : <<l, p>> # x => machine'[<<l, p>>] = machine[<<l, p>>]
  <2> HIDE DEF x
  <2> QED BY <1>1, <1>6, MachineEffect DEF FileInv
<1>9. \A p \in Provider : /\ Running(i, p)' => Running(i, p)
                          /\ HasState(i, p)' = HasState(i, p)
  BY <1>4, <1>7, <1>8 DEF Running, HasState
<1>10. Agree(i)
  BY <1>3 DEF Home, Untouched
<1>11. Agree(i)'
  BY <1>1, <1>2, <1>9, <1>10, RowType DEF Agree, RowIn, FileInv
<1> QED BY <1>3, <1>11 DEF Home, KnownRow

\* A command begins: nothing changes but that it is there.
LEMMA BeginHome ==
  ASSUME FileInv, NEW i \in Inst, Calm(i), Home(i), Calm(i)', odd[i] \subseteq odd'[i],
         Faithful(i)' => Faithful(i), NEW c \in Cmd, Begins(c, i)
  PROVE  Home(i)'
<1>1. /\ \A b \in Cmd : ~On(b, i) /\ (On(b, i)' => b = c)
      /\ pc'[c] = "provider" /\ UNCHANGED <<index, machine>>
  BY DEF Begins, Busy, On, Engaged, Calm
<1>2. Agree(i)
  BY <1>1 DEF Home, Untouched
<1>3. Agree(i)'
  BY <1>1, <1>2 DEF Agree, RowIn, Running, HasState
<1>4. KnownRow(i)'
  <2>1. CASE /\ job'[c].known /\ RowIn(index, job'[c].id, i)
             /\ \/ index[job'[c].id].provider = job'[c].provider
                \/ job'[c].op = "up" /\ ~Faithful(i)'
    BY <1>1, <2>1 DEF KnownRow, RowIn
  <2>2. CASE /\ ~job'[c].known /\ job'[c].op = "up" /\ index[job'[c].id] = NoRow
    BY <1>1, <2>2 DEF KnownRow, RowIn
  <2> QED BY <2>1, <2>2 DEF Begins
<1> QED BY <1>1, <1>3, <1>4 DEF Home, AtIndex

LEMMA HomeStep ==
  ASSUME FileInv, FileInv', HomeInv, [Next]_vars, NEW i \in Inst, Calm(i)'
  PROVE  Home(i)'
<1>1. /\ Calm(i) /\ Home(i) /\ odd[i] \subseteq odd'[i] /\ InTurn(i)'
      /\ Faithful(i)' => Faithful(i)
  BY NeverGrows, OddStep DEF HomeInv, Calm, Faithful, InTurn, FileInv, TypeInv, TypeOK, OddOK
<1>2. CASE /\ UNCHANGED <<index, pc, job>>
           /\ \A p \in Provider : machine'[<<i, p>>] = machine[<<i, p>>]
  BY <1>1, <1>2, AsideHome DEF SameRows, On, Engaged, FileInv, TypeInv, TypeOK
<1>3. ASSUME NEW k \in Inst, EndForeground(k) PROVE Home(i)'
  <2>1. CASE k = i
    BY <1>1, <1>3, <2>1, EndForegroundHome
  <2>2. CASE k # i
    BY <1>2, <1>3, <2>2 DEF EndForeground, FileInv, TypeInv, TypeOK
  <2> QED BY <2>1, <2>2
<1>4. ASSUME NEW c \in Cmd, NEW k \in Inst, Begins(c, k) PROVE Home(i)'
  <2>1. CASE k = i
    BY <1>1, <1>4, <2>1, BeginHome
  <2>2. CASE k # i
    <3>1. \A b \in Cmd : /\ On(b, i)' <=> On(b, i)
                         /\ On(b, i) => pc'[b] = pc[b] /\ job'[b] = job[b] /\ job[b] \in Job
      BY <1>4, <2>2 DEF Begins, On, Engaged, FileInv, TypeInv, TypeOK
    <3>2. SameRows(index, index', i) /\ UNCHANGED machine
      BY <1>4 DEF Begins, SameRows
    <3> QED BY <1>1, <3>1, <3>2, AsideHome DEF FileInv
  <2> QED BY <2>1, <2>2
<1>5. ASSUME NEW c \in Cmd, Step(c) \/ Crash(c), i # job[c].inst PROVE Home(i)'
  <2>1. /\ SameRows(index, index', i)
        /\ \A b \in Cmd : /\ On(b, i)' <=> On(b, i)
                          /\ On(b, i) => pc'[b] = pc[b] /\ job'[b] = job[b]
    BY <1>1, <1>5, StepAside DEF FileInv
  <2>2. \A p \in Provider : machine'[<<i, p>>] = machine[<<i, p>>]
    BY <1>5 DEF Step, Crash, LaunchFailsEarly, Launch, NothingToStop, Stop, ReadIndex,
                WriteIndex, FileInv, TypeInv, TypeOK
  <2>3. \A b \in Cmd : On(b, i) => job[b] \in Job
    BY DEF On, Engaged, FileInv, TypeInv, TypeOK
  <2> QED BY <1>1, <2>1, <2>2, <2>3, AsideHome DEF FileInv
<1>6. ASSUME NEW c \in Cmd, Step(c) \/ Crash(c), i = job[c].inst PROVE Home(i)'
  <2>1. Advances(c) /\ On(c, i)
    BY <1>6, StepAdvances DEF Advances, On, FileInv
  <2>2. ~Crash(c)
    BY <1>1, <1>6, BefallShows DEF Crash, Calm, FileInv
  <2>3. CASE LaunchFailsEarly(c)
    BY <1>1, <2>1, <2>3, LaunchFailsEarlyHome
  <2>4. CASE Launch(c)
    BY <1>1, <2>1, <2>4, LaunchHome
  <2>5. CASE NothingToStop(c)
    BY <1>1, <2>1, <2>5, NothingToStopHome
  <2>6. CASE Stop(c)
    BY <1>1, <2>1, <2>6, StopHome
  <2>7. CASE ReadIndex(c)
    BY <1>1, <2>1, <2>7, ReadIndexHome
  <2>8. CASE WriteIndex(c)
    BY <1>1, <2>1, <2>8, WriteIndexHome
  <2> QED BY <1>6, <2>2, <2>3, <2>4, <2>5, <2>6, <2>7, <2>8 DEF Step
<1> QED
  BY <1>2, <1>3, <1>4, <1>5, <1>6, BeginUpBegins, BeginDownBegins DEF Next, vars, FileInv

LEMMA HomeInvariant == Spec => [](FileInv /\ HomeInv)
<1>1. Init => HomeInv
  <2> SUFFICES ASSUME Init PROVE HomeInv
    OBVIOUS
  <2>1. \A d \in Id : \A i : ~RowIn(index, d, i)
    BY DEF Init, RowIn, NoRows
  <2>2. \A c \in Cmd : \A i : ~On(c, i)
    BY DEF Init, On, Engaged
  <2>3. \A i \in Inst, p \in Provider : ~Running(i, p)
    BY DEF Init, Running
  <2> QED BY <2>1, <2>2, <2>3 DEF HomeInv, Home, KnownRow, Agree
<1>2. FileInv /\ FileInv' /\ HomeInv /\ [Next]_vars => HomeInv'
  BY HomeStep DEF HomeInv
<1> QED BY <1>1, <1>2, FileInvariant, PTL DEF Spec

\* A command that is not there has changed nothing.
LEMMA QuietAgree ==
  ASSUME HomeInv, NEW i \in Inst, Calm(i), Quiet(i) PROVE Agree(i)
BY DEF HomeInv, Home, Quiet, Busy, Untouched, On, Engaged

(***************************************************************************)
(* What runs on the machine has a row, with the provider it runs under, so *)
(* `down`, `status` and `logs` find it, whatever the commands on the other *)
(* instances do to the same file: every launch that started something      *)
(* writes the row or adds it (updateDeployment, addDeployment).            *)
(***************************************************************************)
THEOREM RegisteredHolds == Spec => []Registered
<1>1. HomeInv => Registered
  <2> SUFFICES ASSUME HomeInv, NEW i \in Inst, NEW p \in Provider, Calm(i),
                      Faithful(i), machine[<<i, p>>].running, Quiet(i)
               PROVE  \E d \in RowsOf(i) : index[d].provider = p
    BY DEF Registered, Calm, Faithful, Never
  <2>1. Agree(i)
    BY QuietAgree
  <2> QED BY <2>1 DEF Agree, Running, RowIn, RowsOf, Rows
<1> QED BY <1>1, HomeInvariant, PTL

(***************************************************************************)
(* The status of a row is what the machine shows: nothing runs under       *)
(* "down", something runs under "up" and "unhealthy", also when the        *)
(* instance has changed its provider.                                      *)
(***************************************************************************)
THEOREM StatusTrueHolds == Spec => []StatusTrue
<1>1. FileInv /\ HomeInv => StatusTrue
  <2> SUFFICES ASSUME FileInv, HomeInv, NEW d \in Rows,
                      odd[index[d].inst] \subseteq {"switched"}, Quiet(index[d].inst)
               PROVE  Told(index[d].status, Running(index[d].inst, index[d].provider))
    BY DEF StatusTrue, Told, Running
  <2>1. index[d].inst \in Inst /\ d \in Id /\ RowIn(index, d, index[d].inst)
    BY DEF Rows, RowIn, FileInv, TypeInv, TypeOK, Index, DeploymentEntry
  <2>2. Calm(index[d].inst)
    BY DEF Calm, InTurn, Never
  <2>3. Agree(index[d].inst)
    BY <2>1, <2>2, QuietAgree
  <2> QED BY <2>1, <2>3 DEF Agree
<1> QED BY <1>1, HomeInvariant, PTL

(***************************************************************************)
(* A row has provider state behind it: `down --destroy` removes the row of *)
(* the state it drops, and a launch saves its state before its row.        *)
(***************************************************************************)
THEOREM RowsHaveStateHolds == Spec => []RowsHaveState
<1>1. FileInv /\ HomeInv => RowsHaveState
  <2> SUFFICES ASSUME FileInv, HomeInv, NEW d \in Rows, Calm(index[d].inst),
                      Quiet(index[d].inst)
               PROVE  HasState(index[d].inst, index[d].provider)
    BY DEF RowsHaveState, HasState, Calm
  <2>1. index[d].inst \in Inst /\ d \in Id /\ RowIn(index, d, index[d].inst)
    BY DEF Rows, RowIn, FileInv, TypeInv, TypeOK, Index, DeploymentEntry
  <2>2. Agree(index[d].inst)
    BY <2>1, QuietAgree
  <2> QED BY <2>1, <2>2 DEF Agree
<1> QED BY <1>1, HomeInvariant, PTL
=============================================================================
