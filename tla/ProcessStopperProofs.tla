------------------------ MODULE ProcessStopperProofs ------------------------
(***************************************************************************)
(* Proofs about ProcessStopper, for any number of components.              *)
(*                                                                         *)
(* Both safety theorems are about what holds of a component until the      *)
(* environment does something to it that the code does not reckon with,    *)
(* which `odd` remembers, whatever befalls the other components.           *)
(* A component that `down` forgets is dead if the clock did not jump       *)
(* between its start and its record, whatever `ps` and the operating       *)
(* system do: an outcome is only ever given to a component whose process   *)
(* is gone, and a process, once gone, does not come back.  That a stranger *)
(* gets no signal needs more: that the identity check can tell it apart,   *)
(* and that its verdict is still true when the signals are sent.           *)
(***************************************************************************)
EXTENDS ProcessStopper, TLAPS

LEMMA TypeInit == Init => TypeOK
BY DEF Init, TypeOK, Process, Oddity

LEMMA TypeStep == TypeOK /\ [Next]_vars => TypeOK'
<1> SUFFICES ASSUME TypeOK, [Next]_vars PROVE TypeOK'
  OBVIOUS
<1>1. CASE UNCHANGED vars
  BY <1>1 DEF vars, TypeOK
<1>2. ASSUME NEW c \in Component, Machine(c) PROVE TypeOK'
  <2>1. CASE LeaderExits(c) \/ ChildExits(c)
    BY <2>1 DEF LeaderExits, ChildExits, TypeOK, Oddity
  <2>2. CASE Recycle(c)
    <3>1. PICK p \in Process :
            /\ holder' = [holder EXCEPT ![c] = p]
            /\ Unsure(c, p.near \/ (down /\ at[c] \in Working))
      BY <2>2 DEF Recycle
    <3>2. odd' \in [Component -> SUBSET Oddity]
      BY <3>1 DEF Unsure, TypeOK, Oddity
    <3> QED BY <2>2, <3>1, <3>2 DEF Recycle, TypeOK
  <2> QED BY <1>2, <2>1, <2>2 DEF Machine
<1>3. ASSUME NEW c \in Component, stopProcess(c) PROVE TypeOK'
  <2>1. CASE Probe(c) \/ checkIdentity(c) \/ Mismatch(c)
    BY <2>1
    DEF Probe, checkIdentity, Mismatch, Goto, Unsure, TypeOK, Working, Outcome, Oddity
  <2>2. CASE Term(c)
    BY <2>2 DEF Term, Goto, TypeOK, Working, Outcome
  <2>3. CASE Escalate(c)
    BY <2>3 DEF Escalate, Goto, TypeOK, Working, Outcome
  <2> QED BY <1>3, <2>1, <2>2, <2>3 DEF stopProcess
<1>4. CASE BeginDown \/ Forget \/ Crash
  BY <1>4 DEF BeginDown, Forget, Crash, TypeOK
<1> QED BY <1>1, <1>2, <1>3, <1>4 DEF Next

(***************************************************************************)
(* Every state is of its type.                                             *)
(***************************************************************************)
THEOREM TypeCorrect == Spec => []TypeOK
<1> QED BY TypeInit, TypeStep, PTL DEF Spec

-----------------------------------------------------------------------------
(* What is forgotten is dead                                               *)

\* What has befallen a component stays with it.
LEMMA OddGrows ==
  ASSUME TypeOK, [Next]_vars, NEW b \in Component
  PROVE  odd[b] \subseteq odd'[b]
<1>1. CASE UNCHANGED vars
  BY <1>1 DEF vars
<1>2. ASSUME NEW c \in Component, Machine(c) PROVE odd[b] \subseteq odd'[b]
  BY <1>2 DEF Machine, LeaderExits, ChildExits, Recycle, Unsure, TypeOK
<1>3. ASSUME NEW c \in Component, stopProcess(c) PROVE odd[b] \subseteq odd'[b]
  BY <1>3 DEF stopProcess, Probe, checkIdentity, Mismatch, Term, Escalate, Unsure, TypeOK
<1>4. CASE BeginDown \/ Forget \/ Crash
  BY <1>4 DEF BeginDown, Forget, Crash
<1> QED BY <1>1, <1>2, <1>3, <1>4 DEF Next

\* A process of ours that the clock did not spoil is as recorded; a component
\* with an outcome, or one the identity check refused, has none left.
DeadInv ==
  \A c \in Component : OursAlive(c) /\ "skew" \notin odd[c] =>
     /\ holder[c].near /\ holder[c].leads /\ holder[c].mine
     /\ down => at[c] \notin Outcome \cup {"far"}
     /\ c \in saved

LEMMA DeadStep ==
  ASSUME TypeOK, DeadInv, [Next]_vars PROVE DeadInv'
<1>0. \A b \in Component : "skew" \notin odd'[b] => "skew" \notin odd[b]
  BY OddGrows
<1>1. CASE UNCHANGED vars
  BY <1>1 DEF vars, DeadInv, OursAlive, Present
<1>2. ASSUME NEW c \in Component, Machine(c) PROVE DeadInv'
  <2>1. \A b \in Component : OursAlive(b)' => OursAlive(b) /\ holder'[b] = holder[b]
    BY <1>2 DEF Machine, LeaderExits, ChildExits, Recycle, OursAlive, Present, TypeOK
  <2>2. UNCHANGED <<saved, down, at>>
    BY <1>2 DEF Machine, LeaderExits, ChildExits, Recycle
  <2> QED BY <1>0, <2>1, <2>2 DEF DeadInv
<1>3. ASSUME NEW c \in Component, stopProcess(c) PROVE DeadInv'
  <2>1. /\ UNCHANGED <<saved, down>>
        /\ \A b \in Component \ {c} : at'[b] = at[b]
        /\ \A b \in Component : holder'[b] \in {holder[b], Nobody}
    BY <1>3
    DEF stopProcess, Probe, checkIdentity, Mismatch, Term, Escalate, Goto, TypeOK
  <2>2. ASSUME OursAlive(c)', "skew" \notin odd'[c]
        PROVE  at'[c] \notin Outcome \cup {"far"}
    <3>1. /\ OursAlive(c) /\ down
          /\ holder[c].near /\ holder[c].leads /\ holder[c].mine
      BY <1>0, <1>3, <2>1, <2>2
      DEF DeadInv, OursAlive, Present, stopProcess, Probe, checkIdentity, Mismatch,
          Term, Escalate
    <3>2. CASE Probe(c) \/ checkIdentity(c)
      BY <3>1, <3>2
      DEF Probe, checkIdentity, Goto, OursAlive, Present, Outcome, TypeOK
    <3>3. CASE Mismatch(c)
      BY <1>0, <2>2, <3>1, <3>3 DEF Mismatch, DeadInv
    <3>4. CASE Term(c)
      BY <3>1, <3>4 DEF Term, Goto, Group, Stranger, OursAlive, Present, Outcome, TypeOK
    <3>5. CASE Escalate(c)
      BY <3>1, <3>5, <2>2
      DEF Escalate, Group, OursAlive, Present, TypeOK
    <3> QED BY <1>3, <3>2, <3>3, <3>4, <3>5 DEF stopProcess
  <2>3. \A b \in Component : OursAlive(b)' => OursAlive(b) /\ holder'[b] = holder[b]
    BY <2>1 DEF OursAlive, Present
  <2> QED BY <1>0, <2>1, <2>2, <2>3 DEF DeadInv
<1>4. CASE BeginDown
  BY <1>4 DEF BeginDown, DeadInv, OursAlive, Present, Outcome
<1>5. CASE Forget
  BY <1>5 DEF Forget, DeadInv, OursAlive, Present
<1>6. CASE Crash
  BY <1>6 DEF Crash, DeadInv, OursAlive, Present
<1> QED BY <1>1, <1>2, <1>3, <1>4, <1>5, <1>6 DEF Next

(***************************************************************************)
(* A component that `down` forgot is not running, unless the clock jumped  *)
(* between its start and its record: runDown may drop every pid because    *)
(* each outcome, an error and a mismatch included, means that the recorded *)
(* process is gone.                                                        *)
(***************************************************************************)
THEOREM ForgottenMeansDeadHolds == Spec => []ForgottenMeansDead
<1>1. Init => TypeOK /\ DeadInv
  BY TypeInit DEF Init, DeadInv, OursAlive, Present
<1>2. TypeOK /\ DeadInv /\ [Next]_vars => (TypeOK /\ DeadInv)'
  BY TypeStep, DeadStep
<1>3. DeadInv => ForgottenMeansDead
  BY DEF DeadInv, ForgottenMeansDead
<1> QED BY <1>1, <1>2, <1>3, PTL DEF Spec

-----------------------------------------------------------------------------
(* Strangers are spared                                                    *)

\* A stranger that the check can tell apart, and that had the pid before the
\* check, is not let through by it, and has had no signal.
SparedInv ==
  \A c \in Component : "unsure" \notin odd[c] =>
     /\ c \notin hit
     /\ Stranger(c) => /\ ~holder[c].near /\ c \notin child
                       /\ down => at[c] \notin {"near", "grace"}
                       /\ down /\ at[c] = "unread" => ~holder[c].mine

LEMMA SparedStep ==
  ASSUME TypeOK, SparedInv, [Next]_vars PROVE SparedInv'
<1> USE ProcessStopperAssumption
<1>0. \A b \in Component : "unsure" \notin odd'[b] => "unsure" \notin odd[b]
  BY OddGrows
<1>1. CASE UNCHANGED vars
  BY <1>1 DEF vars, SparedInv, Stranger, Present
<1>2. ASSUME NEW c \in Component, LeaderExits(c) \/ ChildExits(c) PROVE SparedInv'
  BY <1>2 DEF LeaderExits, ChildExits, SparedInv, Stranger, Present, TypeOK
<1>3. ASSUME NEW c \in Component, Recycle(c) PROVE SparedInv'
  <2>1. /\ UNCHANGED <<child, down, at, hit>> /\ c \notin child
        /\ \A b \in Component \ {c} : holder'[b] = holder[b]
    BY <1>3 DEF Recycle, Group, TypeOK
  <2>2. "unsure" \notin odd'[c] => ~holder'[c].near /\ (down => at[c] \notin Working)
    BY <1>3 DEF Recycle, Unsure, TypeOK
  <2> QED BY <1>0, <2>1, <2>2 DEF SparedInv, Stranger, Present, Working
<1>4. ASSUME NEW c \in Component, stopProcess(c) PROVE SparedInv'
  <2>1. /\ UNCHANGED down /\ down
        /\ \A b \in Component \ {c} : at'[b] = at[b]
        /\ \A b \in Component : holder'[b] \in {holder[b], Nobody}
        /\ child' \subseteq child
    BY <1>4
    DEF stopProcess, Probe, checkIdentity, Mismatch, Term, Escalate, Goto, TypeOK
  <2>2. ASSUME NEW b \in hit', "unsure" \notin odd'[b] PROVE b \notin Component
    <3>1. CASE b \in hit
      BY <1>0, <2>2, <3>1 DEF SparedInv
    <3>2. CASE b \notin hit
      <4>1. b = c /\ Stranger(c)
        BY <1>4, <2>2, <3>2
        DEF stopProcess, Probe, checkIdentity, Mismatch, Term, Escalate
      <4>2. "unsure" \notin odd[c]
        BY <1>0, <2>2, <4>1
      <4>3. at[c] \notin {"near", "grace"} /\ c \notin child
            /\ (at[c] = "unread" => ~holder[c].mine)
        BY <2>1, <4>1, <4>2 DEF SparedInv
      <4> QED BY <1>4, <2>2, <3>2, <4>1, <4>3
              DEF stopProcess, Probe, checkIdentity, Mismatch, Term, Escalate
    <3> QED BY <3>1, <3>2
  <2>3. ASSUME Stranger(c)', "unsure" \notin odd'[c]
        PROVE  at'[c] \notin {"near", "grace"} /\ (at'[c] = "unread" => ~holder[c].mine)
    <3>1. Stranger(c) /\ ~holder[c].near /\ "unsure" \notin odd[c]
      BY <1>0, <2>1, <2>3 DEF SparedInv, Stranger, Present
    <3>2. CASE Probe(c)
      BY <3>1, <3>2 DEF Probe, Goto, TypeOK, Stranger
    <3>3. CASE checkIdentity(c)
      BY <2>3, <3>1, <3>3 DEF checkIdentity, Goto, Unsure, TypeOK, Stranger
    <3>4. CASE Term(c)
      BY <2>1, <3>1, <3>4 DEF Term, Goto, TypeOK, SparedInv
    <3>5. CASE Mismatch(c) \/ Escalate(c)
      BY <3>5 DEF Mismatch, Escalate, Goto, TypeOK
    <3> QED BY <1>4, <3>2, <3>3, <3>4, <3>5 DEF stopProcess
  <2> QED BY <1>0, <2>1, <2>2, <2>3 DEF SparedInv, Stranger, Present
<1>5. CASE BeginDown \/ Forget \/ Crash
  BY <1>0, <1>5 DEF BeginDown, Forget, Crash, SparedInv, Stranger, Present
<1> QED BY <1>1, <1>2, <1>3, <1>4, <1>5 DEF Next, Machine

(***************************************************************************)
(* A stranger that has a component's pid gets no signal if its start can   *)
(* be told from the recorded one, the pid was not given away while the     *)
(* component was being stopped, and `ps` answers for it.                   *)
(***************************************************************************)
THEOREM StrangersSparedHolds == Spec => []StrangersSpared
<1>1. Init => TypeOK /\ SparedInv
  BY TypeInit, ProcessStopperAssumption DEF Init, SparedInv, Stranger, Present
<1>2. TypeOK /\ SparedInv /\ [Next]_vars => (TypeOK /\ SparedInv)'
  BY TypeStep, SparedStep
<1>3. TypeOK /\ SparedInv => StrangersSpared
  BY DEF TypeOK, SparedInv, StrangersSpared
<1> QED BY <1>1, <1>2, <1>3, PTL DEF Spec
=============================================================================
