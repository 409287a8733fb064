--------------------------- MODULE ProcessStopper ---------------------------
(***************************************************************************)
(* `launchfile down` on the native provider: runDown stops, one after the  *)
(* other, the processes whose pids an `up` left in state.json, and then    *)
(* forgets the pids.                                                       *)
(*                                                                         *)
(* `down` runs in another shell than `up` did. It knows a component only   *)
(* by a pid and a start time, and the operating system goes on meanwhile:  *)
(* processes exit, and a pid that is free is given to someone else. A      *)
(* component is its group's leader and perhaps one child of it. A pid is   *)
(* not given away while a group of that number is left.                    *)
(***************************************************************************)
EXTENDS FiniteSets

CONSTANTS
  Component,   \* the components recorded in state.json
  Nobody       \* no process has the pid

ASSUME ProcessStopperAssumption ==
  Nobody \notin [ours : BOOLEAN, near : BOOLEAN, leads : BOOLEAN, mine : BOOLEAN]

VARIABLES
  holder,  \* the process that has each recorded pid
  child,   \* the components whose leader's child is alive
  saved,   \* the components whose pid is in state.json
  down,    \* is a `down` running
  at,      \* how far it is with each component, or the outcome
  hit,     \* the components by whose pid it has sent a stranger a signal
  odd      \* what has befallen each component that the code does not reckon with

vars == <<holder, child, saved, down, at, hit, odd>>

\* skew: the clock jumped between its start and its record; unsure: the identity
\* check cannot do its work, because `ps` has failed on a process that has the
\* pid, or the pid was given away while the component was being stopped, or to
\* a process whose start time is within the tolerance of the recorded one (it
\* started in the same moment, or after a clock was set back).
Oddity == {"skew", "unsure"}

\* ours: it is the component's; near: it started within the tolerance of the
\* recorded time; leads: it leads a group; mine: the user may signal it.
Process == [ours : BOOLEAN, near : BOOLEAN, leads : BOOLEAN, mine : BOOLEAN]

Outcome == {"stopped", "already-dead", "identity-mismatch", "error"}
Working == {"asked", "near", "far", "unread", "grace"}

TypeOK ==
  /\ holder \in [Component -> Process \cup {Nobody}]
  /\ child \subseteq Component
  /\ saved \subseteq Component
  /\ down \in BOOLEAN
  /\ at \in [Component -> {"recorded"} \cup Working \cup Outcome]
  /\ hit \subseteq Component
  /\ odd \in [Component -> SUBSET Oddity]

-----------------------------------------------------------------------------
Present(c) == holder[c] # Nobody
OursAlive(c) == Present(c) /\ holder[c].ours
Stranger(c) == Present(c) /\ ~holder[c].ours

\* There is a group of the recorded number.
Group(c) == c \in child \/ (Present(c) /\ holder[c].leads)

Init ==
  /\ holder \in [Component ->
       {p \in Process : p.ours /\ p.leads /\ p.mine}]
  /\ child \in SUBSET Component
  /\ saved = Component
  /\ down = FALSE
  /\ at = [c \in Component |-> "recorded"]
  /\ hit = {}
  /\ odd = [c \in Component |-> IF holder[c].near THEN {} ELSE {"skew"}]

\* The identity check of c is at a loss, if `when` holds.
Unsure(c, when) ==
  odd' = IF when THEN [odd EXCEPT ![c] = @ \cup {"unsure"}] ELSE odd

-----------------------------------------------------------------------------
(* The operating system                                                    *)

LeaderExits(c) ==
  /\ Present(c)
  /\ holder' = [holder EXCEPT ![c] = Nobody]
  /\ UNCHANGED <<child, saved, down, at, hit, odd>>

ChildExits(c) ==
  /\ c \in child
  /\ child' = child \ {c}
  /\ UNCHANGED <<holder, saved, down, at, hit, odd>>

\* The pid goes to a process that has nothing to do with the deployment.
Recycle(c) ==
  /\ ~Present(c) /\ ~Group(c)
  /\ \E p \in Process :
       /\ ~p.ours
       /\ holder' = [holder EXCEPT ![c] = p]
       /\ Unsure(c, p.near \/ (down /\ at[c] \in Working))
  /\ UNCHANGED <<child, saved, down, at, hit>>

-----------------------------------------------------------------------------
(* stopProcess                                                             *)

Goto(c, l) == at' = [at EXCEPT ![c] = l]

\* state.json is read; without recorded pids there is nothing to stop.
BeginDown ==
  /\ ~down /\ saved # {}
  /\ down' = TRUE
  /\ at' = [c \in Component |-> "recorded"]
  /\ UNCHANGED <<holder, child, saved, hit, odd>>

\* Faulty: a pid that no process has, or that is not the user's to signal, gets
\* no outcome, and the loop waits on it.
ProbeStalls(c) ==
  /\ down /\ c \in saved /\ at[c] = "recorded"
  /\ \A d \in saved : at[d] \notin Working
  /\ Present(c) /\ holder[c].mine
  /\ Goto(c, "asked")
  /\ UNCHANGED <<holder, child, saved, down, hit, odd>>

\* The liveness probe, kill(pid, 0), on the next component.
Probe(c) ==
  /\ down /\ c \in saved /\ at[c] = "recorded"
  /\ \A d \in saved : at[d] \notin Working
  /\ Goto(c, IF ~Present(c) THEN "already-dead"
             ELSE IF holder[c].mine THEN "asked" ELSE "unread")
  /\ UNCHANGED <<holder, child, saved, down, hit, odd>>

\* Faulty: a verdict that stopProcess has no case for; or the start time is not
\* compared.
checkIdentityDead(c) ==
  /\ down /\ at[c] = "asked"
  /\ Goto(c, IF Present(c) THEN "near" ELSE "dead")
  /\ UNCHANGED <<holder, child, saved, down, hit, odd>>

checkIdentityAlive(c) ==
  /\ down /\ at[c] = "asked"
  /\ Goto(c, IF Present(c) THEN "near" ELSE "unread")
  /\ UNCHANGED <<holder, child, saved, down, hit, odd>>

\* `ps` answers with a start time, or not.
checkIdentity(c) ==
  /\ down /\ at[c] = "asked"
  /\ \/ /\ Present(c)
        /\ Goto(c, IF holder[c].near THEN "near" ELSE "far") /\ UNCHANGED odd
     \/ /\ Goto(c, "unread")
        /\ Unsure(c, Present(c))
  /\ UNCHANGED <<holder, child, saved, down, hit>>

\* Nothing is sent to a process that started at another time.
Mismatch(c) ==
  /\ down /\ at[c] = "far"
  /\ Goto(c, "identity-mismatch")
  /\ UNCHANGED <<holder, child, saved, down, hit, odd>>

\* SIGTERM to the group. What gets it may exit, now or later, or ignore it.
Term(c) ==
  /\ down /\ at[c] \in {"near", "unread"}
  /\ \/ /\ ~Group(c)
        /\ Goto(c, "already-dead") /\ UNCHANGED hit
     \/ /\ Group(c) /\ Stranger(c) /\ ~holder[c].mine
        /\ Goto(c, "error") /\ UNCHANGED hit
     \/ /\ Group(c) /\ (Stranger(c) => holder[c].mine)
        /\ Goto(c, "grace")
        /\ hit' = IF Stranger(c) THEN hit \cup {c} ELSE hit
  /\ UNCHANGED <<holder, child, saved, down, odd>>

\* Faulty: what ignores SIGTERM is not killed.
EscalateNot(c) ==
  /\ down /\ at[c] = "grace"
  /\ Goto(c, "stopped")
  /\ UNCHANGED <<holder, child, saved, down, hit, odd>>

\* The grace period is over; a leader that is still there is what tells
\* whether the group is killed.
Escalate(c) ==
  /\ down /\ at[c] = "grace"
  /\ Goto(c, "stopped")
  /\ IF Present(c) /\ holder[c].mine /\ Group(c)
       THEN /\ holder' = [holder EXCEPT ![c] = Nobody]
            /\ child' = child \ {c}
            /\ hit' = IF Stranger(c) THEN hit \cup {c} ELSE hit
       ELSE UNCHANGED <<holder, child, hit>>
  /\ UNCHANGED <<saved, down, odd>>

\* Every component has an outcome: the pids are forgotten, whatever it was.
Forget ==
  /\ down /\ \A c \in saved : at[c] \in Outcome
  /\ saved' = {}
  /\ down' = FALSE
  /\ UNCHANGED <<holder, child, at, hit, odd>>

Crash ==
  /\ down
  /\ down' = FALSE
  /\ UNCHANGED <<holder, child, saved, at, hit, odd>>

-----------------------------------------------------------------------------
Machine(c) == LeaderExits(c) \/ ChildExits(c) \/ Recycle(c)

stopProcess(c) == Probe(c) \/ checkIdentity(c) \/ Mismatch(c) \/ Term(c) \/ Escalate(c)

Next == \/ \E c \in Component : Machine(c) \/ stopProcess(c)
        \/ BeginDown \/ Forget \/ Crash

Spec == Init /\ [][Next]_vars

\* A `down` that has begun goes on: `ps` answers, the grace period ends.
FairSpec == Spec /\ WF_vars(Forget \/ \E c \in Component : stopProcess(c))

-----------------------------------------------------------------------------
(* Properties                                                              *)

\* Whoever inherits a component's pid gets no signal, whatever befalls the other
\* components, unless its start time is within the tolerance of the record, `ps`
\* failed on that pid, or it inherited the pid between the identity check and
\* the signals: the check is what stands between a stranger and `down`.
StrangersSpared == \A c \in hit : "unsure" \in odd[c]

\* A component whose pid was forgotten is not running, unless the clock jumped
\* between its own start and its record.
ForgottenMeansDead ==
  \A c \in Component \ saved : OursAlive(c) => "skew" \in odd[c]

\* A `down` comes to its end, however many components fail to stop.
DownEnds == down ~> ~down
=============================================================================
