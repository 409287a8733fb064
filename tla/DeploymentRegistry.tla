------------------------- MODULE DeploymentRegistry -------------------------
(***************************************************************************)
(* What the deployment index promises, with no file and no shells: each    *)
(* instance has at most one entry, and a command changes the entry of its  *)
(* own instance in one indivisible step.  An instance that two commands    *)
(* contended for is promised nothing any more; the others still are.       *)
(***************************************************************************)
CONSTANTS Inst, Provider, Status

VARIABLES
  entries,    \* the entries of each instance
  contended   \* the instances that are promised nothing any more

vars == <<entries, contended>>

Entry == [provider : Provider, status : Status]

Init == entries = [i \in Inst |-> {}] /\ contended = {}

\* `up` records what its launch came to, which is never "down".
Record(i) == \E e \in Entry : e.status # "down" /\ entries'[i] = {e}

\* `down` changes the status of an entry and nothing else.
MarkDown(i) == \E e \in entries[i] : entries'[i] = {[e EXCEPT !.status = "down"]}

\* `down --destroy` forgets the deployment.
Forget(i) == entries'[i] = {}

Next ==
  /\ contended \subseteq contended'
  /\ \E i \in Inst :
       /\ i \in contended' \/ Record(i) \/ MarkDown(i) \/ Forget(i)
       /\ \A j \in Inst \ ({i} \cup contended') : entries'[j] = entries[j]

Spec == Init /\ [][Next]_vars
=============================================================================
