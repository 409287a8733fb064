------------------------ MODULE DeploymentLifecycle ------------------------
(***************************************************************************)
(* What a deployment promises its operator, with no files and no           *)
(* processes.  Its data are created once, by one source and with one       *)
(* password (D-49, "generates the value once, then preserves it"); its     *)
(* containers always run with that password and on behalf of that source   *)
(* (D-55 rule 3, no silent adoption); and only `down --destroy` ends it.   *)
(* The promise is void once something has happened that it does not cover; *)
(* that alone touches nothing.                                             *)
(***************************************************************************)
CONSTANTS Source, Password,
          Nothing      \* no data, or no containers

VARIABLES
  data,        \* who created the volumes and with what password
  containers,  \* whom the containers run for and with what password
  void         \* the promise no longer holds

Deployment == [src : Source, pw : Password]

Init == data = Nothing /\ containers = Nothing /\ ~void

Create ==
  /\ data = Nothing
  /\ data' \in Deployment
  /\ containers' \in {containers, data'}

\* Containers come up on the data there are, or start again on them.
Launch == /\ data # Nothing
          /\ containers' = data
          /\ UNCHANGED data

Stop == containers' = Nothing /\ UNCHANGED data

Destroy == data' = Nothing /\ containers' = Nothing

Kept == ~void /\ ~void' /\ (Create \/ Launch \/ Stop \/ Destroy)

Void == ~void /\ void' /\ UNCHANGED <<data, containers>>

Next == Kept \/ Void \/ (void /\ void')

Spec == Init /\ [][Next]_<<data, containers, void>>
=============================================================================
