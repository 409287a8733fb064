-------------------------- MODULE MCProcessManager --------------------------
(* Small component graphs for ProcessManager. *)
EXTENDS ProcessManager

CONSTANTS db, api, web

Three == {db, api, web}
NoDeps == [c \in Three |-> {}]

\* api and web are in one batch behind db: api gated on its check.
ForkHealthy == [NoDeps EXCEPT ![api] = {db}]
ForkStarted == [NoDeps EXCEPT ![web] = {db}]

\* api and web each start after the other; both after db, api gated on it.
CycleStarted == [NoDeps EXCEPT ![api] = {web}, ![web] = {api, db}]
=============================================================================
