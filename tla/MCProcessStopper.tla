------------------------- MODULE MCProcessStopper -------------------------
(* ProcessStopper for two components. *)
EXTENDS ProcessStopper

CONSTANTS web, worker

Two == {web, worker}
=============================================================================
