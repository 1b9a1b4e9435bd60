--------------------------- MODULE MCCallbackTask ---------------------------
(* Two callers race on one task that fails twice before it is dead, with   *)
(* one progress report and one retry of every delivery.  The run checks    *)
(* liveness, so no symmetry is used.                                       *)
EXTENDS CallbackTask
=============================================================================
