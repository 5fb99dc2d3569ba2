--------------------------- MODULE MCJobExecutor ---------------------------
(* Two heavy jobs, which share one slot: each may queue behind the other. *)
EXTENDS JobExecutor
=============================================================================
