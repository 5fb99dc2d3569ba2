---------------------------- MODULE MCJobTimers ----------------------------
(* JobTimers on one job that every table has (MCJobTimers.cfg), and beside  *)
(* it a job of the media server (MCServerJobs.cfg).                          *)
EXTENDS JobTimers
=============================================================================
