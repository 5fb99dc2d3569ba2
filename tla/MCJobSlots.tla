---------------------------- MODULE MCJobSlots ----------------------------
(* JobSlots on a job table of two heavy and three light jobs: one heavy and *)
(* one light job more than there are slots, so both kinds queue.            *)
EXTENDS JobSlots
=============================================================================
