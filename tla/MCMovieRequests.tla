-------------------------- MODULE MCMovieRequests --------------------------
(* Two tasks at a time, over at most two requests of the movie. *)
EXTENDS MovieRequests, TLC

\* Tasks differ in nothing but their names; for runs without liveness.
TaskSymmetry == Permutations(Tasks)

\* For the runs that show what happens even though no handler is dropped.
ServedSpec == MovieInit /\ [][Served]_movieVars
=============================================================================
