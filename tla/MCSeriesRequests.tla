------------------------- MODULE MCSeriesRequests -------------------------
(* Two tasks at a time, over the requests of two users for two seasons. *)
EXTENDS SeriesRequests, TLC

\* Tasks, users and seasons differ in nothing but their names.
SeriesSymmetry == Permutations(Tasks) \cup Permutations(Users) \cup Permutations(Seasons)
=============================================================================
