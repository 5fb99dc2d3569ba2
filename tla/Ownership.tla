----------------------------- MODULE Ownership -----------------------------
(***************************************************************************)
(* What an instance lock promises: one process at a time owns the           *)
(* configuration directory, and the next one only after it.                 *)
(***************************************************************************)
CONSTANT Procs

VARIABLE owners

Init == owners = {}

Take(p) == /\ owners = {}
           /\ owners' = {p}

Give(p) == /\ owners = {p}
           /\ owners' = {}

Next == \E p \in Procs : Take(p) \/ Give(p)

Spec == Init /\ [][Next]_owners
=============================================================================
