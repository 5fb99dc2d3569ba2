---------------------------- MODULE SeasonLedger ----------------------------
(***************************************************************************)
(* What the requests of a series promise, without handlers, locks and       *)
(* awaits: a book with an entry per request.  Each change of the book is    *)
(* one step, and a season goes to one open entry at a time, within the      *)
(* quota of the user who pays.                                              *)
(***************************************************************************)
EXTENDS Naturals, FiniteSets

CONSTANTS Users, NoUser, Requests, Seasons, Limit

VARIABLE entry   \* who pays for which seasons, and whether they are still claimed

Blank == [who |-> NoUser, seasons |-> {}, open |-> FALSE]

Entered == {r \in Requests : entry[r] # Blank}

\* Without the entry of r: the seasons that others claim, and what u pays for.
Claimed(r) == UNION {entry[o].seasons : o \in {q \in Entered : q # r /\ entry[q].open}}
Paid(r, u) == Cardinality({p \in (Requests \ {r}) \X Seasons :
                             entry[p[1]].who = u /\ p[2] \in entry[p[1]].seasons})

\* u gets the seasons S in the entry of r.
Grant(r, u, S, open) ==
    /\ S # {}
    /\ entry' = [entry EXCEPT ![r] = [who |-> u, seasons |-> S, open |-> open]]
    /\ open => S \cap Claimed(r) = {}
    /\ Paid(r, u) + Cardinality(S) <= Limit

Enter(r, u, S) == entry[r] = Blank /\ Grant(r, u, S, TRUE)

Change(r, u, S) == entry[r] # Blank /\ Grant(r, u, S, entry[r].open)

\* A completed request claims nothing any more, and is still paid for.
Settle(r) == entry' = [entry EXCEPT ![r].open = FALSE]

\* Declined or removed.
Strike(r) == entry' = [entry EXCEPT ![r] = Blank]

Init == entry = [r \in Requests |-> Blank]

Next == /\ entry' # entry
        /\ \E r \in Requests :
             \/ Settle(r)
             \/ Strike(r)
             \/ \E u \in Users, S \in SUBSET Seasons : Enter(r, u, S) \/ Change(r, u, S)

Spec == Init /\ [][Next]_entry
=============================================================================
