-------------------------- MODULE MCCancelManaged --------------------------
(***************************************************************************)
(* What the doc of `cancel_managed` says of the run it is called on, with   *)
(* a history variable that remembers the call.                              *)
(***************************************************************************)
EXTENDS JobExecutor

VARIABLE asked   \* cancel_managed was called on the run in progress

\* The run has its slot and its work has not returned.
InFlight == {"admitted"} \cup Undecided

Ask(j) == /\ phase[j] \in InFlight
          /\ CancelManaged(j)
          /\ asked' = [asked EXCEPT ![j] = TRUE]

\* The run is remembered until it ends.
Other == /\ \/ \E j \in Jobs : ExecAdmit(j) \/ ExecDefer(j) \/ RunStep(j)
                               \/ DropRun(j)
            \/ ExecStop
         /\ asked' = [j \in Jobs |-> asked[j] /\ phase'[j] \in InFlight \cup Recording]

AskSpec == /\ ExecInit
           /\ asked = [j \in Jobs |-> FALSE]
           /\ [][Other \/ \E j \in Jobs : Ask(j)]_<<execVars, asked>>

-----------------------------------------------------------------------------

\* "the run is recorded as cancelled" (doc of cancel_managed): a run that was
\* cancelled while it held its slot is not recorded as a success or a failure.
CancelIsRecorded ==
    \A j \in Jobs : asked[j] => phase[j] \notin {"recordSuccess", "failedFailure"}
=============================================================================
