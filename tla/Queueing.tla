------------------------------ MODULE Queueing ------------------------------
(***************************************************************************)
(* The queue as the terminal explains it (Display), beside the queue as    *)
(* the loop works it off (Orchestrator).                                   *)
(***************************************************************************)
EXTENDS Orchestrator, Display

\* What the list of items shows of the items of the session.
Listing == [i \in Items |-> MapState(item[i].state)]

\* While its main branch is being verified, a dependency is no longer named.
Unnamed(i) == FixForward /\ \E d \in Deps[i] : Listing[d] = "verifying"

\* The reason the terminal gives for an item in the queue, and the loop's own test, agree at
\* the start of every cycle: without a reason the item is made ready in that cycle, and with
\* one it is not, unless stacked (computeBlockedByInfo, readyIds).
WaitIsExplained ==
  [][phase = "idle" /\ phase' = "poll" =>
       \A i \in Items : item[i].state = "queued" =>
         IF Reason(Deps[i], Listing) = "none" THEN i \in readyIds' \/ Unnamed(i)
         ELSE i \notin readyIds']_vars
=============================================================================
