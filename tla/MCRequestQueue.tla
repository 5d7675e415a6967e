--------------------------- MODULE MCRequestQueue ---------------------------
(* A small instance of RequestQueue for TLC: two calls of one priority, a    *)
(* critical merge and the exempt rate-limit query share one or two slots.    *)
EXTENDS RequestQueue

CONSTANTS merge, poll, status, query

MCRequests == {merge, poll, status, query}

MCPriority == (merge :> 0) @@ (poll :> 2) @@ (status :> 2) @@ (query :> 2)

\* A spent budget that resets later or has reset, and one with a call left.
MCBudgets == {[remaining |-> 0, resetIn |-> 2], [remaining |-> 0, resetIn |-> 0],
              [remaining |-> 1, resetIn |-> 2]}
=============================================================================
