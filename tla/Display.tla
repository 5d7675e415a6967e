------------------------------ MODULE Display ------------------------------
(***************************************************************************)
(* What the terminal calls the state of an item, and the reason it gives   *)
(* for an item that waits in the queue.                                    *)
(* (core/status-render.ts)                                                 *)
(***************************************************************************)
EXTENDS Integers, FiniteSets

\* mapDaemonItemState
MapState(s) ==
  CASE s \in {"merged", "forward-fix-pending"}     -> "verifying"
    [] s \in {"implementing", "launching"}         -> "implementing"
    [] s \in {"ci-failed", "stuck"}                -> "ci-failed"
    [] s = "fix-forward-failed"                    -> "cd-failed"
    [] s \in {"ci-pending", "merging"}             -> "ci-pending"
    [] s \in {"review-pending", "reviewing"}       -> "review"
    [] s \in {"queued", "ready"}                   -> "queued"
    [] s \in {"fixing-forward", "done", "blocked", "rebasing", "ci-passed"} -> s
    [] OTHER                                       -> "in-progress"

\* Mutant: a dependency that failed is not what its dependents wait for.
BlockersHealthy(deps, seen) ==
  {d \in deps : seen[d] \notin {"gone", "done", "verifying", "ci-failed", "cd-failed", "blocked"}}

\* The dependencies, as displayed in "seen", that a queued item still waits for: one that is
\* not in the list, or whose work is on the default branch, does not count.
Blockers(deps, seen) == {d \in deps : seen[d] \notin {"gone", "done", "verifying"}}

\* computeBlockedByInfo
Reason(deps, seen) ==
  LET waits(kinds) == {d \in Blockers(deps, seen) : seen[d] \in kinds}
  IN  IF Blockers(deps, seen) = {} THEN "none"
      ELSE IF waits({"ci-failed", "cd-failed", "blocked"}) # {} THEN "dep-blocked"
      ELSE IF Cardinality(waits({"ci-passed", "review"})) >= 2 THEN "fan-in"
      ELSE IF waits({"queued"}) # {} THEN "dep-not-started"
      ELSE "dep-in-flight"
=============================================================================
