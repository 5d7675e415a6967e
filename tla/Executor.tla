------------------------------ MODULE Executor ------------------------------
(***************************************************************************)
(* The execution of the actions a poll has planned, one at a time, against *)
(* GitHub, git and the multiplexer.  An action is planned from a snapshot  *)
(* and executed later: it reads the item and the world as they are then.   *)
(* (core/orchestrator-actions.ts)                                          *)
(***************************************************************************)
EXTENDS World, Handlers

CONSTANTS
  Deps,           \* item -> the items it depends on
  MaxMergeRetries, MaxRebaseAttempts

ASSUME ExecutorAssumption ==
  /\ Deps \in [Items -> SUBSET Items]
  /\ MaxMergeRetries \in Nat \ {0}
  /\ MaxRebaseAttempts \in Nat

VARIABLES
  item,      \* the orchestrator's record of each item
  config,    \* the settings the operator changes at run time
  phase,     \* where the event loop is
  todo,      \* items the current pass has not visited yet
  plan,      \* actions planned and not executed yet
  snaps,     \* the poll snapshot
  readyIds,  \* queued items whose dependencies are satisfied (part of the snapshot)
  quiet      \* history: consecutive polls that saw the item's worker not alive

control == <<config, phase, todo, plan, snaps, readyIds, quiet>>

\* The records after a step.  A step that moved an item stamps lastTransition, from which
\* comments are fetched while none has been; an illegal move throws and ends the loop.
Stamped(i, it) ==
  [it EXCEPT !.since = IF it.touched /\ ~it.checked THEN posted[i] ELSE @, !.touched = FALSE]

Commit(records) == item' = [i \in Items |-> Stamped(i, records[i])]

Threw(records) == \E i \in Items : records[i].illegal

Update(i, it) == Commit([item EXCEPT ![i] = it])

\* What a reference names: the item's own session, or the helper's it took over at a restart.
Listed(i, ref) == ref \in live[i] \/ (ref = Borrowed /\ helper[i] # {})

\* closeWorkspace: the session is gone, or the multiplexer refuses; it also refuses a
\* session that has died, except the headless one, which finds its pid file.
CloseRefused(i, ref) ==
  /\ \/ ~Listed(i, ref) /\ "headless" \notin Events /\ UNCHANGED faults
     \/ Listed(i, ref) /\ Fault("close-failure")
  /\ UNCHANGED <<live, helper>>

CloseDone(i, ref) ==
  /\ Listed(i, ref) \/ "headless" \in Events
  /\ live' = [live EXCEPT ![i] = @ \ {ref}]
  /\ \/ (ref # Borrowed \/ helper[i] = {}) /\ UNCHANGED helper
     \/ ref = Borrowed /\ \E h \in helper[i] : helper' = [helper EXCEPT ![i] = @ \ {h}]
  /\ UNCHANGED faults

Close(i, ref, closed) == IF closed THEN CloseDone(i, ref) ELSE CloseRefused(i, ref)

\* The item's own session, if it holds one.
CloseOwn(i, closed) ==
  IF item[i].ws = 0 THEN closed /\ UNCHANGED <<live, helper, faults>> ELSE Close(i, item[i].ws, closed)

\* What a message leaves in the implementer's inbox, if there is a worktree to write to.
Delivered(i, msg) == IF tree[i] THEN inbox[i] \cup (msg \cap Comments) ELSE inbox[i]

---------------------------------------------------------------------------
(* Launching *)

\* validatePickupCandidate: the item's own branch has a merged PR and no open one.
AlreadyMerged(i) == gh[i].pr = "merged" \/ gh[i].kind = "repair"

LaunchBlocked(i) ==
  /\ AlreadyMerged(i)
  /\ Update(i, Moved(item[i], "blocked"))
  /\ UNCHANGED world

\* Mutant: an open PR is always taken up without a worker.
LaunchSkippedAlways(i) ==
  /\ gh[i].pr = "open" /\ gh[i].kind = "work"
  /\ Update(i, Moved([item[i] EXCEPT !.pr = "work"], "ci-pending"))
  /\ UNCHANGED world

\* An open PR and no reason to relaunch: the PR is tracked without a worker.
LaunchSkipped(i) ==
  /\ gh[i].pr = "open" /\ gh[i].kind = "work"
  /\ ~item[i].needsCiFix /\ ~item[i].needsFeedback
  /\ Update(i, Moved([item[i] EXCEPT !.pr = "work"], "ci-pending"))
  /\ UNCHANGED world

\* A dependency finished since the launch was planned is no base any more.
Based(i, base) ==
  [item[i] EXCEPT !.needsCiFix = FALSE,
                  !.base = IF base # NoItem /\ item[base].state \in DependencyDone
                           THEN NoItem ELSE @]

LaunchFailed(i, base) ==
  /\ Fault("launch-failure")
  /\ Update(i, IF item[i].retries < MaxRetries
               THEN Moved([Based(i, base) EXCEPT !.retries = @ + 1], "ready")
               ELSE Moved(Based(i, base), "stuck"))
  /\ UNCHANGED <<gh, head, live, helper, verdict, judged, signals, inbox, heard, posted, tree>>

\* A new session in the item's worktree; its inbox is emptied, then the feedback written.
LaunchDone(i, base) ==
  LET session == CHOOSE n \in Sessions \ live[i] : \A m \in Sessions \ live[i] : n <= m
      told    == IF item[i].needsFeedback THEN item[i].feedback \cap Comments ELSE {}
      hired   == [Based(i, base) EXCEPT !.ws = session]
  IN  /\ Sessions # live[i]
      /\ live' = [live EXCEPT ![i] = @ \cup {session}]
      /\ tree' = [tree EXCEPT ![i] = TRUE]
      /\ inbox' = [inbox EXCEPT ![i] = told]
      /\ Update(i, IF item[i].needsFeedback
                   THEN [hired EXCEPT !.needsFeedback = FALSE, !.feedback = {}, !.armed = FALSE]
                   ELSE hired)
      /\ UNCHANGED <<gh, head, helper, verdict, judged, signals, heard, posted, faults>>

ExecuteLaunch(a) ==
  LET i == a.item
  IN  /\ a.type = "launch"
      /\ \/ LaunchBlocked(i)
         \/ LaunchSkipped(i)
         \/ /\ ~AlreadyMerged(i)
            /\ gh[i].pr = "none" \/ item[i].needsCiFix \/ item[i].needsFeedback
            /\ LaunchFailed(i, a.base) \/ LaunchDone(i, a.base)

\* Mutant: the references are dropped before the session is closed.
ExecuteRetryUnclosed(a) ==
  /\ a.type = "retry"
  /\ Update(a.item, [item[a.item] EXCEPT !.ws = 0, !.retryWs = 0])
  /\ UNCHANGED world

\* executeRetry: a session that does not close is only warned about.
ExecuteRetry(a) ==
  LET i   == a.item
      ref == IF item[i].retryWs # 0 THEN item[i].retryWs ELSE item[i].ws
  IN  /\ a.type = "retry"
      /\ IF ref = 0 THEN UNCHANGED <<item, live, helper, faults>>
         ELSE /\ Update(i, [item[i] EXCEPT !.ws = 0, !.retryWs = 0])
              /\ \E closed \in BOOLEAN : Close(i, ref, closed)
      /\ UNCHANGED <<gh, head, verdict, judged, signals, inbox, heard, posted, tree>>

\* executeWorkspaceClose: a session that does not close keeps its reference.
ExecuteWorkspaceClose(a) ==
  LET i == a.item
  IN  /\ a.type = "workspace-close"
      /\ \E closed \in BOOLEAN :
           /\ CloseOwn(i, closed)
           /\ Update(i, IF closed THEN [item[i] EXCEPT !.ws = 0] ELSE item[i])
      /\ UNCHANGED <<gh, head, verdict, judged, signals, inbox, heard, posted, tree>>

\* executeClean: the reference is dropped whether the session closes or not.
ExecuteClean(a) ==
  LET i == a.item
  IN  /\ a.type = "clean"
      /\ Update(i, [item[i] EXCEPT !.ws = 0])
      /\ \E closed \in BOOLEAN : CloseOwn(i, closed)
      /\ tree' = [tree EXCEPT ![i] = FALSE]
      /\ inbox' = [inbox EXCEPT ![i] = {}]
      /\ UNCHANGED <<gh, head, verdict, judged, signals, heard, posted>>

---------------------------------------------------------------------------
(* Rebasing from the daemon *)

\* daemonRebase: it fails on a conflict, and whenever the worktree is missing or dirty; a
\* branch that is up to date is rebased without a push.
Rebases(i) ==
  {[ok |-> FALSE, pull |-> gh[i], head |-> head[i]]}
  \cup {[ok |-> TRUE, pull |-> Rebased(gh[i]), head |-> n] :
          n \in IF tree[i] /\ gh[i].pr = "open" THEN {head[i] + 1} \cap Commits ELSE {}}
  \cup {[ok |-> TRUE, pull |-> p, head |-> head[i]] :
          p \in IF tree[i] /\ gh[i].mergeable = "yes" THEN {gh[i]} ELSE {}}

\* The branch and the pull request after a rebase.
Rebase(i, r) ==
  /\ gh' = [gh EXCEPT ![i] = r.pull]
  /\ head' = [head EXCEPT ![i] = r.head]

\* A move asked for inside a try: where transition() throws, the item stays where it is.
Tried(it, to) == IF to \in Successors(it.state) THEN Moved(it, to) ELSE it

\* No rebase and no live implementer to ask: a rebaser is launched, a bounded number of times.
EscalateRebase(i) ==
  \/ /\ item[i].rebaseAttempts >= MaxRebaseAttempts
     /\ Update(i, Moved(item[i], "stuck"))
     /\ UNCHANGED world
  \/ /\ item[i].rebaseAttempts < MaxRebaseAttempts /\ item[i].pr # "none"
     /\ Update(i, Tried([item[i] EXCEPT !.rebaserWs = TRUE, !.rebaseAttempts = @ + 1], "rebasing"))
     /\ gh' = [gh EXCEPT ![i].fresh = @ /\ "rebasing" \notin Successors(item[i].state)]
     /\ helper' = [helper EXCEPT ![i] = @ \cup {"rebaser"}]
     /\ UNCHANGED <<head, live, verdict, judged, signals, inbox, heard, posted, tree, faults>>
  \/ /\ item[i].rebaseAttempts < MaxRebaseAttempts
     /\ Fault("launch-failure")
     /\ UNCHANGED <<item, gh, head, live, helper, verdict, judged, signals, inbox, heard, posted, tree>>

ExecuteDaemonRebase(a) ==
  LET i == a.item
  IN  /\ a.type = "daemon-rebase"
      /\ \/ \E r \in Rebases(i) :
              /\ r.ok
              /\ Rebase(i, r)
              /\ Update(i, Moved(item[i], "ci-pending"))
              /\ UNCHANGED <<live, helper, verdict, judged, signals, inbox, heard, posted, tree, faults>>
         \/ ~a.escalate /\ tree[i] /\ item[i].ws # 0 /\ UNCHANGED <<item, world>>
         \/ (a.escalate \/ ~tree[i] \/ item[i].ws = 0) /\ EscalateRebase(i)

---------------------------------------------------------------------------
(* Merging *)

\* Mutant: a PR is always expected on the default branch.
ExpectedBaseMain(i) == NoItem

\* resolveExpectedPrBase
ExpectedBase(i) ==
  IF item[i].base # NoItem /\ item[item[i].base].state \in DependencyDone
  THEN NoItem ELSE item[i].base

\* The PR the item tracks is merged already: a human was faster, or it tracks the old one.
MergeFound(i) ==
  /\ gh[i].pr = "merged" \/ (item[i].pr = "work" /\ gh[i].kind = "repair")
  /\ \E closed \in BOOLEAN :
       /\ CloseOwn(i, closed)
       /\ Update(i, [Moved(item[i], "merged") EXCEPT !.ws = IF closed THEN 0 ELSE @])
  /\ UNCHANGED <<gh, head, verdict, judged, signals, inbox, heard, posted, tree>>

\* The PR sits on another base than the item expects: it is retargeted, and CI awaited.
MergeRetargeted(i, expected) ==
  /\ gh[i].base # expected
  /\ expected # NoItem => gh[expected].pr # "merged"
  /\ gh' = [gh EXCEPT ![i].base = expected]
  /\ Update(i, Moved([item[i] EXCEPT !.base = expected], "ci-pending"))
  /\ UNCHANGED <<head, live, helper, verdict, judged, signals, inbox, heard, posted, tree, faults>>

\* handleDepMergedRetarget: the branch expected is gone, GitHub moved the PR to the default
\* branch; it is rebased, or its worker asked to.
MergeUnstacked(i, expected) ==
  /\ expected # NoItem /\ gh[i].base = NoItem
  /\ \/ gh[expected].pr = "merged" /\ UNCHANGED faults
     \/ Fault("merge-failure")
  /\ \E r \in Rebases(i) : Rebase(i, r)
  /\ Update(i, Moved([item[i] EXCEPT !.base = NoItem], "ci-pending"))
  /\ UNCHANGED <<live, helper, verdict, judged, signals, inbox, heard, posted, tree>>

\* Not retargeted, or stacked on a branch that is not merged: the item waits.
MergeHeld(i, expected) ==
  /\ \/ gh[i].base = expected /\ expected # NoItem /\ UNCHANGED faults
     \/ gh[i].base # expected /\ gh[i].base # NoItem /\ Fault("merge-failure")
  /\ Update(i, Moved(item[i], "ci-passed"))
  /\ UNCHANGED <<gh, head, live, helper, verdict, judged, signals, inbox, heard, posted, tree>>

\* prMerge is refused.  A conflict, a dependency just merged or branch protection call for a
\* rebase; any other refusal is counted.
MergeRefused(i) ==
  /\ \/ /\ gh[i].mergeable = "no" /\ UNCHANGED faults
        /\ \E r \in Rebases(i) : Rebase(i, r)
        /\ Update(i, Moved(item[i], "ci-pending"))
     \/ /\ gh[i].mergeable = "yes" /\ Fault("merge-failure")
        /\ \E r \in Rebases(i) : Rebase(i, r)
        /\ Update(i, Moved(item[i], "ci-pending"))
     \/ /\ gh[i].mergeable = "yes" /\ Fault("merge-failure")
        /\ \A d \in Deps[i] : item[d].state \notin DependencyDone
        /\ LET failed == [item[i] EXCEPT !.mergeFails = @ + 1]
           IN  Update(i, Moved(failed, IF failed.mergeFails >= MaxMergeRetries
                                       THEN "stuck" ELSE "ci-passed"))
        /\ UNCHANGED <<gh, head>>
  /\ UNCHANGED <<live, helper, verdict, judged, signals, inbox, heard, posted, tree>>

(***************************************************************************)
(* The merge.  Active items stacked on this one are restacked onto the     *)
(* default branch (whose push may fail unnoticed), the other active PRs    *)
(* are rebased; where that fails the worker is asked.                      *)
(***************************************************************************)
MergeDone(i) ==
  LET active    == ActiveItems(item) \ {i}
      stacked   == {o \in active : i \in Deps[o] /\ item[o].base # NoItem}
      siblings  == {o \in active \ stacked : item[o].pr # "none"}
      pushable  == {o \in stacked \cup siblings : tree[o] /\ gh[o].pr = "open" /\ head[o] < MaxCommits}
      known     == IF FixForward THEN BOOLEAN ELSE {FALSE}
  IN  /\ gh[i].mergeable = "yes"
      /\ \E closed \in BOOLEAN, sha \in known, restacked \in SUBSET {o \in stacked : tree[o]},
            pushed \in SUBSET pushable :
           /\ pushed \cap stacked \subseteq restacked
           /\ CloseOwn(i, closed)
           /\ gh' = [o \in Items |-> IF o = i THEN Landed(gh[i])
                                     ELSE IF o \in pushed THEN Rebased(gh[o]) ELSE gh[o]]
           /\ head' = [o \in Items |-> IF o \in pushed THEN head[o] + 1 ELSE head[o]]
           /\ Commit([o \in Items |->
                 IF o = i
                 THEN [Moved([item[i] EXCEPT !.mergeFails = 0, !.base = NoItem], "merged")
                         EXCEPT !.ws = IF closed THEN 0 ELSE @, !.mergeSha = @ \/ sha]
                 ELSE IF o \in restacked THEN [item[o] EXCEPT !.base = NoItem] ELSE item[o]])
      /\ UNCHANGED <<verdict, judged, signals, inbox, heard, posted, tree>>

\* GitHub does not answer: the item is held in merging.
MergeUnreachable(i) ==
  /\ Fault("merge-failure")
  /\ UNCHANGED <<item, gh, head, live, helper, verdict, judged, signals, inbox, heard, posted, tree>>

ExecuteMerge(a) ==
  LET i        == a.item
      expected == ExpectedBase(i)
  IN  /\ a.type = "merge"
      /\ \/ MergeUnreachable(i)
         \/ MergeFound(i)
         \/ /\ gh[i].pr = "open" /\ (item[i].pr = "work" => gh[i].kind = "work")
            /\ \/ MergeRetargeted(i, expected)
               \/ MergeUnstacked(i, expected)
               \/ MergeHeld(i, expected)
               \/ expected = NoItem /\ gh[i].base = NoItem /\ (MergeRefused(i) \/ MergeDone(i))

---------------------------------------------------------------------------
(* Messages *)

\* executeNotifyCiFailure: without a worktree there is no one to tell.
ExecuteNotifyCi(a) ==
  LET i == a.item
  IN  /\ a.type = "notify-ci-failure"
      /\ IF tree[i]
         THEN /\ gh' = [gh EXCEPT ![i].agents = @ \cup {"note"}]
              /\ UNCHANGED item
         ELSE /\ Update(i, Moved([item[i] EXCEPT !.needsCiFix = TRUE, !.ws = 0], "ready"))
              /\ UNCHANGED gh
      /\ UNCHANGED <<head, live, helper, verdict, judged, signals, inbox, heard, posted, tree, faults>>

\* executeSendMessage: delivered to the inbox of the worktree, whoever reads it.
ExecuteSend(a) ==
  LET i       == a.item
      settled == item[i].armed /\ item[i].needsFeedback /\ item[i].feedback = a.msg
  IN  /\ a.type = "send-message"
      /\ inbox' = [inbox EXCEPT ![i] = Delivered(i, a.msg)]
      /\ Update(i, IF tree[i] /\ settled
                   THEN [item[i] EXCEPT !.needsFeedback = FALSE, !.feedback = {}, !.armed = FALSE]
                   ELSE item[i])
      /\ UNCHANGED <<gh, head, live, helper, verdict, judged, signals, heard, posted, tree, faults>>

ExecutePostReview(a) ==
  /\ a.type = "post-review"
  /\ gh' = [gh EXCEPT ![a.item].agents = @ \cup {"review"}]
  /\ UNCHANGED <<item, head, live, helper, verdict, judged, signals, inbox, heard, posted, tree, faults>>

\* The signal file is deleted, whenever it was written.
ClearedSignal(type) ==
  CASE type = "clear-no-new-info"   -> "no-new-info"
    [] type = "clear-pushback"      -> "pushback"
    [] type = "clear-feedback-done" -> "feedback-done"
    [] OTHER                        -> "none"

ExecuteClearSignal(a) ==
  /\ ClearedSignal(a.type) \in SignalNames
  /\ signals' = [signals EXCEPT ![a.item] = @ \ {ClearedSignal(a.type)}]
  /\ UNCHANGED <<item, gh, head, live, helper, verdict, judged, inbox, heard, posted, tree, faults>>

---------------------------------------------------------------------------
(* Helper workers *)

\* executeLaunchReview: the verdict file has one name per item, and a launch does not remove
\* it.  A launch that fails leaves the item reviewing, with no reviewer.
ExecuteLaunchReview(a) ==
  LET i == a.item
  IN  /\ a.type = "launch-review"
      /\ \/ /\ Update(i, [item[i] EXCEPT !.reviewWs = TRUE])
            /\ helper' = [helper EXCEPT ![i] = @ \cup {"reviewer"}]
            /\ UNCHANGED faults
         \/ Fault("review-launch-failure") /\ UNCHANGED <<item, helper>>
      /\ UNCHANGED <<gh, head, live, verdict, judged, signals, inbox, heard, posted, tree>>

ExecuteLaunchForwardFixer(a) ==
  LET i == a.item
  IN  /\ a.type = "launch-forward-fixer"
      /\ \/ /\ item[i].mergeSha
            /\ Update(i, [item[i] EXCEPT !.fixWs = TRUE])
            /\ helper' = [helper EXCEPT ![i] = @ \cup {"fixer"}]
            /\ UNCHANGED faults
         \/ ~item[i].mergeSha /\ UNCHANGED <<item, helper, faults>>
         \/ Fault("launch-failure") /\ UNCHANGED <<item, helper>>
      /\ UNCHANGED <<gh, head, live, verdict, judged, signals, inbox, heard, posted, tree>>

\* cleanWorkerWorkspace: the reference is dropped whether the session closes or not.
Dismissed(i, held, name) ==
  \/ helper' = [helper EXCEPT ![i] = IF held THEN @ \ {name} ELSE @] /\ UNCHANGED faults
  \/ held /\ name \in helper[i] /\ Fault("close-failure") /\ UNCHANGED helper

ExecuteCleanHelper(a) ==
  LET i == a.item
  IN  /\ \/ /\ a.type = "clean-review"
            /\ Dismissed(i, item[i].reviewWs, "reviewer")
            /\ Update(i, [item[i] EXCEPT !.reviewWs = FALSE])
            /\ verdict' = [verdict EXCEPT ![i] = IF item[i].reviewWs THEN "none" ELSE @]
         \/ /\ a.type = "clean-rebaser"
            /\ Dismissed(i, item[i].rebaserWs, "rebaser")
            /\ Update(i, [item[i] EXCEPT !.rebaserWs = FALSE])
            /\ UNCHANGED verdict
         \/ /\ a.type = "clean-forward-fixer"
            /\ Dismissed(i, item[i].fixWs, IF "ousted" \in helper[i] THEN "ousted" ELSE "fixer")
            /\ Update(i, [item[i] EXCEPT !.fixWs = FALSE])
            /\ UNCHANGED verdict
      /\ UNCHANGED <<gh, head, live, judged, signals, inbox, heard, posted, tree>>
=============================================================================
