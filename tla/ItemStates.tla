----------------------------- MODULE ItemStates -----------------------------
(***************************************************************************)
(* The life of a work item: its states, the table of legal moves, the      *)
(* classes of states the orchestrator decides by, the record it keeps for  *)
(* an item, and transition(), the one place a move is made.                *)
(* (core/orchestrator-types.ts, core/orchestrator.ts)                      *)
(***************************************************************************)
EXTENDS Integers, FiniteSets

CONSTANTS
  Items,          \* the work items of the session
  NoItem,         \* no dependency branch to stack on
  Comments,       \* trusted human comments that may be posted on a PR
  MaxSessions,    \* bound: worker sessions of one item alive or remembered
  MaxCommits,     \* bound: commits on one item's branch
  Events          \* which of the optional events below may happen in this instance

ASSUME ItemsAssumption == IsFiniteSet(Items) /\ Items # {} /\ NoItem \notin Items
ASSUME BoundsAssumption == MaxSessions \in Nat \ {0} /\ MaxCommits \in Nat \ {0}

\* What an instance may leave out: faults, human acts, operator commands.
EventNames == {"external-merge", "approval", "comment", "no-new-info", "pushback",
               "feedback-done", "session-death", "helper-death", "ci-failure",
               "main-ci-failure", "conflict", "request-changes", "blind-poll", "timeout",
               "close-failure", "launch-failure", "review-launch-failure", "merge-failure",
               "existing-pr", "headless", "strategy", "skip-review", "intake", "limit",
               "crash", "shutdown", "hold"}

ASSUME EventsAssumption == Events \subseteq EventNames

States == {"queued", "ready", "launching", "implementing", "ci-pending", "ci-passed",
           "ci-failed", "rebasing", "reviewing", "review-pending", "merging", "merged",
           "forward-fix-pending", "fix-forward-failed", "fixing-forward",
           "done", "blocked", "stuck"}

\* STATE_TRANSITIONS
Successors(state) ==
  CASE state = "queued"         -> {"ready"}
    [] state = "ready"          -> {"launching", "queued"}
    [] state = "launching"      -> {"implementing", "stuck", "ready", "queued", "blocked",
                                    "ci-pending"}
    [] state = "implementing"   -> {"ci-pending", "merged", "stuck", "ready"}
    [] state = "ci-pending"     -> {"ci-passed", "ci-failed", "merged", "stuck", "rebasing"}
    [] state = "ci-passed"      -> {"reviewing", "review-pending", "merging", "ci-pending",
                                    "ci-failed", "stuck", "merged"}
    [] state = "ci-failed"      -> {"ci-pending", "ci-passed", "stuck", "ready", "merged",
                                    "rebasing"}
    [] state = "rebasing"       -> {"ci-pending", "stuck"}
    [] state = "reviewing"      -> {"ci-passed", "ci-failed", "ci-pending", "review-pending",
                                    "merged"}
    [] state = "review-pending" -> {"ci-pending", "ci-passed", "ci-failed", "merging", "merged",
                                    "stuck", "reviewing", "rebasing", "ready"}
    [] state = "merging"        -> {"merged", "ci-passed", "ci-pending", "review-pending",
                                    "stuck"}
    [] state = "merged"         -> {"forward-fix-pending", "fix-forward-failed", "done"}
    [] state = "forward-fix-pending" -> {"done", "fix-forward-failed"}
    [] state = "fix-forward-failed"  -> {"fixing-forward", "stuck", "done"}
    [] state = "fixing-forward" -> {"done", "ci-pending", "merged", "stuck"}
    [] OTHER                    -> {}

\* ACTIVE_SESSION_STATES: the states that hold an inflight slot.
ActiveStates == {"launching", "implementing", "ci-pending", "ci-passed", "ci-failed",
                 "rebasing", "reviewing", "review-pending", "merging"}

\* TERMINAL_STATES
TerminalStates == {"done", "blocked", "stuck"}

\* STACKABLE_STATES: states of a dependency another item may be stacked on.
StackableStates == {"ci-passed", "reviewing", "review-pending", "merging"}

\* DEP_DONE_STATES: the code of the dependency is on the default branch.
DependencyDone == {"done", "merged", "forward-fix-pending", "fix-forward-failed"}

Sessions == 1 .. MaxSessions     \* worker sessions of an item; 0 is "no session"
Borrowed == MaxSessions + 1      \* a helper's session taken for the worker's at a restart
Commits  == 0 .. MaxCommits      \* heads of an item's branch; 0 is "unknown"
Feedback == Comments \cup {"review"}   \* what a feedback message may carry

(***************************************************************************)
(* OrchestratorItem.  References to a helper session and the verdict file  *)
(* that goes with it are kept as one flag; times are left to the guards    *)
(* that read them.                                                         *)
(***************************************************************************)
ItemRecord ==
  [ state         : States,
    illegal       : BOOLEAN,            \* transition() threw
    touched       : BOOLEAN,            \* lastTransition is from this step
    pr            : {"none", "work", "repair"},   \* prNumber
    ws            : {0, Borrowed} \cup Sessions,  \* workspaceRef
    retryWs       : {0, Borrowed} \cup Sessions,  \* pendingRetryWorkspaceRef
    parked        : BOOLEAN,            \* sessionParked
    reviewed      : BOOLEAN,            \* reviewCompleted
    lastReviewed  : Commits,            \* lastReviewedCommitSha
    lastApproved  : Commits,            \* lastApprovedCommitSha
    needsFeedback : BOOLEAN,            \* needsFeedbackResponse
    feedback      : SUBSET Feedback,    \* pendingFeedbackMessage
    armed         : BOOLEAN,            \* pendingFeedbackLiveDeliveryArmed
    batch         : SUBSET Comments,    \* pendingFeedbackBatch.comments
    due           : BOOLEAN,            \* its debounce deadline has passed
    checked       : BOOLEAN,            \* lastCommentCheck is set
    since         : SUBSET Comments,    \* comments no later than the next fetch's since
    needsCiFix    : BOOLEAN,
    ciNotified    : BOOLEAN,            \* ciFailureNotified
    notifiedAt    : Commits,            \* ciFailureNotifiedAt
    lastCommit    : Commits,            \* lastCommitTime
    rebaseRequested : BOOLEAN,
    nudged        : {-1} \cup Commits,  \* lastRebaseNudgeAt; -1 is "never"
    nudgedTwice   : BOOLEAN,            \* rebaseNudgeCount >= 1
    rebaseAttempts : Nat,
    retries       : Nat,                \* retryCount
    ciFails       : Nat,                \* ciFailCount
    mergeFails    : Nat,
    round         : Nat,                \* reviewRound
    fixFails      : Nat,                \* fixForwardFailCount
    notAlive      : Nat,
    graced        : BOOLEAN,            \* ciPendingSince is set
    reviewWs      : BOOLEAN,            \* reviewWorkspaceRef, reviewVerdictPath
    rebaserWs     : BOOLEAN,
    fixWs         : BOOLEAN,            \* fixForwardWorkspaceRef
    mergeSha      : BOOLEAN,            \* mergeCommitSha is known
    base          : Items \cup {NoItem} ]   \* baseBranch

\* addItem
NewItem ==
  [ state |-> "queued", illegal |-> FALSE, touched |-> FALSE, pr |-> "none", ws |-> 0, retryWs |-> 0,
    parked |-> FALSE, reviewed |-> FALSE, lastReviewed |-> 0, lastApproved |-> 0,
    needsFeedback |-> FALSE, feedback |-> {}, armed |-> FALSE, batch |-> {}, due |-> FALSE,
    checked |-> FALSE, since |-> {}, needsCiFix |-> FALSE, ciNotified |-> FALSE, notifiedAt |-> 0, lastCommit |-> 0,
    rebaseRequested |-> FALSE, nudged |-> -1, nudgedTwice |-> FALSE, rebaseAttempts |-> 0,
    retries |-> 0, ciFails |-> 0, mergeFails |-> 0, round |-> 0, fixFails |-> 0,
    notAlive |-> 0, graced |-> FALSE, reviewWs |-> FALSE, rebaserWs |-> FALSE,
    fixWs |-> FALSE, mergeSha |-> FALSE, base |-> NoItem ]

(***************************************************************************)
(* transition(): nothing on a self-move; an illegal move throws, and the   *)
(* record only remembers that it did; otherwise the flags that every move  *)
(* clears, the CI grace mark of a PR that has just been opened, and the    *)
(* side effects of the state entered.                                      *)
(***************************************************************************)
Moved(it, to) ==
  IF it.state = to THEN it
  ELSE IF to \notin Successors(it.state) THEN [it EXCEPT !.illegal = TRUE]
  ELSE [it EXCEPT
          !.state = to,
          !.touched = TRUE,
          !.rebaseRequested = FALSE,
          !.parked = FALSE,
          !.graced = /\ to = "ci-pending"
                     /\ @ \/ it.state \in {"implementing", "launching"},
          !.reviewed = @ /\ to # "ci-failed",
          !.ciNotified = @ /\ to \notin {"ci-pending", "ci-passed"},
          !.notifiedAt = IF to \in {"ci-pending", "ci-passed"} THEN 0 ELSE @]

\* The inflight count (activeItemCount) over a map of item records.
ActiveItems(records) == {i \in DOMAIN records : records[i].state \in ActiveStates}
=============================================================================
