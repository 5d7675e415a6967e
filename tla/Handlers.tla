------------------------------ MODULE Handlers ------------------------------
(***************************************************************************)
(* The decisions of the orchestrator: what one poll makes of one item.     *)
(* Each handler takes the item's number i, its record it, what the poll    *)
(* saw of it s, and the operator's settings c, and returns the outcomes    *)
(* that are possible: the new record and the actions it asks for.  More    *)
(* than one outcome is possible where the code compares times.             *)
(* (core/orchestrator.ts, core/orchestrator-guards.ts)                     *)
(***************************************************************************)
EXTENDS ItemStates, Sequences

CONSTANTS
  NotAliveThreshold, MaxRetries, MaxCiRetries, MaxReviewRounds, MaxFixForwardRetries,
  FixForward,     \* config.fixForward
  ManualReview    \* items whose work item requires manual review

ASSUME HandlersAssumption ==
  /\ NotAliveThreshold \in Nat \ {0}
  /\ {MaxRetries, MaxCiRetries, MaxReviewRounds, MaxFixForwardRetries} \subseteq Nat
  /\ FixForward \in BOOLEAN
  /\ ManualReview \subseteq Items

Strategies == {"auto", "manual", "bypass"}

(***************************************************************************)
(* ItemSnapshot.  "unknown" is an absent field; head is 0 when no head is  *)
(* read; commits is the number of commits made by the time of the poll,    *)
(* the clock that nudges and commits are compared by.                      *)
(***************************************************************************)
NoSnapshot ==
  [ num |-> "none", pr |-> "unknown", ci |-> "unknown", mergeable |-> "unknown",
    approved |-> FALSE, alive |-> "unknown", head |-> 0, commits |-> 0, fresh |-> FALSE,
    signals |-> {}, new |-> {}, agents |-> {}, known |-> {}, verdict |-> "none",
    main |-> "unknown" ]

Action(type, i) == [type |-> type, item |-> i, msg |-> {}, base |-> NoItem, escalate |-> FALSE]
Send(i, msg)    == [Action("send-message", i) EXCEPT !.msg = msg]

\* Action: msg is set in a message, base in a launch, escalate in a rebase.
Actions == [type : {"retry", "workspace-close", "clean", "clean-review", "clean-rebaser",
                    "clean-forward-fixer", "launch", "launch-review", "launch-forward-fixer",
                    "merge", "daemon-rebase", "notify-ci-failure", "send-message", "post-review",
                    "clear-no-new-info", "clear-pushback", "clear-feedback-done"},
            item : Items, msg : SUBSET Feedback, base : Items \cup {NoItem}, escalate : BOOLEAN]

Outcome(it, acts) == [it |-> it, acts |-> acts]
Only(it, acts)    == {Outcome(it, acts)}
After(acts, outcomes) == {Outcome(o.it, acts \o o.acts) : o \in outcomes}

\* A deadline the code compares with the clock: passed or not, either may be seen.
Passed == IF "timeout" \in Events THEN BOOLEAN ELSE {FALSE}

\* Outcomes that only a passed deadline brings.
Late(outcomes) == IF "timeout" \in Events THEN outcomes ELSE {}

---------------------------------------------------------------------------
(* Liveness, and a new session for a worker that is lost *)

\* checkWorkerLiveness: the counter; at the threshold the worker is dead.
Counted(it, s) ==
  [it EXCEPT !.notAlive = CASE s.alive = "yes" -> 0
                            [] s.alive = "no"  -> IF @ < NotAliveThreshold THEN @ + 1 ELSE @
                            [] OTHER           -> @]

Dead(it, s) == s.alive = "no" /\ Counted(it, s).notAlive >= NotAliveThreshold

\* Mutant: the old session is forgotten.
RelaunchedForgetful(it) == Moved([it EXCEPT !.notAlive = 0, !.ws = 0], "ready")

\* What every relaunch does: the session is set aside for executeRetry to close.
Relaunched(it) ==
  Moved([it EXCEPT !.notAlive = 0, !.retryWs = it.ws, !.ws = 0], "ready")

\* Mutant: one retry too many.
StuckOrRetryOnceMore(i, it) ==
  IF it.retries <= MaxRetries
  THEN Outcome(Relaunched([it EXCEPT !.retries = @ + 1, !.lastCommit = 0]), <<Action("retry", i)>>)
  ELSE Outcome(Moved(it, "stuck"), <<Action("workspace-close", i)>>)

StuckOrRetry(i, it) ==
  IF it.retries < MaxRetries
  THEN Outcome(Relaunched([it EXCEPT !.retries = @ + 1, !.lastCommit = 0]),
               <<Action("retry", i)>>)
  ELSE Outcome(Moved(it, "stuck"), <<Action("workspace-close", i)>>)

\* isRecoverableHeadlessStop, recoverHeadlessWorker: no retry is spent.
Lost(i, it, s) ==
  {StuckOrRetry(i, it)} \cup
  (IF "headless" \in Events /\ it.ws # 0 /\ s.alive # "yes"
   THEN Only(Relaunched([it EXCEPT !.lastCommit = 0]), <<Action("retry", i)>>)
   ELSE {})

RespawnedForCi(i, it) ==
  Outcome(Relaunched([it EXCEPT !.needsCiFix = TRUE]), <<Action("retry", i)>>)

RespawnedForFeedback(i, it, msg) ==
  Outcome(Relaunched([it EXCEPT !.reviewed = FALSE, !.needsFeedback = TRUE,
                                !.feedback = msg, !.armed = FALSE]),
          <<Action("retry", i)>>)

---------------------------------------------------------------------------
(* Human feedback *)

\* headSha ?? lastReviewedCommitSha
StampedReviewed(it, s) == IF s.head # 0 THEN [it EXCEPT !.lastReviewed = s.head] ELSE it

\* A worker waits on unchanged code: the reviewed head is still the head.
Unchanged(it, s) == it.lastReviewed # 0 /\ s.head = it.lastReviewed

\* ingestPendingFeedbackBatch: new comments join the batch, whose deadline moves.  A comment
\* of the orchestrator's own moves the mark if it was made after the last one looked at.
Ingested(it, s) ==
  LET marked == [it EXCEPT !.checked = TRUE, !.since = s.known]
      own    == IF s.agents # {} /\ ~it.checked /\ "comment" \in Events THEN {marked} ELSE {}
  IN  IF s.new = {} THEN {it} \cup own
      ELSE {[marked EXCEPT !.batch = @ \cup s.new, !.due = due] : due \in Passed}

\* reviewCompleted is withdrawn, and an item past review goes back to it.
Reopened(it) ==
  IF it.state \in {"ci-passed", "merging"}
  THEN Moved([it EXCEPT !.reviewed = FALSE], "review-pending")
  ELSE it

\* feedbackBatchDeliveryMode: <<the mode, the record it leaves>>
DeliveryMode(it, s) ==
  IF it.parked THEN <<"relaunch", it>>
  ELSE IF it.state # "review-pending" THEN <<"deliver", it>>
  ELSE IF it.ws = 0 \/ Dead(it, s) THEN <<"relaunch", IF it.ws = 0 THEN it ELSE Counted(it, s)>>
  ELSE <<IF s.alive = "yes" THEN "deliver" ELSE "wait", Counted(it, s)>>

(***************************************************************************)
(* resolvePendingFeedbackBatch.  held: a batch is pending, and the caller  *)
(* stops here.                                                             *)
(***************************************************************************)
Resolved(i, it, s) ==
  LET mode  == DeliveryMode(it, s)
      taken == [StampedReviewed(mode[2], s) EXCEPT
                  !.batch = {}, !.due = FALSE, !.armed = FALSE,
                  !.needsFeedback = TRUE, !.feedback = it.batch]
      open  == IF taken.reviewed THEN [Reopened(taken) EXCEPT !.reviewed = FALSE] ELSE taken
  IN  IF it.batch = {} THEN [held |-> FALSE, it |-> it, acts |-> <<>>]
      ELSE IF ~it.due THEN [held |-> TRUE, it |-> it, acts |-> <<>>]
      ELSE IF mode[1] = "wait" THEN [held |-> TRUE, it |-> mode[2], acts |-> <<>>]
      ELSE IF mode[1] = "relaunch"
      THEN LET o == RespawnedForFeedback(i, taken, it.batch)
           IN  [held |-> TRUE, it |-> o.it, acts |-> o.acts]
      ELSE [held |-> TRUE,
            it   |-> IF open.ws = 0 THEN open
                     ELSE [Counted(open, s) EXCEPT !.armed = s.alive = "yes"],
            acts |-> <<Send(i, it.batch)>>]

\* continuePendingFeedbackHandoff: feedback taken before but not delivered yet.
AwaitsHandoff(it) == it.needsFeedback /\ it.feedback # {}

Handoff(i, it, s) ==
  LET open == Reopened(StampedReviewed(it, s))
  IN  IF open.parked \/ open.ws = 0 THEN RespawnedForFeedback(i, open, it.feedback)
      ELSE IF Dead(open, s) THEN RespawnedForFeedback(i, Counted(open, s), it.feedback)
      ELSE IF s.alive # "yes" THEN Outcome(Counted(open, s), <<>>)
      ELSE Outcome([Counted(open, s) EXCEPT !.armed = TRUE], <<Send(i, it.feedback)>>)

---------------------------------------------------------------------------
(* Rebasing a branch that conflicts *)

\* resetRebaseRetryCooldown
Cooled(it, s) == [it EXCEPT !.rebaseRequested = FALSE, !.nudged = s.commits, !.nudgedTwice = FALSE]

\* updateRebaseTracking: a mergeable PR forgets its nudges, progress restarts them.
Tracked(it, s) ==
  IF it.state \notin {"ci-pending", "ci-passed", "ci-failed", "review-pending", "reviewing"} THEN it
  ELSE IF s.mergeable = "yes"
  THEN [it EXCEPT !.rebaseRequested = FALSE, !.nudged = -1, !.nudgedTwice = FALSE,
                  !.rebaseAttempts = 0]
  ELSE IF it.nudged # -1 /\ it.lastCommit > it.nudged
  THEN [it EXCEPT !.rebaseRequested = FALSE, !.nudged = it.lastCommit, !.nudgedTwice = FALSE]
  ELSE it

\* planRebaseConflictAction: the first nudge at once, the next ones when the last is stale.
RebasePlans(i, it, s) ==
  LET stale  == IF it.nudged = -1 THEN {TRUE} ELSE Passed
      nudged == [it EXCEPT !.nudged = s.commits]
      rebase == Action("daemon-rebase", i)
  IN  IF it.rebaseRequested /\ it.nudged = -1 THEN Only(nudged, <<>>)
      ELSE {IF ~old THEN Outcome(it, <<>>)
            ELSE IF ~it.rebaseRequested
            THEN Outcome([nudged EXCEPT !.rebaseRequested = TRUE, !.nudgedTwice = FALSE], <<rebase>>)
            ELSE Outcome([nudged EXCEPT !.nudgedTwice = TRUE],
                         <<[rebase EXCEPT !.escalate = it.nudgedTwice]>>) : old \in stale}

---------------------------------------------------------------------------
(* Merging *)

\* tryHandleNoNewInfo: the wake was spurious; the feedback behind it is dropped
\* and an approval of this very head counts again.
Spurious(it, s) == "no-new-info" \in s.signals /\ Unchanged(it, s)

NoNewInfo(i, it, s) ==
  LET settled == [it EXCEPT !.batch = {}, !.due = FALSE, !.feedback = {}, !.needsFeedback = FALSE,
                            !.pr = s.num, !.reviewed = @ \/ s.head = it.lastApproved]
      closing == it.ws # 0 /\ ~it.parked
  IN  Outcome(Moved([settled EXCEPT !.parked = @ \/ closing], "review-pending"),
              <<Action("clear-no-new-info", i)>>
              \o IF closing THEN <<Action("workspace-close", i)>> ELSE <<>>)

\* The review gate of evaluateMerge: a review is launched unless the code is the one
\* reviewed last, or the rounds are spent.
ReviewLaunched(i, it, s) ==
  IF it.state = "reviewing" \/ Unchanged(it, s) THEN Outcome(it, <<>>)
  ELSE IF it.round >= MaxReviewRounds THEN Outcome(Moved(it, "stuck"), <<>>)
  ELSE Outcome(Moved([it EXCEPT !.round = @ + 1], "reviewing"), <<Action("launch-review", i)>>)

\* A reviewed item that a human must merge waits, and its worker's session is closed.
ParkedForHuman(i, it) ==
  LET waiting == Moved(it, "review-pending")
  IN  IF waiting.parked THEN Outcome(waiting, <<>>)
      ELSE Outcome([waiting EXCEPT !.parked = TRUE], <<Action("workspace-close", i)>>)

EvaluateMerge(c, i, it, s) ==
  LET batch    == Resolved(i, it, s)
      reviewed == [it EXCEPT !.reviewed = @ \/ c.skipReview]
  IN  IF Spurious(it, s) THEN NoNewInfo(i, it, s)
      ELSE IF AwaitsHandoff(it) THEN Handoff(i, it, s)
      ELSE IF batch.held THEN Outcome(batch.it, batch.acts)
      ELSE IF ~reviewed.reviewed THEN ReviewLaunched(i, it, s)
      ELSE IF i \in ManualReview \/ c.strategy = "manual" THEN ParkedForHuman(i, reviewed)
      ELSE Outcome(Moved(reviewed, "merging"), <<Action("merge", i)>>)

---------------------------------------------------------------------------
(* CI *)

\* CI turned red: the failure is counted, and the worker told or the conflict tackled.
CiFailed(i, it, s) ==
  LET failed == [Moved(it, "ci-failed") EXCEPT !.ciFails = IF @ > MaxCiRetries THEN @ ELSE @ + 1]
  IN  IF s.mergeable = "no" THEN RebasePlans(i, failed, s)
      ELSE Only([failed EXCEPT !.ciNotified = TRUE, !.notifiedAt = it.lastCommit],
                <<Action("notify-ci-failure", i)>>)

HandleCiPending(c, i, it, s) ==
  LET batch == Resolved(i, it, s)
  IN  IF s.ci = "fail"
      THEN IF it.graced   \* ciPendingFailGraceMs: a failure this early may be stale
           THEN CiFailed(i, it, s) \cup Late(Only(it, <<>>))
           ELSE CiFailed(i, it, s)
      ELSE IF s.mergeable = "no" THEN RebasePlans(i, it, s)
      ELSE IF s.ci = "pass" THEN {EvaluateMerge(c, i, Moved(it, "ci-passed"), s)}
      ELSE Only(batch.it, batch.acts)

HandleCiPassed(c, i, it, s) ==
  IF s.ci = "fail" THEN CiFailed(i, it, s)
  ELSE IF s.ci = "pending" THEN Only(Cooled(Moved(it, "ci-pending"), s), <<>>)
  ELSE IF s.mergeable = "no" THEN RebasePlans(i, Moved(it, "ci-pending"), s)
  ELSE {EvaluateMerge(c, i, it, s)}

\* The retry limit: the item is stuck, its worker left parked if it is alive.
CiLimitReached(i, it, s) ==
  LET stuck == [Moved(it, "stuck") EXCEPT !.parked = s.alive = "yes"]
  IN  Outcome(stuck, IF stuck.parked THEN <<>> ELSE <<Action("workspace-close", i)>>)

\* CI stays red: the worker is told once per commit, and replaced when it is dead or silent.
StillFailing(i, it, s) ==
  LET tell  == ~it.ciNotified \/ it.lastCommit # it.notifiedAt
      told  == Counted(IF tell THEN [it EXCEPT !.ciNotified = TRUE, !.notifiedAt = it.lastCommit]
                       ELSE it, s)
      batch == Resolved(i, told, s)
  IN  IF Dead(it, s) THEN {RespawnedForCi(i, told)}
      ELSE {IF silent /\ it.ciNotified THEN RespawnedForCi(i, told)
            ELSE Outcome(batch.it, (IF tell THEN <<Action("notify-ci-failure", i)>> ELSE <<>>)
                                   \o batch.acts) : silent \in Passed}

HandleCiFailed(c, i, it, s) ==
  IF it.ciFails > MaxCiRetries THEN {CiLimitReached(i, it, s)}
  ELSE IF s.ci = "pass" THEN HandleCiPassed(c, i, Moved(it, "ci-passed"), s)
  ELSE IF s.ci = "pending" THEN Only(Cooled(Moved(it, "ci-pending"), s), <<>>)
  ELSE IF s.mergeable = "no" THEN RebasePlans(i, it, s)
  ELSE StillFailing(i, it, s)

---------------------------------------------------------------------------
(* The implementer at work *)

HandleLaunching(i, it, s) ==
  IF s.alive = "yes" THEN Only(Moved(Counted(it, s), "implementing"), <<>>)
  ELSE IF Dead(it, s) THEN {StuckOrRetry(i, Counted(it, s))}
  ELSE Only(Counted(it, s), <<>>)

\* The worker answered feedback without a commit: the gate on unchanged code is lifted.
Answered(it) == [it EXCEPT !.lastReviewed = 0, !.needsFeedback = FALSE, !.feedback = {}]

\* tryHandlePushback: the worker disagrees, and a fresh review round is due.
Disagrees(it, s) == "pushback" \in s.signals /\ Unchanged(it, s)

Pushback(c, i, it, s) ==
  After(<<Action("clear-pushback", i)>>,
        HandleCiPending(c, i, Moved([Answered(it) EXCEPT !.reviewed = FALSE, !.pr = s.num],
                                    "ci-pending"), s))

Addressed(it, s) == "feedback-done" \in s.signals /\ Unchanged(it, s)

\* No PR event to act upon: liveness, timeouts and a worker that waits for feedback.
HandleWorking(i, it, s) ==
  LET counted == IF s.num = "none" \/ s.alive = "yes" THEN Counted(it, s) ELSE it
  IN  IF s.num = "none" /\ Dead(it, s) THEN Lost(i, counted, s)
      ELSE Only(counted, <<>>)
           \cup Late(Lost(i, counted, s)
                     \cup IF AwaitsHandoff(it)
                          THEN {RespawnedForFeedback(i, counted, it.feedback)} ELSE {})

HandleImplementing(c, i, it, s) ==
  IF s.num = "none" \/ s.pr # "open" THEN HandleWorking(i, it, s)
  ELSE IF ~Unchanged(it, s)
  THEN HandleCiPending(c, i, Moved([it EXCEPT !.pr = s.num], "ci-pending"), s)
  ELSE IF Spurious(it, s) THEN {NoNewInfo(i, it, s)}
  ELSE IF Disagrees(it, s) THEN Pushback(c, i, it, s)
  ELSE IF Addressed(it, s)
  THEN After(<<Action("clear-feedback-done", i)>>,
             HandleCiPending(c, i, Moved([Answered(it) EXCEPT !.pr = s.num], "ci-pending"), s))
  ELSE HandleWorking(i, [it EXCEPT !.pr = s.num], s)

---------------------------------------------------------------------------
(* Review *)

\* setSkipReview drained the review of this item.
Drained(c, it) == it.reviewed /\ c.skipReview

\* Back to ci-passed, and from there on.
Reevaluated(c, i, it, s) == EvaluateMerge(c, i, Moved(it, "ci-passed"), s)

\* A conflict is tackled; handleReviewPendingStall then replaces a reviewer that never
\* wrote to the PR.
Stalled(it, s) ==
  /\ s.num # "none"
  /\ "review" \notin s.agents
  /\ it.round < MaxReviewRounds

RestOfReviewPending(c, i, it, s) ==
  LET plans == IF s.mergeable = "no" THEN RebasePlans(i, it, s) ELSE Only(it, <<>>)
      again(o) == Reevaluated(c, i, [o.it EXCEPT !.reviewed = FALSE, !.lastReviewed = 0,
                                                 !.parked = FALSE], s)
      stalled == {Outcome(again(o).it, o.acts \o again(o).acts) : o \in plans}
  IN  plans \cup IF Stalled(it, s) THEN Late(stalled) ELSE {}

\* The worker has not pushed since the review: a dead one is replaced.
AwaitPush(i, it, s) ==
  LET msg == IF it.feedback # {} THEN it.feedback ELSE {"review"}
  IN  IF it.ws = 0 \/ Dead(it, s) THEN RespawnedForFeedback(i, it, msg)
      ELSE Outcome(Counted(it, s), <<>>)

\* What is left once no feedback is pending: merge, CI, the reviewed head.  acts are the
\* actions asked for so far; a relaunch forgets them.
SettledReview(c, i, it, s, acts) ==
  LET mergeable == s.ci = "pass"
                   /\ (s.approved \/ (it.reviewed /\ c.strategy \in {"auto", "bypass"}))
      failed    == [Moved(it, "ci-failed") EXCEPT !.ciFails = IF @ > MaxCiRetries THEN @ ELSE @ + 1]
  IN  IF mergeable
      THEN IF it.ws # 0 THEN Only(it, acts) ELSE After(acts, {EvaluateMerge(c, i, it, s)})
      ELSE IF s.ci = "fail"
      THEN IF it.parked /\ s.mergeable # "no" THEN {RespawnedForCi(i, failed)}
           ELSE After(acts, CiFailed(i, it, s))
      ELSE IF ~it.reviewed /\ Unchanged(it, s) THEN {AwaitPush(i, it, s)}
      ELSE IF ~it.reviewed /\ s.ci = "pending"
      THEN Only(Cooled(Moved(it, "ci-pending"), s), acts)
      ELSE IF ~it.reviewed /\ s.ci = "pass" THEN After(acts, {Reevaluated(c, i, it, s)})
      ELSE After(acts, RestOfReviewPending(c, i, it, s))

\* Feedback first: what was taken but not delivered, then a batch whose time has come.
FeedbackOrReview(c, i, it, s, acts) ==
  LET batch == Resolved(i, it, s)
  IN  IF AwaitsHandoff(it) THEN {Handoff(i, it, s)}
      ELSE IF batch.held THEN Only(batch.it, batch.acts)
      ELSE SettledReview(c, i, it, s, acts)

HandleReviewPending(c, i, it, s) ==
  LET clear    == <<Action("clear-feedback-done", i)>>
      answered == Answered(it)
  IN  IF Drained(c, it) THEN {Reevaluated(c, i, it, s)}
      ELSE IF Spurious(it, s) THEN {NoNewInfo(i, it, s)}
      ELSE IF Disagrees(it, s) THEN Pushback(c, i, it, s)
      ELSE IF ~Addressed(it, s) THEN FeedbackOrReview(c, i, it, s, <<>>)
      ELSE IF s.ci = "pending" THEN Only(Cooled(Moved(answered, "ci-pending"), s), clear)
      ELSE IF s.ci = "pass" THEN After(clear, {Reevaluated(c, i, answered, s)})
      ELSE FeedbackOrReview(c, i, answered, s, clear)

HandleReviewing(c, i, it, s) ==
  LET clean   == <<Action("clean-review", i)>>
      post    == <<Action("post-review", i)>>
      judged  == [it EXCEPT !.lastReviewed = s.head]
      counted == IF it.reviewWs THEN Counted(it, s) ELSE it
      again(it2) == Reevaluated(c, i, it2, s)
  IN  IF s.verdict = "approve"
      THEN After(clean \o post,
                 {again([judged EXCEPT !.reviewed = TRUE, !.lastApproved = s.head])})
      ELSE IF s.verdict = "request-changes"
      THEN Only([Moved(judged, "review-pending") EXCEPT !.feedback = {"review"}], clean \o post)
      ELSE IF Drained(c, it) THEN After(clean, {again(it)})
      ELSE IF it.reviewWs /\ Dead(it, s) THEN After(clean, {again(counted)})
      ELSE IF s.ci = "fail"
      THEN LET failed == [Moved(counted, "ci-failed") EXCEPT
                            !.ciFails = IF @ > MaxCiRetries THEN @ ELSE @ + 1]
           IN  After(clean, IF s.mergeable = "no" THEN RebasePlans(i, failed, s)
                            ELSE Only(failed, <<Action("notify-ci-failure", i)>>))
      ELSE IF s.mergeable = "no"
      THEN After(clean, RebasePlans(i, Moved(counted, "ci-pending"), s))
      ELSE Only(counted, <<>>)

---------------------------------------------------------------------------
(* Rebaser, merge, and what follows a merge *)

HandleRebasing(i, it, s) ==
  LET clean == <<Action("clean-rebaser", i)>>
      count == IF it.rebaserWs THEN Counted(it, s) ELSE it
      idle  == IF s.fresh /\ s.ci # "unknown"
               THEN Outcome(Cooled(Moved(it, "ci-pending"), s), clean)
               ELSE IF it.rebaserWs /\ Dead(it, s) THEN Outcome(Moved(count, "stuck"), clean)
               ELSE Outcome(count, <<>>)
  IN  \* a worker's heartbeat, fresh for a while after it, holds everything
      {idle} \cup IF s.alive = "yes" THEN Only(it, <<>>) ELSE {}

\* Mutant: a merge that is retried does not look at the feedback.
HandleMergingHasty(c, i, it, s) ==
  Only(it, IF s.pr = "open" /\ s.ci = "pass" THEN <<Action("merge", i)>> ELSE <<>>)

HandleMerging(c, i, it, s) ==
  LET batch == Resolved(i, it, s)
  IN  IF AwaitsHandoff(it) THEN {Handoff(i, it, s)}
      ELSE IF batch.held THEN Only(batch.it, batch.acts)
      ELSE Only(it, IF s.pr = "open" /\ s.ci = "pass" THEN <<Action("merge", i)>> ELSE <<>>)

\* Mutant: the fixer is called for at once.
MainFailedAtOnce(it) == Moved([it EXCEPT !.fixFails = 1], "fixing-forward")

\* CI of the merge commit failed on the default branch.
MainFailed(it) ==
  Moved([it EXCEPT !.fixFails = IF @ < MaxFixForwardRetries THEN @ + 1 ELSE @],
        "fix-forward-failed")

HandleMerged(i, it, s) ==
  LET to == IF ~FixForward \/ s.main = "pass" THEN Moved(it, "done")
            ELSE IF s.main = "fail" THEN MainFailed(it)
            ELSE IF it.mergeSha THEN Moved(it, "forward-fix-pending")
            ELSE it
  IN  Only(to, IF it.ws # 0 THEN <<Action("workspace-close", i)>> ELSE <<>>)

HandleForwardFixPending(i, it, s) ==
  IF s.main = "pass" THEN Only(Moved(it, "done"), <<>>)
  ELSE IF s.main = "fail" THEN Only(MainFailed(it), <<>>)
  ELSE Only(it, <<>>) \cup IF s.main = "pending" THEN Late(Only(Moved(it, "done"), <<>>)) ELSE {}

HandleFixForwardFailed(i, it, s) ==
  IF it.fixFails >= MaxFixForwardRetries THEN Only(Moved(it, "stuck"), <<>>)
  ELSE IF s.main = "pass" THEN Only(Moved(it, "done"), <<>>)
  ELSE IF it.mergeSha
  THEN Only(Moved(it, "fixing-forward"), <<Action("launch-forward-fixer", i)>>)
  ELSE Only(it, <<>>)

\* The repair PR becomes the item's pull request, and its counts start again.
Adopted(it, s) ==
  [it EXCEPT !.pr = s.num, !.mergeSha = FALSE, !.reviewed = FALSE, !.round = 0,
             !.checked = FALSE, !.since = s.known, !.ciFails = 0, !.mergeFails = 0,
             !.ciNotified = FALSE, !.notifiedAt = 0, !.rebaseRequested = FALSE, !.notAlive = 0]

HandleFixingForward(c, i, it, s) ==
  LET clean == IF it.fixWs THEN <<Action("clean-forward-fixer", i)>> ELSE <<>>
  IN  IF s.num # "none" /\ s.pr = "merged"
      THEN Only(Moved(Adopted(it, s), "merged"), clean)
      ELSE IF s.num # "none" /\ s.pr = "open"
      THEN HandleCiPending(c, i, Moved(Adopted(it, s), "ci-pending"), s)
      ELSE IF s.main = "pass" THEN Only(Moved(it, "done"), clean)
      ELSE IF it.fixWs /\ Dead(it, s) THEN Only(Moved(Counted(it, s), "stuck"), clean)
      ELSE Only(IF it.fixWs THEN Counted(it, s) ELSE it, <<>>)

---------------------------------------------------------------------------
(* One item, one poll: transitionItem *)

Handled(c, i, it, s) ==
  CASE it.state = "launching"           -> HandleLaunching(i, it, s)
    [] it.state = "implementing"        -> HandleImplementing(c, i, it, s)
    [] it.state = "ci-pending"          -> HandleCiPending(c, i, it, s)
    [] it.state = "ci-passed"           -> HandleCiPassed(c, i, it, s)
    [] it.state = "ci-failed"           -> HandleCiFailed(c, i, it, s)
    [] it.state = "rebasing"            -> HandleRebasing(i, it, s)
    [] it.state = "reviewing"           -> HandleReviewing(c, i, it, s)
    [] it.state = "review-pending"      -> HandleReviewPending(c, i, it, s)
    [] it.state = "merging"             -> HandleMerging(c, i, it, s)
    [] it.state = "merged"              -> HandleMerged(i, it, s)
    [] it.state = "forward-fix-pending" -> HandleForwardFixPending(i, it, s)
    [] it.state = "fix-forward-failed"  -> HandleFixForwardFailed(i, it, s)
    [] it.state = "fixing-forward"      -> HandleFixingForward(c, i, it, s)
    [] OTHER                            -> Only(it, <<>>)

\* interceptExternalMerge: the PR was merged outside the orchestrator.
MergedOutside(it, s) ==
  s.pr = "merged" /\ it.state \in {"implementing", "ci-pending", "ci-passed", "ci-failed",
                                   "review-pending", "reviewing", "merging"}

Intercepted(i, it, s) ==
  Outcome(Moved([it EXCEPT !.pr = IF @ = "none" THEN s.num ELSE @], "merged"),
          <<Action("clean", i)>>
          \o (IF it.reviewWs THEN <<Action("clean-review", i)>> ELSE <<>>)
          \o (IF it.fixWs THEN <<Action("clean-forward-fixer", i)>> ELSE <<>>))

\* A batch that is still pending is tried once more after the handler.
Trailed(i, o, s) ==
  LET batch == Resolved(i, o.it, s)
  IN  IF batch.held THEN Outcome(batch.it, o.acts \o batch.acts) ELSE o

Transitioned(c, i, it, s) ==
  IF MergedOutside(it, s) THEN {Intercepted(i, it, s)}
  ELSE UNION {{Trailed(i, o, s) : o \in Handled(c, i, in, s)} : in \in Ingested(Tracked(it, s), s)}
=============================================================================
