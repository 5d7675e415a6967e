------------------------------- MODULE Pulls -------------------------------
(***************************************************************************)
(* The poll of one work item's pull request: the two lists of PRs that a   *)
(* poll reads side by side, the calls for the one item when a list fails,  *)
(* what the checks amount to, the three places comments are read from, and *)
(* what the loop takes up from the snapshot.  Every answer is GitHub's at  *)
(* the moment of its call; the PR goes on changing between the calls.      *)
(* (core/gh.ts, core/commands/pr-monitor.ts, core/snapshot.ts,             *)
(* core/orchestrator.ts)                                                   *)
(***************************************************************************)
EXTENDS Integers, Sequences, FiniteSets, FiniteSetsExt, SequencesExt

CONSTANTS
  MaxPulls,      \* bound: PRs ever opened from the item's branch
  MaxComments,   \* bound: comments posted
  MaxSeconds,    \* bound: the clock, in the seconds GitHub stamps comments with
  Budgets        \* bound: how often each kind of event may happen, one record chosen

\* What happens to the PR, the ticks of the clock, and the calls of gh that fail.
Kinds == {"namesake", "open", "report", "end", "check", "human", "agent", "tick", "age",
          "failure"}

ASSUME PullsAssumption ==
  /\ MaxPulls \in Nat \ {0} /\ MaxComments \in Nat /\ MaxSeconds \in Nat \ {0}
  /\ Budgets \subseteq [Kinds -> Nat]

VARIABLES
  pulls,      \* the PRs opened from the branch, oldest first; the place is the number
  check,      \* check -> its state on the head of the youngest PR
  age,        \* of the youngest PR: 0 under 15 seconds, 1 under two minutes, 2 over
  comments,   \* the comments posted, oldest first
  clock,      \* the second it is
  reported,   \* PR number in the worker's heartbeat, 0 without one
  item,       \* what the orchestrator keeps of the item
  batch,      \* pendingFeedbackBatch
  relay,      \* the batch handed to the worker last
  told,       \* comments of the batches handed over before it
  poll,       \* the poll under way
  budget      \* how often each kind of event may still happen

github == <<pulls, check, age, comments, clock, reported>>
loop == <<item, batch, relay, told>>
vars == <<pulls, check, age, comments, clock, reported, item, batch, relay, told, poll, budget>>

---------------------------------------------------------------------------
(* What a call finds *)

\* The work item has a lineage token; a PR's body names it, another's, or none.
Tokens == {"mine", "other", "none"}
Pull == [state : {"open", "merged", "closed"}, token : Tokens, ours : BOOLEAN]

Checks == {"build", "Ninthwave / Review"}
CheckStates == {"absent", "PENDING", "SUCCESS", "FAILURE", "SKIPPED", "NEUTRAL"}
NoChecks == [c \in Checks |-> "absent"]

\* The endpoints of a PR's comments, in the order they are asked.
Places == <<"issue", "inline", "review">>
Comment == [place : Range(Places), at : 1 .. MaxSeconds, by : {"human", "agent"}]

Asked  == -1      \* a call that has not been answered
Failed == -2      \* a call that failed
Answer == {Asked, Failed} \cup 0 .. MaxPulls

\* gh pr list --head BRANCH --state STATE: the youngest comes first; 0 if there is none.
Listed(state) ==
  LET found == {n \in DOMAIN pulls : pulls[n].state = state}
  IN  IF found = {} THEN 0 ELSE Max(found)

\* filterRelevantChecks; CI_FAILURE_STATES has only one member here.
Relevant(seen) == {c \in Checks \ {"Ninthwave / Review"} : seen[c] \notin {"absent", "SKIPPED"}}

Green(seen) == \A c \in Relevant(seen) : seen[c] = "SUCCESS"

\* Mutant: checks of which none failed are taken for passed.
ProcessChecksHasty(seen, grace) ==
  IF Relevant(seen) = {} THEN "pass"
  ELSE IF \E c \in Relevant(seen) : seen[c] = "FAILURE" THEN "fail"
  ELSE "pass"

\* processChecks.  A check in a state that is none of the three leaves it unknown.
ProcessChecks(seen, grace) ==
  IF Relevant(seen) = {} THEN IF age < grace THEN "unknown" ELSE "pass"
  ELSE IF Green(seen) THEN "pass"
  ELSE IF \E c \in Relevant(seen) : seen[c] = "FAILURE" THEN "fail"
  ELSE IF \E c \in Relevant(seen) : seen[c] = "PENDING" THEN "pending"
  ELSE "unknown"

---------------------------------------------------------------------------
(* The orchestrator's side *)

States == {"implementing", "ci-pending", "ci-passed", "ci-failed", "rebasing", "merging",
           "merged", "stuck"}

\* EXTERNAL_MERGE_STATES, and the states in which comments are fetched.
ExternalMergeStates == States \ {"rebasing", "merged", "stuck"}
RelayStates == ExternalMergeStates \ {"implementing"}

\* pr is prNumber, since is lastTransition, mark is lastCommentCheck; 0 is undefined.
Item == [state : States, pr : 0 .. MaxPulls, since : 0 .. MaxSeconds, mark : 0 .. MaxSeconds]

Idle == [at |-> "idle", open |-> Asked, merged |-> Asked, viewed |-> Asked, seen |-> NoChecks,
         line |-> "", pr |-> 0, place |-> 1, got |-> {}, calm |-> FALSE, deaf |-> FALSE]

Poll == [at : {"idle", "lists", "open", "merged", "item", "comments", "ingest"},
         open : Answer, merged : Answer, viewed : Answer, seen : [Checks -> CheckStates],
         line : {"", "no-pr", "merged", "open", "pass", "fail", "pending", "unknown"},
         pr : 0 .. MaxPulls, place : 1 .. Len(Places) + 1, got : SUBSET (1 .. MaxComments),
         calm : BOOLEAN,    \* history: every relevant check was green at some moment of it
         deaf : BOOLEAN]    \* its gh pr checks failed

TypeOK ==
  /\ pulls \in Seq(Pull) /\ Len(pulls) <= MaxPulls
  /\ check \in [Checks -> CheckStates]
  /\ age \in 0 .. 2
  /\ comments \in Seq(Comment) /\ Len(comments) <= MaxComments
  /\ clock \in 1 .. MaxSeconds
  /\ reported \in 0 .. Len(pulls)
  /\ item \in Item
  /\ batch \subseteq DOMAIN comments /\ relay \subseteq DOMAIN comments
  /\ told \subseteq DOMAIN comments
  /\ poll \in Poll
  /\ budget \in [Kinds -> Nat]

\* A worker is at work on the branch; GitHub may still list a PR that another work item
\* of the same name, or this one's predecessor without a token, once opened from it.
Init ==
  /\ budget \in Budgets
  /\ \/ pulls = <<>>
     \/ /\ budget["namesake"] > 0
        /\ \E state \in {"merged", "closed"}, token \in {"other", "none"} :
             pulls = <<[state |-> state, token |-> token, ours |-> FALSE]>>
  /\ check = NoChecks /\ age = 0 /\ comments = <<>> /\ clock = 1 /\ reported = 0
  /\ item = [state |-> "implementing", pr |-> 0, since |-> 1, mark |-> 0]
  /\ batch = {} /\ relay = {} /\ told = {}
  /\ poll = Idle

---------------------------------------------------------------------------
(* GitHub, the worker and people *)

Spends(kind) == budget[kind] > 0 /\ budget' = [budget EXCEPT ![kind] = @ - 1]

Happens(kind) == Spends(kind) /\ UNCHANGED loop

\* The poll under way, were it to look at the checks as they are now.
Witnessed == IF poll.at = "idle" THEN poll ELSE [poll EXCEPT !.calm = @ \/ Green(check')]

\* A worker opens a PR, with or without the block that carries the lineage token. It
\* opens no other while one is open, nor when its own has been merged.
OpenPr(token) ==
  /\ item.state = "implementing" /\ Len(pulls) < MaxPulls
  /\ Listed("open") = 0
  /\ \A n \in DOMAIN pulls : pulls[n].ours => pulls[n].state # "merged"
  /\ pulls' = Append(pulls, [state |-> "open", token |-> token, ours |-> TRUE])
  /\ check' = NoChecks /\ age' = 0
  /\ poll' = Witnessed
  /\ UNCHANGED <<comments, clock, reported>>
  /\ Happens("open")

\* nw heartbeat --pr: the worker writes the number of the PR it has just opened.
ReportPr ==
  /\ Listed("open") # 0 /\ reported # Listed("open")
  /\ reported' = Listed("open")
  /\ UNCHANGED <<pulls, check, age, comments, clock, poll>>
  /\ Happens("report")

\* The open PR is merged, by the loop's own call or by a person, or a person closes it.
EndPr(state) ==
  /\ Listed("open") # 0
  /\ pulls' = [pulls EXCEPT ![Listed("open")].state = state]
  /\ UNCHANGED <<check, age, comments, clock, reported, poll>>
  /\ Happens("end")

\* A check of the open PR is registered, starts over, or comes to its conclusion.
CheckRuns(c, state) ==
  /\ Listed("open") # 0 /\ check[c] # state
  /\ check' = [check EXCEPT ![c] = state]
  /\ poll' = Witnessed
  /\ UNCHANGED <<pulls, age, comments, clock, reported>>
  /\ Happens("check")

\* Somebody the repository trusts posts a comment: a person, or an agent under the
\* same account, whose marker humanFeedbackComments() knows.
Post(place, by) ==
  /\ Listed("open") # 0 /\ Len(comments) < MaxComments
  /\ comments' = Append(comments, [place |-> place, at |-> clock, by |-> by])
  /\ UNCHANGED <<pulls, check, age, clock, reported, poll>>
  /\ Happens(by)

\* Seconds in which nothing is posted are not told apart.
Tick ==
  /\ clock < MaxSeconds /\ clock' = clock + 1
  /\ comments # <<>> /\ Last(comments).at = clock
  /\ UNCHANGED <<pulls, check, age, comments, reported, poll>>
  /\ Happens("tick")

PrAges ==
  /\ Listed("open") # 0 /\ age < 2 /\ age' = age + 1
  /\ UNCHANGED <<pulls, check, comments, clock, reported, poll>>
  /\ Happens("age")

World ==
  \/ \E token \in {"mine", "none"} : OpenPr(token)
  \/ ReportPr
  \/ \E state \in {"merged", "closed"} : EndPr(state)
  \/ \E c \in Checks, state \in CheckStates \ {"absent"} : CheckRuns(c, state)
  \/ \E place \in Range(Places), by \in {"human", "agent"} : Post(place, by)
  \/ Tick
  \/ PrAges

---------------------------------------------------------------------------
(* The calls of a poll *)

Polls(next) ==
  /\ poll' = next
  /\ UNCHANGED <<github, loop>>

\* A call is answered, or fails while the bound allows.
Answers == UNCHANGED budget
Fails == Spends("failure")

\* buildSnapshotAsync begins; no state a poll leaves alone is left again here.
StartPoll ==
  /\ poll.at = "idle" /\ item.state \notin {"merged", "stuck"}
  /\ Answers
  /\ Polls([Idle EXCEPT !.at = "lists", !.calm = Green(check)])

\* fetchAllNinthwavePRsAsync: two lists read side by side, in either order. The entry of an
\* open PR carries its checks (normalizeCheckRollup).
FetchOpen ==
  /\ poll.at = "lists" /\ poll.open = Asked
  /\ \/ Answers /\ Polls([poll EXCEPT !.open = Listed("open"), !.seen = check])
     \/ Fails /\ Polls([poll EXCEPT !.open = Failed])

FetchMerged ==
  /\ poll.at = "lists" /\ poll.merged = Asked
  /\ \/ Answers /\ Polls([poll EXCEPT !.merged = Listed("merged")])
     \/ Fails /\ Polls([poll EXCEPT !.merged = Failed])

\* The line checkPrStatusDetailed() writes of the youngest merged PR, or of none.
Settled(p, n) ==
  [p EXCEPT !.at = "comments", !.line = IF n = 0 THEN "no-pr" ELSE "merged", !.pr = n]

\* derivePrStatus: unknown is written as pending.
Derived(p, n, grace) ==
  LET ci == ProcessChecks(p.seen, grace)
  IN  [p EXCEPT !.at = "comments", !.pr = n,
                !.line = IF ci = "unknown" THEN "pending" ELSE ci]

\* detectWorkflowPresence: two minutes where a workflow runs on pull requests, else 15 s.
Graces == {1, 2}

\* With both lists no other call is made for the item; without one it is asked for alone.
JudgeLists ==
  /\ poll.at = "lists" /\ Asked \notin {poll.open, poll.merged}
  /\ Answers
  /\ \/ /\ Failed \in {poll.open, poll.merged}
        /\ Polls([Idle EXCEPT !.at = "open", !.calm = poll.calm])
     \/ /\ Failed \notin {poll.open, poll.merged}
        /\ IF poll.open = 0 THEN Polls(Settled(poll, poll.merged))
           ELSE \E grace \in Graces : Polls(Derived(poll, poll.open, grace))

\* The line of a call that failed before a PR was found: pollFailure writes none.
Blind(p) == [p EXCEPT !.at = "comments", !.line = "", !.pr = 0]

\* prListAsync for the open PRs of the branch.
ListOpen ==
  /\ poll.at = "open"
  /\ \/ /\ Answers
        /\ Polls([poll EXCEPT !.open = Listed("open"),
                              !.at = IF Listed("open") = 0 THEN "merged" ELSE "item"])
     \/ Fails /\ Polls(Blind(poll))

\* prListAsync for the merged ones, when there is no open one.
ListMerged ==
  /\ poll.at = "merged"
  /\ \/ Answers /\ Polls(Settled(poll, Listed("merged")))
     \/ Fails /\ Polls(Blind(poll))

\* prViewAsync and prChecksAsync, side by side.
ViewPr ==
  /\ poll.at = "item" /\ poll.viewed = Asked
  /\ \/ Answers /\ Polls([poll EXCEPT !.viewed = poll.open])
     \/ Fails /\ Polls([poll EXCEPT !.viewed = Failed])

ReadChecks ==
  /\ poll.at = "item" /\ poll.merged = Asked
  /\ \/ Answers /\ Polls([poll EXCEPT !.merged = 0, !.seen = check])
     \/ Fails /\ Polls([poll EXCEPT !.merged = 0, !.deaf = TRUE])

\* A view that failed leaves the PR open and its checks out of account; checks that could
\* not be read count as no checks.
JudgePr ==
  /\ poll.at = "item" /\ Asked \notin {poll.viewed, poll.merged}
  /\ Answers
  /\ \/ /\ poll.viewed = Failed
        /\ Polls([poll EXCEPT !.at = "comments", !.line = "open", !.pr = poll.open])
     \/ /\ poll.viewed # Failed
        /\ \E grace \in Graces : Polls(Derived(poll, poll.open, grace))

---------------------------------------------------------------------------
(* Comments: fetchTrustedPrCommentsAsync *)

\* trustedCommentJq: younger than lastCommentCheck, or than lastTransition when there is
\* none. The latter has milliseconds, so a stamp of the same second sorts after it.
Since(c) ==
  IF item.mark = 0 THEN comments[c].at >= item.since ELSE comments[c].at > item.mark

AtPlace(place) == {c \in DOMAIN comments : comments[c].place = place /\ Since(c)}

SkipComments ==
  /\ poll.at = "comments" /\ poll.place = 1
  /\ item.pr = 0 \/ item.state \notin RelayStates
  /\ Answers
  /\ Polls([poll EXCEPT !.at = "ingest"])

\* The three endpoints one after another; one that fails is passed over in silence.
ReadPlace ==
  /\ poll.at = "comments" /\ item.pr # 0 /\ item.state \in RelayStates
  /\ LET next == [poll EXCEPT !.place = @ + 1,
                              !.at = IF poll.place = Len(Places) THEN "ingest" ELSE @]
     IN  \/ Answers /\ Polls([next EXCEPT !.got = @ \cup AtPlace(Places[poll.place])])
         \/ Fails /\ Polls(next)

\* getRepoOwnerAsync, asked first: without it no endpoint is.
NoOwner ==
  /\ poll.at = "comments" /\ poll.place = 1 /\ item.pr # 0 /\ item.state \in RelayStates
  /\ Fails
  /\ Polls([poll EXCEPT !.at = "ingest"])

---------------------------------------------------------------------------
(* The snapshot, and what the loop takes up from it *)

\* Mutant: the tracked PR counts only with the token in its body.
MergeSeenByToken == poll.line = "merged" /\ pulls[poll.pr].token = "mine"

\* Mutant: any merged PR of the branch is the item's.
MergeSeenByBranch == poll.line = "merged"

\* A merged PR is the item's when its number is tracked or its token is the item's
\* (classifyPrMetadataMatch).
MergeSeen == poll.line = "merged" /\ (poll.pr = item.pr \/ pulls[poll.pr].token = "mine")

\* isBlindPrPoll, restoreTrackedPrSnapshot, and the number in the heartbeat where no PR
\* was found: the PR the snapshot shows as open, 0 if it shows none.
ShownOpen ==
  CASE poll.line \in {"open", "pass", "fail", "pending"} -> poll.pr
    [] poll.line \in {"", "no-pr"} /\ item.pr # 0 ->
         IF item.state = "merging" THEN 0 ELSE item.pr
    [] poll.line \in {"", "no-pr"} /\ item.pr = 0 -> reported
    [] OTHER -> 0

\* interceptExternalMerge
InterceptMerge ==
  /\ poll.at = "ingest" /\ MergeSeen /\ item.state \in ExternalMergeStates
  /\ item' = [item EXCEPT !.state = "merged", !.since = clock,
                          !.pr = IF @ = 0 THEN poll.pr ELSE @]
  /\ UNCHANGED <<batch, relay, told>>

Latest(S) == Max({comments[c].at : c \in S})

\* Mutant: lastCommentCheck is the time of the poll.
MarkNow == IF poll.got = {} THEN item.mark ELSE clock

\* ingestPendingFeedbackBatch: lastCommentCheck is the youngest stamp, an agent's too.
Mark == IF poll.got = {} THEN item.mark ELSE Latest(poll.got)

\* humanFeedbackComments
Humans == {c \in poll.got : comments[c].by = "human"}

\* The batch waits on while comments come in; one that is due goes to the worker.
Feedback ==
  \/ batch' = batch \cup Humans /\ UNCHANGED <<relay, told>>
  \/ /\ batch # {} /\ Humans = {} /\ item.state \in RelayStates
     /\ told' = told \cup relay /\ relay' = batch /\ batch' = {}

\* The moves of the state machine that the PR and its CI bring about, as far as they
\* go without the reviewer and the sessions: a chain of handlers in one step.
Moves ==
  CASE item.state = "implementing" /\ ShownOpen # 0 ->
         {"implementing", "ci-pending"} \cup (IF poll.line = "pass" THEN {"ci-passed", "merging"}
                              ELSE IF poll.line = "fail" THEN {"ci-failed"} ELSE {})
    [] item.state \in {"implementing", "rebasing"} /\ ShownOpen = 0 -> {item.state, "stuck"}
    [] item.state = "rebasing" -> {"rebasing", "ci-pending", "stuck"}
    [] item.state = "merging" -> {"merging", "ci-pending", "stuck"}
    [] OTHER ->
         {item.state, "rebasing", "implementing", "stuck"} \cup
           (IF poll.line = "pass" THEN {"ci-passed", "merging"}
            ELSE IF poll.line = "fail" THEN {"ci-failed"}
            ELSE IF poll.line = "pending" THEN {"ci-pending"} ELSE {})

\* transitionItem: a merge comes first, then the comments, then the state's handler.
Ingest ==
  /\ poll.at = "ingest" /\ ~(MergeSeen /\ item.state \in ExternalMergeStates)
  /\ Feedback
  /\ \E state \in Moves :
       item' = [item EXCEPT !.state = state, !.mark = Mark,
                            !.since = IF state = item.state THEN @ ELSE clock,
                            !.pr = IF item.state = "implementing" /\ ShownOpen # 0
                                   THEN ShownOpen ELSE @]

TakesUp ==
  /\ InterceptMerge \/ Ingest
  /\ poll' = Idle
  /\ UNCHANGED <<github, budget>>

PollStep ==
  \/ StartPoll \/ FetchOpen \/ FetchMerged \/ JudgeLists
  \/ ListOpen \/ ListMerged \/ ViewPr \/ ReadChecks \/ JudgePr
  \/ SkipComments \/ NoOwner \/ ReadPlace
  \/ TakesUp

Next == World \/ PollStep

Spec == Init /\ [][Next]_vars

\* The event loop goes on polling; the world owes nothing.
FairSpec == Spec /\ WF_vars(PollStep)

---------------------------------------------------------------------------
(* Properties *)

\* An item is taken for merged only when a PR opened for it has been merged, whatever
\* PRs of its namesakes GitHub lists for the branch.
OwnMergeOnly ==
  item.state = "merged" => \E n \in DOMAIN pulls : pulls[n].ours /\ pulls[n].state = "merged"

\* A merge of the tracked PR is taken up in the end, however its body reads and whichever
\* calls failed, unless the item has left the states that look for it.
MergeNoticed ==
  \A n \in 1 .. MaxPulls :
    (n \in DOMAIN pulls /\ pulls[n].state = "merged" /\ item.pr = n)
      ~> (item.state \notin ExternalMergeStates)

\* The worker is never told a comment again, nor one older than what it was told.
ToldInTurn == \A d \in told, c \in relay : comments[d].at < comments[c].at

\* A comment the poll asked for and did not get is passed over, for good, only for a
\* comment read elsewhere that is no older, or for one of its own second.
PassedOverForAnother ==
  [][item'.mark # item.mark =>
       \A c \in DOMAIN comments \ poll.got :
         Since(c) /\ comments[c].at <= item'.mark =>
           \E d \in poll.got : /\ comments[d].at >= comments[c].at
                               /\ \/ comments[d].place # comments[c].place
                                  \/ comments[d].at = comments[c].at]_vars

\* Comments are told in turn, and one that is never told has another in its place.
CommentsInTurn == []ToldInTurn /\ PassedOverForAnother

\* CI counts as passed only if, at some moment of the poll, no relevant check was other
\* than green, or the checks could not be read.
PassIsEarned ==
  [][item.state \notin {"ci-passed", "merging"} /\ item'.state \in {"ci-passed", "merging"}
       => poll.calm \/ poll.deaf]_vars
=============================================================================
