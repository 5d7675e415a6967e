---------------------------- MODULE Orchestrator ----------------------------
(***************************************************************************)
(* The event loop.  Each cycle takes a snapshot of the world, passes every *)
(* item through its handler, promotes and launches what is ready, and      *)
(* executes the actions planned.  Workers, GitHub, people and the          *)
(* operator act while the loop sleeps, and the world also does while       *)
(* actions run.                                                            *)
(* (core/orchestrator.ts, core/orchestrate-event-loop.ts, core/snapshot.ts)*)
(***************************************************************************)
EXTENDS Executor

CONSTANTS
  Order,         \* the items in the order they were added
  Rank,          \* item -> priority, lower is more urgent
  Stacking,      \* config.enableStacking
  Limits,        \* inflight limits an operator chooses from; the session starts with the largest
  Strategy       \* the merge strategy the session starts with

ASSUME OrchestratorAssumption ==
  /\ Order \in [1 .. Cardinality(Items) -> Items]
  /\ \A i \in Items : \E n \in DOMAIN Order : Order[n] = i
  /\ Rank \in [Items -> Nat]
  /\ Stacking \in BOOLEAN
  /\ Limits \subseteq Nat \ {0}
  /\ \E n \in Limits : \A m \in Limits : m <= n
  /\ Strategy \in Strategies

vars == <<item, control, world>>

\* "down": the process does not run (Recovery).
Phases == {"idle", "poll", "reevaluate", "schedule", "act", "crashed", "down"}

Init ==
  /\ item = [i \in Items |-> NewItem]
  /\ config = [strategy |-> Strategy, skipReview |-> FALSE, accepting |-> TRUE,
               limit |-> CHOOSE n \in Limits : \A m \in Limits : m <= n, reevaluate |-> FALSE]
  /\ phase = "idle"
  /\ todo = <<>>
  /\ plan = <<>>
  /\ snaps = [i \in Items |-> NoSnapshot]
  /\ readyIds = {}
  /\ quiet = [i \in Items |-> 0]
  /\ WorldInit

---------------------------------------------------------------------------
(* The snapshot: buildSnapshotAsync *)

\* dependencySatisfied
Satisfied(it) == it.state = "done" \/ (~FixForward /\ it.state = "merged")

Polled(i) == item[i].state \notin {"queued"} \cup TerminalStates

\* pollTrackedPrStatusAsync: what the poll of the tracked PR finds.  An item in repair is
\* looked up under the names of its repair branches, any other under its own.
LooksForRepair(i) == item[i].state = "fixing-forward" \/ item[i].pr = "repair"

FoundAs(i, repair) ==
  IF gh[i].pr = "none" THEN "none"
  ELSE IF repair THEN IF gh[i].kind = "repair" THEN gh[i].pr ELSE "none"
  ELSE IF gh[i].kind = "repair" THEN "merged" ELSE gh[i].pr

Found(i) == FoundAs(i, LooksForRepair(i))

\* isWorkerAliveWithCache: a reference that is set, and a listed session of the item, its
\* own or any other.
Alive(i) ==
  LET it     == item[i]
      listed == IF live[i] # {} \/ helper[i] # {} THEN "yes" ELSE "no"
      seen(held) == IF held THEN listed ELSE "no"
  IN  CASE it.state \in {"launching", "implementing", "ci-failed"} -> seen(it.ws # 0)
        [] it.state = "review-pending" /\ it.ws # 0               -> listed
        [] it.state = "reviewing" /\ it.reviewWs                  -> listed
        [] it.state = "rebasing" /\ it.rebaserWs                  -> listed
        [] it.state = "fixing-forward" /\ it.fixWs                -> listed
        [] OTHER                                                  -> "unknown"

\* The head of the item's branch, which is in this clone once it has a worktree.
Branch(i) == IF tree[i] THEN head[i] ELSE 0

\* The state of the merge commit is asked for alone once the item awaits it.
Verified(i) == item[i].state \in {"forward-fix-pending", "fix-forward-failed"} /\ item[i].mergeSha

(***************************************************************************)
(* The snapshot of an item, given what the poll of its PR found.  A poll   *)
(* that finds nothing, for an item that has a PR, leaves it open:          *)
(* restoreTrackedPrSnapshot.                                               *)
(***************************************************************************)
Seen(i, found) ==
  LET it      == item[i]
      pull    == gh[i]
      open    == found = "open"
      working == it.state \in {"ci-pending", "ci-passed", "ci-failed", "review-pending", "merging"}
      comments == it.pr # "none" /\ (working \/ it.state = "reviewing")
      pr      == IF found # "none" THEN found
                 ELSE IF it.pr # "none" /\ it.state # "merging" THEN "open" ELSE "unknown"
  IN  IF Verified(i) THEN [NoSnapshot EXCEPT !.num = it.pr, !.main = pull.main]
      ELSE [ num       |-> IF found = "none" THEN it.pr ELSE IF LooksForRepair(i) THEN "repair" ELSE "work",
             pr        |-> pr,
             ci        |-> IF open THEN pull.ci ELSE "unknown",
             mergeable |-> IF open THEN pull.mergeable ELSE "unknown",
             approved  |-> open /\ pull.approved /\ pull.ci = "pass" /\ pull.mergeable = "yes",
             alive     |-> Alive(i),
             head      |-> IF working \/ it.state \in {"implementing", "reviewing"}
                           THEN Branch(i) ELSE 0,
             commits   |-> head[i],
             fresh     |-> pull.fresh,
             signals   |-> IF working \/ it.state \in {"launching", "implementing", "rebasing"}
                           THEN signals[i] ELSE {},
             new       |-> IF comments THEN posted[i] \ it.since ELSE {},
             agents    |-> IF comments THEN pull.agents ELSE {},
             known     |-> posted[i],
             verdict   |-> IF it.state = "reviewing" /\ it.reviewWs THEN verdict[i] ELSE "none",
             main      |-> IF it.state = "merged" \/ pr = "merged" THEN pull.main ELSE "unknown" ]

\* GitHub may not answer for one item.
BlindPolls ==
  \/ UNCHANGED faults /\ snaps' = [i \in Items |-> IF Polled(i) THEN Seen(i, Found(i)) ELSE NoSnapshot]
  \/ /\ Fault("blind-poll")
     /\ \E b \in {i \in Items : Polled(i) /\ Found(i) # "none"} :
          snaps' = [i \in Items |-> IF ~Polled(i) THEN NoSnapshot
                                    ELSE Seen(i, IF i = b THEN "none" ELSE Found(i))]

\* Mutant: the commit of a merge made elsewhere is not looked up.
PollsShaless(i) ==
  [item[i] EXCEPT !.lastCommit = IF item[i].state \in {"launching", "implementing", "ci-failed"}
                                 THEN Branch(i) ELSE @]

\* What the poll writes on the records: the last commit it saw, the merge commit it found.
Polls(i) ==
  [item[i] EXCEPT
     !.lastCommit = IF item[i].state \in {"launching", "implementing", "ci-failed"}
                    THEN Branch(i) ELSE @,
     !.mergeSha = @ \/ (Polled(i) /\ (item[i].state = "merged" \/ snaps'[i].pr = "merged")
                        /\ Found(i) = "merged")]

StartCycle ==
  /\ phase = "idle"
  /\ BlindPolls
  /\ item' = [i \in Items |-> Polls(i)]
  /\ readyIds' = {i \in Items : item[i].state = "queued" /\ \A d \in Deps[i] : Satisfied(item[d])}
  /\ quiet' = [i \in Items |-> IF snaps'[i].alive # "no" THEN 0
                               ELSE IF quiet[i] < NotAliveThreshold THEN quiet[i] + 1 ELSE quiet[i]]
  /\ phase' = "poll"
  /\ todo' = Order
  /\ UNCHANGED <<config, plan, gh, head, live, helper, verdict, judged, signals, inbox, heard, posted, tree>>

---------------------------------------------------------------------------
(* The pass over the items: processTransitions *)

\* An item that has just become stuck takes back what was to be stacked on it.
RolledBack(records, i) ==
  IF Stacking /\ records[i].state = "stuck" /\ item[i].state # "stuck"
  THEN [j \in Items |-> IF records[j].base = i /\ records[j].state \in {"ready", "launching"}
                        THEN [Moved(records[j], "queued") EXCEPT !.base = NoItem]
                        ELSE records[j]]
  ELSE records

\* The next item of the pass, or what follows the pass.
Advance(records, last) ==
  phase' = IF Threw(records) THEN "crashed" ELSE IF Len(todo) > 1 THEN phase ELSE last

Poll ==
  /\ phase = "poll"
  /\ LET i    == Head(todo)
         last == IF config.reevaluate THEN "reevaluate" ELSE "schedule"
     IN  \E o \in Transitioned(config, i, item[i], snaps[i]) :
           LET records == RolledBack([item EXCEPT ![i] = o.it], i)
           IN  /\ Commit(records)
               /\ plan' = plan \o o.acts
               /\ Advance(records, last)
               /\ todo' = IF Len(todo) = 1 /\ last = "reevaluate" THEN Order ELSE Tail(todo)
  /\ UNCHANGED <<config, snaps, readyIds, quiet, world>>

\* setMergeStrategy forced the review-pending items through evaluateMerge once more.
Reevaluate ==
  /\ phase = "reevaluate"
  /\ LET i == Head(todo)
         o == IF item[i].state = "review-pending" /\ snaps[i].ci = "pass"
              THEN EvaluateMerge(config, i, item[i], snaps[i]) ELSE Outcome(item[i], <<>>)
         records == [item EXCEPT ![i] = o.it]
     IN  /\ Commit(records)
         /\ plan' = plan \o o.acts
         /\ Advance(records, "schedule")
  /\ config' = [config EXCEPT !.reevaluate = FALSE]
  /\ todo' = Tail(todo)
  /\ UNCHANGED <<snaps, readyIds, quiet, world>>

\* canStackLaunch: exactly one dependency is not finished, and it may be stacked on.
Unfinished(records, i) == {d \in Deps[i] : ~Satisfied(records[d])}

StackBases(records, i) ==
  {d \in Deps[i] : /\ Stacking
                   /\ Unfinished(records, i) = {d}
                   /\ records[d].fixFails = 0
                   /\ records[d].state \in StackableStates}

\* Queued items become ready, on the default branch or stacked on a dependency.
Promoted(records) ==
  [i \in Items |->
     IF records[i].state # "queued" THEN records[i]
     ELSE IF i \in readyIds THEN Moved(records[i], "ready")
     ELSE IF StackBases(records, i) # {}
     THEN [Moved(records[i], "ready") EXCEPT !.base = CHOOSE d \in StackBases(records, i) : TRUE]
     ELSE records[i]]

Position(i) == CHOOSE n \in DOMAIN Order : Order[n] = i

\* Mutant: the items already active are not counted.
FreeSlotsBlind(records) == config.limit

\* availableInflightSlots
FreeSlots(records) ==
  LET used == Cardinality(ActiveItems(records))
  IN  IF used < config.limit THEN config.limit - used ELSE 0

\* launchReadyItems: ready items in order, as long as there are slots.
Launchable(records) ==
  LET ready == {i \in Items : records[i].state = "ready"}
  IN  {i \in ready : /\ config.accepting
                     /\ Cardinality({j \in ready : Position(j) < Position(i)}) < FreeSlots(records)}

\* prioritizeMergeActions: of the items to merge, one is kept: no unmerged dependency first,
\* then priority, then the order of the ids.
MergeKey(records, i) ==
  <<IF \A d \in Deps[i] : records[d].state \in {"done", "merged"} THEN 0 ELSE 1, Rank[i], Position(i)>>

Before(k, l) ==
  \/ k[1] < l[1]
  \/ k[1] = l[1] /\ k[2] < l[2]
  \/ k[1] = l[1] /\ k[2] = l[2] /\ k[3] < l[3]

Merging(acts) == {acts[n].item : n \in {m \in DOMAIN acts : acts[m].type = "merge"}}

Deferred(records) ==
  {i \in Merging(plan) : \E j \in Merging(plan) : Before(MergeKey(records, j), MergeKey(records, i))}

\* Actions that call GitHub go through the request queue, and run after the others.
Queued(a) == a.type \in {"merge", "post-review"}

\* Those elements of s that are wanted, in their order: Array.filter.
Filtered(s, wanted) ==
  LET at      == {n \in DOMAIN s : s[n] \in wanted}
      rank(n) == Cardinality({m \in at : m <= n})
  IN  [k \in 1 .. Cardinality(at) |-> s[CHOOSE n \in at : rank(n) = k]]

Schedule ==
  LET promoted == Promoted(item)
      going    == Launchable(promoted)
      launched == [i \in Items |-> IF i \in going THEN Moved(promoted[i], "launching") ELSE promoted[i]]
      starting == Filtered(Order, going)
      launches == [n \in DOMAIN starting |->
                     [Action("launch", starting[n]) EXCEPT !.base = launched[starting[n]].base]]
      late     == Deferred(launched)
      records  == [i \in Items |-> IF i \in late THEN Moved(launched[i], "ci-passed") ELSE launched[i]]
      asked    == plan \o launches
      kept     == {a \in {asked[n] : n \in DOMAIN asked} : ~(a.type = "merge" /\ a.item \in late)}
      later    == {a \in kept : Queued(a)}
  IN  /\ phase = "schedule"
      /\ Commit(records)
      /\ plan' = Filtered(asked, kept \ later) \o Filtered(asked, later)
      /\ phase' = IF Threw(records) THEN "crashed" ELSE IF plan' = <<>> THEN "idle" ELSE "act"
      /\ snaps' = [i \in Items |-> NoSnapshot]
      /\ readyIds' = {}
      /\ UNCHANGED <<config, todo, quiet, world>>

---------------------------------------------------------------------------
(* The actions, and what happens beside the loop *)

Execute(a) ==
  \/ ExecuteLaunch(a) \/ ExecuteRetry(a) \/ ExecuteWorkspaceClose(a) \/ ExecuteClean(a)
  \/ ExecuteDaemonRebase(a) \/ ExecuteMerge(a)
  \/ ExecuteNotifyCi(a) \/ ExecuteSend(a) \/ ExecutePostReview(a) \/ ExecuteClearSignal(a)
  \/ ExecuteLaunchReview(a) \/ ExecuteLaunchForwardFixer(a) \/ ExecuteCleanHelper(a)

Act ==
  /\ phase = "act"
  /\ Execute(Head(plan))
  /\ plan' = Tail(plan)
  /\ phase' = IF Threw(item') THEN "crashed" ELSE IF Len(plan) = 1 THEN "idle" ELSE "act"
  /\ UNCHANGED <<config, todo, snaps, readyIds, quiet>>

Open == phase \in {"idle", "act"}

\* The loop yields to the operator while it sleeps and while queued actions are awaited.
Yields == phase = "idle" \/ (phase = "act" /\ Queued(Head(plan)))

\* The debounce deadline of a batch of comments passes.
BatchComesDue(i) ==
  /\ phase = "idle"
  /\ item[i].batch # {} /\ ~item[i].due
  /\ item' = [item EXCEPT ![i].due = TRUE]
  /\ UNCHANGED <<control, world>>

SetMergeStrategy ==
  /\ Yields /\ "strategy" \in Events
  /\ \E s \in {"auto", "manual"} \ {config.strategy} :
       config' = [config EXCEPT !.strategy = s, !.reevaluate = TRUE]
  /\ UNCHANGED <<item, phase, todo, plan, snaps, readyIds, quiet, world>>

\* On: reviews in flight are drained.  Off: what skipped its review owes one.
SetSkipReview ==
  LET drained(it) == it.state \in {"reviewing", "review-pending"}
      owes(it)    == it.round = 0 /\ it.state \notin {"merged", "done", "stuck", "blocked", "queued",
                                                      "ready", "launching", "implementing"}
  IN  /\ Yields /\ "skip-review" \in Events
      /\ config' = [config EXCEPT !.skipReview = ~@]
      /\ item' = [i \in Items |->
                    [item[i] EXCEPT !.reviewed = IF config'.skipReview THEN @ \/ drained(item[i])
                                                 ELSE @ /\ ~owes(item[i])]]
      /\ UNCHANGED <<phase, todo, plan, snaps, readyIds, quiet, world>>

ToggleAcceptingWork ==
  /\ Yields /\ "intake" \in Events
  /\ config' = [config EXCEPT !.accepting = ~@]
  /\ UNCHANGED <<item, phase, todo, plan, snaps, readyIds, quiet, world>>

SetMaxInflight ==
  /\ Yields /\ "limit" \in Events
  /\ \E n \in Limits \ {config.limit} : config' = [config EXCEPT !.limit = n]
  /\ UNCHANGED <<item, phase, todo, plan, snaps, readyIds, quiet, world>>

Operator == SetMergeStrategy \/ SetSkipReview \/ ToggleAcceptingWork \/ SetMaxInflight

WorldStep(i) ==
  \/ WorkerPushes(i, item[i].base) \/ WorkerReads(i) \/ WorkerSignals(i) \/ SessionDies(i)
  \/ ReviewerDecides(i) \/ RebaserPushes(i) \/ FixerOpensPullRequest(i) \/ HelperDies(i)
  \/ PriorPullRequest(i) \/ GithubRetargets(i) \/ CiPasses(i) \/ CiFails(i)
  \/ MainCiPasses(i) \/ MainCiFails(i) \/ Conflicts(i)
  \/ HumanApproves(i) \/ HumanMerges(i) \/ HumanComments(i)

World(i) == Open /\ WorldStep(i) /\ UNCHANGED <<item, control>>

Cycle == StartCycle \/ Poll \/ Reevaluate \/ Schedule \/ Act

Next == Cycle \/ Operator \/ \E i \in Items : BatchComesDue(i) \/ World(i)

Spec == Init /\ [][Next]_vars

\* What a worker is there for: a pull request, a fix of red CI, an answer to a review.
Owes(i) ==
  \/ gh[i].pr = "none"
  \/ gh[i].ci = "fail" \/ gh[i].mergeable = "no"
  \/ item[i].lastReviewed = head[i] /\ ~item[i].reviewed

\* The loop goes on; a worker, a helper and CI get on with their work; deadlines pass.
Fairness ==
  /\ WF_vars(Cycle)
  /\ \A i \in Items :
       /\ SF_vars(BatchComesDue(i))
       /\ SF_vars(Open /\ Owes(i) /\ WorkerPushes(i, item[i].base) /\ gh'[i].mergeable = "yes" /\ UNCHANGED <<item, control>>)
       /\ SF_vars(Open /\ CiPasses(i) /\ UNCHANGED <<item, control>>)
       /\ SF_vars(Open /\ ReviewerDecides(i) /\ UNCHANGED <<item, control>>)
       /\ SF_vars(Open /\ RebaserPushes(i) /\ UNCHANGED <<item, control>>)

FairSpec == Spec /\ Fairness

---------------------------------------------------------------------------
(* Properties *)

\* Types of the records, the loop's own state and the world, and the budgets of an item:
\* retries, reviews, merge attempts and rebasers are never spent beyond the configured limits.
TypeOK ==
  /\ item \in [Items -> ItemRecord]
  /\ config \in [strategy : Strategies, skipReview : BOOLEAN, accepting : BOOLEAN,
                 limit : Limits, reevaluate : BOOLEAN]
  /\ phase \in Phases
  /\ \A n \in DOMAIN todo : todo[n] \in Items
  /\ \A n \in DOMAIN plan : plan[n] \in Actions
  /\ readyIds \subseteq Items
  /\ quiet \in [Items -> 0 .. NotAliveThreshold]
  /\ WorldTypeOK
  /\ \A i \in Items : /\ item[i].retries <= MaxRetries
                      /\ item[i].round <= MaxReviewRounds
                      /\ item[i].mergeFails <= MaxMergeRetries
                      /\ item[i].rebaseAttempts <= MaxRebaseAttempts

\* No handler and no action ever asks for a move that STATE_TRANSITIONS does not list: the
\* throw of transition() is a safety net, and it would end the loop for every item.
LoopSurvives == phase # "crashed"

\* Two worker sessions never work on the branch of one item: whatever relaunches an item has
\* its old session closed first (executeRetry, executeLaunch).
OneWorkerPerBranch == \A i \in Items : Cardinality(live[i]) <= 1

\* A session that runs is one the item still refers to, or has set aside for its retry to
\* close; a session nobody refers to would go on pushing and could never be closed.
NoOrphanWorker == \A i \in Items : live[i] \subseteq {item[i].ws, item[i].retryWs}

HelpersHeld(i) ==
  {h \in Helpers : \/ h = "reviewer" /\ item[i].reviewWs
                   \/ h = "rebaser" /\ item[i].rebaserWs
                   \/ h \in {"fixer", "ousted"} /\ item[i].fixWs}

\* The same of reviewers, rebasers and fixers, over every way out of the state they serve.
NoOrphanHelper == \A i \in Items : helper[i] \subseteq HelpersHeld(i)

\* Between two cycles, an item that is done has no session left, of its own or of a helper:
\* but for the fixer whose repair pull request the loop merged itself, which nothing closes.
DoneHoldsNothing ==
  phase = "idle" =>
    \A i \in Items : item[i].state = "done" =>
      live[i] = {} /\ helper[i] \subseteq (IF item[i].pr = "repair" THEN {"fixer"} ELSE {})

\* The three together: sessions are held by whoever must close them, and closed in the end.
SessionsHeld == NoOrphanWorker /\ NoOrphanHelper /\ DoneHoldsNothing

\* The orchestrator itself, and not a human, lands the pull request of i.
LoopMerges(i) == gh[i].pr = "open" /\ gh'[i].pr = "merged" /\ plan' # plan

\* While reviews are on, the orchestrator lands only a PR some head of which a reviewer has
\* approved, whatever feedback, disagreement and relaunches came between (evaluateMerge).
ReviewedBeforeMerge ==
  [][\A i \in Items : LoopMerges(i) => config.skipReview \/ judged[i] # {}]_vars

\* At the moment the orchestrator lands a PR, no comment it has taken up waits in a batch or
\* for its delivery, though the merge was planned before and may have been retried.
FeedbackBeforeMerge ==
  [][\A i \in Items : LoopMerges(i) => item[i].batch = {} /\ ~AwaitsHandoff(item[i])]_vars

\* What the orchestrator lands was approved, and nobody waits for an answer on it.
MergeEarned == ReviewedBeforeMerge /\ FeedbackBeforeMerge

\* Where a human comment that has been taken up can be.
Kept(i) ==
  item[i].batch \cup item[i].feedback \cup inbox[i] \cup heard[i]
  \cup UNION {plan[n].msg : n \in {m \in DOMAIN plan : plan[m].item = i}}

\* A stacked item never lands before the item it depends on, which its branch contains
\* (executeMerge: expected base, retarget, hold).
DependencyMergesFirst ==
  \A i \in Items : AlreadyMerged(i) => \A d \in Deps[i] : AlreadyMerged(d)

\* A step that launches leaves no more items active than the inflight limit, whatever the
\* limit was before and however many items are active already (availableInflightSlots).
LaunchWithinLimit ==
  [][(\E i \in Items : item[i].state # "launching" /\ item'[i].state = "launching")
       => Cardinality(ActiveItems(item')) <= config.limit]_vars

\* A worker starts only where the work it builds on exists: each dependency has landed (a repair
\* of it may be open), or is the branch the worker is stacked on, with a pull request
\* (canStackLaunch, readyIds).
StartsOnItsBase ==
  [][\A i \in Items : (\E n \in live'[i] : n \notin live[i]) =>
       \A d \in Deps[i] : IF item[i].base = d THEN gh[d].pr # "none" ELSE AlreadyMerged(d)]_vars

\* The two of every launch: room for it, and something to build on.
LaunchesRight == LaunchWithinLimit /\ StartsOnItsBase

Settled(i) == item[i].state \in TerminalStates

\* Every item is done, blocked or stuck in the end, unless its worker used up the commits of
\* the instance: no combination of failure, review and relaunch leaves it waiting for ever.
EverySettles == \A i \in Items : <>(Settled(i) \/ head[i] = MaxCommits)
=============================================================================
