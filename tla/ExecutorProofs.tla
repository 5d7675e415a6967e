--------------------------- MODULE ExecutorProofs ---------------------------
(***************************************************************************)
(* What every handler leaves of an item: a record that is well typed and   *)
(* within its budgets, an approval only where one was given, and actions   *)
(* for this item alone, a merge among them only when it is earned.         *)
(*                                                                         *)
(* Then what every action, and every step of the world, leaves behind:     *)
(* records that are fit, a world that is well typed, no item made to wait  *)
(* for a comment, and a merge attempt spent only on the item that was to   *)
(* merge.  Only a merge lands a pull request, and only that of its item.   *)
(*                                                                         *)
(* Last, what handlers and actions do to sessions: no handler launches or  *)
(* drops a reference that still holds a session without planning its       *)
(* retry, and no action but a launch starts a session of an item.          *)
(***************************************************************************)
EXTENDS Orchestrator, TLAPS, WellFoundedInduction

-----------------------------------------------------------------------------
(* The handlers *)

Fields ==
  {"state", "illegal", "touched", "pr", "ws", "retryWs", "parked", "reviewed",
   "lastReviewed", "lastApproved", "needsFeedback", "feedback", "armed", "batch",
   "due", "checked", "since", "needsCiFix", "ciNotified", "notifiedAt", "lastCommit",
   "rebaseRequested", "nudged", "nudgedTwice", "rebaseAttempts", "retries", "ciFails",
   "mergeFails", "round", "fixFails", "notAlive", "graced", "reviewWs", "rebaserWs",
   "fixWs", "mergeSha", "base"}

\* A record of the right fields.  (Membership in ItemRecord, taken apart: see RecordFits.)
Shape(it) == DOMAIN it = Fields /\ it = [f \in DOMAIN it |-> it[f]]

Typed(it) ==
  /\ it.state \in States
  /\ it.illegal \in BOOLEAN
  /\ it.touched \in BOOLEAN
  /\ it.pr \in {"none", "work", "repair"}
  /\ it.ws \in {0, Borrowed} \cup Sessions
  /\ it.retryWs \in {0, Borrowed} \cup Sessions
  /\ it.parked \in BOOLEAN
  /\ it.reviewed \in BOOLEAN
  /\ it.lastReviewed \in Commits
  /\ it.lastApproved \in Commits
  /\ it.needsFeedback \in BOOLEAN
  /\ it.feedback \in SUBSET Feedback
  /\ it.armed \in BOOLEAN
  /\ it.batch \in SUBSET Comments
  /\ it.due \in BOOLEAN
  /\ it.checked \in BOOLEAN
  /\ it.since \in SUBSET Comments
  /\ it.needsCiFix \in BOOLEAN
  /\ it.ciNotified \in BOOLEAN
  /\ it.notifiedAt \in Commits
  /\ it.lastCommit \in Commits
  /\ it.rebaseRequested \in BOOLEAN
  /\ it.nudged \in {-1} \cup Commits
  /\ it.nudgedTwice \in BOOLEAN
  /\ it.rebaseAttempts \in Nat
  /\ it.retries \in Nat
  /\ it.ciFails \in Nat
  /\ it.mergeFails \in Nat
  /\ it.round \in Nat
  /\ it.fixFails \in Nat
  /\ it.notAlive \in Nat
  /\ it.graced \in BOOLEAN
  /\ it.reviewWs \in BOOLEAN
  /\ it.rebaserWs \in BOOLEAN
  /\ it.fixWs \in BOOLEAN
  /\ it.mergeSha \in BOOLEAN
  /\ it.base \in Items \cup {NoItem}

(***************************************************************************)
(* A record that is fit to be stored.  G stands for "a reviewer has        *)
(* approved a head of this item": only then is reviewCompleted or a        *)
(* lastApprovedCommitSha set, and only then does the item come to merging. *)
(* L stands for "the item was launching before": no handler launches.  An  *)
(* item whose merge attempts are spent is stuck, or the move to it threw.  *)
(***************************************************************************)
Fit(G, L, it) ==
  /\ Shape(it) /\ Typed(it)
  /\ it.retries <= MaxRetries
  /\ it.round <= MaxReviewRounds
  /\ it.mergeFails <= MaxMergeRetries
  /\ it.rebaseAttempts <= MaxRebaseAttempts
  /\ it.reviewed => G
  /\ it.lastApproved # 0 => G
  /\ it.state = "merging" => G
  /\ it.state = "launching" => L
  /\ it.mergeFails < MaxMergeRetries \/ it.state = "stuck" \/ it.illegal

\* What a handler relies on in a snapshot.
Legible(G, s) ==
  /\ s.num \in {"none", "work", "repair"}
  /\ s.head \in Commits /\ s.commits \in Commits
  /\ s.new \subseteq Comments /\ s.known \subseteq Comments
  /\ s.verdict = "approve" => G

\* A handler's arguments: the settings, an item, its record and its snapshot.
Facing(G, L, c, i, it, s) ==
  /\ G \in BOOLEAN /\ L \in BOOLEAN /\ i \in Items /\ Fit(G, L, it) /\ Legible(G, s)
  /\ c.skipReview \in BOOLEAN /\ (c.skipReview => G)

Plain(i)  == Seq({a \in Actions : a.item = i /\ a.type # "merge"})
ForItem(i) == Seq({a \in Actions : a.item = i})

\* No comment waits on the record: in a batch, or taken up and not handed over.
Quiet(it) == it.batch = {} /\ ~AwaitsHandoff(it)

SameMail(x, y) == x.batch = y.batch /\ x.feedback = y.feedback /\ x.needsFeedback = y.needsFeedback

\* An outcome without a merge.
Modest(G, L, i, o) == Fit(G, L, o.it) /\ o.acts \in Plain(i)

\* At most one merge, and after everything else.
MergeLast(acts) == \A n \in 1 .. Len(acts) - 1 : acts[n].type # "merge"

\* Any outcome: a merge is asked for only with an approval, on a quiet record in merging.
Good(G, L, i, o) ==
  /\ Fit(G, L, o.it)
  /\ o.acts \in ForItem(i)
  /\ \/ o.acts \in Plain(i)
     \/ G /\ Quiet(o.it) /\ (o.it.state = "merging" \/ o.it.illegal) /\ MergeLast(o.acts)

---------------------------------------------------------------------------
(* Records and sequences of actions *)

\* The branch before anything is pushed is one of the commits.
LEMMA ZeroCommit == 0 \in Commits
  BY BoundsAssumption DEF Commits

\* The configured limits are natural numbers.
LEMMA Limits0 ==
  /\ MaxRetries \in Nat /\ MaxReviewRounds \in Nat
  /\ MaxMergeRetries \in Nat \ {0} /\ MaxRebaseAttempts \in Nat
  BY HandlersAssumption, ExecutorAssumption

\* Membership in the set of records, and back.
LEMMA RecordFits ==
  ASSUME NEW it
  PROVE  it \in ItemRecord <=> Shape(it) /\ Typed(it)
<1>1. it \in ItemRecord => Shape(it)
  BY DEF ItemRecord, Shape, Fields
<1>2. it \in ItemRecord => Typed(it)
  BY DEF ItemRecord, Typed
<1>3. Shape(it) /\ Typed(it) => it \in ItemRecord
  BY Zenon DEF ItemRecord, Typed, Shape, Fields
<1>. QED
  BY <1>1, <1>2, <1>3

\* No action at all is a plan for any item.
LEMMA NoActs == ASSUME NEW i PROVE <<>> \in Plain(i) /\ <<>> \in ForItem(i)
  BY DEF Plain, ForItem

\* A plan without a merge is a plan for its item.
LEMMA PlainIsForItem == ASSUME NEW i, NEW acts \in Plain(i) PROVE acts \in ForItem(i)
  BY DEF Plain, ForItem

\* Two plans without a merge make one.
LEMMA PlainThenPlain ==
  ASSUME NEW i, NEW x \in Plain(i), NEW y \in Plain(i)
  PROVE  x \o y \in Plain(i)
  BY DEF Plain

\* What comes before a plan may come before any plan of the same item, and adds no merge.
LEMMA PlainThenAny ==
  ASSUME NEW i, NEW x \in Plain(i), NEW y \in ForItem(i)
  PROVE  x \o y \in ForItem(i)
  BY PlainIsForItem DEF ForItem

\* A single action other than a merge.
LEMMA OneAction ==
  ASSUME NEW i \in Items,
         NEW t \in {"retry", "workspace-close", "clean", "clean-review", "clean-rebaser",
                    "clean-forward-fixer", "launch-review", "launch-forward-fixer",
                    "daemon-rebase", "notify-ci-failure", "post-review",
                    "clear-no-new-info", "clear-pushback", "clear-feedback-done"}
  PROVE  <<Action(t, i)>> \in Plain(i)
  BY DEF Plain, Action, Actions, Feedback

\* A single merge.
LEMMA OneMerge ==
  ASSUME NEW i \in Items
  PROVE  <<Action("merge", i)>> \in ForItem(i) /\ MergeLast(<<Action("merge", i)>>)
<1>1. <<Action("merge", i)>> \in ForItem(i)
  BY DEF ForItem, Action, Actions, Feedback
<1>2. Len(<<Action("merge", i)>>) = 1
  OBVIOUS
<1>. QED
  BY <1>1, <1>2 DEF MergeLast

\* A single message.
LEMMA OneMessage ==
  ASSUME NEW i \in Items, NEW msg \in SUBSET Feedback
  PROVE  <<Send(i, msg)>> \in Plain(i)
<1>1. Action("send-message", i) \in Actions
  BY DEF Action, Actions
<1>2. Send(i, msg) \in Actions
  BY <1>1 DEF Send, Actions
<1>3. Send(i, msg).item = i /\ Send(i, msg).type = "send-message"
  BY DEF Send, Action
<1>. QED
  BY <1>2, <1>3 DEF Plain

\* A single rebase.
LEMMA OneRebase ==
  ASSUME NEW i \in Items, NEW b \in BOOLEAN
  PROVE  <<[Action("daemon-rebase", i) EXCEPT !.escalate = b]>> \in Plain(i)
<1>. [Action("daemon-rebase", i) EXCEPT !.escalate = b]
       = [type |-> "daemon-rebase", item |-> i, msg |-> {}, base |-> NoItem, escalate |-> b]
  BY DEF Action
<1>. QED
  BY DEF Plain, Actions

\* An outcome without a merge is good.
LEMMA ModestIsGood ==
  ASSUME NEW G, NEW L, NEW i, NEW o, Modest(G, L, i, o)
  PROVE  Good(G, L, i, o)
  BY PlainIsForItem DEF Modest, Good

\* What is put before the actions of an outcome.
LEMMA AfterGood ==
  ASSUME NEW G, NEW L, NEW i, NEW acts \in Plain(i), NEW outcomes,
         \A o \in outcomes : Good(G, L, i, o)
  PROVE  \A o \in After(acts, outcomes) : Good(G, L, i, o)
<1>. SUFFICES ASSUME NEW o \in outcomes PROVE Good(G, L, i, Outcome(o.it, acts \o o.acts))
  BY DEF After
<1>. DEFINE p == Outcome(o.it, acts \o o.acts)
<1>1. p.it = o.it /\ p.acts = acts \o o.acts
  BY DEF Outcome
<1>2. Good(G, L, i, o)
  OBVIOUS
<1>3. p.acts \in ForItem(i)
  BY <1>1, <1>2, PlainThenAny DEF Good
<1>4. o.acts \in Plain(i) => p.acts \in Plain(i)
  BY <1>1, PlainThenPlain
<1>5. MergeLast(o.acts) => MergeLast(p.acts)
  <2>1. acts \in Seq(Actions) /\ o.acts \in Seq(Actions) /\ p.acts \in Seq(Actions)
    BY <1>2, <1>3 DEF Good, Plain, ForItem
  <2>2. \A n \in DOMAIN acts : acts[n].type # "merge"
    BY DEF Plain
  <2>. QED
    BY <1>1, <2>1, <2>2 DEF MergeLast
<1>. QED
  BY <1>1, <1>2, <1>3, <1>4, <1>5 DEF Good

---------------------------------------------------------------------------
(* transition(), and what every relaunch does *)

\* transition() keeps a record fit, unless it moves it where it may not go without an approval.
LEMMA MovedFits ==
  ASSUME NEW G \in BOOLEAN, NEW L \in BOOLEAN, NEW it, Fit(G, L, it),
         NEW to \in States \ {"launching"}, to = "merging" => G
  PROVE  Fit(G, L, Moved(it, to)) /\ SameMail(Moved(it, to), it)
<1>1. Shape(Moved(it, to))
  BY ZenonT(40) DEF Moved, Shape, Fit
<1>2. CASE it.state = to
  <2>1. Moved(it, to) = it
    BY <1>2 DEF Moved
  <2>. QED
    BY <2>1 DEF SameMail
<1>3. CASE it.state # to
  <2>1. SameMail(Moved(it, to), it)
    BY <1>3 DEF Moved, Fit, Shape, Fields, SameMail
  <2>2. Typed(Moved(it, to))
    <3>1. CASE to \in Successors(it.state)
      BY <1>3, <3>1, ZeroCommit DEF Moved, Fit, Typed, Shape, Fields
    <3>2. CASE to \notin Successors(it.state)
      <4>1. Moved(it, to) = [it EXCEPT !.illegal = TRUE]
        BY <1>3, <3>2 DEF Moved
      <4>. QED
        BY <4>1 DEF Fit, Typed, Shape, Fields
    <3>. QED
      BY <3>1, <3>2
  <2>3. /\ Moved(it, to).retries = it.retries /\ Moved(it, to).round = it.round
        /\ Moved(it, to).mergeFails = it.mergeFails
        /\ Moved(it, to).rebaseAttempts = it.rebaseAttempts
        /\ Moved(it, to).lastApproved = it.lastApproved
        /\ Moved(it, to).reviewed => it.reviewed
        /\ Moved(it, to).state \in {it.state, to}
        /\ it.illegal => Moved(it, to).illegal
        /\ it.state = "stuck" => Moved(it, to).illegal
    BY <1>3 DEF Moved, Fit, Typed, Shape, Fields, Successors
  <2>. QED
    BY <1>1, <2>1, <2>2, <2>3 DEF Fit
<1>. QED
  BY <1>2, <1>3

\* Counting the polls that found the worker dead changes nothing a record is judged by.
LEMMA CountedFits ==
  ASSUME NEW G \in BOOLEAN, NEW L \in BOOLEAN, NEW it, Fit(G, L, it), NEW s
  PROVE  Fit(G, L, Counted(it, s)) /\ SameMail(Counted(it, s), it)
<1>1. Shape(Counted(it, s))
  BY Zenon DEF Counted, Shape, Fit
<1>2. PICK n : n = CASE s.alive = "yes" -> 0
                     [] s.alive = "no"  -> IF it.notAlive < NotAliveThreshold
                                           THEN it.notAlive + 1 ELSE it.notAlive
                     [] OTHER           -> it.notAlive
  OBVIOUS
<1>3. n \in Nat
  BY <1>2 DEF Fit, Typed
<1>4. Counted(it, s) = [it EXCEPT !.notAlive = n]
  BY <1>2 DEF Counted
<1>. QED
  BY <1>1, <1>3, <1>4 DEF Fit, Typed, Shape, Fields, SameMail

\* An item that goes back to ready, its flags set for the relaunch.
LEMMA RelaunchedFits ==
  ASSUME NEW G \in BOOLEAN, NEW L \in BOOLEAN, NEW it, Fit(G, L, it)
  PROVE  Fit(G, L, Relaunched(it)) /\ SameMail(Relaunched(it), it)
<1>. PICK x : x = [it EXCEPT !.notAlive = 0, !.retryWs = it.ws, !.ws = 0]
  OBVIOUS
<1>1. Shape(x)
  BY Zenon DEF Shape, Fit
<1>2. Fit(G, L, x) /\ SameMail(x, it)
  BY <1>1 DEF Fit, Typed, Shape, Fields, SameMail
<1>3. Relaunched(it) = Moved(x, "ready")
  BY DEF Relaunched
<1>4. Fit(G, L, Moved(x, "ready")) /\ SameMail(Moved(x, "ready"), x)
  BY <1>2, MovedFits DEF States
<1>. QED
  BY <1>2, <1>3, <1>4 DEF SameMail

\* One action after a move.
LEMMA MovedModest ==
  ASSUME NEW G \in BOOLEAN, NEW L \in BOOLEAN, NEW i \in Items, NEW it, Fit(G, L, it), NEW to \in States \ {"launching"},
         to = "merging" => G, NEW acts \in Plain(i)
  PROVE  Modest(G, L, i, Outcome(Moved(it, to), acts))
  BY MovedFits DEF Modest, Outcome

\* stuckOrRetry relaunches while retries are left, and else gives up.
LEMMA StuckOrRetryModest ==
  ASSUME NEW G \in BOOLEAN, NEW L \in BOOLEAN, NEW i \in Items, NEW it, Fit(G, L, it)
  PROVE  Modest(G, L, i, StuckOrRetry(i, it))
<1>1. CASE it.retries < MaxRetries
  <2>. PICK x : x = [it EXCEPT !.retries = @ + 1, !.lastCommit = 0]
    OBVIOUS
  <2>1. Shape(x)
    BY Zenon DEF Shape, Fit
  <2>2. Typed(x)
    BY ZeroCommit DEF Fit, Typed, Shape, Fields
  <2>3. Fit(G, L, x)
    BY <1>1, <2>1, <2>2, Limits0 DEF Fit, Typed, Shape, Fields
  <2>4. StuckOrRetry(i, it) = Outcome(Relaunched(x), <<Action("retry", i)>>)
    BY <1>1 DEF StuckOrRetry
  <2>5. Fit(G, L, Relaunched(x)) /\ <<Action("retry", i)>> \in Plain(i)
    BY <2>3, RelaunchedFits, OneAction
  <2>. QED
    BY <2>4, <2>5 DEF Modest, Outcome
<1>2. CASE ~(it.retries < MaxRetries)
  <2>1. StuckOrRetry(i, it) = Outcome(Moved(it, "stuck"), <<Action("workspace-close", i)>>)
    BY <1>2 DEF StuckOrRetry
  <2>2. Modest(G, L, i, Outcome(Moved(it, "stuck"), <<Action("workspace-close", i)>>))
    BY MovedModest, OneAction DEF States
  <2>. QED
    BY <2>1, <2>2
<1>. QED
  BY <1>1, <1>2

\* A worker that is gone: the item is relaunched or given up.
LEMMA LostModest ==
  ASSUME NEW G \in BOOLEAN, NEW L \in BOOLEAN, NEW i \in Items, NEW it, Fit(G, L, it), NEW s
  PROVE  \A o \in Lost(i, it, s) : Modest(G, L, i, o)
<1>. PICK x : x = [it EXCEPT !.lastCommit = 0]
  OBVIOUS
<1>1. Shape(x)
  BY Zenon DEF Shape, Fit
<1>2. Fit(G, L, x)
  BY <1>1, ZeroCommit DEF Fit, Typed, Shape, Fields
<1>3. Modest(G, L, i, Outcome(Relaunched(x), <<Action("retry", i)>>))
  BY <1>2, RelaunchedFits, OneAction DEF Modest, Outcome
<1>. QED
  BY <1>3, StuckOrRetryModest DEF Lost, Only

\* A relaunch to fix red CI.
LEMMA RespawnedForCiModest ==
  ASSUME NEW G \in BOOLEAN, NEW L \in BOOLEAN, NEW i \in Items, NEW it, Fit(G, L, it)
  PROVE  Modest(G, L, i, RespawnedForCi(i, it))
<1>. PICK x : x = [it EXCEPT !.needsCiFix = TRUE]
  OBVIOUS
<1>1. Shape(x)
  BY Zenon DEF Shape, Fit
<1>2. Fit(G, L, x)
  BY <1>1 DEF Fit, Typed, Shape, Fields
<1>. QED
  BY <1>2, RelaunchedFits, OneAction DEF Modest, Outcome, RespawnedForCi

\* A relaunch to answer comments.
LEMMA RespawnedForFeedbackModest ==
  ASSUME NEW G \in BOOLEAN, NEW L \in BOOLEAN, NEW i \in Items, NEW it, Fit(G, L, it), NEW msg \in SUBSET Feedback
  PROVE  Modest(G, L, i, RespawnedForFeedback(i, it, msg))
<1>. PICK x : x = [it EXCEPT !.reviewed = FALSE, !.needsFeedback = TRUE, !.feedback = msg, !.armed = FALSE]
  OBVIOUS
<1>1. Shape(x)
  BY Zenon DEF Shape, Fit
<1>2. Fit(G, L, x)
  BY <1>1 DEF Fit, Typed, Shape, Fields
<1>. QED
  BY <1>2, RelaunchedFits, OneAction DEF Modest, Outcome, RespawnedForFeedback

---------------------------------------------------------------------------
(* Human feedback *)

\* The head that was reviewed is noted on the record.
LEMMA StampedReviewedFits ==
  ASSUME NEW G \in BOOLEAN, NEW L \in BOOLEAN, NEW it, Fit(G, L, it), NEW s, Legible(G, s)
  PROVE  Fit(G, L, StampedReviewed(it, s)) /\ SameMail(StampedReviewed(it, s), it)
<1>1. Shape(StampedReviewed(it, s))
  BY Zenon DEF Shape, Fit, StampedReviewed
<1>. QED
  BY <1>1 DEF Fit, Typed, Shape, Fields, StampedReviewed, SameMail, Legible

\* Comments taken up join the batch.
LEMMA IngestedFits ==
  ASSUME NEW G \in BOOLEAN, NEW L \in BOOLEAN, NEW it, Fit(G, L, it), NEW s, Legible(G, s)
  PROVE  \A x \in Ingested(it, s) : Fit(G, L, x)
<1>. PICK marked : marked = [it EXCEPT !.checked = TRUE, !.since = s.known]
  OBVIOUS
<1>1. Shape(marked)
  BY Zenon DEF Shape, Fit
<1>2. Fit(G, L, marked)
  BY <1>1 DEF Fit, Typed, Shape, Fields, Legible
<1>3. ASSUME NEW due \in BOOLEAN
      PROVE  Fit(G, L, [marked EXCEPT !.batch = @ \cup s.new, !.due = due])
  <2>1. Shape([marked EXCEPT !.batch = @ \cup s.new, !.due = due])
    BY <1>1, Zenon DEF Shape
  <2>. QED
    BY <1>2, <2>1 DEF Fit, Typed, Shape, Fields, Legible
<1>. QED
  BY <1>2, <1>3 DEF Ingested, Passed

\* A record whose review is to be done again.
LEMMA ReopenedFits ==
  ASSUME NEW G \in BOOLEAN, NEW L \in BOOLEAN, NEW it, Fit(G, L, it)
  PROVE  Fit(G, L, Reopened(it)) /\ SameMail(Reopened(it), it)
<1>. PICK x : x = [it EXCEPT !.reviewed = FALSE]
  OBVIOUS
<1>1. Shape(x)
  BY Zenon DEF Shape, Fit
<1>2. Fit(G, L, x) /\ SameMail(x, it)
  BY <1>1 DEF Fit, Typed, Shape, Fields, SameMail
<1>3. Fit(G, L, Moved(x, "review-pending")) /\ SameMail(Moved(x, "review-pending"), x)
  BY <1>2, MovedFits DEF States
<1>. QED
  BY <1>2, <1>3 DEF Reopened, SameMail

\* The live delivery of a message is armed or not.
LEMMA ArmedFits ==
  ASSUME NEW G \in BOOLEAN, NEW L \in BOOLEAN, NEW it, Fit(G, L, it), NEW a \in BOOLEAN
  PROVE  Fit(G, L, [it EXCEPT !.armed = a])
<1>1. Shape([it EXCEPT !.armed = a])
  BY Zenon DEF Shape, Fit
<1>. QED
  BY <1>1 DEF Fit, Typed, Shape, Fields

\* The batch becomes a message, or waits.
LEMMA DeliveryFits ==
  ASSUME NEW G \in BOOLEAN, NEW L \in BOOLEAN, NEW it, Fit(G, L, it), NEW s
  PROVE  Fit(G, L, DeliveryMode(it, s)[2])
  BY CountedFits DEF DeliveryMode

\* The batch is taken up as the feedback of the item.
TakenUp(it, b) == [it EXCEPT !.batch = {}, !.due = FALSE, !.armed = FALSE,
                             !.needsFeedback = TRUE, !.feedback = b]

\* A record whose batch is taken up fits.
LEMMA TakenUpFits ==
  ASSUME NEW G \in BOOLEAN, NEW L \in BOOLEAN, NEW it, Fit(G, L, it), NEW b \in SUBSET Feedback
  PROVE  Fit(G, L, TakenUp(it, b))
<1>1. Shape(TakenUp(it, b))
  BY ZenonT(40) DEF Shape, Fit, TakenUp
<1>2. Typed(TakenUp(it, b))
  BY <1>1 DEF Fit, Typed, Shape, Fields, TakenUp
<1>. QED
  BY <1>1, <1>2 DEF Fit, Shape, Fields, TakenUp

\* A record whose review is withdrawn.
Unreviewed(it) == [it EXCEPT !.reviewed = FALSE]

\* It fits.
LEMMA UnreviewedFits ==
  ASSUME NEW G \in BOOLEAN, NEW L \in BOOLEAN, NEW it, Fit(G, L, it)
  PROVE  Fit(G, L, Unreviewed(it))
<1>1. Shape(Unreviewed(it))
  BY ZenonT(40) DEF Shape, Fit, Unreviewed
<1>2. Typed(Unreviewed(it))
  BY <1>1 DEF Fit, Typed, Shape, Fields, Unreviewed
<1>. QED
  BY <1>1, <1>2 DEF Fit, Shape, Fields, Unreviewed

\* A batch that is held, or delivered, or brings a relaunch: never a merge; and if none is
\* held, there is none.
LEMMA ResolvedFits ==
  ASSUME NEW G \in BOOLEAN, NEW L \in BOOLEAN, NEW i \in Items, NEW it, Fit(G, L, it), NEW s, Legible(G, s)
  PROVE  /\ Fit(G, L, Resolved(i, it, s).it)
         /\ Resolved(i, it, s).acts \in Plain(i)
         /\ Resolved(i, it, s).held <=> it.batch # {}
         /\ ~Resolved(i, it, s).held => Resolved(i, it, s).it = it
<1>. PICK mode : mode = DeliveryMode(it, s)
  OBVIOUS
<1>. PICK taken : taken = [StampedReviewed(mode[2], s) EXCEPT
                             !.batch = {}, !.due = FALSE, !.armed = FALSE,
                             !.needsFeedback = TRUE, !.feedback = it.batch]
  OBVIOUS
<1>. PICK open : open = IF taken.reviewed THEN [Reopened(taken) EXCEPT !.reviewed = FALSE] ELSE taken
  OBVIOUS
<1>. PICK o : o = RespawnedForFeedback(i, taken, it.batch)
  OBVIOUS
<1>0. it.batch \in SUBSET Feedback
  BY DEF Fit, Typed, Feedback
<1>1. Fit(G, L, mode[2])
  BY DeliveryFits
<1>2. Fit(G, L, taken)
  <2>1. taken = TakenUp(StampedReviewed(mode[2], s), it.batch)
    BY DEF TakenUp
  <2>. QED
    BY <1>0, <1>1, <2>1, StampedReviewedFits, TakenUpFits
<1>3. Fit(G, L, open)
  <2>1. [Reopened(taken) EXCEPT !.reviewed = FALSE] = Unreviewed(Reopened(taken))
    BY DEF Unreviewed
  <2>. QED
    BY <1>2, <2>1, ReopenedFits, UnreviewedFits
<1>4. Fit(G, L, o.it) /\ o.acts \in Plain(i)
  BY <1>0, <1>2, RespawnedForFeedbackModest DEF Modest
<1>5. Fit(G, L, IF open.ws = 0 THEN open ELSE [Counted(open, s) EXCEPT !.armed = s.alive = "yes"])
  <2>1. Fit(G, L, Counted(open, s))
    BY <1>3, CountedFits
  <2>. QED
    BY <1>3, <2>1, ArmedFits, ZenonT(60)
<1>6. <<Send(i, it.batch)>> \in Plain(i) /\ <<>> \in Plain(i)
  BY <1>0, OneMessage, NoActs
<1>7. Resolved(i, it, s) =
        IF it.batch = {} THEN [held |-> FALSE, it |-> it, acts |-> <<>>]
        ELSE IF ~it.due THEN [held |-> TRUE, it |-> it, acts |-> <<>>]
        ELSE IF mode[1] = "wait" THEN [held |-> TRUE, it |-> mode[2], acts |-> <<>>]
        ELSE IF mode[1] = "relaunch" THEN [held |-> TRUE, it |-> o.it, acts |-> o.acts]
        ELSE [held |-> TRUE,
              it   |-> IF open.ws = 0 THEN open ELSE [Counted(open, s) EXCEPT !.armed = s.alive = "yes"],
              acts |-> <<Send(i, it.batch)>>]
  BY DEF Resolved
<1>. QED
  BY <1>1, <1>4, <1>5, <1>6, <1>7

\* What a batch that is due leads to: a message, or a relaunch.
LEMMA HandoffModest ==
  ASSUME NEW G \in BOOLEAN, NEW L \in BOOLEAN, NEW i \in Items, NEW it, Fit(G, L, it), NEW s, Legible(G, s)
  PROVE  Modest(G, L, i, Handoff(i, it, s))
<1>. PICK open : open = Reopened(StampedReviewed(it, s))
  OBVIOUS
<1>. PICK counted : counted = Counted(open, s)
  OBVIOUS
<1>1. Fit(G, L, open)
  BY StampedReviewedFits, ReopenedFits
<1>2. Fit(G, L, counted)
  BY <1>1, CountedFits
<1>3. it.feedback \in SUBSET Feedback
  BY DEF Fit, Typed
<1>5. Fit(G, L, [counted EXCEPT !.armed = TRUE])
  BY <1>2, ArmedFits
<1>6. /\ Modest(G, L, i, RespawnedForFeedback(i, open, it.feedback))
      /\ Modest(G, L, i, RespawnedForFeedback(i, counted, it.feedback))
  BY <1>1, <1>2, <1>3, RespawnedForFeedbackModest
<1>7. Modest(G, L, i, Outcome(counted, <<>>))
  BY <1>2, NoActs DEF Modest, Outcome
<1>8. Modest(G, L, i, Outcome([counted EXCEPT !.armed = TRUE], <<Send(i, it.feedback)>>))
  BY <1>3, <1>5, OneMessage DEF Modest, Outcome
<1>. QED
  BY <1>6, <1>7, <1>8 DEF Handoff

---------------------------------------------------------------------------
(* Rebasing *)

\* A batch whose deadline is put off.
LEMMA CooledFits ==
  ASSUME NEW G \in BOOLEAN, NEW L \in BOOLEAN, NEW it, Fit(G, L, it), NEW s, Legible(G, s)
  PROVE  Fit(G, L, Cooled(it, s))
<1>1. Shape(Cooled(it, s))
  BY Zenon DEF Shape, Fit, Cooled
<1>. QED
  BY <1>1 DEF Fit, Typed, Shape, Fields, Cooled, Legible

\* The pull request of the snapshot is the one the record tracks.
LEMMA TrackedFits ==
  ASSUME NEW G \in BOOLEAN, NEW L \in BOOLEAN, NEW it, Fit(G, L, it), NEW s
  PROVE  Fit(G, L, Tracked(it, s))
<1>. PICK x : x = [it EXCEPT !.rebaseRequested = FALSE, !.nudged = -1, !.nudgedTwice = FALSE,
                             !.rebaseAttempts = 0]
  OBVIOUS
<1>. PICK y : y = [it EXCEPT !.rebaseRequested = FALSE, !.nudged = it.lastCommit, !.nudgedTwice = FALSE]
  OBVIOUS
<1>1. Shape(x) /\ Shape(y)
  <2>1. Shape(x)
    BY Zenon DEF Shape, Fit
  <2>2. Shape(y)
    BY Zenon DEF Shape, Fit
  <2>. QED
    BY <2>1, <2>2
<1>2. Fit(G, L, x)
  BY <1>1, Limits0 DEF Fit, Typed, Shape, Fields
<1>3. Fit(G, L, y)
  BY <1>1 DEF Fit, Typed, Shape, Fields
<1>4. Tracked(it, s) \in {it, x, y}
  BY DEF Tracked
<1>. QED
  BY <1>2, <1>3, <1>4

\* A rebase is asked for, or the worker is told; nothing is merged.
LEMMA RebasePlansModest ==
  ASSUME NEW G \in BOOLEAN, NEW L \in BOOLEAN, NEW i \in Items, NEW it, Fit(G, L, it), NEW s, Legible(G, s)
  PROVE  \A o \in RebasePlans(i, it, s) : Modest(G, L, i, o)
<1>. PICK nudged : nudged = [it EXCEPT !.nudged = s.commits]
  OBVIOUS
<1>1. Shape(nudged)
  BY Zenon DEF Shape, Fit
<1>2. Fit(G, L, nudged)
  BY <1>1 DEF Fit, Typed, Shape, Fields, Legible
<1>3. Shape([nudged EXCEPT !.rebaseRequested = TRUE, !.nudgedTwice = FALSE])
  BY <1>1, Zenon DEF Shape
<1>4. Fit(G, L, [nudged EXCEPT !.rebaseRequested = TRUE, !.nudgedTwice = FALSE])
  BY <1>2, <1>3 DEF Fit, Typed, Shape, Fields
<1>5. Shape([nudged EXCEPT !.nudgedTwice = TRUE])
  BY <1>1, Zenon DEF Shape
<1>6. Fit(G, L, [nudged EXCEPT !.nudgedTwice = TRUE])
  BY <1>2, <1>5 DEF Fit, Typed, Shape, Fields
<1>7. it.nudgedTwice \in BOOLEAN
  BY DEF Fit, Typed
<1>8. /\ Modest(G, L, i, Outcome(nudged, <<>>))
      /\ Modest(G, L, i, Outcome(it, <<>>))
      /\ Modest(G, L, i, Outcome([nudged EXCEPT !.rebaseRequested = TRUE, !.nudgedTwice = FALSE],
                              <<Action("daemon-rebase", i)>>))
      /\ Modest(G, L, i, Outcome([nudged EXCEPT !.nudgedTwice = TRUE],
                              <<[Action("daemon-rebase", i) EXCEPT !.escalate = it.nudgedTwice]>>))
  BY <1>2, <1>4, <1>6, <1>7, NoActs, OneAction, OneRebase DEF Modest, Outcome
<1>. QED
  BY <1>8 DEF RebasePlans, Only

---------------------------------------------------------------------------
(* Merging *)

\* An approval counts again only for the very head that was approved.
LEMMA NoNewInfoModest ==
  ASSUME NEW G, NEW L, NEW c, NEW i, NEW it, NEW s, Facing(G, L, c, i, it, s), Spurious(it, s)
  PROVE  Modest(G, L, i, NoNewInfo(i, it, s)) /\ Quiet(NoNewInfo(i, it, s).it)
<1>. USE DEF Facing
<1>. PICK b \in BOOLEAN : b = (it.reviewed \/ s.head = it.lastApproved)
  OBVIOUS
<1>. PICK closing \in BOOLEAN : closing = (it.ws # 0 /\ ~it.parked)
  OBVIOUS
<1>. PICK p \in BOOLEAN : p = (it.parked \/ closing)
  OBVIOUS
<1>. PICK x : x = [it EXCEPT !.batch = {}, !.due = FALSE, !.feedback = {}, !.needsFeedback = FALSE,
                             !.pr = s.num, !.reviewed = b]
  OBVIOUS
<1>1. b => G
  BY DEF Fit, Spurious, Unchanged
<1>2. Shape(x)
  BY Zenon DEF Shape, Fit
<1>3. Typed(x)
  BY DEF Fit, Typed, Shape, Fields, Legible
<1>4. Fit(G, L, x) /\ x.batch = {} /\ x.feedback = {}
  BY <1>1, <1>2, <1>3 DEF Fit, Shape, Fields
<1>. PICK y : y = [x EXCEPT !.parked = p]
  OBVIOUS
<1>5. Shape(y)
  BY <1>2, Zenon DEF Shape
<1>6. Fit(G, L, y) /\ SameMail(y, x)
  BY <1>4, <1>5 DEF Fit, Typed, Shape, Fields, SameMail
<1>7. Fit(G, L, Moved(y, "review-pending")) /\ SameMail(Moved(y, "review-pending"), y)
  BY <1>6, MovedFits DEF States
<1>8. <<Action("clear-no-new-info", i)>> \o (IF closing THEN <<Action("workspace-close", i)>> ELSE <<>>)
        \in Plain(i)
  BY OneAction, NoActs, PlainThenPlain
<1>9. x = [it EXCEPT !.batch = {}, !.due = FALSE, !.feedback = {}, !.needsFeedback = FALSE,
                     !.pr = s.num, !.reviewed = @ \/ s.head = it.lastApproved]
  OBVIOUS
<1>10. y = [x EXCEPT !.parked = @ \/ closing]
  <2>1. x.parked = it.parked
    BY DEF Fit, Shape, Fields
  <2>. QED
    BY <2>1
<1>11. NoNewInfo(i, it, s)
         = Outcome(Moved(y, "review-pending"),
                   <<Action("clear-no-new-info", i)>>
                   \o (IF closing THEN <<Action("workspace-close", i)>> ELSE <<>>))
  BY <1>9, <1>10 DEF NoNewInfo
<1>12. Quiet(Moved(y, "review-pending"))
  BY <1>4, <1>6, <1>7 DEF Quiet, SameMail, AwaitsHandoff
<1>. QED
  BY <1>7, <1>8, <1>11, <1>12 DEF Modest, Outcome

\* A review round is started only while rounds are left.
LEMMA ReviewLaunchedModest ==
  ASSUME NEW G \in BOOLEAN, NEW L \in BOOLEAN, NEW i \in Items, NEW it, Fit(G, L, it), NEW s
  PROVE  Modest(G, L, i, ReviewLaunched(i, it, s)) /\ SameMail(ReviewLaunched(i, it, s).it, it)
<1>1. CASE it.state = "reviewing" \/ Unchanged(it, s)
  BY <1>1, NoActs DEF ReviewLaunched, Modest, Outcome, SameMail
<1>2. CASE ~(it.state = "reviewing" \/ Unchanged(it, s)) /\ it.round >= MaxReviewRounds
  <2>1. ReviewLaunched(i, it, s) = Outcome(Moved(it, "stuck"), <<>>)
    BY <1>2 DEF ReviewLaunched
  <2>2. Fit(G, L, Moved(it, "stuck")) /\ SameMail(Moved(it, "stuck"), it)
    BY MovedFits DEF States
  <2>. QED
    BY <2>1, <2>2, NoActs DEF Modest, Outcome
<1>3. CASE ~(it.state = "reviewing" \/ Unchanged(it, s)) /\ ~(it.round >= MaxReviewRounds)
  <2>. PICK x : x = [it EXCEPT !.round = @ + 1]
    OBVIOUS
  <2>1. Shape(x)
    BY Zenon DEF Shape, Fit
  <2>2. Fit(G, L, x) /\ SameMail(x, it)
    BY <1>3, <2>1, Limits0 DEF Fit, Typed, Shape, Fields, SameMail
  <2>3. Fit(G, L, Moved(x, "reviewing")) /\ SameMail(Moved(x, "reviewing"), x)
    BY <2>2, MovedFits DEF States
  <2>4. ReviewLaunched(i, it, s) = Outcome(Moved(x, "reviewing"), <<Action("launch-review", i)>>)
    BY <1>3 DEF ReviewLaunched
  <2>5. <<Action("launch-review", i)>> \in Plain(i)
    BY OneAction
  <2>6. SameMail(Moved(x, "reviewing"), it)
    BY <2>2, <2>3 DEF SameMail
  <2>. QED
    BY <2>3, <2>4, <2>5, <2>6 DEF Modest, Outcome
<1>. QED
  BY <1>1, <1>2, <1>3

\* An item that waits for a person.
LEMMA ParkedForHumanModest ==
  ASSUME NEW G \in BOOLEAN, NEW L \in BOOLEAN, NEW i \in Items, NEW it, Fit(G, L, it)
  PROVE  Modest(G, L, i, ParkedForHuman(i, it)) /\ SameMail(ParkedForHuman(i, it).it, it)
<1>. PICK x : x = Moved(it, "review-pending")
  OBVIOUS
<1>1. Fit(G, L, x) /\ SameMail(x, it)
  BY MovedFits DEF States
<1>2. Shape([x EXCEPT !.parked = TRUE])
  BY <1>1, Zenon DEF Shape, Fit
<1>3. Fit(G, L, [x EXCEPT !.parked = TRUE]) /\ SameMail([x EXCEPT !.parked = TRUE], x)
  BY <1>1, <1>2 DEF Fit, Typed, Shape, Fields, SameMail
<1>. QED
  BY <1>1, <1>3, NoActs, OneAction DEF ParkedForHuman, Modest, Outcome, SameMail

\* evaluateMerge: a merge only of a reviewed item on which nobody waits for an answer; and a
\* quiet record stays quiet.
LEMMA EvaluateMergeGood ==
  ASSUME NEW G, NEW L, NEW c, NEW i, NEW it, NEW s, Facing(G, L, c, i, it, s)
  PROVE  /\ Good(G, L, i, EvaluateMerge(c, i, it, s))
         /\ Quiet(it) => Quiet(EvaluateMerge(c, i, it, s).it)
<1>. USE DEF Facing
<1>. PICK b \in BOOLEAN : b = (it.reviewed \/ c.skipReview)
  OBVIOUS
<1>. PICK x : x = [it EXCEPT !.reviewed = b]
  OBVIOUS
<1>0. x = [it EXCEPT !.reviewed = @ \/ c.skipReview]
  OBVIOUS
<1>1. b => G
  BY DEF Fit
<1>2. Shape(x)
  BY Zenon DEF Shape, Fit
<1>3. Fit(G, L, x) /\ SameMail(x, it) /\ x.reviewed = b
  BY <1>1, <1>2 DEF Fit, Typed, Shape, Fields, SameMail
<1>4. CASE Spurious(it, s)
  BY <1>4, NoNewInfoModest, ModestIsGood DEF EvaluateMerge
<1>5. CASE ~Spurious(it, s) /\ AwaitsHandoff(it)
  BY <1>5, HandoffModest, ModestIsGood DEF EvaluateMerge, Quiet
<1>6. CASE ~Spurious(it, s) /\ ~AwaitsHandoff(it) /\ Resolved(i, it, s).held
  <2>1. EvaluateMerge(c, i, it, s) = Outcome(Resolved(i, it, s).it, Resolved(i, it, s).acts)
    BY <1>6 DEF EvaluateMerge
  <2>2. Modest(G, L, i, EvaluateMerge(c, i, it, s)) /\ ~Quiet(it)
    BY <1>6, <2>1, ResolvedFits DEF Modest, Outcome, Quiet
  <2>. QED
    BY <2>2, ModestIsGood
<1>7. CASE ~Spurious(it, s) /\ ~AwaitsHandoff(it) /\ ~Resolved(i, it, s).held
  <2>1. it.batch = {} /\ Quiet(it)
    BY <1>7, ResolvedFits DEF Quiet
  <2>2. EvaluateMerge(c, i, it, s) =
          IF ~x.reviewed THEN ReviewLaunched(i, it, s)
          ELSE IF i \in ManualReview \/ c.strategy = "manual" THEN ParkedForHuman(i, x)
          ELSE Outcome(Moved(x, "merging"), <<Action("merge", i)>>)
    BY <1>0, <1>7 DEF EvaluateMerge
  <2>3. /\ Modest(G, L, i, ReviewLaunched(i, it, s)) /\ SameMail(ReviewLaunched(i, it, s).it, it)
        /\ Modest(G, L, i, ParkedForHuman(i, x)) /\ SameMail(ParkedForHuman(i, x).it, x)
    BY <1>3, ReviewLaunchedModest, ParkedForHumanModest
  <2>4. /\ Good(G, L, i, ReviewLaunched(i, it, s)) /\ Quiet(ReviewLaunched(i, it, s).it)
        /\ Good(G, L, i, ParkedForHuman(i, x)) /\ Quiet(ParkedForHuman(i, x).it)
    BY <1>3, <2>1, <2>3, ModestIsGood DEF Quiet, SameMail, AwaitsHandoff
  <2>5. x.reviewed => Fit(G, L, Moved(x, "merging")) /\ Quiet(Moved(x, "merging"))
    <3>. SUFFICES ASSUME x.reviewed PROVE Fit(G, L, Moved(x, "merging")) /\ Quiet(Moved(x, "merging"))
      OBVIOUS
    <3>1. Fit(G, L, Moved(x, "merging")) /\ SameMail(Moved(x, "merging"), x)
      BY <1>1, <1>3, MovedFits DEF States
    <3>. QED
      BY <1>3, <2>1, <3>1 DEF Quiet, SameMail, AwaitsHandoff
  <2>6. x.reviewed => /\ Good(G, L, i, Outcome(Moved(x, "merging"), <<Action("merge", i)>>))
                      /\ Quiet(Outcome(Moved(x, "merging"), <<Action("merge", i)>>).it)
    <3>1. Moved(x, "merging").state = "merging" \/ Moved(x, "merging").illegal
      BY <1>3 DEF Moved, Fit, Shape, Fields
    <3>. QED
      BY <1>1, <1>3, <2>5, <3>1, OneMerge DEF Good, Outcome
  <2>. QED
    BY <2>2, <2>4, <2>6
<1>. QED
  BY <1>4, <1>5, <1>6, <1>7

---------------------------------------------------------------------------
(* CI *)

\* EvaluateMerge after a record has been changed.
LEMMA EvaluateMergeOf ==
  ASSUME NEW G, NEW L, NEW c, NEW i, NEW it, NEW s, Facing(G, L, c, i, it, s), NEW x, Fit(G, L, x)
  PROVE  Good(G, L, i, EvaluateMerge(c, i, x, s))
<1>1. Facing(G, L, c, i, x, s)
  BY DEF Facing
<1>. QED
  BY <1>1, EvaluateMergeGood

\* A record moved and its nudges forgotten.
LEMMA CooledMoveFits ==
  ASSUME NEW G \in BOOLEAN, NEW L \in BOOLEAN, NEW it, Fit(G, L, it), NEW s, Legible(G, s), NEW to \in States \ {"launching"},
         to = "merging" => G
  PROVE  Fit(G, L, Cooled(Moved(it, to), s))
  BY MovedFits, CooledFits

\* The failure is counted.
CountsCi(it) == [Moved(it, "ci-failed") EXCEPT !.ciFails = IF @ > MaxCiRetries THEN @ ELSE @ + 1]

\* A CI failure is counted once.
LEMMA CountsCiFits ==
  ASSUME NEW G \in BOOLEAN, NEW L \in BOOLEAN, NEW it, Fit(G, L, it)
  PROVE  Fit(G, L, CountsCi(it))
<1>. PICK x : x = Moved(it, "ci-failed")
  OBVIOUS
<1>. PICK n : n = IF x.ciFails > MaxCiRetries THEN x.ciFails ELSE x.ciFails + 1
  OBVIOUS
<1>1. Fit(G, L, x)
  BY MovedFits DEF States
<1>2. n \in Nat
  BY <1>1 DEF Fit, Typed
<1>3. CountsCi(it) = [x EXCEPT !.ciFails = n]
  BY DEF CountsCi
<1>4. Shape([x EXCEPT !.ciFails = n])
  BY <1>1, Zenon DEF Shape, Fit
<1>. QED
  BY <1>1, <1>2, <1>3, <1>4 DEF Fit, Typed, Shape, Fields

\* What a red CI leads to.
LEMMA CiFailedModest ==
  ASSUME NEW G \in BOOLEAN, NEW L \in BOOLEAN, NEW i \in Items, NEW it, Fit(G, L, it), NEW s, Legible(G, s)
  PROVE  \A o \in CiFailed(i, it, s) : Modest(G, L, i, o)
<1>. PICK failed : failed = CountsCi(it)
  OBVIOUS
<1>. PICK x : x = [failed EXCEPT !.ciNotified = TRUE, !.notifiedAt = it.lastCommit]
  OBVIOUS
<1>1. Fit(G, L, failed)
  BY CountsCiFits
<1>2. Shape(x)
  BY <1>1, Zenon DEF Shape, Fit
<1>3. it.lastCommit \in Commits
  BY DEF Fit, Typed
<1>4. Fit(G, L, x)
  BY <1>1, <1>2, <1>3 DEF Fit, Typed, Shape, Fields
<1>5. <<Action("notify-ci-failure", i)>> \in Plain(i)
  BY OneAction
<1>6. CiFailed(i, it, s) = IF s.mergeable = "no" THEN RebasePlans(i, failed, s)
                           ELSE {Outcome(x, <<Action("notify-ci-failure", i)>>)}
  BY DEF CiFailed, CountsCi, Only
<1>. QED
  BY <1>1, <1>4, <1>5, <1>6, RebasePlansModest DEF Modest, Outcome

\* handleCiPending.
LEMMA HandleCiPendingGood ==
  ASSUME NEW G, NEW L, NEW c, NEW i, NEW it, NEW s, Facing(G, L, c, i, it, s)
  PROVE  \A o \in HandleCiPending(c, i, it, s) : Good(G, L, i, o)
<1>. USE DEF Facing
<1>1. \A o \in CiFailed(i, it, s) : Good(G, L, i, o)
  BY CiFailedModest, ModestIsGood
<1>2. \A o \in RebasePlans(i, it, s) : Good(G, L, i, o)
  BY RebasePlansModest, ModestIsGood
<1>3. Good(G, L, i, EvaluateMerge(c, i, Moved(it, "ci-passed"), s))
  BY MovedFits, EvaluateMergeOf DEF States
<1>4. Good(G, L, i, Outcome(Resolved(i, it, s).it, Resolved(i, it, s).acts))
  BY ResolvedFits, ModestIsGood DEF Modest, Outcome
<1>5. Good(G, L, i, Outcome(it, <<>>))
  BY NoActs, ModestIsGood DEF Modest, Outcome
<1>. QED
  BY <1>1, <1>2, <1>3, <1>4, <1>5 DEF HandleCiPending, Only, Late

\* handleCiPending on a record changed on the way to it.
LEMMA HandleCiPendingOf ==
  ASSUME NEW G, NEW L, NEW c, NEW i, NEW it, NEW s, Facing(G, L, c, i, it, s), NEW x, Fit(G, L, x)
  PROVE  \A o \in HandleCiPending(c, i, x, s) : Good(G, L, i, o)
<1>1. Facing(G, L, c, i, x, s)
  BY DEF Facing
<1>. QED
  BY <1>1, HandleCiPendingGood

\* handleCiPassed, on the way to a review or a merge.
LEMMA HandleCiPassedGood ==
  ASSUME NEW G, NEW L, NEW c, NEW i, NEW it, NEW s, Facing(G, L, c, i, it, s)
  PROVE  \A o \in HandleCiPassed(c, i, it, s) : Good(G, L, i, o)
<1>. USE DEF Facing
<1>1. \A o \in CiFailed(i, it, s) : Good(G, L, i, o)
  BY CiFailedModest, ModestIsGood
<1>2. Fit(G, L, Moved(it, "ci-pending"))
  BY MovedFits DEF States
<1>3. \A o \in RebasePlans(i, Moved(it, "ci-pending"), s) : Good(G, L, i, o)
  BY <1>2, RebasePlansModest, ModestIsGood
<1>4. Good(G, L, i, Outcome(Cooled(Moved(it, "ci-pending"), s), <<>>))
  BY <1>2, CooledFits, NoActs, ModestIsGood DEF Modest, Outcome
<1>5. Good(G, L, i, EvaluateMerge(c, i, it, s))
  BY EvaluateMergeGood
<1>. QED
  BY <1>1, <1>3, <1>4, <1>5 DEF HandleCiPassed, Only

\* The CI failure over the limit.
LEMMA CiLimitReachedGood ==
  ASSUME NEW G \in BOOLEAN, NEW L \in BOOLEAN, NEW i \in Items, NEW it, Fit(G, L, it), NEW s
  PROVE  Good(G, L, i, CiLimitReached(i, it, s))
<1>. PICK b \in BOOLEAN : b = (s.alive = "yes")
  OBVIOUS
<1>. PICK x : x = Moved(it, "stuck")
  OBVIOUS
<1>1. Fit(G, L, x)
  BY MovedFits DEF States
<1>2. Shape([x EXCEPT !.parked = b])
  BY <1>1, Zenon DEF Shape, Fit
<1>3. Fit(G, L, [x EXCEPT !.parked = b])
  BY <1>1, <1>2 DEF Fit, Typed, Shape, Fields
<1>4. <<Action("workspace-close", i)>> \in Plain(i) /\ <<>> \in Plain(i)
  BY OneAction, NoActs
<1>. QED
  BY <1>3, <1>4, ModestIsGood DEF CiLimitReached, Modest, Outcome

\* CI that is still red, whether a worker lives to fix it or not.
LEMMA StillFailingGood ==
  ASSUME NEW G \in BOOLEAN, NEW L \in BOOLEAN, NEW i \in Items, NEW it, Fit(G, L, it), NEW s, Legible(G, s)
  PROVE  \A o \in StillFailing(i, it, s) : Good(G, L, i, o)
<1>. PICK x : x = [it EXCEPT !.ciNotified = TRUE, !.notifiedAt = it.lastCommit]
  OBVIOUS
<1>. DEFINE tell == ~it.ciNotified \/ it.lastCommit # it.notifiedAt
            told == Counted(IF tell THEN x ELSE it, s)
            acts == IF tell THEN <<Action("notify-ci-failure", i)>> ELSE <<>>
<1>1. Shape(x)
  BY Zenon DEF Shape, Fit
<1>2. Fit(G, L, x)
  BY <1>1 DEF Fit, Typed, Shape, Fields
<1>3. Fit(G, L, told)
  BY <1>2, CountedFits
<1>4. acts \in Plain(i)
  BY OneAction, NoActs
<1>5. Good(G, L, i, RespawnedForCi(i, told))
  BY <1>3, RespawnedForCiModest, ModestIsGood
<1>6. Good(G, L, i, Outcome(Resolved(i, told, s).it, acts \o Resolved(i, told, s).acts))
  <2>1. Fit(G, L, Resolved(i, told, s).it) /\ Resolved(i, told, s).acts \in Plain(i)
    BY <1>3, ResolvedFits
  <2>. HIDE DEF told, acts
  <2>. QED
    BY <1>4, <2>1, PlainThenPlain, ModestIsGood DEF Modest, Outcome
<1>. QED
  BY <1>5, <1>6 DEF StillFailing

\* handleCiFailed.
LEMMA HandleCiFailedGood ==
  ASSUME NEW G, NEW L, NEW c, NEW i, NEW it, NEW s, Facing(G, L, c, i, it, s)
  PROVE  \A o \in HandleCiFailed(c, i, it, s) : Good(G, L, i, o)
<1>1. Good(G, L, i, CiLimitReached(i, it, s))
  BY CiLimitReachedGood DEF Facing
<1>2. Facing(G, L, c, i, Moved(it, "ci-passed"), s)
  BY MovedFits DEF States, Facing
<1>3. \A o \in HandleCiPassed(c, i, Moved(it, "ci-passed"), s) : Good(G, L, i, o)
  BY <1>2, HandleCiPassedGood
<1>4. Good(G, L, i, Outcome(Cooled(Moved(it, "ci-pending"), s), <<>>))
  BY CooledMoveFits, NoActs, ModestIsGood DEF Modest, Outcome, States, Facing
<1>5. \A o \in RebasePlans(i, it, s) : Good(G, L, i, o)
  BY RebasePlansModest, ModestIsGood DEF Facing
<1>6. \A o \in StillFailing(i, it, s) : Good(G, L, i, o)
  BY StillFailingGood DEF Facing
<1>. QED
  BY <1>1, <1>3, <1>4, <1>5, <1>6 DEF HandleCiFailed, Only

---------------------------------------------------------------------------
(* The implementer at work *)

\* handleLaunching.
LEMMA HandleLaunchingGood ==
  ASSUME NEW G \in BOOLEAN, NEW L \in BOOLEAN, NEW i \in Items, NEW it, Fit(G, L, it), NEW s
  PROVE  \A o \in HandleLaunching(i, it, s) : Good(G, L, i, o)
<1>. PICK x : x = Counted(it, s)
  OBVIOUS
<1>1. Fit(G, L, x)
  BY CountedFits
<1>2. Good(G, L, i, Outcome(Moved(x, "implementing"), <<>>)) /\ Good(G, L, i, Outcome(x, <<>>))
  BY <1>1, MovedFits, NoActs, ModestIsGood DEF Modest, Outcome, States
<1>3. Good(G, L, i, StuckOrRetry(i, x))
  BY <1>1, StuckOrRetryModest, ModestIsGood
<1>. QED
  BY <1>2, <1>3 DEF HandleLaunching, Only

\* An answer without a push gives the review back.
LEMMA AnsweredFits ==
  ASSUME NEW G \in BOOLEAN, NEW L \in BOOLEAN, NEW it, Fit(G, L, it)
  PROVE  Fit(G, L, Answered(it))
<1>1. Shape(Answered(it))
  BY Zenon DEF Shape, Fit, Answered
<1>. QED
  BY <1>1, ZeroCommit DEF Fit, Typed, Shape, Fields, Answered

\* The PR the poll found is noted.
LEMMA NotedFits ==
  ASSUME NEW G \in BOOLEAN, NEW L \in BOOLEAN, NEW it, Fit(G, L, it), NEW s, Legible(G, s)
  PROVE  Fit(G, L, [it EXCEPT !.pr = s.num])
<1>1. Shape([it EXCEPT !.pr = s.num])
  BY Zenon DEF Shape, Fit
<1>. QED
  BY <1>1 DEF Fit, Typed, Shape, Fields, Legible

\* A worker that disagrees sends its item back to review.
LEMMA PushbackGood ==
  ASSUME NEW G, NEW L, NEW c, NEW i, NEW it, NEW s, Facing(G, L, c, i, it, s)
  PROVE  \A o \in Pushback(c, i, it, s) : Good(G, L, i, o)
<1>. USE DEF Facing
<1>. PICK a : a = Answered(it)
  OBVIOUS
<1>. PICK x : x = [a EXCEPT !.reviewed = FALSE, !.pr = s.num]
  OBVIOUS
<1>1. Fit(G, L, a)
  BY AnsweredFits
<1>2. Shape(x)
  BY <1>1, Zenon DEF Shape, Fit
<1>3. Fit(G, L, x)
  BY <1>1, <1>2 DEF Fit, Typed, Shape, Fields, Legible
<1>4. Fit(G, L, Moved(x, "ci-pending"))
  BY <1>3, MovedFits DEF States
<1>5. \A o \in HandleCiPending(c, i, Moved(x, "ci-pending"), s) : Good(G, L, i, o)
  BY <1>4, HandleCiPendingOf
<1>6. <<Action("clear-pushback", i)>> \in Plain(i)
  BY OneAction
<1>. QED
  BY <1>5, <1>6, AfterGood DEF Pushback

\* The part of handleImplementing that waits for a pull request.
LEMMA HandleWorkingGood ==
  ASSUME NEW G \in BOOLEAN, NEW L \in BOOLEAN, NEW i \in Items, NEW it, Fit(G, L, it), NEW s
  PROVE  \A o \in HandleWorking(i, it, s) : Good(G, L, i, o)
<1>. PICK x : x = IF s.num = "none" \/ s.alive = "yes" THEN Counted(it, s) ELSE it
  OBVIOUS
<1>1. Fit(G, L, x)
  BY CountedFits
<1>2. it.feedback \in SUBSET Feedback
  BY DEF Fit, Typed
<1>3. \A o \in Lost(i, x, s) : Good(G, L, i, o)
  BY <1>1, LostModest, ModestIsGood
<1>4. Good(G, L, i, RespawnedForFeedback(i, x, it.feedback))
  BY <1>1, <1>2, RespawnedForFeedbackModest, ModestIsGood
<1>5. Good(G, L, i, Outcome(x, <<>>))
  BY <1>1, NoActs, ModestIsGood DEF Modest, Outcome
<1>. QED
  BY <1>3, <1>4, <1>5 DEF HandleWorking, Only, Late

\* handleImplementing.
LEMMA HandleImplementingGood ==
  ASSUME NEW G, NEW L, NEW c, NEW i, NEW it, NEW s, Facing(G, L, c, i, it, s)
  PROVE  \A o \in HandleImplementing(c, i, it, s) : Good(G, L, i, o)
<1>. USE DEF Facing
<1>. PICK x : x = [it EXCEPT !.pr = s.num]
  OBVIOUS
<1>. PICK a : a = Answered(it)
  OBVIOUS
<1>. PICK y : y = [a EXCEPT !.pr = s.num]
  OBVIOUS
<1>1. Fit(G, L, x) /\ Fit(G, L, y)
  BY NotedFits, AnsweredFits
<1>2. \A o \in HandleWorking(i, it, s) : Good(G, L, i, o)
  BY HandleWorkingGood
<1>3. \A o \in HandleWorking(i, x, s) : Good(G, L, i, o)
  BY <1>1, HandleWorkingGood
<1>4. \A o \in HandleCiPending(c, i, Moved(x, "ci-pending"), s) : Good(G, L, i, o)
  BY <1>1, MovedFits, HandleCiPendingOf DEF States
<1>5. \A o \in HandleCiPending(c, i, Moved(y, "ci-pending"), s) : Good(G, L, i, o)
  BY <1>1, MovedFits, HandleCiPendingOf DEF States
<1>6. \A o \in After(<<Action("clear-feedback-done", i)>>,
                     HandleCiPending(c, i, Moved(y, "ci-pending"), s)) : Good(G, L, i, o)
  BY <1>5, OneAction, AfterGood
<1>7. Spurious(it, s) => Good(G, L, i, NoNewInfo(i, it, s))
  BY NoNewInfoModest, ModestIsGood
<1>8. \A o \in Pushback(c, i, it, s) : Good(G, L, i, o)
  BY PushbackGood
<1>. QED
  BY <1>2, <1>3, <1>4, <1>6, <1>7, <1>8 DEF HandleImplementing

---------------------------------------------------------------------------
(* Review *)

\* A record sent through the checks of its CI again.
LEMMA ReevaluatedGood ==
  ASSUME NEW G, NEW L, NEW c, NEW i, NEW it, NEW s, Facing(G, L, c, i, it, s), NEW x, Fit(G, L, x)
  PROVE  Good(G, L, i, Reevaluated(c, i, x, s))
<1>1. Fit(G, L, Moved(x, "ci-passed"))
  BY MovedFits DEF States, Facing
<1>. QED
  BY <1>1, EvaluateMergeOf DEF Reevaluated

\* The reviewer that never wrote to the PR is replaced.
LEMMA RestOfReviewPendingGood ==
  ASSUME NEW G, NEW L, NEW c, NEW i, NEW it, NEW s, Facing(G, L, c, i, it, s)
  PROVE  \A o \in RestOfReviewPending(c, i, it, s) : Good(G, L, i, o)
<1>. USE DEF Facing
<1>. PICK plans : plans = IF s.mergeable = "no" THEN RebasePlans(i, it, s) ELSE Only(it, <<>>)
  OBVIOUS
<1>1. \A o \in plans : Modest(G, L, i, o)
  BY RebasePlansModest, NoActs DEF Modest, Outcome, Only
<1>2. ASSUME NEW o \in plans
      PROVE  LET e == Reevaluated(c, i, [o.it EXCEPT !.reviewed = FALSE, !.lastReviewed = 0,
                                                     !.parked = FALSE], s)
             IN  Good(G, L, i, Outcome(e.it, o.acts \o e.acts))
  <2>. PICK it2 : it2 = o.it
    OBVIOUS
  <2>. PICK x : x = [it2 EXCEPT !.reviewed = FALSE, !.lastReviewed = 0, !.parked = FALSE]
    OBVIOUS
  <2>. PICK e : e = Reevaluated(c, i, x, s)
    OBVIOUS
  <2>1. Fit(G, L, it2) /\ o.acts \in Plain(i)
    BY <1>1 DEF Modest
  <2>2. Shape(x)
    BY <2>1, Zenon DEF Shape, Fit
  <2>3. Fit(G, L, x)
    BY <2>1, <2>2, ZeroCommit, SMTT(40) DEF Fit, Typed, Shape, Fields
  <2>4. Good(G, L, i, e)
    BY <2>3, ReevaluatedGood
  <2>5. Good(G, L, i, Outcome(e.it, o.acts \o e.acts))
    <3>1. \A p \in After(o.acts, {e}) : Good(G, L, i, p)
      BY <2>1, <2>4, AfterGood
    <3>. QED
      BY <3>1 DEF After
  <2>. QED
    BY <2>5
<1>3. \A o \in plans : Good(G, L, i, o)
  BY <1>1, ModestIsGood
<1>. QED
  BY <1>2, <1>3 DEF RestOfReviewPending, Late

\* Changes were requested: a push is awaited, or the worker relaunched.
LEMMA AwaitPushGood ==
  ASSUME NEW G \in BOOLEAN, NEW L \in BOOLEAN, NEW i \in Items, NEW it, Fit(G, L, it), NEW s
  PROVE  Good(G, L, i, AwaitPush(i, it, s))
<1>. PICK msg : msg = IF it.feedback # {} THEN it.feedback ELSE {"review"}
  OBVIOUS
<1>1. msg \in SUBSET Feedback
  BY DEF Fit, Typed, Feedback
<1>2. Good(G, L, i, RespawnedForFeedback(i, it, msg))
  BY <1>1, RespawnedForFeedbackModest, ModestIsGood
<1>3. Good(G, L, i, Outcome(Counted(it, s), <<>>))
  BY CountedFits, NoActs, ModestIsGood DEF Modest, Outcome
<1>. QED
  BY <1>2, <1>3 DEF AwaitPush

\* A review that ended with a verdict.
LEMMA SettledReviewGood ==
  ASSUME NEW G, NEW L, NEW c, NEW i, NEW it, NEW s, Facing(G, L, c, i, it, s), NEW acts \in Plain(i)
  PROVE  \A o \in SettledReview(c, i, it, s, acts) : Good(G, L, i, o)
<1>. USE DEF Facing
<1>1. Good(G, L, i, Outcome(it, acts))
  BY ModestIsGood DEF Modest, Outcome
<1>2. \A o \in After(acts, {EvaluateMerge(c, i, it, s)}) : Good(G, L, i, o)
  BY EvaluateMergeGood, AfterGood
<1>3. Good(G, L, i, RespawnedForCi(i, CountsCi(it)))
  BY CountsCiFits, RespawnedForCiModest, ModestIsGood
<1>4. \A o \in After(acts, CiFailed(i, it, s)) : Good(G, L, i, o)
  BY CiFailedModest, ModestIsGood, AfterGood
<1>5. Good(G, L, i, AwaitPush(i, it, s))
  BY AwaitPushGood
<1>6. Good(G, L, i, Outcome(Cooled(Moved(it, "ci-pending"), s), acts))
  BY CooledMoveFits, ModestIsGood DEF Modest, Outcome, States
<1>7. \A o \in After(acts, {Reevaluated(c, i, it, s)}) : Good(G, L, i, o)
  BY ReevaluatedGood, AfterGood
<1>8. \A o \in After(acts, RestOfReviewPending(c, i, it, s)) : Good(G, L, i, o)
  BY RestOfReviewPendingGood, AfterGood
<1>. QED
  BY <1>1, <1>2, <1>3, <1>4, <1>5, <1>6, <1>7, <1>8 DEF SettledReview, Only, CountsCi

\* Comments come before the verdict of a review.
LEMMA FeedbackOrReviewGood ==
  ASSUME NEW G, NEW L, NEW c, NEW i, NEW it, NEW s, Facing(G, L, c, i, it, s), NEW acts \in Plain(i)
  PROVE  \A o \in FeedbackOrReview(c, i, it, s, acts) : Good(G, L, i, o)
<1>1. Good(G, L, i, Handoff(i, it, s))
  BY HandoffModest, ModestIsGood DEF Facing
<1>2. Good(G, L, i, Outcome(Resolved(i, it, s).it, Resolved(i, it, s).acts))
  BY ResolvedFits, ModestIsGood DEF Modest, Outcome, Facing
<1>3. \A o \in SettledReview(c, i, it, s, acts) : Good(G, L, i, o)
  BY SettledReviewGood
<1>. QED
  BY <1>1, <1>2, <1>3 DEF FeedbackOrReview, Only

\* handleReviewPending.
LEMMA HandleReviewPendingGood ==
  ASSUME NEW G, NEW L, NEW c, NEW i, NEW it, NEW s, Facing(G, L, c, i, it, s)
  PROVE  \A o \in HandleReviewPending(c, i, it, s) : Good(G, L, i, o)
<1>. PICK clear : clear = <<Action("clear-feedback-done", i)>>
  OBVIOUS
<1>. PICK answered : answered = Answered(it)
  OBVIOUS
<1>1. Fit(G, L, answered) /\ Facing(G, L, c, i, answered, s)
  BY AnsweredFits DEF Facing
<1>2. clear \in Plain(i) /\ <<>> \in Plain(i)
  BY OneAction, NoActs DEF Facing
<1>3. Good(G, L, i, Reevaluated(c, i, it, s)) /\ Good(G, L, i, Reevaluated(c, i, answered, s))
  BY <1>1, ReevaluatedGood DEF Facing
<1>4. Spurious(it, s) => Good(G, L, i, NoNewInfo(i, it, s))
  BY NoNewInfoModest, ModestIsGood
<1>5. \A o \in Pushback(c, i, it, s) : Good(G, L, i, o)
  BY PushbackGood
<1>6. /\ \A o \in FeedbackOrReview(c, i, it, s, <<>>) : Good(G, L, i, o)
      /\ \A o \in FeedbackOrReview(c, i, answered, s, clear) : Good(G, L, i, o)
  BY <1>1, <1>2, FeedbackOrReviewGood
<1>7. Good(G, L, i, Outcome(Cooled(Moved(answered, "ci-pending"), s), clear))
  BY <1>1, <1>2, CooledMoveFits, ModestIsGood DEF Modest, Outcome, States, Facing
<1>8. \A o \in After(clear, {Reevaluated(c, i, answered, s)}) : Good(G, L, i, o)
  BY <1>2, <1>3, AfterGood
<1>. QED
  BY <1>3, <1>4, <1>5, <1>6, <1>7, <1>8 DEF HandleReviewPending, Only

\* A verdict that approves is the one thing that makes an item reviewed.
LEMMA HandleReviewingGood ==
  ASSUME NEW G, NEW L, NEW c, NEW i, NEW it, NEW s, Facing(G, L, c, i, it, s)
  PROVE  \A o \in HandleReviewing(c, i, it, s) : Good(G, L, i, o)
<1>. USE DEF Facing
<1>. PICK clean : clean = <<Action("clean-review", i)>>
  OBVIOUS
<1>. PICK post : post = <<Action("post-review", i)>>
  OBVIOUS
<1>. PICK ruled : ruled = [it EXCEPT !.lastReviewed = s.head]
  OBVIOUS
<1>. PICK counted : counted = IF it.reviewWs THEN Counted(it, s) ELSE it
  OBVIOUS
<1>. PICK failed : failed = CountsCi(counted)
  OBVIOUS
<1>. PICK passed : passed = [ruled EXCEPT !.reviewed = TRUE, !.lastApproved = s.head]
  OBVIOUS
<1>. PICK sent : sent = [Moved(ruled, "review-pending") EXCEPT !.feedback = {"review"}]
  OBVIOUS
<1>1. clean \in Plain(i) /\ post \in Plain(i) /\ <<>> \in Plain(i)
  BY OneAction, NoActs
<1>2. clean \o post \in Plain(i)
  BY <1>1, PlainThenPlain
<1>3. Fit(G, L, ruled)
  <2>1. Shape(ruled)
    BY Zenon DEF Shape, Fit
  <2>. QED
    BY <2>1 DEF Fit, Typed, Shape, Fields, Legible
<1>4. Fit(G, L, counted) /\ Fit(G, L, failed)
  BY CountedFits, CountsCiFits
<1>5. s.verdict = "approve" => Fit(G, L, passed)
  <2>1. Shape(passed)
    BY <1>3, Zenon DEF Shape, Fit
  <2>. QED
    BY <1>3, <2>1 DEF Fit, Typed, Shape, Fields, Legible
<1>6. Fit(G, L, sent)
  <2>. PICK x : x = Moved(ruled, "review-pending")
    OBVIOUS
  <2>1. Fit(G, L, x)
    BY <1>3, MovedFits DEF States
  <2>2. Shape([x EXCEPT !.feedback = {"review"}])
    BY <2>1, Zenon DEF Shape, Fit
  <2>3. {"review"} \in SUBSET Feedback
    BY DEF Feedback
  <2>. QED
    BY <2>1, <2>2, <2>3 DEF Fit, Typed, Shape, Fields
<1>7. s.verdict = "approve" =>
        \A o \in After(clean \o post, {Reevaluated(c, i, passed, s)}) : Good(G, L, i, o)
  BY <1>2, <1>5, ReevaluatedGood, AfterGood
<1>8. Good(G, L, i, Outcome(sent, clean \o post))
  BY <1>2, <1>6, ModestIsGood DEF Modest, Outcome
<1>9. /\ \A o \in After(clean, {Reevaluated(c, i, it, s)}) : Good(G, L, i, o)
      /\ \A o \in After(clean, {Reevaluated(c, i, counted, s)}) : Good(G, L, i, o)
  BY <1>1, <1>4, ReevaluatedGood, AfterGood
<1>10. \A o \in After(clean, RebasePlans(i, failed, s)) : Good(G, L, i, o)
  BY <1>1, <1>4, RebasePlansModest, ModestIsGood, AfterGood
<1>11. \A o \in After(clean, {Outcome(failed, <<Action("notify-ci-failure", i)>>)}) : Good(G, L, i, o)
  <2>1. Good(G, L, i, Outcome(failed, <<Action("notify-ci-failure", i)>>))
    BY <1>4, OneAction, ModestIsGood DEF Modest, Outcome
  <2>. QED
    BY <1>1, <2>1, AfterGood
<1>12. \A o \in After(clean, RebasePlans(i, Moved(counted, "ci-pending"), s)) : Good(G, L, i, o)
  <2>1. Fit(G, L, Moved(counted, "ci-pending"))
    BY <1>4, MovedFits DEF States
  <2>. QED
    BY <1>1, <2>1, RebasePlansModest, ModestIsGood, AfterGood
<1>13. Good(G, L, i, Outcome(counted, <<>>))
  BY <1>1, <1>4, ModestIsGood DEF Modest, Outcome
<1>14. HandleReviewing(c, i, it, s) =
         IF s.verdict = "approve" THEN After(clean \o post, {Reevaluated(c, i, passed, s)})
         ELSE IF s.verdict = "request-changes" THEN {Outcome(sent, clean \o post)}
         ELSE IF Drained(c, it) THEN After(clean, {Reevaluated(c, i, it, s)})
         ELSE IF it.reviewWs /\ Dead(it, s) THEN After(clean, {Reevaluated(c, i, counted, s)})
         ELSE IF s.ci = "fail"
         THEN After(clean, IF s.mergeable = "no" THEN RebasePlans(i, failed, s)
                           ELSE {Outcome(failed, <<Action("notify-ci-failure", i)>>)})
         ELSE IF s.mergeable = "no"
         THEN After(clean, RebasePlans(i, Moved(counted, "ci-pending"), s))
         ELSE {Outcome(counted, <<>>)}
  BY DEF HandleReviewing, Only, CountsCi
<1>. QED
  BY <1>7, <1>8, <1>9, <1>10, <1>11, <1>12, <1>13, <1>14

---------------------------------------------------------------------------
(* Rebaser, merge, and what follows a merge *)

\* handleRebasing.
LEMMA HandleRebasingGood ==
  ASSUME NEW G, NEW L, NEW c, NEW i, NEW it, NEW s, Facing(G, L, c, i, it, s)
  PROVE  \A o \in HandleRebasing(i, it, s) : Good(G, L, i, o)
<1>. USE DEF Facing
<1>. PICK clean : clean = <<Action("clean-rebaser", i)>>
  OBVIOUS
<1>. PICK count : count = IF it.rebaserWs THEN Counted(it, s) ELSE it
  OBVIOUS
<1>1. clean \in Plain(i) /\ <<>> \in Plain(i)
  BY OneAction, NoActs
<1>2. Fit(G, L, count)
  BY CountedFits
<1>3. Good(G, L, i, Outcome(Cooled(Moved(it, "ci-pending"), s), clean))
  BY <1>1, CooledMoveFits, ModestIsGood DEF Modest, Outcome, States
<1>4. Good(G, L, i, Outcome(Moved(count, "stuck"), clean))
  BY <1>1, <1>2, MovedFits, ModestIsGood DEF Modest, Outcome, States
<1>5. Good(G, L, i, Outcome(count, <<>>)) /\ Good(G, L, i, Outcome(it, <<>>))
  BY <1>1, <1>2, ModestIsGood DEF Modest, Outcome
<1>. QED
  BY <1>3, <1>4, <1>5 DEF HandleRebasing, Only

\* A merge that is retried looks at the feedback again.
LEMMA HandleMergingGood ==
  ASSUME NEW G, NEW L, NEW c, NEW i, NEW it, NEW s, Facing(G, L, c, i, it, s), it.state = "merging"
  PROVE  \A o \in HandleMerging(c, i, it, s) : Good(G, L, i, o)
<1>. USE DEF Facing
<1>1. Good(G, L, i, Handoff(i, it, s))
  BY HandoffModest, ModestIsGood
<1>2. Good(G, L, i, Outcome(Resolved(i, it, s).it, Resolved(i, it, s).acts))
  BY ResolvedFits, ModestIsGood DEF Modest, Outcome
<1>3. Good(G, L, i, Outcome(it, <<>>))
  BY NoActs, ModestIsGood DEF Modest, Outcome
<1>4. ~AwaitsHandoff(it) /\ ~Resolved(i, it, s).held => Good(G, L, i, Outcome(it, <<Action("merge", i)>>))
  <2>1. G
    BY DEF Fit
  <2>2. ~AwaitsHandoff(it) /\ ~Resolved(i, it, s).held => Quiet(it)
    BY ResolvedFits DEF Quiet
  <2>. QED
    BY <2>1, <2>2, OneMerge DEF Good, Outcome
<1>. QED
  BY <1>1, <1>2, <1>3, <1>4 DEF HandleMerging, Only

\* The failure of a merge commit on the default branch is counted.
LEMMA MainFailedFits ==
  ASSUME NEW G \in BOOLEAN, NEW L \in BOOLEAN, NEW it, Fit(G, L, it)
  PROVE  Fit(G, L, MainFailed(it))
<1>. PICK n : n = IF it.fixFails < MaxFixForwardRetries THEN it.fixFails + 1 ELSE it.fixFails
  OBVIOUS
<1>. PICK x : x = [it EXCEPT !.fixFails = n]
  OBVIOUS
<1>1. n \in Nat
  BY DEF Fit, Typed
<1>2. Shape(x)
  BY Zenon DEF Shape, Fit
<1>3. Fit(G, L, x)
  BY <1>1, <1>2 DEF Fit, Typed, Shape, Fields
<1>4. MainFailed(it) = Moved(x, "fix-forward-failed")
  BY DEF MainFailed
<1>. QED
  BY <1>3, <1>4, MovedFits DEF States

\* handleMerged.
LEMMA HandleMergedGood ==
  ASSUME NEW G, NEW L, NEW c, NEW i, NEW it, NEW s, Facing(G, L, c, i, it, s)
  PROVE  \A o \in HandleMerged(i, it, s) : Good(G, L, i, o)
<1>. USE DEF Facing
<1>. PICK acts : acts = IF it.ws # 0 THEN <<Action("workspace-close", i)>> ELSE <<>>
  OBVIOUS
<1>1. acts \in Plain(i)
  BY OneAction, NoActs
<1>2. \A x \in {Moved(it, "done"), MainFailed(it), Moved(it, "forward-fix-pending"), it} : Fit(G, L, x)
  BY MovedFits, MainFailedFits DEF States
<1>3. \A x \in {Moved(it, "done"), MainFailed(it), Moved(it, "forward-fix-pending"), it} :
        Good(G, L, i, Outcome(x, acts))
  BY <1>1, <1>2, ModestIsGood DEF Modest, Outcome
<1>. QED
  BY <1>3 DEF HandleMerged, Only

\* handleForwardFixPending.
LEMMA HandleForwardFixPendingGood ==
  ASSUME NEW G, NEW L, NEW c, NEW i, NEW it, NEW s, Facing(G, L, c, i, it, s)
  PROVE  \A o \in HandleForwardFixPending(i, it, s) : Good(G, L, i, o)
<1>. USE DEF Facing
<1>1. \A x \in {Moved(it, "done"), MainFailed(it), it} : Fit(G, L, x)
  BY MovedFits, MainFailedFits DEF States
<1>2. \A x \in {Moved(it, "done"), MainFailed(it), it} : Good(G, L, i, Outcome(x, <<>>))
  BY <1>1, NoActs, ModestIsGood DEF Modest, Outcome
<1>. QED
  BY <1>2 DEF HandleForwardFixPending, Only, Late

\* handleFixForwardFailed.
LEMMA HandleFixForwardFailedGood ==
  ASSUME NEW G, NEW L, NEW c, NEW i, NEW it, NEW s, Facing(G, L, c, i, it, s)
  PROVE  \A o \in HandleFixForwardFailed(i, it, s) : Good(G, L, i, o)
<1>. USE DEF Facing
<1>1. \A x \in {Moved(it, "done"), Moved(it, "stuck"), Moved(it, "fixing-forward"), it} : Fit(G, L, x)
  BY MovedFits DEF States
<1>2. \A x \in {Moved(it, "done"), Moved(it, "stuck"), Moved(it, "fixing-forward"), it} :
        /\ Good(G, L, i, Outcome(x, <<>>))
        /\ Good(G, L, i, Outcome(x, <<Action("launch-forward-fixer", i)>>))
  BY <1>1, NoActs, OneAction, ModestIsGood DEF Modest, Outcome
<1>. QED
  BY <1>2 DEF HandleFixForwardFailed, Only

\* The repair pull request becomes the one the record tracks.
LEMMA AdoptedFits ==
  ASSUME NEW G \in BOOLEAN, NEW L \in BOOLEAN, NEW it, Fit(G, L, it), NEW s, Legible(G, s)
  PROVE  Fit(G, L, Adopted(it, s))
<1>1. Shape(Adopted(it, s))
  BY ZenonT(60) DEF Shape, Fit, Adopted
<1>2. Typed(Adopted(it, s))
  BY ZeroCommit DEF Fit, Typed, Shape, Fields, Adopted, Legible
<1>3. /\ Adopted(it, s).retries = it.retries /\ Adopted(it, s).round = 0
      /\ Adopted(it, s).mergeFails = 0 /\ Adopted(it, s).rebaseAttempts = it.rebaseAttempts
      /\ Adopted(it, s).reviewed = FALSE /\ Adopted(it, s).lastApproved = it.lastApproved
      /\ Adopted(it, s).state = it.state /\ Adopted(it, s).illegal = it.illegal
  BY DEF Fit, Shape, Fields, Adopted
<1>. QED
  BY <1>1, <1>2, <1>3, Limits0 DEF Fit

\* handleFixingForward.
LEMMA HandleFixingForwardGood ==
  ASSUME NEW G, NEW L, NEW c, NEW i, NEW it, NEW s, Facing(G, L, c, i, it, s)
  PROVE  \A o \in HandleFixingForward(c, i, it, s) : Good(G, L, i, o)
<1>. USE DEF Facing
<1>. PICK clean : clean = IF it.fixWs THEN <<Action("clean-forward-fixer", i)>> ELSE <<>>
  OBVIOUS
<1>. PICK a : a = Adopted(it, s)
  OBVIOUS
<1>. PICK x : x = Counted(it, s)
  OBVIOUS
<1>1. Fit(G, L, a) /\ Fit(G, L, x)
  BY AdoptedFits, CountedFits
<1>2. clean \in Plain(i) /\ <<>> \in Plain(i)
  BY OneAction, NoActs
<1>3. \A y \in {Moved(a, "merged"), Moved(it, "done"), Moved(x, "stuck"), x, it} : Fit(G, L, y)
  BY <1>1, MovedFits DEF States
<1>4. \A y \in {Moved(a, "merged"), Moved(it, "done"), Moved(x, "stuck"), x, it} :
        Good(G, L, i, Outcome(y, clean)) /\ Good(G, L, i, Outcome(y, <<>>))
  BY <1>2, <1>3, ModestIsGood DEF Modest, Outcome
<1>5. \A o \in HandleCiPending(c, i, Moved(a, "ci-pending"), s) : Good(G, L, i, o)
  BY <1>1, MovedFits, HandleCiPendingOf DEF States
<1>. QED
  BY <1>4, <1>5 DEF HandleFixingForward, Only

---------------------------------------------------------------------------
(* One item, one poll *)

\* The handler of each state.
LEMMA HandledGood ==
  ASSUME NEW G, NEW L, NEW c, NEW i, NEW it, NEW s, Facing(G, L, c, i, it, s)
  PROVE  \A o \in Handled(c, i, it, s) : Good(G, L, i, o)
<1>1. \A o \in HandleLaunching(i, it, s) : Good(G, L, i, o)
  BY HandleLaunchingGood DEF Facing
<1>2. \A o \in HandleImplementing(c, i, it, s) : Good(G, L, i, o)
  BY HandleImplementingGood
<1>3. \A o \in HandleCiPending(c, i, it, s) : Good(G, L, i, o)
  BY HandleCiPendingGood
<1>4. \A o \in HandleCiPassed(c, i, it, s) : Good(G, L, i, o)
  BY HandleCiPassedGood
<1>5. \A o \in HandleCiFailed(c, i, it, s) : Good(G, L, i, o)
  BY HandleCiFailedGood
<1>6. \A o \in HandleRebasing(i, it, s) : Good(G, L, i, o)
  BY HandleRebasingGood
<1>7. \A o \in HandleReviewing(c, i, it, s) : Good(G, L, i, o)
  BY HandleReviewingGood
<1>8. \A o \in HandleReviewPending(c, i, it, s) : Good(G, L, i, o)
  BY HandleReviewPendingGood
<1>9. it.state = "merging" => \A o \in HandleMerging(c, i, it, s) : Good(G, L, i, o)
  BY HandleMergingGood
<1>10. \A o \in HandleMerged(i, it, s) : Good(G, L, i, o)
  BY HandleMergedGood
<1>11. \A o \in HandleForwardFixPending(i, it, s) : Good(G, L, i, o)
  BY HandleForwardFixPendingGood
<1>12. \A o \in HandleFixForwardFailed(i, it, s) : Good(G, L, i, o)
  BY HandleFixForwardFailedGood
<1>13. \A o \in HandleFixingForward(c, i, it, s) : Good(G, L, i, o)
  BY HandleFixingForwardGood
<1>14. \A o \in Only(it, <<>>) : Good(G, L, i, o)
  BY NoActs, ModestIsGood DEF Modest, Outcome, Facing, Only
<1>. QED
  BY <1>1, <1>2, <1>3, <1>4, <1>5, <1>6, <1>7, <1>8, <1>9, <1>10, <1>11, <1>12, <1>13, <1>14
  DEF Handled

\* What is checked before the handler of the state: a merge seen from outside, a conflict.
LEMMA InterceptedGood ==
  ASSUME NEW G, NEW L, NEW c, NEW i, NEW it, NEW s, Facing(G, L, c, i, it, s)
  PROVE  Good(G, L, i, Intercepted(i, it, s))
<1>. USE DEF Facing
<1>. PICK p : p = IF it.pr = "none" THEN s.num ELSE it.pr
  OBVIOUS
<1>. PICK x : x = [it EXCEPT !.pr = p]
  OBVIOUS
<1>. PICK r : r = IF it.reviewWs THEN <<Action("clean-review", i)>> ELSE <<>>
  OBVIOUS
<1>. PICK f : f = IF it.fixWs THEN <<Action("clean-forward-fixer", i)>> ELSE <<>>
  OBVIOUS
<1>1. Shape(x)
  BY Zenon DEF Shape, Fit
<1>2. p \in {"none", "work", "repair"}
  BY DEF Fit, Typed, Legible
<1>3. Fit(G, L, x)
  BY <1>1, <1>2 DEF Fit, Typed, Shape, Fields
<1>4. Fit(G, L, Moved(x, "merged"))
  BY <1>3, MovedFits DEF States
<1>5. r \in Plain(i) /\ f \in Plain(i) /\ <<Action("clean", i)>> \in Plain(i)
  BY OneAction, NoActs
<1>6. <<Action("clean", i)>> \o r \o f \in Plain(i)
  BY <1>5, PlainThenPlain
<1>7. Intercepted(i, it, s) = Outcome(Moved(x, "merged"), <<Action("clean", i)>> \o r \o f)
  BY DEF Intercepted
<1>. QED
  BY <1>4, <1>6, <1>7, ModestIsGood DEF Modest, Outcome

\* The last look at a pending batch: an outcome with a merge has none.
LEMMA TrailedGood ==
  ASSUME NEW G \in BOOLEAN, NEW L \in BOOLEAN, NEW i \in Items, NEW o, Good(G, L, i, o), NEW s, Legible(G, s)
  PROVE  Good(G, L, i, Trailed(i, o, s))
<1>1. CASE ~Resolved(i, o.it, s).held
  BY <1>1 DEF Trailed
<1>2. CASE Resolved(i, o.it, s).held
  <2>1. /\ Fit(G, L, Resolved(i, o.it, s).it) /\ Resolved(i, o.it, s).acts \in Plain(i)
        /\ o.it.batch # {}
    BY <1>2, ResolvedFits DEF Good
  <2>2. o.acts \in Plain(i)
    BY <2>1 DEF Good, Quiet
  <2>3. o.acts \o Resolved(i, o.it, s).acts \in Plain(i)
    BY <2>1, <2>2, PlainThenPlain
  <2>. QED
    BY <1>2, <2>1, <2>3, ModestIsGood DEF Trailed, Modest, Outcome
<1>. QED
  BY <1>1, <1>2

\* transitionItem: what is asked of every state, every snapshot and every setting.  The record
\* stays typed and within its budgets, the actions are the item's own, and a merge is among
\* them only with an approval on record and no comment that waits.
THEOREM TransitionedGood ==
  ASSUME NEW G, NEW L, NEW c, NEW i, NEW it, NEW s, Facing(G, L, c, i, it, s)
  PROVE  \A o \in Transitioned(c, i, it, s) : Good(G, L, i, o)
<1>1. Good(G, L, i, Intercepted(i, it, s))
  BY InterceptedGood
<1>2. ASSUME NEW in \in Ingested(Tracked(it, s), s), NEW o \in Handled(c, i, in, s)
      PROVE  Good(G, L, i, Trailed(i, o, s))
  <2>1. Fit(G, L, Tracked(it, s))
    BY TrackedFits DEF Facing
  <2>2. Fit(G, L, in)
    BY <2>1, IngestedFits DEF Facing
  <2>3. Good(G, L, i, o)
    BY <2>2, HandledGood DEF Facing
  <2>. QED
    BY <2>3, TrailedGood DEF Facing
<1>. QED
  BY <1>1, <1>2 DEF Transitioned

-----------------------------------------------------------------------------
(* The actions *)

\* With on, whatever is reviewed has been approved by a reviewer.
Earned(on, i) == on => judged[i] # {}

ItemsFit(on) ==
  /\ item = [i \in Items |-> item[i]]
  /\ \A i \in Items : Fit(Earned(on, i), TRUE, item[i])

WorldOK ==
  /\ WorldTypeOK
  /\ \A i \in Items : verdict[i] = "approve" => judged[i] # {}

---------------------------------------------------------------------------
(* Records after a step *)

\* What the merge of an item depends on is the same in both records.
Alike(x, y) ==
  /\ SameMail(x, y) /\ x.state = y.state /\ x.illegal = y.illegal
  /\ x.mergeFails = y.mergeFails

\* The stamp of the last transition keeps a record fit.
LEMMA StampedFits ==
  ASSUME NEW G \in BOOLEAN, NEW L \in BOOLEAN, NEW i \in Items, posted[i] \in SUBSET Comments,
         NEW it, Fit(G, L, it)
  PROVE  Fit(G, L, Stamped(i, it)) /\ Alike(it, Stamped(i, it))
<1>. PICK p : p = IF it.touched /\ ~it.checked THEN posted[i] ELSE it.since
  OBVIOUS
<1>. PICK x : x = [it EXCEPT !.since = p, !.touched = FALSE]
  OBVIOUS
<1>1. x = Stamped(i, it)
  BY DEF Stamped
<1>2. p \in SUBSET Comments
  BY DEF Fit, Typed
<1>3. Shape(x)
  BY Zenon DEF Shape, Fit
<1>4. Fit(G, L, x) /\ Alike(it, x)
  BY <1>2, <1>3 DEF Fit, Typed, Shape, Fields, Alike, SameMail
<1>. QED
  BY <1>1, <1>4

\* What Commit leaves of one item.
LEMMA CommitFits ==
  ASSUME NEW G \in BOOLEAN, NEW L \in BOOLEAN, WorldTypeOK,
         NEW records, Commit(records), NEW i \in Items, Fit(G, L, records[i])
  PROVE  /\ item' = [j \in Items |-> item'[j]]
         /\ Fit(G, L, item'[i]) /\ Alike(records[i], item'[i])
<1>1. item' = [j \in Items |-> Stamped(j, records[j])]
  BY DEF Commit
<1>2. item'[i] = Stamped(i, records[i])
  BY <1>1
<1>3. posted[i] \in SUBSET Comments
  BY DEF WorldTypeOK
<1>. QED
  BY <1>1, <1>2, <1>3, StampedFits

---------------------------------------------------------------------------
(* The world *)

PullRecords ==
  [pr : {"none", "open", "merged"}, kind : {"work", "repair"},
   ci : {"none", "pending", "pass", "fail"}, mergeable : {"yes", "no"},
   approved : BOOLEAN, agents : SUBSET {"review", "note"}, fresh : BOOLEAN,
   base : Items \cup {NoItem}, main : {"none", "pending", "pass", "fail"}]

\* The fields of a pull request that steps change, one or two at a time, keep it well typed.
LEMMA PullChanges ==
  ASSUME NEW p \in PullRecords
  PROVE  /\ Pushed(p) \in PullRecords /\ Rebased(p) \in PullRecords /\ Landed(p) \in PullRecords
         /\ \A m \in {"yes", "no"} : [p EXCEPT !.mergeable = m] \in PullRecords
         /\ \A b \in Items \cup {NoItem} : [p EXCEPT !.base = b] \in PullRecords
         /\ \A b \in Items \cup {NoItem}, m \in {"yes", "no"} :
              [p EXCEPT !.base = b, !.mergeable = m] \in PullRecords
         /\ \A c \in {"none", "pending", "pass", "fail"} :
              /\ [p EXCEPT !.ci = c, !.fresh = TRUE] \in PullRecords
              /\ [p EXCEPT !.main = c] \in PullRecords
              /\ [p EXCEPT !.kind = "repair", !.main = c] \in PullRecords
         /\ \A b \in BOOLEAN : [p EXCEPT !.approved = b] \in PullRecords /\ [p EXCEPT !.fresh = b] \in PullRecords
         /\ \A w \in {"review", "note"} : [p EXCEPT !.agents = @ \cup {w}] \in PullRecords
<1>1. Pushed(p) \in PullRecords
  BY DEF Pushed, PullRecords
<1>2. Rebased(p) \in PullRecords
  BY <1>1 DEF Rebased, PullRecords
<1>3. Landed(p) \in PullRecords
  BY DEF Landed, PullRecords
<1>4. /\ \A m \in {"yes", "no"} : [p EXCEPT !.mergeable = m] \in PullRecords
      /\ \A b \in Items \cup {NoItem} : [p EXCEPT !.base = b] \in PullRecords
  BY DEF PullRecords
<1>5. \A c \in {"none", "pending", "pass", "fail"} : /\ [p EXCEPT !.ci = c, !.fresh = TRUE] \in PullRecords
                                                     /\ [p EXCEPT !.main = c] \in PullRecords
  BY DEF PullRecords
<1>9. \A c \in {"none", "pending", "pass", "fail"} :
        [p EXCEPT !.kind = "repair", !.main = c] \in PullRecords
  BY DEF PullRecords
<1>6. \A b \in BOOLEAN : [p EXCEPT !.approved = b] \in PullRecords /\ [p EXCEPT !.fresh = b] \in PullRecords
  BY DEF PullRecords
<1>7. \A w \in {"review", "note"} : [p EXCEPT !.agents = @ \cup {w}] \in PullRecords
  BY DEF PullRecords
<1>8. \A b \in Items \cup {NoItem}, m \in {"yes", "no"} :
        [p EXCEPT !.base = b, !.mergeable = m] \in PullRecords
  BY DEF PullRecords
<1>. QED
  BY <1>1, <1>2, <1>3, <1>4, <1>5, <1>6, <1>7, <1>8, <1>9

\* A repair pull request that has just been opened is well typed.
LEMMA RepairTyped ==
  ASSUME NEW m \in {"none", "pending", "pass", "fail"}
  PROVE  [Pushed(NoPullRequest) EXCEPT !.kind = "repair", !.main = m] \in PullRecords
<1>1. NoPullRequest \in PullRecords
  BY DEF NoPullRequest, PullRecords
<1>. PICK p : p = Pushed(NoPullRequest)
  OBVIOUS
<1>2. p \in PullRecords
  BY <1>1, PullChanges
<1>3. [p EXCEPT !.kind = "repair", !.main = m] \in PullRecords
  BY <1>2, PullChanges
<1>. QED
  BY <1>3, Zenon

\* The records of GitHub, apart from the rest of the world's types.
LEMMA WorldTypes == WorldTypeOK => gh \in [Items -> PullRecords]
  BY DEF WorldTypeOK, PullRecords

\* An approval is never taken back, so what was earned stays earned.
Approvals == \A i \in Items : judged[i] # {} => judged'[i] # {}

\* World steps keep the types of the world, approve with every approval, and take none back.
LEMMA WorldStepOK ==
  ASSUME WorldOK, NEW i \in Items, item[i].base \in Items \cup {NoItem}, WorldStep(i)
  PROVE  WorldOK' /\ Approvals
<1>. USE DEF WorldOK
<1>0. gh \in [Items -> PullRecords] /\ gh[i] \in PullRecords
  BY WorldTypes
<1>1. CASE WorkerPushes(i, item[i].base)
  <2>1. PICK m \in {gh[i].mergeable, "yes"} :
          gh' = [gh EXCEPT ![i] = [Pushed(gh[i]) EXCEPT
                                       !.base = IF gh[i].pr = "none" THEN item[i].base ELSE @,
                                       !.mergeable = m]]
    BY <1>1 DEF WorkerPushes
  <2>. PICK b : b = IF gh[i].pr = "none" THEN item[i].base ELSE Pushed(gh[i]).base
    OBVIOUS
  <2>. PICK r : r = [Pushed(gh[i]) EXCEPT !.base = b, !.mergeable = m]
    OBVIOUS
  <2>2. Pushed(gh[i]) \in PullRecords
    BY <1>0, PullChanges
  <2>3. b \in Items \cup {NoItem} /\ m \in {"yes", "no"}
    BY <1>0, <2>2 DEF PullRecords
  <2>5. r \in PullRecords
    BY <2>2, <2>3, PullChanges
  <2>6. gh' = [gh EXCEPT ![i] = r]
    BY <2>1, Zenon
  <2>7. gh' \in [Items -> PullRecords]
    BY <1>0, <2>5, <2>6
  <2>8. head' \in [Items -> Commits]
    BY <1>1, BoundsAssumption DEF WorkerPushes, WorldTypeOK, Commits
  <2>. QED
    BY <1>1, <2>7, <2>8 DEF WorkerPushes, WorldTypeOK, PullRecords, Approvals
<1>2. CASE WorkerReads(i) \/ WorkerSignals(i) \/ SessionDies(i) \/ HelperDies(i) \/ HumanComments(i)
  <2>1. CASE WorkerReads(i)
    BY <2>1 DEF WorkerReads, WorldTypeOK, Approvals
  <2>2. CASE WorkerSignals(i)
    BY <2>2 DEF WorkerSignals, WorldTypeOK, Approvals
  <2>3. CASE SessionDies(i)
    BY <2>3, FaultsAssumption DEF SessionDies, Fault, WorldTypeOK, Approvals
  <2>4. CASE HelperDies(i)
    BY <2>4, FaultsAssumption DEF HelperDies, Fault, WorldTypeOK, Approvals
  <2>5. CASE HumanComments(i)
    BY <2>5 DEF HumanComments, WorldTypeOK, Approvals
  <2>. QED
    BY <1>2, <2>1, <2>2, <2>3, <2>4, <2>5
<1>3. CASE ReviewerDecides(i)
  <2>1. PICK v \in {"approve", "request-changes"} :
          /\ verdict' = [verdict EXCEPT ![i] = v]
          /\ judged' = [judged EXCEPT ![i] = IF v = "approve" THEN @ \cup {head[i]} ELSE @]
    BY <1>3 DEF ReviewerDecides
  <2>2. head[i] \in Commits /\ judged[i] \in SUBSET Commits
    BY DEF WorldTypeOK
  <2>3. /\ verdict' \in [Items -> {"none", "approve", "request-changes"}]
        /\ judged' \in [Items -> SUBSET Commits]
    BY <2>1, <2>2 DEF WorldTypeOK
  <2>4. \A j \in Items : /\ verdict'[j] = IF j = i THEN v ELSE verdict[j]
                         /\ judged[j] \subseteq judged'[j]
                         /\ j = i /\ v = "approve" => head[i] \in judged'[j]
    BY <2>1 DEF WorldTypeOK
  <2>. QED
    BY <1>3, <2>3, <2>4 DEF ReviewerDecides, WorldTypeOK, Approvals
<1>4. CASE RebaserPushes(i)
  <2>1. gh' = [gh EXCEPT ![i] = Rebased(gh[i])] /\ Rebased(gh[i]) \in PullRecords
    BY <1>0, <1>4, PullChanges DEF RebaserPushes
  <2>2. gh' \in [Items -> PullRecords]
    BY <1>0, <2>1
  <2>3. head' \in [Items -> Commits]
    BY <1>4, BoundsAssumption DEF RebaserPushes, WorldTypeOK, Commits
  <2>. QED
    BY <1>4, <2>2, <2>3 DEF RebaserPushes, WorldTypeOK, PullRecords, Approvals
<1>5. CASE FixerOpensPullRequest(i)
  <2>. PICK q : q = [Pushed(NoPullRequest) EXCEPT !.kind = "repair", !.main = gh[i].main]
    OBVIOUS
  <2>1. gh[i].main \in {"none", "pending", "pass", "fail"}
    BY <1>0 DEF PullRecords
  <2>2. q \in PullRecords
    BY <2>1, RepairTyped
  <2>3. gh' = [gh EXCEPT ![i] = q]
    BY <1>5 DEF FixerOpensPullRequest
  <2>4. gh' \in [Items -> PullRecords]
    BY <1>0, <2>2, <2>3
  <2>. QED
    BY <1>5, <2>4 DEF FixerOpensPullRequest, WorldTypeOK, PullRecords, Approvals
<1>6. CASE PriorPullRequest(i)
  <2>1. gh' = [gh EXCEPT ![i] = Pushed(gh[i])] /\ Pushed(gh[i]) \in PullRecords
    BY <1>0, <1>6, PullChanges DEF PriorPullRequest
  <2>2. gh' \in [Items -> PullRecords]
    BY <1>0, <2>1
  <2>3. head' \in [Items -> Commits]
    BY <1>6, BoundsAssumption DEF PriorPullRequest, WorldTypeOK, Commits
  <2>. QED
    BY <1>6, <2>2, <2>3, FaultsAssumption
    DEF PriorPullRequest, Fault, WorldTypeOK, PullRecords, Approvals
<1>7. CASE GithubRetargets(i)
  <2>1. gh' = [gh EXCEPT ![i] = [gh[i] EXCEPT !.base = NoItem]]
    BY <1>7 DEF GithubRetargets
  <2>2. gh' \in [Items -> PullRecords]
    BY <1>0, <2>1, PullChanges
  <2>. QED
    BY <1>7, <2>2 DEF GithubRetargets, WorldTypeOK, PullRecords, Approvals
<1>8. CASE CiPasses(i) \/ CiFails(i)
  <2>1. PICK c \in {"pass", "fail"} : gh' = [gh EXCEPT ![i].ci = c, ![i].fresh = TRUE]
    BY <1>8 DEF CiPasses, CiFails
  <2>2. gh' = [gh EXCEPT ![i] = [gh[i] EXCEPT !.ci = c, !.fresh = TRUE]]
    BY <1>0, <2>1
  <2>3. gh' \in [Items -> PullRecords]
    BY <1>0, <2>2, PullChanges
  <2>. QED
    BY <1>8, <2>3, FaultsAssumption DEF CiPasses, CiFails, Fault, WorldTypeOK, PullRecords, Approvals
<1>9. CASE MainCiPasses(i) \/ MainCiFails(i)
  <2>1. PICK c \in {"pass", "fail"} : gh' = [gh EXCEPT ![i] = [gh[i] EXCEPT !.main = c]]
    BY <1>9 DEF MainCiPasses, MainCiFails
  <2>2. gh' \in [Items -> PullRecords]
    BY <1>0, <2>1, PullChanges
  <2>. QED
    BY <1>9, <2>2, FaultsAssumption DEF MainCiPasses, MainCiFails, Fault, WorldTypeOK, PullRecords, Approvals
<1>10. CASE Conflicts(i)
  <2>1. gh' = [gh EXCEPT ![i] = [gh[i] EXCEPT !.mergeable = "no"]]
    BY <1>10 DEF Conflicts
  <2>2. gh' \in [Items -> PullRecords]
    BY <1>0, <2>1, PullChanges
  <2>. QED
    BY <1>10, <2>2, FaultsAssumption, SMTT(40) DEF Conflicts, Fault, WorldTypeOK, PullRecords, Approvals
<1>11. CASE HumanApproves(i)
  <2>1. gh' = [gh EXCEPT ![i] = [gh[i] EXCEPT !.approved = TRUE]]
    BY <1>11 DEF HumanApproves
  <2>2. gh' \in [Items -> PullRecords]
    BY <1>0, <2>1, PullChanges
  <2>. QED
    BY <1>11, <2>2 DEF HumanApproves, WorldTypeOK, PullRecords, Approvals
<1>12. CASE HumanMerges(i)
  <2>1. gh' = [gh EXCEPT ![i] = Landed(gh[i])]
    BY <1>12 DEF HumanMerges
  <2>2. gh' \in [Items -> PullRecords]
    BY <1>0, <2>1, PullChanges
  <2>. QED
    BY <1>12, <2>2 DEF HumanMerges, WorldTypeOK, PullRecords, Approvals
<1>. QED
  BY <1>1, <1>2, <1>3, <1>4, <1>5, <1>6, <1>7, <1>8, <1>9, <1>10, <1>11, <1>12 DEF WorldStep

---------------------------------------------------------------------------
(* One action: the records *)

\* From x to y nothing is taken up to wait, and no merge attempt is spent.
Steady(x, y) == (Quiet(x) => Quiet(y)) /\ y.mergeFails = x.mergeFails

WasLaunching(i) == item[i].state = "launching"

\* What an action leaves of the records; the merge attempts of the items in spent may change.
Stepped(on, spent) ==
  /\ item' = [j \in Items |-> item'[j]]
  /\ \A j \in Items : /\ Fit(Earned(on, j), WasLaunching(j), item'[j])
                      /\ Quiet(item[j]) => Quiet(item'[j])
                      /\ j \in spent \/ item'[j].mergeFails = item[j].mergeFails

\* A record fits under a weaker guard as well.
LEMMA FitWeaker ==
  ASSUME NEW G \in BOOLEAN, NEW H \in BOOLEAN, NEW L \in BOOLEAN, NEW M \in BOOLEAN,
         NEW it, Fit(G, L, it), G => H, L => M
  PROVE  Fit(H, M, it)
  BY DEF Fit

\* The records of the invariant fit.
LEMMA FitNow ==
  ASSUME NEW on \in BOOLEAN, ItemsFit(on), NEW i \in Items
  PROVE  /\ Earned(on, i) \in BOOLEAN /\ WasLaunching(i) \in BOOLEAN
         /\ Fit(Earned(on, i), WasLaunching(i), item[i])
  BY DEF ItemsFit, Fit, Earned, WasLaunching

\* Records that do not change are as they should be after an action.
LEMMA UnchangedSteps ==
  ASSUME NEW on \in BOOLEAN, ItemsFit(on), UNCHANGED item
  PROVE  Stepped(on, {})
<1>1. item' = [j \in Items |-> item'[j]]
  BY DEF ItemsFit
<1>. QED
  BY <1>1, FitNow DEF Stepped

\* Records an action may commit.
Prepared(on, spent, records) ==
  \A j \in Items : /\ Fit(Earned(on, j), WasLaunching(j), records[j])
                   /\ Quiet(item[j]) => Quiet(records[j])
                   /\ j \in spent \/ records[j].mergeFails = item[j].mergeFails

\* Records that were prepared are as they should be once they are committed.
LEMMA CommitSteps ==
  ASSUME NEW on \in BOOLEAN, ItemsFit(on), WorldTypeOK, NEW records, Commit(records), NEW spent,
         Prepared(on, spent, records)
  PROVE  Stepped(on, spent)
<1>. USE DEF Prepared
<1>1. ASSUME NEW j \in Items
      PROVE  /\ item' = [k \in Items |-> item'[k]]
             /\ Fit(Earned(on, j), WasLaunching(j), item'[j]) /\ Alike(records[j], item'[j])
  BY FitNow, CommitFits
<1>2. ASSUME NEW j \in Items
      PROVE  /\ Quiet(item[j]) => Quiet(item'[j])
             /\ j \in spent \/ item'[j].mergeFails = item[j].mergeFails
  BY <1>1 DEF Alike, SameMail, Quiet, AwaitsHandoff
<1>3. item' = [j \in Items |-> item'[j]]
  BY DEF Commit
<1>. QED
  BY <1>1, <1>2, <1>3 DEF Stepped

\* The same, where one record was prepared.
LEMMA UpdateSteps ==
  ASSUME NEW on \in BOOLEAN, ItemsFit(on), WorldTypeOK, NEW i \in Items, NEW z, Update(i, z),
         Fit(Earned(on, i), WasLaunching(i), z), Quiet(item[i]) => Quiet(z)
  PROVE  /\ Stepped(on, {i})
         /\ z.mergeFails = item[i].mergeFails => Stepped(on, {})
<1>. PICK records : records = [item EXCEPT ![i] = z]
  OBVIOUS
<1>1. Commit(records)
  BY DEF Update
<1>2. \A j \in Items : records[j] = IF j = i THEN z ELSE item[j]
  BY DEF ItemsFit
<1>3. Prepared(on, {i}, records)
  BY <1>2, FitNow DEF Prepared
<1>4. z.mergeFails = item[i].mergeFails => Prepared(on, {}, records)
  BY <1>2, <1>3 DEF Prepared
<1>. QED
  BY <1>1, <1>3, <1>4, CommitSteps

\* A move makes no item wait for a comment and spends no merge attempt.
LEMMA MovedSteady ==
  ASSUME NEW G \in BOOLEAN, NEW L \in BOOLEAN, NEW it, Fit(G, L, it),
         NEW to \in States \ {"launching"}, to = "merging" => G
  PROVE  Fit(G, L, Moved(it, to)) /\ Steady(it, Moved(it, to))
<1>1. Fit(G, L, Moved(it, to)) /\ SameMail(Moved(it, to), it)
  BY MovedFits
<1>2. Moved(it, to).mergeFails = it.mergeFails
  BY DEF Moved, Fit, Shape, Fields
<1>. QED
  BY <1>1, <1>2 DEF Steady, SameMail, Quiet, AwaitsHandoff

\* The same of a move of a record that was changed first.
LEMMA MovedOfSteady ==
  ASSUME NEW G \in BOOLEAN, NEW L \in BOOLEAN, NEW it, NEW x, Fit(G, L, x), Steady(it, x),
         NEW to \in States \ {"launching"}, to = "merging" => G
  PROVE  Fit(G, L, Moved(x, to)) /\ Steady(it, Moved(x, to))
  BY MovedSteady DEF Steady

\* The fields an action sets.
WithWs(it, w)       == [it EXCEPT !.ws = w]
Dropped(it)         == [it EXCEPT !.ws = 0, !.retryWs = 0]
WithPr(it, p)       == [it EXCEPT !.pr = p]
WithBase(it, b)     == [it EXCEPT !.base = b]
WithReviewer(it, b) == [it EXCEPT !.reviewWs = b]
WithRebaser(it, b)  == [it EXCEPT !.rebaserWs = b]
WithFixer(it, b)    == [it EXCEPT !.fixWs = b]
Unnoticed(it)       == [it EXCEPT !.needsCiFix = TRUE, !.ws = 0]
Released(it, b)     == [it EXCEPT !.needsCiFix = FALSE, !.base = b]
HandedOver(it)        == [it EXCEPT !.needsFeedback = FALSE, !.feedback = {}, !.armed = FALSE]
Unheld(it, w, m)    == [it EXCEPT !.ws = w, !.mergeSha = m]

\* None of them makes an item wait for a comment, or spends a merge attempt.
LEMMA FieldsSteady ==
  ASSUME NEW G \in BOOLEAN, NEW L \in BOOLEAN, NEW it, Fit(G, L, it)
  PROVE  /\ \A w \in {0, Borrowed} \cup Sessions : Fit(G, L, WithWs(it, w)) /\ Steady(it, WithWs(it, w))
         /\ Fit(G, L, Dropped(it)) /\ Steady(it, Dropped(it))
         /\ \A p \in {"none", "work", "repair"} : Fit(G, L, WithPr(it, p)) /\ Steady(it, WithPr(it, p))
         /\ \A b \in Items \cup {NoItem} : Fit(G, L, WithBase(it, b)) /\ Steady(it, WithBase(it, b))
         /\ \A b \in BOOLEAN : Fit(G, L, WithReviewer(it, b)) /\ Steady(it, WithReviewer(it, b))
         /\ \A b \in BOOLEAN : Fit(G, L, WithRebaser(it, b)) /\ Steady(it, WithRebaser(it, b))
         /\ \A b \in BOOLEAN : Fit(G, L, WithFixer(it, b)) /\ Steady(it, WithFixer(it, b))
         /\ Fit(G, L, Unnoticed(it)) /\ Steady(it, Unnoticed(it))
         /\ \A b \in Items \cup {NoItem} : Fit(G, L, Released(it, b)) /\ Steady(it, Released(it, b))
         /\ Fit(G, L, HandedOver(it)) /\ Steady(it, HandedOver(it))
         /\ \A w \in {0, Borrowed} \cup Sessions, m \in BOOLEAN : Fit(G, L, Unheld(it, w, m)) /\ Steady(it, Unheld(it, w, m))
<1>1. ASSUME NEW w \in {0, Borrowed} \cup Sessions
      PROVE  Fit(G, L, WithWs(it, w)) /\ Steady(it, WithWs(it, w))
  <2>1. Shape(WithWs(it, w))
    BY Zenon DEF Shape, Fit, WithWs
  <2>. QED
    BY <2>1 DEF Fit, Typed, Shape, Fields, Steady, Quiet, AwaitsHandoff, WithWs
<1>2. Fit(G, L, Dropped(it)) /\ Steady(it, Dropped(it))
  <2>1. Shape(Dropped(it))
    BY Zenon DEF Shape, Fit, Dropped
  <2>. QED
    BY <2>1 DEF Fit, Typed, Shape, Fields, Steady, Quiet, AwaitsHandoff, Dropped
<1>3. ASSUME NEW p \in {"none", "work", "repair"}
      PROVE  Fit(G, L, WithPr(it, p)) /\ Steady(it, WithPr(it, p))
  <2>1. Shape(WithPr(it, p))
    BY Zenon DEF Shape, Fit, WithPr
  <2>. QED
    BY <2>1 DEF Fit, Typed, Shape, Fields, Steady, Quiet, AwaitsHandoff, WithPr
<1>4. ASSUME NEW b \in Items \cup {NoItem}
      PROVE  Fit(G, L, WithBase(it, b)) /\ Steady(it, WithBase(it, b))
  <2>1. Shape(WithBase(it, b))
    BY Zenon DEF Shape, Fit, WithBase
  <2>. QED
    BY <2>1 DEF Fit, Typed, Shape, Fields, Steady, Quiet, AwaitsHandoff, WithBase
<1>5. ASSUME NEW b \in BOOLEAN
      PROVE  Fit(G, L, WithReviewer(it, b)) /\ Steady(it, WithReviewer(it, b))
  <2>1. Shape(WithReviewer(it, b))
    BY Zenon DEF Shape, Fit, WithReviewer
  <2>. QED
    BY <2>1 DEF Fit, Typed, Shape, Fields, Steady, Quiet, AwaitsHandoff, WithReviewer
<1>6. ASSUME NEW b \in BOOLEAN
      PROVE  Fit(G, L, WithRebaser(it, b)) /\ Steady(it, WithRebaser(it, b))
  <2>1. Shape(WithRebaser(it, b))
    BY Zenon DEF Shape, Fit, WithRebaser
  <2>. QED
    BY <2>1 DEF Fit, Typed, Shape, Fields, Steady, Quiet, AwaitsHandoff, WithRebaser
<1>7. ASSUME NEW b \in BOOLEAN
      PROVE  Fit(G, L, WithFixer(it, b)) /\ Steady(it, WithFixer(it, b))
  <2>1. Shape(WithFixer(it, b))
    BY Zenon DEF Shape, Fit, WithFixer
  <2>. QED
    BY <2>1 DEF Fit, Typed, Shape, Fields, Steady, Quiet, AwaitsHandoff, WithFixer
<1>8. Fit(G, L, Unnoticed(it)) /\ Steady(it, Unnoticed(it))
  <2>1. Shape(Unnoticed(it))
    BY Zenon DEF Shape, Fit, Unnoticed
  <2>. QED
    BY <2>1 DEF Fit, Typed, Shape, Fields, Steady, Quiet, AwaitsHandoff, Unnoticed
<1>9. ASSUME NEW b \in Items \cup {NoItem}
      PROVE  Fit(G, L, Released(it, b)) /\ Steady(it, Released(it, b))
  <2>1. Shape(Released(it, b))
    BY Zenon DEF Shape, Fit, Released
  <2>. QED
    BY <2>1 DEF Fit, Typed, Shape, Fields, Steady, Quiet, AwaitsHandoff, Released
<1>10. Fit(G, L, HandedOver(it)) /\ Steady(it, HandedOver(it))
  <2>1. Shape(HandedOver(it))
    BY Zenon DEF Shape, Fit, HandedOver
  <2>. QED
    BY <2>1 DEF Fit, Typed, Shape, Fields, Steady, Quiet, AwaitsHandoff, HandedOver
<1>11. ASSUME NEW w \in {0, Borrowed} \cup Sessions, NEW m \in BOOLEAN
      PROVE  Fit(G, L, Unheld(it, w, m)) /\ Steady(it, Unheld(it, w, m))
  <2>1. Shape(Unheld(it, w, m))
    BY Zenon DEF Shape, Fit, Unheld
  <2>. QED
    BY <2>1 DEF Fit, Typed, Shape, Fields, Steady, Quiet, AwaitsHandoff, Unheld
<1>. QED
  BY <1>1, <1>2, <1>3, <1>4, <1>5, <1>6, <1>7, <1>8, <1>9, <1>10, <1>11

---------------------------------------------------------------------------
(* One action: the world *)

\* The fault budget after a step that may spend of it.
LEMMA FaultTyped ==
  ASSUME WorldTypeOK, NEW kind, Fault(kind) \/ UNCHANGED faults
  PROVE  faults' \in 0 .. MaxFaults
  BY FaultsAssumption DEF WorldTypeOK, Fault

\* Sessions and helpers after a close, done or refused.
LEMMA CloseTyped ==
  ASSUME WorldTypeOK, NEW i \in Items, NEW closed \in BOOLEAN,
         CloseOwn(i, closed) \/ (\E ref : Close(i, ref, closed))
  PROVE  /\ live' \in [Items -> SUBSET Sessions] /\ helper' \in [Items -> SUBSET Helpers]
         /\ faults' \in 0 .. MaxFaults
<1>1. ASSUME NEW ref, Close(i, ref, closed)
      PROVE  /\ live' \in [Items -> SUBSET Sessions] /\ helper' \in [Items -> SUBSET Helpers]
             /\ faults' \in 0 .. MaxFaults
  <2>1. CASE CloseDone(i, ref)
    BY <2>1 DEF CloseDone, WorldTypeOK
  <2>2. CASE CloseRefused(i, ref)
    BY <2>2, FaultsAssumption DEF CloseRefused, Fault, WorldTypeOK
  <2>. QED
    BY <1>1, <2>1, <2>2 DEF Close
<1>2. CASE UNCHANGED <<live, helper, faults>>
  BY <1>2 DEF WorldTypeOK
<1>. QED
  BY <1>1, <1>2 DEF CloseOwn

\* An action of the loop gives no approval.
WorldStepped == WorldOK' /\ UNCHANGED judged

\* The world keeps its types when what an action changes keeps its own.
LEMMA WorldKept ==
  ASSUME WorldOK, gh' \in [Items -> PullRecords], head' \in [Items -> Commits],
         live' \in [Items -> SUBSET Sessions], helper' \in [Items -> SUBSET Helpers],
         signals' \in [Items -> SUBSET SignalNames], inbox' \in [Items -> SUBSET Comments],
         tree' \in [Items -> BOOLEAN], faults' \in 0 .. MaxFaults,
         UNCHANGED <<verdict, judged, heard, posted>>
  PROVE  WorldStepped
  BY DEF WorldOK, WorldTypeOK, PullRecords, WorldStepped

\* What the types of the world say, name by name.
LEMMA WorldTyped ==
  ASSUME WorldOK
  PROVE  /\ gh \in [Items -> PullRecords] /\ head \in [Items -> Commits]
         /\ live \in [Items -> SUBSET Sessions] /\ helper \in [Items -> SUBSET Helpers]
         /\ signals \in [Items -> SUBSET SignalNames] /\ inbox \in [Items -> SUBSET Comments]
         /\ tree \in [Items -> BOOLEAN] /\ faults \in 0 .. MaxFaults
         /\ posted \in [Items -> SUBSET Comments] /\ WorldTypeOK
  BY WorldTypes DEF WorldOK, WorldTypeOK

\* An update that makes nobody wait and spends nothing, as a step of an action.
LEMMA UpdateSteady ==
  ASSUME NEW on \in BOOLEAN, ItemsFit(on), WorldOK, NEW i \in Items, NEW z, Update(i, z),
         Fit(Earned(on, i), WasLaunching(i), z), Steady(item[i], z)
  PROVE  Stepped(on, {})
  BY UpdateSteps DEF Steady, WorldOK

\* The fields of an action.
LEMMA ActionTyped ==
  ASSUME NEW a \in Actions
  PROVE  a.item \in Items /\ a.base \in Items \cup {NoItem} /\ a.msg \in SUBSET Feedback
  BY DEF Actions

---------------------------------------------------------------------------
(* Launching *)

\* Some numbers have a least one, so the session chosen for a launch is a free one.
LEMMA LeastOfSome ==
  ASSUME NEW S \in SUBSET Nat, S # {}
  PROVE  /\ \E n \in S : \A m \in S : n <= m
         /\ (CHOOSE n \in S : \A m \in S : n <= m) \in S
<1>. DEFINE Less == {ss \in Nat \X Nat : ss[1] < ss[2]}
<1>1. IsWellFoundedOn(Less, Nat)
  BY NatLessThanWellFounded DEF OpToRel
<1>. HIDE DEF Less
<1>2. PICK n \in S : \A m \in S : ~(<<m, n>> \in Less)
  BY <1>1, WFMin
<1>3. ASSUME NEW m \in S
      PROVE  n <= m
  <2>1. m \in Nat /\ n \in Nat
    OBVIOUS
  <2>2. ~(m < n)
    BY <1>2, <2>1 DEF Less
  <2>. QED
    BY <2>1, <2>2
<1>. QED
  BY <1>3

\* A retry that is counted.
LEMMA RetriedSteady ==
  ASSUME NEW G \in BOOLEAN, NEW L \in BOOLEAN, NEW it, Fit(G, L, it), it.retries < MaxRetries,
         NEW r, r = [it EXCEPT !.retries = @ + 1]
  PROVE  Fit(G, L, r) /\ Steady(it, r)
<1>1. Shape(r)
  BY Zenon DEF Shape, Fit
<1>2. Fit(G, L, r) /\ Steady(it, r)
  BY <1>1, Limits0 DEF Fit, Typed, Shape, Fields, Steady, Quiet, AwaitsHandoff
<1>. QED
  BY <1>2

\* executeLaunch, in each of its outcomes.
LEMMA LaunchServed ==
  ASSUME NEW on \in BOOLEAN, ItemsFit(on), WorldOK, NEW a \in Actions, ExecuteLaunch(a)
  PROVE  Stepped(on, {}) /\ WorldStepped
<1>. PICK i : i = a.item
  OBVIOUS
<1>. PICK it : it = item[i]
  OBVIOUS
<1>. PICK G : G = Earned(on, i)
  OBVIOUS
<1>. PICK L : L = WasLaunching(i)
  OBVIOUS
<1>0. i \in Items /\ a.base \in Items \cup {NoItem} /\ G \in BOOLEAN /\ L \in BOOLEAN /\ Fit(G, L, it)
  BY ActionTyped, FitNow
<1>1. CASE LaunchBlocked(i)
  <2>1. Stepped(on, {})
    BY <1>0, <1>1, MovedSteady, UpdateSteady DEF LaunchBlocked, States
  <2>2. WorldStepped
    BY <1>1, WorldKept, WorldTyped DEF LaunchBlocked, world
  <2>. QED
    BY <2>1, <2>2
<1>2. CASE LaunchSkipped(i)
  <2>. PICK x : x = [it EXCEPT !.pr = "work"]
    OBVIOUS
  <2>0. x = WithPr(it, "work")
    BY Zenon DEF WithPr
  <2>1. Fit(G, L, x) /\ Steady(it, x)
    BY <1>0, <2>0, FieldsSteady
  <2>2. Fit(G, L, Moved(x, "ci-pending")) /\ Steady(it, Moved(x, "ci-pending"))
    BY <1>0, <2>1, MovedOfSteady DEF States
  <2>3. Stepped(on, {})
    BY <1>0, <1>2, <2>2, UpdateSteady DEF LaunchSkipped
  <2>4. WorldStepped
    BY <1>2, WorldKept, WorldTyped DEF LaunchSkipped, world
  <2>. QED
    BY <2>3, <2>4
<1>. PICK b : b = IF a.base # NoItem /\ item[a.base].state \in DependencyDone THEN NoItem ELSE it.base
  OBVIOUS
<1>. PICK based : based = [it EXCEPT !.needsCiFix = FALSE, !.base = b]
  OBVIOUS
<1>3. based = Based(i, a.base)
  BY DEF Based
<1>4. b \in Items \cup {NoItem}
  BY <1>0 DEF Fit, Typed
<1>5. based = Released(it, b)
  BY Zenon DEF Released
<1>6. Fit(G, L, based) /\ Steady(it, based)
  BY <1>0, <1>4, <1>5, FieldsSteady
<1>7. CASE LaunchFailed(i, a.base)
  <2>. PICK r : r = [based EXCEPT !.retries = @ + 1]
    OBVIOUS
  <2>1. based.retries = it.retries
    BY <1>0 DEF Fit, Shape, Fields
  <2>2. ASSUME it.retries < MaxRetries PROVE Stepped(on, {})
    <3>1. Fit(G, L, r) /\ Steady(based, r)
      BY <1>0, <1>6, <2>1, <2>2, RetriedSteady, ZenonT(60)
    <3>2. Steady(it, r)
      BY <1>6, <3>1 DEF Steady
    <3>3. Fit(G, L, Moved(r, "ready")) /\ Steady(it, Moved(r, "ready"))
      BY <1>0, <3>1, <3>2, MovedOfSteady DEF States
    <3>4. Update(i, Moved(r, "ready"))
      BY <1>3, <1>7, <2>2 DEF LaunchFailed
    <3>. QED
      BY <1>0, <3>3, <3>4, UpdateSteady
  <2>3. ASSUME ~(it.retries < MaxRetries) PROVE Stepped(on, {})
    <3>1. Fit(G, L, Moved(based, "stuck")) /\ Steady(it, Moved(based, "stuck"))
      BY <1>0, <1>6, MovedOfSteady DEF States
    <3>2. Update(i, Moved(based, "stuck"))
      BY <1>3, <1>7, <2>3 DEF LaunchFailed
    <3>. QED
      BY <1>0, <3>1, <3>2, UpdateSteady
  <2>4. faults' \in 0 .. MaxFaults
    BY <1>7, FaultTyped, WorldTyped DEF LaunchFailed
  <2>5. WorldStepped
    BY <1>7, <2>4, WorldKept, WorldTyped DEF LaunchFailed
  <2>6. Stepped(on, {})
    BY <2>2, <2>3
  <2>. QED
    BY <2>5, <2>6
<1>8. CASE LaunchDone(i, a.base)
  <2>0. PICK session : session = CHOOSE n \in Sessions \ live[i] : \A m \in Sessions \ live[i] : n <= m
    OBVIOUS
  <2>. PICK hired : hired = [based EXCEPT !.ws = session]
    OBVIOUS
  <2>. PICK told : told = [hired EXCEPT !.needsFeedback = FALSE, !.feedback = {}, !.armed = FALSE]
    OBVIOUS
  <2>1. live[i] \subseteq Sessions /\ Sessions \subseteq Nat
    BY <1>0, WorldTyped, BoundsAssumption DEF Sessions
  <2>2. session \in Sessions
    <3>1. Sessions \ live[i] # {} /\ Sessions \ live[i] \in SUBSET Nat
      BY <1>8, <2>1 DEF LaunchDone
    <3>. QED
      BY <2>0, <3>1, LeastOfSome
  <2>3. /\ Fit(G, L, hired) /\ Steady(based, hired)
        /\ Fit(G, L, told) /\ Steady(hired, told)
    <3>1. Fit(G, L, hired) /\ Steady(based, hired)
      <4>1. session \in {0, Borrowed} \cup Sessions /\ hired = WithWs(based, session)
        BY <2>2 DEF WithWs
      <4>. QED
        BY <1>0, <1>6, <4>1, FieldsSteady
    <3>2. told = HandedOver(hired)
      BY Zenon DEF HandedOver
    <3>. QED
      BY <1>0, <3>1, <3>2, FieldsSteady
  <2>8. Steady(it, hired) /\ Steady(it, told)
    BY <1>6, <2>3 DEF Steady
  <2>4. Update(i, IF it.needsFeedback THEN told ELSE hired)
    BY <1>3, <1>8, <2>0, Zenon DEF LaunchDone
  <2>5. Stepped(on, {})
    BY <1>0, <2>3, <2>4, <2>8, UpdateSteady
  <2>6. /\ live' \in [Items -> SUBSET Sessions] /\ tree' \in [Items -> BOOLEAN]
        /\ inbox' \in [Items -> SUBSET Comments]
    BY <1>0, <1>8, <2>0, <2>2, WorldTyped DEF LaunchDone
  <2>7. WorldStepped
    BY <1>8, <2>6, WorldKept, WorldTyped DEF LaunchDone
  <2>. QED
    BY <2>5, <2>7
<1>. QED
  BY <1>1, <1>2, <1>7, <1>8 DEF ExecuteLaunch

---------------------------------------------------------------------------
(* Closing and cleaning *)

\* Each action is served: the records and the world are in order after it.
Served(on) == Stepped(on, {}) /\ WorldStepped

\* The record of the item an action is for.
LEMMA ItemAtHand ==
  ASSUME NEW on \in BOOLEAN, ItemsFit(on), NEW a \in Actions
  PROVE  /\ a.item \in Items /\ Earned(on, a.item) \in BOOLEAN /\ WasLaunching(a.item) \in BOOLEAN
         /\ Fit(Earned(on, a.item), WasLaunching(a.item), item[a.item])
         /\ item[a.item].base \in Items \cup {NoItem}
         /\ item[a.item].ws \in {0, Borrowed} \cup Sessions
         /\ item[a.item].mergeSha \in BOOLEAN
  BY ActionTyped, FitNow DEF Fit, Typed

\* executeRetry.
LEMMA RetryServed ==
  ASSUME NEW on \in BOOLEAN, ItemsFit(on), WorldOK, NEW a \in Actions, ExecuteRetry(a)
  PROVE  Served(on)
<1>. PICK i : i = a.item
  OBVIOUS
<1>. PICK G : G = Earned(on, i)
  OBVIOUS
<1>. PICK L : L = WasLaunching(i)
  OBVIOUS
<1>0. i \in Items /\ G \in BOOLEAN /\ L \in BOOLEAN /\ Fit(G, L, item[i])
  BY ItemAtHand
<1>. PICK ref : ref = IF item[i].retryWs # 0 THEN item[i].retryWs ELSE item[i].ws
  OBVIOUS
<1>1. CASE ref = 0
  <2>1. UNCHANGED <<item, live, helper, faults>>
    BY <1>1 DEF ExecuteRetry
  <2>2. WorldStepped
    BY <2>1, WorldKept, WorldTyped DEF ExecuteRetry
  <2>. QED
    BY <2>1, <2>2, UnchangedSteps DEF Served
<1>2. CASE ref # 0
  <2>1. PICK closed \in BOOLEAN : Close(i, ref, closed)
    BY <1>2 DEF ExecuteRetry
  <2>2. Update(i, Dropped(item[i]))
    BY <1>2 DEF ExecuteRetry, Dropped
  <2>3. Stepped(on, {})
    BY <1>0, <2>2, FieldsSteady, UpdateSteady
  <2>4. /\ live' \in [Items -> SUBSET Sessions] /\ helper' \in [Items -> SUBSET Helpers]
        /\ faults' \in 0 .. MaxFaults
    BY <1>0, <2>1, CloseTyped, WorldTyped
  <2>5. WorldStepped
    BY <2>4, WorldKept, WorldTyped DEF ExecuteRetry
  <2>. QED
    BY <2>3, <2>5 DEF Served
<1>. QED
  BY <1>1, <1>2

\* executeWorkspaceClose.
LEMMA WorkspaceCloseServed ==
  ASSUME NEW on \in BOOLEAN, ItemsFit(on), WorldOK, NEW a \in Actions, ExecuteWorkspaceClose(a)
  PROVE  Served(on)
<1>. PICK i : i = a.item
  OBVIOUS
<1>. PICK G : G = Earned(on, i)
  OBVIOUS
<1>. PICK L : L = WasLaunching(i)
  OBVIOUS
<1>0. i \in Items /\ G \in BOOLEAN /\ L \in BOOLEAN /\ Fit(G, L, item[i])
  BY ItemAtHand
<1>1. PICK closed \in BOOLEAN :
        CloseOwn(i, closed) /\ Update(i, IF closed THEN WithWs(item[i], 0) ELSE item[i])
  BY Zenon DEF ExecuteWorkspaceClose, WithWs
<1>2. Fit(G, L, WithWs(item[i], 0)) /\ Steady(item[i], WithWs(item[i], 0)) /\ Steady(item[i], item[i])
  <2>1. 0 \in {0, Borrowed} \cup Sessions
    OBVIOUS
  <2>2. Fit(G, L, WithWs(item[i], 0)) /\ Steady(item[i], WithWs(item[i], 0))
    BY <1>0, <2>1, FieldsSteady
  <2>. QED
    BY <2>2 DEF Steady
<1>3. Stepped(on, {})
  BY <1>0, <1>1, <1>2, UpdateSteady
<1>4. /\ live' \in [Items -> SUBSET Sessions] /\ helper' \in [Items -> SUBSET Helpers]
      /\ faults' \in 0 .. MaxFaults
  BY <1>0, <1>1, CloseTyped, WorldTyped
<1>5. WorldStepped
  BY <1>4, WorldKept, WorldTyped DEF ExecuteWorkspaceClose
<1>. QED
  BY <1>3, <1>5 DEF Served

\* executeClean.
LEMMA CleanServed ==
  ASSUME NEW on \in BOOLEAN, ItemsFit(on), WorldOK, NEW a \in Actions, ExecuteClean(a)
  PROVE  Served(on)
<1>. PICK i : i = a.item
  OBVIOUS
<1>. PICK G : G = Earned(on, i)
  OBVIOUS
<1>. PICK L : L = WasLaunching(i)
  OBVIOUS
<1>0. i \in Items /\ G \in BOOLEAN /\ L \in BOOLEAN /\ Fit(G, L, item[i])
  BY ItemAtHand
<1>1. PICK closed \in BOOLEAN : CloseOwn(i, closed)
  BY DEF ExecuteClean
<1>2. Update(i, WithWs(item[i], 0))
  BY Zenon DEF ExecuteClean, WithWs
<1>3. Stepped(on, {})
  BY <1>0, <1>2, FieldsSteady, UpdateSteady
<1>4. /\ live' \in [Items -> SUBSET Sessions] /\ helper' \in [Items -> SUBSET Helpers]
      /\ faults' \in 0 .. MaxFaults
  BY <1>0, <1>1, CloseTyped, WorldTyped
<1>5. tree' \in [Items -> BOOLEAN] /\ inbox' \in [Items -> SUBSET Comments]
  BY <1>0, WorldTyped DEF ExecuteClean
<1>6. WorldStepped
  BY <1>4, <1>5, WorldKept, WorldTyped DEF ExecuteClean
<1>. QED
  BY <1>3, <1>6 DEF Served

---------------------------------------------------------------------------
(* Rebasing from the daemon *)

\* A rebase from the daemon keeps pull requests and branches well typed.
LEMMA RebaseTyped ==
  ASSUME WorldOK, NEW i \in Items, NEW r \in Rebases(i), Rebase(i, r)
  PROVE  gh' \in [Items -> PullRecords] /\ head' \in [Items -> Commits]
<1>1. gh[i] \in PullRecords /\ head[i] \in Commits /\ Rebased(gh[i]) \in PullRecords
  BY WorldTyped, PullChanges
<1>2. r.pull \in PullRecords /\ r.head \in Commits
  BY <1>1 DEF Rebases
<1>. QED
  BY <1>2, WorldTyped DEF Rebase

\* A rebase that is handed to a rebaser, while attempts are left.
LEMMA EscalateServed ==
  ASSUME NEW on \in BOOLEAN, ItemsFit(on), WorldOK, NEW i \in Items, EscalateRebase(i)
  PROVE  Served(on)
<1>. PICK it : it = item[i]
  OBVIOUS
<1>. PICK G : G = Earned(on, i)
  OBVIOUS
<1>. PICK L : L = WasLaunching(i)
  OBVIOUS
<1>0. G \in BOOLEAN /\ L \in BOOLEAN /\ Fit(G, L, it)
  BY FitNow
<1>1. ASSUME Update(i, Moved(item[i], "stuck")), UNCHANGED world
      PROVE  Served(on)
  <2>1. Fit(G, L, Moved(it, "stuck")) /\ Steady(it, Moved(it, "stuck"))
    BY <1>0, MovedSteady DEF States
  <2>2. Stepped(on, {})
    BY <1>0, <1>1, <2>1, UpdateSteady
  <2>3. WorldStepped
    BY <1>1, WorldKept, WorldTyped DEF world
  <2>. QED
    BY <2>2, <2>3 DEF Served
<1>2. ASSUME item[i].rebaseAttempts < MaxRebaseAttempts,
             Update(i, Tried([item[i] EXCEPT !.rebaserWs = TRUE, !.rebaseAttempts = @ + 1], "rebasing")),
             helper' = [helper EXCEPT ![i] = @ \cup {"rebaser"}],
             gh' = [gh EXCEPT ![i].fresh = @ /\ "rebasing" \notin Successors(item[i].state)],
             UNCHANGED <<head, live, verdict, judged, signals, inbox, heard, posted, tree, faults>>
      PROVE  Served(on)
  <2>. PICK x : x = [it EXCEPT !.rebaserWs = TRUE, !.rebaseAttempts = @ + 1]
    OBVIOUS
  <2>1. Shape(x)
    BY <1>0, Zenon DEF Fit, Shape
  <2>2. Fit(G, L, x) /\ Steady(it, x)
    BY <1>0, <1>2, <2>1, Limits0, SMTT(40) DEF Fit, Typed, Shape, Fields, Steady, Quiet, AwaitsHandoff
  <2>3. Fit(G, L, Moved(x, "rebasing")) /\ Steady(it, Moved(x, "rebasing"))
    BY <1>0, <2>2, MovedOfSteady DEF States
  <2>10. Fit(G, L, Tried(x, "rebasing")) /\ Steady(it, Tried(x, "rebasing"))
    BY <2>2, <2>3, Zenon DEF Tried
  <2>4. Update(i, Tried(x, "rebasing"))
    BY <1>2, Zenon
  <2>5. Stepped(on, {})
    BY <1>0, <2>10, <2>4, UpdateSteady
  <2>. PICK b : b = (gh[i].fresh /\ "rebasing" \notin Successors(item[i].state))
    OBVIOUS
  <2>6. gh' = [gh EXCEPT ![i] = [gh[i] EXCEPT !.fresh = b]] /\ gh[i] \in PullRecords
    BY <1>2, WorldTyped
  <2>11. b \in BOOLEAN
    BY <2>6 DEF PullRecords
  <2>7. gh' \in [Items -> PullRecords]
    BY <2>6, <2>11, PullChanges, WorldTyped
  <2>8. helper' \in [Items -> SUBSET Helpers]
    BY <1>2, WorldTyped DEF Helpers
  <2>9. WorldStepped
    BY <1>2, <2>7, <2>8, WorldKept, WorldTyped
  <2>. QED
    BY <2>5, <2>9 DEF Served
<1>3. ASSUME Fault("launch-failure"),
             UNCHANGED <<item, gh, head, live, helper, verdict, judged, signals, inbox, heard, posted, tree>>
      PROVE  Served(on)
  <2>1. faults' \in 0 .. MaxFaults
    BY <1>3, FaultTyped, WorldTyped
  <2>2. WorldStepped
    BY <1>3, <2>1, WorldKept, WorldTyped
  <2>. QED
    BY <1>3, <2>2, UnchangedSteps DEF Served
<1>. QED
  BY <1>1, <1>2, <1>3 DEF EscalateRebase

\* executeDaemonRebase.
LEMMA DaemonRebaseServed ==
  ASSUME NEW on \in BOOLEAN, ItemsFit(on), WorldOK, NEW a \in Actions, ExecuteDaemonRebase(a)
  PROVE  Served(on)
<1>. PICK i : i = a.item
  OBVIOUS
<1>. PICK G : G = Earned(on, i)
  OBVIOUS
<1>. PICK L : L = WasLaunching(i)
  OBVIOUS
<1>0. i \in Items /\ G \in BOOLEAN /\ L \in BOOLEAN /\ Fit(G, L, item[i])
  BY ItemAtHand
<1>1. ASSUME NEW r \in Rebases(i), Rebase(i, r), Update(i, Moved(item[i], "ci-pending")),
             UNCHANGED <<live, helper, verdict, judged, signals, inbox, heard, posted, tree, faults>>
      PROVE  Served(on)
  <2>1. Fit(G, L, Moved(item[i], "ci-pending")) /\ Steady(item[i], Moved(item[i], "ci-pending"))
    BY <1>0, MovedSteady DEF States
  <2>2. Stepped(on, {})
    BY <1>0, <1>1, <2>1, UpdateSteady
  <2>3. WorldStepped
    BY <1>0, <1>1, RebaseTyped, WorldKept, WorldTyped
  <2>. QED
    BY <2>2, <2>3 DEF Served
<1>2. ASSUME UNCHANGED <<item, world>>
      PROVE  Served(on)
  <2>1. WorldStepped
    BY <1>2, WorldKept, WorldTyped DEF world
  <2>. QED
    BY <1>2, <2>1, UnchangedSteps DEF Served
<1>3. ASSUME EscalateRebase(i)
      PROVE  Served(on)
  BY <1>0, <1>3, EscalateServed
<1>. QED
  BY <1>1, <1>2, <1>3 DEF ExecuteDaemonRebase

---------------------------------------------------------------------------
(* Messages, signals and helpers *)

\* executeNotifyCiFailure.
LEMMA NotifyCiServed ==
  ASSUME NEW on \in BOOLEAN, ItemsFit(on), WorldOK, NEW a \in Actions, ExecuteNotifyCi(a)
  PROVE  Served(on)
<1>. PICK i : i = a.item
  OBVIOUS
<1>. PICK G : G = Earned(on, i)
  OBVIOUS
<1>. PICK L : L = WasLaunching(i)
  OBVIOUS
<1>0. i \in Items /\ G \in BOOLEAN /\ L \in BOOLEAN /\ Fit(G, L, item[i])
  BY ItemAtHand
<1>1. CASE tree[i]
  <2>1. gh' = [gh EXCEPT ![i] = [gh[i] EXCEPT !.agents = @ \cup {"note"}]] /\ gh[i] \in PullRecords
    BY <1>0, <1>1, WorldTyped DEF ExecuteNotifyCi
  <2>2. gh' \in [Items -> PullRecords]
    BY <1>0, <2>1, PullChanges, WorldTyped
  <2>3. WorldStepped
    BY <2>2, WorldKept, WorldTyped DEF ExecuteNotifyCi
  <2>4. UNCHANGED item
    BY <1>1 DEF ExecuteNotifyCi
  <2>. QED
    BY <2>3, <2>4, UnchangedSteps DEF Served
<1>2. CASE ~tree[i]
  <2>1. Update(i, Moved(Unnoticed(item[i]), "ready")) /\ UNCHANGED gh
    BY <1>2, Zenon DEF ExecuteNotifyCi, Unnoticed
  <2>. PICK x : x = Unnoticed(item[i])
    OBVIOUS
  <2>2. Fit(G, L, x) /\ Steady(item[i], x)
    BY <1>0, FieldsSteady
  <2>3. Fit(G, L, Moved(x, "ready")) /\ Steady(item[i], Moved(x, "ready"))
    BY <1>0, <2>2, MovedOfSteady DEF States
  <2>4. Stepped(on, {})
    BY <1>0, <2>1, <2>3, UpdateSteady
  <2>5. WorldStepped
    BY <2>1, WorldKept, WorldTyped DEF ExecuteNotifyCi
  <2>. QED
    BY <2>4, <2>5 DEF Served
<1>. QED
  BY <1>1, <1>2

\* executeSendMessage.
LEMMA SendServed ==
  ASSUME NEW on \in BOOLEAN, ItemsFit(on), WorldOK, NEW a \in Actions, ExecuteSend(a)
  PROVE  Served(on)
<1>. PICK i : i = a.item
  OBVIOUS
<1>. PICK G : G = Earned(on, i)
  OBVIOUS
<1>. PICK L : L = WasLaunching(i)
  OBVIOUS
<1>0. i \in Items /\ G \in BOOLEAN /\ L \in BOOLEAN /\ Fit(G, L, item[i])
  BY ItemAtHand
<1>1. Update(i, HandedOver(item[i])) \/ Update(i, item[i])
  BY Zenon DEF ExecuteSend, HandedOver
<1>2. Fit(G, L, HandedOver(item[i])) /\ Steady(item[i], HandedOver(item[i]))
  BY <1>0, FieldsSteady
<1>3. Steady(item[i], item[i])
  BY DEF Steady
<1>4. Stepped(on, {})
  BY <1>0, <1>1, <1>2, <1>3, UpdateSteady
<1>5. inbox' \in [Items -> SUBSET Comments]
  BY <1>0, WorldTyped DEF ExecuteSend, Delivered
<1>6. WorldStepped
  BY <1>5, WorldKept, WorldTyped DEF ExecuteSend
<1>. QED
  BY <1>4, <1>6 DEF Served

\* executePostReview.
LEMMA PostReviewServed ==
  ASSUME NEW on \in BOOLEAN, ItemsFit(on), WorldOK, NEW a \in Actions, ExecutePostReview(a)
  PROVE  Served(on)
<1>. PICK i : i = a.item
  OBVIOUS
<1>0. i \in Items
  BY ItemAtHand
<1>1. gh' = [gh EXCEPT ![i] = [gh[i] EXCEPT !.agents = @ \cup {"review"}]] /\ gh[i] \in PullRecords
  BY <1>0, WorldTyped DEF ExecutePostReview
<1>2. gh' \in [Items -> PullRecords]
  BY <1>0, <1>1, PullChanges, WorldTyped
<1>3. WorldStepped
  BY <1>2, WorldKept, WorldTyped DEF ExecutePostReview
<1>. QED
  BY <1>3, UnchangedSteps DEF Served, ExecutePostReview

\* A signal file is deleted.
LEMMA ClearSignalServed ==
  ASSUME NEW on \in BOOLEAN, ItemsFit(on), WorldOK, NEW a \in Actions, ExecuteClearSignal(a)
  PROVE  Served(on)
<1>1. signals' \in [Items -> SUBSET SignalNames]
  BY ItemAtHand, WorldTyped DEF ExecuteClearSignal
<1>2. WorldStepped
  BY <1>1, WorldKept, WorldTyped DEF ExecuteClearSignal
<1>. QED
  BY <1>2, UnchangedSteps DEF Served, ExecuteClearSignal

\* executeLaunchReview.
LEMMA LaunchReviewServed ==
  ASSUME NEW on \in BOOLEAN, ItemsFit(on), WorldOK, NEW a \in Actions, ExecuteLaunchReview(a)
  PROVE  Served(on)
<1>. PICK i : i = a.item
  OBVIOUS
<1>. PICK G : G = Earned(on, i)
  OBVIOUS
<1>. PICK L : L = WasLaunching(i)
  OBVIOUS
<1>0. i \in Items /\ G \in BOOLEAN /\ L \in BOOLEAN /\ Fit(G, L, item[i])
  BY ItemAtHand
<1>1. Update(i, WithReviewer(item[i], TRUE)) \/ UNCHANGED item
  BY Zenon DEF ExecuteLaunchReview, WithReviewer
<1>2. Fit(G, L, WithReviewer(item[i], TRUE)) /\ Steady(item[i], WithReviewer(item[i], TRUE))
  BY <1>0, FieldsSteady
<1>3. Stepped(on, {})
  BY <1>0, <1>1, <1>2, UpdateSteady, UnchangedSteps
<1>4. helper' \in [Items -> SUBSET Helpers] /\ faults' \in 0 .. MaxFaults
  BY <1>0, FaultTyped, WorldTyped DEF ExecuteLaunchReview, Helpers
<1>5. WorldStepped
  BY <1>4, WorldKept, WorldTyped DEF ExecuteLaunchReview
<1>. QED
  BY <1>3, <1>5 DEF Served

\* executeLaunchForwardFixer.
LEMMA LaunchForwardFixerServed ==
  ASSUME NEW on \in BOOLEAN, ItemsFit(on), WorldOK, NEW a \in Actions, ExecuteLaunchForwardFixer(a)
  PROVE  Served(on)
<1>. PICK i : i = a.item
  OBVIOUS
<1>. PICK G : G = Earned(on, i)
  OBVIOUS
<1>. PICK L : L = WasLaunching(i)
  OBVIOUS
<1>0. i \in Items /\ G \in BOOLEAN /\ L \in BOOLEAN /\ Fit(G, L, item[i])
  BY ItemAtHand
<1>1. Update(i, WithFixer(item[i], TRUE)) \/ UNCHANGED item
  BY Zenon DEF ExecuteLaunchForwardFixer, WithFixer
<1>2. Fit(G, L, WithFixer(item[i], TRUE)) /\ Steady(item[i], WithFixer(item[i], TRUE))
  BY <1>0, FieldsSteady
<1>3. Stepped(on, {})
  BY <1>0, <1>1, <1>2, UpdateSteady, UnchangedSteps
<1>4. helper' \in [Items -> SUBSET Helpers] /\ faults' \in 0 .. MaxFaults
  BY <1>0, FaultTyped, WorldTyped DEF ExecuteLaunchForwardFixer, Helpers
<1>5. WorldStepped
  BY <1>4, WorldKept, WorldTyped DEF ExecuteLaunchForwardFixer
<1>. QED
  BY <1>3, <1>5 DEF Served

\* Helpers after one of them is dismissed.
LEMMA DismissedTyped ==
  ASSUME WorldOK, NEW i \in Items, NEW held, NEW name, Dismissed(i, held, name)
  PROVE  helper' \in [Items -> SUBSET Helpers] /\ faults' \in 0 .. MaxFaults
  BY FaultTyped, WorldTyped DEF Dismissed

\* executeCleanReview, executeCleanRebaser, executeCleanForwardFixer.
LEMMA CleanHelperServed ==
  ASSUME NEW on \in BOOLEAN, ItemsFit(on), WorldOK, NEW a \in Actions, ExecuteCleanHelper(a)
  PROVE  Served(on)
<1>. PICK i : i = a.item
  OBVIOUS
<1>. PICK G : G = Earned(on, i)
  OBVIOUS
<1>. PICK L : L = WasLaunching(i)
  OBVIOUS
<1>0. i \in Items /\ G \in BOOLEAN /\ L \in BOOLEAN /\ Fit(G, L, item[i])
  BY ItemAtHand
<1>1. \/ Update(i, WithReviewer(item[i], FALSE))
      \/ Update(i, WithRebaser(item[i], FALSE))
      \/ Update(i, WithFixer(item[i], FALSE))
  BY Zenon DEF ExecuteCleanHelper, WithReviewer, WithRebaser, WithFixer
<1>2. /\ Fit(G, L, WithReviewer(item[i], FALSE)) /\ Steady(item[i], WithReviewer(item[i], FALSE))
      /\ Fit(G, L, WithRebaser(item[i], FALSE)) /\ Steady(item[i], WithRebaser(item[i], FALSE))
      /\ Fit(G, L, WithFixer(item[i], FALSE)) /\ Steady(item[i], WithFixer(item[i], FALSE))
  BY <1>0, FieldsSteady, ZenonT(60)
<1>3. Stepped(on, {})
  BY <1>0, <1>1, <1>2, UpdateSteady
<1>4. helper' \in [Items -> SUBSET Helpers] /\ faults' \in 0 .. MaxFaults
  BY <1>0, DismissedTyped DEF ExecuteCleanHelper
<1>5. /\ verdict' \in [Items -> {"none", "approve", "request-changes"}]
      /\ \A j \in Items : verdict'[j] \in {verdict[j], "none"}
  BY <1>0, ZenonT(60) DEF ExecuteCleanHelper, WorldOK, WorldTypeOK
<1>6. UNCHANGED <<gh, head, live, judged, signals, inbox, heard, posted, tree>>
  BY DEF ExecuteCleanHelper
<1>7. WorldTypeOK'
  BY <1>4, <1>5, <1>6 DEF WorldOK, WorldTypeOK
<1>8. \A j \in Items : verdict'[j] = "approve" => judged'[j] # {}
  BY <1>5, <1>6 DEF WorldOK
<1>9. WorldStepped
  BY <1>6, <1>7, <1>8 DEF WorldStepped, WorldOK
<1>. QED
  BY <1>3, <1>9 DEF Served

---------------------------------------------------------------------------
(* Merging *)

\* A merge spends an attempt of its own item, or none.
MergeServed(on, i) == Stepped(on, {i}) /\ WorldStepped

\* A step that spends no attempt may be taken for one that does.
LEMMA SteppedMore ==
  ASSUME NEW on, NEW i, Stepped(on, {})
  PROVE  Stepped(on, {i})
  BY DEF Stepped

\* The record after a merge that was refused, and counted.
Spent(it)   == [it EXCEPT !.mergeFails = @ + 1]
Refused(it) == Moved(Spent(it), IF Spent(it).mergeFails >= MaxMergeRetries THEN "stuck" ELSE "ci-passed")

\* What counting a refused merge changes of a record, and what it leaves.
LEMMA SpentFields ==
  ASSUME NEW G \in BOOLEAN, NEW L \in BOOLEAN, NEW it, Fit(G, L, it)
  PROVE  LET failed == Spent(it)
         IN  /\ Shape(failed) /\ Typed(failed) /\ SameMail(failed, it)
             /\ failed.mergeFails = it.mergeFails + 1
             /\ failed.retries = it.retries /\ failed.round = it.round
             /\ failed.rebaseAttempts = it.rebaseAttempts
             /\ failed.lastApproved = it.lastApproved /\ failed.reviewed = it.reviewed
             /\ failed.state = it.state /\ failed.illegal = it.illegal
<1>1. Shape(Spent(it))
  BY Zenon DEF Shape, Fit, Spent
<1>. QED
  BY <1>1, Limits0 DEF Fit, Typed, Shape, Fields, SameMail, Spent

\* A record whose move threw is well typed.
LEMMA ThrownTyped ==
  ASSUME NEW it, Shape(it), Typed(it)
  PROVE  Typed([it EXCEPT !.illegal = TRUE])
<1>. USE DEF Shape, Fields
<1>. PICK x : x = [it EXCEPT !.illegal = TRUE]
  OBVIOUS
<1>1. x.illegal \in BOOLEAN
  OBVIOUS
<1>2. \A f \in Fields \ {"illegal"} : x[f] = it[f]
  OBVIOUS
<1>. QED
  BY <1>1, <1>2, ZenonT(40) DEF Typed

\* A move to stuck, on a record that may have no attempt left.
LEMMA StuckFields ==
  ASSUME NEW it, Shape(it), Typed(it)
  PROVE  LET x == Moved(it, "stuck")
         IN  /\ Shape(x) /\ Typed(x) /\ SameMail(x, it)
             /\ x.retries = it.retries /\ x.round = it.round /\ x.mergeFails = it.mergeFails
             /\ x.rebaseAttempts = it.rebaseAttempts /\ x.lastApproved = it.lastApproved
             /\ x.reviewed => it.reviewed
             /\ x.state = "stuck" \/ (x.state = it.state /\ x.illegal)
<1>. PICK x : x = Moved(it, "stuck")
  OBVIOUS
<1>1. Shape(x)
  BY Zenon DEF Moved, Shape
<1>2. CASE it.state = "stuck"
  <2>1. x = it
    BY <1>2 DEF Moved
  <2>. QED
    BY <1>2, <2>1 DEF SameMail
<1>3. CASE it.state # "stuck" /\ "stuck" \notin Successors(it.state)
  <2>1. x = [it EXCEPT !.illegal = TRUE]
    BY <1>3 DEF Moved
  <2>2. Typed(x)
    BY <2>1, ThrownTyped
  <2>3. SameMail(x, it)
    BY <2>1 DEF Shape, Fields, SameMail
  <2>4. /\ x.retries = it.retries /\ x.round = it.round /\ x.mergeFails = it.mergeFails
        /\ x.rebaseAttempts = it.rebaseAttempts /\ x.lastApproved = it.lastApproved
        /\ x.reviewed = it.reviewed /\ x.state = it.state /\ x.illegal
    BY <2>1 DEF Shape, Fields
  <2>. QED
    BY <1>1, <2>2, <2>3, <2>4
<1>4. CASE it.state # "stuck" /\ "stuck" \in Successors(it.state)
  <2>1. Typed(x)
    BY <1>1, <1>4, ZeroCommit DEF Moved, Typed, Shape, Fields, States
  <2>2. SameMail(x, it)
    BY <1>4 DEF Moved, Shape, Fields, SameMail
  <2>3. /\ x.retries = it.retries /\ x.round = it.round /\ x.mergeFails = it.mergeFails
        /\ x.rebaseAttempts = it.rebaseAttempts /\ x.lastApproved = it.lastApproved
        /\ x.state = "stuck"
    BY <1>4 DEF Moved, Shape, Fields
  <2>4. x.reviewed => it.reviewed
    BY <1>4 DEF Moved, Typed, Shape, Fields
  <2>. QED
    BY <1>1, <2>1, <2>2, <2>3, <2>4
<1>. QED
  BY <1>2, <1>3, <1>4

\* A refusal counts an attempt; the record stays fit because the last one makes it stuck.
LEMMA RefusedFits ==
  ASSUME NEW G \in BOOLEAN, NEW L \in BOOLEAN, NEW it, Fit(G, L, it),
         it.mergeFails < MaxMergeRetries
  PROVE  Fit(G, L, Refused(it)) /\ (Quiet(it) => Quiet(Refused(it)))
<1>. PICK failed : failed = Spent(it)
  OBVIOUS
<1>. PICK x : x = Refused(it)
  OBVIOUS
<1>1. /\ Shape(failed) /\ Typed(failed) /\ SameMail(failed, it)
      /\ failed.mergeFails = it.mergeFails + 1
      /\ failed.retries = it.retries /\ failed.round = it.round
      /\ failed.rebaseAttempts = it.rebaseAttempts
      /\ failed.lastApproved = it.lastApproved /\ failed.reviewed = it.reviewed
      /\ failed.state = it.state /\ failed.illegal = it.illegal
  BY SpentFields
<1>2. it.mergeFails \in Nat /\ failed.mergeFails \in Nat /\ failed.mergeFails <= MaxMergeRetries
  BY <1>1, Limits0 DEF Fit, Typed
<1>3. CASE failed.mergeFails < MaxMergeRetries
  <2>1. Fit(G, L, failed)
    BY <1>1, <1>2, <1>3 DEF Fit
  <2>2. x = Moved(failed, "ci-passed")
    BY <1>2, <1>3, Limits0 DEF Refused
  <2>3. Fit(G, L, x) /\ SameMail(x, failed)
    BY <2>1, <2>2, MovedFits DEF States
  <2>. QED
    BY <1>1, <2>3 DEF SameMail, Quiet, AwaitsHandoff
<1>4. CASE ~(failed.mergeFails < MaxMergeRetries)
  <2>1. x = Moved(failed, "stuck")
    BY <1>2, <1>4, Limits0 DEF Refused
  <2>2. /\ Shape(x) /\ Typed(x) /\ SameMail(x, failed)
        /\ x.retries = failed.retries /\ x.round = failed.round /\ x.mergeFails = failed.mergeFails
        /\ x.rebaseAttempts = failed.rebaseAttempts /\ x.lastApproved = failed.lastApproved
        /\ x.reviewed => failed.reviewed
        /\ x.state = "stuck" \/ (x.state = failed.state /\ x.illegal)
    BY <1>1, <2>1, StuckFields
  <2>3. Fit(G, L, x)
    BY <1>1, <1>2, <2>2 DEF Fit
  <2>. QED
    BY <1>1, <2>2, <2>3 DEF SameMail, Quiet, AwaitsHandoff
<1>. QED
  BY <1>3, <1>4

\* The record of an item that has landed.
Merged(it) == Moved([it EXCEPT !.mergeFails = 0, !.base = NoItem], "merged")

\* The record of an item that has landed.
LEMMA LandedFits ==
  ASSUME NEW G \in BOOLEAN, NEW L \in BOOLEAN, NEW it, Fit(G, L, it)
  PROVE  Fit(G, L, Merged(it)) /\ (Quiet(it) => Quiet(Merged(it)))
<1>. PICK z : z = [it EXCEPT !.mergeFails = 0, !.base = NoItem]
  OBVIOUS
<1>1. Shape(z)
  BY Zenon DEF Shape, Fit
<1>2. Fit(G, L, z) /\ SameMail(z, it)
  BY <1>1, Limits0 DEF Fit, Typed, Shape, Fields, SameMail
<1>3. Fit(G, L, Moved(z, "merged")) /\ SameMail(Moved(z, "merged"), z)
  BY <1>2, MovedFits DEF States
<1>4. Fit(G, L, Moved(z, "merged")) /\ (Quiet(it) => Quiet(Moved(z, "merged")))
  BY <1>2, <1>3 DEF SameMail, Quiet, AwaitsHandoff
<1>5. Merged(it) = Moved(z, "merged")
  BY Zenon DEF Merged
<1>. QED
  BY <1>4, <1>5

\* GitHub does not answer the merge.
LEMMA MergeUnreachableServed ==
  ASSUME NEW on \in BOOLEAN, ItemsFit(on), WorldOK, NEW i \in Items, MergeUnreachable(i)
  PROVE  MergeServed(on, i)
<1>1. faults' \in 0 .. MaxFaults
  BY FaultTyped, WorldTyped DEF MergeUnreachable
<1>2. WorldStepped
  BY <1>1, WorldKept, WorldTyped DEF MergeUnreachable
<1>3. Stepped(on, {})
  BY UnchangedSteps DEF MergeUnreachable
<1>. QED
  BY <1>2, <1>3, SteppedMore DEF MergeServed

\* The pull request was merged before.
LEMMA MergeFoundServed ==
  ASSUME NEW on \in BOOLEAN, ItemsFit(on), WorldOK, NEW i \in Items, MergeFound(i)
  PROVE  MergeServed(on, i)
<1>. PICK G : G = Earned(on, i)
  OBVIOUS
<1>. PICK L : L = WasLaunching(i)
  OBVIOUS
<1>0. G \in BOOLEAN /\ L \in BOOLEAN /\ Fit(G, L, item[i])
  BY FitNow
<1>. PICK x : x = Moved(item[i], "merged")
  OBVIOUS
<1>1. Fit(G, L, x) /\ Steady(item[i], x)
  BY <1>0, MovedSteady DEF States
<1>2. PICK closed \in BOOLEAN :
        /\ CloseOwn(i, closed)
        /\ Update(i, [Moved(item[i], "merged") EXCEPT !.ws = IF closed THEN 0 ELSE @])
  BY DEF MergeFound
<1>. PICK w : w = IF closed THEN 0 ELSE x.ws
  OBVIOUS
<1>3. w \in {0, Borrowed} \cup Sessions
  BY <1>1 DEF Fit, Typed
<1>4. Update(i, WithWs(x, w))
  BY <1>2, Zenon DEF WithWs
<1>5. Fit(G, L, WithWs(x, w)) /\ Steady(x, WithWs(x, w))
  BY <1>0, <1>1, <1>3, FieldsSteady
<1>6. Steady(item[i], WithWs(x, w))
  BY <1>1, <1>5 DEF Steady
<1>7. Stepped(on, {})
  BY <1>4, <1>5, <1>6, UpdateSteady
<1>8. /\ live' \in [Items -> SUBSET Sessions] /\ helper' \in [Items -> SUBSET Helpers]
      /\ faults' \in 0 .. MaxFaults
  BY <1>2, CloseTyped, WorldTyped
<1>9. WorldStepped
  BY <1>8, WorldKept, WorldTyped DEF MergeFound
<1>. QED
  BY <1>7, <1>9, SteppedMore DEF MergeServed

\* Where the pull request is retargeted, the item's record notes the base and goes back.
LEMMA MovedBack ==
  ASSUME NEW on \in BOOLEAN, ItemsFit(on), WorldOK, NEW i \in Items,
         NEW b \in Items \cup {NoItem}, NEW to \in {"ci-pending", "ci-passed"},
         \/ Update(i, Moved([item[i] EXCEPT !.base = b], to))
         \/ Update(i, Moved(item[i], to))
  PROVE  Stepped(on, {i})
<1>. PICK G : G = Earned(on, i)
  OBVIOUS
<1>. PICK L : L = WasLaunching(i)
  OBVIOUS
<1>0. G \in BOOLEAN /\ L \in BOOLEAN /\ Fit(G, L, item[i])
  BY FitNow
<1>1. to \in States \ {"launching"} /\ to # "merging"
  BY DEF States
<1>. PICK x : x = WithBase(item[i], b)
  OBVIOUS
<1>2. Fit(G, L, x) /\ Steady(item[i], x)
  BY <1>0, FieldsSteady
<1>3. Fit(G, L, Moved(x, to)) /\ Steady(item[i], Moved(x, to))
  BY <1>0, <1>1, <1>2, MovedOfSteady
<1>4. Fit(G, L, Moved(item[i], to)) /\ Steady(item[i], Moved(item[i], to))
  BY <1>0, <1>1, MovedSteady
<1>5. Update(i, Moved(x, to)) \/ Update(i, Moved(item[i], to))
  BY Zenon DEF WithBase
<1>6. Stepped(on, {})
  BY <1>3, <1>4, <1>5, UpdateSteady
<1>. QED
  BY <1>6, SteppedMore

\* The pull request is retargeted.
LEMMA MergeRetargetedServed ==
  ASSUME NEW on \in BOOLEAN, ItemsFit(on), WorldOK, NEW i \in Items,
         NEW expected \in Items \cup {NoItem}, MergeRetargeted(i, expected)
  PROVE  MergeServed(on, i)
<1>1. Stepped(on, {i})
  BY MovedBack DEF MergeRetargeted
<1>2. gh' = [gh EXCEPT ![i] = [gh[i] EXCEPT !.base = expected]] /\ gh[i] \in PullRecords
  BY WorldTyped DEF MergeRetargeted
<1>3. gh' \in [Items -> PullRecords]
  BY <1>2, PullChanges, WorldTyped
<1>4. WorldStepped
  BY <1>3, WorldKept, WorldTyped DEF MergeRetargeted
<1>. QED
  BY <1>1, <1>4 DEF MergeServed

\* The branch it was stacked on is gone.
LEMMA MergeUnstackedServed ==
  ASSUME NEW on \in BOOLEAN, ItemsFit(on), WorldOK, NEW i \in Items,
         NEW expected, MergeUnstacked(i, expected)
  PROVE  MergeServed(on, i)
<1>1. Stepped(on, {i})
  BY MovedBack DEF MergeUnstacked
<1>2. gh' \in [Items -> PullRecords] /\ head' \in [Items -> Commits]
  BY RebaseTyped DEF MergeUnstacked
<1>3. faults' \in 0 .. MaxFaults
  BY FaultTyped, WorldTyped DEF MergeUnstacked
<1>4. WorldStepped
  BY <1>2, <1>3, WorldKept, WorldTyped DEF MergeUnstacked
<1>. QED
  BY <1>1, <1>4 DEF MergeServed

\* The merge waits for its base.
LEMMA MergeHeldServed ==
  ASSUME NEW on \in BOOLEAN, ItemsFit(on), WorldOK, NEW i \in Items,
         NEW expected, MergeHeld(i, expected)
  PROVE  MergeServed(on, i)
<1>1. Stepped(on, {i})
  BY MovedBack DEF MergeHeld
<1>2. faults' \in 0 .. MaxFaults
  BY FaultTyped, WorldTyped DEF MergeHeld
<1>3. WorldStepped
  BY <1>2, WorldKept, WorldTyped DEF MergeHeld
<1>. QED
  BY <1>1, <1>3 DEF MergeServed

\* GitHub refuses the merge.
LEMMA MergeRefusedServed ==
  ASSUME NEW on \in BOOLEAN, ItemsFit(on), WorldOK, NEW i \in Items,
         item[i].mergeFails < MaxMergeRetries, MergeRefused(i)
  PROVE  MergeServed(on, i)
<1>0. UNCHANGED <<live, helper, verdict, judged, signals, inbox, heard, posted, tree>>
  BY DEF MergeRefused
<1>1. ASSUME NEW r \in Rebases(i), Rebase(i, r), Update(i, Moved(item[i], "ci-pending")),
             Fault("merge-failure") \/ UNCHANGED faults
      PROVE  MergeServed(on, i)
  <2>1. Stepped(on, {i})
    BY <1>1, MovedBack
  <2>2. faults' \in 0 .. MaxFaults
    BY <1>1, FaultTyped, WorldTyped
  <2>3. WorldStepped
    BY <1>0, <1>1, <2>2, RebaseTyped, WorldKept, WorldTyped
  <2>. QED
    BY <2>1, <2>3 DEF MergeServed
<1>2. ASSUME Fault("merge-failure"), Update(i, Refused(item[i])), UNCHANGED <<gh, head>>
      PROVE  MergeServed(on, i)
  <2>1. /\ Earned(on, i) \in BOOLEAN /\ WasLaunching(i) \in BOOLEAN
        /\ Fit(Earned(on, i), WasLaunching(i), item[i])
    BY FitNow
  <2>2. /\ Fit(Earned(on, i), WasLaunching(i), Refused(item[i]))
        /\ Quiet(item[i]) => Quiet(Refused(item[i]))
    BY <2>1, RefusedFits
  <2>3. Stepped(on, {i})
    BY <1>2, <2>2, UpdateSteps, WorldTyped
  <2>4. faults' \in 0 .. MaxFaults
    BY <1>2, FaultTyped, WorldTyped
  <2>5. WorldStepped
    BY <1>0, <1>2, <2>4, WorldKept, WorldTyped
  <2>. QED
    BY <2>3, <2>5 DEF MergeServed
<1>. QED
  BY <1>1, <1>2, Zenon DEF MergeRefused, Refused, Spent

\* GitHub merges: the item and those restacked or rebased after it.
LEMMA MergeDoneServed ==
  ASSUME NEW on \in BOOLEAN, ItemsFit(on), WorldOK, NEW i \in Items, MergeDone(i)
  PROVE  MergeServed(on, i)
<1>. DEFINE active   == ActiveItems(item) \ {i}
            stacked  == {o \in active : i \in Deps[o] /\ item[o].base # NoItem}
            siblings == {o \in active \ stacked : item[o].pr # "none"}
            pushable == {o \in stacked \cup siblings : tree[o] /\ gh[o].pr = "open" /\ head[o] < MaxCommits}
            known    == IF FixForward THEN BOOLEAN ELSE {FALSE}
<1>1. PICK closed \in BOOLEAN, sha \in known, restacked \in SUBSET {o \in stacked : tree[o]},
           pushed \in SUBSET pushable :
        /\ pushed \cap stacked \subseteq restacked
        /\ CloseOwn(i, closed)
        /\ gh' = [o \in Items |-> IF o = i THEN Landed(gh[i])
                                  ELSE IF o \in pushed THEN Rebased(gh[o]) ELSE gh[o]]
        /\ head' = [o \in Items |-> IF o \in pushed THEN head[o] + 1 ELSE head[o]]
        /\ Commit([o \in Items |->
              IF o = i
              THEN [Moved([item[i] EXCEPT !.mergeFails = 0, !.base = NoItem], "merged")
                      EXCEPT !.ws = IF closed THEN 0 ELSE @, !.mergeSha = @ \/ sha]
              ELSE IF o \in restacked THEN [item[o] EXCEPT !.base = NoItem] ELSE item[o]])
  BY Zenon DEF MergeDone
<1>2. /\ \A o \in pushed : head[o] < MaxCommits
      /\ UNCHANGED <<verdict, judged, signals, inbox, heard, posted, tree>>
  BY DEF MergeDone
<1>5. sha \in BOOLEAN
  OBVIOUS
<1>. HIDE DEF known, active, stacked, siblings, pushable
<1>3. WorldStepped
  <2>1. \A o \in Items : /\ gh[o] \in PullRecords /\ Rebased(gh[o]) \in PullRecords
                         /\ Landed(gh[o]) \in PullRecords
    BY PullChanges, WorldTyped
  <2>2. gh' \in [Items -> PullRecords]
    BY <1>1, <2>1
  <2>3. head' \in [Items -> Commits]
    <3>1. \A o \in Items : head[o] \in Commits /\ (o \in pushed => head[o] + 1 \in Commits)
      BY <1>2, WorldTyped, BoundsAssumption DEF Commits
    <3>. QED
      BY <1>1, <3>1
  <2>4. /\ live' \in [Items -> SUBSET Sessions] /\ helper' \in [Items -> SUBSET Helpers]
        /\ faults' \in 0 .. MaxFaults
    BY <1>1, CloseTyped, WorldTyped
  <2>. QED
    BY <1>2, <2>2, <2>3, <2>4, WorldKept, WorldTyped
<1>4. Stepped(on, {i})
  <2>. PICK m : m = Merged(item[i])
    OBVIOUS
  <2>. PICK w : w = IF closed THEN 0 ELSE m.ws
    OBVIOUS
  <2>. PICK h : h = (m.mergeSha \/ sha)
    OBVIOUS
  <2>. PICK records : records = [o \in Items |-> IF o = i THEN Unheld(m, w, h)
                                 ELSE IF o \in restacked THEN WithBase(item[o], NoItem) ELSE item[o]]
    OBVIOUS
  <2>1. Commit(records)
    BY <1>1, Zenon DEF Unheld, WithBase, Merged
  <2>2. /\ Earned(on, i) \in BOOLEAN /\ WasLaunching(i) \in BOOLEAN
        /\ Fit(Earned(on, i), WasLaunching(i), item[i])
    BY FitNow
  <2>3. Fit(Earned(on, i), WasLaunching(i), m) /\ (Quiet(item[i]) => Quiet(m))
    BY <2>2, LandedFits
  <2>4. w \in {0, Borrowed} \cup Sessions /\ h \in BOOLEAN
    BY <1>5, <2>3 DEF Fit, Typed
  <2>5. Fit(Earned(on, i), WasLaunching(i), Unheld(m, w, h)) /\ Steady(m, Unheld(m, w, h))
    BY <2>2, <2>3, <2>4, FieldsSteady, ZenonT(60)
  <2>6. \A o \in Items :
          /\ Fit(Earned(on, o), WasLaunching(o), item[o])
          /\ Fit(Earned(on, o), WasLaunching(o), WithBase(item[o], NoItem))
          /\ Steady(item[o], WithBase(item[o], NoItem))
    BY FitNow, FieldsSteady, ZenonT(60)
  <2>7. Prepared(on, {i}, records)
    BY <2>3, <2>5, <2>6 DEF Prepared, Steady
  <2>. QED
    BY <2>1, <2>7, CommitSteps, WorldTyped
<1>. QED
  BY <1>3, <1>4 DEF MergeServed

\* executeMerge, in each of its outcomes.
LEMMA ExecuteMergeServed ==
  ASSUME NEW on \in BOOLEAN, ItemsFit(on), WorldOK, NEW a \in Actions,
         item[a.item].mergeFails < MaxMergeRetries, ExecuteMerge(a)
  PROVE  MergeServed(on, a.item)
<1>. PICK i : i = a.item
  OBVIOUS
<1>1. PICK expected : expected = ExpectedBase(i)
  OBVIOUS
<1>2. i \in Items /\ expected \in Items \cup {NoItem}
  BY <1>1, ItemAtHand DEF ExpectedBase
<1>3. \/ MergeUnreachable(i) \/ MergeFound(i)
      \/ MergeRetargeted(i, expected) \/ MergeUnstacked(i, expected) \/ MergeHeld(i, expected)
      \/ MergeRefused(i) \/ MergeDone(i)
  BY <1>1 DEF ExecuteMerge
<1>. QED
  BY <1>2, <1>3, MergeUnreachableServed, MergeFoundServed, MergeRetargetedServed,
     MergeUnstackedServed, MergeHeldServed, MergeRefusedServed, MergeDoneServed

\* Every action: the records stay fit, no item is made to wait for a comment, and only a merge
\* spends an attempt of its item.
LEMMA ExecuteServed ==
  ASSUME NEW on \in BOOLEAN, ItemsFit(on), WorldOK, NEW a \in Actions, Execute(a),
         a.type = "merge" => item[a.item].mergeFails < MaxMergeRetries
  PROVE  Stepped(on, IF a.type = "merge" THEN {a.item} ELSE {}) /\ WorldStepped
<1>1. CASE a.type = "merge"
  <2>1. ExecuteMerge(a)
    BY <1>1 DEF Execute, ExecuteLaunch, ExecuteRetry, ExecuteWorkspaceClose, ExecuteClean,
       ExecuteDaemonRebase, ExecuteNotifyCi, ExecuteSend, ExecutePostReview, ExecuteClearSignal,
       ClearedSignal, SignalNames, ExecuteLaunchReview, ExecuteLaunchForwardFixer, ExecuteCleanHelper
  <2>. QED
    BY <1>1, <2>1, ExecuteMergeServed DEF MergeServed
<1>2. CASE a.type # "merge"
  <2>1. \/ ExecuteLaunch(a) \/ ExecuteRetry(a) \/ ExecuteWorkspaceClose(a) \/ ExecuteClean(a)
        \/ ExecuteDaemonRebase(a)
        \/ ExecuteNotifyCi(a) \/ ExecuteSend(a) \/ ExecutePostReview(a) \/ ExecuteClearSignal(a)
        \/ ExecuteLaunchReview(a) \/ ExecuteLaunchForwardFixer(a) \/ ExecuteCleanHelper(a)
    BY <1>2 DEF Execute, ExecuteMerge
  <2>2. Stepped(on, {}) /\ WorldStepped
    BY <2>1, LaunchServed, RetryServed, WorkspaceCloseServed, CleanServed, DaemonRebaseServed,
       NotifyCiServed, SendServed, PostReviewServed, ClearSignalServed, LaunchReviewServed,
       LaunchForwardFixerServed, CleanHelperServed DEF Served
  <2>. QED
    BY <1>2, <2>2
<1>. QED
  BY <1>1, <1>2

---------------------------------------------------------------------------
(* Only a merge lands a pull request *)

Landless == \A o \in Items : gh'[o].pr = "merged" => gh[o].pr = "merged"

\* The ways in which actions change a pull request without landing it.
LEMMA ChangedLandless ==
  ASSUME WorldTypeOK, NEW i \in Items
  PROVE  /\ UNCHANGED gh => Landless
         /\ \A b : gh' = [gh EXCEPT ![i].fresh = b] => Landless
         /\ \A b : gh' = [gh EXCEPT ![i].base = b] => Landless
         /\ \A w : gh' = [gh EXCEPT ![i].agents = @ \cup {w}] => Landless
         /\ \A r \in Rebases(i) : Rebase(i, r) => Landless
<1>. USE DEF Landless
<1>1. gh \in [Items -> PullRecords]
  BY DEF WorldTypeOK, PullRecords
<1>2. UNCHANGED gh => Landless
  OBVIOUS
<1>3. \A b : gh' = [gh EXCEPT ![i].fresh = b] => Landless
  BY <1>1 DEF PullRecords
<1>4. \A b : gh' = [gh EXCEPT ![i].base = b] => Landless
  BY <1>1 DEF PullRecords
<1>5. \A w : gh' = [gh EXCEPT ![i].agents = @ \cup {w}] => Landless
  BY <1>1 DEF PullRecords
<1>6. ASSUME NEW r \in Rebases(i), Rebase(i, r)
      PROVE  Landless
  <2>1. r.pull = gh[i] \/ r.pull = Rebased(gh[i])
    BY DEF Rebases
  <2>2. Rebased(gh[i]).pr = "open"
    BY <1>1 DEF Rebased, Pushed, PullRecords
  <2>3. \A o \in Items : gh'[o] = IF o = i THEN r.pull ELSE gh[o]
    BY <1>1, <1>6 DEF Rebase
  <2>. QED
    BY <2>1, <2>2, <2>3
<1>. QED
  BY <1>2, <1>3, <1>4, <1>5, <1>6

\* An action other than a merge lands nothing.
LEMMA OthersLandless ==
  ASSUME WorldTypeOK, NEW a \in Actions, Execute(a), a.type # "merge"
  PROVE  Landless
<1>. PICK i : i = a.item
  OBVIOUS
<1>0. i \in Items
  BY ActionTyped
<1>1. CASE ExecuteLaunch(a)
  BY <1>0, <1>1, ChangedLandless DEF ExecuteLaunch, LaunchBlocked, LaunchSkipped, LaunchFailed,
     LaunchDone, world
<1>2. CASE ExecuteRetry(a)
  BY <1>0, <1>2, ChangedLandless DEF ExecuteRetry
<1>3. CASE ExecuteWorkspaceClose(a)
  BY <1>0, <1>3, ChangedLandless DEF ExecuteWorkspaceClose
<1>4. CASE ExecuteClean(a)
  BY <1>0, <1>4, ChangedLandless DEF ExecuteClean
<1>5. CASE ExecuteDaemonRebase(a)
  <2>. PICK b : b = (gh[i].fresh /\ "rebasing" \notin Successors(item[i].state))
    OBVIOUS
  <2>1. UNCHANGED gh \/ gh' = [gh EXCEPT ![i].fresh = b] \/ \E r \in Rebases(i) : Rebase(i, r)
    BY <1>5 DEF ExecuteDaemonRebase, EscalateRebase, world
  <2>. QED
    BY <1>0, <2>1, ChangedLandless
<1>6. CASE ExecuteNotifyCi(a)
  BY <1>0, <1>6, ChangedLandless DEF ExecuteNotifyCi
<1>7. CASE ExecuteSend(a)
  BY <1>0, <1>7, ChangedLandless DEF ExecuteSend
<1>8. CASE ExecutePostReview(a)
  BY <1>0, <1>8, ChangedLandless DEF ExecutePostReview
<1>9. CASE ExecuteClearSignal(a)
  BY <1>0, <1>9, ChangedLandless DEF ExecuteClearSignal
<1>10. CASE ExecuteLaunchReview(a)
  BY <1>0, <1>10, ChangedLandless DEF ExecuteLaunchReview
<1>11. CASE ExecuteLaunchForwardFixer(a)
  BY <1>0, <1>11, ChangedLandless DEF ExecuteLaunchForwardFixer
<1>12. CASE ExecuteCleanHelper(a)
  BY <1>0, <1>12, ChangedLandless DEF ExecuteCleanHelper
<1>. QED
  BY <1>1, <1>2, <1>3, <1>4, <1>5, <1>6, <1>7, <1>8, <1>9, <1>10, <1>11, <1>12
     DEF Execute, ExecuteMerge

\* A merge lands the pull request of its own item, and no other.
LEMMA MergeLandsOwn ==
  ASSUME WorldTypeOK, NEW a \in Actions, ExecuteMerge(a), NEW j \in Items,
         gh[j].pr # "merged", gh'[j].pr = "merged"
  PROVE  j = a.item
<1>. PICK i : i = a.item
  OBVIOUS
<1>. PICK expected : expected = ExpectedBase(i)
  OBVIOUS
<1>0. i \in Items /\ ~Landless
  BY ActionTyped DEF Landless
<1>1. \/ MergeUnreachable(i) \/ MergeFound(i)
      \/ MergeRetargeted(i, expected) \/ MergeUnstacked(i, expected) \/ MergeHeld(i, expected)
      \/ MergeRefused(i) \/ MergeDone(i)
  BY DEF ExecuteMerge
<1>2. ~MergeUnreachable(i) /\ ~MergeFound(i) /\ ~MergeHeld(i, expected)
  BY <1>0, ChangedLandless DEF MergeUnreachable, MergeFound, MergeHeld
<1>3. ~MergeRetargeted(i, expected)
  BY <1>0, ChangedLandless DEF MergeRetargeted
<1>4. ~MergeUnstacked(i, expected)
  <2>1. MergeUnstacked(i, expected) => \E r \in Rebases(i) : Rebase(i, r)
    BY DEF MergeUnstacked
  <2>. QED
    BY <1>0, <2>1, ChangedLandless
<1>5. ~MergeRefused(i)
  <2>1. MergeRefused(i) => UNCHANGED gh \/ \E r \in Rebases(i) : Rebase(i, r)
    BY DEF MergeRefused
  <2>. QED
    BY <1>0, <2>1, ChangedLandless
<1>6. CASE MergeDone(i)
  <2>. DEFINE active   == ActiveItems(item) \ {i}
              stacked  == {o \in active : i \in Deps[o] /\ item[o].base # NoItem}
              siblings == {o \in active \ stacked : item[o].pr # "none"}
              pushable == {o \in stacked \cup siblings : tree[o] /\ gh[o].pr = "open" /\ head[o] < MaxCommits}
              known    == IF FixForward THEN BOOLEAN ELSE {FALSE}
  <2>1. PICK closed \in BOOLEAN, sha \in known, restacked \in SUBSET {o \in stacked : tree[o]},
             pushed \in SUBSET pushable :
          /\ pushed \cap stacked \subseteq restacked
          /\ CloseOwn(i, closed)
          /\ gh' = [o \in Items |-> IF o = i THEN Landed(gh[i])
                                    ELSE IF o \in pushed THEN Rebased(gh[o]) ELSE gh[o]]
          /\ head' = [o \in Items |-> IF o \in pushed THEN head[o] + 1 ELSE head[o]]
          /\ Commit([o \in Items |->
                IF o = i
                THEN [Moved([item[i] EXCEPT !.mergeFails = 0, !.base = NoItem], "merged")
                        EXCEPT !.ws = IF closed THEN 0 ELSE @, !.mergeSha = @ \/ sha]
                ELSE IF o \in restacked THEN [item[o] EXCEPT !.base = NoItem] ELSE item[o]])
    BY <1>6, Zenon DEF MergeDone
  <2>. HIDE DEF known, active, stacked, siblings, pushable
  <2>2. Rebased(gh[j]).pr = "open"
    BY DEF Rebased, Pushed, WorldTypeOK
  <2>. QED
    BY <2>1, <2>2
<1>. QED
  BY <1>1, <1>2, <1>3, <1>4, <1>5, <1>6

-----------------------------------------------------------------------------
(* What a handler does to the sessions of its item *)

\* An item that rests: no handler moves it on.
Resting == {"ready", "queued", "done", "stuck"}

\* Only an item that waits for a person, or is given up, is parked.
ParkedRightly(it) == it.parked => it.state \in {"review-pending", "stuck"}

\* From x to y the references to sessions and the base stay, a resting item rests, nobody
\* goes back to ready or queued, and nobody is parked who must not be.
Carries(x, y) ==
  /\ y.ws = x.ws /\ y.retryWs = x.retryWs /\ y.base = x.base
  /\ x.state \in Resting \/ y.state \in Resting \ {"done", "stuck"} => y.state = x.state
  /\ x.state = "merged" /\ ~FixForward => y.state \in {"merged", "done"}
  /\ ParkedRightly(x) => ParkedRightly(y)

\* What a record puts into an action is of the action's type.
Sayable(it) ==
  it.batch \in SUBSET Feedback /\ it.feedback \in SUBSET Feedback /\ it.nudgedTwice \in BOOLEAN

\* The references to helpers stay, and a record that threw has thrown for good.
Sequel(x, y) ==
  /\ Shape(y)
  /\ Sayable(x) => Sayable(y)
  /\ y.reviewWs = x.reviewWs /\ y.rebaserWs = x.rebaserWs /\ y.fixWs = x.fixWs
  /\ x.illegal => y.illegal

\* The states of an item whose pull request has landed.
OnMain == {"merged", "done", "forward-fix-pending", "fix-forward-failed", "fixing-forward"}

\* Nobody comes to them from another state.
Ashore(x, y) == y.state \in OnMain => x.state \in OnMain

Held(x, y) == Sequel(x, y) /\ (y.illegal \/ Carries(x, y))
Keeps(x, y) == Sequel(x, y) /\ (y.illegal \/ (Carries(x, y) /\ Ashore(x, y)))

\* From x to y the item was relaunched: its session is set aside.
Renewed(x, y) ==
  /\ Sequel(x, y)
  /\ \/ y.illegal
     \/ /\ y.ws = 0 /\ y.retryWs = x.ws /\ y.base = x.base
        /\ y.state = "ready" /\ ~y.parked
        /\ x.state \notin Resting /\ (x.state = "merged" => FixForward)

Unlaunched(i) == Seq({a \in Actions : a.item = i /\ a.type # "launch"})
Hushed(i) == Seq({a \in Actions : a.item = i /\ a.type \notin {"launch", "notify-ci-failure"}})

Holds(acts, t) == \E n \in DOMAIN acts : acts[n].type = t

\* A handler keeps the session of its item or sets it aside, with a retry to close it; and it
\* tells a worker of red CI only where CI is red.
Passable(i, x, o) ==
  /\ o.acts \in Unlaunched(i)
  /\ Held(x, o.it) \/ (Renewed(x, o.it) /\ Holds(o.acts, "retry"))
  /\ o.acts \in Hushed(i) \/ o.it.illegal \/ o.it.state = "ci-failed"

\* Besides, it takes nobody for landed who was not.
Tended(i, x, o) ==
  /\ o.acts \in Unlaunched(i)
  /\ Keeps(x, o.it) \/ (Renewed(x, o.it) /\ Holds(o.acts, "retry"))
  /\ o.acts \in Hushed(i) \/ o.it.illegal \/ o.it.state = "ci-failed"

\* A record the state machine works on, and one that a handler may go on with: an item that is
\* neither ready nor queued.
Rightful(it) == Shape(it) /\ Sayable(it) /\ (it.illegal \/ ParkedRightly(it))
Handles(it) == Rightful(it) /\ (it.illegal \/ it.state \notin {"ready", "queued"})

---------------------------------------------------------------------------
(* Sequences of actions *)

\* Types of actions that a handler may always ask for.
HushedTypes ==
  {"retry", "workspace-close", "clean", "clean-review", "clean-rebaser", "clean-forward-fixer",
   "launch-review", "launch-forward-fixer", "merge", "daemon-rebase", "post-review",
   "clear-no-new-info", "clear-pushback", "clear-feedback-done"}

\* A plan that tells nobody of CI is a plan that launches nobody.
LEMMA HushedIsUnlaunched == ASSUME NEW i, NEW acts \in Hushed(i) PROVE acts \in Unlaunched(i)
  BY DEF Hushed, Unlaunched

\* Single actions.
LEMMA OneHushed ==
  ASSUME NEW i \in Items
  PROVE  /\ <<>> \in Hushed(i)
         /\ \A t \in HushedTypes : <<Action(t, i)>> \in Hushed(i)
         /\ <<Action("notify-ci-failure", i)>> \in Unlaunched(i)
         /\ \A msg \in SUBSET Feedback : <<Send(i, msg)>> \in Hushed(i)
         /\ \A b \in BOOLEAN : <<[Action("daemon-rebase", i) EXCEPT !.escalate = b]>> \in Hushed(i)
<1>1. <<>> \in Hushed(i)
  BY DEF Hushed
<1>2. ASSUME NEW t \in HushedTypes PROVE <<Action(t, i)>> \in Hushed(i)
  BY DEF HushedTypes, Hushed, Action, Actions, Feedback
<1>3. <<Action("notify-ci-failure", i)>> \in Unlaunched(i)
  BY DEF Unlaunched, Action, Actions, Feedback
<1>4. ASSUME NEW msg \in SUBSET Feedback PROVE <<Send(i, msg)>> \in Hushed(i)
  <2>1. Send(i, msg) \in Actions
    BY DEF Send, Action, Actions
  <2>2. Send(i, msg).item = i /\ Send(i, msg).type = "send-message"
    BY DEF Send, Action
  <2>. QED
    BY <2>1, <2>2 DEF Hushed
<1>5. ASSUME NEW b \in BOOLEAN
      PROVE  <<[Action("daemon-rebase", i) EXCEPT !.escalate = b]>> \in Hushed(i)
  <2>1. [Action("daemon-rebase", i) EXCEPT !.escalate = b]
          = [type |-> "daemon-rebase", item |-> i, msg |-> {}, base |-> NoItem, escalate |-> b]
    BY DEF Action
  <2>. QED
    BY <2>1 DEF Hushed, Actions
<1>. QED
  BY <1>1, <1>2, <1>3, <1>4, <1>5

\* Plans one after the other.
LEMMA HushedThen ==
  ASSUME NEW i, NEW x \in Hushed(i)
  PROVE  /\ \A y \in Hushed(i) : x \o y \in Hushed(i) /\ y \o x \in Hushed(i)
         /\ \A y \in Unlaunched(i) : x \o y \in Unlaunched(i) /\ y \o x \in Unlaunched(i)
<1>1. ASSUME NEW y \in Hushed(i) PROVE x \o y \in Hushed(i) /\ y \o x \in Hushed(i)
  BY DEF Hushed
<1>2. ASSUME NEW y \in Unlaunched(i) PROVE x \o y \in Unlaunched(i) /\ y \o x \in Unlaunched(i)
  <2>1. x \in Unlaunched(i)
    BY HushedIsUnlaunched
  <2>. QED
    BY <2>1 DEF Unlaunched
<1>. QED
  BY <1>1, <1>2

\* What is in one part of a plan is in the whole.
LEMMA HoldsThen ==
  ASSUME NEW i, NEW x \in Unlaunched(i), NEW y \in Unlaunched(i), NEW t
  PROVE  Holds(x, t) \/ Holds(y, t) => Holds(x \o y, t)
<1>1. /\ x \in Seq(Actions) /\ y \in Seq(Actions)
  BY DEF Unlaunched
<1>2. ASSUME NEW n \in DOMAIN x, x[n].type = t PROVE Holds(x \o y, t)
  <2>1. n \in DOMAIN (x \o y) /\ (x \o y)[n] = x[n]
    BY <1>1
  <2>. QED
    BY <1>2, <2>1 DEF Holds
<1>3. ASSUME NEW n \in DOMAIN y, y[n].type = t PROVE Holds(x \o y, t)
  <2>1. Len(x) + n \in DOMAIN (x \o y) /\ (x \o y)[Len(x) + n] = y[n]
    BY <1>1
  <2>. QED
    BY <1>3, <2>1 DEF Holds
<1>. QED
  BY <1>2, <1>3 DEF Holds

---------------------------------------------------------------------------
(* Steps of a handler, one after the other *)

\* Nothing done.
LEMMA KeptSelf == ASSUME NEW it, Shape(it) PROVE Keeps(it, it)
  BY Zenon DEF Keeps, Sequel, Carries, Ashore

\* What is kept is held, and what is tended is passable.
LEMMA TendedPassable ==
  /\ \A x, y : Keeps(x, y) => Held(x, y)
  /\ \A i, x, o : Tended(i, x, o) => Passable(i, x, o)
<1>1. \A x, y : Keeps(x, y) => Held(x, y)
  BY Zenon DEF Keeps, Held
<1>. QED
  BY <1>1, Zenon DEF Tended, Passable

\* Two steps that keep.
LEMMA KeptTwice ==
  ASSUME NEW x, NEW y, NEW z, Keeps(x, y), Keeps(y, z)
  PROVE  Keeps(x, z)
<1>1. Sequel(x, z)
  BY Zenon DEF Keeps, Sequel
<1>2. CASE z.illegal
  BY <1>1, <1>2 DEF Keeps
<1>3. CASE ~z.illegal
  <2>1. Carries(x, y) /\ Carries(y, z) /\ Ashore(x, y) /\ Ashore(y, z)
    BY <1>3, Zenon DEF Keeps, Sequel
  <2>2. z.ws = x.ws /\ z.retryWs = x.retryWs /\ z.base = x.base
    BY <2>1 DEF Carries
  <2>3. x.state \in Resting \/ z.state \in Resting \ {"done", "stuck"} => z.state = x.state
    BY <2>1 DEF Carries, Resting
  <2>4. x.state = "merged" /\ ~FixForward => z.state \in {"merged", "done"}
    BY <2>1 DEF Carries, Resting
  <2>5. ParkedRightly(x) => ParkedRightly(z)
    BY <2>1, Zenon DEF Carries
  <2>6. Ashore(x, z)
    BY <2>1, Zenon DEF Ashore
  <2>. QED
    BY <1>1, <2>2, <2>3, <2>4, <2>5, <2>6 DEF Keeps, Carries
<1>. QED
  BY <1>2, <1>3

\* A step that keeps, and a relaunch.
LEMMA KeptThenRenewed ==
  ASSUME NEW x, NEW y, NEW z, Keeps(x, y), Renewed(y, z)
  PROVE  Renewed(x, z)
<1>1. Sequel(x, z)
  BY Zenon DEF Keeps, Renewed, Sequel
<1>2. CASE z.illegal
  BY <1>1, <1>2 DEF Renewed
<1>3. CASE ~z.illegal
  <2>1. Carries(x, y) /\ ~y.illegal
    BY <1>3, Zenon DEF Keeps, Renewed, Sequel
  <2>2. /\ z.ws = 0 /\ z.retryWs = y.ws /\ z.base = y.base
        /\ z.state = "ready" /\ ~z.parked
        /\ y.state \notin Resting /\ (y.state = "merged" => FixForward)
    BY <1>3, Zenon DEF Renewed
  <2>3. x.state \notin Resting /\ (x.state = "merged" => FixForward)
    BY <2>1, <2>2 DEF Carries, Resting
  <2>4. z.retryWs = x.ws /\ z.base = x.base
    BY <2>1, <2>2 DEF Carries
  <2>. QED
    BY <1>1, <2>2, <2>3, <2>4, Zenon DEF Renewed
<1>. QED
  BY <1>2, <1>3

\* A record that is kept is one a handler may go on with.
LEMMA KeptHandles ==
  ASSUME NEW x, NEW y, Keeps(x, y)
  PROVE  (Rightful(x) => Rightful(y)) /\ (Handles(x) => Handles(y))
<1>1. Rightful(x) => Rightful(y)
  BY Zenon DEF Rightful, Keeps, Sequel, Carries
<1>2. CASE y.illegal
  BY <1>1, <1>2, Zenon DEF Handles
<1>3. CASE ~y.illegal
  <2>1. Carries(x, y) /\ ~x.illegal
    BY <1>3, Zenon DEF Keeps, Sequel
  <2>2. x.state \notin {"ready", "queued"} => y.state \notin {"ready", "queued"}
    BY <2>1 DEF Carries, Resting
  <2>. QED
    BY <1>1, <2>1, <2>2, Zenon DEF Handles
<1>. QED
  BY <1>2, <1>3

\* The outcomes a handler is made of.
LEMMA KeptTended ==
  ASSUME NEW i, NEW x, NEW y, Keeps(x, y), NEW acts \in Hushed(i)
  PROVE  Tended(i, x, Outcome(y, acts))
<1>1. Outcome(y, acts).it = y /\ Outcome(y, acts).acts = acts
  BY DEF Outcome
<1>. QED
  BY <1>1, HushedIsUnlaunched, Zenon DEF Tended

\* A worker is told of red CI.
LEMMA ToldTended ==
  ASSUME NEW i, NEW x, NEW y, Keeps(x, y), y.illegal \/ y.state = "ci-failed",
         NEW acts \in Unlaunched(i)
  PROVE  Tended(i, x, Outcome(y, acts))
<1>1. Outcome(y, acts).it = y /\ Outcome(y, acts).acts = acts
  BY DEF Outcome
<1>. QED
  BY <1>1, Zenon DEF Tended

\* A relaunch, with the retry that closes the session.
LEMMA RenewedTended ==
  ASSUME NEW i \in Items, NEW x, NEW y, Renewed(x, y)
  PROVE  Tended(i, x, Outcome(y, <<Action("retry", i)>>))
<1>. PICK acts : acts = <<Action("retry", i)>>
  OBVIOUS
<1>1. acts \in Hushed(i)
  BY OneHushed DEF HushedTypes
<1>2. Holds(acts, "retry")
  BY DEF Holds, Action
<1>3. Outcome(y, acts).it = y /\ Outcome(y, acts).acts = acts
  BY DEF Outcome
<1>. QED
  BY <1>1, <1>2, <1>3, HushedIsUnlaunched, Zenon DEF Tended

\* A step that keeps, and then a handler.
LEMMA TendedOf ==
  ASSUME NEW i, NEW x, NEW y, NEW o, Keeps(x, y), Tended(i, y, o)
  PROVE  Tended(i, x, o)
<1>. PICK z : z = o.it
  OBVIOUS
<1>1. Keeps(y, z) \/ (Renewed(y, z) /\ Holds(o.acts, "retry"))
  BY Zenon DEF Tended
<1>2. Keeps(y, z) => Keeps(x, z)
  BY KeptTwice
<1>3. Renewed(y, z) => Renewed(x, z)
  BY KeptThenRenewed
<1>. QED
  BY <1>1, <1>2, <1>3, Zenon DEF Tended

\* A handler, with actions before its own.
LEMMA AfterTended ==
  ASSUME NEW i, NEW x, NEW acts \in Hushed(i), NEW outcomes, \A o \in outcomes : Tended(i, x, o)
  PROVE  \A o \in After(acts, outcomes) : Tended(i, x, o)
<1>. SUFFICES ASSUME NEW o \in outcomes PROVE Tended(i, x, Outcome(o.it, acts \o o.acts))
  BY DEF After
<1>. PICK p : p = Outcome(o.it, acts \o o.acts)
  OBVIOUS
<1>1. p.it = o.it /\ p.acts = acts \o o.acts
  BY DEF Outcome
<1>2. o.acts \in Unlaunched(i) /\ acts \in Unlaunched(i)
  BY HushedIsUnlaunched DEF Tended
<1>3. p.acts \in Unlaunched(i)
  BY <1>1, <1>2, HushedThen
<1>4. o.acts \in Hushed(i) => p.acts \in Hushed(i)
  BY <1>1, HushedThen
<1>5. Holds(o.acts, "retry") => Holds(p.acts, "retry")
  BY <1>1, <1>2, HoldsThen
<1>. QED
  BY <1>1, <1>3, <1>4, <1>5, Zenon DEF Tended

---------------------------------------------------------------------------
(* The steps a handler is made of *)

\* What a change of other fields spares.
Spared(x, y) ==
  /\ Shape(y)
  /\ Sayable(x) => Sayable(y)
  /\ y.state = x.state /\ y.illegal = x.illegal /\ y.parked = x.parked /\ y.pr = x.pr
  /\ y.ws = x.ws /\ y.retryWs = x.retryWs /\ y.base = x.base
  /\ y.reviewWs = x.reviewWs /\ y.rebaserWs = x.rebaserWs /\ y.fixWs = x.fixWs

\* The same, where the number of the pull request is set too.
Renumbered(x, y) ==
  /\ Shape(y)
  /\ Sayable(x) => Sayable(y)
  /\ y.state = x.state /\ y.illegal = x.illegal /\ y.parked = x.parked
  /\ y.ws = x.ws /\ y.retryWs = x.retryWs /\ y.base = x.base
  /\ y.reviewWs = x.reviewWs /\ y.rebaserWs = x.rebaserWs /\ y.fixWs = x.fixWs

\* A change of other fields keeps the record.
LEMMA SparedKept ==
  ASSUME NEW x, NEW y, Spared(x, y) \/ Renumbered(x, y)
  PROVE  Keeps(x, y)
<1>1. Renumbered(x, y)
  BY Zenon DEF Spared, Renumbered
<1>. QED
  BY <1>1, Zenon DEF Renumbered, Keeps, Sequel, Carries, Ashore, ParkedRightly

\* What is spared twice is spared.
LEMMA SparedTwice == ASSUME NEW x, NEW y, NEW z, Spared(x, y), Spared(y, z) PROVE Spared(x, z)
  BY DEF Spared

\* Counting polls, noting the head reviewed, forgetting nudges.
LEMMA NotedSpared ==
  ASSUME NEW it, Shape(it), NEW s
  PROVE  /\ Spared(it, it)
         /\ Spared(it, Counted(it, s)) /\ Spared(it, StampedReviewed(it, s))
         /\ Spared(it, Cooled(it, s)) /\ Spared(it, Tracked(it, s)) /\ Spared(it, Answered(it))
<1>0. Spared(it, it)
  BY DEF Spared
<1>1. Spared(it, Counted(it, s))
  <2>1. PICK n : n = CASE s.alive = "yes" -> 0
                       [] s.alive = "no"  -> IF it.notAlive < NotAliveThreshold
                                             THEN it.notAlive + 1 ELSE it.notAlive
                       [] OTHER           -> it.notAlive
    OBVIOUS
  <2>2. Counted(it, s) = [it EXCEPT !.notAlive = n]
    BY <2>1 DEF Counted
  <2>3. Shape([it EXCEPT !.notAlive = n])
    BY Zenon DEF Shape
  <2>. QED
    BY <2>2, <2>3 DEF Shape, Fields, Sayable, Spared
<1>2. Spared(it, StampedReviewed(it, s))
  <2>1. Shape([it EXCEPT !.lastReviewed = s.head])
    BY Zenon DEF Shape
  <2>. QED
    BY <1>0, <2>1 DEF Shape, Fields, Sayable, Spared, StampedReviewed
<1>3. Spared(it, Cooled(it, s))
  <2>1. Shape(Cooled(it, s))
    BY Zenon DEF Shape, Cooled
  <2>. QED
    BY <2>1 DEF Shape, Fields, Sayable, Spared, Cooled
<1>4. Spared(it, Tracked(it, s))
  <2>. PICK x : x = [it EXCEPT !.rebaseRequested = FALSE, !.nudged = -1, !.nudgedTwice = FALSE,
                               !.rebaseAttempts = 0]
    OBVIOUS
  <2>. PICK y : y = [it EXCEPT !.rebaseRequested = FALSE, !.nudged = it.lastCommit, !.nudgedTwice = FALSE]
    OBVIOUS
  <2>1. Shape(x) /\ Shape(y)
    BY Zenon DEF Shape
  <2>2. Spared(it, x)
    BY <2>1 DEF Shape, Fields, Sayable, Spared
  <2>3. Spared(it, y)
    BY <2>1 DEF Shape, Fields, Sayable, Spared
  <2>. QED
    BY <1>0, <2>2, <2>3, Zenon DEF Tracked
<1>5. Spared(it, Answered(it))
  <2>1. Shape(Answered(it))
    BY Zenon DEF Shape, Answered
  <2>. QED
    BY <2>1 DEF Shape, Fields, Sayable, Spared, Answered
<1>. QED
  BY <1>0, <1>1, <1>2, <1>3, <1>4, <1>5

\* A record that puts the same into its actions.
LEMMA SayableStill ==
  ASSUME NEW x, NEW y,
         y.batch = x.batch, y.feedback = x.feedback, y.nudgedTwice = x.nudgedTwice
  PROVE  Sayable(x) => Sayable(y)
  BY Zenon DEF Sayable

\* A batch that changes, and its deadline.
LEMMA BatchSpared ==
  ASSUME NEW x, Shape(x), NEW u, u \in SUBSET Feedback \/ ~Sayable(x), NEW b
  PROVE  Spared(x, [x EXCEPT !.batch = u, !.due = b])
<1>. PICK y : y = [x EXCEPT !.batch = u, !.due = b]
  OBVIOUS
<1>1. Shape(y)
  BY Zenon DEF Shape
<1>2. y.batch = u /\ y.feedback = x.feedback /\ y.nudgedTwice = x.nudgedTwice
  BY <1>1 DEF Shape, Fields
<1>3. Sayable(x) => Sayable(y)
  BY <1>2, Zenon DEF Sayable
<1>. QED
  BY <1>1, <1>3 DEF Shape, Fields, Spared

\* Comments that are taken in.
LEMMA IngestedSpared ==
  ASSUME NEW it, Shape(it), NEW s, s.new \in SUBSET Feedback
  PROVE  \A in \in Ingested(it, s) : Spared(it, in)
<1>. PICK x : x = [it EXCEPT !.checked = TRUE, !.since = s.known]
  OBVIOUS
<1>1. Shape(x)
  BY Zenon DEF Shape
<1>2. Spared(it, x) /\ Spared(it, it)
  BY <1>1 DEF Shape, Fields, Sayable, Spared
<1>3. ASSUME NEW b
      PROVE  Spared(it, [x EXCEPT !.batch = @ \cup s.new, !.due = b])
  <2>. PICK u : u = x.batch \cup s.new
    OBVIOUS
  <2>1. u \in SUBSET Feedback \/ ~Sayable(x)
    BY DEF Sayable
  <2>2. Spared(x, [x EXCEPT !.batch = u, !.due = b])
    BY <1>1, <2>1, BatchSpared
  <2>. QED
    BY <1>2, <2>2, SparedTwice
<1>4. ASSUME NEW in \in Ingested(it, s) PROVE Spared(it, in)
  <2>1. in \in {it, x} \/ \E b \in Passed : in = [x EXCEPT !.batch = @ \cup s.new, !.due = b]
    BY DEF Ingested
  <2>. QED
    BY <1>2, <1>3, <2>1, Zenon
<1>. QED
  BY <1>4

\* Where transition() may take an item from a handler: anywhere but to a new life, and from
\* merged only to what follows a merge.
LEMMA MovedHeld ==
  ASSUME NEW it, Shape(it), NEW to \in States \ {"ready", "queued", "launching"},
         to \in {"forward-fix-pending", "fix-forward-failed"} => FixForward \/ it.state # "merged"
  PROVE  /\ Held(it, Moved(it, to))
         /\ Moved(it, to).illegal \/ Moved(it, to).state = to
         /\ Moved(it, to).illegal \/ ~Moved(it, to).parked \/ Moved(it, to) = it
<1>. PICK y : y = Moved(it, to)
  OBVIOUS
<1>1. CASE it.state = to
  <2>1. y = it
    BY <1>1 DEF Moved
  <2>. QED
    BY <1>1, <2>1, KeptSelf, TendedPassable
<1>2. CASE it.state # to /\ to \notin Successors(it.state)
  <2>1. y = [it EXCEPT !.illegal = TRUE]
    BY <1>2 DEF Moved
  <2>2. Shape(y)
    BY <2>1, Zenon DEF Shape
  <2>3. /\ y.illegal /\ y.reviewWs = it.reviewWs /\ y.rebaserWs = it.rebaserWs
        /\ y.fixWs = it.fixWs /\ y.parked = it.parked /\ (Sayable(it) => Sayable(y))
    BY <2>1 DEF Shape, Fields, Sayable
  <2>. QED
    BY <2>2, <2>3 DEF Held, Sequel
<1>3. CASE it.state # to /\ to \in Successors(it.state)
  <2>1. Shape(y)
    BY ZenonT(40) DEF Moved, Shape
  <2>2. /\ y.state = to /\ y.illegal = it.illegal /\ y.parked = FALSE
        /\ y.ws = it.ws /\ y.retryWs = it.retryWs /\ y.base = it.base
        /\ y.reviewWs = it.reviewWs /\ y.rebaserWs = it.rebaserWs /\ y.fixWs = it.fixWs
        /\ y.batch = it.batch /\ y.feedback = it.feedback /\ y.nudgedTwice = it.nudgedTwice
    BY <1>3 DEF Moved, Shape, Fields
  <2>3. it.state \notin Resting /\ to \notin {"ready", "queued"}
    BY <1>3 DEF Resting, Successors
  <2>4. it.state = "merged" /\ ~FixForward => to \in {"merged", "done"}
    BY <1>3 DEF Successors
  <2>5. Carries(it, y)
    BY <2>2, <2>3, <2>4 DEF Carries, Resting, ParkedRightly
  <2>. QED
    BY <2>1, <2>2, <2>5 DEF Held, Sequel, Sayable
<1>. QED
  BY <1>1, <1>2, <1>3

\* Only a merge takes an item to the states after it from elsewhere.
LEMMA MovedKept ==
  ASSUME NEW it, Shape(it), NEW to \in States \ {"ready", "queued", "launching"},
         to \in {"forward-fix-pending", "fix-forward-failed"} => FixForward \/ it.state # "merged",
         to = "merged" => it.state \in OnMain
  PROVE  /\ Keeps(it, Moved(it, to))
         /\ Moved(it, to).illegal \/ Moved(it, to).state = to
         /\ Moved(it, to).illegal \/ ~Moved(it, to).parked \/ Moved(it, to) = it
<1>. PICK y : y = Moved(it, to)
  OBVIOUS
<1>1. /\ Held(it, y) /\ (y.illegal \/ y.state = to)
      /\ y.illegal \/ ~y.parked \/ y = it
  BY MovedHeld
<1>2. y.illegal \/ Ashore(it, y)
  <2>1. CASE it.state = to
    BY <2>1 DEF Moved, Ashore
  <2>2. CASE it.state # to /\ to \notin Successors(it.state)
    BY <2>2 DEF Moved, Shape, Fields
  <2>3. CASE to \in Successors(it.state)
    <3>1. to \in OnMain => it.state \in OnMain
      BY <2>3 DEF Successors, OnMain
    <3>. QED
      BY <1>1, <3>1 DEF Ashore
  <2>. QED
    BY <2>1, <2>2, <2>3
<1>. QED
  BY <1>1, <1>2, Zenon DEF Held, Keeps

\* A relaunch of an item that a handler may go on with.
LEMMA RelaunchedRenewed ==
  ASSUME NEW it, Handles(it)
  PROVE  Renewed(it, Relaunched(it))
<1>. PICK x : x = [it EXCEPT !.notAlive = 0, !.retryWs = it.ws, !.ws = 0]
  OBVIOUS
<1>. PICK y : y = Moved(x, "ready")
  OBVIOUS
<1>0. y = Relaunched(it)
  BY DEF Relaunched
<1>1. Shape(x)
  BY Zenon DEF Shape, Handles, Rightful
<1>2. /\ x.state = it.state /\ x.illegal = it.illegal /\ x.ws = 0 /\ x.retryWs = it.ws
      /\ x.base = it.base /\ x.reviewWs = it.reviewWs /\ x.rebaserWs = it.rebaserWs
      /\ x.fixWs = it.fixWs
      /\ x.batch = it.batch /\ x.feedback = it.feedback /\ x.nudgedTwice = it.nudgedTwice
  BY <1>1 DEF Handles, Rightful, Shape, Fields
<1>3. CASE x.state = "ready"
  <2>1. y = x /\ it.illegal
    BY <1>2, <1>3 DEF Moved, Handles, Rightful
  <2>. QED
    BY <1>0, <1>1, <1>2, <2>1 DEF Renewed, Sequel, Sayable
<1>4. CASE x.state # "ready" /\ "ready" \notin Successors(x.state)
  <2>1. y = [x EXCEPT !.illegal = TRUE]
    BY <1>4 DEF Moved
  <2>2. Shape(y)
    BY <1>1, <2>1, Zenon DEF Shape
  <2>3. /\ y.illegal /\ y.reviewWs = x.reviewWs /\ y.rebaserWs = x.rebaserWs
        /\ y.fixWs = x.fixWs
        /\ y.batch = x.batch /\ y.feedback = x.feedback /\ y.nudgedTwice = x.nudgedTwice
    BY <1>1, <2>1 DEF Shape, Fields
  <2>. QED
    BY <1>0, <1>2, <2>2, <2>3 DEF Renewed, Sequel, Sayable
<1>5. CASE x.state # "ready" /\ "ready" \in Successors(x.state)
  <2>1. Shape(y)
    BY <1>1, ZenonT(40) DEF Moved, Shape
  <2>2. /\ y.state = "ready" /\ y.illegal = x.illegal /\ y.parked = FALSE
        /\ y.ws = x.ws /\ y.retryWs = x.retryWs /\ y.base = x.base
        /\ y.reviewWs = x.reviewWs /\ y.rebaserWs = x.rebaserWs /\ y.fixWs = x.fixWs
        /\ y.batch = x.batch /\ y.feedback = x.feedback /\ y.nudgedTwice = x.nudgedTwice
    BY <1>1, <1>5 DEF Moved, Shape, Fields
  <2>3. it.state \notin {"ready", "done", "stuck", "merged"}
    BY <1>2, <1>5 DEF Successors
  <2>4. it.illegal \/ it.state # "queued"
    BY DEF Handles
  <2>5. Sayable(it) => Sayable(y)
    BY <1>2, <2>2, SayableStill
  <2>6. Sequel(it, y)
    BY <1>2, <2>1, <2>2, <2>5, Zenon DEF Sequel
  <2>7. y.ws = 0 /\ y.retryWs = it.ws /\ y.base = it.base /\ y.state = "ready" /\ ~y.parked
    BY <1>2, <2>2
  <2>8. y.illegal \/ it.state \notin Resting
    BY <1>2, <2>2, <2>3, <2>4 DEF Resting
  <2>. QED
    BY <1>0, <2>3, <2>6, <2>7, <2>8, Zenon DEF Renewed
<1>. QED
  BY <1>3, <1>4, <1>5

\* The ways a session is set aside.
LEMMA RelaunchTended ==
  ASSUME NEW i \in Items, NEW x, NEW it, Handles(it), Keeps(x, it)
  PROVE  Tended(i, x, Outcome(Relaunched(it), <<Action("retry", i)>>))
<1>1. Renewed(x, Relaunched(it))
  BY RelaunchedRenewed, KeptThenRenewed
<1>. QED
  BY <1>1, RenewedTended

\* A record whose other fields are set before a relaunch, or before anything else.
LEMMA SparedHandles ==
  ASSUME NEW x, NEW y, Handles(x), Spared(x, y) \/ Renumbered(x, y)
  PROVE  Handles(y) /\ Keeps(x, y)
  BY SparedKept, KeptHandles

\* Relaunches that mend red CI or answer comments.
LEMMA RespawnedTended ==
  ASSUME NEW i \in Items, NEW it, Handles(it)
  PROVE  /\ Tended(i, it, RespawnedForCi(i, it))
         /\ \A msg \in SUBSET Feedback : Tended(i, it, RespawnedForFeedback(i, it, msg))
<1>1. Tended(i, it, RespawnedForCi(i, it))
  <2>. PICK x : x = [it EXCEPT !.needsCiFix = TRUE]
    OBVIOUS
  <2>1. Shape(x)
    BY Zenon DEF Shape, Handles, Rightful
  <2>2. Spared(it, x)
    BY <2>1 DEF Handles, Rightful, Shape, Fields, Sayable, Spared
  <2>. QED
    BY <2>2, SparedHandles, RelaunchTended DEF RespawnedForCi
<1>2. ASSUME NEW msg \in SUBSET Feedback PROVE Tended(i, it, RespawnedForFeedback(i, it, msg))
  <2>. PICK x : x = [it EXCEPT !.reviewed = FALSE, !.needsFeedback = TRUE,
                               !.feedback = msg, !.armed = FALSE]
    OBVIOUS
  <2>1. Shape(x)
    BY Zenon DEF Shape, Handles, Rightful
  <2>2. Spared(it, x)
    BY <2>1 DEF Handles, Rightful, Shape, Fields, Sayable, Spared
  <2>. QED
    BY <2>2, SparedHandles, RelaunchTended DEF RespawnedForFeedback
<1>. QED
  BY <1>1, <1>2

\* stuckOrRetry, and a worker that is lost.
LEMMA LostTended ==
  ASSUME NEW i \in Items, NEW it, Handles(it), NEW s
  PROVE  Tended(i, it, StuckOrRetry(i, it)) /\ \A o \in Lost(i, it, s) : Tended(i, it, o)
<1>. PICK x : x = [it EXCEPT !.retries = @ + 1, !.lastCommit = 0]
  OBVIOUS
<1>. PICK y : y = [it EXCEPT !.lastCommit = 0]
  OBVIOUS
<1>1. Shape(x) /\ Shape(y)
  BY Zenon DEF Shape, Handles, Rightful
<1>2. Spared(it, x) /\ Spared(it, y)
  BY <1>1 DEF Handles, Rightful, Shape, Fields, Sayable, Spared
<1>3. /\ Tended(i, it, Outcome(Relaunched(x), <<Action("retry", i)>>))
      /\ Tended(i, it, Outcome(Relaunched(y), <<Action("retry", i)>>))
  BY <1>2, SparedHandles, RelaunchTended
<1>4. Tended(i, it, Outcome(Moved(it, "stuck"), <<Action("workspace-close", i)>>))
  BY MovedKept, KeptTended, OneHushed DEF States, HushedTypes, Handles, Rightful
<1>5. Tended(i, it, StuckOrRetry(i, it))
  BY <1>3, <1>4, Zenon DEF StuckOrRetry
<1>. QED
  BY <1>3, <1>5, Zenon DEF Lost, Only

---------------------------------------------------------------------------
(* Feedback *)

\* The record is kept where it is; a review withdrawn takes it back from ci-passed and merging.
Stays(it, y) ==
  Keeps(it, y) /\ (y.illegal \/ y.state = it.state \/ it.state \in {"ci-passed", "merging"})

\* What becomes of a pending batch: the record stays, or is relaunched with a retry.
Settles(i, it, r) ==
  /\ r.acts \in Hushed(i)
  /\ \/ Stays(it, r.it)
     \/ /\ Renewed(it, r.it) /\ Holds(r.acts, "retry")
        /\ r.it.illegal \/ it.state = "review-pending"

\* A record that stays, and then other fields of it that change.
LEMMA StaysSpared ==
  ASSUME NEW x, NEW y, NEW z, Stays(x, y), Spared(y, z)
  PROVE  Stays(x, z)
<1>1. Keeps(x, z)
  BY SparedKept, KeptTwice DEF Stays
<1>. QED
  BY <1>1 DEF Stays, Spared

\* Other fields that change, and then a record that stays.
LEMMA SparedStays ==
  ASSUME NEW x, NEW y, NEW z, Spared(x, y), Stays(y, z)
  PROVE  Stays(x, z)
<1>1. Keeps(x, z)
  BY SparedKept, KeptTwice DEF Stays
<1>. QED
  BY <1>1 DEF Stays, Spared

\* A batch taken up, a review withdrawn, a delivery armed.
LEMMA FeedbackSpared ==
  ASSUME NEW it, Shape(it)
  PROVE  /\ \A b \in SUBSET Feedback : Spared(it, TakenUp(it, b))
         /\ Spared(it, Unreviewed(it))
         /\ \A a : Spared(it, [it EXCEPT !.armed = a])
<1>1. ASSUME NEW b \in SUBSET Feedback PROVE Spared(it, TakenUp(it, b))
  <2>. PICK y : y = TakenUp(it, b)
    OBVIOUS
  <2>1. Shape(y)
    BY ZenonT(40) DEF Shape, TakenUp
  <2>2. y.batch = {} /\ y.feedback = b /\ y.nudgedTwice = it.nudgedTwice
    BY <2>1 DEF Shape, Fields, TakenUp
  <2>3. Sayable(it) => Sayable(y)
    BY <2>2 DEF Sayable
  <2>. QED
    BY <2>1, <2>3 DEF Shape, Fields, TakenUp, Spared
<1>2. Spared(it, Unreviewed(it))
  <2>1. Shape(Unreviewed(it))
    BY ZenonT(40) DEF Shape, Unreviewed
  <2>. QED
    BY <2>1 DEF Shape, Fields, Unreviewed, Sayable, Spared
<1>3. ASSUME NEW a PROVE Spared(it, [it EXCEPT !.armed = a])
  <2>1. Shape([it EXCEPT !.armed = a])
    BY Zenon DEF Shape
  <2>. QED
    BY <2>1 DEF Shape, Fields, Sayable, Spared
<1>. QED
  BY <1>1, <1>2, <1>3

\* A review withdrawn takes the record back to review from ci-passed and merging only.
LEMMA ReopenedStays == ASSUME NEW it, Shape(it) PROVE Stays(it, Reopened(it))
<1>. PICK x : x = Unreviewed(it)
  OBVIOUS
<1>1. Spared(it, x)
  BY FeedbackSpared
<1>2. Keeps(it, x) /\ Keeps(it, it) /\ Shape(x)
  BY <1>1, SparedKept, KeptSelf DEF Spared
<1>3. Keeps(it, Moved(x, "review-pending"))
  BY <1>2, MovedKept, KeptTwice DEF States
<1>4. CASE it.state \in {"ci-passed", "merging"}
  BY <1>3, <1>4 DEF Reopened, Stays, Unreviewed
<1>5. CASE it.state \notin {"ci-passed", "merging"}
  BY <1>2, <1>5 DEF Reopened, Stays
<1>. QED
  BY <1>4, <1>5

\* A relaunch for feedback, in parts.
LEMMA RespawnedRenewed ==
  ASSUME NEW i \in Items, NEW it, Handles(it), NEW msg \in SUBSET Feedback
  PROVE  /\ Renewed(it, RespawnedForFeedback(i, it, msg).it)
         /\ RespawnedForFeedback(i, it, msg).acts \in Hushed(i)
         /\ Holds(RespawnedForFeedback(i, it, msg).acts, "retry")
<1>. PICK x : x = [it EXCEPT !.reviewed = FALSE, !.needsFeedback = TRUE,
                             !.feedback = msg, !.armed = FALSE]
  OBVIOUS
<1>. PICK acts : acts = <<Action("retry", i)>>
  OBVIOUS
<1>1. Shape(x)
  BY Zenon DEF Shape, Handles, Rightful
<1>2. x.batch = it.batch /\ x.feedback = msg /\ x.nudgedTwice = it.nudgedTwice
  BY <1>1 DEF Handles, Rightful, Shape, Fields
<1>3. Sayable(it) => Sayable(x)
  BY <1>2 DEF Sayable
<1>4. Spared(it, x)
  BY <1>1, <1>3 DEF Handles, Rightful, Shape, Fields, Spared
<1>5. Renewed(it, Relaunched(x))
  BY <1>4, SparedHandles, RelaunchedRenewed, KeptThenRenewed
<1>6. acts \in Hushed(i) /\ Holds(acts, "retry")
  <2>1. acts \in Hushed(i)
    BY OneHushed DEF HushedTypes
  <2>2. Holds(acts, "retry")
    BY DEF Holds, Action
  <2>. QED
    BY <2>1, <2>2
<1>7. RespawnedForFeedback(i, it, msg) = Outcome(Relaunched(x), acts)
  BY DEF RespawnedForFeedback
<1>. QED
  BY <1>5, <1>6, <1>7 DEF Outcome

\* A pending batch: held, delivered, or answered by a relaunch.
LEMMA ResolvedSettles ==
  ASSUME NEW i \in Items, NEW it, Rightful(it), NEW s
  PROVE  Settles(i, it, Resolved(i, it, s))
<1>. PICK mode : mode = DeliveryMode(it, s)
  OBVIOUS
<1>. PICK stamped : stamped = StampedReviewed(mode[2], s)
  OBVIOUS
<1>. PICK taken : taken = TakenUp(stamped, it.batch)
  OBVIOUS
<1>. PICK open : open = IF taken.reviewed THEN Unreviewed(Reopened(taken)) ELSE taken
  OBVIOUS
<1>. PICK o : o = RespawnedForFeedback(i, taken, it.batch)
  OBVIOUS
<1>. PICK last : last = IF open.ws = 0 THEN open ELSE [Counted(open, s) EXCEPT !.armed = s.alive = "yes"]
  OBVIOUS
<1>0. it.batch \in SUBSET Feedback /\ Shape(it)
  BY DEF Rightful, Sayable
<1>1. Spared(it, mode[2])
  BY <1>0, NotedSpared DEF DeliveryMode
<1>2. Spared(it, stamped)
  BY <1>1, NotedSpared, SparedTwice DEF Spared
<1>3. Spared(it, taken) /\ Shape(taken)
  BY <1>0, <1>2, FeedbackSpared, SparedTwice DEF Spared
<1>4. Stays(it, it) /\ Stays(it, mode[2])
  BY <1>0, <1>1, KeptSelf, SparedKept DEF Stays, Spared
<1>5. Stays(it, open)
  <2>1. Stays(taken, Reopened(taken)) /\ Shape(Reopened(taken))
    BY <1>3, ReopenedStays DEF Stays, Keeps, Sequel
  <2>2. Stays(taken, Unreviewed(Reopened(taken)))
    BY <2>1, FeedbackSpared, StaysSpared
  <2>3. Stays(taken, taken)
    BY <1>3, KeptSelf DEF Stays
  <2>4. Stays(taken, open)
    BY <2>2, <2>3, Zenon
  <2>. QED
    BY <1>3, <2>4, SparedStays
<1>6. Stays(it, last)
  <2>1. Shape(open)
    BY <1>5 DEF Stays, Keeps, Sequel
  <2>. PICK counted : counted = Counted(open, s)
    OBVIOUS
  <2>2. Spared(open, counted) /\ Shape(counted)
    BY <2>1, NotedSpared DEF Spared
  <2>3. \A a : Spared(counted, [counted EXCEPT !.armed = a])
    BY <2>2, FeedbackSpared
  <2>4. \A a : Stays(it, [counted EXCEPT !.armed = a])
    BY <1>5, <2>2, <2>3, StaysSpared
  <2>5. last = open \/ \E a : last = [counted EXCEPT !.armed = a]
    OBVIOUS
  <2>. QED
    BY <1>5, <2>4, <2>5, Zenon
<1>7. ASSUME mode[1] = "relaunch" PROVE Settles(i, it, [held |-> TRUE, it |-> o.it, acts |-> o.acts])
  <2>1. it.parked \/ it.state = "review-pending"
    BY <1>7 DEF DeliveryMode
  <2>2. it.illegal \/ it.state \in {"review-pending", "stuck"}
    BY <2>1 DEF Rightful, ParkedRightly
  <2>3. Rightful(taken)
    BY <1>3, SparedKept, KeptHandles
  <2>4. Handles(taken)
    BY <1>3, <2>2, <2>3 DEF Handles, Spared
  <2>5. Renewed(taken, o.it) /\ o.acts \in Hushed(i) /\ Holds(o.acts, "retry")
    BY <1>0, <2>4, RespawnedRenewed
  <2>. PICK y : y = o.it
    OBVIOUS
  <2>6. Renewed(it, y)
    BY <1>3, <2>5, SparedKept, KeptThenRenewed
  <2>7. y.illegal \/ it.state = "review-pending"
    BY <2>2, <2>6 DEF Renewed, Sequel, Resting
  <2>. QED
    BY <2>5, <2>6, <2>7 DEF Settles
<1>8. <<Send(i, it.batch)>> \in Hushed(i) /\ <<>> \in Hushed(i)
  BY <1>0, OneHushed
<1>9. Resolved(i, it, s) =
        IF it.batch = {} THEN [held |-> FALSE, it |-> it, acts |-> <<>>]
        ELSE IF ~it.due THEN [held |-> TRUE, it |-> it, acts |-> <<>>]
        ELSE IF mode[1] = "wait" THEN [held |-> TRUE, it |-> mode[2], acts |-> <<>>]
        ELSE IF mode[1] = "relaunch" THEN [held |-> TRUE, it |-> o.it, acts |-> o.acts]
        ELSE [held |-> TRUE, it |-> last, acts |-> <<Send(i, it.batch)>>]
  BY DEF Resolved, TakenUp, Unreviewed
<1>10. /\ Settles(i, it, [held |-> FALSE, it |-> it, acts |-> <<>>])
       /\ Settles(i, it, [held |-> TRUE, it |-> it, acts |-> <<>>])
       /\ Settles(i, it, [held |-> TRUE, it |-> mode[2], acts |-> <<>>])
       /\ Settles(i, it, [held |-> TRUE, it |-> last, acts |-> <<Send(i, it.batch)>>])
  BY <1>4, <1>6, <1>8 DEF Settles
<1>. QED
  BY <1>7, <1>9, <1>10, Zenon

\* What settles a batch is what a handler does.
LEMMA SettledTended ==
  ASSUME NEW i, NEW it, NEW r, Settles(i, it, r)
  PROVE  Tended(i, it, Outcome(r.it, r.acts))
<1>1. Outcome(r.it, r.acts).it = r.it /\ Outcome(r.it, r.acts).acts = r.acts
  BY DEF Outcome
<1>2. r.acts \in Unlaunched(i)
  BY HushedIsUnlaunched DEF Settles
<1>. QED
  BY <1>1, <1>2, Zenon DEF Settles, Stays, Tended

\* A batch, in a handler.
LEMMA ResolvedTended ==
  ASSUME NEW i \in Items, NEW it, Handles(it), NEW s
  PROVE  Tended(i, it, Outcome(Resolved(i, it, s).it, Resolved(i, it, s).acts))
  BY ResolvedSettles, SettledTended DEF Handles

\* Feedback that was taken up and not delivered.
LEMMA HandoffTended ==
  ASSUME NEW i \in Items, NEW it, Handles(it), NEW s
  PROVE  Tended(i, it, Handoff(i, it, s))
<1>. PICK open : open = Reopened(StampedReviewed(it, s))
  OBVIOUS
<1>. PICK counted : counted = Counted(open, s)
  OBVIOUS
<1>. PICK armed : armed = [counted EXCEPT !.armed = TRUE]
  OBVIOUS
<1>0. it.feedback \in SUBSET Feedback /\ Shape(it)
  BY DEF Handles, Rightful, Sayable
<1>1. Keeps(it, open) /\ Shape(open)
  <2>1. Spared(it, StampedReviewed(it, s))
    BY <1>0, NotedSpared
  <2>2. Stays(StampedReviewed(it, s), open)
    BY <2>1, ReopenedStays DEF Spared
  <2>. QED
    BY <2>1, <2>2, SparedStays DEF Stays, Keeps, Sequel
<1>2. Keeps(it, counted) /\ Shape(counted)
  BY <1>1, NotedSpared, SparedKept, KeptTwice DEF Spared
<1>3. Keeps(it, armed)
  BY <1>2, FeedbackSpared, SparedKept, KeptTwice
<1>4. Handles(open) /\ Handles(counted)
  BY <1>1, <1>2, KeptHandles
<1>5. /\ Tended(i, it, RespawnedForFeedback(i, open, it.feedback))
      /\ Tended(i, it, RespawnedForFeedback(i, counted, it.feedback))
  BY <1>0, <1>1, <1>2, <1>4, RespawnedTended, TendedOf
<1>6. /\ Tended(i, it, Outcome(counted, <<>>))
      /\ Tended(i, it, Outcome(armed, <<Send(i, it.feedback)>>))
  BY <1>0, <1>2, <1>3, KeptTended, OneHushed
<1>. QED
  BY <1>5, <1>6, Zenon DEF Handoff

---------------------------------------------------------------------------
(* Records that a handler goes on with *)

\* Where a handler may always move its item.
Onward ==
  States \ {"ready", "queued", "launching", "merged", "forward-fix-pending", "fix-forward-failed"}

\* A move.
LEMMA MovedOn ==
  ASSUME NEW it, Handles(it), NEW to \in Onward
  PROVE  /\ Keeps(it, Moved(it, to)) /\ Handles(Moved(it, to))
         /\ Moved(it, to).illegal \/ Moved(it, to).state = to
<1>1. Keeps(it, Moved(it, to)) /\ (Moved(it, to).illegal \/ Moved(it, to).state = to)
  BY MovedKept DEF Onward, Handles, Rightful
<1>. QED
  BY <1>1, KeptHandles

\* Polls counted, nudges forgotten, an answer noted.
LEMMA NotedOn ==
  ASSUME NEW it, Handles(it), NEW s
  PROVE  /\ Keeps(it, it)
         /\ Keeps(it, Counted(it, s)) /\ Handles(Counted(it, s))
         /\ Keeps(it, Cooled(it, s)) /\ Handles(Cooled(it, s))
         /\ Keeps(it, Answered(it)) /\ Handles(Answered(it))
<1>1. /\ Spared(it, it) /\ Spared(it, Counted(it, s)) /\ Spared(it, Cooled(it, s))
      /\ Spared(it, Answered(it))
  BY NotedSpared DEF Handles, Rightful
<1>. QED
  BY <1>1, SparedHandles

\* The failure of CI is counted.
LEMMA CountsCiOn ==
  ASSUME NEW it, Handles(it)
  PROVE  /\ Keeps(it, CountsCi(it)) /\ Handles(CountsCi(it))
         /\ CountsCi(it).illegal \/ CountsCi(it).state = "ci-failed"
<1>. PICK x : x = Moved(it, "ci-failed")
  OBVIOUS
<1>. PICK n : n = IF x.ciFails > MaxCiRetries THEN x.ciFails ELSE x.ciFails + 1
  OBVIOUS
<1>. PICK y : y = [x EXCEPT !.ciFails = n]
  OBVIOUS
<1>1. Keeps(it, x) /\ Handles(x) /\ (x.illegal \/ x.state = "ci-failed")
  BY MovedOn DEF Onward, States
<1>2. CountsCi(it) = y
  BY DEF CountsCi
<1>3. Shape(y)
  BY <1>1, Zenon DEF Shape, Handles, Rightful
<1>4. Spared(x, y)
  BY <1>1, <1>3 DEF Handles, Rightful, Shape, Fields, Sayable, Spared
<1>5. Keeps(it, y) /\ Handles(y)
  BY <1>1, <1>4, SparedHandles, KeptTwice
<1>6. y.illegal \/ y.state = "ci-failed"
  BY <1>1, <1>4 DEF Spared
<1>. QED
  BY <1>2, <1>5, <1>6, Zenon

\* The PR that the poll found is noted.
LEMMA NumberedOn ==
  ASSUME NEW it, Handles(it), NEW s
  PROVE  Keeps(it, [it EXCEPT !.pr = s.num]) /\ Handles([it EXCEPT !.pr = s.num])
<1>. PICK y : y = [it EXCEPT !.pr = s.num]
  OBVIOUS
<1>1. Shape(y)
  BY Zenon DEF Shape, Handles, Rightful
<1>2. Renumbered(it, y)
  BY <1>1 DEF Handles, Rightful, Shape, Fields, Sayable, Renumbered
<1>. QED
  BY <1>2, SparedHandles

---------------------------------------------------------------------------
(* Rebasing, merging *)

\* A conflict is tackled.
LEMMA RebasePlansTended ==
  ASSUME NEW i \in Items, NEW it, Handles(it), NEW s
  PROVE  \A o \in RebasePlans(i, it, s) : Tended(i, it, o) /\ o.acts \in Hushed(i) /\ Keeps(it, o.it)
<1>. PICK nudged : nudged = [it EXCEPT !.nudged = s.commits]
  OBVIOUS
<1>. PICK x : x = [nudged EXCEPT !.rebaseRequested = TRUE, !.nudgedTwice = FALSE]
  OBVIOUS
<1>. PICK y : y = [nudged EXCEPT !.nudgedTwice = TRUE]
  OBVIOUS
<1>0. Shape(it)
  BY DEF Handles, Rightful
<1>1. Shape(nudged)
  BY <1>0, Zenon DEF Shape
<1>2. Spared(it, nudged)
  BY <1>0, <1>1 DEF Shape, Fields, Sayable, Spared
<1>3. Shape(x) /\ Shape(y)
  <2>1. Shape(x)
    BY <1>1, Zenon DEF Shape
  <2>2. Shape(y)
    BY <1>1, Zenon DEF Shape
  <2>. QED
    BY <2>1, <2>2
<1>4. Spared(nudged, x)
  <2>1. x.batch = nudged.batch /\ x.feedback = nudged.feedback /\ x.nudgedTwice = FALSE
    BY <1>1, <1>3 DEF Shape, Fields
  <2>2. Sayable(nudged) => Sayable(x)
    BY <2>1, Zenon DEF Sayable
  <2>. QED
    BY <1>1, <1>3, <2>2 DEF Shape, Fields, Spared
<1>5. Spared(nudged, y)
  <2>1. y.batch = nudged.batch /\ y.feedback = nudged.feedback /\ y.nudgedTwice = TRUE
    BY <1>1, <1>3 DEF Shape, Fields
  <2>2. Sayable(nudged) => Sayable(y)
    BY <2>1, Zenon DEF Sayable
  <2>. QED
    BY <1>1, <1>3, <2>2 DEF Shape, Fields, Spared
<1>6. Keeps(it, it) /\ Keeps(it, nudged) /\ Keeps(it, x) /\ Keeps(it, y)
  BY <1>0, <1>2, <1>4, <1>5, KeptSelf, SparedTwice, SparedKept
<1>. PICK r : r = <<Action("daemon-rebase", i)>>
  OBVIOUS
<1>. PICK e : e = <<[Action("daemon-rebase", i) EXCEPT !.escalate = it.nudgedTwice]>>
  OBVIOUS
<1>7. it.nudgedTwice \in BOOLEAN
  BY DEF Handles, Rightful, Sayable
<1>8. r \in Hushed(i) /\ e \in Hushed(i) /\ <<>> \in Hushed(i)
  BY <1>7, OneHushed DEF HushedTypes
<1>9. \A o \in RebasePlans(i, it, s) :
        o \in {Outcome(nudged, <<>>), Outcome(it, <<>>), Outcome(x, r), Outcome(y, e)}
  BY DEF RebasePlans, Only
<1>10. ASSUME NEW z, Keeps(it, z), NEW a \in Hushed(i)
       PROVE  /\ Tended(i, it, Outcome(z, a))
              /\ Outcome(z, a).acts \in Hushed(i)
              /\ Keeps(it, Outcome(z, a).it)
  <2>1. Outcome(z, a).it = z /\ Outcome(z, a).acts = a
    BY DEF Outcome
  <2>. QED
    BY <1>10, <2>1, KeptTended, Zenon
<1>. QED
  BY <1>6, <1>8, <1>9, <1>10, Zenon

\* A spurious wake-up: the session is closed, and the item waits.
LEMMA NoNewInfoTended ==
  ASSUME NEW i \in Items, NEW it, Handles(it), NEW s
  PROVE  Tended(i, it, NoNewInfo(i, it, s))
<1>. PICK b : b = (it.reviewed \/ s.head = it.lastApproved)
  OBVIOUS
<1>. PICK closing \in BOOLEAN : closing = (it.ws # 0 /\ ~it.parked)
  OBVIOUS
<1>. PICK p : p = (it.parked \/ closing)
  OBVIOUS
<1>. PICK x : x = [it EXCEPT !.batch = {}, !.due = FALSE, !.feedback = {}, !.needsFeedback = FALSE,
                             !.pr = s.num, !.reviewed = b]
  OBVIOUS
<1>. PICK y : y = [x EXCEPT !.parked = p]
  OBVIOUS
<1>. PICK z : z = Moved(y, "review-pending")
  OBVIOUS
<1>0. Shape(it)
  BY DEF Handles, Rightful
<1>1. Shape(x)
  BY <1>0, Zenon DEF Shape
<1>2. Renumbered(it, x)
  <2>1. x.batch = {} /\ x.feedback = {} /\ x.nudgedTwice = it.nudgedTwice
    BY <1>0, <1>1 DEF Shape, Fields
  <2>2. Sayable(it) => Sayable(x)
    BY <2>1 DEF Sayable
  <2>. QED
    BY <1>0, <1>1, <2>2 DEF Shape, Fields, Renumbered
<1>3. Handles(x) /\ Keeps(it, x)
  BY <1>2, SparedHandles
<1>4. Shape(y)
  BY <1>1, Zenon DEF Shape
<1>5. /\ y.state = x.state /\ y.illegal = x.illegal /\ y.ws = x.ws /\ y.retryWs = x.retryWs
      /\ y.base = x.base /\ y.reviewWs = x.reviewWs /\ y.rebaserWs = x.rebaserWs
      /\ y.fixWs = x.fixWs /\ y.batch = x.batch /\ y.feedback = x.feedback
      /\ y.nudgedTwice = x.nudgedTwice
  BY <1>1, <1>4, SMTT(30) DEF Shape, Fields
<1>6. Keeps(y, z) /\ (z.illegal \/ z.state = "review-pending")
  BY <1>4, MovedKept DEF States
<1>7. Sayable(x) => Sayable(y)
  BY <1>5, SayableStill
<1>8. Sequel(x, z)
  BY <1>4, <1>5, <1>6, <1>7, Zenon DEF Keeps, Sequel
<1>9. z.illegal \/ (Carries(x, z) /\ Ashore(x, z))
  <2>. SUFFICES ASSUME ~z.illegal PROVE Carries(x, z) /\ Ashore(x, z)
    OBVIOUS
  <2>1. Carries(y, z) /\ z.state = "review-pending"
    BY <1>6 DEF Keeps
  <2>2. ParkedRightly(z)
    BY <2>1 DEF ParkedRightly
  <2>3. Ashore(x, z)
    BY <2>1 DEF Ashore, OnMain
  <2>. QED
    BY <1>5, <2>1, <2>2, <2>3 DEF Carries
<1>10. Keeps(it, z)
  BY <1>3, <1>8, <1>9, KeptTwice DEF Keeps
<1>. PICK w : w = IF closing THEN <<Action("workspace-close", i)>> ELSE <<>>
  OBVIOUS
<1>. PICK n : n = <<Action("clear-no-new-info", i)>>
  OBVIOUS
<1>11. w \in Hushed(i) /\ n \in Hushed(i)
  BY OneHushed DEF HushedTypes
<1>12. n \o w \in Hushed(i)
  BY <1>11, HushedThen
<1>13. x = [it EXCEPT !.batch = {}, !.due = FALSE, !.feedback = {}, !.needsFeedback = FALSE,
                      !.pr = s.num, !.reviewed = @ \/ s.head = it.lastApproved]
  OBVIOUS
<1>14. y = [x EXCEPT !.parked = @ \/ closing]
  <2>1. x.parked = it.parked
    BY <1>2 DEF Renumbered
  <2>. QED
    BY <2>1
<1>15. NoNewInfo(i, it, s) = Outcome(z, n \o w)
  BY <1>13, <1>14 DEF NoNewInfo
<1>. QED
  BY <1>10, <1>12, <1>15, KeptTended

\* The review gate.
LEMMA ReviewLaunchedTended ==
  ASSUME NEW i \in Items, NEW it, Handles(it), NEW s
  PROVE  Tended(i, it, ReviewLaunched(i, it, s))
<1>. PICK x : x = [it EXCEPT !.round = it.round + 1]
  OBVIOUS
<1>. PICK l : l = <<Action("launch-review", i)>>
  OBVIOUS
<1>1. Shape(x)
  BY Zenon DEF Shape, Handles, Rightful
<1>2. Spared(it, x)
  BY <1>1 DEF Handles, Rightful, Shape, Fields, Sayable, Spared
<1>3. Keeps(it, Moved(x, "reviewing"))
  BY <1>2, SparedHandles, MovedOn, KeptTwice DEF Onward, States
<1>4. Keeps(it, Moved(it, "stuck")) /\ Keeps(it, it)
  BY MovedOn, NotedOn DEF Onward, States
<1>5. l \in Hushed(i) /\ <<>> \in Hushed(i)
  BY OneHushed DEF HushedTypes
<1>6. ReviewLaunched(i, it, s) \in
        {Outcome(it, <<>>), Outcome(Moved(it, "stuck"), <<>>), Outcome(Moved(x, "reviewing"), l)}
  BY DEF ReviewLaunched
<1>. QED
  BY <1>3, <1>4, <1>5, <1>6, KeptTended, Zenon

\* An item that a person must merge.
LEMMA ParkedForHumanTended ==
  ASSUME NEW i \in Items, NEW it, Handles(it)
  PROVE  Tended(i, it, ParkedForHuman(i, it))
<1>. PICK x : x = Moved(it, "review-pending")
  OBVIOUS
<1>. PICK y : y = [x EXCEPT !.parked = TRUE]
  OBVIOUS
<1>. PICK w : w = <<Action("workspace-close", i)>>
  OBVIOUS
<1>1. Keeps(it, x) /\ Handles(x) /\ (x.illegal \/ x.state = "review-pending")
  BY MovedOn DEF Onward, States
<1>2. Shape(y)
  BY <1>1, Zenon DEF Shape, Handles, Rightful
<1>3. /\ y.state = x.state /\ y.illegal = x.illegal /\ y.ws = x.ws /\ y.retryWs = x.retryWs
      /\ y.base = x.base /\ y.reviewWs = x.reviewWs /\ y.rebaserWs = x.rebaserWs
      /\ y.fixWs = x.fixWs /\ y.batch = x.batch /\ y.feedback = x.feedback
      /\ y.nudgedTwice = x.nudgedTwice
  BY <1>1, <1>2 DEF Shape, Fields, Handles, Rightful
<1>4. Sayable(x) => Sayable(y)
  BY <1>3, SayableStill
<1>5. y.illegal \/ ParkedRightly(y)
  BY <1>1, <1>3 DEF ParkedRightly
<1>6. Keeps(x, y)
  BY <1>2, <1>3, <1>4, <1>5, Zenon DEF Keeps, Sequel, Carries, Ashore
<1>7. Keeps(it, y)
  BY <1>1, <1>6, KeptTwice
<1>8. w \in Hushed(i) /\ <<>> \in Hushed(i)
  BY OneHushed DEF HushedTypes
<1>9. ParkedForHuman(i, it) \in {Outcome(x, <<>>), Outcome(y, w)}
  BY DEF ParkedForHuman
<1>10. Tended(i, it, Outcome(x, <<>>)) /\ Tended(i, it, Outcome(y, w))
  BY <1>1, <1>7, <1>8, KeptTended
<1>. QED
  BY <1>9, <1>10

\* evaluateMerge.
LEMMA EvaluateMergeTended ==
  ASSUME NEW i \in Items, NEW it, Handles(it), NEW s, NEW c
  PROVE  Tended(i, it, EvaluateMerge(c, i, it, s))
<1>. PICK x : x = [it EXCEPT !.reviewed = @ \/ c.skipReview]
  OBVIOUS
<1>. PICK m : m = <<Action("merge", i)>>
  OBVIOUS
<1>1. Shape(x)
  <2>. PICK b : b = (it.reviewed \/ c.skipReview)
    OBVIOUS
  <2>1. x = [it EXCEPT !.reviewed = b]
    OBVIOUS
  <2>2. Shape([it EXCEPT !.reviewed = b])
    BY Zenon DEF Shape, Handles, Rightful
  <2>. QED
    BY <2>1, <2>2
<1>2. Spared(it, x)
  BY <1>1 DEF Handles, Rightful, Shape, Fields, Sayable, Spared
<1>3. Keeps(it, x) /\ Handles(x)
  BY <1>2, SparedHandles
<1>4. Tended(i, it, ParkedForHuman(i, x))
  BY <1>3, ParkedForHumanTended, TendedOf
<1>5. Tended(i, it, Outcome(Moved(x, "merging"), m))
  <2>1. m \in Hushed(i)
    BY OneHushed DEF HushedTypes
  <2>2. Keeps(it, Moved(x, "merging"))
    BY <1>3, MovedOn, KeptTwice DEF Onward, States
  <2>. QED
    BY <2>1, <2>2, KeptTended
<1>6. /\ Tended(i, it, NoNewInfo(i, it, s)) /\ Tended(i, it, Handoff(i, it, s))
      /\ Tended(i, it, Outcome(Resolved(i, it, s).it, Resolved(i, it, s).acts))
      /\ Tended(i, it, ReviewLaunched(i, it, s))
  BY NoNewInfoTended, HandoffTended, ResolvedTended, ReviewLaunchedTended
<1>. QED
  BY <1>4, <1>5, <1>6, Zenon DEF EvaluateMerge

---------------------------------------------------------------------------
(* CI, and the implementer at work *)

\* Nothing done, or other actions asked for.
LEMMA IdleTended ==
  ASSUME NEW i \in Items, NEW it, Handles(it)
  PROVE  Tended(i, it, Outcome(it, <<>>)) /\ \A acts \in Hushed(i) : Tended(i, it, Outcome(it, acts))
  BY NotedOn, OneHushed, KeptTended

\* A move, and nudges forgotten.
LEMMA CooledMoveTended ==
  ASSUME NEW i \in Items, NEW it, Handles(it), NEW s, NEW to \in Onward, NEW acts \in Hushed(i)
  PROVE  Tended(i, it, Outcome(Cooled(Moved(it, to), s), acts))
<1>1. Keeps(it, Moved(it, to)) /\ Handles(Moved(it, to))
  BY MovedOn
<1>2. Keeps(it, Cooled(Moved(it, to), s))
  BY <1>1, NotedOn, KeptTwice
<1>. QED
  BY <1>2, KeptTended

\* Red CI.
LEMMA CiFailedTended ==
  ASSUME NEW i \in Items, NEW it, Handles(it), NEW s
  PROVE  \A o \in CiFailed(i, it, s) : Tended(i, it, o)
<1>. PICK failed : failed = CountsCi(it)
  OBVIOUS
<1>. PICK x : x = [failed EXCEPT !.ciNotified = TRUE, !.notifiedAt = it.lastCommit]
  OBVIOUS
<1>. PICK n : n = <<Action("notify-ci-failure", i)>>
  OBVIOUS
<1>1. Keeps(it, failed) /\ Handles(failed) /\ (failed.illegal \/ failed.state = "ci-failed")
  BY CountsCiOn
<1>2. Shape(x)
  BY <1>1, Zenon DEF Shape, Handles, Rightful
<1>3. Spared(failed, x)
  BY <1>1, <1>2 DEF Handles, Rightful, Shape, Fields, Sayable, Spared
<1>4. Keeps(it, x)
  BY <1>1, <1>3, SparedKept, KeptTwice
<1>5. x.illegal \/ x.state = "ci-failed"
  BY <1>1, <1>3 DEF Spared
<1>6. Tended(i, it, Outcome(x, n))
  BY <1>4, <1>5, OneHushed, ToldTended
<1>7. \A o \in RebasePlans(i, failed, s) : Tended(i, it, o)
  BY <1>1, RebasePlansTended, TendedOf
<1>8. CiFailed(i, it, s) = IF s.mergeable = "no" THEN RebasePlans(i, failed, s)
                           ELSE {Outcome(x, n)}
  BY DEF CiFailed, CountsCi, Only
<1>. QED
  BY <1>6, <1>7, <1>8

\* handleCiPending.
LEMMA HandleCiPendingTended ==
  ASSUME NEW i \in Items, NEW it, Handles(it), NEW s, NEW c
  PROVE  \A o \in HandleCiPending(c, i, it, s) : Tended(i, it, o)
<1>1. \A o \in CiFailed(i, it, s) : Tended(i, it, o)
  BY CiFailedTended
<1>2. \A o \in RebasePlans(i, it, s) : Tended(i, it, o)
  BY RebasePlansTended
<1>3. Tended(i, it, EvaluateMerge(c, i, Moved(it, "ci-passed"), s))
  <2>1. Keeps(it, Moved(it, "ci-passed")) /\ Handles(Moved(it, "ci-passed"))
    BY MovedOn DEF Onward, States
  <2>. QED
    BY <2>1, EvaluateMergeTended, TendedOf
<1>4. Tended(i, it, Outcome(Resolved(i, it, s).it, Resolved(i, it, s).acts))
  BY ResolvedTended
<1>5. Tended(i, it, Outcome(it, <<>>))
  BY IdleTended
<1>. QED
  BY <1>1, <1>2, <1>3, <1>4, <1>5 DEF HandleCiPending, Only, Late

\* handleCiPending on a record changed on the way to it.
LEMMA CiPendingOf ==
  ASSUME NEW i \in Items, NEW it, NEW x, Keeps(it, x), Handles(x), NEW s, NEW c
  PROVE  \A o \in HandleCiPending(c, i, Moved(x, "ci-pending"), s) : Tended(i, it, o)
<1>1. Keeps(it, Moved(x, "ci-pending")) /\ Handles(Moved(x, "ci-pending"))
  BY MovedOn, KeptTwice DEF Onward, States
<1>. QED
  BY <1>1, HandleCiPendingTended, TendedOf

\* handleCiPassed.
LEMMA HandleCiPassedTended ==
  ASSUME NEW i \in Items, NEW it, Handles(it), NEW s, NEW c
  PROVE  \A o \in HandleCiPassed(c, i, it, s) : Tended(i, it, o)
<1>1. \A o \in CiFailed(i, it, s) : Tended(i, it, o)
  BY CiFailedTended
<1>2. Keeps(it, Moved(it, "ci-pending")) /\ Handles(Moved(it, "ci-pending"))
  BY MovedOn DEF Onward, States
<1>3. \A o \in RebasePlans(i, Moved(it, "ci-pending"), s) : Tended(i, it, o)
  BY <1>2, RebasePlansTended, TendedOf
<1>4. Tended(i, it, Outcome(Cooled(Moved(it, "ci-pending"), s), <<>>))
  BY CooledMoveTended, OneHushed DEF Onward, States
<1>5. Tended(i, it, EvaluateMerge(c, i, it, s))
  BY EvaluateMergeTended
<1>. QED
  BY <1>1, <1>3, <1>4, <1>5 DEF HandleCiPassed, Only

\* The CI failure over the limit: the item is stuck, and parked if its worker lives.
LEMMA CiLimitReachedTended ==
  ASSUME NEW i \in Items, NEW it, Handles(it), NEW s
  PROVE  Tended(i, it, CiLimitReached(i, it, s))
<1>. PICK b : b = (s.alive = "yes")
  OBVIOUS
<1>. PICK x : x = Moved(it, "stuck")
  OBVIOUS
<1>. PICK y : y = [x EXCEPT !.parked = b]
  OBVIOUS
<1>. PICK w : w = <<Action("workspace-close", i)>>
  OBVIOUS
<1>1. Keeps(it, x) /\ Handles(x) /\ (x.illegal \/ x.state = "stuck")
  BY MovedOn DEF Onward, States
<1>2. Shape(y)
  BY <1>1, Zenon DEF Shape, Handles, Rightful
<1>3. /\ y.state = x.state /\ y.illegal = x.illegal /\ y.ws = x.ws /\ y.retryWs = x.retryWs
      /\ y.base = x.base /\ y.reviewWs = x.reviewWs /\ y.rebaserWs = x.rebaserWs
      /\ y.fixWs = x.fixWs /\ y.batch = x.batch /\ y.feedback = x.feedback
      /\ y.nudgedTwice = x.nudgedTwice
  BY <1>1, <1>2 DEF Shape, Fields, Handles, Rightful
<1>4. Sayable(x) => Sayable(y)
  BY <1>3, SayableStill
<1>5. y.illegal \/ ParkedRightly(y)
  BY <1>1, <1>3 DEF ParkedRightly
<1>6. Keeps(x, y)
  BY <1>2, <1>3, <1>4, <1>5, Zenon DEF Keeps, Sequel, Carries, Ashore
<1>7. Keeps(it, y)
  BY <1>1, <1>6, KeptTwice
<1>8. w \in Hushed(i) /\ <<>> \in Hushed(i)
  BY OneHushed DEF HushedTypes
<1>9. CiLimitReached(i, it, s) \in {Outcome(y, <<>>), Outcome(y, w)}
  BY DEF CiLimitReached
<1>10. Tended(i, it, Outcome(y, <<>>)) /\ Tended(i, it, Outcome(y, w))
  BY <1>7, <1>8, KeptTended
<1>. QED
  BY <1>9, <1>10

\* CI stays red.
LEMMA StillFailingTended ==
  ASSUME NEW i \in Items, NEW it, Handles(it), it.illegal \/ it.state = "ci-failed", NEW s
  PROVE  \A o \in StillFailing(i, it, s) : Tended(i, it, o)
<1>. PICK x : x = [it EXCEPT !.ciNotified = TRUE, !.notifiedAt = it.lastCommit]
  OBVIOUS
<1>. PICK tell \in BOOLEAN : tell = (~it.ciNotified \/ it.lastCommit # it.notifiedAt)
  OBVIOUS
<1>. PICK told : told = Counted(IF tell THEN x ELSE it, s)
  OBVIOUS
<1>. PICK acts : acts = IF tell THEN <<Action("notify-ci-failure", i)>> ELSE <<>>
  OBVIOUS
<1>. PICK r : r = Resolved(i, told, s)
  OBVIOUS
<1>0. Shape(it)
  BY DEF Handles, Rightful
<1>1. Shape(x)
  BY <1>0, Zenon DEF Shape
<1>2. Spared(it, x) /\ Spared(it, it)
  BY <1>0, <1>1, NotedSpared DEF Shape, Fields, Sayable, Spared
<1>3. Spared(it, told)
  BY <1>0, <1>1, <1>2, NotedSpared, SparedTwice, Zenon
<1>4. Keeps(it, told) /\ Handles(told) /\ (told.illegal \/ told.state = "ci-failed")
  BY <1>3, SparedHandles DEF Spared
<1>5. Tended(i, it, RespawnedForCi(i, told))
  BY <1>4, RespawnedTended, TendedOf
<1>6. acts \in Unlaunched(i)
  BY OneHushed, HushedIsUnlaunched
<1>7. Settles(i, told, r)
  BY <1>4, ResolvedSettles DEF Handles
<1>. PICK z : z = r.it
  OBVIOUS
<1>8. Keeps(told, z) \/ (Renewed(told, z) /\ Holds(r.acts, "retry"))
  BY <1>7, Zenon DEF Settles, Stays
<1>9. z.illegal \/ z.state = "ci-failed"
  BY <1>4, <1>7 DEF Settles, Stays, Keeps, Renewed, Sequel
<1>10. r.acts \in Hushed(i) /\ r.acts \in Unlaunched(i)
  BY <1>7, HushedIsUnlaunched DEF Settles
<1>11. acts \o r.acts \in Unlaunched(i)
  BY <1>6, <1>10, HushedThen
<1>12. Keeps(it, z) \/ (Renewed(it, z) /\ Holds(acts \o r.acts, "retry"))
  BY <1>4, <1>6, <1>8, <1>10, KeptTwice, KeptThenRenewed, HoldsThen
<1>13. Tended(i, it, Outcome(z, acts \o r.acts))
  <2>1. Outcome(z, acts \o r.acts).it = z /\ Outcome(z, acts \o r.acts).acts = acts \o r.acts
    BY DEF Outcome
  <2>. QED
    BY <1>9, <1>11, <1>12, <2>1, Zenon DEF Tended
<1>14. \A o \in StillFailing(i, it, s) :
         o = RespawnedForCi(i, told) \/ o = Outcome(z, acts \o r.acts)
  BY DEF StillFailing
<1>. QED
  BY <1>5, <1>13, <1>14, Zenon

\* handleCiFailed.
LEMMA HandleCiFailedTended ==
  ASSUME NEW i \in Items, NEW it, Handles(it), it.illegal \/ it.state = "ci-failed", NEW s, NEW c
  PROVE  \A o \in HandleCiFailed(c, i, it, s) : Tended(i, it, o)
<1>1. Tended(i, it, CiLimitReached(i, it, s))
  BY CiLimitReachedTended
<1>2. Keeps(it, Moved(it, "ci-passed")) /\ Handles(Moved(it, "ci-passed"))
  BY MovedOn DEF Onward, States
<1>3. \A o \in HandleCiPassed(c, i, Moved(it, "ci-passed"), s) : Tended(i, it, o)
  BY <1>2, HandleCiPassedTended, TendedOf
<1>4. Tended(i, it, Outcome(Cooled(Moved(it, "ci-pending"), s), <<>>))
  BY CooledMoveTended, OneHushed DEF Onward, States
<1>5. \A o \in RebasePlans(i, it, s) : Tended(i, it, o)
  BY RebasePlansTended
<1>6. \A o \in StillFailing(i, it, s) : Tended(i, it, o)
  BY StillFailingTended
<1>. QED
  BY <1>1, <1>3, <1>4, <1>5, <1>6 DEF HandleCiFailed, Only

\* handleLaunching.
LEMMA HandleLaunchingTended ==
  ASSUME NEW i \in Items, NEW it, Handles(it), NEW s
  PROVE  \A o \in HandleLaunching(i, it, s) : Tended(i, it, o)
<1>. PICK x : x = Counted(it, s)
  OBVIOUS
<1>1. Keeps(it, x) /\ Handles(x)
  BY NotedOn
<1>2. Tended(i, it, Outcome(Moved(x, "implementing"), <<>>)) /\ Tended(i, it, Outcome(x, <<>>))
  <2>1. Keeps(it, Moved(x, "implementing"))
    BY <1>1, MovedOn, KeptTwice DEF Onward, States
  <2>. QED
    BY <1>1, <2>1, KeptTended, OneHushed
<1>3. Tended(i, it, StuckOrRetry(i, x))
  BY <1>1, LostTended, TendedOf
<1>. QED
  BY <1>2, <1>3 DEF HandleLaunching, Only

\* A worker that disagrees.
LEMMA PushbackTended ==
  ASSUME NEW i \in Items, NEW it, Handles(it), NEW s, NEW c
  PROVE  \A o \in Pushback(c, i, it, s) : Tended(i, it, o)
<1>. PICK a : a = Answered(it)
  OBVIOUS
<1>. PICK x : x = [a EXCEPT !.reviewed = FALSE, !.pr = s.num]
  OBVIOUS
<1>1. Keeps(it, a) /\ Handles(a)
  BY NotedOn
<1>2. Shape(x)
  BY <1>1, Zenon DEF Shape, Handles, Rightful
<1>3. Renumbered(a, x)
  BY <1>1, <1>2 DEF Handles, Rightful, Shape, Fields, Sayable, Renumbered
<1>4. Keeps(it, x) /\ Handles(x)
  BY <1>1, <1>3, SparedHandles, KeptTwice
<1>5. \A o \in HandleCiPending(c, i, Moved(x, "ci-pending"), s) : Tended(i, it, o)
  BY <1>4, CiPendingOf
<1>6. <<Action("clear-pushback", i)>> \in Hushed(i)
  BY OneHushed DEF HushedTypes
<1>. QED
  BY <1>5, <1>6, AfterTended DEF Pushback

\* No PR event to act upon.
LEMMA HandleWorkingTended ==
  ASSUME NEW i \in Items, NEW it, Handles(it), NEW s
  PROVE  \A o \in HandleWorking(i, it, s) : Tended(i, it, o)
<1>. PICK x : x = IF s.num = "none" \/ s.alive = "yes" THEN Counted(it, s) ELSE it
  OBVIOUS
<1>1. Keeps(it, x) /\ Handles(x)
  BY NotedOn
<1>2. it.feedback \in SUBSET Feedback
  BY DEF Handles, Rightful, Sayable
<1>3. \A o \in Lost(i, x, s) : Tended(i, it, o)
  BY <1>1, LostTended, TendedOf
<1>4. Tended(i, it, RespawnedForFeedback(i, x, it.feedback))
  BY <1>1, <1>2, RespawnedTended, TendedOf
<1>5. Tended(i, it, Outcome(x, <<>>))
  BY <1>1, KeptTended, OneHushed
<1>. QED
  BY <1>3, <1>4, <1>5 DEF HandleWorking, Only, Late

\* handleImplementing.
LEMMA HandleImplementingTended ==
  ASSUME NEW i \in Items, NEW it, Handles(it), NEW s, NEW c
  PROVE  \A o \in HandleImplementing(c, i, it, s) : Tended(i, it, o)
<1>. PICK x : x = [it EXCEPT !.pr = s.num]
  OBVIOUS
<1>. PICK a : a = Answered(it)
  OBVIOUS
<1>. PICK y : y = [a EXCEPT !.pr = s.num]
  OBVIOUS
<1>1. Keeps(it, x) /\ Handles(x)
  BY NumberedOn
<1>2. Keeps(it, y) /\ Handles(y)
  BY NotedOn, NumberedOn, KeptTwice
<1>3. \A o \in HandleWorking(i, it, s) : Tended(i, it, o)
  BY HandleWorkingTended
<1>4. \A o \in HandleWorking(i, x, s) : Tended(i, it, o)
  BY <1>1, HandleWorkingTended, TendedOf
<1>5. \A o \in HandleCiPending(c, i, Moved(x, "ci-pending"), s) : Tended(i, it, o)
  BY <1>1, CiPendingOf
<1>6. \A o \in HandleCiPending(c, i, Moved(y, "ci-pending"), s) : Tended(i, it, o)
  BY <1>2, CiPendingOf
<1>7. <<Action("clear-feedback-done", i)>> \in Hushed(i)
  BY OneHushed DEF HushedTypes
<1>8. \A o \in After(<<Action("clear-feedback-done", i)>>,
                     HandleCiPending(c, i, Moved(y, "ci-pending"), s)) : Tended(i, it, o)
  BY <1>6, <1>7, AfterTended
<1>9. Tended(i, it, NoNewInfo(i, it, s)) /\ \A o \in Pushback(c, i, it, s) : Tended(i, it, o)
  BY NoNewInfoTended, PushbackTended
<1>. QED
  BY <1>3, <1>4, <1>5, <1>8, <1>9 DEF HandleImplementing

---------------------------------------------------------------------------
(* Review *)

\* Back to ci-passed, and from there on.
LEMMA ReevaluatedTended ==
  ASSUME NEW i \in Items, NEW it, NEW x, Keeps(it, x), Handles(x), NEW s, NEW c
  PROVE  Tended(i, it, Reevaluated(c, i, x, s))
<1>1. Keeps(it, Moved(x, "ci-passed")) /\ Handles(Moved(x, "ci-passed"))
  BY MovedOn, KeptTwice DEF Onward, States
<1>. QED
  BY <1>1, EvaluateMergeTended, TendedOf DEF Reevaluated

\* The reviewer that never wrote to the PR is replaced.
LEMMA RestOfReviewPendingTended ==
  ASSUME NEW i \in Items, NEW it, Handles(it), NEW s, NEW c
  PROVE  \A o \in RestOfReviewPending(c, i, it, s) : Tended(i, it, o)
<1>. PICK plans : plans = IF s.mergeable = "no" THEN RebasePlans(i, it, s) ELSE Only(it, <<>>)
  OBVIOUS
<1>1. ASSUME NEW o \in plans PROVE Tended(i, it, o) /\ o.acts \in Hushed(i) /\ Keeps(it, o.it)
  <2>1. CASE s.mergeable = "no"
    BY <1>1, <2>1, RebasePlansTended
  <2>2. CASE s.mergeable # "no"
    <3>1. o = Outcome(it, <<>>) /\ o.it = it /\ o.acts = <<>>
      BY <1>1, <2>2 DEF Only, Outcome
    <3>. QED
      BY <3>1, IdleTended, OneHushed, NotedOn
  <2>. QED
    BY <2>1, <2>2
<1>2. ASSUME NEW o \in plans
      PROVE  LET e == Reevaluated(c, i, [o.it EXCEPT !.reviewed = FALSE, !.lastReviewed = 0,
                                                     !.parked = FALSE], s)
             IN  Tended(i, it, Outcome(e.it, o.acts \o e.acts))
  <2>. PICK y : y = o.it
    OBVIOUS
  <2>. PICK x : x = [y EXCEPT !.reviewed = FALSE, !.lastReviewed = 0, !.parked = FALSE]
    OBVIOUS
  <2>. PICK e : e = Reevaluated(c, i, x, s)
    OBVIOUS
  <2>1. Keeps(it, y) /\ o.acts \in Hushed(i)
    BY <1>1, <1>2
  <2>2. Shape(y) /\ Handles(y)
    BY <2>1, KeptHandles DEF Handles, Rightful
  <2>3. Shape(x)
    BY <2>2, Zenon DEF Shape
  <2>4. /\ x.state = y.state /\ x.illegal = y.illegal /\ x.ws = y.ws /\ x.retryWs = y.retryWs
        /\ x.base = y.base /\ x.reviewWs = y.reviewWs /\ x.rebaserWs = y.rebaserWs
        /\ x.fixWs = y.fixWs /\ x.batch = y.batch /\ x.feedback = y.feedback
        /\ x.nudgedTwice = y.nudgedTwice /\ x.parked = FALSE
    BY <2>2, <2>3 DEF Shape, Fields
  <2>5. Sayable(y) => Sayable(x)
    <3>1. x.batch = y.batch /\ x.feedback = y.feedback /\ x.nudgedTwice = y.nudgedTwice
      BY <2>4
    <3>. QED
      BY <3>1, Zenon DEF Sayable
  <2>6. Sequel(y, x)
    <3>1. y.illegal => x.illegal
      BY <2>4
    <3>. QED
      BY <2>3, <2>4, <2>5, <3>1, Zenon DEF Sequel
  <2>7. Carries(y, x) /\ Ashore(y, x)
    BY <2>4 DEF Carries, Ashore, ParkedRightly
  <2>8. Keeps(it, x) /\ Handles(x)
    BY <2>1, <2>2, <2>6, <2>7, KeptTwice, KeptHandles DEF Keeps
  <2>9. Tended(i, it, e)
    BY <2>8, ReevaluatedTended
  <2>10. \A p \in After(o.acts, {e}) : Tended(i, it, p)
    BY <2>1, <2>9, AfterTended
  <2>11. Outcome(e.it, o.acts \o e.acts) \in After(o.acts, {e})
    BY DEF After
  <2>. QED
    BY <2>10, <2>11
<1>. QED
  BY <1>1, <1>2 DEF RestOfReviewPending, Late

\* Changes were requested: a push is awaited, or the worker relaunched.
LEMMA AwaitPushTended ==
  ASSUME NEW i \in Items, NEW it, Handles(it), NEW s
  PROVE  Tended(i, it, AwaitPush(i, it, s))
<1>. PICK msg : msg = IF it.feedback # {} THEN it.feedback ELSE {"review"}
  OBVIOUS
<1>1. msg \in SUBSET Feedback
  BY DEF Handles, Rightful, Sayable, Feedback
<1>2. Tended(i, it, RespawnedForFeedback(i, it, msg))
  BY <1>1, RespawnedTended
<1>3. Tended(i, it, Outcome(Counted(it, s), <<>>))
  BY NotedOn, OneHushed, KeptTended
<1>. QED
  BY <1>2, <1>3 DEF AwaitPush

\* A review on which no feedback is pending.
LEMMA SettledReviewTended ==
  ASSUME NEW i \in Items, NEW it, Handles(it), NEW s, NEW c, NEW acts \in Hushed(i)
  PROVE  \A o \in SettledReview(c, i, it, s, acts) : Tended(i, it, o)
<1>1. Tended(i, it, Outcome(it, acts))
  BY IdleTended
<1>2. \A o \in After(acts, {EvaluateMerge(c, i, it, s)}) : Tended(i, it, o)
  BY EvaluateMergeTended, AfterTended
<1>3. Tended(i, it, RespawnedForCi(i, CountsCi(it)))
  BY CountsCiOn, RespawnedTended, TendedOf
<1>4. \A o \in After(acts, CiFailed(i, it, s)) : Tended(i, it, o)
  BY CiFailedTended, AfterTended
<1>5. Tended(i, it, AwaitPush(i, it, s))
  BY AwaitPushTended
<1>6. Tended(i, it, Outcome(Cooled(Moved(it, "ci-pending"), s), acts))
  BY CooledMoveTended DEF Onward, States
<1>7. \A o \in After(acts, {Reevaluated(c, i, it, s)}) : Tended(i, it, o)
  BY NotedOn, ReevaluatedTended, AfterTended
<1>8. \A o \in After(acts, RestOfReviewPending(c, i, it, s)) : Tended(i, it, o)
  BY RestOfReviewPendingTended, AfterTended
<1>. QED
  BY <1>1, <1>2, <1>3, <1>4, <1>5, <1>6, <1>7, <1>8 DEF SettledReview, Only, CountsCi

\* Feedback comes first.
LEMMA FeedbackOrReviewTended ==
  ASSUME NEW i \in Items, NEW it, Handles(it), NEW s, NEW c, NEW acts \in Hushed(i)
  PROVE  \A o \in FeedbackOrReview(c, i, it, s, acts) : Tended(i, it, o)
<1>1. /\ Tended(i, it, Handoff(i, it, s))
      /\ Tended(i, it, Outcome(Resolved(i, it, s).it, Resolved(i, it, s).acts))
  BY HandoffTended, ResolvedTended
<1>2. \A o \in SettledReview(c, i, it, s, acts) : Tended(i, it, o)
  BY SettledReviewTended
<1>. QED
  BY <1>1, <1>2 DEF FeedbackOrReview, Only

\* handleReviewPending.
LEMMA HandleReviewPendingTended ==
  ASSUME NEW i \in Items, NEW it, Handles(it), NEW s, NEW c
  PROVE  \A o \in HandleReviewPending(c, i, it, s) : Tended(i, it, o)
<1>. PICK clear : clear = <<Action("clear-feedback-done", i)>>
  OBVIOUS
<1>. PICK answered : answered = Answered(it)
  OBVIOUS
<1>1. Keeps(it, answered) /\ Handles(answered) /\ Keeps(it, it)
  BY NotedOn
<1>2. clear \in Hushed(i) /\ <<>> \in Hushed(i)
  BY OneHushed DEF HushedTypes
<1>3. Tended(i, it, Reevaluated(c, i, it, s)) /\ Tended(i, it, Reevaluated(c, i, answered, s))
  BY <1>1, ReevaluatedTended
<1>4. Tended(i, it, NoNewInfo(i, it, s)) /\ \A o \in Pushback(c, i, it, s) : Tended(i, it, o)
  BY NoNewInfoTended, PushbackTended
<1>5. \A o \in FeedbackOrReview(c, i, it, s, <<>>) : Tended(i, it, o)
  BY <1>2, FeedbackOrReviewTended
<1>6. \A o \in FeedbackOrReview(c, i, answered, s, clear) : Tended(i, it, o)
  BY <1>1, <1>2, FeedbackOrReviewTended, TendedOf
<1>7. Tended(i, it, Outcome(Cooled(Moved(answered, "ci-pending"), s), clear))
  BY <1>1, <1>2, CooledMoveTended, TendedOf DEF Onward, States
<1>8. \A o \in After(clear, {Reevaluated(c, i, answered, s)}) : Tended(i, it, o)
  BY <1>2, <1>3, AfterTended
<1>. QED
  BY <1>3, <1>4, <1>5, <1>6, <1>7, <1>8 DEF HandleReviewPending, Only

\* handleReviewing.
LEMMA HandleReviewingTended ==
  ASSUME NEW i \in Items, NEW it, Handles(it), NEW s, NEW c
  PROVE  \A o \in HandleReviewing(c, i, it, s) : Tended(i, it, o)
<1>. PICK clean : clean = <<Action("clean-review", i)>>
  OBVIOUS
<1>. PICK post : post = <<Action("post-review", i)>>
  OBVIOUS
<1>. PICK ruled : ruled = [it EXCEPT !.lastReviewed = s.head]
  OBVIOUS
<1>. PICK counted : counted = IF it.reviewWs THEN Counted(it, s) ELSE it
  OBVIOUS
<1>. PICK failed : failed = CountsCi(counted)
  OBVIOUS
<1>. PICK passed : passed = [ruled EXCEPT !.reviewed = TRUE, !.lastApproved = s.head]
  OBVIOUS
<1>. PICK turned : turned = Moved(ruled, "review-pending")
  OBVIOUS
<1>. PICK sent : sent = [turned EXCEPT !.feedback = {"review"}]
  OBVIOUS
<1>1. clean \in Hushed(i) /\ post \in Hushed(i) /\ <<>> \in Hushed(i)
  BY OneHushed DEF HushedTypes
<1>2. clean \o post \in Hushed(i)
  BY <1>1, HushedThen
<1>3. Keeps(it, ruled) /\ Handles(ruled)
  <2>1. Shape(ruled)
    BY Zenon DEF Shape, Handles, Rightful
  <2>2. Spared(it, ruled)
    BY <2>1 DEF Handles, Rightful, Shape, Fields, Sayable, Spared
  <2>. QED
    BY <2>2, SparedHandles
<1>4. Keeps(it, counted) /\ Handles(counted)
  BY NotedOn
<1>5. Keeps(it, failed) /\ Handles(failed) /\ (failed.illegal \/ failed.state = "ci-failed")
  BY <1>4, CountsCiOn, KeptTwice
<1>6. Keeps(it, passed) /\ Handles(passed)
  <2>1. Shape(passed)
    BY <1>3, Zenon DEF Shape, Handles, Rightful
  <2>2. Spared(ruled, passed)
    BY <1>3, <2>1 DEF Handles, Rightful, Shape, Fields, Sayable, Spared
  <2>. QED
    BY <1>3, <2>2, SparedHandles, KeptTwice
<1>7. Keeps(it, sent)
  <2>1. Keeps(it, turned) /\ Handles(turned)
    BY <1>3, MovedOn, KeptTwice DEF Onward, States
  <2>2. Shape(sent)
    BY <2>1, Zenon DEF Shape, Handles, Rightful
  <2>3. sent.batch = turned.batch /\ sent.feedback = {"review"} /\ sent.nudgedTwice = turned.nudgedTwice
    BY <2>1, <2>2 DEF Handles, Rightful, Shape, Fields
  <2>4. Sayable(turned) => Sayable(sent)
    BY <2>3 DEF Sayable, Feedback
  <2>5. Spared(turned, sent)
    BY <2>1, <2>2, <2>4 DEF Handles, Rightful, Shape, Fields, Spared
  <2>. QED
    BY <2>1, <2>5, SparedKept, KeptTwice
<1>8. \A o \in After(clean \o post, {Reevaluated(c, i, passed, s)}) : Tended(i, it, o)
  BY <1>2, <1>6, ReevaluatedTended, AfterTended
<1>9. Tended(i, it, Outcome(sent, clean \o post)) /\ Tended(i, it, Outcome(counted, <<>>))
  BY <1>1, <1>2, <1>4, <1>7, KeptTended
<1>10. /\ \A o \in After(clean, {Reevaluated(c, i, it, s)}) : Tended(i, it, o)
       /\ \A o \in After(clean, {Reevaluated(c, i, counted, s)}) : Tended(i, it, o)
  BY <1>1, <1>4, NotedOn, ReevaluatedTended, AfterTended
<1>11. \A o \in After(clean, RebasePlans(i, failed, s)) : Tended(i, it, o)
  <2>1. \A o \in RebasePlans(i, failed, s) : Tended(i, it, o)
    BY <1>5, RebasePlansTended, TendedOf
  <2>. QED
    BY <1>1, <2>1, AfterTended
<1>12. \A o \in After(clean, {Outcome(failed, <<Action("notify-ci-failure", i)>>)}) : Tended(i, it, o)
  <2>1. Tended(i, it, Outcome(failed, <<Action("notify-ci-failure", i)>>))
    BY <1>5, OneHushed, ToldTended
  <2>. QED
    BY <1>1, <2>1, AfterTended
<1>13. \A o \in After(clean, RebasePlans(i, Moved(counted, "ci-pending"), s)) : Tended(i, it, o)
  <2>1. Keeps(it, Moved(counted, "ci-pending")) /\ Handles(Moved(counted, "ci-pending"))
    BY <1>4, MovedOn, KeptTwice DEF Onward, States
  <2>2. \A o \in RebasePlans(i, Moved(counted, "ci-pending"), s) : Tended(i, it, o)
    BY <2>1, RebasePlansTended, TendedOf
  <2>. QED
    BY <1>1, <2>2, AfterTended
<1>14. HandleReviewing(c, i, it, s) =
         IF s.verdict = "approve" THEN After(clean \o post, {Reevaluated(c, i, passed, s)})
         ELSE IF s.verdict = "request-changes" THEN {Outcome(sent, clean \o post)}
         ELSE IF Drained(c, it) THEN After(clean, {Reevaluated(c, i, it, s)})
         ELSE IF it.reviewWs /\ Dead(it, s) THEN After(clean, {Reevaluated(c, i, counted, s)})
         ELSE IF s.ci = "fail"
         THEN After(clean, IF s.mergeable = "no" THEN RebasePlans(i, failed, s)
                           ELSE {Outcome(failed, <<Action("notify-ci-failure", i)>>)})
         ELSE IF s.mergeable = "no"
         THEN After(clean, RebasePlans(i, Moved(counted, "ci-pending"), s))
         ELSE {Outcome(counted, <<>>)}
  BY DEF HandleReviewing, Only, CountsCi
<1>. QED
  BY <1>8, <1>9, <1>10, <1>11, <1>12, <1>13, <1>14

---------------------------------------------------------------------------
(* Rebaser, merge, and what follows a merge *)

\* handleRebasing and handleMerging.
LEMMA HandleMergingTended ==
  ASSUME NEW i \in Items, NEW it, Handles(it), NEW s, NEW c
  PROVE  /\ \A o \in HandleRebasing(i, it, s) : Tended(i, it, o)
         /\ \A o \in HandleMerging(c, i, it, s) : Tended(i, it, o)
<1>. PICK clean : clean = <<Action("clean-rebaser", i)>>
  OBVIOUS
<1>. PICK m : m = <<Action("merge", i)>>
  OBVIOUS
<1>. PICK count : count = IF it.rebaserWs THEN Counted(it, s) ELSE it
  OBVIOUS
<1>1. clean \in Hushed(i) /\ m \in Hushed(i) /\ <<>> \in Hushed(i)
  BY OneHushed DEF HushedTypes
<1>2. Keeps(it, count) /\ Handles(count)
  BY NotedOn
<1>3. Tended(i, it, Outcome(Cooled(Moved(it, "ci-pending"), s), clean))
  BY <1>1, CooledMoveTended DEF Onward, States
<1>4. Tended(i, it, Outcome(Moved(count, "stuck"), clean))
  BY <1>1, <1>2, MovedOn, KeptTwice, KeptTended DEF Onward, States
<1>5. /\ Tended(i, it, Outcome(count, <<>>)) /\ Tended(i, it, Outcome(it, <<>>))
      /\ Tended(i, it, Outcome(it, m))
  BY <1>1, <1>2, KeptTended, IdleTended
<1>6. /\ Tended(i, it, Handoff(i, it, s))
      /\ Tended(i, it, Outcome(Resolved(i, it, s).it, Resolved(i, it, s).acts))
  BY HandoffTended, ResolvedTended
<1>7. \A o \in HandleRebasing(i, it, s) : Tended(i, it, o)
  BY <1>3, <1>4, <1>5 DEF HandleRebasing, Only
<1>8. \A o \in HandleMerging(c, i, it, s) : Tended(i, it, o)
  BY <1>5, <1>6 DEF HandleMerging, Only
<1>. QED
  BY <1>7, <1>8

\* The failure of a merge commit on the default branch.
LEMMA MainFailedKept ==
  ASSUME NEW it, Handles(it), FixForward \/ it.state # "merged"
  PROVE  Keeps(it, MainFailed(it))
<1>. PICK n : n = IF it.fixFails < MaxFixForwardRetries THEN it.fixFails + 1 ELSE it.fixFails
  OBVIOUS
<1>. PICK x : x = [it EXCEPT !.fixFails = n]
  OBVIOUS
<1>1. Shape(x)
  BY Zenon DEF Shape, Handles, Rightful
<1>2. Spared(it, x)
  BY <1>1 DEF Handles, Rightful, Shape, Fields, Sayable, Spared
<1>3. MainFailed(it) = Moved(x, "fix-forward-failed")
  BY DEF MainFailed
<1>4. x.state = it.state
  BY <1>2 DEF Spared
<1>5. Keeps(x, Moved(x, "fix-forward-failed"))
  BY <1>1, <1>4, MovedKept DEF States
<1>. QED
  BY <1>2, <1>3, <1>5, SparedKept, KeptTwice

\* handleMerged, handleForwardFixPending and handleFixForwardFailed.
LEMMA HandleMergedTended ==
  ASSUME NEW i \in Items, NEW it, Handles(it), NEW s
  PROVE  /\ \A o \in HandleMerged(i, it, s) : Tended(i, it, o)
         /\ it.state # "merged" => \A o \in HandleForwardFixPending(i, it, s) : Tended(i, it, o)
         /\ \A o \in HandleFixForwardFailed(i, it, s) : Tended(i, it, o)
<1>. PICK acts : acts = IF it.ws # 0 THEN <<Action("workspace-close", i)>> ELSE <<>>
  OBVIOUS
<1>. PICK l : l = <<Action("launch-forward-fixer", i)>>
  OBVIOUS
<1>1. acts \in Hushed(i) /\ l \in Hushed(i) /\ <<>> \in Hushed(i)
  BY OneHushed DEF HushedTypes
<1>2. /\ Keeps(it, it) /\ Keeps(it, Moved(it, "done")) /\ Keeps(it, Moved(it, "stuck"))
      /\ Keeps(it, Moved(it, "fixing-forward"))
  BY NotedOn, MovedOn DEF Onward, States
<1>3. FixForward => Keeps(it, Moved(it, "forward-fix-pending")) /\ Keeps(it, MainFailed(it))
  BY MainFailedKept, MovedKept DEF States, Handles, Rightful
<1>4. it.state # "merged" => Keeps(it, MainFailed(it))
  BY MainFailedKept
<1>5. \A o \in HandleMerged(i, it, s) : Tended(i, it, o)
  <2>1. \A y : Keeps(it, y) => Tended(i, it, Outcome(y, acts))
    BY <1>1, KeptTended
  <2>2. HandleMerged(i, it, s) =
          {Outcome(IF ~FixForward \/ s.main = "pass" THEN Moved(it, "done")
                   ELSE IF s.main = "fail" THEN MainFailed(it)
                   ELSE IF it.mergeSha THEN Moved(it, "forward-fix-pending")
                   ELSE it, acts)}
    BY DEF HandleMerged, Only
  <2>3. Keeps(it, IF ~FixForward \/ s.main = "pass" THEN Moved(it, "done")
                  ELSE IF s.main = "fail" THEN MainFailed(it)
                  ELSE IF it.mergeSha THEN Moved(it, "forward-fix-pending")
                  ELSE it)
    BY <1>2, <1>3, Zenon
  <2>. QED
    BY <2>1, <2>2, <2>3
<1>6. it.state # "merged" => \A o \in HandleForwardFixPending(i, it, s) : Tended(i, it, o)
  <2>1. \A y : Keeps(it, y) => Tended(i, it, Outcome(y, <<>>))
    BY <1>1, KeptTended
  <2>. QED
    BY <1>2, <1>4, <2>1 DEF HandleForwardFixPending, Only, Late
<1>7. \A o \in HandleFixForwardFailed(i, it, s) : Tended(i, it, o)
  <2>1. \A y : Keeps(it, y) => Tended(i, it, Outcome(y, <<>>)) /\ Tended(i, it, Outcome(y, l))
    BY <1>1, KeptTended
  <2>. QED
    BY <1>2, <2>1 DEF HandleFixForwardFailed, Only
<1>. QED
  BY <1>5, <1>6, <1>7

\* handleFixingForward.
LEMMA HandleFixingForwardTended ==
  ASSUME NEW i \in Items, NEW it, Handles(it), it.state \in OnMain, NEW s, NEW c
  PROVE  \A o \in HandleFixingForward(c, i, it, s) : Tended(i, it, o)
<1>. PICK clean : clean = IF it.fixWs THEN <<Action("clean-forward-fixer", i)>> ELSE <<>>
  OBVIOUS
<1>. PICK a : a = Adopted(it, s)
  OBVIOUS
<1>. PICK x : x = Counted(it, s)
  OBVIOUS
<1>1. clean \in Hushed(i) /\ <<>> \in Hushed(i)
  BY OneHushed DEF HushedTypes
<1>2. Shape(a)
  BY ZenonT(60) DEF Shape, Handles, Rightful, Adopted
<1>3. Renumbered(it, a)
  BY <1>2 DEF Handles, Rightful, Shape, Fields, Sayable, Adopted, Renumbered
<1>4. Keeps(it, a) /\ Handles(a) /\ Keeps(it, x) /\ Handles(x) /\ Keeps(it, it)
  BY <1>3, SparedHandles, NotedOn
<1>5. /\ Keeps(it, Moved(a, "merged")) /\ Keeps(it, Moved(it, "done"))
      /\ Keeps(it, Moved(x, "stuck"))
  <2>1. Keeps(a, Moved(a, "merged"))
    BY <1>2, <1>3, MovedKept DEF States, Renumbered
  <2>. QED
    BY <1>4, <2>1, MovedOn, KeptTwice DEF Onward, States
<1>6. \A y : Keeps(it, y) => Tended(i, it, Outcome(y, clean)) /\ Tended(i, it, Outcome(y, <<>>))
  BY <1>1, KeptTended
<1>7. \A o \in HandleCiPending(c, i, Moved(a, "ci-pending"), s) : Tended(i, it, o)
  BY <1>4, CiPendingOf
<1>. QED
  BY <1>4, <1>5, <1>6, <1>7 DEF HandleFixingForward, Only

---------------------------------------------------------------------------
(* One item, one poll *)

\* The handler of each state.
LEMMA HandledTended ==
  ASSUME NEW i \in Items, NEW it, Rightful(it), NEW s, NEW c
  PROVE  \A o \in Handled(c, i, it, s) : Tended(i, it, o)
<1>1. CASE it.state \in {"ready", "queued"}
  <2>1. Handled(c, i, it, s) = {Outcome(it, <<>>)}
    BY <1>1 DEF Handled, Only
  <2>2. Tended(i, it, Outcome(it, <<>>))
    BY KeptSelf, KeptTended, OneHushed DEF Rightful
  <2>. QED
    BY <2>1, <2>2
<1>2. CASE it.state \notin {"ready", "queued"}
  <2>0. Handles(it)
    BY <1>2 DEF Handles
  <2>1. \A o \in HandleLaunching(i, it, s) : Tended(i, it, o)
    BY <2>0, HandleLaunchingTended
  <2>2. \A o \in HandleImplementing(c, i, it, s) : Tended(i, it, o)
    BY <2>0, HandleImplementingTended
  <2>3. \A o \in HandleCiPending(c, i, it, s) : Tended(i, it, o)
    BY <2>0, HandleCiPendingTended
  <2>4. \A o \in HandleCiPassed(c, i, it, s) : Tended(i, it, o)
    BY <2>0, HandleCiPassedTended
  <2>5. it.state = "ci-failed" => \A o \in HandleCiFailed(c, i, it, s) : Tended(i, it, o)
    BY <2>0, HandleCiFailedTended
  <2>6. \A o \in HandleReviewing(c, i, it, s) : Tended(i, it, o)
    BY <2>0, HandleReviewingTended
  <2>7. \A o \in HandleReviewPending(c, i, it, s) : Tended(i, it, o)
    BY <2>0, HandleReviewPendingTended
  <2>8. /\ \A o \in HandleRebasing(i, it, s) : Tended(i, it, o)
        /\ \A o \in HandleMerging(c, i, it, s) : Tended(i, it, o)
    BY <2>0, HandleMergingTended
  <2>9. /\ \A o \in HandleMerged(i, it, s) : Tended(i, it, o)
        /\ it.state # "merged" => \A o \in HandleForwardFixPending(i, it, s) : Tended(i, it, o)
        /\ \A o \in HandleFixForwardFailed(i, it, s) : Tended(i, it, o)
    BY <2>0, HandleMergedTended
  <2>10. it.state = "fixing-forward" => \A o \in HandleFixingForward(c, i, it, s) : Tended(i, it, o)
    BY <2>0, HandleFixingForwardTended DEF OnMain
  <2>11. \A o \in Only(it, <<>>) : Tended(i, it, o)
    BY <2>0, IdleTended DEF Only
  <2>. QED
    BY <2>1, <2>2, <2>3, <2>4, <2>5, <2>6, <2>7, <2>8, <2>9, <2>10, <2>11 DEF Handled
<1>. QED
  BY <1>1, <1>2

\* A merge seen from outside.
LEMMA InterceptedPassable ==
  ASSUME NEW i \in Items, NEW it, Handles(it), NEW s
  PROVE  Passable(i, it, Intercepted(i, it, s))
<1>. PICK p : p = IF it.pr = "none" THEN s.num ELSE it.pr
  OBVIOUS
<1>. PICK x : x = [it EXCEPT !.pr = p]
  OBVIOUS
<1>. PICK r : r = IF it.reviewWs THEN <<Action("clean-review", i)>> ELSE <<>>
  OBVIOUS
<1>. PICK f : f = IF it.fixWs THEN <<Action("clean-forward-fixer", i)>> ELSE <<>>
  OBVIOUS
<1>. PICK w : w = <<Action("clean", i)>>
  OBVIOUS
<1>1. Shape(x)
  BY Zenon DEF Shape, Handles, Rightful
<1>2. Renumbered(it, x)
  BY <1>1 DEF Handles, Rightful, Shape, Fields, Sayable, Renumbered
<1>3. Held(it, Moved(x, "merged"))
  <2>. PICK y : y = Moved(x, "merged")
    OBVIOUS
  <2>1. Held(x, y)
    BY <1>1, MovedHeld DEF States
  <2>. QED
    BY <1>2, <2>1, Zenon DEF Renumbered, Held, Sequel, Carries, ParkedRightly
<1>4. r \in Hushed(i) /\ f \in Hushed(i) /\ w \in Hushed(i)
  BY OneHushed DEF HushedTypes
<1>5. w \o r \o f \in Hushed(i)
  BY <1>4, HushedThen
<1>. PICK o : o = Outcome(Moved(x, "merged"), w \o r \o f)
  OBVIOUS
<1>6. Intercepted(i, it, s) = o
  BY DEF Intercepted
<1>7. o.it = Moved(x, "merged") /\ o.acts = w \o r \o f
  BY DEF Outcome
<1>. QED
  BY <1>3, <1>5, <1>6, <1>7, HushedIsUnlaunched, Zenon DEF Passable

\* A record that was relaunched, and then its batch.
LEMMA RenewedThen ==
  ASSUME NEW x, NEW y, NEW z, Renewed(x, y), Keeps(y, z) \/ Renewed(y, z)
  PROVE  Renewed(x, z)
<1>1. Sequel(x, z)
  BY Zenon DEF Keeps, Renewed, Sequel
<1>2. CASE z.illegal
  BY <1>1, <1>2 DEF Renewed
<1>3. CASE ~z.illegal
  <2>1. ~y.illegal
    BY <1>3, Zenon DEF Keeps, Renewed, Sequel
  <2>2. /\ y.ws = 0 /\ y.retryWs = x.ws /\ y.base = x.base
        /\ y.state = "ready" /\ ~y.parked
        /\ x.state \notin Resting /\ (x.state = "merged" => FixForward)
    BY <2>1, Zenon DEF Renewed
  <2>3. ~Renewed(y, z)
    BY <1>3, <2>2 DEF Renewed, Resting
  <2>4. Carries(y, z)
    BY <1>3, <2>3 DEF Keeps
  <2>5. /\ z.ws = 0 /\ z.retryWs = x.ws /\ z.base = x.base /\ z.state = "ready"
    BY <2>2, <2>4 DEF Carries, Resting
  <2>6. ~z.parked
    BY <2>2, <2>4, <2>5 DEF Carries, ParkedRightly
  <2>. QED
    BY <1>1, <2>2, <2>5, <2>6, Zenon DEF Renewed
<1>. QED
  BY <1>2, <1>3

\* The last look at a pending batch.
LEMMA TrailedTended ==
  ASSUME NEW i \in Items, NEW it, Rightful(it), NEW o, Tended(i, it, o), NEW s
  PROVE  Tended(i, it, Trailed(i, o, s))
<1>. PICK y : y = o.it
  OBVIOUS
<1>. PICK r : r = Resolved(i, y, s)
  OBVIOUS
<1>. PICK z : z = r.it
  OBVIOUS
<1>. PICK p : p = Outcome(z, o.acts \o r.acts)
  OBVIOUS
<1>1. /\ o.acts \in Unlaunched(i)
      /\ Keeps(it, y) \/ (Renewed(it, y) /\ Holds(o.acts, "retry"))
      /\ o.acts \in Hushed(i) \/ y.illegal \/ y.state = "ci-failed"
  BY Zenon DEF Tended
<1>2. Rightful(y)
  <2>1. Renewed(it, y) => Rightful(y)
    BY Zenon DEF Renewed, Sequel, Rightful, ParkedRightly
  <2>. QED
    BY <1>1, <2>1, KeptHandles
<1>3. Settles(i, y, r)
  BY <1>2, ResolvedSettles
<1>4. /\ r.acts \in Hushed(i) /\ r.acts \in Unlaunched(i)
      /\ Keeps(y, z) \/ (Renewed(y, z) /\ Holds(r.acts, "retry"))
  BY <1>3, HushedIsUnlaunched DEF Settles, Stays
<1>5. y.illegal => z.illegal
  BY <1>4, Zenon DEF Keeps, Renewed, Sequel
<1>6. y.state = "ci-failed" => z.illegal \/ z.state = "ci-failed"
  BY <1>3 DEF Settles, Stays
<1>7. o.acts \o r.acts \in Unlaunched(i) /\ (o.acts \in Hushed(i) => o.acts \o r.acts \in Hushed(i))
  BY <1>1, <1>4, HushedThen
<1>8. Holds(o.acts, "retry") \/ Holds(r.acts, "retry") => Holds(o.acts \o r.acts, "retry")
  BY <1>1, <1>4, HoldsThen
<1>9. Keeps(it, z) \/ (Renewed(it, z) /\ Holds(o.acts \o r.acts, "retry"))
  BY <1>1, <1>4, <1>8, KeptTwice, KeptThenRenewed, RenewedThen
<1>10. p.it = z /\ p.acts = o.acts \o r.acts
  BY DEF Outcome
<1>11. Tended(i, it, p)
  BY <1>1, <1>5, <1>6, <1>7, <1>9, <1>10, Zenon DEF Tended
<1>12. Trailed(i, o, s) = p \/ Trailed(i, o, s) = o
  BY DEF Trailed
<1>. QED
  BY <1>11, <1>12, Zenon

\* transitionItem: what becomes of the session, the base and the helpers of the item, and the
\* actions it asks for: no launch, a retry with every relaunch, and word of red CI only where
\* CI is red.  It takes for landed only an item whose pull request the poll found merged.
THEOREM TransitionedTended ==
  ASSUME NEW i \in Items, NEW it, Rightful(it), NEW s, s.new \in SUBSET Feedback, NEW c
  PROVE  \A o \in Transitioned(c, i, it, s) :
           Passable(i, it, o) /\ (Tended(i, it, o) \/ s.pr = "merged")
<1>1. MergedOutside(it, s) => s.pr = "merged" /\ Passable(i, it, Intercepted(i, it, s))
  <2>1. MergedOutside(it, s) => s.pr = "merged" /\ Handles(it)
    BY DEF MergedOutside, Handles
  <2>. QED
    BY <2>1, InterceptedPassable
<1>2. ASSUME NEW in \in Ingested(Tracked(it, s), s), NEW o \in Handled(c, i, in, s)
      PROVE  Tended(i, it, Trailed(i, o, s))
  <2>1. Spared(it, Tracked(it, s))
    BY NotedSpared DEF Rightful
  <2>2. Spared(Tracked(it, s), in)
    BY <1>2, <2>1, IngestedSpared DEF Spared
  <2>3. Keeps(it, in) /\ Rightful(in)
    BY <2>1, <2>2, SparedKept, KeptTwice, KeptHandles
  <2>4. Tended(i, in, o)
    BY <1>2, <2>3, HandledTended
  <2>5. Tended(i, in, Trailed(i, o, s))
    BY <2>3, <2>4, TrailedTended
  <2>. QED
    BY <2>3, <2>5, TendedOf
<1>. QED
  BY <1>1, <1>2, TendedPassable DEF Transitioned

---------------------------------------------------------------------------
(* An item whose pull request is not open yet *)

\* The states of an item whose pull request is open, or has landed.
Begun == {"ci-pending", "ci-passed", "ci-failed", "rebasing", "reviewing", "review-pending",
          "merging"} \cup OnMain

\* A record in none of them, that knows of no pull request.
Unopened(it) == Shape(it) /\ it.state \notin Begun /\ it.pr = "none"

\* Plans that rebase nothing.
Unrebased(i) == Seq({a \in Actions : a.item = i /\ a.type # "daemon-rebase"})

\* What a handler makes of such a record is such a record.
Unopening(i, o) == Unopened(o.it) /\ o.acts \in Unrebased(i)

\* Actions that rebase nothing, alone and one after the other.
LEMMA OneUnrebased ==
  ASSUME NEW i \in Items
  PROVE  /\ <<>> \in Unrebased(i)
         /\ <<Action("retry", i)>> \in Unrebased(i)
         /\ <<Action("workspace-close", i)>> \in Unrebased(i)
         /\ \A msg \in SUBSET Feedback : <<Send(i, msg)>> \in Unrebased(i)
         /\ \A x, y \in Unrebased(i) : x \o y \in Unrebased(i)
<1>1. <<>> \in Unrebased(i)
  BY DEF Unrebased
<1>2. ASSUME NEW t \in {"retry", "workspace-close"} PROVE <<Action(t, i)>> \in Unrebased(i)
  BY DEF Unrebased, Action, Actions, Feedback
<1>3. ASSUME NEW msg \in SUBSET Feedback PROVE <<Send(i, msg)>> \in Unrebased(i)
  <2>1. Send(i, msg) \in Actions
    BY DEF Send, Action, Actions
  <2>2. Send(i, msg).item = i /\ Send(i, msg).type = "send-message"
    BY DEF Send, Action
  <2>. QED
    BY <2>1, <2>2 DEF Unrebased
<1>4. \A x, y \in Unrebased(i) : x \o y \in Unrebased(i)
  BY DEF Unrebased
<1>. QED
  BY <1>1, <1>2, <1>3, <1>4

\* Other fields, a move to a state without a pull request, and a relaunch.
LEMMA StillUnopened ==
  ASSUME NEW it, Unopened(it)
  PROVE  /\ \A y : Spared(it, y) => Unopened(y)
         /\ \A to \in States \ Begun : Unopened(Moved(it, to))
         /\ Unopened(Relaunched(it))
<1>1. ASSUME NEW y, Spared(it, y) PROVE Unopened(y)
  BY <1>1 DEF Spared, Unopened
<1>2. ASSUME NEW x, Unopened(x), NEW to \in States \ Begun PROVE Unopened(Moved(x, to))
  <2>. PICK y : y = Moved(x, to)
    OBVIOUS
  <2>1. CASE x.state = to
    BY <1>2, <2>1 DEF Moved
  <2>2. CASE x.state # to /\ to \notin Successors(x.state)
    <3>1. y = [x EXCEPT !.illegal = TRUE]
      BY <2>2 DEF Moved
    <3>2. Shape(y)
      BY <1>2, <3>1, Zenon DEF Shape, Unopened
    <3>. QED
      BY <1>2, <3>1, <3>2 DEF Shape, Fields, Unopened
  <2>3. CASE x.state # to /\ to \in Successors(x.state)
    <3>1. Shape(y)
      BY <1>2, ZenonT(40) DEF Moved, Shape, Unopened
    <3>2. y.state = to /\ y.pr = x.pr
      BY <1>2, <2>3 DEF Moved, Shape, Fields, Unopened
    <3>. QED
      BY <1>2, <3>1, <3>2 DEF Unopened
  <2>. QED
    BY <2>1, <2>2, <2>3
<1>3. Unopened(Relaunched(it))
  <2>. PICK x : x = [it EXCEPT !.notAlive = 0, !.retryWs = it.ws, !.ws = 0]
    OBVIOUS
  <2>1. Shape(x)
    BY Zenon DEF Shape, Unopened
  <2>2. Unopened(x)
    BY <2>1 DEF Shape, Fields, Unopened
  <2>3. "ready" \in States \ Begun
    BY DEF States, Begun, OnMain
  <2>. QED
    BY <1>2, <2>2, <2>3 DEF Relaunched
<1>. QED
  BY <1>1, <1>2, <1>3

\* Relaunches for feedback and of a worker that is lost.
LEMMA RelaunchUnopened ==
  ASSUME NEW i \in Items, NEW it, Unopened(it), NEW s
  PROVE  /\ \A msg : Unopening(i, RespawnedForFeedback(i, it, msg))
         /\ Unopening(i, StuckOrRetry(i, it))
         /\ \A o \in Lost(i, it, s) : Unopening(i, o)
<1>. PICK x : x = [it EXCEPT !.retries = @ + 1, !.lastCommit = 0]
  OBVIOUS
<1>. PICK y : y = [it EXCEPT !.lastCommit = 0]
  OBVIOUS
<1>1. Shape(x) /\ Shape(y)
  BY Zenon DEF Shape, Unopened
<1>2. Unopened(x) /\ Unopened(y)
  BY <1>1 DEF Unopened, Shape, Fields
<1>3. \A z : Unopened(z) => Unopening(i, Outcome(Relaunched(z), <<Action("retry", i)>>))
  BY StillUnopened, OneUnrebased DEF Unopening, Outcome
<1>4. Unopening(i, Outcome(Moved(it, "stuck"), <<Action("workspace-close", i)>>))
  <2>1. "stuck" \in States \ Begun
    BY DEF States, Begun, OnMain
  <2>. QED
    BY <2>1, StillUnopened, OneUnrebased DEF Unopening, Outcome
<1>5. Unopening(i, StuckOrRetry(i, it))
  BY <1>2, <1>3, <1>4, Zenon DEF StuckOrRetry
<1>6. \A o \in Lost(i, it, s) : Unopening(i, o)
  BY <1>2, <1>3, <1>5, Zenon DEF Lost, Only
<1>7. ASSUME NEW msg PROVE Unopening(i, RespawnedForFeedback(i, it, msg))
  <2>. PICK z : z = [it EXCEPT !.reviewed = FALSE, !.needsFeedback = TRUE,
                               !.feedback = msg, !.armed = FALSE]
    OBVIOUS
  <2>1. Shape(z)
    BY Zenon DEF Shape, Unopened
  <2>2. Unopened(z)
    BY <2>1 DEF Unopened, Shape, Fields
  <2>. QED
    BY <1>3, <2>2, Zenon DEF RespawnedForFeedback
<1>. QED
  BY <1>5, <1>6, <1>7

\* A pending batch.
LEMMA ResolvedUnopened ==
  ASSUME NEW i \in Items, NEW it, Rightful(it), Unopened(it), NEW s
  PROVE  Unopened(Resolved(i, it, s).it) /\ Resolved(i, it, s).acts \in Unrebased(i)
<1>. PICK mode : mode = DeliveryMode(it, s)
  OBVIOUS
<1>. PICK stamped : stamped = StampedReviewed(mode[2], s)
  OBVIOUS
<1>. PICK taken : taken = TakenUp(stamped, it.batch)
  OBVIOUS
<1>. PICK open : open = IF taken.reviewed THEN Unreviewed(Reopened(taken)) ELSE taken
  OBVIOUS
<1>. PICK o : o = RespawnedForFeedback(i, taken, it.batch)
  OBVIOUS
<1>. PICK last : last = IF open.ws = 0 THEN open ELSE [Counted(open, s) EXCEPT !.armed = s.alive = "yes"]
  OBVIOUS
<1>0. it.batch \in SUBSET Feedback /\ Shape(it)
  BY DEF Rightful, Sayable
<1>1. Spared(it, mode[2])
  BY <1>0, NotedSpared DEF DeliveryMode
<1>2. Spared(it, stamped)
  BY <1>1, NotedSpared, SparedTwice DEF Spared
<1>3. Spared(it, taken) /\ Shape(taken)
  BY <1>0, <1>2, FeedbackSpared, SparedTwice DEF Spared
<1>4. Unopened(mode[2]) /\ Unopened(taken)
  BY <1>1, <1>3, StillUnopened
<1>5. Unopened(open)
  <2>1. Reopened(taken) = taken
    BY <1>4 DEF Reopened, Unopened, Begun
  <2>2. Spared(taken, Unreviewed(taken))
    BY <1>3, FeedbackSpared
  <2>. QED
    BY <1>4, <2>1, <2>2, StillUnopened
<1>6. Unopened(last)
  <2>. PICK counted : counted = Counted(open, s)
    OBVIOUS
  <2>1. Spared(open, counted) /\ Shape(counted)
    BY <1>5, NotedSpared DEF Spared, Unopened
  <2>2. \A a : Spared(counted, [counted EXCEPT !.armed = a])
    BY <2>1, FeedbackSpared
  <2>3. \A a : Unopened([counted EXCEPT !.armed = a])
    BY <1>5, <2>1, <2>2, StillUnopened
  <2>4. last = open \/ \E a : last = [counted EXCEPT !.armed = a]
    OBVIOUS
  <2>. QED
    BY <1>5, <2>3, <2>4, Zenon
<1>7. Unopened(o.it) /\ o.acts \in Unrebased(i)
  BY <1>4, RelaunchUnopened DEF Unopening
<1>8. <<Send(i, it.batch)>> \in Unrebased(i) /\ <<>> \in Unrebased(i)
  BY <1>0, OneUnrebased
<1>9. Resolved(i, it, s) =
        IF it.batch = {} THEN [held |-> FALSE, it |-> it, acts |-> <<>>]
        ELSE IF ~it.due THEN [held |-> TRUE, it |-> it, acts |-> <<>>]
        ELSE IF mode[1] = "wait" THEN [held |-> TRUE, it |-> mode[2], acts |-> <<>>]
        ELSE IF mode[1] = "relaunch" THEN [held |-> TRUE, it |-> o.it, acts |-> o.acts]
        ELSE [held |-> TRUE, it |-> last, acts |-> <<Send(i, it.batch)>>]
  BY DEF Resolved, TakenUp, Unreviewed
<1>. QED
  BY <1>4, <1>6, <1>7, <1>8, <1>9

\* The handlers of an item that is launched or at work.
LEMMA HandledUnopened ==
  ASSUME NEW i \in Items, NEW it, Unopened(it), NEW s, s.num = "none", NEW c
  PROVE  \A o \in Handled(c, i, it, s) : Unopening(i, o)
<1>. PICK x : x = Counted(it, s)
  OBVIOUS
<1>1. Unopened(x)
  BY NotedSpared, StillUnopened DEF Unopened
<1>2. Unopening(i, Outcome(it, <<>>)) /\ Unopening(i, Outcome(x, <<>>))
  BY <1>1, OneUnrebased DEF Unopening, Outcome
<1>3. \A o \in HandleLaunching(i, it, s) : Unopening(i, o)
  <2>1. "implementing" \in States \ Begun
    BY DEF States, Begun, OnMain
  <2>2. Unopening(i, Outcome(Moved(x, "implementing"), <<>>))
    BY <1>1, <2>1, StillUnopened, OneUnrebased DEF Unopening, Outcome
  <2>3. Unopening(i, StuckOrRetry(i, x))
    BY <1>1, RelaunchUnopened
  <2>. QED
    BY <1>2, <2>2, <2>3, Zenon DEF HandleLaunching, Only
<1>4. \A o \in HandleImplementing(c, i, it, s) : Unopening(i, o)
  <2>1. \A o \in Lost(i, x, s) : Unopening(i, o)
    BY <1>1, RelaunchUnopened
  <2>2. Unopening(i, RespawnedForFeedback(i, x, it.feedback))
    BY <1>1, RelaunchUnopened
  <2>3. HandleImplementing(c, i, it, s) = HandleWorking(i, it, s)
    BY DEF HandleImplementing
  <2>4. \A o \in HandleWorking(i, it, s) :
          \/ o \in Lost(i, x, s) \/ o = Outcome(x, <<>>)
          \/ o = RespawnedForFeedback(i, x, it.feedback)
    BY Zenon DEF HandleWorking, Late, Only
  <2>. QED
    BY <1>2, <2>1, <2>2, <2>3, <2>4, Zenon
<1>5. it.state \notin {"launching", "implementing"} => Handled(c, i, it, s) = Only(it, <<>>)
  BY DEF Handled, Unopened, Begun, OnMain
<1>6. it.state = "launching" => Handled(c, i, it, s) = HandleLaunching(i, it, s)
  BY DEF Handled
<1>7. it.state = "implementing" => Handled(c, i, it, s) = HandleImplementing(c, i, it, s)
  BY DEF Handled
<1>. QED
  BY <1>2, <1>3, <1>4, <1>5, <1>6, <1>7 DEF Only

\* transitionItem: as long as the poll finds no pull request, the item stays in the states
\* before one, and no rebase is asked for.
LEMMA TransitionedUnopened ==
  ASSUME NEW i \in Items, NEW it, Rightful(it), Unopened(it),
         NEW s, s.num = "none", s.pr # "merged", s.new \in SUBSET Feedback, NEW c
  PROVE  \A o \in Transitioned(c, i, it, s) : Unopening(i, o)
<1>1. ASSUME NEW in \in Ingested(Tracked(it, s), s), NEW o \in Handled(c, i, in, s)
      PROVE  Unopening(i, Trailed(i, o, s))
  <2>1. Spared(it, Tracked(it, s))
    BY NotedSpared DEF Rightful
  <2>2. Spared(Tracked(it, s), in)
    BY <1>1, <2>1, IngestedSpared DEF Spared
  <2>3. Rightful(in) /\ Unopened(in)
    BY <2>1, <2>2, SparedKept, KeptTwice, KeptHandles, SparedTwice, StillUnopened
  <2>4. Unopening(i, o) /\ Tended(i, in, o)
    BY <1>1, <2>3, HandledUnopened, HandledTended
  <2>. PICK y : y = o.it
    OBVIOUS
  <2>. PICK r : r = Resolved(i, y, s)
    OBVIOUS
  <2>5. Rightful(y)
    <3>1. Renewed(in, y) => Rightful(y)
      BY <2>3, Zenon DEF Renewed, Sequel, Rightful, ParkedRightly
    <3>. QED
      BY <2>3, <2>4, <3>1, KeptHandles DEF Tended
  <2>6. Unopened(r.it) /\ r.acts \in Unrebased(i)
    BY <2>4, <2>5, ResolvedUnopened DEF Unopening
  <2>. QED
    BY <2>4, <2>6, OneUnrebased DEF Trailed, Unopening, Outcome
<1>. QED
  BY <1>1 DEF Transitioned, MergedOutside

---------------------------------------------------------------------------
(* What an action does to the sessions of its item *)

\* Sessions and helpers aside, what an action may make of a record: nobody goes back to ready
\* or queued, what is stuck stays so, and a base is only ever given up.
Proceeds(x, y) ==
  /\ Shape(y)
  /\ x.illegal => y.illegal
  /\ \/ y.illegal
     \/ /\ y.base \in {x.base, NoItem}
        /\ x.state = "stuck" \/ y.state \in {"ready", "queued"} => y.state = x.state
        /\ ParkedRightly(x) => ParkedRightly(y)

\* The item goes back to ready.
GoesBack(x, y) ==
  /\ Shape(y)
  /\ \/ y.illegal
     \/ y.base \in {x.base, NoItem} /\ x.state # "stuck" /\ y.state = "ready" /\ ~y.parked

SameSession(x, y) == y.ws = x.ws /\ y.retryWs = x.retryWs
SameHelpers(x, y) == y.reviewWs = x.reviewWs /\ y.rebaserWs = x.rebaserWs /\ y.fixWs = x.fixWs

\* A change of other fields.
LEMMA SparedProceeds ==
  ASSUME NEW x, NEW y, Spared(x, y) \/ Renumbered(x, y)
  PROVE  Proceeds(x, y) /\ SameSession(x, y) /\ SameHelpers(x, y)
<1>1. Renumbered(x, y)
  BY Zenon DEF Spared, Renumbered
<1>. QED
  BY <1>1, Zenon DEF Renumbered, Proceeds, SameSession, SameHelpers, ParkedRightly

\* One change after the other.
LEMMA ProceedsTwice ==
  ASSUME NEW x, NEW y, NEW z, Proceeds(x, y), Proceeds(y, z)
  PROVE  Proceeds(x, z)
<1>1. CASE z.illegal
  BY <1>1 DEF Proceeds
<1>2. CASE ~z.illegal
  <2>1. ~y.illegal /\ ~x.illegal
    BY <1>2 DEF Proceeds
  <2>2. z.base \in {x.base, NoItem}
    BY <1>2, <2>1 DEF Proceeds
  <2>3. x.state = "stuck" \/ z.state \in {"ready", "queued"} => z.state = x.state
    BY <1>2, <2>1 DEF Proceeds
  <2>4. ParkedRightly(x) => ParkedRightly(z)
    BY <1>2, <2>1, Zenon DEF Proceeds
  <2>. QED
    BY <2>1, <2>2, <2>3, <2>4 DEF Proceeds
<1>. QED
  BY <1>1, <1>2

\* A change of other fields before or after an item goes back.
LEMMA GoesBackSpared ==
  ASSUME NEW x, NEW y, NEW z, GoesBack(x, y), Spared(y, z)
  PROVE  GoesBack(x, z) /\ SameSession(y, z) /\ SameHelpers(y, z)
  BY DEF GoesBack, Spared, SameSession, SameHelpers

\* Moves.
LEMMA MovedProceeds ==
  ASSUME NEW it, Shape(it),
         NEW to \in {"ci-pending", "ci-passed", "stuck", "blocked", "merged", "rebasing"}
  PROVE  /\ Proceeds(it, Moved(it, to)) /\ SameHelpers(it, Moved(it, to))
         /\ SameSession(it, Moved(it, to))
<1>. PICK y : y = Moved(it, to)
  OBVIOUS
<1>1. Held(it, y)
  BY MovedHeld DEF States
<1>2. /\ SameSession(it, y)
      /\ SameHelpers(it, y)
  BY DEF Moved, Shape, Fields, SameSession, SameHelpers
<1>3. Proceeds(it, y)
  <2>1. Shape(y) /\ (it.illegal => y.illegal)
    BY <1>1, Zenon DEF Held, Sequel
  <2>2. CASE y.illegal
    BY <2>1, <2>2 DEF Proceeds
  <2>3. CASE ~y.illegal
    <3>1. Carries(it, y)
      BY <1>1, <2>3, Zenon DEF Held
    <3>. QED
      BY <2>1, <3>1 DEF Proceeds, Carries, Resting
  <2>. QED
    BY <2>2, <2>3
<1>. QED
  BY <1>2, <1>3

\* A move back to ready.
LEMMA MovedGoesBack ==
  ASSUME NEW x, NEW it, Shape(it), Proceeds(x, it), it.state \notin {"ready"}
  PROVE  /\ GoesBack(x, Moved(it, "ready")) /\ SameHelpers(it, Moved(it, "ready"))
         /\ SameSession(it, Moved(it, "ready"))
<1>. PICK y : y = Moved(it, "ready")
  OBVIOUS
<1>1. /\ SameSession(it, y) /\ SameHelpers(it, y) /\ y.base = it.base
      /\ it.illegal => y.illegal
  BY DEF Moved, Shape, Fields, SameSession, SameHelpers
<1>2. Shape(y)
  BY Zenon DEF Moved, Shape
<1>3. y.illegal \/ (y.state = "ready" /\ ~y.parked /\ it.state # "stuck")
  <2>1. "ready" \notin Successors("stuck")
    BY DEF Successors
  <2>. QED
    BY <2>1 DEF Moved, Shape, Fields
<1>4. y.illegal \/ (y.base \in {x.base, NoItem} /\ x.state # "stuck")
  BY <1>1, <1>3 DEF Proceeds
<1>. QED
  BY <1>1, <1>2, <1>3, <1>4 DEF GoesBack

\* The fields an action sets.
LEMMA FieldsProceed ==
  ASSUME NEW it, Shape(it)
  PROVE  /\ \A w : /\ Proceeds(it, WithWs(it, w)) /\ SameHelpers(it, WithWs(it, w))
                   /\ WithWs(it, w).ws = w /\ WithWs(it, w).retryWs = it.retryWs
         /\ /\ Proceeds(it, Dropped(it)) /\ SameHelpers(it, Dropped(it))
            /\ Dropped(it).ws = 0 /\ Dropped(it).retryWs = 0
         /\ \A p : Renumbered(it, WithPr(it, p))
         /\ \A b \in {it.base, NoItem} :
               Proceeds(it, WithBase(it, b)) /\ SameHelpers(it, WithBase(it, b)) /\ SameSession(it, WithBase(it, b))
         /\ \A b \in {it.base, NoItem} :
               Proceeds(it, Released(it, b)) /\ SameHelpers(it, Released(it, b)) /\ SameSession(it, Released(it, b))
         /\ Spared(it, HandedOver(it))
         /\ \A w, m : /\ Proceeds(it, Unheld(it, w, m)) /\ SameHelpers(it, Unheld(it, w, m))
                      /\ Unheld(it, w, m).ws = w /\ Unheld(it, w, m).retryWs = it.retryWs
<1>1. ASSUME NEW w
      PROVE  /\ Proceeds(it, WithWs(it, w)) /\ SameHelpers(it, WithWs(it, w))
             /\ WithWs(it, w).ws = w /\ WithWs(it, w).retryWs = it.retryWs
  <2>1. Shape(WithWs(it, w))
    BY Zenon DEF Shape, WithWs
  <2>. QED
    BY <2>1 DEF Shape, Fields, WithWs, Proceeds, ParkedRightly, SameHelpers
<1>2. /\ Proceeds(it, Dropped(it)) /\ SameHelpers(it, Dropped(it))
      /\ Dropped(it).ws = 0 /\ Dropped(it).retryWs = 0
  <2>1. Shape(Dropped(it))
    BY Zenon DEF Shape, Dropped
  <2>. QED
    BY <2>1 DEF Shape, Fields, Dropped, Proceeds, ParkedRightly, SameHelpers
<1>3. ASSUME NEW p PROVE Renumbered(it, WithPr(it, p))
  <2>1. Shape(WithPr(it, p))
    BY Zenon DEF Shape, WithPr
  <2>. QED
    BY <2>1 DEF Shape, Fields, WithPr, Renumbered, Sayable
<1>4. ASSUME NEW b \in {it.base, NoItem}
      PROVE  Proceeds(it, WithBase(it, b)) /\ SameHelpers(it, WithBase(it, b)) /\ SameSession(it, WithBase(it, b))
  <2>1. Shape(WithBase(it, b))
    BY Zenon DEF Shape, WithBase
  <2>. QED
    BY <2>1 DEF Shape, Fields, WithBase, Proceeds, ParkedRightly, SameHelpers, SameSession
<1>5. ASSUME NEW b \in {it.base, NoItem}
      PROVE  Proceeds(it, Released(it, b)) /\ SameHelpers(it, Released(it, b)) /\ SameSession(it, Released(it, b))
  <2>1. Shape(Released(it, b))
    BY Zenon DEF Shape, Released
  <2>. QED
    BY <2>1 DEF Shape, Fields, Released, Proceeds, ParkedRightly, SameHelpers, SameSession
<1>6. Spared(it, HandedOver(it))
  <2>1. Shape(HandedOver(it))
    BY Zenon DEF Shape, HandedOver
  <2>. QED
    BY <2>1 DEF Shape, Fields, HandedOver, Spared, Sayable
<1>7. ASSUME NEW w, NEW m
      PROVE  /\ Proceeds(it, Unheld(it, w, m)) /\ SameHelpers(it, Unheld(it, w, m))
             /\ Unheld(it, w, m).ws = w /\ Unheld(it, w, m).retryWs = it.retryWs
  <2>1. Shape(Unheld(it, w, m))
    BY Zenon DEF Shape, Unheld
  <2>. QED
    BY <2>1 DEF Shape, Fields, Unheld, Proceeds, ParkedRightly, SameHelpers
<1>. QED
  BY <1>1, <1>2, <1>3, <1>4, <1>5, <1>6, <1>7

\* The flags of the helpers.
LEMMA FlagsProceed ==
  ASSUME NEW it, Shape(it), NEW b
  PROVE  /\ /\ Proceeds(it, WithReviewer(it, b)) /\ SameSession(it, WithReviewer(it, b))
            /\ WithReviewer(it, b).reviewWs = b /\ WithReviewer(it, b).rebaserWs = it.rebaserWs
            /\ WithReviewer(it, b).fixWs = it.fixWs
         /\ /\ Proceeds(it, WithRebaser(it, b)) /\ SameSession(it, WithRebaser(it, b))
            /\ WithRebaser(it, b).rebaserWs = b /\ WithRebaser(it, b).reviewWs = it.reviewWs
            /\ WithRebaser(it, b).fixWs = it.fixWs
         /\ /\ Proceeds(it, WithFixer(it, b)) /\ SameSession(it, WithFixer(it, b))
            /\ WithFixer(it, b).fixWs = b /\ WithFixer(it, b).reviewWs = it.reviewWs
            /\ WithFixer(it, b).rebaserWs = it.rebaserWs
<1>1. Shape(WithReviewer(it, b)) /\ Shape(WithRebaser(it, b)) /\ Shape(WithFixer(it, b))
  BY Zenon DEF Shape, WithReviewer, WithRebaser, WithFixer
<1>2. /\ Proceeds(it, WithReviewer(it, b)) /\ SameSession(it, WithReviewer(it, b))
      /\ WithReviewer(it, b).reviewWs = b /\ WithReviewer(it, b).rebaserWs = it.rebaserWs
      /\ WithReviewer(it, b).fixWs = it.fixWs
  BY <1>1 DEF Shape, Fields, WithReviewer, Proceeds, ParkedRightly, SameSession
<1>3. /\ Proceeds(it, WithRebaser(it, b)) /\ SameSession(it, WithRebaser(it, b))
      /\ WithRebaser(it, b).rebaserWs = b /\ WithRebaser(it, b).reviewWs = it.reviewWs
      /\ WithRebaser(it, b).fixWs = it.fixWs
  BY <1>1 DEF Shape, Fields, WithRebaser, Proceeds, ParkedRightly, SameSession
<1>4. /\ Proceeds(it, WithFixer(it, b)) /\ SameSession(it, WithFixer(it, b))
      /\ WithFixer(it, b).fixWs = b /\ WithFixer(it, b).reviewWs = it.reviewWs
      /\ WithFixer(it, b).rebaserWs = it.rebaserWs
  BY <1>1 DEF Shape, Fields, WithFixer, Proceeds, ParkedRightly, SameSession
<1>. QED
  BY <1>2, <1>3, <1>4

---------------------------------------------------------------------------
(* What an action does to the items *)

\* What is committed differs from what was prepared in its stamp only.
LEMMA CommitSpares ==
  ASSUME NEW records, Commit(records), NEW j \in Items, Shape(records[j])
  PROVE  Spared(records[j], item'[j])
<1>. PICK it : it = records[j]
  OBVIOUS
<1>. PICK p : p = IF it.touched /\ ~it.checked THEN posted[j] ELSE it.since
  OBVIOUS
<1>. PICK x : x = [it EXCEPT !.since = p, !.touched = FALSE]
  OBVIOUS
<1>1. item'[j] = x
  BY DEF Commit, Stamped
<1>2. Shape(x)
  BY Zenon DEF Shape
<1>3. Spared(it, x)
  BY <1>2 DEF Shape, Fields, Sayable, Spared
<1>. QED
  BY <1>1, <1>3

\* The same of an update of one record; the others are spared.
LEMMA UpdateSpares ==
  ASSUME NEW on \in BOOLEAN, ItemsFit(on), NEW i \in Items, NEW z, Shape(z), Update(i, z)
  PROVE  /\ Spared(z, item'[i])
         /\ \A j \in Items \ {i} : Spared(item[j], item'[j])
<1>. PICK records : records = [item EXCEPT ![i] = z]
  OBVIOUS
<1>1. Commit(records)
  BY DEF Update
<1>2. \A j \in Items : records[j] = (IF j = i THEN z ELSE item[j]) /\ Shape(item[j])
  BY DEF ItemsFit, Fit
<1>. QED
  BY <1>1, <1>2, CommitSpares

\* The session an item refers to: the one its retry is to close, or its own.
Ref(i) == IF item[i].retryWs # 0 THEN item[i].retryWs ELSE item[i].ws

SessionKept(i)   == live'[i] \subseteq live[i] /\ tree'[i] = tree[i] /\ SameSession(item[i], item'[i])
SessionLetGo(i)  == /\ live'[i] \subseteq live[i] \ {item[i].ws}
                    /\ item'[i].ws = 0 /\ item'[i].retryWs = item[i].retryWs
SessionRetired(i) == /\ live'[i] \subseteq live[i] \ {Ref(i)} /\ tree'[i] = tree[i]
                     /\ item'[i].ws = 0 /\ item'[i].retryWs = 0
SessionHired(i)  == /\ item'[i].ws \in Sessions /\ live'[i] = live[i] \cup {item'[i].ws}
                    /\ item'[i].retryWs = item[i].retryWs /\ tree'[i]

\* An action for another item leaves an item its sessions and its state; it may give up the
\* base it was stacked on.
Bystands(j) ==
  /\ SessionKept(j) /\ Proceeds(item[j], item'[j])
  /\ item'[j].state = item[j].state

\* What an action does: for its own item, and for the others.
Attended(a) ==
  LET i == a.item
  IN  /\ \A j \in Items \ {i} : Bystands(j)
      /\ \/ /\ Proceeds(item[i], item'[i])
            /\ \/ a.type # "retry" /\ (SessionKept(i) \/ SessionLetGo(i))
               \/ a.type = "retry" /\ SessionRetired(i)
               \/ a.type = "launch" /\ SessionHired(i)
         \/ a.type = "launch" /\ GoesBack(item[i], item'[i]) /\ SessionKept(i)
         \/ /\ a.type = "notify-ci-failure" /\ ~tree[i] /\ ~tree'[i] /\ live'[i] = live[i]
            /\ Proceeds(item[i], item'[i]) \/ GoesBack(item[i], item'[i])
            /\ item'[i].ws = 0 /\ item'[i].retryWs = item[i].retryWs

\* Every helper that runs is one the item still refers to.
HelpersInReach == \A i \in Items : helper[i] \subseteq HelpersHeld(i) \ {"ousted"}

\* An item whose references to helpers stay.
HelpersStay(j) == SameHelpers(item[j], item'[j]) /\ helper'[j] \subseteq helper[j]

\* Helpers are in reach as long as the references stay.
LEMMA StayInReach ==
  ASSUME HelpersInReach, \A j \in Items : HelpersStay(j)
  PROVE  HelpersInReach'
  BY DEF HelpersInReach, HelpersStay, SameHelpers, HelpersHeld

\* An action that leaves the other items' records and sessions as they are.
Apart(i) ==
  \A j \in Items \ {i} : /\ live'[j] = live[j] /\ tree'[j] = tree[j] /\ helper'[j] \subseteq helper[j]
                         /\ Spared(item[j], item'[j])

\* Those bystand, and keep their helpers.
LEMMA ApartBystands ==
  ASSUME NEW i, Apart(i), NEW j \in Items \ {i}
  PROVE  Bystands(j) /\ HelpersStay(j)
<1>1. Spared(item[j], item'[j]) /\ live'[j] = live[j] /\ tree'[j] = tree[j] /\ helper'[j] \subseteq helper[j]
  BY DEF Apart
<1>2. Proceeds(item[j], item'[j]) /\ SameSession(item[j], item'[j]) /\ SameHelpers(item[j], item'[j])
  BY <1>1, SparedProceeds
<1>3. item'[j].state = item[j].state
  BY <1>1 DEF Spared
<1>. QED
  BY <1>1, <1>2, <1>3 DEF Bystands, SessionKept, HelpersStay

\* The record of an item at hand.
LEMMA ItemShaped ==
  ASSUME NEW on \in BOOLEAN, ItemsFit(on), NEW i \in Items
  PROVE  Shape(item[i]) /\ Typed(item[i])
  BY DEF ItemsFit, Fit

\* An update of the item at hand, prepared in z.
LEMMA UpdateProceeds ==
  ASSUME NEW on \in BOOLEAN, ItemsFit(on), NEW i \in Items, NEW z, Update(i, z),
         Proceeds(item[i], z)
  PROVE  /\ Proceeds(item[i], item'[i]) /\ SameSession(z, item'[i]) /\ SameHelpers(z, item'[i])
         /\ \A j \in Items \ {i} : Spared(item[j], item'[j])
<1>1. Shape(z)
  BY DEF Proceeds
<1>2. Spared(z, item'[i]) /\ \A j \in Items \ {i} : Spared(item[j], item'[j])
  BY <1>1, UpdateSpares
<1>. QED
  BY <1>2, SparedProceeds, ProceedsTwice

---------------------------------------------------------------------------
(* Closing *)

\* Where no session that is there refuses to close, whatever is closed is gone.
LEMMA CloseCloses ==
  ASSUME "close-failure" \notin Events, WorldOK, NEW i \in Items, NEW ref, NEW closed \in BOOLEAN,
         Close(i, ref, closed)
  PROVE  /\ live' = [live EXCEPT ![i] = @ \ {ref}]
         /\ \A j \in Items : helper'[j] \subseteq helper[j]
<1>0. live \in [Items -> SUBSET Sessions] /\ helper \in [Items -> SUBSET Helpers]
  BY WorldTyped
<1>1. CASE CloseRefused(i, ref)
  <2>1. ref \notin live[i] /\ UNCHANGED <<live, helper>>
    BY <1>1 DEF CloseRefused, Fault, Listed
  <2>. QED
    BY <1>0, <2>1
<1>2. CASE CloseDone(i, ref)
  BY <1>0, <1>2 DEF CloseDone
<1>. QED
  BY <1>1, <1>2 DEF Close

\* The same of the item's own session, if it holds one.
LEMMA CloseOwnCloses ==
  ASSUME "close-failure" \notin Events, WorldOK, NEW i \in Items, NEW closed \in BOOLEAN,
         CloseOwn(i, closed)
  PROVE  /\ live' = [live EXCEPT ![i] = @ \ {item[i].ws}]
         /\ \A j \in Items : helper'[j] \subseteq helper[j]
<1>0. live \in [Items -> SUBSET Sessions] /\ helper \in [Items -> SUBSET Helpers]
  BY WorldTyped
<1>1. CASE item[i].ws = 0
  <2>1. UNCHANGED <<live, helper>>
    BY <1>1 DEF CloseOwn
  <2>2. 0 \notin Sessions
    BY DEF Sessions
  <2>. QED
    BY <1>0, <1>1, <2>1, <2>2
<1>2. CASE item[i].ws # 0
  BY <1>2, CloseCloses DEF CloseOwn
<1>. QED
  BY <1>1, <1>2

---------------------------------------------------------------------------
(* One action *)

InReachStays == HelpersInReach => HelpersInReach'

\* The sessions of the others, and helpers that at most go.
OthersKept(i) ==
  /\ \A j \in Items \ {i} : live'[j] = live[j] /\ tree'[j] = tree[j]
  /\ \A j \in Items : helper'[j] \subseteq helper[j]

\* An action that updates its item, and leaves the references to helpers.
LEMMA UpdateAttends ==
  ASSUME NEW on \in BOOLEAN, ItemsFit(on), NEW i \in Items, NEW z, Update(i, z),
         Proceeds(item[i], z), SameHelpers(item[i], z), OthersKept(i)
  PROVE  /\ \A j \in Items \ {i} : Bystands(j)
         /\ Proceeds(item[i], item'[i]) /\ SameSession(z, item'[i])
         /\ InReachStays
<1>1. /\ Proceeds(item[i], item'[i]) /\ SameSession(z, item'[i]) /\ SameHelpers(z, item'[i])
      /\ \A j \in Items \ {i} : Spared(item[j], item'[j])
  BY UpdateProceeds
<1>2. Apart(i)
  BY <1>1 DEF Apart, OthersKept
<1>3. HelpersStay(i)
  BY <1>1 DEF HelpersStay, SameHelpers, OthersKept
<1>4. InReachStays
  BY <1>2, <1>3, ApartBystands, StayInReach DEF InReachStays
<1>. QED
  BY <1>1, <1>2, <1>4, ApartBystands

\* The same of an action that leaves the records alone.
LEMMA UnchangedAttends ==
  ASSUME NEW on \in BOOLEAN, ItemsFit(on), NEW a \in Actions, UNCHANGED <<item, live, tree, helper>>,
         a.type # "retry"
  PROVE  Attended(a) /\ InReachStays
<1>1. ASSUME NEW j \in Items
      PROVE  SessionKept(j) /\ Spared(item[j], item'[j]) /\ Proceeds(item[j], item'[j]) /\ HelpersStay(j)
             /\ item'[j].state = item[j].state
  <2>1. Spared(item[j], item[j])
    BY ItemShaped, NotedSpared
  <2>. QED
    BY <2>1, SparedProceeds DEF SessionKept, SameSession, HelpersStay, SameHelpers
<1>2. InReachStays
  BY <1>1, StayInReach DEF InReachStays
<1>3. a.item \in Items
  BY ActionTyped
<1>. QED
  BY <1>1, <1>2, <1>3 DEF Attended, Bystands

\* executeRetry.
LEMMA RetryAttends ==
  ASSUME "close-failure" \notin Events, NEW on \in BOOLEAN, ItemsFit(on), WorldOK,
         NEW a \in Actions, ExecuteRetry(a)
  PROVE  Attended(a) /\ InReachStays
<1>. PICK i : i = a.item
  OBVIOUS
<1>0. i \in Items /\ Shape(item[i]) /\ a.type = "retry"
  BY ActionTyped, ItemShaped DEF ExecuteRetry
<1>1. CASE Ref(i) = 0
  <2>1. UNCHANGED <<item, live, helper, tree>> /\ item[i].ws = 0 /\ item[i].retryWs = 0
    BY <1>1 DEF ExecuteRetry, Ref
  <2>2. ASSUME NEW j \in Items
        PROVE  SessionKept(j) /\ Spared(item[j], item'[j]) /\ Proceeds(item[j], item'[j]) /\ HelpersStay(j)
               /\ item'[j].state = item[j].state
    <3>1. Spared(item[j], item[j])
      BY ItemShaped, NotedSpared
    <3>. QED
      BY <2>1, <3>1, SparedProceeds DEF SessionKept, SameSession, HelpersStay, SameHelpers
  <2>3. InReachStays
    BY <2>2, StayInReach DEF InReachStays
  <2>4. SessionRetired(i)
    <3>1. live[i] \subseteq Sessions /\ 0 \notin Sessions
      BY <1>0, WorldTyped DEF Sessions
    <3>. QED
      BY <1>1, <2>1, <3>1 DEF SessionRetired
  <2>. QED
    BY <1>0, <2>2, <2>3, <2>4 DEF Attended, Bystands
<1>2. CASE Ref(i) # 0
  <2>1. PICK closed \in BOOLEAN : Close(i, Ref(i), closed)
    BY <1>2 DEF ExecuteRetry, Ref
  <2>2. Update(i, Dropped(item[i])) /\ UNCHANGED tree
    BY <1>2 DEF ExecuteRetry, Dropped, Ref
  <2>3. /\ live' = [live EXCEPT ![i] = @ \ {Ref(i)}]
        /\ \A j \in Items : helper'[j] \subseteq helper[j]
    BY <1>0, <2>1, CloseCloses
  <2>4. OthersKept(i) /\ live'[i] = live[i] \ {Ref(i)} /\ tree'[i] = tree[i]
    BY <1>0, <2>2, <2>3, WorldTyped DEF OthersKept
  <2>. PICK z : z = Dropped(item[i])
    OBVIOUS
  <2>5. Proceeds(item[i], z) /\ SameHelpers(item[i], z) /\ z.ws = 0 /\ z.retryWs = 0
    BY <1>0, FieldsProceed
  <2>6. /\ \A j \in Items \ {i} : Bystands(j)
        /\ Proceeds(item[i], item'[i]) /\ SameSession(z, item'[i])
        /\ InReachStays
    BY <1>0, <2>2, <2>4, <2>5, UpdateAttends
  <2>7. SessionRetired(i)
    BY <2>4, <2>5, <2>6 DEF SessionRetired, SameSession
  <2>. QED
    BY <1>0, <2>6, <2>7 DEF Attended
<1>. QED
  BY <1>1, <1>2

\* executeWorkspaceClose and executeClean.
LEMMA CloseAttends ==
  ASSUME "close-failure" \notin Events, NEW on \in BOOLEAN, ItemsFit(on), WorldOK,
         NEW a \in Actions, ExecuteWorkspaceClose(a) \/ ExecuteClean(a)
  PROVE  Attended(a) /\ InReachStays
<1>. PICK i : i = a.item
  OBVIOUS
<1>0. i \in Items /\ Shape(item[i]) /\ a.type # "retry"
  BY ActionTyped, ItemShaped DEF ExecuteWorkspaceClose, ExecuteClean
<1>. PICK w : w = WithWs(item[i], 0)
  OBVIOUS
<1>1. PICK closed \in BOOLEAN : CloseOwn(i, closed)
  BY DEF ExecuteWorkspaceClose, ExecuteClean
<1>2. /\ live' = [live EXCEPT ![i] = @ \ {item[i].ws}]
      /\ \A j \in Items : helper'[j] \subseteq helper[j]
  BY <1>0, <1>1, CloseOwnCloses
<1>3. \A j \in Items \ {i} : tree'[j] = tree[j]
  BY WorldTyped DEF ExecuteWorkspaceClose, ExecuteClean
<1>4. OthersKept(i) /\ live'[i] = live[i] \ {item[i].ws}
  BY <1>0, <1>2, <1>3, WorldTyped DEF OthersKept
<1>5. Proceeds(item[i], w) /\ SameHelpers(item[i], w) /\ w.ws = 0 /\ w.retryWs = item[i].retryWs
  BY <1>0, FieldsProceed
<1>6. Update(i, w) \/ (Update(i, item[i]) /\ UNCHANGED tree)
  BY Zenon DEF ExecuteWorkspaceClose, ExecuteClean, WithWs
<1>7. CASE Update(i, w)
  <2>1. /\ \A j \in Items \ {i} : Bystands(j)
        /\ Proceeds(item[i], item'[i]) /\ SameSession(w, item'[i])
        /\ InReachStays
    BY <1>0, <1>4, <1>5, <1>7, UpdateAttends
  <2>2. SessionLetGo(i)
    BY <1>4, <1>5, <2>1 DEF SessionLetGo, SameSession
  <2>. QED
    BY <1>0, <2>1, <2>2 DEF Attended
<1>8. CASE Update(i, item[i]) /\ UNCHANGED tree
  <2>1. Proceeds(item[i], item[i]) /\ SameHelpers(item[i], item[i])
    BY <1>0, NotedSpared, SparedProceeds
  <2>2. /\ \A j \in Items \ {i} : Bystands(j)
        /\ Proceeds(item[i], item'[i]) /\ SameSession(item[i], item'[i])
        /\ InReachStays
    BY <1>0, <1>4, <1>8, <2>1, UpdateAttends
  <2>3. SessionKept(i)
    BY <1>4, <1>8, <2>2 DEF SessionKept
  <2>. QED
    BY <1>0, <2>2, <2>3 DEF Attended
<1>. QED
  BY <1>6, <1>7, <1>8

\* An update of the records alone.
LEMMA RecordAttends ==
  ASSUME NEW on \in BOOLEAN, ItemsFit(on), NEW a \in Actions, a.type # "retry", NEW z,
         Update(a.item, z), Proceeds(item[a.item], z), SameHelpers(item[a.item], z),
         SameSession(item[a.item], z), UNCHANGED <<live, tree, helper>>
  PROVE  Attended(a) /\ InReachStays
<1>. PICK i : i = a.item
  OBVIOUS
<1>0. i \in Items
  BY ActionTyped
<1>1. OthersKept(i)
  BY DEF OthersKept
<1>2. /\ \A j \in Items \ {i} : Bystands(j)
      /\ Proceeds(item[i], item'[i]) /\ SameSession(z, item'[i])
      /\ InReachStays
  BY <1>0, <1>1, UpdateAttends
<1>3. SessionKept(i)
  BY <1>2 DEF SessionKept, SameSession
<1>. QED
  BY <1>0, <1>2, <1>3 DEF Attended

\* A message, a review on the pull request, a signal file removed.
LEMMA MessageAttends ==
  ASSUME NEW on \in BOOLEAN, ItemsFit(on), WorldOK,
         NEW a \in Actions, ExecuteSend(a) \/ ExecutePostReview(a) \/ ExecuteClearSignal(a)
  PROVE  Attended(a) /\ InReachStays
<1>. PICK i : i = a.item
  OBVIOUS
<1>0. i \in Items /\ Shape(item[i])
  BY ActionTyped, ItemShaped
<1>1. a.type # "retry" /\ UNCHANGED <<live, tree, helper>>
  BY DEF ExecuteSend, ExecutePostReview, ExecuteClearSignal, ClearedSignal, SignalNames
<1>2. UNCHANGED item \/ Update(i, item[i]) \/ Update(i, HandedOver(item[i]))
  BY DEF ExecuteSend, ExecutePostReview, ExecuteClearSignal, HandedOver
<1>3. CASE UNCHANGED item
  BY <1>1, <1>3, UnchangedAttends
<1>4. ASSUME NEW z, Update(i, z), Spared(item[i], z)
      PROVE  Attended(a) /\ InReachStays
  BY <1>1, <1>4, SparedProceeds, RecordAttends
<1>5. Spared(item[i], item[i]) /\ Spared(item[i], HandedOver(item[i]))
  BY <1>0, NotedSpared, FieldsProceed
<1>. QED
  BY <1>2, <1>3, <1>4, <1>5

\* executeNotifyCiFailure.
LEMMA NotifyAttends ==
  ASSUME NEW on \in BOOLEAN, ItemsFit(on), WorldOK, NEW a \in Actions, ExecuteNotifyCi(a)
  PROVE  Attended(a) /\ InReachStays
<1>. PICK i : i = a.item
  OBVIOUS
<1>0. i \in Items /\ Shape(item[i])
  BY ActionTyped, ItemShaped
<1>1. a.type = "notify-ci-failure" /\ UNCHANGED <<live, tree, helper>>
  BY DEF ExecuteNotifyCi
<1>2. CASE tree[i]
  BY <1>1, <1>2, UnchangedAttends DEF ExecuteNotifyCi
<1>3. CASE ~tree[i]
  <2>. PICK x : x = Unnoticed(item[i])
    OBVIOUS
  <2>. PICK z : z = Moved(x, "ready")
    OBVIOUS
  <2>1. Update(i, z)
    BY <1>3 DEF ExecuteNotifyCi, Unnoticed
  <2>2. Shape(x)
    BY <1>0, Zenon DEF Shape, Unnoticed
  <2>3. /\ Proceeds(item[i], x) /\ SameHelpers(item[i], x)
        /\ x.ws = 0 /\ x.retryWs = item[i].retryWs
    BY <1>0, <2>2 DEF Shape, Fields, Unnoticed, Proceeds, ParkedRightly, SameHelpers
  <2>4. /\ GoesBack(item[i], z) \/ Proceeds(item[i], z)
        /\ SameHelpers(x, z) /\ SameSession(x, z)
    <3>1. CASE x.state = "ready"
      <4>1. z = x
        BY <3>1 DEF Moved
      <4>. QED
        BY <2>3, <4>1 DEF SameHelpers, SameSession
    <3>2. CASE x.state # "ready"
      BY <2>2, <2>3, <3>2, MovedGoesBack
    <3>. QED
      BY <3>1, <3>2
  <2>5. Shape(z)
    BY <2>4 DEF GoesBack, Proceeds
  <2>6. Spared(z, item'[i]) /\ \A j \in Items \ {i} : Spared(item[j], item'[j])
    BY <1>0, <2>1, <2>5, UpdateSpares
  <2>7. /\ GoesBack(item[i], item'[i]) \/ Proceeds(item[i], item'[i])
        /\ SameSession(z, item'[i]) /\ SameHelpers(z, item'[i])
    BY <2>4, <2>6, GoesBackSpared, SparedProceeds, ProceedsTwice
  <2>8. Apart(i)
    BY <1>1, <2>6 DEF Apart
  <2>9. HelpersStay(i)
    BY <1>1, <2>3, <2>4, <2>7 DEF HelpersStay, SameHelpers
  <2>10. InReachStays /\ \A j \in Items \ {i} : Bystands(j)
    BY <2>8, <2>9, ApartBystands, StayInReach DEF InReachStays
  <2>11. item'[i].ws = 0 /\ item'[i].retryWs = item[i].retryWs
    BY <2>3, <2>4, <2>7 DEF SameSession
  <2>. QED
    BY <1>0, <1>1, <1>3, <2>7, <2>10, <2>11 DEF Attended
<1>. QED
  BY <1>2, <1>3

---------------------------------------------------------------------------
(* Rebases and helpers *)

\* The helper h is one the record refers to.
HeldBy(it, h) ==
  \/ h = "reviewer" /\ it.reviewWs
  \/ h = "rebaser" /\ it.rebaserWs
  \/ h = "fixer" /\ it.fixWs

\* Helpers in reach, one by one.
LEMMA InReachMeans ==
  ASSUME WorldOK, NEW i \in Items
  PROVE  /\ helper[i] \subseteq HelpersHeld(i) \ {"ousted"} <=> \A h \in helper[i] : HeldBy(item[i], h)
         /\ helper'[i] \subseteq HelpersHeld(i)' \ {"ousted"} <=> \A h \in helper'[i] : HeldBy(item'[i], h)
<1>1. ASSUME NEW h
      PROVE  /\ h \in HelpersHeld(i) \ {"ousted"} <=> HeldBy(item[i], h)
             /\ h \in HelpersHeld(i)' \ {"ousted"} <=> HeldBy(item'[i], h)
  BY DEF HelpersHeld, Helpers, HeldBy
<1>. QED
  BY <1>1

\* An update of the item at hand that may change its references to helpers.
LEMMA HelperAttends ==
  ASSUME NEW on \in BOOLEAN, ItemsFit(on), WorldOK, NEW a \in Actions, a.type # "retry", NEW z,
         Update(a.item, z), Proceeds(item[a.item], z), SameSession(item[a.item], z),
         UNCHANGED <<live, tree>>,
         \A j \in Items \ {a.item} : helper'[j] = helper[j],
         (\A h \in helper[a.item] : HeldBy(item[a.item], h)) =>
            \A h \in helper'[a.item] : HeldBy(z, h)
  PROVE  Attended(a) /\ InReachStays
<1>. PICK i : i = a.item
  OBVIOUS
<1>0. i \in Items
  BY ActionTyped
<1>1. /\ Proceeds(item[i], item'[i]) /\ SameSession(z, item'[i]) /\ SameHelpers(z, item'[i])
      /\ \A j \in Items \ {i} : Spared(item[j], item'[j])
  BY <1>0, UpdateProceeds
<1>2. Apart(i)
  BY <1>1 DEF Apart
<1>3. \A j \in Items \ {i} : Bystands(j) /\ HelpersStay(j)
  BY <1>2, ApartBystands
<1>4. SessionKept(i)
  BY <1>1 DEF SessionKept, SameSession
<1>5. ASSUME HelpersInReach, NEW j \in Items
      PROVE  helper'[j] \subseteq HelpersHeld(j)' \ {"ousted"}
  <2>1. CASE j = i
    <3>1. \A h \in helper[i] : HeldBy(item[i], h)
      BY <1>0, <1>5, InReachMeans DEF HelpersInReach
    <3>2. \A h \in helper'[i] : HeldBy(item'[i], h)
      BY <1>1, <3>1 DEF HeldBy, SameHelpers
    <3>. QED
      BY <1>0, <2>1, <3>2, InReachMeans
  <2>2. CASE j # i
    BY <1>3, <1>5, <2>2 DEF HelpersInReach, HelpersStay, SameHelpers, HelpersHeld
  <2>. QED
    BY <2>1, <2>2
<1>6. InReachStays
  BY <1>5 DEF InReachStays, HelpersInReach
<1>. QED
  BY <1>0, <1>1, <1>3, <1>4, <1>6 DEF Attended

\* executeDaemonRebase.
LEMMA DaemonRebaseAttends ==
  ASSUME NEW on \in BOOLEAN, ItemsFit(on), WorldOK, NEW a \in Actions, ExecuteDaemonRebase(a)
  PROVE  Attended(a) /\ InReachStays
<1>. PICK i : i = a.item
  OBVIOUS
<1>0. i \in Items /\ Shape(item[i]) /\ a.type # "retry" /\ helper[i] \subseteq Helpers
  BY ActionTyped, ItemShaped, WorldTyped DEF ExecuteDaemonRebase
<1>1. ASSUME NEW to \in {"ci-pending", "stuck"}, Update(i, Moved(item[i], to)),
             UNCHANGED <<live, tree, helper>>
      PROVE  Attended(a) /\ InReachStays
  <2>1. /\ Proceeds(item[i], Moved(item[i], to)) /\ SameHelpers(item[i], Moved(item[i], to))
        /\ SameSession(item[i], Moved(item[i], to))
    BY <1>0, MovedProceeds
  <2>. QED
    BY <1>0, <1>1, <2>1, RecordAttends
<1>2. ASSUME Update(i, Tried([item[i] EXCEPT !.rebaserWs = TRUE, !.rebaseAttempts = @ + 1], "rebasing")),
             helper' = [helper EXCEPT ![i] = @ \cup {"rebaser"}], UNCHANGED <<live, tree>>
      PROVE  Attended(a) /\ InReachStays
  <2>. PICK x : x = [item[i] EXCEPT !.rebaserWs = TRUE, !.rebaseAttempts = @ + 1]
    OBVIOUS
  <2>1. Shape(x)
    BY <1>0, Zenon DEF Shape
  <2>2. /\ Proceeds(item[i], x) /\ SameSession(item[i], x)
        /\ x.reviewWs = item[i].reviewWs /\ x.fixWs = item[i].fixWs /\ x.rebaserWs = TRUE
    BY <1>0, <2>1 DEF Shape, Fields, Proceeds, ParkedRightly, SameSession
  <2>. PICK y : y = Moved(x, "rebasing")
    OBVIOUS
  <2>3. Proceeds(x, y) /\ SameHelpers(x, y) /\ SameSession(x, y)
    BY <2>1, MovedProceeds
  <2>. PICK z : z = Tried(x, "rebasing")
    OBVIOUS
  <2>4. z = x \/ z = y
    BY DEF Tried
  <2>5. Proceeds(item[i], z)
    BY <2>2, <2>3, <2>4, ProceedsTwice
  <2>6. SameSession(item[i], z)
    BY <2>2, <2>3, <2>4 DEF SameSession
  <2>7. z.reviewWs = item[i].reviewWs /\ z.fixWs = item[i].fixWs /\ z.rebaserWs = TRUE
    BY <2>2, <2>3, <2>4 DEF SameHelpers
  <2>8. Update(i, z)
    BY <1>2, Zenon
  <2>9. /\ helper'[i] = helper[i] \cup {"rebaser"}
        /\ \A j \in Items \ {i} : helper'[j] = helper[j]
    BY <1>0, <1>2, WorldTyped
  <2>10. (\A h \in helper[i] : HeldBy(item[i], h)) => \A h \in helper'[i] : HeldBy(z, h)
    BY <2>7, <2>9 DEF HeldBy
  <2>. QED
    BY <1>0, <1>2, <2>5, <2>6, <2>8, <2>9, <2>10, HelperAttends
<1>3. CASE UNCHANGED <<item, world>>
  BY <1>0, <1>3, UnchangedAttends DEF world
<1>4. ASSUME EscalateRebase(i)
      PROVE  Attended(a) /\ InReachStays
  <2>1. \/ Update(i, Moved(item[i], "stuck")) /\ UNCHANGED <<live, tree, helper>>
        \/ /\ Update(i, Tried([item[i] EXCEPT !.rebaserWs = TRUE, !.rebaseAttempts = @ + 1], "rebasing"))
           /\ helper' = [helper EXCEPT ![i] = @ \cup {"rebaser"}] /\ UNCHANGED <<live, tree>>
        \/ UNCHANGED <<item, live, tree, helper>>
    BY <1>4 DEF EscalateRebase, world
  <2>. QED
    BY <1>0, <1>1, <1>2, <2>1, UnchangedAttends
<1>5. \/ Update(i, Moved(item[i], "ci-pending")) /\ UNCHANGED <<live, tree, helper>>
      \/ UNCHANGED <<item, world>> \/ EscalateRebase(i)
  BY DEF ExecuteDaemonRebase
<1>. QED
  BY <1>1, <1>3, <1>4, <1>5

\* executeLaunchReview and executeLaunchForwardFixer.
LEMMA HelperLaunchAttends ==
  ASSUME NEW on \in BOOLEAN, ItemsFit(on), WorldOK, NEW a \in Actions,
         ExecuteLaunchReview(a) \/ ExecuteLaunchForwardFixer(a)
  PROVE  Attended(a) /\ InReachStays
<1>. PICK i : i = a.item
  OBVIOUS
<1>0. /\ i \in Items /\ Shape(item[i]) /\ a.type # "retry" /\ helper[i] \subseteq Helpers
      /\ UNCHANGED <<live, tree>>
  BY ActionTyped, ItemShaped, WorldTyped DEF ExecuteLaunchReview, ExecuteLaunchForwardFixer
<1>. PICK r : r = WithReviewer(item[i], TRUE)
  OBVIOUS
<1>. PICK f : f = WithFixer(item[i], TRUE)
  OBVIOUS
<1>1. \/ UNCHANGED <<item, helper>>
      \/ Update(i, r) /\ helper' = [helper EXCEPT ![i] = @ \cup {"reviewer"}]
      \/ Update(i, f) /\ helper' = [helper EXCEPT ![i] = @ \cup {"fixer"}]
  BY Zenon DEF ExecuteLaunchReview, ExecuteLaunchForwardFixer, WithReviewer, WithFixer
<1>2. CASE UNCHANGED <<item, helper>>
  BY <1>0, <1>2, UnchangedAttends
<1>3. CASE Update(i, r) /\ helper' = [helper EXCEPT ![i] = @ \cup {"reviewer"}]
  <2>1. /\ Proceeds(item[i], r) /\ SameSession(item[i], r)
        /\ r.reviewWs = TRUE /\ r.rebaserWs = item[i].rebaserWs /\ r.fixWs = item[i].fixWs
    <3>1. Shape(r)
      BY <1>0, Zenon DEF Shape, WithReviewer
    <3>. QED
      BY <1>0, <3>1, SMTT(30) DEF Shape, Fields, WithReviewer, Proceeds, ParkedRightly, SameSession
  <2>2. /\ helper'[i] = helper[i] \cup {"reviewer"}
        /\ \A j \in Items \ {i} : helper'[j] = helper[j]
    BY <1>0, <1>3, WorldTyped
  <2>3. (\A h \in helper[i] : HeldBy(item[i], h)) => \A h \in helper'[i] : HeldBy(r, h)
    BY <2>1, <2>2 DEF HeldBy
  <2>. QED
    BY <1>0, <1>3, <2>1, <2>2, <2>3, HelperAttends
<1>4. CASE Update(i, f) /\ helper' = [helper EXCEPT ![i] = @ \cup {"fixer"}]
  <2>1. /\ Proceeds(item[i], f) /\ SameSession(item[i], f)
        /\ f.fixWs = TRUE /\ f.reviewWs = item[i].reviewWs /\ f.rebaserWs = item[i].rebaserWs
    BY <1>0, FlagsProceed, Zenon
  <2>2. /\ helper'[i] = helper[i] \cup {"fixer"}
        /\ \A j \in Items \ {i} : helper'[j] = helper[j]
    BY <1>0, <1>4, WorldTyped
  <2>3. (\A h \in helper[i] : HeldBy(item[i], h)) => \A h \in helper'[i] : HeldBy(f, h)
    BY <2>1, <2>2 DEF HeldBy
  <2>. QED
    BY <1>0, <1>4, <2>1, <2>2, <2>3, HelperAttends
<1>. QED
  BY <1>1, <1>2, <1>3, <1>4

\* The reference to a helper that is dismissed is dropped: a helper is held or not there.
LEMMA DismissAttends ==
  ASSUME "close-failure" \notin Events, NEW on \in BOOLEAN, ItemsFit(on), WorldOK,
         NEW a \in Actions, a.type # "retry", NEW held, NEW name, NEW z,
         Dismissed(a.item, held, name), Update(a.item, z), UNCHANGED <<live, tree>>,
         Proceeds(item[a.item], z), SameSession(item[a.item], z),
         \A h : HeldBy(item[a.item], h) /\ ~(held /\ h = name) => HeldBy(z, h)
  PROVE  Attended(a) /\ InReachStays
<1>. PICK i : i = a.item
  OBVIOUS
<1>0. i \in Items
  BY ActionTyped
<1>1. helper' = [helper EXCEPT ![i] = IF held THEN @ \ {name} ELSE @]
  BY DEF Dismissed, Fault
<1>2. /\ helper'[i] = IF held THEN helper[i] \ {name} ELSE helper[i]
      /\ \A j \in Items \ {i} : helper'[j] = helper[j]
  BY <1>0, <1>1, WorldTyped
<1>3. (\A h \in helper[i] : HeldBy(item[i], h)) => \A h \in helper'[i] : HeldBy(z, h)
  BY <1>2
<1>. QED
  BY <1>2, <1>3, HelperAttends

\* cleanWorkerWorkspace.
LEMMA CleanHelperAttends ==
  ASSUME "close-failure" \notin Events, NEW on \in BOOLEAN, ItemsFit(on), WorldOK,
         NEW a \in Actions, ExecuteCleanHelper(a), HelpersInReach
  PROVE  Attended(a) /\ InReachStays
<1>. PICK i : i = a.item
  OBVIOUS
<1>0. /\ i \in Items /\ Shape(item[i]) /\ a.type # "retry"
      /\ UNCHANGED <<live, tree>>
  BY ActionTyped, ItemShaped DEF ExecuteCleanHelper
<1>1. CASE a.type = "clean-review"
  <2>. PICK z : z = WithReviewer(item[i], FALSE)
    OBVIOUS
  <2>1. Dismissed(i, item[i].reviewWs, "reviewer") /\ Update(i, z)
    BY <1>1, Zenon DEF ExecuteCleanHelper, WithReviewer
  <2>2. /\ Proceeds(item[i], z) /\ SameSession(item[i], z)
        /\ z.rebaserWs = item[i].rebaserWs /\ z.fixWs = item[i].fixWs
    BY <1>0, FlagsProceed, Zenon
  <2>3. \A h : HeldBy(item[i], h) /\ ~(item[i].reviewWs /\ h = "reviewer") => HeldBy(z, h)
    BY <2>2 DEF HeldBy
  <2>. QED
    BY <1>0, <2>1, <2>2, <2>3, DismissAttends
<1>2. CASE a.type = "clean-rebaser"
  <2>. PICK z : z = WithRebaser(item[i], FALSE)
    OBVIOUS
  <2>1. Dismissed(i, item[i].rebaserWs, "rebaser") /\ Update(i, z)
    BY <1>2, Zenon DEF ExecuteCleanHelper, WithRebaser
  <2>2. /\ Proceeds(item[i], z) /\ SameSession(item[i], z)
        /\ z.reviewWs = item[i].reviewWs /\ z.fixWs = item[i].fixWs
    BY <1>0, FlagsProceed, Zenon
  <2>3. \A h : HeldBy(item[i], h) /\ ~(item[i].rebaserWs /\ h = "rebaser") => HeldBy(z, h)
    BY <2>2 DEF HeldBy
  <2>. QED
    BY <1>0, <2>1, <2>2, <2>3, DismissAttends
<1>3. CASE a.type = "clean-forward-fixer"
  <2>. PICK z : z = WithFixer(item[i], FALSE)
    OBVIOUS
  <2>1. /\ Dismissed(i, item[i].fixWs, IF "ousted" \in helper[i] THEN "ousted" ELSE "fixer")
        /\ Update(i, z)
    BY <1>3, Zenon DEF ExecuteCleanHelper, WithFixer
  <2>2. "ousted" \notin helper[i]
    BY <1>0 DEF HelpersInReach
  <2>3. Dismissed(i, item[i].fixWs, "fixer")
    BY <2>1, <2>2
  <2>4. /\ Proceeds(item[i], z) /\ SameSession(item[i], z)
        /\ z.reviewWs = item[i].reviewWs /\ z.rebaserWs = item[i].rebaserWs
    BY <1>0, FlagsProceed, Zenon
  <2>5. \A h : HeldBy(item[i], h) /\ ~(item[i].fixWs /\ h = "fixer") => HeldBy(z, h)
    BY <2>4 DEF HeldBy
  <2>. QED
    BY <1>0, <2>1, <2>3, <2>4, <2>5, DismissAttends
<1>. QED
  BY <1>1, <1>2, <1>3 DEF ExecuteCleanHelper

---------------------------------------------------------------------------
(* Launches *)

\* A move of a record that proceeds.
LEMMA MovedAlong ==
  ASSUME NEW x, NEW it, Proceeds(x, it), SameHelpers(x, it), SameSession(x, it),
         NEW to \in {"ci-pending", "ci-passed", "stuck", "blocked", "merged", "rebasing"},
         NEW y, y = Moved(it, to)
  PROVE  Proceeds(x, y) /\ SameHelpers(x, y) /\ SameSession(x, y)
<1>1. Shape(it)
  BY DEF Proceeds
<1>2. Proceeds(it, y) /\ SameHelpers(it, y) /\ SameSession(it, y)
  BY <1>1, MovedProceeds
<1>3. Proceeds(x, y)
  BY <1>2, ProceedsTwice
<1>4. SameHelpers(x, y)
  BY <1>2, Zenon DEF SameHelpers
<1>5. SameSession(x, y)
  BY <1>2, Zenon DEF SameSession
<1>. QED
  BY <1>3, <1>4, <1>5, Zenon

\* A launch that fails, while it may be retried: the item goes back to ready.
LEMMA BackToReady ==
  ASSUME NEW on \in BOOLEAN, ItemsFit(on), NEW a \in Actions, a.type = "launch",
         NEW x, Proceeds(item[a.item], x), SameHelpers(item[a.item], x),
         SameSession(item[a.item], x), Update(a.item, Moved(x, "ready")),
         UNCHANGED <<live, tree, helper>>
  PROVE  Attended(a) /\ InReachStays
<1>. PICK i : i = a.item
  OBVIOUS
<1>0. i \in Items
  BY ActionTyped
<1>1. CASE x.state = "ready"
  <2>1. Moved(x, "ready") = x
    BY <1>1 DEF Moved
  <2>. QED
    BY <1>0, <2>1, RecordAttends
<1>2. CASE x.state # "ready"
  <2>. PICK z : z = Moved(x, "ready")
    OBVIOUS
  <2>1. GoesBack(item[i], z) /\ SameHelpers(x, z) /\ SameSession(x, z)
    BY <1>2, MovedGoesBack DEF Proceeds
  <2>2. Spared(z, item'[i]) /\ \A j \in Items \ {i} : Spared(item[j], item'[j])
    BY <1>0, <2>1, UpdateSpares DEF GoesBack
  <2>3. GoesBack(item[i], item'[i]) /\ SameSession(z, item'[i]) /\ SameHelpers(z, item'[i])
    BY <2>1, <2>2, GoesBackSpared
  <2>4. Apart(i) /\ HelpersStay(i) /\ SessionKept(i)
    BY <2>1, <2>2, <2>3 DEF Apart, HelpersStay, SameHelpers, SessionKept, SameSession
  <2>5. InReachStays /\ \A j \in Items \ {i} : Bystands(j)
    BY <2>4, ApartBystands, StayInReach DEF InReachStays
  <2>. QED
    BY <1>0, <2>3, <2>4, <2>5 DEF Attended
<1>. QED
  BY <1>1, <1>2

\* A retry that is counted.
LEMMA RetriedProceeds ==
  ASSUME NEW x, NEW it, Proceeds(x, it), SameHelpers(x, it), SameSession(x, it),
         NEW r, r = [it EXCEPT !.retries = @ + 1]
  PROVE  Proceeds(x, r) /\ SameHelpers(x, r) /\ SameSession(x, r)
<1>0. Shape(it)
  BY DEF Proceeds
<1>1. Shape(r)
  BY <1>0, Zenon DEF Shape
<1>2. Proceeds(it, r) /\ SameHelpers(it, r) /\ SameSession(it, r)
  BY <1>0, <1>1 DEF Shape, Fields, Proceeds, ParkedRightly, SameHelpers, SameSession
<1>. QED
  BY <1>2, ProceedsTwice DEF SameHelpers, SameSession

\* A launch that succeeds.
LEMMA HireAttends ==
  ASSUME NEW on \in BOOLEAN, ItemsFit(on), WorldOK, NEW a \in Actions, a.type = "launch",
         NEW x, Proceeds(item[a.item], x), SameHelpers(item[a.item], x),
         x.ws \in Sessions, x.retryWs = item[a.item].retryWs, Update(a.item, x),
         live' = [live EXCEPT ![a.item] = @ \cup {x.ws}],
         tree' = [tree EXCEPT ![a.item] = TRUE], UNCHANGED helper
  PROVE  Attended(a) /\ InReachStays
<1>. PICK i : i = a.item
  OBVIOUS
<1>0. i \in Items
  BY ActionTyped
<1>1. /\ live'[i] = live[i] \cup {x.ws} /\ tree'[i]
      /\ OthersKept(i)
  BY <1>0, WorldTyped DEF OthersKept
<1>2. /\ \A j \in Items \ {i} : Bystands(j)
      /\ Proceeds(item[i], item'[i]) /\ SameSession(x, item'[i])
      /\ InReachStays
  BY <1>0, <1>1, UpdateAttends
<1>3. SessionHired(i)
  BY <1>1, <1>2 DEF SessionHired, SameSession
<1>. QED
  BY <1>0, <1>2, <1>3 DEF Attended

\* A dependency that has finished is no base any more.
LEMMA BasedProceeds ==
  ASSUME NEW on \in BOOLEAN, ItemsFit(on), NEW i \in Items, NEW base
  PROVE  /\ Proceeds(item[i], Based(i, base)) /\ SameHelpers(item[i], Based(i, base))
         /\ SameSession(item[i], Based(i, base))
<1>. PICK b : b = IF base # NoItem /\ item[base].state \in DependencyDone THEN NoItem ELSE item[i].base
  OBVIOUS
<1>1. Based(i, base) = Released(item[i], b)
  BY DEF Based, Released
<1>2. b \in {item[i].base, NoItem}
  OBVIOUS
<1>. QED
  BY <1>1, <1>2, ItemShaped, FieldsProceed

\* The record of an item whose worker was just hired.
LEMMA HiredProceeds ==
  ASSUME NEW x, NEW it, Proceeds(x, it), SameHelpers(x, it), SameSession(x, it), NEW session,
         NEW z, z = WithWs(it, session) \/ z = HandedOver(WithWs(it, session))
  PROVE  Proceeds(x, z) /\ SameHelpers(x, z) /\ z.ws = session /\ z.retryWs = x.retryWs
<1>. PICK w : w = WithWs(it, session)
  OBVIOUS
<1>1. /\ Proceeds(it, w) /\ SameHelpers(it, w) /\ w.ws = session /\ w.retryWs = it.retryWs
  BY FieldsProceed DEF Proceeds
<1>2. Spared(w, HandedOver(w)) /\ Spared(w, w)
  BY <1>1, FieldsProceed, NotedSpared DEF Proceeds
<1>3. Proceeds(w, z) /\ SameHelpers(w, z) /\ SameSession(w, z)
  BY <1>2, SparedProceeds
<1>4. Proceeds(x, z)
  BY <1>1, <1>3, ProceedsTwice
<1>. QED
  BY <1>1, <1>3, <1>4 DEF SameHelpers, SameSession

\* executeLaunch, where a worker is hired.
LEMMA LaunchDoneAttends ==
  ASSUME NEW on \in BOOLEAN, ItemsFit(on), WorldOK, NEW a \in Actions, a.type = "launch",
         LaunchDone(a.item, a.base)
  PROVE  Attended(a) /\ InReachStays
<1>. PICK i : i = a.item
  OBVIOUS
<1>0. i \in Items
  BY ActionTyped
<1>1. PICK session : session = CHOOSE n \in Sessions \ live[i] : \A m \in Sessions \ live[i] : n <= m
  OBVIOUS
<1>2. session \in Sessions
  <2>1. live[i] \subseteq Sessions /\ Sessions \subseteq Nat
    BY <1>0, WorldTyped, BoundsAssumption DEF Sessions
  <2>2. Sessions \ live[i] # {} /\ Sessions \ live[i] \in SUBSET Nat
    BY <2>1 DEF LaunchDone
  <2>. QED
    BY <1>1, <2>2, LeastOfSome
<1>. PICK based : based = Based(i, a.base)
  OBVIOUS
<1>. PICK x : x = IF item[i].needsFeedback THEN HandedOver(WithWs(based, session)) ELSE WithWs(based, session)
  OBVIOUS
<1>3. Update(i, x)
  BY <1>1, Zenon DEF LaunchDone, HandedOver, WithWs
<1>4. /\ Proceeds(item[i], x) /\ SameHelpers(item[i], x)
      /\ x.ws = session /\ x.retryWs = item[i].retryWs
  BY <1>0, BasedProceeds, HiredProceeds
<1>5. /\ live' = [live EXCEPT ![i] = @ \cup {session}]
      /\ tree' = [tree EXCEPT ![i] = TRUE] /\ UNCHANGED helper
  BY <1>1 DEF LaunchDone
<1>. QED
  BY <1>0, <1>2, <1>3, <1>4, <1>5, HireAttends

\* executeLaunch, in each of its outcomes.
LEMMA LaunchAttends ==
  ASSUME NEW on \in BOOLEAN, ItemsFit(on), WorldOK, NEW a \in Actions, ExecuteLaunch(a)
  PROVE  Attended(a) /\ InReachStays
<1>. PICK i : i = a.item
  OBVIOUS
<1>0. i \in Items /\ Shape(item[i]) /\ a.type = "launch"
  BY ActionTyped, ItemShaped DEF ExecuteLaunch
<1>1. CASE LaunchBlocked(i)
  <2>. PICK y : y = Moved(item[i], "blocked")
    OBVIOUS
  <2>1. Update(i, y) /\ UNCHANGED <<live, tree, helper>>
    BY <1>1 DEF LaunchBlocked, world
  <2>2. Proceeds(item[i], y) /\ SameHelpers(item[i], y) /\ SameSession(item[i], y)
    BY <1>0, MovedProceeds
  <2>. QED
    BY <1>0, <2>1, <2>2, RecordAttends
<1>2. CASE LaunchSkipped(i)
  <2>. PICK x : x = WithPr(item[i], "work")
    OBVIOUS
  <2>. PICK y : y = Moved(x, "ci-pending")
    OBVIOUS
  <2>1. Update(i, y) /\ UNCHANGED <<live, tree, helper>>
    BY <1>2, Zenon DEF LaunchSkipped, world, WithPr
  <2>2. Proceeds(item[i], x) /\ SameHelpers(item[i], x) /\ SameSession(item[i], x)
    BY <1>0, FieldsProceed, SparedProceeds
  <2>3. Proceeds(item[i], y) /\ SameHelpers(item[i], y) /\ SameSession(item[i], y)
    BY <2>2, MovedAlong, Zenon
  <2>. QED
    BY <1>0, <2>1, <2>3, RecordAttends
<1>3. CASE LaunchFailed(i, a.base)
  <2>. PICK based : based = Based(i, a.base)
    OBVIOUS
  <2>. PICK r : r = [based EXCEPT !.retries = @ + 1]
    OBVIOUS
  <2>1. Proceeds(item[i], based) /\ SameHelpers(item[i], based) /\ SameSession(item[i], based)
    BY <1>0, BasedProceeds
  <2>2. Proceeds(item[i], r) /\ SameHelpers(item[i], r) /\ SameSession(item[i], r)
    BY <2>1, RetriedProceeds
  <2>3. UNCHANGED <<live, tree, helper>>
    BY <1>3 DEF LaunchFailed
  <2>. PICK y : y = Moved(based, "stuck")
    OBVIOUS
  <2>4. Update(i, Moved(r, "ready")) \/ Update(i, y)
    BY <1>3, Zenon DEF LaunchFailed
  <2>5. Proceeds(item[i], y) /\ SameHelpers(item[i], y) /\ SameSession(item[i], y)
    BY <2>1, MovedAlong, Zenon
  <2>6. CASE Update(i, Moved(r, "ready"))
    BY <1>0, <2>2, <2>3, <2>6, BackToReady
  <2>7. CASE Update(i, y)
    BY <1>0, <2>3, <2>5, <2>7, RecordAttends
  <2>. QED
    BY <2>4, <2>6, <2>7
<1>4. CASE LaunchDone(i, a.base)
  BY <1>0, <1>4, LaunchDoneAttends
<1>. QED
  BY <1>1, <1>2, <1>3, <1>4 DEF ExecuteLaunch

---------------------------------------------------------------------------
(* Merges *)

\* A merge whose session, if it is closed, is let go.
LEMMA MergedAttends ==
  ASSUME "close-failure" \notin Events, NEW on \in BOOLEAN, ItemsFit(on), WorldOK,
         NEW a \in Actions, a.type = "merge", NEW closed \in BOOLEAN, CloseOwn(a.item, closed),
         NEW z, Proceeds(item[a.item], z), SameHelpers(item[a.item], z),
         z.ws = item[a.item].ws \/ z.ws = 0, z.retryWs = item[a.item].retryWs,
         Spared(z, item'[a.item]), UNCHANGED tree,
         \A j \in Items \ {a.item} : /\ Proceeds(item[j], item'[j]) /\ SameHelpers(item[j], item'[j])
                                     /\ SameSession(item[j], item'[j])
                                     /\ item'[j].state = item[j].state
  PROVE  Attended(a) /\ InReachStays
<1>. PICK i : i = a.item
  OBVIOUS
<1>0. i \in Items /\ a.type # "retry"
  BY ActionTyped
<1>1. /\ live' = [live EXCEPT ![i] = @ \ {item[i].ws}]
      /\ \A j \in Items : helper'[j] \subseteq helper[j]
  BY <1>0, CloseOwnCloses
<1>2. /\ live'[i] = live[i] \ {item[i].ws}
      /\ \A j \in Items \ {i} : live'[j] = live[j]
  BY <1>0, <1>1, WorldTyped
<1>3. Proceeds(item[i], item'[i]) /\ SameSession(z, item'[i]) /\ SameHelpers(z, item'[i])
  BY SparedProceeds, ProceedsTwice
<1>4. HelpersStay(i)
  BY <1>0, <1>1, <1>3 DEF HelpersStay, SameHelpers
<1>5. \A j \in Items \ {i} : Bystands(j) /\ HelpersStay(j)
  BY <1>1, <1>2 DEF Bystands, SessionKept, HelpersStay
<1>6. InReachStays
  BY <1>4, <1>5, StayInReach DEF InReachStays
<1>7. SessionKept(i) \/ SessionLetGo(i)
  BY <1>2, <1>3 DEF SessionKept, SessionLetGo, SameSession
<1>. QED
  BY <1>0, <1>3, <1>5, <1>6, <1>7 DEF Attended

\* The pull request was merged before.
LEMMA MergeFoundAttends ==
  ASSUME "close-failure" \notin Events, NEW on \in BOOLEAN, ItemsFit(on), WorldOK,
         NEW a \in Actions, a.type = "merge", MergeFound(a.item)
  PROVE  Attended(a) /\ InReachStays
<1>. PICK i : i = a.item
  OBVIOUS
<1>0. i \in Items /\ Shape(item[i])
  BY ActionTyped, ItemShaped
<1>. PICK x : x = Moved(item[i], "merged")
  OBVIOUS
<1>1. Proceeds(item[i], x) /\ SameHelpers(item[i], x) /\ SameSession(item[i], x)
  BY <1>0, MovedProceeds
<1>2. PICK closed \in BOOLEAN :
        /\ CloseOwn(i, closed)
        /\ Update(i, [Moved(item[i], "merged") EXCEPT !.ws = IF closed THEN 0 ELSE @])
  BY DEF MergeFound
<1>. PICK w : w = IF closed THEN 0 ELSE x.ws
  OBVIOUS
<1>. PICK z : z = WithWs(x, w)
  OBVIOUS
<1>3. Update(i, z)
  BY <1>2, Zenon DEF WithWs
<1>4. Proceeds(x, z) /\ SameHelpers(x, z) /\ z.ws = w /\ z.retryWs = x.retryWs
  BY <1>1, FieldsProceed DEF Proceeds
<1>5. Proceeds(item[i], z)
  BY <1>1, <1>4, ProceedsTwice
<1>6. /\ SameHelpers(item[i], z) /\ z.retryWs = item[i].retryWs
      /\ z.ws = item[i].ws \/ z.ws = 0
  BY <1>1, <1>4 DEF SameHelpers, SameSession
<1>7. Spared(z, item'[i]) /\ \A j \in Items \ {i} : Spared(item[j], item'[j])
  BY <1>0, <1>3, <1>5, UpdateSpares DEF Proceeds
<1>8. \A j \in Items \ {i} : /\ Proceeds(item[j], item'[j]) /\ SameHelpers(item[j], item'[j])
                             /\ SameSession(item[j], item'[j])
                             /\ item'[j].state = item[j].state
  BY <1>7, SparedProceeds DEF Spared
<1>9. UNCHANGED tree
  BY DEF MergeFound
<1>. QED
  BY <1>0, <1>2, <1>5, <1>6, <1>7, <1>8, <1>9, MergedAttends

\* Where the pull request is retargeted, or the merge put off, the record notes the base.
LEMMA MovedBackAttends ==
  ASSUME NEW on \in BOOLEAN, ItemsFit(on), NEW a \in Actions, a.type = "merge",
         NEW b \in {item[a.item].base, NoItem}, NEW to \in {"ci-pending", "ci-passed"},
         \/ Update(a.item, Moved([item[a.item] EXCEPT !.base = b], to))
         \/ Update(a.item, Moved(item[a.item], to)),
         UNCHANGED <<live, tree, helper>>
  PROVE  Attended(a) /\ InReachStays
<1>. PICK i : i = a.item
  OBVIOUS
<1>0. i \in Items /\ Shape(item[i]) /\ a.type # "retry"
  BY ActionTyped, ItemShaped
<1>. PICK x : x = WithBase(item[i], b)
  OBVIOUS
<1>. PICK y : y = Moved(x, to)
  OBVIOUS
<1>. PICK z : z = Moved(item[i], to)
  OBVIOUS
<1>1. Update(i, y) \/ Update(i, z)
  BY Zenon DEF WithBase
<1>2. Proceeds(item[i], x) /\ SameHelpers(item[i], x) /\ SameSession(item[i], x)
  BY <1>0, FieldsProceed
<1>3. Proceeds(item[i], y) /\ SameHelpers(item[i], y) /\ SameSession(item[i], y)
  BY <1>2, MovedAlong
<1>4. Proceeds(item[i], z) /\ SameHelpers(item[i], z) /\ SameSession(item[i], z)
  BY <1>0, MovedProceeds
<1>. QED
  BY <1>0, <1>1, <1>3, <1>4, RecordAttends

\* The base a merge expects is the one noted, or none.
LEMMA ExpectedNoted ==
  ASSUME NEW i, NEW expected, expected = ExpectedBase(i)
  PROVE  expected \in {item[i].base, NoItem}
  BY DEF ExpectedBase

\* The pull request is retargeted, moved to the default branch, or waits for its base.
LEMMA MergePutOffAttends ==
  ASSUME NEW on \in BOOLEAN, ItemsFit(on), NEW a \in Actions, a.type = "merge",
         NEW expected \in {item[a.item].base, NoItem},
         \/ MergeRetargeted(a.item, expected) \/ MergeUnstacked(a.item, expected)
         \/ MergeHeld(a.item, expected)
  PROVE  Attended(a) /\ InReachStays
<1>1. CASE MergeRetargeted(a.item, expected)
  BY <1>1, MovedBackAttends DEF MergeRetargeted
<1>2. CASE MergeUnstacked(a.item, expected)
  BY <1>2, MovedBackAttends DEF MergeUnstacked
<1>3. CASE MergeHeld(a.item, expected)
  BY <1>3, MovedBackAttends DEF MergeHeld
<1>. QED
  BY <1>1, <1>2, <1>3

\* GitHub refuses the merge.
LEMMA MergeRefusedAttends ==
  ASSUME NEW on \in BOOLEAN, ItemsFit(on), NEW a \in Actions, a.type = "merge",
         MergeRefused(a.item)
  PROVE  Attended(a) /\ InReachStays
<1>. PICK i : i = a.item
  OBVIOUS
<1>0. /\ i \in Items /\ Shape(item[i]) /\ a.type # "retry"
      /\ UNCHANGED <<live, tree, helper>>
  BY ActionTyped, ItemShaped DEF MergeRefused
<1>. PICK x : x = Spent(item[i])
  OBVIOUS
<1>. PICK to : to = IF x.mergeFails >= MaxMergeRetries THEN "stuck" ELSE "ci-passed"
  OBVIOUS
<1>. PICK z : z = Moved(x, to)
  OBVIOUS
<1>1. Update(i, Moved(item[i], "ci-pending")) \/ Update(i, z)
  BY Zenon DEF MergeRefused, Spent
<1>2. Proceeds(item[i], x) /\ SameHelpers(item[i], x) /\ SameSession(item[i], x)
  <2>1. Shape(x)
    BY <1>0, Zenon DEF Shape, Spent
  <2>. QED
    BY <1>0, <2>1 DEF Shape, Fields, Spent, Proceeds, ParkedRightly, SameHelpers, SameSession
<1>3. to \in {"ci-pending", "ci-passed", "stuck", "blocked", "merged", "rebasing"}
  OBVIOUS
<1>4. Proceeds(item[i], z) /\ SameHelpers(item[i], z) /\ SameSession(item[i], z)
  BY <1>2, <1>3, MovedAlong
<1>5. CASE Update(i, z)
  BY <1>0, <1>4, <1>5, RecordAttends
<1>6. CASE Update(i, Moved(item[i], "ci-pending"))
  BY <1>0, <1>6, MovedBackAttends
<1>. QED
  BY <1>1, <1>5, <1>6

\* The record of an item that has landed, its session closed or not.
LEMMA LandedProceeds ==
  ASSUME NEW it, Shape(it), NEW m, m = Merged(it), NEW w, w = m.ws \/ w = 0, NEW h,
         NEW z, z = Unheld(m, w, h)
  PROVE  /\ Proceeds(it, z) /\ SameHelpers(it, z)
         /\ z.ws = it.ws \/ z.ws = 0
         /\ z.retryWs = it.retryWs
<1>. PICK x : x = [it EXCEPT !.mergeFails = 0, !.base = NoItem]
  OBVIOUS
<1>1. Shape(x)
  BY Zenon DEF Shape
<1>2. Proceeds(it, x) /\ SameHelpers(it, x) /\ SameSession(it, x)
  BY <1>1 DEF Shape, Fields, Proceeds, ParkedRightly, SameHelpers, SameSession
<1>3. m = Moved(x, "merged")
  BY Zenon DEF Merged
<1>4. Proceeds(it, m) /\ SameHelpers(it, m) /\ SameSession(it, m)
  BY <1>2, <1>3, MovedAlong
<1>6. Proceeds(m, z) /\ SameHelpers(m, z) /\ z.ws = w /\ z.retryWs = m.retryWs
  BY <1>4, FieldsProceed DEF Proceeds
<1>7. Proceeds(it, z)
  BY <1>4, <1>6, ProceedsTwice
<1>. QED
  BY <1>4, <1>6, <1>7 DEF SameHelpers, SameSession

\* GitHub merges.
LEMMA MergeDoneAttends ==
  ASSUME "close-failure" \notin Events, NEW on \in BOOLEAN, ItemsFit(on), WorldOK,
         NEW a \in Actions, a.type = "merge", MergeDone(a.item)
  PROVE  Attended(a) /\ InReachStays
<1>. PICK i : i = a.item
  OBVIOUS
<1>0. i \in Items /\ Shape(item[i]) /\ UNCHANGED tree
  BY ActionTyped, ItemShaped DEF MergeDone
<1>. DEFINE active   == ActiveItems(item) \ {i}
            stacked  == {o \in active : i \in Deps[o] /\ item[o].base # NoItem}
            siblings == {o \in active \ stacked : item[o].pr # "none"}
            pushable == {o \in stacked \cup siblings : tree[o] /\ gh[o].pr = "open" /\ head[o] < MaxCommits}
            known    == IF FixForward THEN BOOLEAN ELSE {FALSE}
<1>1. MergeDone(i)
  OBVIOUS
<1>2. PICK closed \in BOOLEAN, sha \in known, restacked \in SUBSET {o \in stacked : tree[o]},
           pushed \in SUBSET pushable :
        /\ pushed \cap stacked \subseteq restacked
        /\ CloseOwn(i, closed)
        /\ gh' = [o \in Items |-> IF o = i THEN Landed(gh[i])
                                  ELSE IF o \in pushed THEN Rebased(gh[o]) ELSE gh[o]]
        /\ head' = [o \in Items |-> IF o \in pushed THEN head[o] + 1 ELSE head[o]]
        /\ Commit([o \in Items |->
              IF o = i
              THEN [Moved([item[i] EXCEPT !.mergeFails = 0, !.base = NoItem], "merged")
                      EXCEPT !.ws = IF closed THEN 0 ELSE @, !.mergeSha = @ \/ sha]
              ELSE IF o \in restacked THEN [item[o] EXCEPT !.base = NoItem] ELSE item[o]])
  BY <1>1, Zenon DEF MergeDone
<1>. HIDE DEF known, active, stacked, siblings, pushable
<1>. PICK m : m = Merged(item[i])
  OBVIOUS
<1>. PICK w : w = IF closed THEN 0 ELSE m.ws
  OBVIOUS
<1>. PICK h : h = (m.mergeSha \/ sha)
  OBVIOUS
<1>. PICK z : z = Unheld(m, w, h)
  OBVIOUS
<1>. PICK records : records = [o \in Items |-> IF o = i THEN z
                               ELSE IF o \in restacked THEN WithBase(item[o], NoItem) ELSE item[o]]
  OBVIOUS
<1>4. Commit(records)
  BY <1>2, Zenon DEF Unheld, WithBase, Merged
<1>5. /\ Proceeds(item[i], z) /\ SameHelpers(item[i], z)
      /\ z.ws = item[i].ws \/ z.ws = 0
      /\ z.retryWs = item[i].retryWs
  BY <1>0, LandedProceeds
<1>6. Spared(z, item'[i])
  <2>1. records[i] = z /\ Shape(z)
    BY <1>0, <1>5 DEF Proceeds
  <2>. QED
    BY <1>0, <1>4, <2>1, CommitSpares
<1>7. ASSUME NEW j \in Items \ {i}
      PROVE  /\ Proceeds(item[j], item'[j]) /\ SameHelpers(item[j], item'[j])
             /\ SameSession(item[j], item'[j])
             /\ item'[j].state = item[j].state
  <2>. PICK x : x = WithBase(item[j], NoItem)
    OBVIOUS
  <2>1. records[j] = x \/ records[j] = item[j]
    BY Zenon
  <2>2. Shape(item[j])
    BY ItemShaped
  <2>3. Proceeds(item[j], x) /\ SameHelpers(item[j], x) /\ SameSession(item[j], x)
    BY <2>2, FieldsProceed
  <2>4. x.state = item[j].state
    BY <2>2 DEF WithBase, Shape, Fields
  <2>5. Spared(records[j], item'[j])
    BY <1>4, <2>1, <2>2, <2>3, CommitSpares DEF Proceeds
  <2>6. CASE records[j] = item[j]
    BY <2>5, <2>6, SparedProceeds DEF Spared
  <2>7. CASE records[j] = x
    <3>1. /\ Proceeds(x, item'[j]) /\ SameHelpers(x, item'[j]) /\ SameSession(x, item'[j])
          /\ item'[j].state = x.state
      BY <2>5, <2>7, SparedProceeds DEF Spared
    <3>2. Proceeds(item[j], item'[j])
      BY <2>3, <3>1, ProceedsTwice
    <3>. QED
      BY <2>3, <2>4, <3>1, <3>2 DEF SameHelpers, SameSession
  <2>. QED
    BY <2>1, <2>6, <2>7
<1>. QED
  BY <1>0, <1>2, <1>5, <1>6, <1>7, MergedAttends

\* executeMerge, in each of its outcomes.
LEMMA ExecuteMergeAttends ==
  ASSUME "close-failure" \notin Events, NEW on \in BOOLEAN, ItemsFit(on), WorldOK,
         NEW a \in Actions, ExecuteMerge(a)
  PROVE  Attended(a) /\ InReachStays
<1>. PICK i : i = a.item
  OBVIOUS
<1>1. PICK expected : expected = ExpectedBase(i)
  OBVIOUS
<1>2. expected \in {item[i].base, NoItem} /\ a.type = "merge"
  BY <1>1, ExpectedNoted DEF ExecuteMerge
<1>3. \/ MergeUnreachable(i) \/ MergeFound(i)
      \/ MergeRetargeted(i, expected) \/ MergeUnstacked(i, expected) \/ MergeHeld(i, expected)
      \/ MergeRefused(i) \/ MergeDone(i)
  BY <1>1 DEF ExecuteMerge
<1>4. CASE MergeUnreachable(i)
  <2>1. UNCHANGED <<item, live, tree, helper>>
    BY <1>4 DEF MergeUnreachable
  <2>. QED
    BY <1>2, <2>1, UnchangedAttends
<1>5. CASE MergeFound(i)
  BY <1>2, <1>5, MergeFoundAttends
<1>6. CASE MergeRetargeted(i, expected) \/ MergeUnstacked(i, expected) \/ MergeHeld(i, expected)
  BY <1>2, <1>6, MergePutOffAttends
<1>7. CASE MergeRefused(i)
  BY <1>2, <1>7, MergeRefusedAttends
<1>8. CASE MergeDone(i)
  BY <1>2, <1>8, MergeDoneAttends
<1>. QED
  BY <1>3, <1>4, <1>5, <1>6, <1>7, <1>8

\* Every action attends to its item and leaves the sessions of the others; helpers stay in
\* reach of their items.
LEMMA ExecuteAttends ==
  ASSUME "close-failure" \notin Events, NEW on \in BOOLEAN, ItemsFit(on), WorldOK,
         NEW a \in Actions, Execute(a), HelpersInReach
  PROVE  Attended(a) /\ InReachStays
<1>1. CASE ExecuteLaunch(a)
  BY <1>1, LaunchAttends
<1>2. CASE ExecuteRetry(a)
  BY <1>2, RetryAttends
<1>3. CASE ExecuteWorkspaceClose(a) \/ ExecuteClean(a)
  BY <1>3, CloseAttends
<1>4. CASE ExecuteDaemonRebase(a)
  BY <1>4, DaemonRebaseAttends
<1>5. CASE ExecuteNotifyCi(a)
  BY <1>5, NotifyAttends
<1>6. CASE ExecuteSend(a) \/ ExecutePostReview(a) \/ ExecuteClearSignal(a)
  BY <1>6, MessageAttends
<1>7. CASE ExecuteLaunchReview(a) \/ ExecuteLaunchForwardFixer(a)
  BY <1>7, HelperLaunchAttends
<1>8. CASE ExecuteCleanHelper(a)
  BY <1>8, CleanHelperAttends
<1>9. CASE ExecuteMerge(a)
  BY <1>9, ExecuteMergeAttends
<1>. QED
  BY <1>1, <1>2, <1>3, <1>4, <1>5, <1>6, <1>7, <1>8, <1>9 DEF Execute
=============================================================================
