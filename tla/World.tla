------------------------------- MODULE World --------------------------------
(***************************************************************************)
(* What the orchestrator acts upon and reads back: the pull request of     *)
(* each item on GitHub, its branch, the worker sessions of the             *)
(* multiplexer, and the files workers and orchestrator exchange.  None of  *)
(* it is code of src/; it is modelled from how core/snapshot.ts reads it   *)
(* and core/orchestrator-actions.ts changes it.                            *)
(***************************************************************************)
EXTENDS ItemStates

CONSTANT MaxFaults    \* bound: how many faults (failures, deaths, conflicts) may happen

ASSUME FaultsAssumption == MaxFaults \in Nat

VARIABLES
  gh,        \* the tracked pull request of each item, as GitHub shows it
  head,      \* number of commits on each item's branch
  live,      \* implementer sessions the multiplexer lists for each item
  helper,    \* helper workers (reviewer, rebaser, fixer) it lists
  verdict,   \* the verdict file of each item's reviewer
  judged,    \* heads a reviewer's verdict has approved (history)
  signals,   \* signal files the implementer has left
  inbox,     \* human comments in the implementer's inbox, not read yet
  heard,     \* human comments an implementer has read (history)
  posted,    \* human comments ever made on the PR (history)
  tree,      \* the item's worktree exists on this machine
  faults     \* faults still allowed

world == <<gh, head, live, helper, verdict, judged, signals, inbox, heard, posted, tree, faults>>

\* "ousted": a fixer whose worktree was removed under it (Recovery); listed, and unable to work.
Helpers == {"reviewer", "rebaser", "fixer", "ousted"}
SignalNames == {"no-new-info", "pushback", "feedback-done"}

NoPullRequest == [pr |-> "none", kind |-> "work", ci |-> "none", mergeable |-> "yes",
                  approved |-> FALSE, agents |-> {}, fresh |-> TRUE, base |-> NoItem, main |-> "none"]

\* agents: what the orchestrator itself has written on the PR, a reviewer's
\* verdict or a note; fresh: something happened to its CI since the item last
\* entered rebasing; main: CI of the merge commit on the default branch.

WorldTypeOK ==
  /\ gh \in [Items -> [pr : {"none", "open", "merged"}, kind : {"work", "repair"},
                       ci : {"none", "pending", "pass", "fail"}, mergeable : {"yes", "no"},
                       approved : BOOLEAN, agents : SUBSET {"review", "note"}, fresh : BOOLEAN,
                       base : Items \cup {NoItem},
                       main : {"none", "pending", "pass", "fail"}]]
  /\ head \in [Items -> Commits]
  /\ live \in [Items -> SUBSET Sessions]
  /\ helper \in [Items -> SUBSET Helpers]
  /\ verdict \in [Items -> {"none", "approve", "request-changes"}]
  /\ judged \in [Items -> SUBSET Commits]
  /\ signals \in [Items -> SUBSET SignalNames]
  /\ inbox \in [Items -> SUBSET Comments]
  /\ heard \in [Items -> SUBSET Comments]
  /\ posted \in [Items -> SUBSET Comments]
  /\ tree \in [Items -> BOOLEAN]
  /\ faults \in 0 .. MaxFaults

WorldInit ==
  /\ gh = [i \in Items |-> NoPullRequest]
  /\ head = [i \in Items |-> 0]
  /\ live = [i \in Items |-> {}]
  /\ helper = [i \in Items |-> {}]
  /\ verdict = [i \in Items |-> "none"]
  /\ judged = [i \in Items |-> {}]
  /\ signals = [i \in Items |-> {}]
  /\ inbox = [i \in Items |-> {}]
  /\ heard = [i \in Items |-> {}]
  /\ posted = [i \in Items |-> {}]
  /\ tree = [i \in Items |-> FALSE]
  /\ faults = MaxFaults

\* A fault of this kind is enabled in the instance, and one is left to spend.
Fault(kind) == kind \in Events /\ faults > 0 /\ faults' = faults - 1

\* The branch moves on GitHub: CI runs again on the new head, approval is stale.
Pushed(pull) == [pull EXCEPT !.pr = "open", !.ci = "pending", !.approved = FALSE,
                               !.fresh = TRUE]

\* The pull request lands on its base; CI of the merge commit starts.
Landed(pull) == [pull EXCEPT !.pr = "merged", !.main = "pending"]

---------------------------------------------------------------------------
(* Implementers *)

\* A worker commits and pushes; the first push opens the pull request, and a push may bring
\* a conflicting branch up to date.
WorkerPushes(i, base) ==
  /\ live[i] # {}
  /\ head[i] < MaxCommits
  /\ gh[i].pr # "merged"
  /\ head' = [head EXCEPT ![i] = @ + 1]
  /\ \E m \in {gh[i].mergeable, "yes"} :
       gh' = [gh EXCEPT ![i] = [Pushed(gh[i]) EXCEPT !.base = IF gh[i].pr = "none" THEN base ELSE @,
                                                     !.mergeable = m]]
  /\ UNCHANGED <<live, helper, verdict, judged, signals, inbox, heard, posted, tree, faults>>

\* nw inbox: the worker drains its inbox.
WorkerReads(i) ==
  /\ live[i] # {}
  /\ inbox[i] # {}
  /\ heard' = [heard EXCEPT ![i] = @ \cup inbox[i]]
  /\ inbox' = [inbox EXCEPT ![i] = {}]
  /\ UNCHANGED <<gh, head, live, helper, verdict, judged, signals, posted, tree, faults>>

\* nw no-new-info, nw pushback, nw feedback-done
WorkerSignals(i) ==
  /\ live[i] # {}
  /\ gh[i].pr = "open"
  /\ \E s \in SignalNames \cap Events :
       /\ s \notin signals[i]
       /\ signals' = [signals EXCEPT ![i] = @ \cup {s}]
  /\ UNCHANGED <<gh, head, live, helper, verdict, judged, inbox, heard, posted, tree, faults>>

SessionDies(i) ==
  /\ Fault("session-death")
  /\ \E s \in live[i] : live' = [live EXCEPT ![i] = @ \ {s}]
  /\ UNCHANGED <<gh, head, helper, verdict, judged, signals, inbox, heard, posted, tree>>

---------------------------------------------------------------------------
(* Helpers *)

ReviewerDecides(i) ==
  /\ "reviewer" \in helper[i]
  /\ verdict[i] = "none"
  /\ \E v \in {"approve"} \cup ({"request-changes"} \cap Events) :
       /\ verdict' = [verdict EXCEPT ![i] = v]
       /\ judged' = [judged EXCEPT ![i] = IF v = "approve" THEN @ \cup {head[i]} ELSE @]
  /\ UNCHANGED <<gh, head, live, helper, signals, inbox, heard, posted, tree, faults>>

\* The branch is rewritten onto the default branch and force-pushed: a new head.
Rebased(pull) == [Pushed(pull) EXCEPT !.mergeable = "yes"]

RebaserPushes(i) ==
  /\ "rebaser" \in helper[i]
  /\ gh[i].pr = "open"
  /\ gh[i].mergeable = "no"
  /\ head[i] < MaxCommits
  /\ gh' = [gh EXCEPT ![i] = Rebased(@)]
  /\ head' = [head EXCEPT ![i] = @ + 1]
  /\ UNCHANGED <<live, helper, verdict, judged, signals, inbox, heard, posted, tree, faults>>

\* The forward-fixer opens a repair PR for the item; it is the one tracked from here.
FixerOpensPullRequest(i) ==
  /\ "fixer" \in helper[i]
  /\ gh[i].pr = "merged"
  /\ gh[i].kind = "work"
  /\ gh' = [gh EXCEPT ![i] = [Pushed(NoPullRequest) EXCEPT !.kind = "repair", !.main = gh[i].main]]
  /\ UNCHANGED <<head, live, helper, verdict, judged, signals, inbox, heard, posted, tree, faults>>

HelperDies(i) ==
  /\ Fault("helper-death")
  /\ \E h \in helper[i] : helper' = [helper EXCEPT ![i] = @ \ {h}]
  /\ UNCHANGED <<gh, head, live, verdict, judged, signals, inbox, heard, posted, tree>>

---------------------------------------------------------------------------
(* GitHub and its people *)

\* A pull request of an earlier session: it has commits, but no worktree here.
PriorPullRequest(i) ==
  /\ Fault("existing-pr")
  /\ gh[i].pr = "none" /\ head[i] = 0
  /\ gh' = [gh EXCEPT ![i] = Pushed(@)]
  /\ head' = [head EXCEPT ![i] = 1]
  /\ UNCHANGED <<live, helper, verdict, judged, signals, inbox, heard, posted, tree>>

\* Deleting a merged dependency branch, GitHub retargets the PRs that sat on it.
GithubRetargets(i) ==
  /\ gh[i].pr = "open" /\ gh[i].base # NoItem
  /\ gh[gh[i].base].pr = "merged"
  /\ gh' = [gh EXCEPT ![i].base = NoItem]
  /\ UNCHANGED <<head, live, helper, verdict, judged, signals, inbox, heard, posted, tree, faults>>

CiPasses(i) ==
  /\ gh[i].pr = "open" /\ gh[i].ci = "pending"
  /\ gh' = [gh EXCEPT ![i].ci = "pass", ![i].fresh = TRUE]
  /\ UNCHANGED <<head, live, helper, verdict, judged, signals, inbox, heard, posted, tree, faults>>

CiFails(i) ==
  /\ Fault("ci-failure")
  /\ gh[i].pr = "open" /\ gh[i].ci = "pending"
  /\ gh' = [gh EXCEPT ![i].ci = "fail", ![i].fresh = TRUE]
  /\ UNCHANGED <<head, live, helper, verdict, judged, signals, inbox, heard, posted, tree>>

MainCiPasses(i) ==
  /\ gh[i].pr = "merged" /\ gh[i].main = "pending"
  /\ gh' = [gh EXCEPT ![i].main = "pass"]
  /\ UNCHANGED <<head, live, helper, verdict, judged, signals, inbox, heard, posted, tree, faults>>

MainCiFails(i) ==
  /\ Fault("main-ci-failure")
  /\ gh[i].pr = "merged" /\ gh[i].main = "pending"
  /\ gh' = [gh EXCEPT ![i].main = "fail"]
  /\ UNCHANGED <<head, live, helper, verdict, judged, signals, inbox, heard, posted, tree>>

\* The default branch moves under an open pull request.
Conflicts(i) ==
  /\ Fault("conflict")
  /\ gh[i].pr = "open" /\ gh[i].mergeable = "yes"
  /\ gh' = [gh EXCEPT ![i].mergeable = "no"]
  /\ UNCHANGED <<head, live, helper, verdict, judged, signals, inbox, heard, posted, tree>>

HumanApproves(i) ==
  /\ "approval" \in Events
  /\ gh[i].pr = "open" /\ ~gh[i].approved
  /\ gh' = [gh EXCEPT ![i].approved = TRUE]
  /\ UNCHANGED <<head, live, helper, verdict, judged, signals, inbox, heard, posted, tree, faults>>

HumanMerges(i) ==
  /\ "external-merge" \in Events
  /\ gh[i].pr = "open" /\ gh[i].ci = "pass" /\ gh[i].mergeable = "yes"
  /\ gh' = [gh EXCEPT ![i] = Landed(@)]
  /\ UNCHANGED <<head, live, helper, verdict, judged, signals, inbox, heard, posted, tree, faults>>

\* A trusted human comments; each comment of the instance is posted once.
HumanComments(i) ==
  /\ "comment" \in Events
  /\ gh[i].pr = "open"
  /\ \E c \in Comments \ posted[i] : posted' = [posted EXCEPT ![i] = @ \cup {c}]
  /\ UNCHANGED <<gh, head, live, helper, verdict, judged, signals, inbox, heard, tree, faults>>
=============================================================================
