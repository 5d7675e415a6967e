------------------------------ MODULE Recovery -------------------------------
(***************************************************************************)
(* The orchestrator's process dies and is started again.  Its records live *)
(* in memory and are written to one state file at the end of every cycle;  *)
(* workers, helpers and GitHub go on while it is down; a new process       *)
(* rebuilds its records from the file, the worktrees, the sessions the     *)
(* multiplexer lists and the pull requests.                                *)
(* (core/daemon.ts, core/reconstruct.ts, core/startup-items.ts,            *)
(* core/commands/orchestrate.ts)                                           *)
(***************************************************************************)
EXTENDS Orchestrator

CONSTANT Interactive   \* the engine runs under the terminal UI, which starts the session

ASSUME RecoveryAssumption == Interactive \in BOOLEAN

VARIABLES
  saved,     \* the records in the state file
  unsaved,   \* a cycle has ended and the file is not written yet
  held       \* items an earlier start blocked for the operator to relaunch

disk == <<saved, unsaved, held>>
recoveryVars == <<vars, disk>>

(***************************************************************************)
(* serializeOrchestratorState, without what is written and never read      *)
(* back.  Flags and counters that are not in it start anew.                *)
(***************************************************************************)
Serialized(it) ==
  [it EXCEPT !.illegal = FALSE, !.touched = FALSE, !.retryWs = 0, !.armed = FALSE,
             !.needsCiFix = FALSE, !.lastCommit = 0, !.rebaseAttempts = 0, !.ciFails = 0,
             !.mergeFails = 0, !.notAlive = 0, !.graced = FALSE, !.base = NoItem]

FileOf(records) == [i \in Items |-> Serialized(records[i])]

StartConfig ==
  [strategy |-> Strategy, skipReview |-> FALSE, accepting |-> TRUE,
   limit |-> CHOOSE n \in Limits : \A m \in Limits : m <= n, reevaluate |-> FALSE]

RecoveryInit ==
  /\ Init
  /\ saved = FileOf(item)
  /\ unsaved = FALSE
  /\ held = {}

---------------------------------------------------------------------------
(* A process that runs *)

\* Before actions that take long the loop writes what it has decided.
WritesEarly ==
  \/ phase = "schedule" /\ \E n \in DOMAIN plan' : plan'[n].type \in {"launch", "retry"}
  \/ config'.limit # config.limit \/ config'.accepting # config.accepting

Run ==
  /\ phase # "down" /\ ~unsaved
  /\ Next
  /\ saved' = IF WritesEarly THEN FileOf(item') ELSE saved
  /\ unsaved' = (phase # "idle" /\ phase' = "idle")
  /\ UNCHANGED held

\* onPollComplete: a temporary file, renamed over the old one.
Save ==
  /\ unsaved
  /\ saved' = FileOf(item)
  /\ unsaved' = FALSE
  /\ UNCHANGED <<vars, held>>

\* Nothing of the process is left; what it was doing stays half done.
Forget ==
  /\ item' = [i \in Items |-> NewItem]
  /\ config' = StartConfig
  /\ phase' = "down"
  /\ todo' = <<>>
  /\ plan' = <<>>
  /\ snaps' = [i \in Items |-> NoSnapshot]
  /\ readyIds' = {}
  /\ quiet' = [i \in Items |-> 0]
  /\ unsaved' = FALSE
  /\ UNCHANGED <<saved, held>>

Crash ==
  /\ phase # "down"
  /\ Fault("crash")
  /\ Forget
  /\ UNCHANGED <<gh, head, live, helper, verdict, judged, signals, inbox, heard, posted, tree>>

\* SIGTERM, seen while the loop sleeps: the sessions of items that are over are closed.
Shutdown ==
  LET over(i) == item[i].state \in TerminalStates \cup {"merged"}
  IN  /\ phase = "idle" /\ ~unsaved
      /\ Fault("shutdown")
      /\ Forget
      /\ live' = [i \in Items |-> IF over(i) THEN live[i] \ {item[i].ws} ELSE live[i]]
      /\ helper' = [i \in Items |-> IF over(i) /\ item[i].ws = Borrowed THEN {} ELSE helper[i]]
      /\ UNCHANGED <<gh, head, verdict, judged, signals, inbox, heard, posted, tree>>

\* Meanwhile.
Elsewhere(i) == phase = "down" /\ WorldStep(i) /\ UNCHANGED <<item, control, disk>>

---------------------------------------------------------------------------
(* A new process *)

\* The work item file is removed from the default branch by the merge of its pull request,
\* or by the clean-up after it: an item that has landed is mostly not in the new session.
HasLanded(i) == gh[i].pr = "merged" \/ gh[i].kind = "repair"

\* cleanOrphanedWorktrees knows no work item for a forward-fixer's worktree: it is removed
\* with its branch, here and on GitHub, which closes the repair pull request.  The fixer's
\* session bears the item's name and not the worktree's: it stays.
WithoutRepairs ==
  [i \in Items |-> IF gh[i].kind = "repair" /\ gh[i].pr = "open"
                   THEN [NoPullRequest EXCEPT !.pr = "merged", !.main = gh[i].main] ELSE gh[i]]

Ousted(names) == IF "fixer" \in names THEN (names \ {"fixer"}) \cup {"ousted"} ELSE names

\* checkPrStatus, as the state it stands for.
PullStatus(i, repair) ==
  LET found == FoundAs(i, repair)
  IN  CASE found # "open"      -> found
        [] gh[i].ci = "pass"   -> "ci-passed"
        [] gh[i].ci = "fail"   -> "ci-failed"
        [] OTHER               -> "ci-pending"

\* recoverWorkspaceRef: the session saved, or else any whose line names the item.
Reattachable(i, file) ==
  IF file[i].ws \in live[i] \/ (file[i].ws = Borrowed /\ helper[i] # {}) THEN {file[i].ws}
  ELSE IF live[i] = {} /\ helper[i] = {} THEN {0}
  ELSE live[i] \cup (IF helper[i] = {} THEN {} ELSE {Borrowed})

\* Mutant: the counters and the review are not read back.
RestoredPlain(i, it) == [NewItem EXCEPT !.pr = it.pr, !.since = posted[i]]

\* What comes back from the file.  Comments not checked for yet count from now on.
Restored(i, it) ==
  [it EXCEPT !.state = "queued", !.ws = 0, !.since = IF it.checked THEN @ ELSE posted[i]]

Reentry == {"ci-pending", "ci-passed", "ci-failed", "review-pending", "reviewing", "merging", "merged"}

\* The pull request found is the one tracked from here on.
Tracks(it, status, repair) ==
  [it EXCEPT !.pr = IF status = "none" THEN @ ELSE IF repair THEN "repair" ELSE "work"]

\* restoreRepairPrTrackingState
RepairResumed(i, it, was, asked) ==
  LET status == IF asked THEN PullStatus(i, TRUE) ELSE "none"
  IN  [Tracks(it, status, TRUE) EXCEPT !.state = IF status = "none" THEN was ELSE status]

\* hydrateKnownPrTrackingOrImplementing: GitHub may for a moment not find a pull request.
KnownOrImplementing(it) ==
  [it EXCEPT !.state = IF it.pr # "none" THEN "ci-pending" ELSE "implementing"]

\* An item with a worktree: its pull request decides, and its session is looked for.
WorktreeResumed(i, it, ws, asked) ==
  LET repair == it.pr = "repair"
      status == IF asked THEN PullStatus(i, repair) ELSE "none"
      known  == Tracks(it, status, repair)
  IN  CASE status = "merged" -> [known EXCEPT !.state = "merged"]
        [] status # "none"   -> [known EXCEPT !.state = status, !.ws = ws]
        [] OTHER             -> [KnownOrImplementing(known) EXCEPT !.ws = ws]

\* restoreMergedWaitingState: an item saved as merged waits on for the CI of its merge commit.
StillMerged(it, status) ==
  it.state = "merged" /\ (status = "merged" \/ (status = "none" /\ it.pr # "none"))

\* reconstructState, for one item; "asked" when GitHub answers.
Reconstructed(i, file, ws, asked) ==
  LET was     == file[i].state
      it      == Restored(i, file[i])
      repair  == it.pr = "repair"
      status  == IF asked THEN PullStatus(i, repair) ELSE "none"
      waiting == StillMerged([it EXCEPT !.state = was], status)
  IN  CASE waiting -> [Tracks(it, status, repair) EXCEPT !.state = "merged"]
        [] ~waiting /\ was = "blocked" ->
             [it EXCEPT !.state = IF i \in held /\ tree[i] THEN "implementing" ELSE "blocked"]
        [] ~waiting /\ it.mergeSha /\ was = "fixing-forward" -> RepairResumed(i, it, was, asked)
        [] ~waiting /\ it.mergeSha /\ was \in {"forward-fix-pending", "fix-forward-failed"} ->
             [it EXCEPT !.state = was]
        [] ~waiting /\ repair /\ was \in Reentry /\ ~(it.mergeSha /\ was = "fixing-forward") ->
             RepairResumed(i, it, was, asked)
        [] OTHER -> IF tree[i] THEN WorktreeResumed(i, it, ws, asked) ELSE it

\* resolveUnresolvedRestartedWorkers: relaunched, or held for the operator.
Unresolved(it) == it.state = "implementing" /\ it.ws = 0

Decided(it, hold) == IF Unresolved(it) THEN [it EXCEPT !.state = IF hold THEN "blocked" ELSE "ready"] ELSE it

\* Under the terminal UI a new session first writes a file of queued items over the old one.
Files == {saved} \cup (IF Interactive THEN {FileOf([i \in Items |-> NewItem])} ELSE {})

Restart ==
  /\ phase = "down"
  /\ \E file \in Files, gone \in SUBSET {i \in Items : HasLanded(i)},
        ws \in [Items -> {0, Borrowed} \cup Sessions],
        hold \in SUBSET (IF "hold" \in Events THEN Items ELSE {}) :
       /\ \A i \in Items : ws[i] \in Reattachable(i, file)
       /\ \E asked \in SUBSET Items :
            /\ \/ asked = Items /\ UNCHANGED faults
               \/ \E i \in Items : asked = Items \ {i} /\ Fault("blind-poll")
            /\ LET rebuilt(i) == Decided(Reconstructed(i, file, ws[i], i \in asked), i \in hold)
               IN  item' = [i \in Items |-> IF i \in gone THEN [NewItem EXCEPT !.state = "done"]
                                            ELSE rebuilt(i)]
       /\ held' = {i \in held \cup hold : item'[i].state = "blocked"}
       /\ saved' = FileOf(item')
       /\ \E swept \in SUBSET {i \in gone : tree[i]} :
            /\ tree' = [i \in Items |-> tree[i] /\ i \notin swept]
            /\ inbox' = [i \in Items |-> IF i \in swept THEN {} ELSE inbox[i]]
            /\ live' = [i \in Items |-> IF i \in swept /\ live[i] # {}
                                        THEN live[i] \ {CHOOSE n \in live[i] : TRUE} ELSE live[i]]
            /\ helper' = [i \in Items |-> IF i \in swept /\ live[i] = {} THEN {} ELSE Ousted(helper[i])]
  /\ gh' = WithoutRepairs
  /\ phase' = "idle"
  /\ UNCHANGED <<config, todo, plan, snaps, readyIds, quiet, unsaved,
                 head, verdict, judged, signals, heard, posted>>

RecoveryNext == Run \/ Save \/ Crash \/ Shutdown \/ Restart \/ \E i \in Items : Elsewhere(i)

RecoverySpec == RecoveryInit /\ [][RecoveryNext]_recoveryVars

\* A process that ended is started again, and a running one goes on; CI of a merge commit is
\* decided, and a fixer that lives opens its repair pull request.
RecoveryFairness ==
  /\ WF_recoveryVars(Run /\ Cycle)
  /\ WF_recoveryVars(Save)
  /\ WF_recoveryVars(Restart)
  /\ \A i \in Items : /\ SF_recoveryVars(Run /\ MainCiPasses(i))
                      /\ SF_recoveryVars(Run /\ FixerOpensPullRequest(i))

FairRecoverySpec == RecoverySpec /\ RecoveryFairness

---------------------------------------------------------------------------
(* Properties *)

\* Where a comment that was taken up can be found again after a crash: in the file, or on
\* the pull request, later than the last check the file knows of.
Recoverable(i) ==
  saved[i].batch \cup saved[i].feedback
  \cup (IF saved[i].checked THEN posted[i] \ saved[i].since ELSE posted[i])

Remembered(i) ==
  IF phase = "down" THEN Recoverable(i) \cup inbox[i] \cup heard[i]
  ELSE Kept(i) \cup (posted[i] \ item[i].since)

\* A comment that the file or the process knows of outlasts a crash at any point: it is in the
\* file, or made after the last check the file knows of and fetched again, or with the worker;
\* until the item's pull request has landed or the item is given up.  What the file knows
\* nothing of, not even that comments were checked, is the exception (hazards).
CommentsOutlast ==
  [][\A i \in Items : \/ (Kept(i) \cup saved[i].batch \cup saved[i].feedback) \cap Comments
                           \subseteq Remembered(i)'
                      \/ HasLanded(i)
                      \/ item'[i].state \in TerminalStates \cup {"merged"}
                      \/ phase = "down" /\ ~saved[i].checked]_recoveryVars

Concluded(i) ==
  \/ phase # "down" /\ Settled(i)
  \/ gh[i].kind = "repair" /\ gh[i].pr = "open"
  \/ "ousted" \in helper[i]

\* An item whose pull request has landed is settled in the end, however often the process
\* dies: cleaned up, given up or gone from the session, unless a repair pull request has been
\* opened in its place, which has to land first, or a restart took the worktree of its fixer.
LandedSettles == \A i \in Items : gh[i].pr = "merged" ~> Concluded(i)
=============================================================================
