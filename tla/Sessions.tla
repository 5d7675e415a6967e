------------------------------ MODULE Sessions ------------------------------
(***************************************************************************)
(* The terminal sessions of the workers: how a backend names, lists and    *)
(* closes them, and how the daemon, which knows a session by a reference   *)
(* and an item by its ID, launches, watches, replaces and cleans.  All     *)
(* roles of an item are launched under the item's ID.                      *)
(* (core/mux.ts, core/cmux.ts, core/tmux.ts, core/headless.ts,             *)
(*  core/commands/launch.ts, core/commands/clean.ts, core/snapshot.ts,     *)
(*  core/reconstruct.ts)                                                   *)
(***************************************************************************)
EXTENDS Integers, FiniteSets, Sequences

CONSTANTS
  Items,
  Helpers,       \* the other roles: reviewer, rebaser, forward fixer
  Environments,  \* what a daemon may be started in: [asked, inside, layout]
  Contains,      \* pairs <<j, i>>: the ID of j contains the ID of i
  MaxSessions,   \* bound on sessions started
  MaxCrashes     \* bound on crashes of the daemon

ASSUME SessionsAssumption ==
  /\ Environments # {}
  /\ Environments \subseteq [asked : {"none", "cmux", "tmux", "headless"},
                            inside : SUBSET {"cmux", "tmux"},
                            layout : {"dashboard", "windows"}]
  /\ Contains \subseteq Items \X Items
  /\ \A i \in Items : <<i, i>> \in Contains
  /\ "implementer" \notin Helpers
  /\ MaxSessions \in Nat /\ MaxCrashes \in Nat

VARIABLES
  place,     \* the backend the daemon resolved (tmux once for each layout)
  started,   \* the sessions ever started, in order: item, role
  running,   \* those that run, by number
  pidFile,   \* item -> the process its .pid file names, 0 for no file (headless)
  refs,      \* item -> role -> the reference the daemon holds, 0 for none
  saved,     \* what the state file holds of refs
  crashes    \* crashes so far

vars == <<place, started, running, pidFile, refs, saved, crashes>>

Roles == {"implementer"} \cup Helpers

\* A reference is a number under cmux (workspace:N) and in a tmux dashboard (%N); elsewhere it
\* is built from the item's ID, and stands for whatever bears that name.
Numbered == place \in {"cmux", "dashboard"}
Named == MaxSessions + 1
Refs == 0 .. Named

Of(i) == {n \in running : started[n].item = i}
Implementers(i) == {n \in Of(i) : started[n].role = "implementer"}

---------------------------------------------------------------------------
(* The backends *)

\* autoDetectMuxType
Detected(e) ==
  IF "cmux" \in e.inside THEN "cmux" ELSE IF "tmux" \in e.inside THEN "tmux" ELSE "headless"

\* resolveBackend: a backend asked for counts when its session is there, else headless it is.
Backend(e) ==
  IF e.asked = "none" THEN Detected(e)
  ELSE IF e.asked \in e.inside THEN e.asked ELSE "headless"

\* createMux: tmux has a layout.
Resolved(e) == IF Backend(e) = "tmux" THEN e.layout ELSE Backend(e)

Places == {Resolved(e) : e \in Environments}

\* What a reference of the item names now.
Target(i, ref) ==
  IF ref = 0 THEN {}
  ELSE IF Numbered THEN {ref} \cap running
  ELSE IF place = "windows" THEN Of(i)
  ELSE {pidFile[i]} \cap running

RefOf(n) == IF Numbered THEN n ELSE Named

\* listWorkspaces: panes or windows, or workspaces; under headless, what the .pid files name.
ListedHeadless == {pidFile[i] : i \in Items} \cap running
Listed == IF place = "headless" THEN ListedHeadless ELSE running

\* launchWindowWorkspace, launchDashboardPane: the window or pane that bears the item's name
\* makes room for the new one.
WindowReplaced(i) == IF place = "windows" THEN Of(i) ELSE {}
PaneReplaced(i) == IF place = "dashboard" THEN Of(i) ELSE {}
Replaced(i) == WindowReplaced(i) \cup PaneReplaced(i)

\* The .pid file of an item names the process started last.
PidWritten(i, n) == IF place = "headless" THEN [pidFile EXCEPT ![i] = n] ELSE pidFile

\* closeWorkspace: what no session answers to is not closed.  A .pid file is removed in any case.
PidRemoved(i, ref) ==
  IF place = "headless" /\ ref # 0 THEN [pidFile EXCEPT ![i] = 0] ELSE pidFile

Close(i, ref) ==
  /\ running' = running \ Target(i, ref)
  /\ pidFile' = PidRemoved(i, ref)

Closes(i, ref) ==
  Target(i, ref) # {} \/ (place = "headless" /\ pidFile[i] # 0)

\* listWorkspaces removes the .pid files of the dead.
PidsSwept == [i \in Items |-> IF place = "headless" /\ pidFile[i] \notin running
                              THEN 0 ELSE pidFile[i]]

---------------------------------------------------------------------------
(* The daemon *)

None == [r \in Roles |-> 0]

Init ==
  /\ \E e \in Environments : place = Resolved(e)
  /\ started = <<>>
  /\ running = {}
  /\ pidFile = [i \in Items |-> 0]
  /\ refs = [i \in Items |-> None]
  /\ saved = refs
  /\ crashes = 0

HelperFree(i) == \A r \in Helpers : refs[i][r] = 0

\* An item has one session of a role, and one helper at a time, which its state calls for in a
\* later cycle than the one that launched the implementer.
MayLaunch(i, role) ==
  /\ refs[i][role] = 0 /\ HelperFree(i)
  /\ role \in Helpers => saved[i]["implementer"] = refs[i]["implementer"]

\* launchAiSession
Launch(i, role) ==
  LET n == Len(started) + 1
  IN  /\ MayLaunch(i, role)
      /\ n <= MaxSessions
      /\ started' = Append(started, [item |-> i, role |-> role])
      /\ running' = (running \ Replaced(i)) \cup {n}
      /\ pidFile' = PidWritten(i, n)
      /\ refs' = [refs EXCEPT ![i][role] = RefOf(n)]
      /\ UNCHANGED <<place, saved, crashes>>

\* launchSingleItem
LaunchImplementer(i) == Launch(i, "implementer")

\* launchReviewWorker, launchRebaserWorker, launchForwardFixerWorker
LaunchHelper(i, role) == role \in Helpers /\ Launch(i, role)

\* The session of the same name is gone before the new one fails to start.
LaunchFails(i, role) ==
  /\ MayLaunch(i, role)
  /\ running' = running \ Replaced(i)
  /\ UNCHANGED <<place, started, pidFile, refs, saved, crashes>>

\* cleanReview, cleanRebaser, cleanForwardFixer.
Dismiss(i, role) ==
  /\ refs[i][role] # 0
  /\ Close(i, refs[i][role])
  /\ refs' = [refs EXCEPT ![i][role] = 0]
  /\ UNCHANGED <<place, started, saved, crashes>>

\* isWorkerAliveWithCache: a reference is held, and a line bears it or the item's ID.
Alive(i) ==
  refs[i]["implementer"] # 0 /\ (Target(i, refs[i]["implementer"]) \cup Of(i)) \cap Listed # {}

\* Mutant: the reference is dropped without closing what it names.
RetryUnclosed(i) ==
  /\ refs[i]["implementer"] # 0 /\ HelperFree(i)
  /\ refs' = [refs EXCEPT ![i]["implementer"] = 0]
  /\ UNCHANGED <<place, started, running, pidFile, saved, crashes>>

\* executeRetry, for a worker found dead and for a relaunch with feedback: a session that does
\* not close is warned about, and its reference dropped all the same.
Retry(i) ==
  /\ refs[i]["implementer"] # 0 /\ HelperFree(i)
  /\ Close(i, refs[i]["implementer"])
  /\ refs' = [refs EXCEPT ![i]["implementer"] = 0]
  /\ UNCHANGED <<place, started, saved, crashes>>

\* executeWorkspaceClose, and executeMerge: the reference of what does not close is kept.
WorkspaceClose(i) ==
  /\ refs[i]["implementer"] # 0
  /\ Close(i, refs[i]["implementer"])
  /\ refs' = IF Closes(i, refs[i]["implementer"])
             THEN [refs EXCEPT ![i]["implementer"] = 0] ELSE refs
  /\ UNCHANGED <<place, started, saved, crashes>>

\* A poll lists the workers, which removes .pid files of the dead; the cycle ends in a save.
Cycle ==
  /\ pidFile' = PidsSwept
  /\ saved' = refs
  /\ UNCHANGED <<place, started, running, refs, crashes>>

\* Mutant: a worker is looked up by its saved reference alone.
RecoverableSaved(i) == {n \in Listed : saved[i]["implementer"] = RefOf(n) /\ started[n].item = i}

\* recoverWorkspaceRef: the line that bears the saved reference, or one that bears the ID.
Recoverable(i) ==
  LET kept == {n \in Listed : saved[i]["implementer"] = RefOf(n) /\ (Numbered \/ started[n].item = i)}
  IN  IF kept # {} THEN kept ELSE {n \in Listed : <<started[n].item, i>> \in Contains}

\* The daemon is killed and started again.  The references of helpers are taken as saved.
Restart ==
  /\ crashes < MaxCrashes
  /\ crashes' = crashes + 1
  /\ \E found \in [Items -> Refs] :
       /\ \A i \in Items : IF Recoverable(i) = {} THEN found[i] = 0
                           ELSE \E n \in Recoverable(i) : found[i] = RefOf(n)
       /\ refs' = [i \in Items |-> [saved[i] EXCEPT !["implementer"] = found[i]]]
  /\ pidFile' = PidsSwept
  /\ UNCHANGED <<place, started, running, saved>>

---------------------------------------------------------------------------
(* What happens beside the daemon *)

Exit ==
  /\ \E n \in running : running' = running \ {n}
  /\ UNCHANGED <<place, started, pidFile, refs, saved, crashes>>

\* nw close-workspace: the first line that contains the ID.
CloseByCommand(i) ==
  /\ \E n \in Listed : <<started[n].item, i>> \in Contains /\ Close(started[n].item, RefOf(n))
  /\ UNCHANGED <<place, started, refs, saved, crashes>>

\* nw clean: every line that contains the ID.
CloseAllByCommand(i) ==
  LET hit == {n \in Listed : <<started[n].item, i>> \in Contains}
  IN  /\ hit # {}
      /\ running' = running \ hit
      /\ pidFile' = [j \in Items |-> IF pidFile[j] \in hit THEN 0 ELSE pidFile[j]]
      /\ UNCHANGED <<place, started, refs, saved, crashes>>

Next ==
  \/ \E i \in Items, role \in Roles : LaunchFails(i, role)
  \/ \E i \in Items, role \in Helpers : LaunchHelper(i, role) \/ Dismiss(i, role)
  \/ \E i \in Items : LaunchImplementer(i) \/ Retry(i) \/ WorkspaceClose(i) \/ CloseByCommand(i) \/ CloseAllByCommand(i)
  \/ Cycle \/ Restart \/ Exit

Spec == Init /\ [][Next]_vars

---------------------------------------------------------------------------
(* Properties *)

SessionsTypeOK ==
  /\ place \in Places
  /\ started \in Seq([item : Items, role : Roles]) /\ Len(started) <= MaxSessions
  /\ running \subseteq DOMAIN started
  /\ pidFile \in [Items -> {0} \cup DOMAIN started]
  /\ refs \in [Items -> [Roles -> Refs]]
  /\ saved \in [Items -> [Roles -> Refs]]
  /\ crashes \in 0 .. MaxCrashes

\* No two implementers of an item run at once: they would share a worktree and a branch.
\* executeRetry is to see to it by closing the old session before the relaunch.
OneImplementer == \A i \in Items : Cardinality(Implementers(i)) <= 1

\* An implementer that runs is within reach: the daemon holds a reference that names it, so a
\* retry, a merge or a clean closes it; and it is listed, so it is not taken for dead.
ImplementerReached ==
  \A i \in Items, n \in 1 .. MaxSessions :
    n \in running /\ n \in Implementers(i)
      => n \in Target(i, refs[i]["implementer"]) /\ Alive(i)
=============================================================================
