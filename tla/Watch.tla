------------------------------- MODULE Watch -------------------------------
(***************************************************************************)
(* An interactive session: the status page of Panel and the loop of its    *)
(* engine, from the listing of the work items to their launch.  The life   *)
(* of a launched item is the subject of Orchestrator; here it is active    *)
(* until its pull request lands or its worker dies.                        *)
(* (core/orchestrate-event-loop.ts, core/commands/orchestrate.ts,          *)
(*  core/startup-items.ts, core/work-item-files.ts)                        *)
(*                                                                         *)
(* The loop awaits the snapshot, the broker and its sleep; commands of the *)
(* page are read there and nowhere else.                                   *)
(***************************************************************************)
EXTENDS Panel, FiniteSets

CONSTANTS
  Items,
  Requests,  \* what --items may name
  Modes,     \* whether the session watches for new items
  Startups,  \* the settings a session may start with
  MaxPipe    \* bound on snapshots of polls the page has not read

ASSUME WatchAssumption ==
  /\ Requests \subseteq SUBSET Items
  /\ Modes \subseteq BOOLEAN
  /\ MaxPipe \in Nat \ {0}

VARIABLES
  watch,      \* --watch
  requested,  \* --items
  remote,     \* the work item files on main at GitHub
  origin,     \* those of the local origin/main
  checkout,   \* those in the project's checkout
  proposed,   \* items with an open pull request
  landed,     \* items with a merged one
  item,       \* what the engine knows of each item
  held,       \* items whose implementer lives, and the engine has its reference
  stray,      \* items with a living implementer the engine has no reference to
  worktrees,  \* items with a worktree
  phase,      \* where the loop is: "off", "top", "waiting", "polling", "claiming"
  launches,   \* the launches the transitions ask for
  broker,     \* the broker the loop was given: "none", "up", "gone"
  claimed     \* items the broker gave to this daemon

worldVars == <<remote, origin, checkout, proposed, landed>>
itemVars  == <<item, held, stray, worktrees, claimed>>
loopVars  == <<phase, launches, broker, watch, requested>>
vars == <<panelVars, worldVars, itemVars, loopVars>>

States == {"untracked", "queued", "active", "merged", "done", "stuck"}
Terminal == {"done", "stuck"}
Tracked == {i \in Items : item[i] # "untracked"}
In(s) == {i \in Items : item[i] = s}

\* The page does not see what the loop does, nor the loop what the page does.
PageRests == UNCHANGED <<args, shown, pending, intent, overlay, quitKey, closing, debounce,
                         operator, commands, engine, aborted, connecting, chosen>>

---------------------------------------------------------------------------
(* The listing *)

\* RECONCILE_PRESERVE_STATES
Preserved == {"merged", "done", "stuck"}

\* Items the scan found, or no longer finds. A listing of origin/main that fails is empty.
Added(listing) == listing \ Tracked
Removed(listing) == {i \in Tracked \ listing : item[i] \notin Preserved}

\* Mutant: the session of an item that is dropped is left to its worker.
ReconcileForgets(listing) ==
  /\ item' = [i \in Items |-> IF i \in Added(listing) THEN "queued"
                              ELSE IF i \in Removed(listing) THEN "untracked" ELSE item[i]]
  /\ held' = held \ Removed(listing)
  /\ stray' = stray \cup (held \cap Removed(listing))
  /\ UNCHANGED <<worktrees, claimed>>

\* Mutant: what is new is only taken when nothing has gone.
ReconcileOneKind(listing) ==
  /\ item' = [i \in Items |-> IF i \in Added(listing) /\ Removed(listing) # {} THEN "queued"
                              ELSE IF i \in Removed(listing) THEN "untracked" ELSE item[i]]
  /\ held' = held \ Removed(listing)
  /\ UNCHANGED <<stray, worktrees, claimed>>

\* reconcileWatchItems: the worktree and the branch of a dropped item stay, its sessions are closed.
Reconcile(listing) ==
  /\ item' = [i \in Items |-> IF i \in Added(listing) THEN "queued"
                              ELSE IF i \in Removed(listing) THEN "untracked" ELSE item[i]]
  /\ held' = held \ Removed(listing)
  /\ UNCHANGED <<stray, worktrees, claimed>>

\* A listing of origin/main; that git fails is an event.
Listing(listing) ==
  \/ listing = origin /\ UNCHANGED events
  \/ listing = {} /\ origin # {} /\ Happens

---------------------------------------------------------------------------
(* The loop *)

\* The finally of cmdOrchestrate: sessions of items that are over are closed, the others live on.
Finish ==
  /\ running' = "finished" /\ phase' = "off"
  /\ messages' = Append(messages, Result)
  /\ held' = {}
  /\ stray' = stray \cup {i \in held : item[i] \notin Terminal \cup {"merged"}}
  /\ launches' = {}
  /\ UNCHANGED <<item, worktrees, claimed, broker, origin, checkout, events>>

\* handleRunComplete: nothing is left of the items but the worktrees of the stuck ones.
RunComplete ==
  /\ held' = held \ Tracked
  /\ worktrees' = worktrees \ (Tracked \ In("stuck"))
  /\ UNCHANGED <<item, stray, claimed>>

\* fetchOrigin, ffMerge: the checkout follows when it can.
MainRefresh ==
  /\ origin' = remote
  /\ checkout' \in {checkout, remote}

Over == \A i \in Tracked : item[i] \in Terminal

\* The head of an iteration, up to the snapshot. Whether the scan and the refresh are due is a
\* matter of time.
Iterate(scan, refresh) ==
  /\ phase = "top"
  /\ IF aborted THEN ~scan /\ ~refresh /\ Finish
     ELSE IF Over /\ ~watch
          THEN /\ ~scan /\ ~refresh
               /\ running' = "finished" /\ phase' = "off" /\ messages' = Append(messages, Result)
               /\ RunComplete
               /\ UNCHANGED <<launches, broker, origin, checkout, events>>
     ELSE IF Over
          THEN /\ ~scan /\ ~refresh
               /\ phase' = "waiting"
               /\ RunComplete
               /\ UNCHANGED <<launches, broker, origin, checkout, events, running, messages>>
     ELSE /\ phase' = "polling"
          /\ IF scan /\ watch
             THEN \E listing \in {origin, {}} : Listing(listing) /\ Reconcile(listing)
             ELSE UNCHANGED <<itemVars, events>>
          /\ IF refresh THEN MainRefresh ELSE UNCHANGED <<origin, checkout>>
          /\ UNCHANGED <<launches, broker, running, messages>>
  /\ PageRests
  /\ UNCHANGED <<remote, proposed, landed, watch, requested>>

\* Mutant: the loop that waits for new items does not look at the signal.
WaitForItemsDeaf ==
  /\ phase = "waiting"
  /\ \E listing \in {origin, {}} : Listing(listing) /\ Reconcile(listing)
                                   /\ phase' = IF Added(listing) # {} THEN "top" ELSE "waiting"
  /\ UNCHANGED <<launches, broker, origin, checkout, running, messages>>
  /\ PageRests
  /\ UNCHANGED <<remote, proposed, landed, watch, requested>>

\* The inner loop: sleep, look at the signal, scan. It does not fetch.
WaitForItems ==
  /\ phase = "waiting"
  /\ IF aborted THEN Finish
     ELSE /\ \E listing \in {origin, {}} :
               /\ Listing(listing)
               /\ Reconcile(listing)
               /\ phase' = IF Added(listing) # {} THEN "top" ELSE "waiting"
          /\ UNCHANGED <<launches, broker, origin, checkout, running, messages>>
  /\ PageRests
  /\ UNCHANGED <<remote, proposed, landed, watch, requested>>

\* What a poll shows of the items; `again` are those whose worker is dead and that are retried.
Polled(again) ==
  [i \in Items |->
     CASE item[i] = "active" /\ i \in landed -> "merged"
       [] item[i] = "active" /\ i \notin landed \cup proposed \cup held ->
            IF i \in again THEN "queued" ELSE "stuck"
       [] item[i] = "merged" -> "done"
       [] OTHER -> item[i]]

Slots(it) == engine["limit"] - Cardinality({i \in Items : it[i] = "active"})

\* The launches a poll asks for: as many as there are slots, when work is taken.
Launchable(it) ==
  LET waiting == {i \in Items : it[i] = "queued"}
      free == IF engine["intake"] /\ Slots(it) > 0 THEN Slots(it) ELSE 0
      n == IF Cardinality(waiting) < free THEN Cardinality(waiting) ELSE free
  IN {L \in SUBSET waiting : Cardinality(L) = n}

\* executeLaunch: an item whose pull request is open gets no worker.
Launch(it, L) ==
  /\ item' = [i \in Items |-> IF i \in L THEN "active" ELSE it[i]]
  /\ worktrees' = (worktrees \ {i \in Items : it[i] = "merged"}) \cup (L \ proposed)
  /\ held' = (held \ {i \in Items : it[i] \in {"merged", "stuck"}}) \cup (L \ proposed)
  /\ UNCHANGED stray

\* onPollComplete: one line stands for the one before and the one after the actions.
PollComplete ==
  /\ Len(messages) < MaxPipe
  /\ messages' = Append(messages, Snapshot(engine))
  /\ phase' = "top" /\ launches' = {}

\* The snapshot is there: processTransitions, and the launches go to the broker the loop was
\* given, to nobody when that is gone, or ahead.
PollReturns ==
  /\ phase = "polling"
  /\ \E again \in SUBSET In("active") :
       LET it == Polled(again) IN
         \E L \in Launchable(it) :
           IF broker = "up" /\ L # {}
           THEN /\ Launch(it, {})
                /\ phase' = "claiming" /\ launches' = L
                /\ UNCHANGED messages
           ELSE Launch(it, IF broker = "gone" THEN {} ELSE L) /\ PollComplete
  /\ PageRests
  /\ UNCHANGED <<running, events, worldVars, claimed, broker, watch, requested>>

\* One claim for each launch; the broker gives what it likes of the items it was told of.
ClaimsReturn ==
  /\ phase = "claiming"
  /\ \E given \in SUBSET {i \in Tracked : item[i] \notin Terminal} :
       /\ Cardinality(given) <= Cardinality(launches)
       /\ given \cap claimed = {}
       /\ broker = "gone" => given = {}
       /\ claimed' = claimed \cup given
       /\ Launch(item, given \cap In("queued"))
  /\ PollComplete
  /\ PageRests
  /\ UNCHANGED <<running, events, worldVars, broker, watch, requested>>

---------------------------------------------------------------------------
(* The engine's start and end *)

\* cleanOrphanedWorktrees looks for the files in the checkout.
Orphaned == worktrees \ checkout

\* reconstructState, resolveUnresolvedRestartedWorkers: an item asked for is taken up where its
\* pull request or its session stands.
Reconstructed(i) ==
  IF i \notin requested THEN "untracked"
  ELSE IF i \in landed THEN "merged"
  ELSE IF i \in worktrees \ Orphaned /\ i \in proposed \cup stray THEN "active"
  ELSE "queued"

\* cmdOrchestrate in the engine child: an ID without a file, or a broker out of reach, ends it.
EngineStarts ==
  /\ running = "starting"
  /\ \/ /\ requested \subseteq origin
        /\ running' = "running" /\ phase' = "top"
        /\ item' = [i \in Items |-> Reconstructed(i)]
        /\ held' = {i \in stray \ Orphaned : Reconstructed(i) = "active"}
        /\ stray' = stray \ (Orphaned \cup held')
        /\ worktrees' = worktrees \ Orphaned
        /\ broker' = IF args["collaboration"] = "connected" THEN "up" ELSE "none"
     \/ /\ ~(requested \subseteq origin) \/ args["collaboration"] = "connected"
        /\ running' = "dead"
        /\ UNCHANGED <<phase, item, held, stray, worktrees, broker>>
  /\ PageRests
  /\ UNCHANGED <<messages, events, worldVars, claimed, launches, watch, requested>>

\* The engine is gone, its workers are not.
LoopDies ==
  /\ EngineDies
  /\ phase' = "off" /\ launches' = {}
  /\ held' = {} /\ stray' = stray \cup held
  /\ item' = [i \in Items |-> "untracked"]
  /\ UNCHANGED <<worldVars, worktrees, claimed, broker, watch, requested>>

LoopRests == UNCHANGED <<worldVars, itemVars, phase, launches, watch, requested>>

\* To be local disconnects the broker; a connection made later is not the loop's, which was given
\* a copy of its dependencies when it started.
BrokerOfLoop == IF broker = "up" /\ engine'["collaboration"] = "local" THEN "gone" ELSE broker

PageStep ==
  /\ PanelNext
  /\ broker' = BrokerOfLoop
  /\ LoopRests

EngineReadsCommand == EngineReads /\ broker' = BrokerOfLoop /\ LoopRests
PageReads == PanelReads /\ UNCHANGED broker /\ LoopRests

Closes == EngineCloses(watch) /\ UNCHANGED broker /\ LoopRests
Restarts == RestartEngine /\ UNCHANGED broker /\ LoopRests
Leaves == Leave /\ UNCHANGED broker /\ LoopRests

\* The items of the next run are chosen from the listing.
RunsMore ==
  /\ RunMore
  /\ requested' \in Requests /\ requested' # {} /\ requested' \subseteq origin
  /\ UNCHANGED <<worldVars, itemVars, phase, launches, watch, broker>>

---------------------------------------------------------------------------
(* The world *)

EngineRests == UNCHANGED <<args, shown, pending, intent, overlay, quitKey, closing, debounce,
                           operator, commands, messages, engine, running, aborted, connecting,
                           chosen, loopVars, item, worktrees, claimed, origin, checkout>>

FilePushed(i) ==
  /\ i \notin remote \cup landed /\ Happens
  /\ remote' = remote \cup {i}
  /\ UNCHANGED <<proposed, landed, held, stray>> /\ EngineRests

FileRemoved(i) ==
  /\ i \in remote /\ Happens
  /\ remote' = remote \ {i}
  /\ UNCHANGED <<proposed, landed, held, stray>> /\ EngineRests

WorkerDies(i) ==
  /\ i \in held \cup stray /\ Happens
  /\ held' = held \ {i} /\ stray' = stray \ {i}
  /\ UNCHANGED <<remote, proposed, landed>> /\ EngineRests

WorkerProposes(i) ==
  /\ i \in held \cup stray /\ i \notin proposed \cup landed
  /\ proposed' = proposed \cup {i}
  /\ UNCHANGED <<remote, landed, held, stray, events>> /\ EngineRests

\* The merge removes the item's file from main.
PullRequestLands(i) ==
  /\ i \in proposed
  /\ proposed' = proposed \ {i} /\ landed' = landed \cup {i} /\ remote' = remote \ {i}
  /\ UNCHANGED <<held, stray, events>> /\ EngineRests

---------------------------------------------------------------------------

Init ==
  /\ \E settings \in Startups : PanelInit(settings)
  /\ watch \in Modes
  /\ requested \in Requests /\ (watch \/ requested # {})
  /\ remote \in SUBSET Items /\ requested \subseteq remote
  /\ origin = remote /\ checkout = remote
  /\ proposed = {} /\ landed = {}
  /\ item = [i \in Items |-> "untracked"]
  /\ held = {} /\ stray = {} /\ worktrees = {}
  /\ phase = "off" /\ launches = {} /\ broker = "none" /\ claimed = {}

Loop ==
  \/ \E scan, refresh \in BOOLEAN : Iterate(scan, refresh)
  \/ WaitForItems
  \/ PollReturns
  \/ ClaimsReturn
  \/ EngineStarts

World ==
  \/ \E i \in Items : FilePushed(i) \/ FileRemoved(i) \/ WorkerDies(i)
  \/ \E i \in Items : WorkerProposes(i) \/ PullRequestLands(i)
  \/ LoopDies

Next == PageStep \/ Loop \/ World \/ Closes \/ Restarts \/ RunsMore \/ Leaves

Spec == Init /\ [][Next]_vars

\* Processes run and lines arrive; the timers of the loop come due.
Fairness ==
  /\ WF_vars(PageReads)
  /\ WF_vars(EngineReadsCommand)
  /\ WF_vars(Loop)
  /\ WF_vars(Closes)
  /\ SF_vars(\E refresh \in BOOLEAN : Iterate(TRUE, refresh))

FairSpec == Spec /\ Fairness

---------------------------------------------------------------------------
(* Properties *)

\* An item that was asked for never has two implementers, whatever of the page, the engine, the
\* files and the broker changes, and however often the engine is started again: what an engine
\* leaves behind is taken up or closed by the next one before that launches.
OneSession == \A i \in requested : ~(i \in held /\ i \in stray)

\* What the operator chose last of pause, intake and reviews reaches the engine, and the page ends
\* up showing it, whichever snapshots were under way when it was chosen.
SettledPage ==
  \A s \in {"paused", "intake", "review"} : \A v \in Values[s] :
    (<>[](running = "running" /\ chosen[s] = v) /\ []<>(phase = "polling"))
      => <>[](engine[s] = v /\ Effective(s) = v)

\* A confirmed quit ends the engine's loop or its process, in whichever wait the loop is.
QuitEnds ==
  (\E n \in DOMAIN commands : commands[n] = Shutdown) ~> operator # "watching"

\* A watching engine comes to know every file on origin/main, and lets go of every item whose file
\* is gone and that it has not finished.
FollowsMain ==
  \A i \in Items :
    /\ <>[](watch /\ running = "running" /\ i \in origin) => <>(i \in Tracked)
    /\ <>[](watch /\ running = "running" /\ i \notin origin)
         => <>[](item[i] \notin {"queued", "active"})
=============================================================================
