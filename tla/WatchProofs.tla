----------------------------- MODULE WatchProofs -----------------------------
(***************************************************************************)
(* For any number of items, choices and events: an item that was asked for *)
(* never has two implementers.                                             *)
(*                                                                         *)
(* An engine that starts takes up or closes what the one before it left,   *)
(* and that is decided from the worktrees.  The invariant says that a      *)
(* living implementer of an item that has not landed has a worktree; that  *)
(* nothing is over that has not landed; and that nothing is held where no  *)
(* engine runs.                                                            *)
(***************************************************************************)
EXTENDS Watch, TLAPS

Ended == {"merged", "done"}

\* What ends is what has landed.
EndedLanded == \A i \in Items : item[i] \in Ended => i \in landed

\* A session has its worktree, until its item has landed.
Housed == (held \cup stray) \ landed \subseteq worktrees

\* The engine that runs has no stray session of an item that was asked for, but of those that
\* landed before it started.
TakenUp == running = "running" => \A i \in requested \cap stray : item[i] \in Ended

\* Who is held is an item the engine knows; without an engine nobody is.
HeldByEngine == held \subseteq Tracked /\ (running # "running" => held = {})

WInv ==
  /\ held \cup stray \cup worktrees \subseteq Items /\ requested \subseteq Items
  /\ remote \subseteq Items /\ origin \subseteq Items
  /\ item \in [Items -> States]
  /\ (phase # "off" => running = "running")
  /\ (operator \in {"recovery", "prompt"} => running \in {"dead", "finished"})
  /\ EndedLanded /\ Housed /\ TakenUp /\ HeldByEngine /\ OneSession

---------------------------------------------------------------------------

\* At the start there is no session.
LEMMA WatchInit == Init => WInv
<1>. SUFFICES ASSUME Init
              PROVE  WInv
  OBVIOUS
<1>1. running = "starting" /\ operator = "watching"
  BY DEF Init, PanelInit
<1>. QED
  BY <1>1 DEF Init, WInv, EndedLanded, Housed, TakenUp, HeldByEngine, OneSession, States, Ended

\* Steps of the page, and lines read, leave the items, their sessions and the engine's state.
LEMMA PageKeeps ==
  ASSUME WInv, UNCHANGED <<held, stray, worktrees, item, landed, requested, remote, origin,
                           phase, running, operator>>
  PROVE  WInv'
BY DEF WInv, EndedLanded, Housed, TakenUp, HeldByEngine, OneSession, Tracked

\* No key and no line starts or ends the engine.
LEMMA PageRuns ==
  ASSUME PanelNext
  PROVE  UNCHANGED <<running, operator>>
BY DEF PanelNext, Keyboard, Escape, ToggleIntake, ToggleReview, CycleStrategy, StepStrategy,
   StepLimit, StepIntent, TriggerCollaboration, ToggleOverlay, Quit, Key, StrategySettles,
   QuitLapses, PanelReads, EngineReads, ConnectSettles

\* Items and sessions are dropped together, and nothing else becomes of them than the queue.
LEMMA ReconcileKeeps ==
  ASSUME WInv, NEW listing \in SUBSET Items, Reconcile(listing),
         UNCHANGED <<landed, requested, remote, running, operator>>, origin' \in {origin, remote},
         phase' # "off" => running' = "running"
  PROVE  WInv'
<1>1. \A i \in Items : item'[i] = IF i \in Added(listing) THEN "queued"
                                  ELSE IF i \in Removed(listing) THEN "untracked" ELSE item[i]
  BY DEF Reconcile
<1>2. item' \in [Items -> States]
  BY DEF Reconcile, WInv, States
<1>3. \A i \in Items : /\ item'[i] \in Ended => item[i] \in Ended
                       /\ item[i] \in Ended => item'[i] \in Ended
  BY <1>1 DEF Added, Removed, Preserved, Tracked, Ended
<1>4. held' \subseteq Tracked'
  BY <1>1 DEF Reconcile, WInv, HeldByEngine, Added, Removed, Tracked
<1>. QED
  BY <1>2, <1>3, <1>4 DEF Reconcile, WInv, EndedLanded, Housed, TakenUp, HeldByEngine, OneSession

\* A loop that is told to end closes what is over and leaves the rest to the next engine.
LEMMA FinishKeeps ==
  ASSUME WInv, Finish, UNCHANGED <<landed, requested, remote, operator>>
  PROVE  WInv'
<1>1. running' = "finished" /\ phase' = "off" /\ held' = {} /\ UNCHANGED <<item, worktrees, origin>>
  BY DEF Finish
<1>2. stray' \subseteq held \cup stray
  BY DEF Finish
<1>. QED
  BY <1>1, <1>2 DEF WInv, EndedLanded, Housed, TakenUp, HeldByEngine, OneSession

\* When all is over, worktrees go with their sessions.
LEMMA RunCompleteKeeps ==
  ASSUME WInv, Over, RunComplete, UNCHANGED <<landed, requested, remote, origin, operator>>,
         \/ running' = "finished" /\ phase' = "off"
         \/ running' = running /\ phase # "off"
  PROVE  WInv'
<1>1. \A i \in Tracked : item[i] \in {"done", "stuck"}
  BY DEF Over, Terminal
<1>2. \A i \in Tracked \ In("stuck") : i \in landed
  BY <1>1 DEF Tracked, In, WInv, EndedLanded, Ended
<1>3. /\ held' = {} /\ worktrees' = worktrees \ (Tracked \ In("stuck")) /\ UNCHANGED <<item, stray>>
  BY DEF RunComplete, WInv, HeldByEngine
<1>4. Housed'
  BY <1>2, <1>3 DEF WInv, Housed
<1>. QED
  BY <1>3, <1>4 DEF WInv, EndedLanded, TakenUp, HeldByEngine, OneSession

\* An iteration scans and refreshes, or ends.
LEMMA IterateKeeps ==
  ASSUME WInv, NEW scan \in BOOLEAN, NEW refresh \in BOOLEAN, Iterate(scan, refresh)
  PROVE  WInv'
<1>1. phase = "top" /\ running = "running" /\ UNCHANGED <<remote, landed, requested, operator>>
  BY DEF Iterate, PageRests, WInv
<1>2. CASE aborted
  BY <1>1, <1>2, FinishKeeps DEF Iterate
<1>3. CASE ~aborted /\ Over
  BY <1>1, <1>3, RunCompleteKeeps DEF Iterate
<1>4. CASE ~aborted /\ ~Over
  <2>1. phase' = "polling" /\ running' = running /\ origin' \in {origin, remote}
    BY <1>4 DEF Iterate, MainRefresh
  <2>2. CASE UNCHANGED itemVars
    BY <1>1, <2>1, <2>2 DEF itemVars, WInv, EndedLanded, Housed, TakenUp, HeldByEngine, OneSession,
       Tracked
  <2>3. ASSUME NEW listing \in {origin, {}}, Reconcile(listing)
        PROVE  WInv'
    <3>1. listing \in SUBSET Items
      BY <2>3 DEF WInv
    <3>. QED
      BY <1>1, <2>1, <2>3, <3>1, ReconcileKeeps DEF WInv
  <2>4. UNCHANGED itemVars \/ \E listing \in {origin, {}} : Reconcile(listing)
    BY <1>4 DEF Iterate
  <2>. QED
    BY <2>2, <2>3, <2>4
<1>. QED
  BY <1>2, <1>3, <1>4

\* The wait for new items scans, or ends.
LEMMA WaitKeeps ==
  ASSUME WInv, WaitForItems
  PROVE  WInv'
<1>1. phase = "waiting" /\ running = "running" /\ UNCHANGED <<remote, landed, requested, operator>>
  BY DEF WaitForItems, PageRests, WInv
<1>2. CASE aborted
  BY <1>1, <1>2, FinishKeeps DEF WaitForItems
<1>3. CASE ~aborted
  <2>1. PICK listing \in {origin, {}} : Reconcile(listing)
    BY <1>3 DEF WaitForItems
  <2>2. listing \in SUBSET Items /\ UNCHANGED <<origin, running>>
    BY <1>3 DEF WaitForItems, WInv
  <2>. QED
    BY <1>1, <2>1, <2>2, ReconcileKeeps
<1>. QED
  BY <1>2, <1>3

\* A launch of queued items gives each a session and a worktree, and closes what is over.
LEMMA LaunchKeeps ==
  ASSUME WInv, running = "running",
         NEW it \in [Items -> States], NEW L \in SUBSET Items, Launch(it, L),
         \A i \in Items : /\ it[i] = "merged" => i \in landed
                          /\ it[i] \in Ended => i \in landed
                          /\ item[i] \in Ended => it[i] \in Ended
                          /\ i \in Tracked => it[i] # "untracked",
         \A i \in L : it[i] = "queued",
         UNCHANGED <<landed, requested, remote, origin, running, operator>>
  PROVE  WInv'
<1>1. \A i \in Items : item'[i] = IF i \in L THEN "active" ELSE it[i]
  BY DEF Launch
<1>2. item' \in [Items -> States]
  BY DEF Launch, States
<1>3. EndedLanded'
  BY <1>1 DEF EndedLanded, Ended
<1>4. Housed'
  BY DEF Launch, WInv, Housed
<1>5. HeldByEngine'
  BY <1>1 DEF Launch, WInv, HeldByEngine, Tracked
<1>6. \A i \in L : i \notin requested \cap stray
  BY DEF WInv, TakenUp, Ended
<1>7. TakenUp' /\ OneSession'
  BY <1>1, <1>6 DEF Launch, WInv, TakenUp, OneSession, Ended
<1>. QED
  BY <1>2, <1>3, <1>4, <1>5, <1>7 DEF WInv, Launch

\* A poll finds what landed, died or was retried, and launches or claims.
LEMMA PollKeeps ==
  ASSUME WInv, PollReturns
  PROVE  WInv'
<1>1. running = "running" /\ UNCHANGED <<landed, requested, remote, origin, running, operator>>
  BY DEF PollReturns, PageRests, worldVars, WInv
<1>2. PICK again \in SUBSET In("active") : \E L \in Launchable(Polled(again)) :
        \E M \in {L, {}} : Launch(Polled(again), M)
  BY Zenon DEF PollReturns
<1>. DEFINE it == Polled(again)
<1>3. PICK L \in Launchable(it) : \E M \in {L, {}} : Launch(it, M)
  BY <1>2
<1>4. PICK M \in {L, {}} : Launch(it, M)
  BY <1>3
<1>5. \A i \in Items :
        \/ it[i] = item[i] /\ item[i] # "merged"
        \/ it[i] = "merged" /\ item[i] = "active" /\ i \in landed
        \/ it[i] \in {"queued", "stuck"} /\ item[i] = "active"
        \/ it[i] = "done" /\ item[i] = "merged"
  BY DEF Polled
<1>6. it \in [Items -> States]
  BY DEF Polled, States, WInv
<1>7. M \in SUBSET Items /\ \A i \in M : it[i] = "queued"
  BY <1>4 DEF Launchable
<1>. HIDE DEF it
<1>8. \A i \in Items : /\ it[i] = "merged" => i \in landed
                       /\ it[i] \in Ended => i \in landed
                       /\ item[i] \in Ended => it[i] \in Ended
                       /\ i \in Tracked => it[i] # "untracked"
  BY <1>5 DEF WInv, EndedLanded, Ended, Tracked
<1>. QED
  BY <1>1, <1>4, <1>6, <1>7, <1>8, LaunchKeeps

\* What the broker gave is launched, if it still waits.
LEMMA ClaimsKeep ==
  ASSUME WInv, ClaimsReturn
  PROVE  WInv'
<1>1. running = "running" /\ UNCHANGED <<landed, requested, remote, origin, running, operator>>
  BY DEF ClaimsReturn, PageRests, worldVars, WInv
<1>2. PICK L : L \subseteq In("queued") /\ Launch(item, L)
  BY Zenon DEF ClaimsReturn
<1>3. L \in SUBSET Items /\ \A i \in L : item[i] = "queued"
  BY <1>2 DEF In
<1>. QED
  BY <1>1, <1>2, <1>3, LaunchKeeps DEF WInv, EndedLanded, Ended, Tracked

\* An engine that starts takes up the sessions of what it was asked for, or removes the worktree
\* and the session with it.
LEMMA StartKeeps ==
  ASSUME WInv, EngineStarts
  PROVE  WInv'
<1>1. /\ running = "starting" /\ held = {} /\ phase = "off"
      /\ UNCHANGED <<landed, requested, remote, origin, operator>>
  BY DEF EngineStarts, PageRests, worldVars, WInv, HeldByEngine
<1>2. CASE running' = "dead"
  BY <1>1, <1>2 DEF EngineStarts, WInv, EndedLanded, Housed, TakenUp, HeldByEngine, OneSession, Tracked
<1>3. CASE running' # "dead"
  <2>1. /\ running' = "running" /\ phase' = "top"
        /\ item' = [i \in Items |-> Reconstructed(i)]
        /\ held' = {i \in stray \ Orphaned : Reconstructed(i) = "active"}
        /\ stray' = stray \ (Orphaned \cup held')
        /\ worktrees' = worktrees \ Orphaned
    BY <1>3 DEF EngineStarts
  <2>2. item' \in [Items -> States]
    BY <2>1 DEF Reconstructed, States
  <2>3. EndedLanded'
    BY <1>1, <2>1 DEF EndedLanded, Reconstructed, Ended
  <2>4. Housed'
    BY <1>1, <2>1 DEF WInv, Housed
  <2>5. HeldByEngine'
    BY <2>1 DEF HeldByEngine, Tracked, WInv
  <2>6. \A i \in requested \cap stray' : item'[i] \in Ended
    <3>. SUFFICES ASSUME NEW i \in requested \cap stray', i \notin landed
                  PROVE  FALSE
      BY <2>1 DEF Reconstructed, Ended, WInv
    <3>1. i \in worktrees \ Orphaned
      BY <1>1, <2>1 DEF WInv, Housed
    <3>2. Reconstructed(i) = "active"
      BY <2>1, <3>1 DEF Reconstructed
    <3>. QED
      BY <2>1, <3>2
  <2>. QED
    BY <1>1, <2>1, <2>2, <2>3, <2>4, <2>5, <2>6 DEF WInv, TakenUp, OneSession
<1>. QED
  BY <1>2, <1>3

\* An engine that dies, and a page that goes on without one.
LEMMA EngineEndKeeps ==
  ASSUME WInv, LoopDies \/ Closes \/ Restarts \/ RunsMore \/ Leaves
  PROVE  WInv'
<1>1. CASE LoopDies
  BY <1>1 DEF LoopDies, EngineDies, worldVars, WInv, EndedLanded, Housed, TakenUp, HeldByEngine,
     OneSession, States, Ended, Tracked
<1>2. CASE Closes
  <2>1. UNCHANGED <<held, stray, worktrees, item, landed, requested, remote, origin, phase, running>>
    BY <1>2 DEF Closes, EngineCloses, LoopRests, worldVars, itemVars
  <2>2. operator' \in {"recovery", "prompt"} => running \in {"dead", "finished"}
    BY <1>2 DEF Closes, EngineCloses
  <2>. QED
    BY <2>1, <2>2 DEF WInv, EndedLanded, Housed, TakenUp, HeldByEngine, OneSession, Tracked
<1>3. CASE Leaves
  <2>1. /\ UNCHANGED <<held, stray, worktrees, item, landed, requested, remote, origin, phase, running>>
        /\ operator' = "ended"
    BY <1>3 DEF Leaves, Leave, LoopRests, worldVars, itemVars
  <2>. QED
    BY <2>1 DEF WInv, EndedLanded, Housed, TakenUp, HeldByEngine, OneSession, Tracked
<1>4. CASE Restarts \/ RunsMore
  <2>1. /\ operator \in {"recovery", "prompt"} /\ operator' = "watching" /\ running' = "starting"
        /\ UNCHANGED <<held, stray, worktrees, item, landed, remote, origin, phase>>
        /\ requested' \subseteq origin \/ requested' = requested
    BY <1>4 DEF Restarts, RestartEngine, RunsMore, RunMore, Spawned, LoopRests, worldVars, itemVars
  <2>2. held = {} /\ phase = "off"
    BY <2>1 DEF WInv, HeldByEngine
  <2>. QED
    BY <2>1, <2>2 DEF WInv, EndedLanded, Housed, TakenUp, HeldByEngine, OneSession
<1>. QED
  BY <1>1, <1>2, <1>3, <1>4

\* The world takes sessions and lands pull requests; it gives no session.
LEMMA WorldKeeps ==
  ASSUME WInv, NEW i \in Items,
         \/ FilePushed(i) \/ FileRemoved(i) \/ WorkerDies(i)
         \/ WorkerProposes(i) \/ PullRequestLands(i)
  PROVE  WInv'
<1>1. UNCHANGED <<item, worktrees, origin, requested, phase, running, operator>>
  BY DEF FilePushed, FileRemoved, WorkerDies, WorkerProposes, PullRequestLands, EngineRests, loopVars
<1>2. /\ held' \subseteq held /\ stray' \subseteq stray /\ landed \subseteq landed'
      /\ remote' \subseteq remote \cup {i}
  BY DEF FilePushed, FileRemoved, WorkerDies, WorkerProposes, PullRequestLands
<1>. QED
  BY <1>1, <1>2 DEF WInv, EndedLanded, Housed, TakenUp, HeldByEngine, OneSession, Tracked

\* Every step keeps the invariant.
LEMMA WatchStep == WInv /\ [Next]_vars => WInv'
<1>. SUFFICES ASSUME WInv, [Next]_vars
              PROVE  WInv'
  OBVIOUS
<1>1. CASE UNCHANGED vars
  BY <1>1, PageKeeps DEF vars, panelVars, worldVars, itemVars, loopVars
<1>2. CASE PageStep
  BY <1>2, PageRuns, PageKeeps DEF PageStep, LoopRests, worldVars, itemVars
<1>3. CASE Loop
  BY <1>3, IterateKeeps, WaitKeeps, PollKeeps, ClaimsKeep, StartKeeps DEF Loop
<1>4. CASE World
  BY <1>4, WorldKeeps, EngineEndKeeps DEF World
<1>. QED
  BY <1>1, <1>2, <1>3, <1>4, EngineEndKeeps DEF Next

\* reconstructState and cleanOrphanedWorktrees at the start of an engine, reconcileWatchItems and
\* the clean-up at its end, deaths between any two steps of it, and files, pull requests and
\* workers that come and go beside it: of an item that was asked for, no session is held while
\* another, which the engine knows nothing of, lives.
THEOREM NoSecondImplementer == Spec => []OneSession
BY WatchInit, WatchStep, PTL DEF Spec, WInv
=============================================================================
