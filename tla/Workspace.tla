----------------------------- MODULE Workspace -----------------------------
(***************************************************************************)
(* What a work item holds on disk: a worktree, its branch, a partition     *)
(* lock and an inbox.  Two processes launch and clean items side by side,  *)
(* the daemon and a command of a person; workers commit, push, read their  *)
(* inbox and die.  One step is what no other process can come between.     *)
(* (core/commands/launch.ts, core/commands/clean.ts, core/partitions.ts,   *)
(*  core/branch-cleanup.ts, core/git.ts)                                   *)
(***************************************************************************)
EXTENDS Inbox

CONSTANTS
  Procs,           \* the processes that launch and clean
  Daemon,          \* the one of them that delivers messages and keeps the state file
  Partitions,      \* bound: partition numbers 1 .. Partitions
  Outages,         \* the listings of pull requests that may fail
  MaxFaults,       \* bound on faults of all kinds
  Mailed           \* bound: the items whose inbox is used, each only while the others hold nothing

ASSUME WorkspaceAssumption ==
  /\ Daemon \in Procs
  /\ Partitions \in Nat \ {0} /\ MaxFaults \in Nat /\ Mailed \subseteq Items
  /\ Outages \subseteq {"validate", "ensure"}
  /\ Items \cap {"free", "blank"} = {}

VARIABLES
  lock,      \* partition -> "free" (no file), "blank" (created, not yet written), or its item
  branch,    \* item -> local branch: "none", "bare" (no commit of its own), "ahead"
  remote,    \* item -> its branch is on origin
  pr,        \* item -> "none", "open", "merged", or "stale" (merged for earlier work of this ID)
  proc,      \* process -> what it is doing
  crashed,   \* history: a process was killed since the stale locks were last swept
  faults     \* faults so far

repo == <<branch, remote, pr>>
vars == <<tree, session, known, mail, since, lock, repo, proc, crashed, faults>>

Numbers == 1 .. Partitions

Idle == [op |-> "none"]
Busy(i) == \E p \in Procs : proc[p] # Idle /\ proc[p].item = i

Launching(i, at, n, force) == [op |-> "launch", item |-> i, at |-> at, n |-> n, force |-> force]
At(p, op, at) == proc[p] # Idle /\ proc[p].op = op /\ proc[p].at = at
Goes(p, at) == proc' = [proc EXCEPT ![p].at = at]
Ends(p) == proc' = [proc EXCEPT ![p] = Idle]

\* The bound Mailed: where an inbox may be used, and what may be launched beside it.
InUse(i) == sent[i] # 0 \/ known[i] \/ \E r \in Readers : reader[i][r] # Off
MayTake(p, i) == \A j \in Items : InUse(j) => p = Daemon /\ i = j
Alone(i) ==
  /\ i \in Mailed /\ ~crashed
  /\ \A p \in Procs \ {Daemon} : proc[p] = Idle
  /\ \A j \in Items \ {i} : ~tree[j] /\ branch[j] = "none" /\ pr[j] = "none" /\ ~Busy(j)

Fault == faults < MaxFaults /\ faults' = faults + 1

\* tryListPrs: a listing that fails reads as an empty one.
Listing(i, which) == {pr[i]} \cup (IF which \in Outages THEN {"none"} ELSE {})

FaultUnless(told) == IF told THEN UNCHANGED faults ELSE Fault

Init ==
  /\ tree = [i \in Items |-> FALSE]
  /\ session = [i \in Items |-> 0]
  /\ known = [i \in Items |-> FALSE]
  /\ box = [i \in Items |-> NoMail]
  /\ sent = [i \in Items |-> 0]
  /\ reader = [i \in Items |-> [r \in Readers |-> Off]]
  /\ waitFile = [i \in Items |-> "none"]
  /\ heard = [i \in Items |-> NoMail]
  /\ since = [i \in Items |-> 0]
  /\ lock = [n \in Numbers |-> "free"]
  /\ branch = [i \in Items |-> "none"]
  /\ pr \in [Items -> {"none", "stale"}]
  /\ remote = [i \in Items |-> pr[i] = "stale"]
  /\ proc = [p \in Procs |-> Idle]
  /\ crashed = FALSE
  /\ faults = 0

---------------------------------------------------------------------------
(* Launching: launchSingleItem *)

\* validatePickupCandidate, with what executeLaunch makes of an item whose PR is open.
MayLaunch(listed, force) == listed = "none" \/ (listed = "open" /\ force)

\* findWorktreeForBranch: in the model only the item's own worktree ever has its branch.
CheckedOut(i) == tree[i]

(***************************************************************************)
(* cleanStaleBranchForReuse: merged PRs of other work under this ID take   *)
(* the branch with them, on origin and, unless it is checked out, here.    *)
(***************************************************************************)
Reused(i, listed) ==
  [ branch |-> IF listed = "stale" /\ ~CheckedOut(i) THEN "none" ELSE branch[i],
    remote |-> remote[i] /\ listed # "stale" ]

\* resetHard to origin's head, once fetchOrigin has found one; else the branch stays as it is.
Synced(had) == IF had.remote THEN "ahead" ELSE had.branch

\* createWorktree with a new branch; attachWorktree to one that is there.
Created == "bare"
Attached(had) == had.branch

\* Mutant: an open pull request does not keep the branch.
EnsuredAnew(i, had, listed) == IF tree[i] THEN Synced(had) ELSE Created

(***************************************************************************)
(* ensureWorktreeAndBranch: the branch the worktree stands on.  A worktree *)
(* that is there is set to origin's head; a branch with an open pull       *)
(* request is attached; any other is deleted and made anew from the base.  *)
(***************************************************************************)
Ensured(i, had, listed) ==
  CASE tree[i]                                              -> Synced(had)
    [] ~tree[i] /\ had.branch # "none" /\ listed = "open"    -> Attached(had)
    [] ~tree[i] /\ (had.branch = "none" \/ listed # "open")  -> Created

\* A branch with an open pull request that nobody asked to repair: the worktree is attached for
\* the daemon's rebases, and no worker is launched.
SkippedWithPr(i, listed, force) == ~tree[i] /\ branch[i] # "none" /\ listed = "open" /\ ~force

\* Nothing keeps two processes off one item; the model assumes they are not given the same.
BeginLaunch(p, i, force) ==
  /\ proc[p] = Idle /\ ~Busy(i) /\ MayTake(p, i)
  /\ session[i] = 0
  /\ force => pr[i] = "open"
  /\ \E validated \in Listing(i, "validate"), listed \in Listing(i, "ensure") :
       /\ MayLaunch(validated, force)
       /\ FaultUnless(validated = pr[i] /\ listed = pr[i])
       /\ LET had == Reused(i, listed)
          IN  /\ branch' = [branch EXCEPT ![i] = Ensured(i, had, listed)]
              /\ remote' = [remote EXCEPT ![i] = had.remote]
       /\ tree' = [tree EXCEPT ![i] = TRUE]
       /\ proc' = IF SkippedWithPr(i, listed, force) THEN proc
                  ELSE [proc EXCEPT ![p] = Launching(i, "hook", 0, force)]
  /\ UNCHANGED <<session, known, mail, since, lock, pr, crashed>>

\* runBootstrapHook and all else before the lock may throw.
HookFails(p) ==
  /\ At(p, "launch", "hook") /\ Fault
  /\ Goes(p, "undo")
  /\ UNCHANGED <<tree, session, known, mail, since, lock, repo, crashed>>

\* getPartitionFor
Held(i) == {n \in Numbers : lock[n] = i}

FindPartition(p) ==
  /\ At(p, "launch", "hook")
  /\ LET i == proc[p].item
     IN  \/ /\ Held(i) = {}
            /\ proc' = [proc EXCEPT ![p] = [@ EXCEPT !.at = "claim", !.n = 1]]
         \/ \E n \in Held(i) : proc' = [proc EXCEPT ![p] = [@ EXCEPT !.at = "prompt", !.n = n]]
  /\ UNCHANGED <<tree, session, known, mail, since, lock, repo, crashed, faults>>

\* Mutant: a file with nothing in it is taken for a free one.
ClaimBlank(p) ==
  /\ At(p, "launch", "claim")
  /\ IF lock[proc[p].n] \in {"free", "blank"}
     THEN lock' = [lock EXCEPT ![proc[p].n] = "blank"] /\ Goes(p, "stamp")
     ELSE /\ proc[p].n < Partitions
          /\ proc' = [proc EXCEPT ![p].n = @ + 1]
          /\ UNCHANGED lock
  /\ UNCHANGED <<tree, session, known, mail, since, repo, crashed, faults>>

\* allocatePartition: the first file that can be created, exclusively, and then written.
ClaimPartition(p) ==
  /\ At(p, "launch", "claim")
  /\ IF lock[proc[p].n] = "free"
     THEN lock' = [lock EXCEPT ![proc[p].n] = "blank"] /\ Goes(p, "stamp")
     ELSE /\ proc[p].n < Partitions
          /\ proc' = [proc EXCEPT ![p].n = @ + 1]
          /\ UNCHANGED lock
  /\ UNCHANGED <<tree, session, known, mail, since, repo, crashed, faults>>

StampPartition(p) ==
  /\ At(p, "launch", "stamp")
  /\ lock' = [lock EXCEPT ![proc[p].n] = proc[p].item]
  /\ Goes(p, "prompt")
  /\ UNCHANGED <<tree, session, known, mail, since, repo, crashed, faults>>

\* The prompt is written and the worktree's inbox emptied.
CleanedForLaunch == {"tree"}

WritePrompt(p) ==
  /\ At(p, "launch", "prompt")
  /\ box' = Emptied(box, proc[p].item, CleanedForLaunch)
  /\ waitFile' = Unwaited(proc[p].item, CleanedForLaunch)
  /\ Goes(p, "open")
  /\ UNCHANGED <<tree, session, known, sent, reader, heard, since, lock, repo, crashed, faults>>

\* launchAiSession, in the worktree and with the partition in its prompt.
OpenSession(p) ==
  /\ At(p, "launch", "open")
  /\ session' = [session EXCEPT ![proc[p].item] = proc[p].n]
  /\ since' = [since EXCEPT ![proc[p].item] = sent[proc[p].item]]
  /\ Ends(p)
  /\ UNCHANGED <<tree, known, mail, lock, repo, crashed, faults>>

SessionFails(p) ==
  /\ At(p, "launch", "open") /\ Fault
  /\ Goes(p, "undo")
  /\ UNCHANGED <<tree, session, known, mail, since, lock, repo, crashed>>

\* releasePartition: of the files that hold the item, the first.
Released(i) ==
  [n \in Numbers |-> IF n \in Held(i) /\ \A m \in Held(i) : n <= m THEN "free" ELSE lock[n]]

\* The catch of launchSingleItem: first the lock, then the worktree; the branch stays.
UndoLock(p) ==
  /\ At(p, "launch", "undo")
  /\ lock' = Released(proc[p].item)
  /\ Goes(p, "drop")
  /\ UNCHANGED <<tree, session, known, mail, since, repo, crashed, faults>>

UndoTree(p) ==
  /\ At(p, "launch", "drop")
  /\ tree' = [tree EXCEPT ![proc[p].item] = FALSE]
  /\ Ends(p)
  /\ UNCHANGED <<session, known, mail, since, lock, repo, crashed, faults>>

Launch(p) ==
  \/ \E i \in Items, force \in BOOLEAN : BeginLaunch(p, i, force)
  \/ HookFails(p) \/ FindPartition(p) \/ ClaimPartition(p) \/ StampPartition(p)
  \/ WritePrompt(p) \/ OpenSession(p) \/ SessionFails(p) \/ UndoLock(p) \/ UndoTree(p)

---------------------------------------------------------------------------
(* Cleaning: executeClean and cleanSingleWorktree; cmdClean *)

Cleaning(i, op, at) == [op |-> op, item |-> i, at |-> at]

\* A session that is closed takes its calls of nw inbox with it.
Closed(i) ==
  /\ session' = [session EXCEPT ![i] = 0]
  /\ reader' = [reader EXCEPT ![i]["worker"] = Off]

\* executeClean closes the session, or fails to, and goes on.
BeginClean(p, i) ==
  /\ proc[p] = Idle /\ ~Busy(i) /\ MayTake(p, i)
  /\ tree[i] \/ session[i] # 0
  /\ \/ Closed(i) /\ UNCHANGED faults
     \/ session[i] # 0 /\ Fault /\ UNCHANGED <<session, reader>>
  /\ proc' = [proc EXCEPT ![p] = Cleaning(i, "clean", IF tree[i] THEN "remove" ELSE "empty")]
  /\ UNCHANGED <<tree, known, box, sent, waitFile, heard, since, lock, repo, crashed>>

\* isMerged, when the pull requests can be listed.  When they cannot, the ancestry of the branch
\* would decide, but git marks a branch that a worktree has checked out and isBranchMerged does
\* not know the mark: nothing that stands looks merged then.
LooksMerged(i) == pr[i] = "merged"

\* cmdClean without an argument takes what is merged.
BeginSweep(p, i) ==
  /\ proc[p] = Idle /\ ~Busy(i) /\ MayTake(p, i)
  /\ tree[i] /\ LooksMerged(i)
  /\ proc' = [proc EXCEPT ![p] = Cleaning(i, "sweep", "remove")]
  /\ UNCHANGED <<tree, session, known, mail, since, lock, repo, crashed, faults>>

\* removeWorktree, by force, or else the directory itself.
TreeGone(i) == tree' = [tree EXCEPT ![i] = FALSE]

\* deleteBranch, and deleteRemoteBranch; GitHub closes a pull request that has lost its branch.
BranchesGone(i) ==
  /\ branch' = [branch EXCEPT ![i] = "none"]
  /\ remote' = [remote EXCEPT ![i] = FALSE]
  /\ pr' = [pr EXCEPT ![i] = IF @ = "open" THEN "none" ELSE @]

RemoveTree(p) ==
  /\ \E op \in {"clean", "sweep"} : At(p, op, "remove")
  /\ TreeGone(proc[p].item)
  /\ BranchesGone(proc[p].item)
  /\ Goes(p, "release")
  /\ UNCHANGED <<session, known, mail, since, lock, crashed, faults>>

ReleaseLock(p) ==
  /\ \E op \in {"clean", "sweep"} : At(p, op, "release")
  /\ lock' = Released(proc[p].item)
  /\ Goes(p, IF proc[p].op = "clean" THEN "empty" ELSE "close")
  /\ UNCHANGED <<tree, session, known, mail, since, repo, crashed, faults>>

\* cleanInboxNamespaces, and the same again at the end of executeClean.
EmptyInboxes(p) ==
  /\ At(p, "clean", "empty")
  /\ box' = Emptied(box, proc[p].item, Namespaces)
  /\ waitFile' = Unwaited(proc[p].item, Namespaces)
  /\ Ends(p)
  /\ UNCHANGED <<tree, session, known, sent, reader, heard, since, lock, repo, crashed, faults>>

\* cmdClean closes the sessions of what it removed at the very end: closeWorkspacesForIds.
CloseSwept(p) ==
  /\ At(p, "sweep", "close")
  /\ Closed(proc[p].item)
  /\ Ends(p)
  /\ UNCHANGED <<tree, known, box, sent, waitFile, heard, since, lock, repo, crashed, faults>>

Clean(p) ==
  \/ \E i \in Items : BeginClean(p, i) \/ BeginSweep(p, i)
  \/ RemoveTree(p) \/ ReleaseLock(p) \/ EmptyInboxes(p) \/ CloseSwept(p)

---------------------------------------------------------------------------
(* Crashes, and what clears up after them *)

\* A process is killed where it stands.
Crash(p) ==
  /\ proc[p] # Idle /\ Fault
  /\ Ends(p)
  /\ crashed' = TRUE
  /\ UNCHANGED <<tree, session, known, mail, since, lock, repo>>

\* cleanupStalePartitions, when a person starts items.  It has no protection against a launch
\* or a clean in progress; the model assumes there is none.
Stale(n) == lock[n] = "blank" \/ (lock[n] \in Items /\ ~tree[lock[n]])

SweepLocks ==
  /\ crashed
  /\ \A p \in Procs : proc[p] = Idle
  /\ lock' = [n \in Numbers |-> IF Stale(n) THEN "free" ELSE lock[n]]
  /\ crashed' = FALSE
  /\ UNCHANGED <<tree, session, known, mail, since, repo, proc, faults>>

---------------------------------------------------------------------------
(* Workers, people and the daemon's loop *)

\* A worker commits, pushes and opens its pull request.
Push(i) ==
  /\ session[i] # 0 /\ tree[i] /\ pr[i] \in {"none", "stale"}
  /\ branch' = [branch EXCEPT ![i] = "ahead"]
  /\ remote' = [remote EXCEPT ![i] = TRUE]
  /\ pr' = [pr EXCEPT ![i] = "open"]
  /\ UNCHANGED <<tree, session, known, mail, since, lock, proc, crashed, faults>>

Merge(i) ==
  /\ pr[i] = "open"
  /\ pr' = [pr EXCEPT ![i] = "merged"]
  /\ UNCHANGED <<tree, session, known, mail, since, lock, branch, remote, proc, crashed, faults>>

\* A session ends; its wait-state file stays when it was killed.
WorkerDies(i) ==
  /\ session[i] # 0
  /\ Closed(i)
  /\ UNCHANGED <<tree, known, box, sent, waitFile, heard, since, lock, repo, proc, crashed, faults>>

\* The daemon's next snapshot names the worktree in the state file.
Persist(i) ==
  /\ proc[Daemon] = Idle /\ session[i] # 0 /\ ~known[i] /\ Alone(i)
  /\ known' = [known EXCEPT ![i] = TRUE]
  /\ UNCHANGED <<tree, session, mail, since, lock, repo, proc, crashed, faults>>

\* cleanStateFile: the daemon has ended.
StateFileGone ==
  /\ \E i \in Items : known[i]
  /\ known' = [i \in Items |-> FALSE]
  /\ UNCHANGED <<tree, session, mail, since, lock, repo, proc, crashed, faults>>

\* deliverToImplementerInbox: into the worktree's namespace, if the worktree stands.
Deliver(i) ==
  /\ proc[Daemon] = Idle /\ ~Busy(i) /\ tree[i] /\ Alone(i)
  /\ Written(i, "tree")
  /\ UNCHANGED <<tree, session, known, since, lock, repo, proc, crashed, faults>>

Calls(i) ==
  /\ \/ Alone(i) /\ PersonWrites(i)
     \/ Alone(i) /\ BeginWait(i)
     \/ Alone(i) /\ \E r \in Readers : BeginCheck(i, r)
     \/ InterruptWait(i)
     \/ \E r \in Readers : Reading(i, r)
  /\ UNCHANGED <<lock, repo, proc, crashed, faults>>

Next ==
  \/ \E p \in Procs : Launch(p) \/ Clean(p) \/ Crash(p)
  \/ SweepLocks \/ StateFileGone
  \/ \E i \in Items : Push(i) \/ Merge(i) \/ WorkerDies(i) \/ Persist(i) \/ Deliver(i) \/ Calls(i)

\* A worker's call of nw inbox runs on.
WorkerReads(i) == Reading(i, "worker") /\ UNCHANGED <<lock, repo, proc, crashed, faults>>

Fairness == \A i \in Items : WF_vars(WorkerReads(i))

Spec == Init /\ [][Next]_vars /\ Fairness

---------------------------------------------------------------------------
(* Properties *)

\* A process in the middle of a launch or a clean.
ProcStates ==
  {Idle}
  \cup [op : {"launch"}, item : Items, n : 0 .. Partitions, force : BOOLEAN,
        at : {"hook", "claim", "stamp", "prompt", "open", "undo", "drop"}]
  \cup [op : {"clean", "sweep"}, item : Items, at : {"remove", "release", "empty", "close"}]

TypeOK ==
  /\ tree \in [Items -> BOOLEAN] /\ known \in [Items -> BOOLEAN] /\ remote \in [Items -> BOOLEAN]
  /\ session \in [Items -> 0 .. Partitions]
  /\ lock \in [Numbers -> {"free", "blank"} \cup Items]
  /\ branch \in [Items -> {"none", "bare", "ahead"}]
  /\ pr \in [Items -> {"none", "open", "merged", "stale"}]
  /\ proc \in [Procs -> ProcStates]
  /\ crashed \in BOOLEAN /\ faults \in 0 .. MaxFaults

\* A session whose worktree stands has the lock of the partition it was told, whatever the
\* other process launches, cleans or leaves behind: no two such sessions share a partition.
PartitionHeld ==
  \A i \in Items : session[i] # 0 /\ tree[i] => lock[session[i]] = i

\* Unless a process was killed since the last sweep, every lock belongs to an item with a
\* worktree or to a launch or clean in progress, and no item has two.
NoLeakedLock ==
  ~crashed => \A n \in Numbers :
    \/ lock[n] = "free"
    \/ lock[n] = "blank" /\ \E p \in Procs : At(p, "launch", "stamp") /\ proc[p].n = n
    \/ /\ lock[n] \in Items
       /\ tree[lock[n]] \/ Busy(lock[n])
       /\ \A m \in Numbers : lock[m] = lock[n] => m = n

\* Locks and worktrees belong together, both ways.
LocksRight == PartitionHeld /\ NoLeakedLock

\* Messages of a namespace are read in the order they were written, each by one reader only,
\* however the calls of the worker and of a person overlap.
ReadInOrderOnce(i, n) ==
  heard'[i][n] # heard[i][n] =>
    \A a \in DOMAIN heard[i][n] : heard[i][n][a][1] < Last(heard'[i][n])[1]

\* A worker is never told what was written in its worktree for the session before it.
NoStaleInstruction(i) ==
  LET was == heard[i]["tree"]
      now == heard'[i]["tree"]
  IN  now # was /\ Last(now)[2] = "worker" => Last(now)[1] > since[i]

\* What is read is read in order, once, and by the session it was written for.
MailRight ==
  [][\A i \in Items : NoStaleInstruction(i) /\ \A n \in Namespaces : ReadInOrderOnce(i, n)]_vars

\* A worker launched to repair an open pull request finds that request's commits on its branch.
RepairsThePullRequest ==
  \A p \in Procs :
    proc[p] # Idle /\ proc[p].op = "launch" /\ proc[p].force /\ pr[proc[p].item] = "open"
    => branch[proc[p].item] = "ahead"

\* A worker that waits while a message lies in its worktree's inbox gets it, unless somebody
\* else takes it or the session ends, also before the state file names the worktree.
WaitingIsServed ==
  \A i \in Items :
    reader[i]["worker"].mode = "wait" /\ tree[i] /\ box[i]["tree"] # <<>>
    ~> reader[i]["worker"].mode # "wait" \/ ~tree[i] \/ box[i]["tree"] = <<>>
=============================================================================
