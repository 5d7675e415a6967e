------------------------------ MODULE Backlog ------------------------------
(***************************************************************************)
(* The work item files: on GitHub's main, in the hub's clone (origin/main, *)
(* main, the working tree), and what takes them away when their PR has     *)
(* landed: the worker's own PR, the cleanup after a merge of the loop,     *)
(* reconcile, and a person's mark-done.  An id may be used again: every    *)
(* file carries the lineage token of its own making.                       *)
(* (core/commands/reconcile.ts, core/commands/mark-done.ts,                *)
(* core/work-item-files.ts, core/git.ts, core/orchestrate-event-loop.ts)   *)
(***************************************************************************)
EXTENDS Integers, FiniteSets, SequencesExt

CONSTANTS
  MaxIds,     \* bound: the work item ids are 1 .. MaxIds
  MaxFiles,   \* bound: work item files ever written, each with a token of its own
  Days        \* bound: how often each kind of event may happen, one record chosen

Ids == 1 .. MaxIds

Kinds == {"write", "launch", "commit", "merge", "mark", "reconcile", "refresh", "failure",
          "key", "named"}

ASSUME BacklogAssumption ==
  /\ MaxIds \in Nat \ {0} /\ MaxFiles \in Nat /\ MaxIds <= MaxFiles
  /\ Days \subseteq [Kinds -> Nat]

VARIABLES
  main,      \* id -> token of its file on GitHub's main, 0 without one
  pulls,     \* id -> token of the open PR from its branch, 0 without one
  merged,    \* the PRs merged, <<id, token>>
  written,   \* tokens given out
  origin,    \* the hub's origin/main
  head,      \* the hub's main
  files,     \* the hub's working tree
  current,   \* GitHub's main has not moved since the hub saw it
  level,     \* the hub's main contains origin/main
  lost,      \* id -> token of the file a commit of the hub alone removes
  stopped,   \* a rebase of the hub's main stands at a conflict
  trees,     \* id -> its worktree
  cmd,       \* the reconciling under way
  marked,    \* history: the files a person marked done
  budget     \* how often each kind of event may still happen

github == <<main, pulls, merged, written>>
clone  == <<origin, head, files, current, level, lost, stopped>>
vars   == <<main, pulls, merged, written, origin, head, files, current, level, lost,
            stopped, trees, cmd, marked, budget>>

Tokens == 1 .. MaxFiles
Backlogs == [Ids -> 0 .. MaxFiles]
Nothing == [i \in Ids |-> 0]
NoTree == [token |-> 0, commits |-> FALSE]

\* listed: the merged PRs gh names; done: doneIds; marks: toMarkDone is not empty; open:
\* refreshedOpenIds.  History: stood, the worktrees whose file was there after the pull;
\* quiet, nothing failed, nobody else changed main or the hub's files since.
Rest == [at |-> "idle", by |-> "loop", item |-> <<0, 0>>, listed |-> {}, done |-> {},
         marks |-> FALSE, open |-> {}, stood |-> {}, quiet |-> FALSE]

BacklogTypeOK ==
  /\ main \in Backlogs /\ pulls \in Backlogs /\ merged \subseteq Ids \X Tokens
  /\ written \in 0 .. MaxFiles
  /\ origin \in Backlogs /\ head \in Backlogs /\ files \in Backlogs /\ lost \in Backlogs
  /\ current \in BOOLEAN /\ level \in BOOLEAN /\ stopped \in BOOLEAN
  /\ trees \in [Ids -> [token : 0 .. MaxFiles, commits : BOOLEAN]]
  /\ cmd \in [at : {"idle", "refresh", "tidy", "pull", "list", "mark", "done", "orphans",
                    "stale", "publish"},
              by : {"loop", "person"}, item : (Ids \cup {0}) \X (0 .. MaxFiles),
              listed : SUBSET (Ids \X Tokens), done : SUBSET Ids, marks : BOOLEAN,
              open : SUBSET Ids, stood : SUBSET (Ids \X Tokens), quiet : BOOLEAN]
  /\ marked \subseteq Ids \X Tokens
  /\ budget \in [Kinds -> Nat]

Spend(kind) == budget[kind] > 0 /\ budget' = [budget EXCEPT ![kind] = @ - 1]

\* A call goes well, or fails and is counted.
Goes(ok) == IF ok THEN UNCHANGED budget ELSE Spend("failure")

---------------------------------------------------------------------------
(* The world *)

\* Someone pushes a new work item, or a new one under an id already used.
Write(i) ==
  /\ Spend("write") /\ written < MaxFiles
  /\ written' = written + 1
  /\ main' = [main EXCEPT ![i] = written + 1]
  /\ current' = FALSE /\ cmd' = [cmd EXCEPT !.quiet = FALSE]
  /\ UNCHANGED <<pulls, merged, origin, head, files, level, lost, stopped, trees, marked>>

WorkerCommits(i) ==
  /\ Spend("commit")
  /\ trees[i].token # 0 /\ ~trees[i].commits
  /\ trees' = [trees EXCEPT ![i].commits = TRUE]
  /\ UNCHANGED <<github, clone, cmd, marked>>

OpenPull(i) ==
  /\ trees[i].commits /\ pulls[i] = 0 /\ <<i, trees[i].token>> \notin merged
  /\ pulls' = [pulls EXCEPT ![i] = trees[i].token]
  /\ UNCHANGED <<main, merged, written, clone, trees, cmd, marked, budget>>

\* The PR lands; most workers have it remove the work item's file.
Land(i, removes) ==
  /\ Spend("merge")
  /\ pulls[i] # 0
  /\ removes => main[i] = pulls[i]
  /\ main' = IF removes THEN [main EXCEPT ![i] = 0] ELSE main
  /\ merged' = merged \cup {<<i, pulls[i]>>}
  /\ pulls' = [pulls EXCEPT ![i] = 0]
  /\ current' = FALSE
  /\ UNCHANGED <<written, origin, head, files, level, lost, stopped, trees, marked>>

\* By a person on GitHub, or another machine.
Elsewhere(i, removes) == Land(i, removes) /\ cmd' = [cmd EXCEPT !.quiet = FALSE]

World ==
  \E i \in Ids :
    \/ Write(i) \/ WorkerCommits(i) \/ OpenPull(i)
    \/ \E removes \in BOOLEAN : Elsewhere(i, removes)

---------------------------------------------------------------------------
(* git in the hub *)

\* git merge --ff-only: commits of the hub alone forbid it; a file gone from the working
\* tree does not.
FastForward(base, wasLevel) ==
  IF wasLevel \/ lost # Nothing THEN level' = wasLevel /\ UNCHANGED <<head, files>>
  ELSE /\ level' = TRUE /\ head' = base
       /\ files' = [i \in Ids |-> IF head[i] # base[i] THEN base[i] ELSE files[i]]

\* fetchOrigin, ffMerge: each may fail, which is passed over.
RefreshMain(fetches) ==
  /\ IF fetches
     THEN /\ origin' = main /\ current' = TRUE
          /\ FastForward(main, level /\ current)
     ELSE UNCHANGED <<origin, current>> /\ FastForward(origin, level)
  /\ UNCHANGED <<lost, stopped>>

\* git push: refused when GitHub's main holds a commit the hub's main does not.
Pushed(pushes) == pushes /\ current /\ level

\* add, commit and push of everything under the work directory; nothing if it is clean.
CommitAndPush(gone, pushes) ==
  LET tree == [i \in Ids |-> IF i \in gone THEN 0 ELSE files[i]]
  IN  /\ files' = tree
      /\ IF tree = head THEN UNCHANGED <<main, origin, head, lost>>
         ELSE /\ head' = tree
              /\ IF Pushed(pushes) THEN main' = tree /\ origin' = tree /\ lost' = Nothing
                 ELSE /\ lost' = [i \in Ids |-> IF tree[i] # head[i] THEN head[i] ELSE lost[i]]
                      /\ UNCHANGED <<main, origin>>
      /\ UNCHANGED <<pulls, merged, written, current, level, stopped>>

Overwritten == {i \in Ids : lost[i] # 0 /\ main[i] \notin {0, lost[i]}}

\* git pull --rebase with a clean tree.  A removal of the hub's meets a new file: conflict.
Rebase ==
  /\ origin' = main /\ current' = TRUE
  /\ IF Overwritten # {} THEN stopped' = TRUE /\ UNCHANGED <<head, files, level, lost>>
     ELSE /\ files' = [i \in Ids |-> IF lost[i] # 0 THEN 0 ELSE main[i]]
          /\ head' = files'
          /\ lost' = [i \in Ids |-> IF main[i] = lost[i] THEN lost[i] ELSE 0]
          /\ level' = TRUE /\ UNCHANGED stopped

\* The person settles the conflict for the new file before the hub is used again.
Resolve ==
  /\ stopped /\ stopped' = FALSE
  /\ lost' = [i \in Ids |-> IF origin[i] = lost[i] THEN lost[i] ELSE 0]
  /\ head' = [i \in Ids |-> IF lost'[i] # 0 THEN 0 ELSE origin[i]]
  /\ files' = head' /\ level' = TRUE
  /\ UNCHANGED <<github, origin, current, trees, cmd, marked, budget>>

---------------------------------------------------------------------------
(* What the hub's processes do beside the reconciling *)

LoopFree == ~stopped /\ (cmd.at = "idle" \/ cmd.by = "person")

\* validatePickupCandidate: with a token on both sides any PR of the branch is in the way, one
\* that is the item's own and one that is not.
TurnedAway(i) == pulls[i] # 0 \/ \E t \in Tokens : <<i, t>> \in merged

\* The loop starts an item of origin/main.  Lists that fail read as empty.
Launch(i) ==
  /\ LoopFree
  /\ origin[i] # 0 /\ trees[i] = NoTree
  /\ budget["launch"] > 0 /\ (TurnedAway(i) => budget["failure"] > 0)
  /\ budget' = [budget EXCEPT !["launch"] = @ - 1, !["failure"] = IF TurnedAway(i) THEN @ - 1 ELSE @]
  /\ trees' = [trees EXCEPT ![i] = [token |-> origin[i], commits |-> FALSE]]
  /\ UNCHANGED <<github, clone, cmd, marked>>

\* Once a minute.
MainRefresh ==
  /\ LoopFree /\ budget["refresh"] > 0
  /\ \E fetches \in BOOLEAN :
       /\ RefreshMain(fetches)
       /\ fetches \/ budget["failure"] > 0
       /\ budget' = [budget EXCEPT !["refresh"] = @ - 1, !["failure"] = IF fetches THEN @ ELSE @ - 1]
  /\ cmd' = [cmd EXCEPT !.quiet = FALSE]
  /\ UNCHANGED <<github, trees, marked>>

\* The executor's clean of a merged item.
LoopCleans(i) ==
  /\ LoopFree
  /\ trees[i].token # 0 /\ <<i, trees[i].token>> \in merged
  /\ trees' = [trees EXCEPT ![i] = NoTree]
  /\ UNCHANGED <<github, clone, cmd, marked, budget>>

\* cmdMarkDone, called by a person: the file goes from the working tree, and no further.
MarkDone(i) ==
  /\ ~stopped /\ Spend("mark")
  /\ files[i] # 0
  /\ files' = [files EXCEPT ![i] = 0]
  /\ marked' = marked \cup {<<i, files[i]>>}
  /\ cmd' = [cmd EXCEPT !.quiet = FALSE]
  /\ UNCHANGED <<github, origin, head, current, level, lost, stopped, trees>>

Hub ==
  \/ Resolve \/ MainRefresh
  \/ \E i \in Ids : Launch(i) \/ LoopCleans(i) \/ MarkDone(i)

---------------------------------------------------------------------------
(* The cleanup after a merge of the loop, and reconcile *)

\* executeMerge: the PR is merged, and the rest of the action and reconcile follow.
LoopMerges(i, removes) ==
  /\ LoopFree /\ cmd.at = "idle"
  /\ Land(i, removes)
  /\ cmd' = [Rest EXCEPT !.at = "refresh", !.item = <<i, pulls[i]>>]

RefreshAfterMerge ==
  /\ cmd.at = "refresh"
  /\ \E fetches \in BOOLEAN : Goes(fetches) /\ RefreshMain(fetches)
  /\ cmd' = [cmd EXCEPT !.at = "tidy"]
  /\ UNCHANGED <<github, trees, marked>>

\* Mutant: the file of the id goes, whoever it belongs to.
ToldApartById(i, t) == files[i] # 0

\* classifyPrMetadataMatch of the file as it is now: the lineage token decides.
ToldApart(i, t) == files[i] = t /\ t # 0

\* completeMergedWorkItemCleanup: already-removed and skipped leave all as it is.
Tidy ==
  /\ cmd.at = "tidy"
  /\ cmd' = [cmd EXCEPT !.at = "pull"]
  /\ IF ToldApart(cmd.item[1], cmd.item[2])
     THEN \E pushes \in BOOLEAN : Goes(pushes) /\ CommitAndPush({cmd.item[1]}, pushes)
     ELSE UNCHANGED <<github, clone, budget>>
  /\ UNCHANGED <<trees, marked>>

\* nw reconcile.
PersonReconciles ==
  /\ ~stopped /\ cmd.at = "idle" /\ Spend("reconcile")
  /\ cmd' = [Rest EXCEPT !.at = "pull", !.by = "person"]
  /\ UNCHANGED <<github, clone, trees, marked>>

\* The worktrees of files that are there.
Standing == {<<i, trees[i].token>> : i \in {j \in Ids : files'[j] # 0 /\ files'[j] = trees[j].token}}

\* pullRebase.  Reconcile ends when it fails.
Pull ==
  /\ cmd.at = "pull"
  /\ \/ /\ IF files # head THEN UNCHANGED budget ELSE Spend("failure")
        /\ cmd' = Rest
        /\ UNCHANGED clone
     \/ /\ files = head
        /\ Rebase
        /\ cmd' = IF stopped' THEN Rest
                  ELSE [cmd EXCEPT !.at = "list", !.stood = Standing, !.quiet = lost = Nothing]
        /\ UNCHANGED budget
  /\ UNCHANGED <<github, trees, marked>>

\* getMergedWorkItemIds: nothing if the call fails.
List ==
  /\ cmd.at = "list"
  /\ \E ok \in BOOLEAN :
       /\ Goes(ok)
       /\ cmd' = [cmd EXCEPT !.at = "mark", !.listed = IF ok THEN merged ELSE {},
                             !.quiet = @ /\ ok]
  /\ UNCHANGED <<github, clone, trees, marked>>

\* findMatchingPrForWorkItem.
Landed(i) == <<i, files[i]>> \in cmd.listed

\* Steps 3: merged items still among the files are marked done, their files deleted.
Mark ==
  LET named == {i \in Ids : \E t \in Tokens : <<i, t>> \in cmd.listed}
      marks == {i \in named : files[i] # 0 /\ Landed(i)}
  IN  /\ cmd.at = "mark"
      /\ files' = [i \in Ids |-> IF i \in marks THEN 0 ELSE files[i]]
      /\ cmd' = [cmd EXCEPT !.at = "done", !.marks = marks # {},
                            !.done = marks \cup {i \in named : files[i] = 0}]
      /\ UNCHANGED <<github, origin, head, current, level, lost, stopped, trees, marked, budget>>

\* cleanSingleWorktree: worktree, branch and remote branch; GitHub closes its PR.
CleanTrees(gone) ==
  LET there == {i \in gone : trees[i].token # 0}
  IN  /\ trees' = [i \in Ids |-> IF i \in there THEN NoTree ELSE trees[i]]
      /\ pulls' = [i \in Ids |-> IF i \in there THEN 0 ELSE pulls[i]]
      /\ UNCHANGED <<main, merged, written, clone, marked>>

CleanDone ==
  /\ cmd.at = "done"
  /\ cmd' = [cmd EXCEPT !.at = "orphans"]
  /\ CleanTrees(cmd.done)
  /\ UNCHANGED budget

\* A worktree without a work item file.
CleanOrphans ==
  LET open == {i \in Ids : files[i] # 0}
  IN  /\ cmd.at = "orphans"
      /\ cmd' = [cmd EXCEPT !.at = "stale", !.open = open]
      /\ CleanTrees(Ids \ (cmd.done \cup open))
      /\ UNCHANGED budget

\* Mutant: a worktree without an open PR is stale, whatever was committed in it.
StaleThough(i) == i \in cmd.open \ cmd.done

\* A worktree with a file and without commits, of an item not done.
Stale(i) == i \in cmd.open \ cmd.done /\ ~trees[i].commits

\* A failed question for the open PR reads as none.
CleanStale ==
  /\ cmd.at = "stale"
  /\ \E deaf \in BOOLEAN :
       /\ Goes(~deaf)
       /\ CleanTrees({i \in Ids : Stale(i) /\ (pulls[i] = 0 \/ deaf)})
       /\ cmd' = [cmd EXCEPT !.at = "publish", !.quiet = @ /\ ~deaf]

\* Step 5: commitAndPush if something was marked, and only then.
Publish ==
  /\ cmd.at = "publish"
  /\ cmd' = Rest
  /\ IF cmd.marks THEN \E pushes \in BOOLEAN : Goes(pushes) /\ CommitAndPush({}, pushes)
     ELSE UNCHANGED <<github, clone, budget>>
  /\ UNCHANGED <<trees, marked>>

Reconciling ==
  \/ \E i \in Ids, removes \in BOOLEAN : LoopMerges(i, removes)
  \/ RefreshAfterMerge \/ Tidy \/ PersonReconciles
  \/ Pull \/ List \/ Mark \/ CleanDone \/ CleanOrphans \/ CleanStale \/ Publish

---------------------------------------------------------------------------
(* Properties *)

\* A work item leaves GitHub's main only when a PR of this very item has landed or a person
\* marked it done: a PR of an earlier item of the same id takes nothing with it.
OwnMergeRemoves ==
  [][\A i \in Ids : main[i] # 0 /\ main'[i] = 0 =>
       <<i, main[i]>> \in merged' \cup marked]_vars

\* Reconciling removes a worktree with commits that stood, with its file, when it began, only
\* after its own item landed or its id was marked done, whatever else happens while it runs.
WorkKept ==
  [][\A i \in Ids :
       /\ cmd.at \in {"done", "orphans", "stale"}
       /\ trees[i].commits /\ trees'[i] = NoTree
       /\ <<i, trees[i].token>> \in cmd.stood
       => <<i, trees[i].token>> \in merged \/ \E t \in Tokens : <<i, t>> \in marked]_vars

\* A reconcile that nothing disturbed, of a hub with no removal of its own unpushed, leaves
\* no landed item on GitHub's main.
LandedLeave ==
  [][cmd.at = "publish" /\ cmd'.at = "idle" /\ cmd.quiet /\ budget' = budget =>
       \A i \in Ids : main'[i] # 0 => <<i, main'[i]>> \notin cmd.listed]_vars

\* An item leaves main when it has landed, and not before.
BacklogRight == OwnMergeRemoves /\ LandedLeave
=============================================================================
