--------------------------- MODULE WorkspaceProofs ---------------------------
(***************************************************************************)
(* For any number of items, processes, partitions, messages and faults:    *)
(* sessions keep the partitions they were told, no lock leaks, a repair    *)
(* finds its commits, and messages are read in order, once, and by the     *)
(* session they were written for.                                          *)
(*                                                                         *)
(* The properties speak of what stands when nobody is busy as well as of   *)
(* what is half done, so the invariant says of each process in the middle  *)
(* of a launch or a clean what it has and what it has not done yet.        *)
(***************************************************************************)
EXTENDS Workspace, SequenceTheorems, TLAPS

LaunchStates ==
  [op : {"launch"}, item : Items, n : 0 .. Partitions, force : BOOLEAN,
   at : {"hook", "claim", "stamp", "prompt", "open", "undo", "drop"}]
CleanStates ==
  [op : {"clean", "sweep"}, item : Items, at : {"remove", "release", "empty", "close"}]

LEMMA ThreeKinds == ProcStates = {Idle} \cup LaunchStates \cup CleanStates
  BY DEF ProcStates, LaunchStates, CleanStates

---------------------------------------------------------------------------
(* Processes from step to step *)

\* p is in the middle of a launch, or of a clean.
Launches(p) == proc[p] \in LaunchStates
Cleans(p) == proc[p] \in CleanStates

\* What has a place is a launch or a clean.
LEMMA AtPlace ==
  ASSUME TypeOK, NEW p \in Procs, NEW op, NEW at, At(p, op, at)
  PROVE  /\ op = "launch" => Launches(p)
         /\ op \in {"clean", "sweep"} => Cleans(p)
         /\ proc[p] # Idle /\ proc[p].op = op /\ proc[p].at = at /\ proc[p].item \in Items
<1>1. proc[p] \in {Idle} \cup LaunchStates \cup CleanStates
  BY ThreeKinds DEF TypeOK
<1>2. proc[p] # Idle /\ proc[p].op = op /\ proc[p].at = at
  BY DEF At
<1>. QED
  BY <1>1, <1>2 DEF Launches, Cleans, LaunchStates, CleanStates

\* A process that goes on keeps what it is about.
Onward(q, at) == [q EXCEPT !.at = at]

LEMMA OnwardLaunch ==
  ASSUME NEW q \in LaunchStates,
         NEW at \in {"hook", "claim", "stamp", "prompt", "open", "undo", "drop"}
  PROVE  /\ Onward(q, at) \in LaunchStates
         /\ Onward(q, at).item = q.item /\ Onward(q, at).n = q.n
         /\ Onward(q, at).force = q.force /\ Onward(q, at).at = at
BY DEF Onward, LaunchStates

LEMMA OnwardClean ==
  ASSUME NEW q \in CleanStates, NEW at \in {"remove", "release", "empty", "close"}
  PROVE  /\ Onward(q, at) \in CleanStates
         /\ Onward(q, at).item = q.item /\ Onward(q, at).op = q.op /\ Onward(q, at).at = at
BY DEF Onward, CleanStates

\* A launch that has come to a partition, or looks at the next one.
Numbered(q, at, n) == [q EXCEPT !.at = at, !.n = n]

LEMMA NumberedLaunch ==
  ASSUME NEW q \in LaunchStates, NEW n \in 0 .. Partitions, NEW at \in {"claim", "prompt"}
  PROVE  /\ Numbered(q, at, n) \in LaunchStates
         /\ Numbered(q, at, n).item = q.item /\ Numbered(q, at, n).n = n
         /\ Numbered(q, at, n).force = q.force /\ Numbered(q, at, n).at = at
BY DEF Numbered, LaunchStates

Counted(q) == [q EXCEPT !.n = @ + 1]

LEMMA CountedLaunch ==
  ASSUME NEW q \in LaunchStates, q.n < Partitions
  PROVE  /\ Counted(q) \in LaunchStates
         /\ Counted(q).item = q.item /\ Counted(q).n = q.n + 1
         /\ Counted(q).force = q.force /\ Counted(q).at = q.at
BY WorkspaceAssumption DEF Counted, LaunchStates

\* What one process does, none other feels.
OnlyMoves(p) == \A q \in Procs \ {p} : proc'[q] = proc[q]

LEMMA Moves ==
  ASSUME TypeOK, NEW p \in Procs
  PROVE  /\ \A at : Goes(p, at) => /\ proc'[p] = Onward(proc[p], at) /\ OnlyMoves(p)
                                   /\ proc' = [q \in Procs |-> proc'[q]]
         /\ Ends(p) => proc'[p] = Idle /\ OnlyMoves(p) /\ proc' = [q \in Procs |-> proc'[q]]
<1>1. proc = [q \in Procs |-> proc[q]]
  BY DEF TypeOK
<1>2. ASSUME NEW at, Goes(p, at)
      PROVE  proc'[p] = Onward(proc[p], at) /\ OnlyMoves(p) /\ proc' = [q \in Procs |-> proc'[q]]
  <2>1. proc' = [proc EXCEPT ![p] = [proc[p] EXCEPT !.at = at]]
    BY <1>2, Zenon DEF Goes
  <2>. QED
    BY <1>1, <2>1 DEF Onward, OnlyMoves
<1>3. ASSUME Ends(p)
      PROVE  proc'[p] = Idle /\ OnlyMoves(p) /\ proc' = [q \in Procs |-> proc'[q]]
  BY <1>1, <1>3 DEF Ends, OnlyMoves
<1>. QED
  BY <1>2, <1>3

\* A move to what is a state keeps the processes well typed.
LEMMA MovesTyped ==
  ASSUME TypeOK, NEW p \in Procs, OnlyMoves(p), proc' = [q \in Procs |-> proc'[q]],
         proc'[p] \in {Idle} \cup LaunchStates \cup CleanStates
  PROVE  proc' \in [Procs -> ProcStates]
<1>1. \A q \in Procs : proc'[q] \in ProcStates
  BY ThreeKinds DEF TypeOK, OnlyMoves
<1>. QED
  BY <1>1

\* Calls of nw inbox read and write messages, and nothing else.
LEMMA CallsKeep ==
  ASSUME NEW i \in Items, Calls(i)
  PROVE  UNCHANGED <<tree, session, known, since, lock, repo, proc, crashed, faults>>
BY DEF Calls, PersonWrites, BeginWait, BeginCheck, InterruptWait, Reading, Look, FindNothing, Take,
       TakeNothing

---------------------------------------------------------------------------
(* Types *)

\* The branch and the remote branch a launch leaves are some branch.
LEMMA BranchesTyped ==
  ASSUME TypeOK, NEW i \in Items, NEW listed
  PROVE  /\ Ensured(i, Reused(i, listed), listed) \in {"none", "bare", "ahead"}
         /\ Reused(i, listed).remote \in BOOLEAN
BY DEF TypeOK, Ensured, Reused, Synced, Attached, Created, CheckedOut

\* A freed lock is free, the others are as they were.
LEMMA ReleasedTyped ==
  ASSUME TypeOK, NEW i \in Items
  PROVE  Released(i) \in [Numbers -> {"free", "blank"} \cup Items]
BY DEF TypeOK, Released, Held

\* A closed session leaves none.
LEMMA ClosedTyped ==
  ASSUME TypeOK, NEW i \in Items, Closed(i)
  PROVE  session' \in [Items -> 0 .. Partitions]
BY WorkspaceAssumption DEF TypeOK, Closed

LEMMA LaunchTyped ==
  ASSUME TypeOK, NEW p \in Procs, Launch(p)
  PROVE  TypeOK'
<1>1. ASSUME NEW i \in Items, NEW force \in BOOLEAN, BeginLaunch(p, i, force)
      PROVE  TypeOK'
  <2>1. PICK validated \in Listing(i, "validate"), listed \in Listing(i, "ensure") :
          /\ MayLaunch(validated, force)
          /\ FaultUnless(validated = pr[i] /\ listed = pr[i])
          /\ LET had == Reused(i, listed)
             IN  /\ branch' = [branch EXCEPT ![i] = Ensured(i, had, listed)]
                 /\ remote' = [remote EXCEPT ![i] = had.remote]
    BY <1>1, Zenon DEF BeginLaunch
  <2>2. branch' \in [Items -> {"none", "bare", "ahead"}] /\ remote' \in [Items -> BOOLEAN]
    BY <2>1, BranchesTyped DEF TypeOK
  <2>3. faults' \in 0 .. MaxFaults
    BY <2>1, WorkspaceAssumption DEF FaultUnless, Fault, TypeOK
  <2>4. Launching(i, "hook", 0, force) \in LaunchStates
    BY WorkspaceAssumption DEF Launching, LaunchStates
  <2>5. proc' = proc \/ proc' = [proc EXCEPT ![p] = Launching(i, "hook", 0, force)]
    BY <1>1 DEF BeginLaunch
  <2>6. proc' \in [Procs -> ProcStates]
    BY <2>4, <2>5, ThreeKinds DEF TypeOK
  <2>. QED
    BY <1>1, <2>2, <2>3, <2>6 DEF BeginLaunch, TypeOK
<1>2. ASSUME NEW from, NEW at \in {"hook", "claim", "stamp", "prompt", "open", "undo", "drop"},
             At(p, "launch", from), Goes(p, at)
      PROVE  proc' \in [Procs -> ProcStates]
  BY <1>2, AtPlace, Moves, OnwardLaunch, MovesTyped DEF Launches
<1>3. ASSUME Ends(p)
      PROVE  proc' \in [Procs -> ProcStates]
  BY <1>3, Moves, MovesTyped
<1>4. CASE HookFails(p) \/ SessionFails(p)
  <2>1. proc' \in [Procs -> ProcStates]
    BY <1>2, <1>4 DEF HookFails, SessionFails
  <2>. QED
    BY <1>4, <2>1, WorkspaceAssumption DEF HookFails, SessionFails, Fault, TypeOK, repo
<1>5. CASE FindPartition(p)
  <2>1. Launches(p)
    BY <1>5, AtPlace DEF FindPartition
  <2>2. PICK n \in 0 .. Partitions, at \in {"claim", "prompt"} :
          proc' = [proc EXCEPT ![p] = Numbered(proc[p], at, n)]
    <3>1. CASE proc' = [proc EXCEPT ![p] = [@ EXCEPT !.at = "claim", !.n = 1]]
      <4>1. 1 \in 0 .. Partitions
        BY WorkspaceAssumption
      <4>2. proc' = [proc EXCEPT ![p] = Numbered(proc[p], "claim", 1)]
        BY <3>1, Zenon DEF Numbered
      <4>. QED
        BY <4>1, <4>2
    <3>2. ASSUME NEW n \in Held(proc[p].item),
                 proc' = [proc EXCEPT ![p] = [@ EXCEPT !.at = "prompt", !.n = n]]
          PROVE  \E m \in 0 .. Partitions, at \in {"claim", "prompt"} :
                   proc' = [proc EXCEPT ![p] = Numbered(proc[p], at, m)]
      <4>1. n \in 0 .. Partitions
        BY WorkspaceAssumption DEF Held, Numbers
      <4>2. proc' = [proc EXCEPT ![p] = Numbered(proc[p], "prompt", n)]
        BY <3>2, Zenon DEF Numbered
      <4>. QED
        BY <4>1, <4>2
    <3>. QED
      BY <1>5, <3>1, <3>2 DEF FindPartition
  <2>3. proc' \in [Procs -> ProcStates]
    BY <2>1, <2>2, NumberedLaunch, ThreeKinds DEF TypeOK, Launches
  <2>. QED
    BY <1>5, <2>3 DEF FindPartition, TypeOK, repo
<1>6. CASE ClaimPartition(p)
  <2>1. Launches(p) /\ proc[p].n \in 0 .. Partitions /\ proc[p].at = "claim"
    BY <1>6, AtPlace DEF ClaimPartition, Launches, LaunchStates
  <2>2. CASE lock' = [lock EXCEPT ![proc[p].n] = "blank"] /\ Goes(p, "stamp")
    <3>1. proc' \in [Procs -> ProcStates]
      BY <1>2, <1>6, <2>2 DEF ClaimPartition
    <3>. QED
      BY <1>6, <2>2, <3>1 DEF ClaimPartition, TypeOK, repo
  <2>3. CASE /\ proc[p].n < Partitions /\ proc' = [proc EXCEPT ![p].n = @ + 1] /\ UNCHANGED lock
    <3>1. proc' = [proc EXCEPT ![p] = Counted(proc[p])]
      BY <2>3, Zenon DEF Counted
    <3>2. Counted(proc[p]) \in LaunchStates
      BY <2>1, <2>3, CountedLaunch DEF Launches
    <3>3. proc' \in [Procs -> ProcStates]
      BY <3>1, <3>2, ThreeKinds DEF TypeOK
    <3>. QED
      BY <1>6, <2>3, <3>3 DEF ClaimPartition, TypeOK, repo
  <2>. QED
    BY <1>6, <2>2, <2>3 DEF ClaimPartition
<1>7. CASE StampPartition(p)
  <2>1. proc' \in [Procs -> ProcStates] /\ proc[p].item \in Items
    BY <1>2, <1>7, AtPlace DEF StampPartition
  <2>. QED
    BY <1>7, <2>1 DEF StampPartition, TypeOK, repo
<1>8. CASE WritePrompt(p)
  <2>1. proc' \in [Procs -> ProcStates]
    BY <1>2, <1>8 DEF WritePrompt
  <2>. QED
    BY <1>8, <2>1 DEF WritePrompt, TypeOK, repo
<1>9. CASE OpenSession(p)
  <2>1. Launches(p)
    BY <1>9, AtPlace DEF OpenSession
  <2>2. proc' \in [Procs -> ProcStates] /\ proc[p].n \in 0 .. Partitions
    BY <1>3, <1>9, <2>1 DEF OpenSession, Launches, LaunchStates
  <2>. QED
    BY <1>9, <2>2 DEF OpenSession, TypeOK, repo
<1>10. CASE UndoLock(p)
  <2>1. proc' \in [Procs -> ProcStates] /\ proc[p].item \in Items
    BY <1>2, <1>10, AtPlace DEF UndoLock
  <2>. QED
    BY <1>10, <2>1, ReleasedTyped DEF UndoLock, TypeOK, repo
<1>11. CASE UndoTree(p)
  <2>1. proc' \in [Procs -> ProcStates]
    BY <1>3, <1>11 DEF UndoTree
  <2>. QED
    BY <1>11, <2>1 DEF UndoTree, TypeOK, repo
<1>. QED
  BY <1>1, <1>4, <1>5, <1>6, <1>7, <1>8, <1>9, <1>10, <1>11 DEF Launch

LEMMA CleanTyped ==
  ASSUME TypeOK, NEW p \in Procs, Clean(p)
  PROVE  TypeOK'
<1>1. ASSUME NEW from, NEW op \in {"clean", "sweep"}, At(p, op, from),
             NEW at \in {"remove", "release", "empty", "close"}, Goes(p, at)
      PROVE  proc' \in [Procs -> ProcStates]
  BY <1>1, AtPlace, Moves, OnwardClean, MovesTyped DEF Cleans
<1>2. ASSUME Ends(p)
      PROVE  proc' \in [Procs -> ProcStates]
  BY <1>2, Moves, MovesTyped
<1>3. ASSUME NEW i \in Items, NEW op \in {"clean", "sweep"},
             NEW at \in {"remove", "release", "empty", "close"},
             proc' = [proc EXCEPT ![p] = Cleaning(i, op, at)]
      PROVE  proc' \in [Procs -> ProcStates]
  <2>1. Cleaning(i, op, at) \in CleanStates
    BY DEF Cleaning, CleanStates
  <2>. QED
    BY <1>3, <2>1, ThreeKinds DEF TypeOK
<1>4. ASSUME NEW i \in Items, BeginClean(p, i) PROVE TypeOK'
  <2>1. proc' \in [Procs -> ProcStates]
    BY <1>3, <1>4 DEF BeginClean
  <2>. QED
    BY <1>4, <2>1, WorkspaceAssumption DEF BeginClean, Closed, Fault, TypeOK, repo
<1>5. ASSUME NEW i \in Items, BeginSweep(p, i) PROVE TypeOK'
  <2>1. proc' \in [Procs -> ProcStates]
    BY <1>3, <1>5 DEF BeginSweep
  <2>. QED
    BY <1>5, <2>1 DEF BeginSweep, TypeOK, repo
<1>6. CASE RemoveTree(p)
  <2>1. proc' \in [Procs -> ProcStates]
    BY <1>1, <1>6 DEF RemoveTree
  <2>. QED
    BY <1>6, <2>1 DEF RemoveTree, TreeGone, BranchesGone, TypeOK
<1>7. CASE ReleaseLock(p)
  <2>1. proc' \in [Procs -> ProcStates] /\ proc[p].item \in Items
    BY <1>1, <1>7, AtPlace DEF ReleaseLock
  <2>. QED
    BY <1>7, <2>1, ReleasedTyped DEF ReleaseLock, TypeOK, repo
<1>8. CASE EmptyInboxes(p) \/ CloseSwept(p)
  <2>1. proc' \in [Procs -> ProcStates]
    BY <1>2, <1>8 DEF EmptyInboxes, CloseSwept
  <2>2. CASE EmptyInboxes(p)
    BY <2>1, <2>2 DEF EmptyInboxes, TypeOK, repo
  <2>3. CASE CloseSwept(p)
    <3>1. session' \in [Items -> 0 .. Partitions]
      BY <2>3, AtPlace, ClosedTyped DEF CloseSwept
    <3>. QED
      BY <2>1, <2>3, <3>1 DEF CloseSwept, TypeOK, repo
  <2>. QED
    BY <1>8, <2>2, <2>3
<1>. QED
  BY <1>4, <1>5, <1>6, <1>7, <1>8 DEF Clean

\* Every step keeps the types.
LEMMA TypeStep == TypeOK /\ [Next]_vars => TypeOK'
<1>. SUFFICES ASSUME TypeOK, [Next]_vars
              PROVE  TypeOK'
  OBVIOUS
<1>1. ASSUME NEW p \in Procs, Crash(p) PROVE TypeOK'
  <2>1. proc' \in [Procs -> ProcStates]
    BY <1>1, Moves, MovesTyped DEF Crash
  <2>. QED
    BY <1>1, <2>1, WorkspaceAssumption DEF Crash, Fault, TypeOK, repo
<1>2. CASE SweepLocks
  BY <1>2 DEF SweepLocks, TypeOK, repo
<1>3. CASE StateFileGone
  BY <1>3 DEF StateFileGone, TypeOK, repo
<1>4. ASSUME NEW i \in Items, Push(i) \/ Merge(i) PROVE TypeOK'
  BY <1>4 DEF Push, Merge, TypeOK, repo
<1>8. ASSUME NEW i \in Items, WorkerDies(i) PROVE TypeOK'
  <2>1. session' \in [Items -> 0 .. Partitions]
    BY <1>8, ClosedTyped DEF WorkerDies
  <2>. QED
    BY <1>8, <2>1 DEF WorkerDies, TypeOK, repo
<1>5. ASSUME NEW i \in Items, Persist(i) \/ Deliver(i) PROVE TypeOK'
  BY <1>5 DEF Persist, Deliver, TypeOK, repo
<1>6. ASSUME NEW i \in Items, Calls(i) PROVE TypeOK'
  <2>1. UNCHANGED <<tree, session, known, since, lock, repo, proc, crashed, faults>>
    BY <1>6, CallsKeep
  <2>. QED
    BY <2>1 DEF TypeOK, repo
<1>7. CASE UNCHANGED vars
  BY <1>7 DEF vars, TypeOK, repo
<1>. QED
  BY <1>1, <1>2, <1>3, <1>4, <1>5, <1>6, <1>7, <1>8, LaunchTyped, CleanTyped DEF Next

LEMMA TypeInit == Init => TypeOK
<1>. SUFFICES ASSUME Init
              PROVE  TypeOK
  OBVIOUS
<1>1. proc \in [Procs -> ProcStates]
  BY ThreeKinds DEF Init
<1>2. /\ session \in [Items -> 0 .. Partitions] /\ faults \in 0 .. MaxFaults
      /\ lock \in [Numbers -> {"free", "blank"} \cup Items]
  BY WorkspaceAssumption DEF Init
<1>3. remote \in [Items -> BOOLEAN] /\ pr \in [Items -> {"none", "open", "merged", "stale"}]
  BY DEF Init
<1>. QED
  BY <1>1, <1>2, <1>3 DEF Init, TypeOK

---------------------------------------------------------------------------
(* Locks *)

Lockless(i) == \A n \in Numbers : lock[n] # i
Stamps(p) == Launches(p) /\ proc[p].at = "stamp"

\* No two processes are at one item, nor at one blank file; no item has two locks.
Apart ==
  /\ \A p, q \in Procs :
       proc[p] # Idle /\ proc[q] # Idle /\ proc[p].item = proc[q].item => p = q
  /\ \A p, q \in Procs : Stamps(p) /\ Stamps(q) /\ proc[p].n = proc[q].n => p = q
  /\ \A m, n \in Numbers : lock[m] \in Items /\ lock[m] = lock[n] => m = n

\* What a launch has, place by place.
LaunchHas(p) ==
  /\ session[proc[p].item] = 0 /\ tree[proc[p].item]
  /\ proc[p].at \in {"claim", "stamp"} => proc[p].n \in Numbers /\ Lockless(proc[p].item)
  /\ proc[p].at = "stamp" => lock[proc[p].n] = "blank"
  /\ proc[p].at \in {"prompt", "open"} => proc[p].n \in Numbers /\ lock[proc[p].n] = proc[p].item
  /\ proc[p].at = "drop" => Lockless(proc[p].item)

\* What a clean has done: the worktree goes first, then the lock.
CleanHas(p) ==
  /\ proc[p].at # "remove" => ~tree[proc[p].item]
  /\ proc[p].at = "close" => Lockless(proc[p].item)
  /\ proc[p].at = "empty" => crashed \/ Lockless(proc[p].item)

\* NoLeakedLock, place by place.
Account(n) ==
  \/ lock[n] = "free"
  \/ lock[n] = "blank" /\ \E p \in Procs : Stamps(p) /\ proc[p].n = n
  \/ lock[n] \in Items /\ (tree[lock[n]] \/ \E p \in Procs : proc[p] # Idle /\ proc[p].item = lock[n])

Accounted == ~crashed => \A n \in Numbers : Account(n)

LInv ==
  /\ Apart
  /\ \A p \in Procs : (Launches(p) => LaunchHas(p)) /\ (Cleans(p) => CleanHas(p))
  /\ PartitionHeld /\ Accounted

\* A process is idle, launches or cleans, and only one of these.
LEMMA Kinds ==
  ASSUME TypeOK, NEW p \in Procs
  PROVE  /\ proc[p] = Idle \/ Launches(p) \/ Cleans(p)
         /\ Launches(p) => /\ ~Cleans(p) /\ proc[p] # Idle /\ proc[p].op = "launch"
                           /\ proc[p].n \in 0 .. Partitions
         /\ Cleans(p) => proc[p] # Idle /\ proc[p].op # "launch"
         /\ proc[p] # Idle => proc[p].item \in Items
<1>1. proc[p] \in {Idle} \cup LaunchStates \cup CleanStates
  BY ThreeKinds DEF TypeOK
<1>. QED
  BY <1>1 DEF Launches, Cleans, LaunchStates, CleanStates, Idle

\* The invariant says what LocksRight says.
LEMMA LocksFollow ==
  ASSUME TypeOK, LInv
  PROVE  LocksRight
<1>1. \A p \in Procs : Stamps(p) => At(p, "launch", "stamp")
  BY Kinds DEF Stamps, At
<1>2. NoLeakedLock
  BY <1>1 DEF LInv, Accounted, Account, Apart, NoLeakedLock, Busy
<1>. QED
  BY <1>2 DEF LInv, LocksRight

\* What a step of process p may do, which is at item i before and after, or at none.
Touches(p, i) ==
  /\ OnlyMoves(p)
  /\ \A q \in Procs \ {p} : proc[q] # Idle => proc[q].item # i
  /\ (proc[p] # Idle => proc[p].item = i) /\ (proc'[p] # Idle => proc'[p].item = i)
  /\ \A j \in Items \ {i} : tree'[j] = tree[j] /\ session'[j] \in {session[j], 0}
  /\ crashed => crashed'

LockMoves(p, i) ==
  \A n \in Numbers :
    \/ lock'[n] = lock[n]
    \/ lock[n] = i /\ lock'[n] = "free"
    \/ lock[n] = "free" /\ lock'[n] = "blank" /\ Stamps(p)' /\ proc'[p].n = n
    \/ lock[n] = "blank" /\ lock'[n] = i /\ Stamps(p) /\ proc[p].n = n /\ Lockless(i)

\* What the step leaves of i.
Leaves(p, i) ==
  /\ Stamps(p)' => lock[proc'[p].n] = "free" /\ proc'[p].n \in Numbers
  /\ Stamps(p) => crashed' \/ lock'[proc[p].n] # "blank"
  /\ crashed' \/ tree'[i] \/ proc'[p] # Idle \/ Lockless(i)'
  /\ session'[i] # 0 /\ tree'[i] => lock'[session'[i]] = i
  /\ (Launches(p)' => LaunchHas(p)') /\ (Cleans(p)' => CleanHas(p)')

LEMMA StepKeeps ==
  ASSUME TypeOK, TypeOK', LInv, NEW p \in Procs, NEW i \in Items,
         Touches(p, i), LockMoves(p, i), Leaves(p, i)
  PROVE  LInv'
<1>1. \A q \in Procs \ {p} :
        /\ proc'[q] = proc[q] /\ (Stamps(q)' <=> Stamps(q))
        /\ (Launches(q)' <=> Launches(q)) /\ (Cleans(q)' <=> Cleans(q))
  BY DEF Touches, OnlyMoves, Stamps, Launches, Cleans
<1>2. i # "free" /\ i # "blank"
  BY WorkspaceAssumption
<1>3. \A q \in Procs \ {p} : proc[q] # Idle => proc[q].item \in Items \ {i}
  BY Kinds DEF Touches
<1>4. ASSUME NEW q \in Procs, Launches(q)'
      PROVE  LaunchHas(q)'
  <2>1. CASE q # p
    <3>1. /\ Launches(q) /\ proc'[q] = proc[q] /\ proc[q].item \in Items \ {i}
          /\ LaunchHas(q)
      BY <1>1, <1>3, <1>4, <2>1, Kinds DEF LInv
    <3>2. tree'[proc[q].item] = tree[proc[q].item] /\ session'[proc[q].item] = 0
      BY <3>1 DEF Touches, LaunchHas
    <3>3. Lockless(proc[q].item) => Lockless(proc[q].item)'
      BY <1>2, <3>1, WorkspaceAssumption DEF LockMoves, Lockless
    <3>4. ASSUME proc[q].at = "stamp"
          PROVE  lock'[proc[q].n] = "blank"
      <4>1. Stamps(q) /\ proc[q].n \in Numbers /\ lock[proc[q].n] = "blank"
        BY <3>1, <3>4 DEF Stamps, LaunchHas
      <4>2. ~(Stamps(p) /\ proc[p].n = proc[q].n)
        BY <2>1, <4>1 DEF LInv, Apart
      <4>. QED
        BY <1>2, <4>1, <4>2 DEF LockMoves
    <3>5. ASSUME proc[q].at \in {"prompt", "open"}
          PROVE  lock'[proc[q].n] = proc[q].item
      BY <1>2, <3>1, <3>5, WorkspaceAssumption DEF LockMoves, LaunchHas
    <3>. QED
      BY <3>1, <3>2, <3>3, <3>4, <3>5 DEF LaunchHas, Lockless
  <2>. QED
    BY <1>4, <2>1 DEF Leaves
<1>5. ASSUME NEW q \in Procs, Cleans(q)'
      PROVE  CleanHas(q)'
  <2>1. CASE q # p
    <3>1. /\ Cleans(q) /\ proc'[q] = proc[q] /\ proc[q].item \in Items \ {i}
          /\ CleanHas(q)
      BY <1>1, <1>3, <1>5, <2>1, Kinds DEF LInv
    <3>2. tree'[proc[q].item] = tree[proc[q].item]
      BY <3>1 DEF Touches
    <3>3. Lockless(proc[q].item) => Lockless(proc[q].item)'
      BY <1>2, <3>1, WorkspaceAssumption DEF LockMoves, Lockless
    <3>. QED
      BY <3>1, <3>2, <3>3 DEF CleanHas, Touches
  <2>. QED
    BY <1>5, <2>1 DEF Leaves
<1>6. PartitionHeld'
  <2>. SUFFICES ASSUME NEW j \in Items, session'[j] # 0, tree'[j]
                PROVE  lock'[session'[j]] = j
    BY DEF PartitionHeld
  <2>1. CASE j # i
    <3>1. session'[j] = session[j] /\ tree[j] /\ lock[session[j]] = j
      BY <2>1 DEF Touches, LInv, PartitionHeld
    <3>2. session[j] \in Numbers
      BY <3>1, WorkspaceAssumption DEF TypeOK, Numbers
    <3>. QED
      BY <2>1, <3>1, <3>2, WorkspaceAssumption DEF LockMoves
  <2>. QED
    BY <2>1 DEF Leaves
<1>7. ASSUME ~crashed', NEW n \in Numbers
      PROVE  Account(n)'
  <2>1. Account(n)
    BY <1>7 DEF LInv, Accounted, Touches
  <2>2. CASE lock'[n] = "free"
    BY <2>2 DEF Account
  <2>3. CASE lock'[n] = "blank"
    <3>1. CASE lock[n] = "blank"
      <4>1. PICK q \in Procs : Stamps(q) /\ proc[q].n = n
        BY <2>1, <3>1, WorkspaceAssumption DEF Account
      <4>2. q # p
        BY <1>7, <2>3, <4>1 DEF Leaves
      <4>. QED
        BY <1>1, <2>3, <4>1, <4>2 DEF Account
    <3>2. CASE lock[n] # "blank"
      <4>1. Stamps(p)' /\ proc'[p].n = n
        BY <1>2, <2>3, <3>2 DEF LockMoves
      <4>. QED
        BY <2>3, <4>1 DEF Account
    <3>. QED
      BY <3>1, <3>2
  <2>4. CASE lock'[n] = i
    <3>1. tree'[i] \/ (proc'[p] # Idle /\ proc'[p].item = i)
      BY <1>7, <2>4 DEF Leaves, Touches, Lockless
    <3>. QED
      BY <2>4, <3>1 DEF Account
  <2>5. CASE lock'[n] \in Items \ {i}
    <3>1. lock[n] = lock'[n]
      BY <2>5, WorkspaceAssumption DEF LockMoves
    <3>2. tree[lock[n]] \/ \E q \in Procs : proc[q] # Idle /\ proc[q].item = lock[n]
      BY <2>1, <2>5, <3>1, WorkspaceAssumption DEF Account
    <3>3. tree[lock[n]] => tree'[lock'[n]]
      BY <2>5, <3>1 DEF Touches
    <3>4. ASSUME NEW q \in Procs, proc[q] # Idle, proc[q].item = lock[n]
          PROVE  Account(n)'
      <4>1. q # p
        BY <2>5, <3>1, <3>4 DEF Touches
      <4>. QED
        BY <1>1, <2>5, <3>1, <3>4, <4>1 DEF Account
    <3>. QED
      BY <2>5, <3>2, <3>3, <3>4 DEF Account
  <2>. QED
    BY <2>2, <2>3, <2>4, <2>5 DEF TypeOK
<1>8. Apart'
  <2>1. ASSUME NEW q \in Procs, NEW r \in Procs, proc'[q] # Idle, proc'[r] # Idle,
               proc'[q].item = proc'[r].item
        PROVE  q = r
    BY <1>1, <2>1 DEF LInv, Apart, Touches
  <2>2. ASSUME NEW q \in Procs, NEW r \in Procs, Stamps(q)', Stamps(r)', proc'[q].n = proc'[r].n
        PROVE  q = r
    <3>1. \A s \in Procs \ {p} : Stamps(s) => lock[proc[s].n] = "blank"
      BY DEF LInv, Stamps, LaunchHas
    <3>2. \A s \in Procs \ {p} : Stamps(p)' /\ Stamps(s)' => proc'[s].n # proc'[p].n
      <4>1. Stamps(p)' => lock[proc'[p].n] = "free"
        BY DEF Leaves
      <4>2. \A s \in Procs \ {p} : Stamps(s)' => lock[proc'[s].n] = "blank"
        BY <1>1, <3>1
      <4>. QED
        BY <4>1, <4>2
    <3>3. CASE q # p /\ r # p
      BY <1>1, <2>2, <3>3 DEF LInv, Apart
    <3>. QED
      BY <2>2, <3>2, <3>3
  <2>3. ASSUME NEW m \in Numbers, NEW n \in Numbers, lock'[m] \in Items, lock'[m] = lock'[n]
        PROVE  m = n
    <3>1. CASE lock'[m] # i
      <4>1. \A k \in Numbers : lock'[k] \in Items /\ lock'[k] # i => lock'[k] = lock[k]
        BY WorkspaceAssumption DEF LockMoves
      <4>. QED
        BY <2>3, <3>1, <4>1 DEF LInv, Apart
    <3>2. CASE lock'[m] = i
      <4>1. \A k \in Numbers : lock'[k] = i =>
              \/ lock[k] = i
              \/ lock[k] = "blank" /\ Stamps(p) /\ proc[p].n = k /\ Lockless(i)
        BY <1>2 DEF LockMoves
      <4>2. CASE Lockless(i)
        BY <2>3, <3>2, <4>1, <4>2 DEF Lockless
      <4>. QED
        BY <2>3, <3>2, <4>1, <4>2 DEF LInv, Apart
    <3>. QED
      BY <3>1, <3>2
  <2>. QED
    BY <2>1, <2>2, <2>3 DEF Apart
<1>. QED
  BY <1>4, <1>5, <1>6, <1>7, <1>8 DEF LInv, Accounted

\* What is released is free, and all else as it was.
LEMMA ReleasedFrees ==
  ASSUME TypeOK, LInv, NEW i \in Items
  PROVE  \A n \in Numbers : Released(i)[n] = IF lock[n] = i THEN "free" ELSE lock[n]
<1>1. \A n, m \in Held(i) : n <= m
  BY DEF LInv, Apart, Held, Numbers
<1>. QED
  BY <1>1 DEF Released, Held

\* A launch goes on.
LEMMA LaunchKeeps ==
  ASSUME TypeOK, TypeOK', LInv, NEW p \in Procs, Launch(p)
  PROVE  LInv'
<1>1. ASSUME NEW i \in Items, NEW force \in BOOLEAN, BeginLaunch(p, i, force)
      PROVE  LInv'
  <2>1. /\ proc[p] = Idle /\ ~Busy(i) /\ session[i] = 0
        /\ tree' = [tree EXCEPT ![i] = TRUE] /\ UNCHANGED <<session, lock, crashed>>
        /\ proc' = proc \/ proc' = [proc EXCEPT ![p] = Launching(i, "hook", 0, force)]
    BY <1>1 DEF BeginLaunch
  <2>2. /\ Launching(i, "hook", 0, force) \in LaunchStates
        /\ Launching(i, "hook", 0, force).item = i /\ Launching(i, "hook", 0, force).at = "hook"
    BY WorkspaceAssumption DEF Launching, LaunchStates
  <2>3. proc'[p] = Idle \/ proc'[p] = Launching(i, "hook", 0, force)
    BY <2>1 DEF TypeOK
  <2>4. ~Launches(p) /\ ~Stamps(p)
    BY <2>1, Kinds DEF Stamps
  <2>5. Touches(p, i)
    BY <2>1, <2>2, <2>3 DEF Touches, OnlyMoves, Busy, TypeOK
  <2>6. LockMoves(p, i)
    BY <2>1 DEF LockMoves
  <2>7. tree'[i] /\ session'[i] = 0
    BY <2>1 DEF TypeOK
  <2>8. ~Stamps(p)' /\ (Launches(p)' => LaunchHas(p)') /\ (Cleans(p)' => CleanHas(p)')
    BY <2>2, <2>3, <2>7 DEF Stamps, LaunchHas, Launches, Cleans, LaunchStates, CleanStates, Idle
  <2>9. Leaves(p, i)
    BY <2>4, <2>7, <2>8 DEF Leaves
  <2>. QED
    BY <2>5, <2>6, <2>9, StepKeeps
<1>. SUFFICES ASSUME ~(\E i \in Items, force \in BOOLEAN : BeginLaunch(p, i, force))
              PROVE  LInv'
  BY <1>1
<1>2. proc[p] # Idle /\ Launches(p) /\ LaunchHas(p) /\ proc[p].item \in Items
  <2>1. \E at : At(p, "launch", at)
    BY DEF Launch, HookFails, FindPartition, ClaimPartition, StampPartition, WritePrompt,
           OpenSession, SessionFails, UndoLock, UndoTree
  <2>. QED
    BY <2>1, AtPlace DEF LInv
<1>10. PICK i \in Items : i = proc[p].item
  BY <1>2
<1>3. ASSUME NEW at \in {"hook", "claim", "stamp", "prompt", "open", "undo", "drop"}, Goes(p, at)
      PROVE  /\ OnlyMoves(p) /\ Launches(p)' /\ ~Cleans(p)'
             /\ proc'[p].item = i /\ proc'[p].n = proc[p].n /\ proc'[p].at = at
             /\ proc'[p] # Idle
  <2>1. OnlyMoves(p) /\ proc'[p] = Onward(proc[p], at)
    BY <1>3, Moves
  <2>2. /\ proc'[p] \in LaunchStates /\ proc'[p].item = i /\ proc'[p].n = proc[p].n
        /\ proc'[p].at = at
    BY <1>2, <1>10, <2>1, OnwardLaunch DEF Launches
  <2>. QED
    BY <2>1, <2>2, Kinds DEF Launches, Cleans, LaunchStates, CleanStates, Idle
<1>4. \A q \in Procs \ {p} : proc[q] # Idle => proc[q].item # i
  BY <1>2, <1>10 DEF LInv, Apart
<1>5. session[i] = 0 /\ tree[i]
  BY <1>2, <1>10 DEF LaunchHas
<1>6. CASE HookFails(p) \/ SessionFails(p)
  <2>1. /\ Goes(p, "undo") /\ UNCHANGED <<tree, session, lock, crashed>>
        /\ proc[p].at \in {"hook", "open"}
    BY <1>6 DEF HookFails, SessionFails, At
  <2>2. Touches(p, i) /\ LockMoves(p, i)
    BY <1>3, <1>4, <1>10, <2>1 DEF Touches, LockMoves
  <2>3. ~Stamps(p) /\ ~Stamps(p)' /\ LaunchHas(p)'
    BY <1>3, <1>5, <2>1 DEF Stamps, LaunchHas
  <2>4. Leaves(p, i)
    BY <1>3, <1>5, <2>1, <2>3 DEF Leaves
  <2>. QED
    BY <2>2, <2>4, StepKeeps
<1>7. CASE WritePrompt(p)
  <2>1. /\ Goes(p, "open") /\ UNCHANGED <<tree, session, lock, crashed>>
        /\ proc[p].at = "prompt"
    BY <1>7 DEF WritePrompt, At
  <2>2. Touches(p, i) /\ LockMoves(p, i)
    BY <1>3, <1>4, <1>10, <2>1 DEF Touches, LockMoves
  <2>3. ~Stamps(p) /\ ~Stamps(p)' /\ LaunchHas(p)'
    BY <1>2, <1>3, <1>5, <1>10, <2>1 DEF Stamps, LaunchHas
  <2>4. Leaves(p, i)
    BY <1>3, <1>5, <2>1, <2>3 DEF Leaves
  <2>. QED
    BY <2>2, <2>4, StepKeeps
<1>8. CASE FindPartition(p)
  <2>1. UNCHANGED <<tree, session, lock, crashed>> /\ proc[p].at = "hook"
    BY <1>8 DEF FindPartition, At
  <2>2. ASSUME NEW at \in {"claim", "prompt"}, NEW n \in Numbers,
               proc' = [proc EXCEPT ![p] = [@ EXCEPT !.at = at, !.n = n]],
               at = "claim" => Lockless(i),
               at = "prompt" => lock[n] = i
        PROVE  LInv'
    <3>1. proc' = [proc EXCEPT ![p] = Numbered(proc[p], at, n)]
      BY <2>2, Zenon DEF Numbered
    <3>2. OnlyMoves(p) /\ proc'[p] = Numbered(proc[p], at, n)
      BY <3>1 DEF OnlyMoves, TypeOK
    <3>3. n \in 0 .. Partitions
      BY WorkspaceAssumption DEF Numbers
    <3>4. /\ proc'[p] \in LaunchStates /\ proc'[p].item = i /\ proc'[p].n = n
          /\ proc'[p].at = at
      BY <1>2, <1>10, <3>2, <3>3, NumberedLaunch DEF Launches
    <3>5. Launches(p)' /\ ~Cleans(p)' /\ proc'[p] # Idle
      BY <3>4 DEF Launches, Cleans, LaunchStates, CleanStates, Idle
    <3>6. Touches(p, i) /\ LockMoves(p, i)
      BY <1>4, <1>10, <2>1, <3>2, <3>4 DEF Touches, LockMoves
    <3>7. ~Stamps(p) /\ ~Stamps(p)' /\ LaunchHas(p)'
      BY <1>5, <2>1, <2>2, <3>4 DEF Stamps, LaunchHas, Lockless
    <3>8. Leaves(p, i)
      BY <1>5, <2>1, <3>5, <3>7 DEF Leaves
    <3>. QED
      BY <3>6, <3>8, StepKeeps
  <2>3. CASE /\ Held(i) = {}
             /\ proc' = [proc EXCEPT ![p] = [@ EXCEPT !.at = "claim", !.n = 1]]
    <3>1. Lockless(i) /\ 1 \in Numbers
      BY <2>3, WorkspaceAssumption DEF Held, Lockless, Numbers
    <3>. QED
      BY <2>2, <2>3, <3>1
  <2>4. CASE \E n \in Held(i) : proc' = [proc EXCEPT ![p] = [@ EXCEPT !.at = "prompt", !.n = n]]
    <3>1. PICK n \in Held(i) : proc' = [proc EXCEPT ![p] = [@ EXCEPT !.at = "prompt", !.n = n]]
      BY <2>4
    <3>2. n \in Numbers /\ lock[n] = i
      BY DEF Held
    <3>. QED
      BY <2>2, <3>1, <3>2
  <2>. QED
    BY <1>8, <1>10, <2>3, <2>4, Zenon DEF FindPartition
<1>9. CASE ClaimPartition(p)
  <2>1. /\ proc[p].at = "claim" /\ proc[p].n \in Numbers /\ Lockless(i)
        /\ UNCHANGED <<tree, session, crashed>> /\ ~Stamps(p)
    BY <1>2, <1>9, <1>10 DEF ClaimPartition, At, LaunchHas, Stamps
  <2>2. CASE /\ lock[proc[p].n] = "free" /\ lock' = [lock EXCEPT ![proc[p].n] = "blank"]
             /\ Goes(p, "stamp")
    <3>1. Touches(p, i)
      BY <1>3, <1>4, <1>10, <2>1, <2>2 DEF Touches
    <3>2. Stamps(p)' /\ proc'[p].n = proc[p].n
      BY <1>3, <2>2 DEF Stamps
    <3>3. \A n \in Numbers : lock'[n] = IF n = proc[p].n THEN "blank" ELSE lock[n]
      BY <2>2 DEF TypeOK
    <3>4. LockMoves(p, i)
      BY <2>2, <3>2, <3>3 DEF LockMoves
    <3>5. Lockless(i)'
      BY <2>1, <3>3, WorkspaceAssumption DEF Lockless
    <3>6. LaunchHas(p)'
      BY <1>3, <1>5, <2>1, <2>2, <3>3, <3>5 DEF LaunchHas, Lockless
    <3>7. Leaves(p, i)
      BY <1>3, <1>5, <2>1, <2>2, <3>2, <3>6 DEF Leaves
    <3>. QED
      BY <3>1, <3>4, <3>7, StepKeeps
  <2>3. CASE /\ proc[p].n < Partitions /\ proc' = [proc EXCEPT ![p].n = @ + 1] /\ UNCHANGED lock
    <3>1. proc' = [proc EXCEPT ![p] = Counted(proc[p])]
      BY <2>3, Zenon DEF Counted
    <3>2. OnlyMoves(p) /\ proc'[p] = Counted(proc[p])
      BY <3>1 DEF OnlyMoves, TypeOK
    <3>3. /\ proc'[p] \in LaunchStates /\ proc'[p].item = i /\ proc'[p].n = proc[p].n + 1
          /\ proc'[p].at = "claim"
      BY <1>2, <1>10, <2>1, <2>3, <3>2, CountedLaunch DEF Launches
    <3>4. proc[p].n + 1 \in Numbers
      BY <2>1, <2>3, WorkspaceAssumption DEF Numbers
    <3>5. Launches(p)' /\ ~Cleans(p)' /\ proc'[p] # Idle
      BY <3>3 DEF Launches, Cleans, LaunchStates, CleanStates, Idle
    <3>6. Touches(p, i) /\ LockMoves(p, i)
      BY <1>4, <1>10, <2>1, <2>3, <3>2, <3>3 DEF Touches, LockMoves
    <3>7. ~Stamps(p)' /\ LaunchHas(p)'
      BY <1>5, <2>1, <2>3, <3>3, <3>4 DEF Stamps, LaunchHas, Lockless
    <3>8. Leaves(p, i)
      BY <1>5, <2>1, <3>5, <3>7 DEF Leaves
    <3>. QED
      BY <3>6, <3>8, StepKeeps
  <2>. QED
    BY <1>9, <2>2, <2>3 DEF ClaimPartition
<1>11. CASE StampPartition(p)
  <2>1. /\ proc[p].at = "stamp" /\ proc[p].n \in Numbers /\ Lockless(i) /\ Goes(p, "prompt")
        /\ lock[proc[p].n] = "blank" /\ UNCHANGED <<tree, session, crashed>> /\ Stamps(p)
        /\ lock' = [lock EXCEPT ![proc[p].n] = i]
    BY <1>2, <1>10, <1>11 DEF StampPartition, At, LaunchHas, Stamps
  <2>2. Touches(p, i)
    BY <1>3, <1>4, <1>10, <2>1 DEF Touches
  <2>3. \A n \in Numbers : lock'[n] = IF n = proc[p].n THEN i ELSE lock[n]
    BY <2>1 DEF TypeOK
  <2>4. LockMoves(p, i)
    BY <2>1, <2>3 DEF LockMoves
  <2>5. LaunchHas(p)' /\ ~Stamps(p)'
    BY <1>3, <1>5, <2>1, <2>3 DEF LaunchHas, Stamps
  <2>6. lock'[proc[p].n] # "blank"
    BY <2>1, <2>3, WorkspaceAssumption
  <2>7. Leaves(p, i)
    BY <1>3, <1>5, <2>1, <2>5, <2>6 DEF Leaves
  <2>. QED
    BY <2>2, <2>4, <2>7, StepKeeps
<1>12. CASE OpenSession(p)
  <2>1. /\ proc[p].at = "open" /\ proc[p].n \in Numbers /\ lock[proc[p].n] = i /\ Ends(p)
        /\ UNCHANGED <<tree, lock, crashed>> /\ ~Stamps(p)
        /\ session' = [session EXCEPT ![i] = proc[p].n]
    BY <1>2, <1>10, <1>12 DEF OpenSession, At, LaunchHas, Stamps
  <2>2. proc'[p] = Idle /\ OnlyMoves(p)
    BY <2>1, Moves
  <2>3. ~Stamps(p)' /\ ~Launches(p)' /\ ~Cleans(p)'
    BY <2>2, Kinds DEF Stamps, Launches, Cleans, LaunchStates, CleanStates, Idle
  <2>4. Touches(p, i) /\ LockMoves(p, i)
    BY <1>4, <1>10, <2>1, <2>2 DEF Touches, LockMoves, TypeOK
  <2>5. Leaves(p, i)
    BY <1>5, <2>1, <2>3 DEF Leaves, TypeOK
  <2>. QED
    BY <2>4, <2>5, StepKeeps
<1>13. CASE UndoLock(p)
  <2>1. /\ proc[p].at = "undo" /\ Goes(p, "drop") /\ lock' = Released(i)
        /\ UNCHANGED <<tree, session, crashed>> /\ ~Stamps(p)
    BY <1>10, <1>13 DEF UndoLock, At, Stamps
  <2>2. \A n \in Numbers : lock'[n] = IF lock[n] = i THEN "free" ELSE lock[n]
    BY <2>1, ReleasedFrees
  <2>3. Touches(p, i) /\ LockMoves(p, i)
    BY <1>3, <1>4, <1>10, <2>1, <2>2 DEF Touches, LockMoves
  <2>4. Lockless(i)'
    BY <2>2, WorkspaceAssumption DEF Lockless
  <2>5. LaunchHas(p)' /\ ~Stamps(p)'
    BY <1>3, <1>5, <2>1, <2>4 DEF LaunchHas, Stamps, Lockless
  <2>6. Leaves(p, i)
    BY <1>3, <1>5, <2>1, <2>5 DEF Leaves
  <2>. QED
    BY <2>3, <2>6, StepKeeps
<1>14. CASE UndoTree(p)
  <2>1. /\ proc[p].at = "drop" /\ Ends(p) /\ Lockless(i) /\ tree' = [tree EXCEPT ![i] = FALSE]
        /\ UNCHANGED <<session, lock, crashed>> /\ ~Stamps(p)
    BY <1>2, <1>10, <1>14 DEF UndoTree, At, LaunchHas, Stamps
  <2>2. proc'[p] = Idle /\ OnlyMoves(p)
    BY <2>1, Moves
  <2>3. ~Stamps(p)' /\ ~Launches(p)' /\ ~Cleans(p)'
    BY <2>2, Kinds DEF Stamps, Launches, Cleans, LaunchStates, CleanStates, Idle
  <2>4. Touches(p, i) /\ LockMoves(p, i)
    BY <1>4, <1>10, <2>1, <2>2 DEF Touches, LockMoves, TypeOK
  <2>5. Leaves(p, i)
    BY <1>5, <2>1, <2>3 DEF Leaves, Lockless
  <2>. QED
    BY <2>4, <2>5, StepKeeps
<1>. QED
  BY <1>6, <1>7, <1>8, <1>9, <1>11, <1>12, <1>13, <1>14 DEF Launch

\* A clean goes on.
LEMMA CleanKeeps ==
  ASSUME TypeOK, TypeOK', LInv, NEW p \in Procs, Clean(p)
  PROVE  LInv'
<1>1. ASSUME NEW i \in Items, NEW op \in {"clean", "sweep"}, NEW at \in {"remove", "empty"},
             proc[p] = Idle, ~Busy(i), UNCHANGED <<tree, lock, crashed>>,
             \A j \in Items : session'[j] \in {session[j], 0},
             at = "empty" => ~tree[i],
             proc' = [proc EXCEPT ![p] = Cleaning(i, op, at)]
      PROVE  LInv'
  <2>1. /\ Cleaning(i, op, at) \in CleanStates
        /\ Cleaning(i, op, at).item = i /\ Cleaning(i, op, at).at = at
    BY DEF Cleaning, CleanStates
  <2>2. proc'[p] = Cleaning(i, op, at) /\ OnlyMoves(p)
    BY <1>1 DEF TypeOK, OnlyMoves
  <2>3. Cleans(p)' /\ ~Launches(p)' /\ ~Stamps(p)' /\ proc'[p] # Idle
    BY <2>1, <2>2 DEF Cleans, Launches, Stamps, LaunchStates, CleanStates, Idle
  <2>4. ~Stamps(p)
    BY <1>1, Kinds DEF Stamps
  <2>5. Touches(p, i) /\ LockMoves(p, i)
    BY <1>1, <2>1, <2>2 DEF Touches, LockMoves, Busy
  <2>6. at = "empty" => crashed \/ Lockless(i)
    BY <1>1, WorkspaceAssumption DEF LInv, Accounted, Account, Lockless, Busy
  <2>7. CleanHas(p)'
    BY <1>1, <2>1, <2>2, <2>6 DEF CleanHas, Lockless
  <2>8. session'[i] # 0 /\ tree'[i] => lock'[session'[i]] = i
    BY <1>1 DEF LInv, PartitionHeld
  <2>9. Leaves(p, i)
    BY <2>3, <2>4, <2>7, <2>8 DEF Leaves
  <2>. QED
    BY <2>5, <2>9, StepKeeps
<1>2. ASSUME NEW i \in Items, BeginClean(p, i) PROVE LInv'
  <2>1. \A j \in Items : session'[j] \in {session[j], 0}
    BY <1>2 DEF BeginClean, Closed, TypeOK
  <2>. QED
    BY <1>1, <1>2, <2>1 DEF BeginClean
<1>3. ASSUME NEW i \in Items, BeginSweep(p, i) PROVE LInv'
  BY <1>1, <1>3 DEF BeginSweep
<1>. SUFFICES ASSUME ~(\E i \in Items : BeginClean(p, i) \/ BeginSweep(p, i))
              PROVE  LInv'
  BY <1>2, <1>3
<1>4. proc[p] # Idle /\ Cleans(p) /\ CleanHas(p) /\ proc[p].item \in Items
  <2>1. \E op \in {"clean", "sweep"} : \E at : At(p, op, at)
    BY DEF Clean, RemoveTree, ReleaseLock, EmptyInboxes, CloseSwept
  <2>. QED
    BY <2>1, AtPlace DEF LInv
<1>5. PICK i \in Items : i = proc[p].item
  BY <1>4
<1>6. ASSUME NEW at \in {"release", "empty", "close"}, Goes(p, at)
      PROVE  /\ OnlyMoves(p) /\ Cleans(p)' /\ ~Launches(p)'
             /\ proc'[p].item = i /\ proc'[p].at = at /\ proc'[p] # Idle
  <2>1. OnlyMoves(p) /\ proc'[p] = Onward(proc[p], at)
    BY <1>6, Moves
  <2>2. proc'[p] \in CleanStates /\ proc'[p].item = i /\ proc'[p].at = at
    BY <1>4, <1>5, <2>1, OnwardClean DEF Cleans
  <2>. QED
    BY <2>1, <2>2 DEF Launches, Cleans, LaunchStates, CleanStates, Idle
<1>7. \A q \in Procs \ {p} : proc[q] # Idle => proc[q].item # i
  BY <1>4, <1>5 DEF LInv, Apart
<1>8. ~Launches(p) /\ ~Stamps(p)
  BY <1>4, Kinds DEF Stamps
<1>9. CASE RemoveTree(p)
  <2>1. /\ Goes(p, "release") /\ UNCHANGED <<session, lock, crashed>>
        /\ tree' = [tree EXCEPT ![i] = FALSE]
    BY <1>5, <1>9 DEF RemoveTree, TreeGone
  <2>2. ~tree'[i] /\ \A j \in Items \ {i} : tree'[j] = tree[j]
    BY <2>1 DEF TypeOK
  <2>3. Touches(p, i) /\ LockMoves(p, i)
    BY <1>5, <1>6, <1>7, <2>1, <2>2 DEF Touches, LockMoves
  <2>4. CleanHas(p)'
    BY <1>6, <2>1, <2>2 DEF CleanHas
  <2>5. Leaves(p, i)
    BY <1>6, <1>8, <2>1, <2>2, <2>4 DEF Leaves, Stamps
  <2>. QED
    BY <2>3, <2>5, StepKeeps
<1>10. CASE ReleaseLock(p)
  <2>1. /\ \E at \in {"empty", "close"} : Goes(p, at)
        /\ UNCHANGED <<tree, session, crashed>> /\ lock' = Released(i) /\ proc[p].at = "release"
    BY <1>5, <1>10 DEF ReleaseLock, At
  <2>2. PICK at \in {"empty", "close"} : Goes(p, at)
    BY <2>1
  <2>3. \A n \in Numbers : lock'[n] = IF lock[n] = i THEN "free" ELSE lock[n]
    BY <2>1, ReleasedFrees
  <2>4. ~tree'[i]
    BY <1>4, <1>5, <2>1 DEF CleanHas
  <2>5. Touches(p, i) /\ LockMoves(p, i)
    BY <1>5, <1>6, <1>7, <2>1, <2>2, <2>3 DEF Touches, LockMoves
  <2>6. Lockless(i)'
    BY <2>3, WorkspaceAssumption DEF Lockless
  <2>7. CleanHas(p)'
    BY <1>6, <2>2, <2>4, <2>6 DEF CleanHas, Lockless
  <2>8. Leaves(p, i)
    BY <1>6, <1>8, <2>2, <2>4, <2>7 DEF Leaves, Stamps
  <2>. QED
    BY <2>5, <2>8, StepKeeps
<1>11. CASE EmptyInboxes(p) \/ CloseSwept(p)
  <2>1. /\ Ends(p) /\ UNCHANGED <<tree, lock, crashed>> /\ proc[p].at \in {"empty", "close"}
        /\ \A j \in Items : session'[j] = session[j] \/ (j = i /\ session'[j] = 0)
    BY <1>5, <1>11 DEF EmptyInboxes, CloseSwept, Closed, At, TypeOK
  <2>2. proc'[p] = Idle /\ OnlyMoves(p)
    BY <2>1, Moves
  <2>3. ~Stamps(p)' /\ ~Launches(p)' /\ ~Cleans(p)'
    BY <2>2 DEF Stamps, Launches, Cleans, LaunchStates, CleanStates, Idle
  <2>4. ~tree[i] /\ (crashed \/ Lockless(i))
    BY <1>4, <1>5, <2>1 DEF CleanHas
  <2>5. Touches(p, i) /\ LockMoves(p, i)
    BY <1>5, <1>7, <2>1, <2>2 DEF Touches, LockMoves
  <2>6. Leaves(p, i)
    BY <1>8, <2>1, <2>3, <2>4 DEF Leaves, Lockless
  <2>. QED
    BY <2>5, <2>6, StepKeeps
<1>. QED
  BY <1>9, <1>10, <1>11 DEF Clean

\* A process is killed: from then on a lock may be left behind, and nothing else changes.
LEMMA CrashKeeps ==
  ASSUME TypeOK, TypeOK', LInv, NEW p \in Procs, Crash(p)
  PROVE  LInv'
<1>1. /\ proc[p] # Idle /\ Ends(p) /\ crashed' /\ UNCHANGED <<tree, session, lock>>
  BY DEF Crash
<1>2. PICK i \in Items : i = proc[p].item
  BY <1>1, Kinds
<1>3. proc'[p] = Idle /\ OnlyMoves(p)
  BY <1>1, Moves
<1>4. ~Launches(p)' /\ ~Cleans(p)' /\ ~Stamps(p)'
  BY <1>3 DEF Stamps, Launches, Cleans, LaunchStates, CleanStates, Idle
<1>5. Touches(p, i) /\ LockMoves(p, i)
  BY <1>1, <1>2, <1>3 DEF Touches, LockMoves, LInv, Apart
<1>6. Leaves(p, i)
  BY <1>1, <1>4 DEF Leaves, LInv, PartitionHeld
<1>. QED
  BY <1>5, <1>6, StepKeeps

\* The sweep frees what a killed process left, and no lock whose worktree stands.
LEMMA SweepKeeps ==
  ASSUME TypeOK, LInv, SweepLocks
  PROVE  LInv'
<1>1. /\ \A p \in Procs : proc'[p] = Idle /\ UNCHANGED <<tree, session>>
      /\ \A n \in Numbers : lock'[n] = IF Stale(n) THEN "free" ELSE lock[n]
  BY DEF SweepLocks
<1>2. \A p \in Procs : ~Launches(p)' /\ ~Cleans(p)' /\ ~Stamps(p)'
  BY <1>1 DEF Stamps, Launches, Cleans, LaunchStates, CleanStates, Idle
<1>3. Apart'
  BY <1>1, <1>2, WorkspaceAssumption DEF LInv, Apart
<1>4. PartitionHeld'
  <2>. SUFFICES ASSUME NEW j \in Items, session'[j] # 0, tree'[j]
                PROVE  lock'[session'[j]] = j
    BY DEF PartitionHeld
  <2>1. session'[j] = session[j] /\ tree[j] /\ session[j] \in Numbers
    BY <1>1, WorkspaceAssumption DEF TypeOK, Numbers, SweepLocks
  <2>2. lock[session[j]] = j
    BY <1>1, <2>1 DEF LInv, PartitionHeld
  <2>3. ~Stale(session[j])
    BY <2>1, <2>2, WorkspaceAssumption DEF Stale
  <2>. QED
    BY <1>1, <2>1, <2>2, <2>3
<1>5. Accounted'
  BY <1>1 DEF Accounted, Account, Stale, TypeOK, SweepLocks
<1>. QED
  BY <1>2, <1>3, <1>4, <1>5 DEF LInv

\* Nothing else moves a lock, a worktree or a process; a session may end.
LEMMA OthersKeep ==
  ASSUME TypeOK, LInv, UNCHANGED <<tree, lock, proc, crashed>>,
         \A j \in Items : session'[j] \in {session[j], 0}
  PROVE  LInv'
<1>1. \A p \in Procs : /\ (Launches(p)' <=> Launches(p))
                       /\ (Cleans(p)' <=> Cleans(p))
                       /\ (Stamps(p)' <=> Stamps(p))
  BY DEF Launches, Cleans, Stamps
<1>2. \A p \in Procs : Launches(p) => LaunchHas(p)'
  BY Kinds DEF LInv, LaunchHas, Lockless
<1>3. \A p \in Procs : Cleans(p) => CleanHas(p)'
  BY DEF LInv, CleanHas, Lockless
<1>4. Apart' /\ PartitionHeld'
  BY <1>1 DEF LInv, Apart, PartitionHeld
<1>5. Accounted'
  BY <1>1 DEF LInv, Accounted, Account
<1>. QED
  BY <1>1, <1>2, <1>3, <1>4, <1>5 DEF LInv

\* Every step keeps the locks right.
LEMMA LocksStep == TypeOK /\ TypeOK' /\ LInv /\ [Next]_vars => LInv'
<1>. SUFFICES ASSUME TypeOK, TypeOK', LInv, [Next]_vars
              PROVE  LInv'
  OBVIOUS
<1>1. CASE StateFileGone \/ UNCHANGED vars
  BY <1>1, OthersKeep DEF StateFileGone, vars
<1>2. ASSUME NEW i \in Items, Push(i) \/ Merge(i) \/ Persist(i) \/ Deliver(i)
      PROVE  LInv'
  BY <1>2, OthersKeep DEF Push, Merge, Persist, Deliver
<1>3. ASSUME NEW i \in Items, WorkerDies(i)
      PROVE  LInv'
  BY <1>3, OthersKeep DEF WorkerDies, Closed, TypeOK
<1>4. ASSUME NEW i \in Items, Calls(i)
      PROVE  LInv'
  BY <1>4, CallsKeep, OthersKeep
<1>. QED
  BY <1>1, <1>2, <1>3, <1>4, LaunchKeeps, CleanKeeps, CrashKeeps, SweepKeeps DEF Next

\* At first nobody does anything and nothing is locked.
LEMMA LocksInit == Init => LInv
<1>. SUFFICES ASSUME Init
              PROVE  LInv
  OBVIOUS
<1>1. \A p \in Procs : proc[p] = Idle /\ ~Launches(p) /\ ~Cleans(p) /\ ~Stamps(p)
  BY DEF Init, Launches, Cleans, Stamps, LaunchStates, CleanStates, Idle
<1>2. \A n \in Numbers : lock[n] = "free"
  BY DEF Init
<1>3. Apart
  BY <1>1, <1>2, WorkspaceAssumption DEF Apart
<1>4. PartitionHeld
  BY DEF Init, PartitionHeld
<1>. QED
  BY <1>1, <1>2, <1>3, <1>4 DEF LInv, Accounted, Account

\* Every variable keeps its type: in particular a session is always told a partition that there
\* is, and a process that launches or cleans has an item.
THEOREM TypesKept == Spec => []TypeOK
BY TypeInit, TypeStep, PTL DEF Spec

\* allocatePartition, releasePartition, the undo of a launch and the sweep at a start, with two or
\* any number of processes at them, killed anywhere: a session whose worktree stands has the lock
\* of the partition it was told, no two items share one, and without a kill none is left behind.
THEOREM LocksAreRight == Spec => []LocksRight
<1>1. Init => TypeOK /\ LInv
  BY TypeInit, LocksInit
<1>2. TypeOK /\ LInv /\ [Next]_vars => (TypeOK /\ LInv)'
  BY TypeStep, LocksStep
<1>3. TypeOK /\ LInv => LocksRight
  BY LocksFollow
<1>. QED
  BY <1>1, <1>2, <1>3, PTL DEF Spec

---------------------------------------------------------------------------
(* Repairs *)

\* An open pull request has its branch, here and on origin.
Backed == \A i \in Items : pr[i] = "open" => branch[i] = "ahead" /\ remote[i]

\* A launch that has listed the pull requests finds the branch of an open one, or attaches it.
LEMMA LaunchLeavesBacked ==
  ASSUME TypeOK, Backed, NEW p \in Procs, NEW i \in Items, NEW force \in BOOLEAN,
         BeginLaunch(p, i, force), Outages \subseteq {"validate"}
  PROVE  Backed'
<1>1. Listing(i, "ensure") = {pr[i]}
  BY DEF Listing
<1>2. /\ branch' = [branch EXCEPT ![i] = Ensured(i, Reused(i, pr[i]), pr[i])]
      /\ remote' = [remote EXCEPT ![i] = Reused(i, pr[i]).remote]
      /\ UNCHANGED pr
  BY <1>1, Zenon DEF BeginLaunch
<1>3. ASSUME pr[i] = "open"
      PROVE  Ensured(i, Reused(i, pr[i]), pr[i]) = "ahead" /\ Reused(i, pr[i]).remote
  BY <1>3 DEF Backed, Ensured, Reused, Synced, Attached, TypeOK
<1>. QED
  BY <1>2, <1>3 DEF Backed, TypeOK

\* Whatever else happens, only a push opens one and only the removal of a worktree takes the
\* branch, and it takes the pull request with it.
LEMMA BackedStep ==
  ASSUME Outages \subseteq {"validate"}
  PROVE  TypeOK /\ Backed /\ [Next]_vars => Backed'
<1>. SUFFICES ASSUME TypeOK, Backed, [Next]_vars
              PROVE  Backed'
  OBVIOUS
<1>1. CASE UNCHANGED repo
  BY <1>1 DEF Backed, repo
<1>2. ASSUME NEW p \in Procs, Launch(p)
      PROVE  Backed'
  BY <1>1, <1>2, LaunchLeavesBacked
     DEF Launch, HookFails, FindPartition, ClaimPartition, StampPartition, WritePrompt, OpenSession,
         SessionFails, UndoLock, UndoTree
<1>3. ASSUME NEW p \in Procs, Clean(p) \/ Crash(p)
      PROVE  Backed'
  <2>1. CASE RemoveTree(p)
    BY <2>1 DEF RemoveTree, BranchesGone, Backed, TypeOK
  <2>. QED
    BY <1>1, <1>3, <2>1 DEF Clean, Crash, BeginClean, BeginSweep, ReleaseLock, EmptyInboxes, CloseSwept
<1>4. ASSUME NEW i \in Items, Push(i) \/ Merge(i)
      PROVE  Backed'
  BY <1>4 DEF Push, Merge, Backed, TypeOK
<1>5. ASSUME NEW i \in Items, Calls(i)
      PROVE  Backed'
  BY <1>1, <1>5, CallsKeep
<1>6. ASSUME NEW i \in Items, WorkerDies(i) \/ Persist(i) \/ Deliver(i)
      PROVE  Backed'
  BY <1>1, <1>6 DEF WorkerDies, Persist, Deliver
<1>7. CASE SweepLocks \/ StateFileGone \/ UNCHANGED vars
  BY <1>1, <1>7 DEF SweepLocks, StateFileGone, vars, repo
<1>. QED
  BY <1>2, <1>3, <1>4, <1>5, <1>6, <1>7 DEF Next

\* ensureWorktreeAndBranch and cleanStaleBranchForReuse against pushes, merges, cleans and undone
\* launches: a worker that is launched to repair an open pull request finds its commits, as long
\* as the listing that decides what becomes of the branch is answered.  (The premise is needed: a
\* failed listing reads as no pull request, and the branch is made anew.)
THEOREM RepairsFindTheirBranch ==
  ASSUME Outages \subseteq {"validate"}
  PROVE  Spec => []RepairsThePullRequest
<1>1. Init => Backed
  BY DEF Init, Backed
<1>2. TypeOK /\ Backed /\ [Next]_vars => Backed'
  BY BackedStep
<1>3. TypeOK /\ Backed => RepairsThePullRequest
  BY Kinds DEF Backed, RepairsThePullRequest
<1>. QED
  BY <1>1, <1>2, <1>3, TypeInit, TypeStep, PTL DEF Spec

---------------------------------------------------------------------------
(* Mail *)

CallStates ==
  [at : {"off", "look", "tree", "hub"}, mode : {"none", "check", "wait"},
   ns : {"none", "tree", "hub"}, m : Nat]

MailTyped ==
  /\ box \in [Items -> [Namespaces -> Seq(Nat)]]
  /\ heard \in [Items -> [Namespaces -> Seq(Nat \X Readers)]]
  /\ sent \in [Items -> Nat] /\ since \in [Items -> Nat]
  /\ reader \in [Items -> [Readers -> CallStates]]

\* The messages w that wait and the readings t, when n were written: both in the order of
\* writing, and all that was read before all that waits.
Ordered(w, t, n) ==
  /\ \A x, y \in DOMAIN w : x < y => w[x] < w[y]
  /\ \A x \in DOMAIN w : w[x] <= n
  /\ \A x, y \in DOMAIN t : x < y => t[x][1] < t[y][1]
  /\ \A x \in DOMAIN t : t[x][1] <= n
  /\ \A x \in DOMAIN t, y \in DOMAIN w : t[x][1] < w[y]

\* What a call has read, of n written, is the first message of the box b, or no longer there.
Foremost(c, b, n) ==
  c.at \in Namespaces =>
    c.m <= n /\ \A k \in DOMAIN b[c.at] : b[c.at][k] = c.m => k = 1

\* What waits in the worktree was written for the session that is there.
Fresh(i) == session[i] # 0 => \A k \in DOMAIN box[i]["tree"] : since[i] < box[i]["tree"][k]

Opens(p) == Launches(p) /\ proc[p].at = "open"

MInv ==
  /\ MailTyped
  /\ \A i \in Items, n \in Namespaces : Ordered(box[i][n], heard[i][n], sent[i])
  /\ \A i \in Items, r \in Readers : Foremost(reader[i][r], box[i], sent[i])
  /\ \A i \in Items : since[i] <= sent[i] /\ Fresh(i)
  /\ \A i \in Items : session[i] = 0 => reader[i]["worker"] = Off
  /\ \A p \in Procs : Opens(p) => box[proc[p].item]["tree"] = <<>>

Rest(w) == RemoveAt(w, 1)
Put(w, n) == Append(w, n + 1)
Hear(t, m, r) == Append(t, <<m, r>>)

\* The rest of a box is what was behind its first message.
LEMMA RestFacts ==
  ASSUME NEW w \in Seq(Nat), 1 \in DOMAIN w
  PROVE  /\ Rest(w) \in Seq(Nat) /\ DOMAIN Rest(w) = 1 .. (Len(w) - 1)
         /\ \A k \in 1 .. (Len(w) - 1) : Rest(w)[k] = w[k + 1] /\ k + 1 \in DOMAIN w
         /\ \A k \in DOMAIN Rest(w) : \E x \in DOMAIN w : x # 1 /\ Rest(w)[k] = w[x]
<1>1. Len(w) \in Nat \ {0} /\ DOMAIN w = 1 .. Len(w)
  OBVIOUS
<1>. DEFINE front == SubSeq(w, 1, 0)
            back == SubSeq(w, 2, Len(w))
<1>2. front \in Seq(Nat) /\ Len(front) = 0
  BY <1>1, SubSeqProperties
<1>3. /\ back \in Seq(Nat) /\ Len(back) = Len(w) - 1
      /\ \A k \in 1 .. (Len(w) - 1) : back[k] = w[k + 1]
  <2>1. \A k \in 2 .. Len(w) : w[k] \in Nat
    BY <1>1
  <2>2. /\ back \in Seq(Nat)
        /\ Len(back) = IF 2 <= Len(w) THEN Len(w) - 2 + 1 ELSE 0
        /\ \A k \in 1 .. (Len(w) - 2 + 1) : back[k] = w[2 + k - 1]
    BY <1>1, <2>1, SubSeqProperties
  <2>. QED
    BY <1>1, <2>2
<1>4. Rest(w) = front \o back
  BY DEF Rest, RemoveAt
<1>. HIDE DEF front, back
<1>5. /\ Rest(w) \in Seq(Nat) /\ Len(Rest(w)) = Len(w) - 1
      /\ \A k \in 1 .. (Len(w) - 1) : Rest(w)[k] = back[k]
  <2>1. /\ Rest(w) \in Seq(Nat) /\ Len(Rest(w)) = Len(front) + Len(back)
        /\ \A k \in 1 .. (Len(front) + Len(back)) :
             Rest(w)[k] = IF k <= Len(front) THEN front[k] ELSE back[k - Len(front)]
    BY <1>2, <1>3, <1>4, ConcatProperties
  <2>2. Len(front) + Len(back) = Len(w) - 1
    BY <1>1, <1>2, <1>3
  <2>3. \A k \in 1 .. (Len(w) - 1) : ~(k <= Len(front)) /\ k - Len(front) = k
    BY <1>1, <1>2
  <2>. QED
    BY <2>1, <2>2, <2>3
<1>6. DOMAIN Rest(w) = 1 .. (Len(w) - 1)
  BY <1>1, <1>5
<1>7. \A k \in 1 .. (Len(w) - 1) : k + 1 \in DOMAIN w
  BY <1>1
<1>8. \A k \in 1 .. (Len(w) - 1) : k + 1 # 1
  BY <1>1
<1>. QED
  BY <1>3, <1>5, <1>6, <1>7, <1>8

\* The last reading is the one just made.
LEMMA LastHeard ==
  ASSUME NEW t \in Seq(Nat \X Readers), NEW m \in Nat, NEW r \in Readers
  PROVE  Last(Hear(t, m, r)) = <<m, r>>
<1>1. <<m, r>> \in Nat \X Readers
  OBVIOUS
<1>2. Len(Hear(t, m, r)) = Len(t) + 1 /\ Hear(t, m, r)[Len(t) + 1] = <<m, r>>
  BY <1>1, AppendProperties DEF Hear
<1>. QED
  BY <1>2 DEF Last

\* The first message goes from the box to what was read.
LEMMA OrderedTaken ==
  ASSUME NEW w \in Seq(Nat), NEW t \in Seq(Nat \X Readers), NEW n \in Nat, Ordered(w, t, n),
         1 \in DOMAIN w, NEW r \in Readers
  PROVE  /\ Hear(t, w[1], r) \in Seq(Nat \X Readers)
         /\ Ordered(Rest(w), Hear(t, w[1], r), n)
<1>1. w[1] \in Nat /\ <<w[1], r>> \in Nat \X Readers
  OBVIOUS
<1>2. /\ Hear(t, w[1], r) \in Seq(Nat \X Readers)
      /\ DOMAIN Hear(t, w[1], r) = 1 .. (Len(t) + 1) /\ DOMAIN t = 1 .. Len(t) /\ Len(t) \in Nat
      /\ \A x \in 1 .. Len(t) : Hear(t, w[1], r)[x] = t[x]
      /\ Hear(t, w[1], r)[Len(t) + 1] = <<w[1], r>>
  BY <1>1, AppendProperties DEF Hear
<1>3. \A x \in 1 .. Len(t) : t[x][1] \in Nat
  BY <1>2
<1>4. \A k \in DOMAIN Rest(w) : /\ Rest(w)[k] = w[k + 1] /\ k + 1 \in DOMAIN w /\ k \in Nat \ {0}
                                /\ w[k + 1] \in Nat /\ w[1] < w[k + 1]
  <2>. SUFFICES ASSUME NEW k \in DOMAIN Rest(w)
                PROVE  /\ Rest(w)[k] = w[k + 1] /\ k + 1 \in DOMAIN w /\ k \in Nat \ {0}
                       /\ w[k + 1] \in Nat /\ w[1] < w[k + 1]
    OBVIOUS
  <2>1. Len(w) \in Nat /\ k \in 1 .. (Len(w) - 1)
    <3>1. DOMAIN Rest(w) = 1 .. (Len(w) - 1)
      BY RestFacts, Zenon
    <3>. QED
      BY <3>1
  <2>2. Rest(w)[k] = w[k + 1] /\ k + 1 \in DOMAIN w
    BY <2>1, RestFacts
  <2>3. 1 < k + 1 /\ k \in Nat \ {0}
    BY <2>1
  <2>4. w[1] < w[k + 1]
    BY <2>2, <2>3 DEF Ordered
  <2>5. w[k + 1] \in Nat
    BY <2>2
  <2>. QED
    BY <2>2, <2>3, <2>4, <2>5
<1>5. \A x \in 1 .. (Len(t) + 1) :
        /\ x \in 1 .. Len(t) => Hear(t, w[1], r)[x][1] = t[x][1] /\ t[x][1] < w[1]
        /\ x \notin 1 .. Len(t) => x = Len(t) + 1 /\ Hear(t, w[1], r)[x][1] = w[1]
  <2>1. \A x \in 1 .. Len(t) : t[x][1] < w[1]
    BY <1>2 DEF Ordered
  <2>2. \A x \in 1 .. (Len(t) + 1) : x \notin 1 .. Len(t) => x = Len(t) + 1
    BY <1>2
  <2>3. Hear(t, w[1], r)[Len(t) + 1][1] = w[1]
    BY <1>2
  <2>. QED
    BY <1>2, <2>1, <2>2, <2>3
<1>6. \A x, y \in DOMAIN Rest(w) : x < y => Rest(w)[x] < Rest(w)[y]
  BY <1>4 DEF Ordered
<1>7. \A x \in DOMAIN Rest(w) : Rest(w)[x] <= n
  BY <1>4 DEF Ordered
<1>8. \A x, y \in DOMAIN Hear(t, w[1], r) :
        x < y => Hear(t, w[1], r)[x][1] < Hear(t, w[1], r)[y][1]
  <2>. SUFFICES ASSUME NEW x \in DOMAIN Hear(t, w[1], r), NEW y \in DOMAIN Hear(t, w[1], r), x < y
                PROVE  Hear(t, w[1], r)[x][1] < Hear(t, w[1], r)[y][1]
    OBVIOUS
  <2>1. x \in 1 .. (Len(t) + 1) /\ y \in 1 .. (Len(t) + 1)
    BY <1>2
  <2>2. x \in 1 .. Len(t)
    BY <1>2, <2>1
  <2>3. CASE y \in 1 .. Len(t)
    BY <1>2, <1>5, <2>1, <2>2, <2>3 DEF Ordered
  <2>4. CASE y \notin 1 .. Len(t)
    BY <1>5, <2>1, <2>2, <2>4
  <2>. QED
    BY <2>3, <2>4
<1>9. \A x \in DOMAIN Hear(t, w[1], r) : Hear(t, w[1], r)[x][1] <= n
  <2>1. w[1] <= n
    BY DEF Ordered
  <2>2. \A x \in 1 .. Len(t) : t[x][1] <= n
    BY <1>2 DEF Ordered
  <2>. SUFFICES ASSUME NEW x \in 1 .. (Len(t) + 1)
                PROVE  Hear(t, w[1], r)[x][1] <= n
    BY <1>2
  <2>3. CASE x \in 1 .. Len(t)
    BY <1>5, <2>2, <2>3
  <2>4. CASE x \notin 1 .. Len(t)
    BY <1>5, <2>1, <2>4
  <2>. QED
    BY <2>3, <2>4
<1>10. \A x \in DOMAIN Hear(t, w[1], r), y \in DOMAIN Rest(w) : Hear(t, w[1], r)[x][1] < Rest(w)[y]
  <2>1. \A x \in DOMAIN Hear(t, w[1], r) :
          Hear(t, w[1], r)[x][1] \in Nat /\ Hear(t, w[1], r)[x][1] <= w[1]
    <3>. SUFFICES ASSUME NEW x \in 1 .. (Len(t) + 1)
                  PROVE  Hear(t, w[1], r)[x][1] \in Nat /\ Hear(t, w[1], r)[x][1] <= w[1]
      BY <1>2
    <3>1. CASE x \in 1 .. Len(t)
      <4>1. /\ t[x][1] \in Nat /\ Hear(t, w[1], r)[x][1] = t[x][1] /\ t[x][1] < w[1]
            /\ w[1] \in Nat
        BY <1>1, <1>3, <1>5, <3>1
      <4>. QED
        BY <4>1
    <3>2. CASE x \notin 1 .. Len(t)
      BY <1>1, <1>5, <3>2
    <3>. QED
      BY <3>1, <3>2
  <2>2. \A y \in DOMAIN Rest(w) : Rest(w)[y] \in Nat /\ w[1] < Rest(w)[y]
    BY <1>4
  <2>. QED
    BY <1>1, <2>1, <2>2
<1>. QED
  BY <1>2, <1>6, <1>7, <1>8, <1>9, <1>10 DEF Ordered

\* A new message is behind all others, and greater than all that were read.
LEMMA OrderedWritten ==
  ASSUME NEW w \in Seq(Nat), NEW t \in Seq(Nat \X Readers), NEW n \in Nat, Ordered(w, t, n)
  PROVE  /\ Put(w, n) \in Seq(Nat) /\ Ordered(Put(w, n), t, n + 1) /\ Ordered(w, t, n + 1)
         /\ DOMAIN Put(w, n) = 1 .. (Len(w) + 1) /\ DOMAIN w = 1 .. Len(w) /\ Len(w) \in Nat
         /\ \A x \in 1 .. Len(w) : Put(w, n)[x] = w[x]
         /\ Put(w, n)[Len(w) + 1] = n + 1
<1>1. /\ Put(w, n) \in Seq(Nat)
      /\ DOMAIN Put(w, n) = 1 .. (Len(w) + 1) /\ DOMAIN w = 1 .. Len(w) /\ Len(w) \in Nat
      /\ \A x \in 1 .. Len(w) : Put(w, n)[x] = w[x]
      /\ Put(w, n)[Len(w) + 1] = n + 1
  BY AppendProperties DEF Put
<1>2. (\A x \in DOMAIN w : w[x] \in Nat) /\ (\A x \in DOMAIN t : t[x][1] \in Nat)
  OBVIOUS
<1>3. \A x \in 1 .. (Len(w) + 1) : x \in 1 .. Len(w) \/ x = Len(w) + 1
  BY <1>1
<1>4. Ordered(w, t, n + 1)
  BY <1>2 DEF Ordered
<1>5. \A x, y \in DOMAIN Put(w, n) : x < y => Put(w, n)[x] < Put(w, n)[y]
  <2>. SUFFICES ASSUME NEW x \in DOMAIN Put(w, n), NEW y \in DOMAIN Put(w, n), x < y
                PROVE  Put(w, n)[x] < Put(w, n)[y]
    OBVIOUS
  <2>1. x \in 1 .. Len(w) /\ (y \in 1 .. Len(w) \/ y = Len(w) + 1)
    <3>1. x \in 1 .. (Len(w) + 1) /\ y \in 1 .. (Len(w) + 1) /\ Len(w) \in Nat
      BY <1>1
    <3>. QED
      BY <3>1
  <2>2. w[x] \in Nat /\ w[x] <= n
    BY <1>1, <1>2, <2>1 DEF Ordered
  <2>. QED
    BY <1>1, <2>1, <2>2 DEF Ordered
<1>6. \A x \in DOMAIN Put(w, n) : Put(w, n)[x] <= n + 1
  <2>. SUFFICES ASSUME NEW x \in DOMAIN Put(w, n)
                PROVE  Put(w, n)[x] <= n + 1
    OBVIOUS
  <2>1. CASE x \in 1 .. Len(w)
    <3>1. w[x] \in Nat /\ w[x] <= n
      BY <1>1, <1>2, <2>1 DEF Ordered
    <3>. QED
      BY <1>1, <2>1, <3>1
  <2>. QED
    BY <1>1, <1>3, <2>1
<1>7. \A x \in DOMAIN t, y \in DOMAIN Put(w, n) : t[x][1] < Put(w, n)[y]
  <2>. SUFFICES ASSUME NEW x \in DOMAIN t, NEW y \in DOMAIN Put(w, n)
                PROVE  t[x][1] < Put(w, n)[y]
    OBVIOUS
  <2>1. t[x][1] \in Nat /\ t[x][1] <= n
    BY <1>2 DEF Ordered
  <2>2. CASE y \in 1 .. Len(w)
    BY <1>1, <2>2 DEF Ordered
  <2>. QED
    BY <1>1, <1>3, <2>1, <2>2
<1>. QED
  BY <1>1, <1>4, <1>5, <1>6, <1>7 DEF Ordered

\* So is an empty box.
LEMMA OrderedEmpty ==
  ASSUME NEW w, NEW t, NEW n, Ordered(w, t, n)
  PROVE  Ordered(<<>>, t, n)
BY DEF Ordered

\* Nobody else comes to the point of opening a session than who has just written the prompt.
LEMMA OpensBefore ==
  ASSUME TypeOK, [Next]_vars, NEW q \in Procs, Opens(q)'
  PROVE  \/ Opens(q) /\ proc'[q].item = proc[q].item
         \/ WritePrompt(q) /\ proc'[q].item = proc[q].item
<1>1. CASE proc'[q] = proc[q]
  BY <1>1 DEF Opens, Launches
<1>. SUFFICES ASSUME proc'[q] # proc[q]
              PROVE  WritePrompt(q) /\ proc'[q].item = proc[q].item
  BY <1>1
<1>2. proc'[q] \in LaunchStates /\ proc'[q].at = "open" /\ proc'[q].op = "launch" /\ proc'[q] # Idle
  BY DEF Opens, Launches, LaunchStates, Idle
<1>3. ASSUME NEW p \in Procs, Launch(p) \/ Clean(p) \/ Crash(p)
      PROVE  WritePrompt(q) /\ proc'[q].item = proc[q].item
  <2>1. \A at : Goes(p, at) => proc'[p] = Onward(proc[p], at) /\ OnlyMoves(p)
    BY Moves
  <2>2. Ends(p) => proc'[p] = Idle /\ OnlyMoves(p)
    BY Moves
  <2>3. ASSUME NEW i \in Items, NEW force \in BOOLEAN, BeginLaunch(p, i, force)
        PROVE  FALSE
    BY <1>2, <2>3 DEF BeginLaunch, Launching, TypeOK
  <2>4. ASSUME NEW i \in Items, BeginClean(p, i) \/ BeginSweep(p, i)
        PROVE  FALSE
    BY <1>2, <2>4 DEF BeginClean, BeginSweep, Cleaning, TypeOK
  <2>5. ASSUME NEW at \in {"stamp", "prompt", "undo", "drop", "open"},
               \E from : At(p, "launch", from), Goes(p, at)
        PROVE  at = "open" /\ p = q /\ proc'[q].item = proc[q].item
    <3>1. Launches(p)
      BY <2>5, AtPlace
    <3>2. proc'[p].at = at /\ proc'[p].item = proc[p].item
      BY <2>1, <2>5, <3>1, OnwardLaunch DEF Launches
    <3>. QED
      BY <1>2, <2>1, <2>5, <3>2 DEF OnlyMoves
  <2>6. ASSUME NEW at \in {"release", "empty", "close"},
               \E op \in {"clean", "sweep"} : \E from : At(p, op, from), Goes(p, at)
        PROVE  FALSE
    <3>1. Cleans(p)
      BY <2>6, AtPlace
    <3>2. proc'[p].at = at
      BY <2>1, <2>6, <3>1, OnwardClean DEF Cleans
    <3>. QED
      BY <1>2, <2>1, <2>6, <3>2 DEF OnlyMoves
  <2>7. ~Ends(p)
    BY <1>2, <2>2 DEF OnlyMoves
  <2>8. CASE FindPartition(p)
    <3>1. Launches(p)
      BY <2>8, AtPlace DEF FindPartition
    <3>2. PICK n \in 0 .. Partitions, at \in {"claim", "prompt"} :
                proc' = [proc EXCEPT ![p] = Numbered(proc[p], at, n)]
      <4>2. CASE proc' = [proc EXCEPT ![p] = [@ EXCEPT !.at = "claim", !.n = 1]]
        <5>1. proc' = [proc EXCEPT ![p] = Numbered(proc[p], "claim", 1)]
          BY <4>2, Zenon DEF Numbered
        <5>2. 1 \in 0 .. Partitions
          BY WorkspaceAssumption
        <5>. QED
          BY <5>1, <5>2
      <4>3. ASSUME NEW n \in Held(proc[p].item),
                   proc' = [proc EXCEPT ![p] = [@ EXCEPT !.at = "prompt", !.n = n]]
            PROVE  \E m \in 0 .. Partitions, at \in {"claim", "prompt"} :
                     proc' = [proc EXCEPT ![p] = Numbered(proc[p], at, m)]
        <5>1. proc' = [proc EXCEPT ![p] = Numbered(proc[p], "prompt", n)]
          BY <4>3, Zenon DEF Numbered
        <5>2. n \in 0 .. Partitions
          BY WorkspaceAssumption DEF Held, Numbers
        <5>. QED
          BY <5>1, <5>2
      <4>. QED
        BY <2>8, <4>2, <4>3, Zenon DEF FindPartition
    <3>3. (proc'[p]).at \in {"claim", "prompt"} /\ OnlyMoves(p)
      BY <3>1, <3>2 DEF Numbered, Launches, LaunchStates, OnlyMoves, TypeOK
    <3>. QED
      BY <1>2, <3>3 DEF OnlyMoves
  <2>9. CASE ClaimPartition(p)
    <3>1. ~Goes(p, "stamp")
      BY <2>5, <2>9 DEF ClaimPartition
    <3>. QED
      <4>1. proc' = [proc EXCEPT ![p] = Counted(proc[p])] /\ Launches(p) /\ proc[p].at = "claim"
        BY <2>9, <3>1, AtPlace, Zenon DEF ClaimPartition, Counted
      <4>2. (proc'[p]).at = "claim" /\ OnlyMoves(p)
        BY <4>1 DEF Counted, Launches, LaunchStates, OnlyMoves, TypeOK
      <4>. QED
        BY <1>2, <4>2 DEF OnlyMoves
  <2>10. CASE WritePrompt(p)
    BY <2>5, <2>10 DEF WritePrompt
  <2>. QED
    BY <1>3, <2>3, <2>4, <2>5, <2>6, <2>7, <2>8, <2>9, <2>10
       DEF Launch, Clean, Crash, HookFails, StampPartition, OpenSession, SessionFails, UndoLock,
           UndoTree, RemoveTree, ReleaseLock, EmptyInboxes, CloseSwept
<1>4. ASSUME NEW i \in Items, Calls(i)
      PROVE  FALSE
  BY <1>4, CallsKeep
<1>. QED
  BY <1>3, <1>4 DEF Next, SweepLocks, StateFileGone, Push, Merge, WorkerDies, Persist, Deliver, vars

\* Boxes are emptied, sessions end and take the worker's call with them, and nothing else happens.
LEMMA MailShrinks ==
  ASSUME TypeOK, MInv, UNCHANGED <<sent, heard, since>>, MailTyped',
         \A j \in Items, n \in Namespaces : box'[j][n] \in {box[j][n], <<>>},
         \A j \in Items : \/ session'[j] = session[j] /\ reader'[j] = reader[j]
                          \/ /\ session'[j] = 0 /\ reader'[j]["worker"] = Off
                             /\ reader'[j]["person"] = reader[j]["person"],
         \A q \in Procs : Opens(q)' => \/ Opens(q) /\ proc'[q].item = proc[q].item
                                       \/ box'[proc'[q].item]["tree"] = <<>>
  PROVE  MInv'
<1>1. \A i \in Items, n \in Namespaces : Ordered(box[i][n], heard[i][n], sent[i])'
  BY OrderedEmpty DEF MInv
<1>2. ASSUME NEW i \in Items, NEW r \in Readers
      PROVE  Foremost(reader[i][r], box[i], sent[i])'
  <2>1. reader'[i][r] = Off \/ reader'[i][r] = reader[i][r]
    BY DEF Readers
  <2>2. CASE reader'[i][r] = Off
    BY <2>2 DEF Foremost, Off, Namespaces
  <2>3. CASE reader'[i][r] = reader[i][r]
    <3>1. Foremost(reader[i][r], box[i], sent[i]) /\ sent'[i] = sent[i]
      BY DEF MInv
    <3>2. \A m \in Namespaces : box'[i][m] = box[i][m] \/ box'[i][m] = <<>>
      OBVIOUS
    <3>. QED
      BY <2>3, <3>1, <3>2 DEF Foremost
  <2>. QED
    BY <2>1, <2>2, <2>3
<1>3. \A i \in Items : (since[i] <= sent[i])' /\ Fresh(i)'
  BY DEF MInv, Fresh, Namespaces
<1>4. \A i \in Items : (session[i] = 0 => reader[i]["worker"] = Off)'
  BY DEF MInv
<1>5. \A q \in Procs : Opens(q)' => box'[proc'[q].item]["tree"] = <<>>
  BY Kinds DEF MInv, Opens, Namespaces
<1>. QED
  BY <1>1, <1>2, <1>3, <1>4, <1>5 DEF MInv

\* A session begins with an empty box.
LEMMA OpenSessionKeepsMail ==
  ASSUME TypeOK, LInv, MInv, NEW p \in Procs, OpenSession(p)
  PROVE  MInv'
<1>1. Opens(p) /\ LaunchHas(p)
  BY AtPlace DEF OpenSession, Opens, At, LInv
<1>2. PICK i \in Items : i = proc[p].item
  BY <1>1, Kinds DEF Opens
<1>3. /\ session' = [session EXCEPT ![i] = proc[p].n] /\ since' = [since EXCEPT ![i] = sent[i]]
      /\ UNCHANGED <<box, sent, reader, heard>> /\ Ends(p)
  BY <1>2 DEF OpenSession, mail
<1>4. box[i]["tree"] = <<>> /\ session[i] = 0
  BY <1>1, <1>2 DEF MInv, LaunchHas
<1>5. MailTyped'
  BY <1>3 DEF MInv, MailTyped
<1>6. \A j \in Items : since'[j] = (IF j = i THEN sent[j] ELSE since[j]) /\ (j # i => session'[j] = session[j])
  BY <1>3 DEF MInv, MailTyped, TypeOK
<1>7. \A j \in Items : (since[j] <= sent[j])' /\ Fresh(j)'
  <2>. SUFFICES ASSUME NEW j \in Items
                PROVE  (since[j] <= sent[j])' /\ Fresh(j)'
    OBVIOUS
  <2>1. sent[j] \in Nat /\ since[j] <= sent[j] /\ Fresh(j)
    BY DEF MInv, MailTyped
  <2>2. CASE j = i
    BY <1>3, <1>4, <1>6, <2>1, <2>2 DEF Fresh
  <2>3. CASE j # i
    BY <1>3, <1>6, <2>1, <2>3 DEF Fresh
  <2>. QED
    BY <2>2, <2>3
<1>8. \A j \in Items : (session[j] = 0 => reader[j]["worker"] = Off)'
  BY <1>3, <1>4, <1>6 DEF MInv
<1>9. \A q \in Procs : Opens(q)' => box'[proc'[q].item]["tree"] = <<>>
  <2>1. proc'[p] = Idle /\ OnlyMoves(p)
    BY <1>3, Moves
  <2>. QED
    BY <1>3, <2>1 DEF MInv, Opens, Launches, LaunchStates, Idle, OnlyMoves
<1>. QED
  BY <1>3, <1>5, <1>7, <1>8, <1>9 DEF MInv

\* A message is written to the hub, or to a worktree that nobody launches or cleans.
LEMMA WrittenKeepsMail ==
  ASSUME TypeOK, MInv, NEW i \in Items, NEW n \in Namespaces, Written(i, n),
         UNCHANGED <<session, since, proc>>, n = "hub" \/ ~Busy(i)
  PROVE  MInv'
<1>1. /\ sent' = [sent EXCEPT ![i] = sent[i] + 1]
      /\ box' = [box EXCEPT ![i] = [box[i] EXCEPT ![n] = Put(box[i][n], sent[i])]]
      /\ UNCHANGED <<reader, heard>>
  BY DEF Written, Put
<1>2. /\ box[i][n] \in Seq(Nat) /\ heard[i][n] \in Seq(Nat \X Readers) /\ sent[i] \in Nat
      /\ Ordered(box[i][n], heard[i][n], sent[i])
  BY DEF MInv, MailTyped
<1>3. /\ Put(box[i][n], sent[i]) \in Seq(Nat)
      /\ Ordered(Put(box[i][n], sent[i]), heard[i][n], sent[i] + 1)
      /\ DOMAIN Put(box[i][n], sent[i]) = 1 .. (Len(box[i][n]) + 1)
      /\ DOMAIN box[i][n] = 1 .. Len(box[i][n]) /\ Len(box[i][n]) \in Nat
      /\ \A x \in 1 .. Len(box[i][n]) : Put(box[i][n], sent[i])[x] = box[i][n][x]
      /\ Put(box[i][n], sent[i])[Len(box[i][n]) + 1] = sent[i] + 1
  BY <1>2, OrderedWritten
<1>4. MailTyped'
  <2>1. [box[i] EXCEPT ![n] = Put(box[i][n], sent[i])] \in [Namespaces -> Seq(Nat)]
    BY <1>2, <1>3 DEF MInv, MailTyped
  <2>. PICK b : b = [box[i] EXCEPT ![n] = Put(box[i][n], sent[i])]
    OBVIOUS
  <2>2. box' = [box EXCEPT ![i] = b] /\ b \in [Namespaces -> Seq(Nat)]
    BY <1>1, <2>1
  <2>3. box' \in [Items -> [Namespaces -> Seq(Nat)]] /\ sent' \in [Items -> Nat]
    BY <1>1, <1>2, <2>2 DEF MInv, MailTyped
  <2>. QED
    BY <1>1, <2>3 DEF MInv, MailTyped
<1>5. /\ \A j \in Items : sent'[j] = IF j = i THEN sent[i] + 1 ELSE sent[j]
      /\ \A j \in Items, m \in Namespaces :
           box'[j][m] = IF j = i /\ m = n THEN Put(box[i][n], sent[i]) ELSE box[j][m]
  BY <1>1 DEF MInv, MailTyped
<1>6. ASSUME NEW j \in Items, NEW m \in Namespaces
      PROVE  Ordered(box[j][m], heard[j][m], sent[j])'
  <2>1. CASE j = i /\ m = n
    BY <1>1, <1>3, <1>5, <2>1
  <2>2. CASE j = i /\ m # n
    <3>1. /\ box[i][m] \in Seq(Nat) /\ heard[i][m] \in Seq(Nat \X Readers)
          /\ Ordered(box[i][m], heard[i][m], sent[i])
      BY <2>2 DEF MInv, MailTyped
    <3>2. Ordered(box[i][m], heard[i][m], sent[i] + 1)
      BY <1>2, <3>1, OrderedWritten
    <3>. QED
      BY <1>1, <1>5, <2>2, <3>2
  <2>3. CASE j # i
    BY <1>1, <1>5, <2>3 DEF MInv
  <2>. QED
    BY <2>1, <2>2, <2>3
<1>7. ASSUME NEW j \in Items, NEW r \in Readers
      PROVE  Foremost(reader[j][r], box[j], sent[j])'
  <2>. SUFFICES ASSUME reader[j][r].at \in Namespaces
                PROVE  /\ reader[j][r].m <= sent'[j]
                       /\ \A k \in DOMAIN box'[j][reader[j][r].at] :
                            box'[j][reader[j][r].at][k] = reader[j][r].m => k = 1
    BY <1>1 DEF Foremost
  <2>5. PICK at \in Namespaces : at = reader[j][r].at
    OBVIOUS
  <2>1. /\ reader[j][r].m \in Nat /\ sent[j] \in Nat /\ reader[j][r].m <= sent[j]
        /\ \A k \in DOMAIN box[j][at] : box[j][at][k] = reader[j][r].m => k = 1
    BY <2>5 DEF MInv, MailTyped, Foremost, CallStates
  <2>2. reader[j][r].m <= sent'[j]
    BY <1>5, <2>1
  <2>3. CASE j = i /\ at = n
    <3>1. \A k \in 1 .. (Len(box[i][n]) + 1) : k \in 1 .. Len(box[i][n]) \/ k = Len(box[i][n]) + 1
      BY <1>3
    <3>2. reader[j][r].m # sent[i] + 1
      BY <2>1, <2>3
    <3>3. box'[j][at] = Put(box[i][n], sent[i])
      BY <1>5, <2>3
    <3>4. ASSUME NEW k \in DOMAIN Put(box[i][n], sent[i]), Put(box[i][n], sent[i])[k] = reader[j][r].m
          PROVE  k = 1
      <4>1. k \in 1 .. Len(box[i][n])
        BY <1>3, <3>1, <3>2, <3>4
      <4>. QED
        BY <1>3, <2>1, <2>3, <3>4, <4>1
    <3>. QED
      BY <2>2, <2>5, <3>3, <3>4
  <2>4. CASE ~(j = i /\ at = n)
    BY <1>5, <2>1, <2>2, <2>4, <2>5
  <2>. QED
    BY <2>3, <2>4
<1>8. ASSUME NEW j \in Items
      PROVE  (since[j] <= sent[j])' /\ Fresh(j)'
  <2>1. /\ since[j] \in Nat /\ sent[j] \in Nat /\ since[j] <= sent[j] /\ Fresh(j)
        /\ since'[j] = since[j] /\ session'[j] = session[j]
    BY DEF MInv, MailTyped
  <2>4. since'[j] <= sent'[j]
    BY <1>5, <2>1
  <2>2. CASE j = i /\ n = "tree"
    <3>1. \A k \in 1 .. (Len(box[i][n]) + 1) : k \in 1 .. Len(box[i][n]) \/ k = Len(box[i][n]) + 1
      BY <1>3
    <3>2. since[i] < sent[i] + 1
      BY <2>1, <2>2
    <3>3. box'[i]["tree"] = Put(box[i][n], sent[i]) /\ box[i]["tree"] = box[i][n]
      BY <1>5, <2>2 DEF Namespaces
    <3>4. ASSUME session'[i] # 0, NEW k \in DOMAIN Put(box[i][n], sent[i])
          PROVE  since[i] < Put(box[i][n], sent[i])[k]
      BY <1>3, <2>1, <2>2, <3>1, <3>2, <3>3, <3>4 DEF Fresh
    <3>. QED
      BY <2>1, <2>2, <2>4, <3>3, <3>4 DEF Fresh
  <2>3. CASE ~(j = i /\ n = "tree")
    BY <1>5, <2>1, <2>3, <2>4 DEF Fresh, Namespaces
  <2>. QED
    BY <2>2, <2>3
<1>9. ASSUME NEW q \in Procs, Opens(q)'
      PROVE  box'[proc'[q].item]["tree"] = <<>>
  <2>1. /\ Opens(q) /\ proc'[q] = proc[q] /\ proc[q].item \in Items /\ proc[q] # Idle
        /\ box[proc[q].item]["tree"] = <<>>
    BY <1>9, Kinds DEF Opens, Launches, MInv
  <2>2. n = "hub" \/ proc[q].item # i
    BY <2>1 DEF Busy
  <2>. QED
    BY <1>5, <2>1, <2>2 DEF Namespaces
<1>. QED
  BY <1>1, <1>4, <1>6, <1>7, <1>8, <1>9 DEF MInv

\* One call of nw inbox goes on, or ends, as c.
Called(i, r, c) ==
  /\ reader' \in [Items -> [Readers -> CallStates]]
  /\ \A j \in Items, q \in Readers : reader'[j][q] = IF j = i /\ q = r THEN c ELSE reader[j][q]

\* A call that changes no box.
LEMMA CalledKeepsMail ==
  ASSUME TypeOK, MInv, NEW i \in Items, NEW r \in Readers, NEW c, Called(i, r, c),
         UNCHANGED <<box, sent, heard, since, session, proc>>,
         Foremost(c, box[i], sent[i]), r = "worker" /\ session[i] = 0 => c = Off
  PROVE  MInv'
<1>1. MailTyped'
  BY DEF MInv, MailTyped, Called
<1>2. \A j \in Items, q \in Readers : Foremost(reader[j][q], box[j], sent[j])'
  BY DEF MInv, Called
<1>3. \A j \in Items : (since[j] <= sent[j])' /\ Fresh(j)'
  BY DEF MInv, Fresh
<1>4. \A j \in Items : (session[j] = 0 => reader[j]["worker"] = Off)'
  BY DEF MInv, Called, Readers
<1>5. \A q \in Procs : Opens(q)' => box'[proc'[q].item]["tree"] = <<>>
  BY DEF MInv, Opens, Launches
<1>6. \A j \in Items, n \in Namespaces : Ordered(box[j][n], heard[j][n], sent[j])'
  BY DEF MInv
<1>. QED
  BY <1>1, <1>2, <1>3, <1>4, <1>5, <1>6 DEF MInv

\* What a call has read is what it takes: the first message of its box.
Takes(i, r, n) ==
  /\ n = reader[i][r].at /\ n \in Namespaces /\ 1 \in DOMAIN box[i][n] /\ box[i][n][1] = reader[i][r].m
  /\ box' = [box EXCEPT ![i] = [box[i] EXCEPT ![n] = Rest(box[i][n])]]
  /\ heard' = [heard EXCEPT ![i] = [heard[i] EXCEPT ![n] = Hear(heard[i][n], box[i][n][1], r)]]

LEMMA TakesFirst ==
  ASSUME MInv, NEW i \in Items, NEW r \in Readers, Take(i, r)
  PROVE  Takes(i, r, reader[i][r].at)
<1>. PICK n : n = reader[i][r].at
  OBVIOUS
<1>1. PICK k \in DOMAIN box[i][n] :
        /\ box[i][n][k] = reader[i][r].m
        /\ box' = [box EXCEPT ![i][n] = RemoveAt(@, k)]
  BY Zenon DEF Take
<1>2. n \in Namespaces /\ heard' = [heard EXCEPT ![i][n] = Append(@, <<reader[i][r].m, r>>)]
  BY Zenon DEF Take
<1>3. k = 1
  BY <1>1, <1>2 DEF MInv, Foremost
<1>4. box' = [box EXCEPT ![i] = [box[i] EXCEPT ![n] = Rest(box[i][n])]]
  BY <1>1, <1>3, Zenon DEF Rest
<1>5. heard' = [heard EXCEPT ![i] = [heard[i] EXCEPT ![n] = Hear(heard[i][n], box[i][n][1], r)]]
  BY <1>1, <1>2, <1>3, Zenon DEF Hear
<1>. QED
  BY <1>1, <1>2, <1>3, <1>4, <1>5 DEF Takes

\* The types of what is taken.
LEMMA TakesTyped ==
  ASSUME MInv, NEW i \in Items, NEW r \in Readers, NEW n, Takes(i, r, n)
  PROVE  /\ box' \in [Items -> [Namespaces -> Seq(Nat)]]
         /\ heard' \in [Items -> [Namespaces -> Seq(Nat \X Readers)]]
         /\ \A j \in Items, m \in Namespaces :
              /\ box'[j][m] = IF j = i /\ m = n THEN Rest(box[i][n]) ELSE box[j][m]
              /\ heard'[j][m] = IF j = i /\ m = n THEN Hear(heard[i][n], box[i][n][1], r) ELSE heard[j][m]
         /\ Ordered(Rest(box[i][n]), Hear(heard[i][n], box[i][n][1], r), sent[i])
<1>1. /\ n \in Namespaces /\ box[i][n] \in Seq(Nat) /\ heard[i][n] \in Seq(Nat \X Readers)
      /\ sent[i] \in Nat /\ Ordered(box[i][n], heard[i][n], sent[i]) /\ 1 \in DOMAIN box[i][n]
  BY DEF MInv, MailTyped, Takes
<1>2. /\ Rest(box[i][n]) \in Seq(Nat) /\ Hear(heard[i][n], box[i][n][1], r) \in Seq(Nat \X Readers)
      /\ Ordered(Rest(box[i][n]), Hear(heard[i][n], box[i][n][1], r), sent[i])
  BY <1>1, RestFacts, OrderedTaken
<1>. PICK b : b = [box[i] EXCEPT ![n] = Rest(box[i][n])]
  OBVIOUS
<1>. PICK h : h = [heard[i] EXCEPT ![n] = Hear(heard[i][n], box[i][n][1], r)]
  OBVIOUS
<1>3. b \in [Namespaces -> Seq(Nat)] /\ box' = [box EXCEPT ![i] = b]
  BY <1>1, <1>2 DEF MInv, MailTyped, Takes
<1>4. h \in [Namespaces -> Seq(Nat \X Readers)] /\ heard' = [heard EXCEPT ![i] = h]
  BY <1>1, <1>2 DEF MInv, MailTyped, Takes
<1>5. box' \in [Items -> [Namespaces -> Seq(Nat)]]
  BY <1>3 DEF MInv, MailTyped
<1>6. heard' \in [Items -> [Namespaces -> Seq(Nat \X Readers)]]
  BY <1>4 DEF MInv, MailTyped
<1>7. \A j \in Items, m \in Namespaces :
        box'[j][m] = IF j = i /\ m = n THEN Rest(box[i][n]) ELSE box[j][m]
  BY <1>1, <1>3 DEF MInv, MailTyped
<1>8. \A j \in Items, m \in Namespaces :
        heard'[j][m] = IF j = i /\ m = n THEN Hear(heard[i][n], box[i][n][1], r) ELSE heard[j][m]
  BY <1>1, <1>4 DEF MInv, MailTyped
<1>. QED
  BY <1>2, <1>5, <1>6, <1>7, <1>8

\* What is read of a message that is taken.
LEMMA TakesHeard ==
  ASSUME MInv, NEW i \in Items, NEW r \in Readers, NEW n, Takes(i, r, n)
  PROVE  \A j \in Items, m \in Namespaces :
           heard'[j][m] = IF j = i /\ m = n THEN Hear(heard[i][n], box[i][n][1], r) ELSE heard[j][m]
  BY TakesTyped

\* A message that is taken was the oldest, and what is left is behind it.
LEMMA TakeKeepsMail ==
  ASSUME TypeOK, MInv, NEW i \in Items, NEW r \in Readers, Take(i, r), UNCHANGED proc
  PROVE  MInv'
<1>. PICK n : n = reader[i][r].at
  OBVIOUS
<1>1. Takes(i, r, n) /\ UNCHANGED <<session, sent, since>>
  BY TakesFirst DEF Take
<1>2. n \in Namespaces /\ box[i][n] \in Seq(Nat) /\ 1 \in DOMAIN box[i][n]
  BY <1>1 DEF MInv, MailTyped, Takes
<1>3. /\ box' \in [Items -> [Namespaces -> Seq(Nat)]]
      /\ heard' \in [Items -> [Namespaces -> Seq(Nat \X Readers)]]
      /\ \A j \in Items, m \in Namespaces :
           /\ box'[j][m] = IF j = i /\ m = n THEN Rest(box[i][n]) ELSE box[j][m]
           /\ heard'[j][m] = IF j = i /\ m = n THEN Hear(heard[i][n], box[i][n][1], r) ELSE heard[j][m]
      /\ Ordered(Rest(box[i][n]), Hear(heard[i][n], box[i][n][1], r), sent[i])
  BY <1>1, TakesTyped
<1>4. PICK c \in {Off, [Off EXCEPT !.at = "look", !.mode = "check"]} :
        reader' = [reader EXCEPT ![i][r] = c]
  BY DEF Take
<1>5. c \in CallStates /\ c.at \notin Namespaces
  <2>1. Off \in CallStates /\ Off.at \notin Namespaces
    BY DEF Off, CallStates, Namespaces
  <2>. PICK d : d = [Off EXCEPT !.at = "look", !.mode = "check"]
    OBVIOUS
  <2>2. d \in CallStates /\ d.at \notin Namespaces
    BY DEF Off, CallStates, Namespaces
  <2>. QED
    BY <1>4, <2>1, <2>2
<1>6. Called(i, r, c)
  BY <1>4, <1>5 DEF Called, MInv, MailTyped
<1>7. \A k \in DOMAIN Rest(box[i][n]) :
        \E x \in DOMAIN box[i][n] : x # 1 /\ Rest(box[i][n])[k] = box[i][n][x]
  BY <1>2, RestFacts
<1>8. MailTyped'
  BY <1>1, <1>3, <1>6 DEF MInv, MailTyped, Called
<1>9. \A j \in Items, m \in Namespaces : Ordered(box[j][m], heard[j][m], sent[j])'
  <2>. SUFFICES ASSUME NEW j \in Items, NEW m \in Namespaces
                PROVE  Ordered(box'[j][m], heard'[j][m], sent'[j])
    OBVIOUS
  <2>1. Ordered(box[j][m], heard[j][m], sent[j]) /\ sent'[j] = sent[j]
    BY <1>1 DEF MInv
  <2>2. CASE j = i /\ m = n
    BY <1>3, <2>1, <2>2
  <2>3. CASE ~(j = i /\ m = n)
    BY <1>3, <2>1, <2>3
  <2>. QED
    BY <2>2, <2>3
<1>10. ASSUME NEW j \in Items, NEW q \in Readers
       PROVE  Foremost(reader[j][q], box[j], sent[j])'
  <2>1. CASE j = i /\ q = r
    BY <1>5, <1>6, <2>1 DEF Foremost, Called
  <2>2. CASE ~(j = i /\ q = r) /\ reader[j][q].at \notin Namespaces
    BY <1>6, <2>2 DEF Foremost, Called
  <2>3. CASE ~(j = i /\ q = r) /\ reader[j][q].at \in Namespaces
    <3>1. PICK at \in Namespaces : at = reader[j][q].at
      BY <2>3
    <3>2. /\ reader'[j][q] = reader[j][q] /\ reader[j][q].m <= sent[j] /\ sent'[j] = sent[j]
          /\ \A k \in DOMAIN box[j][at] : box[j][at][k] = reader[j][q].m => k = 1
      BY <1>1, <1>6, <2>3, <3>1 DEF Called, MInv, Foremost
    <3>3. \A k \in DOMAIN box'[j][at] : box'[j][at][k] = reader[j][q].m => k = 1
      <4>1. CASE j = i /\ at = n
        <5>1. box'[j][at] = Rest(box[i][n]) /\ box[j][at] = box[i][n]
          BY <1>3, <3>1, <4>1
        <5>2. ASSUME NEW k \in DOMAIN Rest(box[i][n]), Rest(box[i][n])[k] = reader[j][q].m
              PROVE  k = 1
          <6>1. PICK x \in DOMAIN box[i][n] : x # 1 /\ Rest(box[i][n])[k] = box[i][n][x]
            BY <1>7
          <6>. QED
            BY <3>2, <5>1, <5>2, <6>1
        <5>. QED
          BY <5>1, <5>2
      <4>2. CASE ~(j = i /\ at = n)
        BY <1>3, <3>1, <3>2, <4>2
      <4>. QED
        BY <4>1, <4>2
    <3>. QED
      BY <3>1, <3>2, <3>3 DEF Foremost
  <2>. QED
    BY <2>1, <2>2, <2>3
<1>11. ASSUME NEW j \in Items
       PROVE  (since[j] <= sent[j])' /\ Fresh(j)'
  <2>1. since'[j] <= sent'[j] /\ session'[j] = session[j] /\ since'[j] = since[j] /\ Fresh(j)
    BY <1>1 DEF MInv
  <2>2. CASE j = i /\ n = "tree"
    <3>1. box'[j]["tree"] = Rest(box[i][n]) /\ box[j]["tree"] = box[i][n]
      BY <1>2, <1>3, <2>2
    <3>2. ASSUME session[j] # 0, NEW k \in DOMAIN Rest(box[i][n])
          PROVE  since[j] < Rest(box[i][n])[k]
      <4>1. PICK x \in DOMAIN box[i][n] : x # 1 /\ Rest(box[i][n])[k] = box[i][n][x]
        BY <1>7
      <4>. QED
        BY <2>1, <3>1, <3>2, <4>1 DEF Fresh
    <3>. QED
      BY <2>1, <3>1, <3>2 DEF Fresh
  <2>3. CASE ~(j = i /\ n = "tree")
    <3>1. box'[j]["tree"] = box[j]["tree"]
      BY <1>3, <2>3 DEF Namespaces
    <3>. QED
      BY <2>1, <3>1 DEF Fresh
  <2>. QED
    BY <2>1, <2>2, <2>3
<1>12. \A j \in Items : (session[j] = 0 => reader[j]["worker"] = Off)'
  <2>1. session[i] = 0 => r # "worker"
    BY <1>1 DEF MInv, Takes, Off, Namespaces
  <2>. QED
    BY <1>1, <1>6, <2>1 DEF MInv, Called, Readers
<1>13. ASSUME NEW q \in Procs, Opens(q)'
       PROVE  box'[proc'[q].item]["tree"] = <<>>
  <2>1. Opens(q) /\ proc'[q] = proc[q] /\ proc[q].item \in Items /\ box[proc[q].item]["tree"] = <<>>
    BY <1>13, Kinds DEF Opens, Launches, MInv
  <2>2. ~(proc[q].item = i /\ n = "tree")
    BY <1>2, <2>1
  <2>. QED
    BY <1>3, <2>1, <2>2 DEF Namespaces
<1>. QED
  BY <1>8, <1>9, <1>10, <1>11, <1>12, <1>13 DEF MInv

\* Calls that find a box and take nothing from it.
LEMMA LooksKeepMail ==
  ASSUME TypeOK, MInv, NEW i \in Items, UNCHANGED proc,
         BeginWait(i) \/ (\E r \in Readers : BeginCheck(i, r)) \/ InterruptWait(i)
  PROVE  MInv'
<1>1. ASSUME NEW r \in Readers, NEW c \in CallStates, reader' = [reader EXCEPT ![i][r] = c],
             c.at \notin Namespaces, r = "worker" /\ session[i] = 0 => c = Off,
             UNCHANGED <<box, sent, heard, since, session>>
      PROVE  MInv'
  <2>1. Called(i, r, c)
    BY <1>1 DEF Called, MInv, MailTyped
  <2>. QED
    BY <1>1, <2>1, CalledKeepsMail DEF Foremost
<1>2. CASE BeginWait(i)
  <2>. PICK c : c = [Off EXCEPT !.at = "look", !.mode = "wait", !.ns = Resolved(i, "worker")]
    OBVIOUS
  <2>1. c \in CallStates /\ c.at \notin Namespaces
    BY DEF CallStates, Off, Resolved, Namespaces
  <2>2. /\ reader' = [reader EXCEPT ![i]["worker"] = c] /\ session[i] # 0
        /\ UNCHANGED <<box, sent, heard, since, session>>
    BY <1>2 DEF BeginWait
  <2>. QED
    BY <1>1, <2>1, <2>2 DEF Readers
<1>3. ASSUME NEW r \in Readers, BeginCheck(i, r)
      PROVE  MInv'
  <2>. PICK c : c = [Off EXCEPT !.at = "look", !.mode = "check"]
    OBVIOUS
  <2>1. c \in CallStates /\ c.at \notin Namespaces
    BY DEF CallStates, Off, Namespaces
  <2>2. /\ reader' = [reader EXCEPT ![i][r] = c] /\ (r = "worker" => session[i] # 0)
        /\ UNCHANGED <<box, sent, heard, since, session>>
    BY <1>3 DEF BeginCheck
  <2>. QED
    BY <1>1, <2>1, <2>2
<1>4. CASE InterruptWait(i)
  <2>1. Off \in CallStates /\ Off.at \notin Namespaces
    BY DEF CallStates, Off, Namespaces
  <2>2. /\ reader' = [reader EXCEPT ![i]["worker"] = Off]
        /\ UNCHANGED <<box, sent, heard, since, session>>
    BY <1>4 DEF InterruptWait
  <2>. QED
    BY <1>1, <2>1, <2>2 DEF Readers
<1>. QED
  BY <1>2, <1>3, <1>4

\* A call reads the oldest message, or finds it gone, or finds nothing.
LEMMA ReadingKeepsMail ==
  ASSUME TypeOK, MInv, NEW i \in Items, NEW r \in Readers, Reading(i, r), UNCHANGED proc
  PROVE  MInv'
<1>1. CASE Take(i, r)
  BY <1>1, TakeKeepsMail
<1>2. ASSUME NEW c \in CallStates, Called(i, r, c), reader[i][r] # Off,
             Foremost(c, box[i], sent[i]),
             UNCHANGED <<box, sent, heard, since, session>>
      PROVE  MInv'
  <2>1. r = "worker" => session[i] # 0
    BY <1>2 DEF MInv
  <2>. QED
    BY <1>2, <2>1, CalledKeepsMail
<1>3. CASE Look(i, r)
  <2>. PICK n : n = Resolved(i, r)
    OBVIOUS
  <2>. PICK c : c = [reader[i][r] EXCEPT !.at = n, !.m = Oldest(i, n)]
    OBVIOUS
  <2>1. /\ n \in Namespaces /\ box[i][n] \in Seq(Nat) /\ box[i][n] # <<>> /\ sent[i] \in Nat
        /\ reader[i][r] \in CallStates /\ Ordered(box[i][n], heard[i][n], sent[i])
    BY <1>3 DEF Resolved, Namespaces, MInv, MailTyped, Look
  <2>2. /\ 1 \in DOMAIN box[i][n] /\ Oldest(i, n) = box[i][n][1] /\ Oldest(i, n) \in Nat
        /\ DOMAIN box[i][n] = 1 .. Len(box[i][n]) /\ Len(box[i][n]) \in Nat
        /\ \A k \in DOMAIN box[i][n] : box[i][n][k] \in Nat
    BY <2>1 DEF Oldest
  <2>3. c \in CallStates /\ c.at = n /\ c.m = Oldest(i, n)
    BY <2>1, <2>2 DEF CallStates, Namespaces
  <2>4. /\ reader' = [reader EXCEPT ![i][r].at = n, ![i][r].m = Oldest(i, n)]
        /\ reader[i][r].at = "look" /\ UNCHANGED <<box, sent, heard, since, session>>
    BY <1>3 DEF Look
  <2>5. reader' = [reader EXCEPT ![i] = [reader[i] EXCEPT ![r] = c]]
    <3>. PICK d : d = reader[i]
      OBVIOUS
    <3>1. reader \in [Items -> [Readers -> CallStates]]
      BY DEF MInv, MailTyped
    <3>2. d \in [Readers -> CallStates] /\ d[r] \in CallStates
      BY <3>1
    <3>3. [d EXCEPT ![r].at = n, ![r].m = Oldest(i, n)] = [d EXCEPT ![r] = c]
      BY <3>2 DEF CallStates
    <3>. PICK e : e = [d EXCEPT ![r].at = n, ![r].m = Oldest(i, n)]
      OBVIOUS
    <3>4. reader' = [reader EXCEPT ![i] = e]
      BY <2>4, <3>1
    <3>. QED
      BY <3>3, <3>4
  <2>6. Called(i, r, c)
    BY <2>3, <2>5 DEF Called, MInv, MailTyped
  <2>7. \A k \in DOMAIN box[i][n] : box[i][n][k] = Oldest(i, n) => k = 1
    <3>1. \A k \in DOMAIN box[i][n] : 1 < k => box[i][n][1] < box[i][n][k]
      BY <2>1, <2>2 DEF Ordered
    <3>. QED
      BY <2>2, <3>1
  <2>8. Foremost(c, box[i], sent[i])
    BY <2>1, <2>2, <2>3, <2>7 DEF Foremost, Ordered
  <2>9. reader[i][r] # Off
    BY <2>4 DEF Off
  <2>. QED
    BY <1>2, <2>3, <2>4, <2>6, <2>8, <2>9
<1>4. CASE FindNothing(i, r)
  <2>1. Off \in CallStates /\ Off.at = "off"
    BY DEF CallStates, Off
  <2>2. /\ reader' = [reader EXCEPT ![i][r] = Off] /\ reader[i][r].at = "look"
        /\ UNCHANGED <<box, sent, heard, since, session>>
    BY <1>4 DEF FindNothing
  <2>3. Called(i, r, Off) /\ reader[i][r] # Off /\ Foremost(Off, box[i], sent[i])
    BY <2>1, <2>2 DEF Called, MInv, MailTyped, Foremost, Namespaces
  <2>. QED
    BY <1>2, <2>1, <2>2, <2>3
<1>5. CASE TakeNothing(i, r)
  <2>. PICK again : again = [reader[i][r] EXCEPT !.at = "look", !.m = 0]
    OBVIOUS
  <2>1. reader[i][r] \in CallStates
    BY DEF MInv, MailTyped
  <2>2. Off \in CallStates /\ Off.at = "off" /\ again \in CallStates /\ again.at = "look"
    BY <2>1 DEF CallStates, Off
  <2>3. /\ reader' = [reader EXCEPT ![i][r] = IF reader[i][r].mode = "wait" THEN again ELSE Off]
        /\ reader[i][r].at \in Namespaces
        /\ UNCHANGED <<box, sent, heard, since, session>>
    BY <1>5 DEF TakeNothing
  <2>4. PICK c \in {again, Off} : reader' = [reader EXCEPT ![i][r] = c]
    BY <2>3
  <2>5. c \in CallStates /\ c.at \in {"off", "look"} /\ reader[i][r] # Off
    BY <2>2, <2>3, <2>4 DEF Namespaces
  <2>6. Called(i, r, c) /\ Foremost(c, box[i], sent[i])
    BY <2>4, <2>5 DEF Called, MInv, MailTyped, Foremost, Namespaces
  <2>. QED
    BY <1>2, <2>3, <2>5, <2>6
<1>. QED
  BY <1>1, <1>3, <1>4, <1>5 DEF Reading

\* The boxes that are emptied are empty, the others as they were.
LEMMA EmptiedFacts ==
  ASSUME MailTyped, NEW i \in Items, NEW names
  PROVE  /\ Emptied(box, i, names) \in [Items -> [Namespaces -> Seq(Nat)]]
         /\ \A j \in Items, n \in Namespaces :
              Emptied(box, i, names)[j][n] = IF j = i /\ n \in names THEN <<>> ELSE box[j][n]
<1>. PICK b : b = [n \in Namespaces |-> IF n \in names THEN <<>> ELSE box[i][n]]
  OBVIOUS
<1>1. b \in [Namespaces -> Seq(Nat)]
  BY DEF MailTyped
<1>2. Emptied(box, i, names) = [box EXCEPT ![i] = b]
  BY DEF Emptied
<1>. QED
  BY <1>1, <1>2 DEF MailTyped

\* A session that is closed takes the worker's call with it.
LEMMA ClosedFacts ==
  ASSUME TypeOK, MailTyped, NEW i \in Items, Closed(i)
  PROVE  /\ reader' \in [Items -> [Readers -> CallStates]]
         /\ \A j \in Items : \/ session'[j] = session[j] /\ reader'[j] = reader[j]
                            \/ /\ session'[j] = 0 /\ reader'[j]["worker"] = Off
                               /\ reader'[j]["person"] = reader[j]["person"]
<1>1. Off \in CallStates
  BY DEF Off, CallStates
<1>. QED
  BY <1>1 DEF Closed, MailTyped, Readers, TypeOK

\* Every step keeps the mail right.
LEMMA MailStep == TypeOK /\ LInv /\ MInv /\ [Next]_vars => MInv'
<1>. SUFFICES ASSUME TypeOK, LInv, MInv, [Next]_vars
              PROVE  MInv'
  OBVIOUS
<1>1. MailTyped
  BY DEF MInv
<1>2. ASSUME NEW p \in Procs, OpenSession(p) PROVE MInv'
  BY <1>2, OpenSessionKeepsMail
<1>3. ASSUME NEW i \in Items, Calls(i) PROVE MInv'
  <2>1. UNCHANGED <<session, since, proc>>
    BY <1>3, CallsKeep
  <2>2. CASE PersonWrites(i)
    BY <2>1, <2>2, WrittenKeepsMail DEF PersonWrites, Namespaces
  <2>. QED
    BY <1>3, <2>1, <2>2, LooksKeepMail, ReadingKeepsMail DEF Calls
<1>4. ASSUME NEW i \in Items, Deliver(i) PROVE MInv'
  BY <1>4, WrittenKeepsMail DEF Deliver, Namespaces
<1>. SUFFICES ASSUME \A p \in Procs : ~OpenSession(p), \A i \in Items : ~Calls(i) /\ ~Deliver(i)
              PROVE  MInv'
  BY <1>2, <1>3, <1>4
<1>5. ASSUME NEW p \in Procs, WritePrompt(p) \/ EmptyInboxes(p)
      PROVE  /\ proc[p].item \in Items /\ UNCHANGED <<session, sent, reader, heard, since>>
             /\ \E names : /\ box' = Emptied(box, proc[p].item, names)
                           /\ WritePrompt(p) => "tree" \in names
  <2>1. CASE WritePrompt(p)
    <3>1. box' = Emptied(box, proc[p].item, {"tree"})
      BY <2>1, Zenon DEF WritePrompt, CleanedForLaunch
    <3>. QED
      BY <2>1, <3>1, AtPlace DEF WritePrompt
  <2>2. CASE EmptyInboxes(p)
    <3>1. box' = Emptied(box, proc[p].item, Namespaces)
      BY <2>2, Zenon DEF EmptyInboxes
    <3>. QED
      BY <2>2, <3>1, AtPlace DEF EmptyInboxes, Namespaces
  <2>. QED
    BY <1>5, <2>1, <2>2
<1>6. ASSUME ~(\E p \in Procs : WritePrompt(p) \/ EmptyInboxes(p))
      PROVE  UNCHANGED <<box, sent, heard, since>>
  <2>1. ASSUME NEW p \in Procs, Launch(p)
        PROVE  UNCHANGED <<box, sent, heard, since>>
    BY <1>6, <2>1 DEF Launch, BeginLaunch, HookFails, FindPartition, ClaimPartition, StampPartition,
       SessionFails, UndoLock, UndoTree, mail
  <2>2. ASSUME NEW p \in Procs, Clean(p) \/ Crash(p)
        PROVE  UNCHANGED <<box, sent, heard, since>>
    BY <1>6, <2>2 DEF Clean, Crash, BeginClean, BeginSweep, RemoveTree, ReleaseLock, CloseSwept, mail
  <2>3. ASSUME NEW i \in Items, Push(i) \/ Merge(i) \/ WorkerDies(i) \/ Persist(i)
        PROVE  UNCHANGED <<box, sent, heard, since>>
    BY <2>3 DEF Push, Merge, WorkerDies, Persist, mail
  <2>4. CASE SweepLocks \/ StateFileGone \/ UNCHANGED vars
    BY <2>4 DEF SweepLocks, StateFileGone, vars, mail
  <2>. QED
    BY <2>1, <2>2, <2>3, <2>4 DEF Next
<1>7. /\ box' \in [Items -> [Namespaces -> Seq(Nat)]] /\ UNCHANGED <<sent, heard, since>>
      /\ \A j \in Items, n \in Namespaces : box'[j][n] \in {box[j][n], <<>>}
  <2>1. CASE \E p \in Procs : WritePrompt(p) \/ EmptyInboxes(p)
    <3>1. PICK p \in Procs : WritePrompt(p) \/ EmptyInboxes(p)
      BY <2>1
    <3>2. PICK names : box' = Emptied(box, proc[p].item, names)
      BY <1>5, <3>1
    <3>3. proc[p].item \in Items /\ UNCHANGED <<sent, heard, since>>
      BY <1>5, <3>1
    <3>. QED
      BY <1>1, <3>2, <3>3, EmptiedFacts
  <2>2. CASE ~(\E p \in Procs : WritePrompt(p) \/ EmptyInboxes(p))
    BY <1>1, <1>6, <2>2 DEF MailTyped
  <2>. QED
    BY <2>1, <2>2
<1>8. UNCHANGED <<session, reader>> \/ \E i \in Items : Closed(i)
  <2>1. ASSUME NEW p \in Procs, Launch(p) \/ Crash(p)
        PROVE  UNCHANGED <<session, reader>>
    BY <1>5, <2>1 DEF Launch, Crash, BeginLaunch, HookFails, FindPartition, ClaimPartition,
       StampPartition, SessionFails, UndoLock, UndoTree, mail
  <2>2. ASSUME NEW p \in Procs, Clean(p)
        PROVE  UNCHANGED <<session, reader>> \/ \E i \in Items : Closed(i)
    <3>1. ASSUME NEW i \in Items, BeginClean(p, i)
          PROVE  UNCHANGED <<session, reader>> \/ Closed(i)
      BY <3>1 DEF BeginClean
    <3>2. ASSUME NEW i \in Items, BeginSweep(p, i)
          PROVE  UNCHANGED <<session, reader>>
      BY <3>2 DEF BeginSweep, mail
    <3>3. CASE CloseSwept(p)
      BY <3>3, AtPlace DEF CloseSwept
    <3>4. CASE RemoveTree(p) \/ ReleaseLock(p)
      BY <3>4 DEF RemoveTree, ReleaseLock, mail
    <3>. QED
      BY <1>5, <2>2, <3>1, <3>2, <3>3, <3>4 DEF Clean
  <2>3. ASSUME NEW i \in Items, WorkerDies(i)
        PROVE  Closed(i)
    BY <2>3 DEF WorkerDies
  <2>4. ASSUME NEW i \in Items, Push(i) \/ Merge(i) \/ Persist(i)
        PROVE  UNCHANGED <<session, reader>>
    BY <2>4 DEF Push, Merge, Persist, mail
  <2>5. CASE SweepLocks \/ StateFileGone \/ UNCHANGED vars
    BY <2>5 DEF SweepLocks, StateFileGone, vars, mail
  <2>. QED
    BY <2>1, <2>2, <2>3, <2>4, <2>5 DEF Next
<1>9. /\ reader' \in [Items -> [Readers -> CallStates]]
      /\ \A j \in Items : \/ session'[j] = session[j] /\ reader'[j] = reader[j]
                         \/ /\ session'[j] = 0 /\ reader'[j]["worker"] = Off
                            /\ reader'[j]["person"] = reader[j]["person"]
  BY <1>1, <1>8, ClosedFacts DEF MailTyped
<1>10. MailTyped'
  BY <1>1, <1>7, <1>9 DEF MailTyped
<1>11. ASSUME NEW q \in Procs, Opens(q)'
       PROVE  \/ Opens(q) /\ proc'[q].item = proc[q].item
              \/ box'[proc'[q].item]["tree"] = <<>>
  <2>1. ASSUME WritePrompt(q), proc'[q].item = proc[q].item
        PROVE  box'[proc'[q].item]["tree"] = <<>>
    BY <1>1, <1>5, <2>1, EmptiedFacts DEF Namespaces
  <2>. QED
    BY <1>11, <2>1, OpensBefore
<1>. QED
  BY <1>7, <1>9, <1>10, <1>11, MailShrinks

\* At first there is no mail, and nobody reads.
LEMMA MailInit == Init => MInv
<1>. SUFFICES ASSUME Init
              PROVE  MInv
  OBVIOUS
<1>1. /\ box = [i \in Items |-> NoMail] /\ heard = [i \in Items |-> NoMail]
      /\ sent = [i \in Items |-> 0] /\ since = [i \in Items |-> 0]
      /\ session = [i \in Items |-> 0] /\ reader = [i \in Items |-> [r \in Readers |-> Off]]
      /\ \A p \in Procs : proc[p] = Idle
  BY DEF Init
<1>2. Off \in CallStates /\ Off.at = "off"
  BY DEF Off, CallStates
<1>3. \A n \in Namespaces : NoMail[n] = <<>>
  BY DEF NoMail
<1>4. NoMail \in [Namespaces -> Seq(Nat)] /\ NoMail \in [Namespaces -> Seq(Nat \X Readers)]
  BY DEF NoMail
<1>5. MailTyped
  BY <1>1, <1>2, <1>4 DEF MailTyped
<1>6. \A i \in Items, n \in Namespaces : Ordered(box[i][n], heard[i][n], sent[i])
  BY <1>1, <1>3 DEF Ordered
<1>7. \A i \in Items, r \in Readers : Foremost(reader[i][r], box[i], sent[i])
  BY <1>1, <1>2 DEF Foremost, Namespaces
<1>8. \A i \in Items : since[i] <= sent[i] /\ Fresh(i) /\ reader[i]["worker"] = Off
  BY <1>1 DEF Fresh, Readers
<1>9. \A p \in Procs : ~Opens(p)
  BY <1>1 DEF Opens, Launches, LaunchStates, Idle
<1>. QED
  BY <1>5, <1>6, <1>7, <1>8, <1>9 DEF MInv

\* Nothing is read but by taking it.
LEMMA OnlyTakesAreHeard ==
  ASSUME [Next]_vars, NEW i \in Items, heard'[i] # heard[i]
  PROVE  \E j \in Items, r \in Readers : Take(j, r)
<1>1. ASSUME NEW j \in Items, Calls(j), heard' # heard
      PROVE  \E r \in Readers : Take(j, r)
  BY <1>1 DEF Calls, PersonWrites, Written, BeginWait, BeginCheck, InterruptWait, Reading, Look,
     FindNothing, TakeNothing, Readers
<1>2. ASSUME ~(\E j \in Items : Calls(j))
      PROVE  heard' = heard
  <2>1. ASSUME NEW p \in Procs, Launch(p)
        PROVE  heard' = heard
    BY <2>1 DEF Launch, BeginLaunch, HookFails, FindPartition, ClaimPartition, StampPartition,
       WritePrompt, OpenSession, SessionFails, UndoLock, UndoTree, mail
  <2>2. ASSUME NEW p \in Procs, Clean(p) \/ Crash(p)
        PROVE  heard' = heard
    BY <2>2 DEF Clean, Crash, BeginClean, BeginSweep, RemoveTree, ReleaseLock, EmptyInboxes,
       CloseSwept, mail
  <2>3. ASSUME NEW j \in Items, Push(j) \/ Merge(j) \/ WorkerDies(j) \/ Persist(j) \/ Deliver(j)
        PROVE  heard' = heard
    BY <2>3 DEF Push, Merge, WorkerDies, Persist, Deliver, Written, mail
  <2>4. CASE SweepLocks \/ StateFileGone \/ UNCHANGED vars
    BY <2>4 DEF SweepLocks, StateFileGone, vars, mail
  <2>. QED
    BY <1>2, <2>1, <2>2, <2>3, <2>4 DEF Next
<1>. QED
  BY <1>1, <1>2

\* writeInbox, checkInbox, waitForInbox and cleanInbox of any number of calls that overlap, with
\* launches, cleans, deaths and kills between their steps: what is read is read in the order of
\* writing, by one reader only, and by the session it was written for.
THEOREM MailIsRight == Spec => MailRight
<1>1. Init => TypeOK /\ LInv /\ MInv
  BY TypeInit, LocksInit, MailInit
<1>2. TypeOK /\ LInv /\ MInv /\ [Next]_vars => (TypeOK /\ LInv /\ MInv)'
  BY TypeStep, LocksStep, MailStep
<1>3. MInv /\ [Next]_vars =>
        [\A i \in Items : NoStaleInstruction(i) /\ \A n \in Namespaces : ReadInOrderOnce(i, n)]_vars
  <2>. SUFFICES ASSUME MInv, [Next]_vars, NEW i \in Items, NEW n \in Namespaces, heard'[i] # heard[i]
                PROVE  NoStaleInstruction(i) /\ ReadInOrderOnce(i, n)
    BY DEF NoStaleInstruction, ReadInOrderOnce, Namespaces
  <2>1. PICK j \in Items, r \in Readers : Take(j, r)
    BY OnlyTakesAreHeard
  <2>. PICK at : at = reader[j][r].at
    OBVIOUS
  <2>2. Takes(j, r, at) /\ UNCHANGED session
    BY <2>1, TakesFirst DEF Take
  <2>3. \A k \in Items, m \in Namespaces :
          heard'[k][m] = IF k = j /\ m = at THEN Hear(heard[j][at], box[j][at][1], r) ELSE heard[k][m]
    BY <2>2, TakesHeard
  <2>4. /\ at \in Namespaces /\ heard[j][at] \in Seq(Nat \X Readers) /\ box[j][at][1] \in Nat
        /\ 1 \in DOMAIN box[j][at] /\ Ordered(box[j][at], heard[j][at], sent[j])
    <3>1. at \in Namespaces /\ 1 \in DOMAIN box[j][at]
      BY <2>2 DEF Takes
    <3>2. heard[j][at] \in Seq(Nat \X Readers) /\ box[j][at] \in Seq(Nat)
      BY <3>1 DEF MInv, MailTyped
    <3>. QED
      BY <3>1, <3>2 DEF MInv
  <2>5. /\ Last(Hear(heard[j][at], box[j][at][1], r))[1] = box[j][at][1]
        /\ Last(Hear(heard[j][at], box[j][at][1], r))[2] = r
    <3>1. heard[j][at] \in Seq(Nat \X Readers) /\ box[j][at][1] \in Nat /\ r \in Readers
      BY <2>4
    <3>2. Last(Hear(heard[j][at], box[j][at][1], r)) = <<box[j][at][1], r>>
      BY <3>1, LastHeard
    <3>. QED
      BY <3>2
  <2>8. heard'[j][at] = Hear(heard[j][at], box[j][at][1], r)
    BY <2>3, <2>4
  <2>6. ReadInOrderOnce(i, n)
    <3>. SUFFICES ASSUME i = j, n = at, NEW a \in DOMAIN heard[j][at]
                  PROVE  heard[j][at][a][1] < Last(heard'[j][at])[1]
      BY <2>3 DEF ReadInOrderOnce
    <3>1. heard[j][at][a][1] < box[j][at][1]
      BY <2>4 DEF Ordered
    <3>2. Last(heard'[j][at])[1] = box[j][at][1]
      BY <2>5, <2>8
    <3>. QED
      BY <3>1, <3>2
  <2>7. NoStaleInstruction(i)
    <3>. SUFFICES ASSUME i = j, at = "tree", r = "worker"
                  PROVE  box[i]["tree"][1] > since[i]
      <4>1. ASSUME heard'[i]["tree"] # heard[i]["tree"], Last(heard'[i]["tree"])[2] = "worker"
            PROVE  i = j /\ at = "tree" /\ r = "worker" /\ Last(heard'[i]["tree"])[1] = box[i]["tree"][1]
        <5>1. i = j /\ at = "tree"
          BY <2>3, <4>1 DEF Namespaces
        <5>. QED
          BY <2>5, <2>8, <4>1, <5>1
      <4>. QED
        BY <4>1 DEF NoStaleInstruction
    <3>1. session[i] # 0
      <4>1. reader[i]["worker"].at \in Namespaces
        BY <2>4
      <4>2. reader[i]["worker"] # Off
        BY <4>1 DEF Off, Namespaces
      <4>. QED
        BY <4>2 DEF MInv
    <3>. QED
      BY <2>4, <3>1 DEF MInv, MailTyped, Fresh
  <2>. QED
    BY <2>6, <2>7
<1>. QED
  BY <1>1, <1>2, <1>3, PTL DEF Spec, MailRight

=============================================================================
