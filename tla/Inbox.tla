------------------------------- MODULE Inbox -------------------------------
(***************************************************************************)
(* The file inbox: one directory of message files for each item in each    *)
(* of two namespaces, that of the item's worktree and that of the hub.     *)
(* Writers rename a finished file into the directory; readers list it,     *)
(* read the oldest file and unlink it, each call in a process of its own.  *)
(* (core/commands/inbox.ts, core/daemon.ts resolveActiveWorkerNamespace)   *)
(***************************************************************************)
EXTENDS Integers, Sequences, SequencesExt

CONSTANTS
  Items,         \* the work items
  MaxMessages    \* bound: messages written for one item

ASSUME InboxAssumption == MaxMessages \in Nat

VARIABLES
  tree,      \* item -> its worktree directory stands
  session,   \* item -> partition its live session was told, 0 without a session
  known,     \* item -> the daemon's state file names its worktree
  box,       \* item -> namespace -> messages waiting, oldest first, each its number
  sent,      \* item -> messages written for it so far
  reader,    \* item -> reader -> its call of nw inbox
  waitFile,  \* item -> namespace its wait-state file is in, or "none"
  heard,     \* item -> namespace -> <<message, reader>> in the order they were taken
  since      \* item -> messages written for it before its session began

mail == <<box, sent, reader, waitFile, heard>>

Namespaces == {"tree", "hub"}

\* The worker calls from its worktree; a person calls from the hub.
Readers == {"worker", "person"}

\* A call is over, looks for a message, or has read one and not yet unlinked it.
Off == [at |-> "off", mode |-> "none", ns |-> "none", m |-> 0]

NoMail == [n \in Namespaces |-> <<>>]

(***************************************************************************)
(* resolveActiveWorkerNamespace and resolveInboxRoot: the worktree when    *)
(* the daemon's state names it and it stands; else the directory of the    *)
(* caller when that is the item's own worktree; else the hub.              *)
(***************************************************************************)
ActiveNamespace(i) == IF known[i] /\ tree[i] THEN "tree" ELSE "hub"

\* Mutant: the directory of the caller is not looked at.
ResolvedByState(i, r) == ActiveNamespace(i)

Resolved(i, r) ==
  IF ActiveNamespace(i) = "tree" \/ (r = "worker" /\ tree[i]) THEN "tree" ELSE "hub"

\* listInboxFiles
Oldest(i, n) == Head(box[i][n])

---------------------------------------------------------------------------
(* Writing: writeInbox *)

\* A finished file appears in the directory at once, behind those that are there.
Written(i, n) ==
  /\ sent[i] < MaxMessages
  /\ sent' = [sent EXCEPT ![i] = @ + 1]
  /\ box' = [box EXCEPT ![i][n] = Append(@, sent[i] + 1)]
  /\ UNCHANGED <<reader, waitFile, heard>>

\* cmdInbox --write, which resolves nothing: the message goes to the hub.
PersonWrites(i) == Written(i, "hub") /\ UNCHANGED <<tree, session, known, since>>

---------------------------------------------------------------------------
(* Reading: checkInbox in the loops of drainInbox and waitForInbox *)

\* cmdInbox --check: drain what is there.
BeginCheck(i, r) ==
  /\ reader[i][r] = Off
  /\ r = "worker" => session[i] # 0
  /\ reader' = [reader EXCEPT ![i][r] = [Off EXCEPT !.at = "look", !.mode = "check"]]
  /\ UNCHANGED <<tree, session, known, box, sent, waitFile, heard, since>>

\* cmdInbox --wait: runInboxWait leaves a wait-state file where it resolves now.
BeginWait(i) ==
  /\ reader[i]["worker"] = Off
  /\ session[i] # 0
  /\ reader' = [reader EXCEPT ![i]["worker"] =
                  [Off EXCEPT !.at = "look", !.mode = "wait", !.ns = Resolved(i, "worker")]]
  /\ waitFile' = [waitFile EXCEPT ![i] = Resolved(i, "worker")]
  /\ UNCHANGED <<tree, session, known, box, sent, heard, since>>

\* The wait is over: its file goes, if it is where the wait put it.
WaitOver(i, r) ==
  waitFile' = IF reader[i][r].mode = "wait" /\ waitFile[i] = reader[i][r].ns
              THEN [waitFile EXCEPT ![i] = "none"] ELSE waitFile

\* The oldest message is read.  The namespace is resolved anew at every look.
Look(i, r) ==
  /\ reader[i][r].at = "look"
  /\ box[i][Resolved(i, r)] # <<>>
  /\ reader' = [reader EXCEPT ![i][r].at = Resolved(i, r), ![i][r].m = Oldest(i, Resolved(i, r))]
  /\ UNCHANGED <<tree, session, known, box, sent, waitFile, heard, since>>

\* Nothing is there: a check ends, a wait sleeps and looks again.
FindNothing(i, r) ==
  /\ reader[i][r].at = "look"
  /\ reader[i][r].mode = "check"
  /\ box[i][Resolved(i, r)] = <<>>
  /\ reader' = [reader EXCEPT ![i][r] = Off]
  /\ UNCHANGED <<tree, session, known, box, sent, waitFile, heard, since>>

\* The file just read is unlinked and its text returned.  A check looks for the next.
Take(i, r) ==
  LET call == reader[i][r]
  IN  /\ call.at \in Namespaces
      /\ \E k \in DOMAIN box[i][call.at] :
           /\ box[i][call.at][k] = call.m
           /\ box' = [box EXCEPT ![i][call.at] = RemoveAt(@, k)]
      /\ heard' = [heard EXCEPT ![i][call.at] = Append(@, <<call.m, r>>)]
      /\ reader' = [reader EXCEPT ![i][r] =
                      IF call.mode = "wait" THEN Off ELSE [Off EXCEPT !.at = "look", !.mode = "check"]]
      /\ WaitOver(i, r)
      /\ UNCHANGED <<tree, session, known, sent, since>>

\* Mutant: the text is returned although the file could not be unlinked.
TakeAnyway(i, r) ==
  LET call == reader[i][r]
  IN  /\ call.at \in Namespaces
      /\ call.m \notin ToSet(box[i][call.at])
      /\ heard' = [heard EXCEPT ![i][call.at] = Append(@, <<call.m, r>>)]
      /\ reader' = [reader EXCEPT ![i][r] = Off]
      /\ WaitOver(i, r)
      /\ UNCHANGED <<tree, session, known, box, sent, since>>

\* The file went while it was being read, so unlink throws and its text is dropped:
\* null, which ends a check and makes a wait look again.
TakeNothing(i, r) ==
  LET call == reader[i][r]
  IN  /\ call.at \in Namespaces
      /\ call.m \notin ToSet(box[i][call.at])
      /\ reader' = [reader EXCEPT ![i][r] =
                      IF call.mode = "wait" THEN [call EXCEPT !.at = "look", !.m = 0] ELSE Off]
      /\ UNCHANGED <<tree, session, known, box, sent, waitFile, heard, since>>

\* SIGINT or SIGTERM ends a wait before anything was delivered.
InterruptWait(i) ==
  /\ reader[i]["worker"].mode = "wait"
  /\ reader[i]["worker"].at = "look"
  /\ reader' = [reader EXCEPT ![i]["worker"] = Off]
  /\ WaitOver(i, "worker")
  /\ UNCHANGED <<tree, session, known, box, sent, heard, since>>

Reading(i, r) == Look(i, r) \/ FindNothing(i, r) \/ Take(i, r) \/ TakeNothing(i, r)

---------------------------------------------------------------------------
(* cleanInbox: every message of the namespace, and the wait-state file in it *)
Emptied(boxes, i, names) == [boxes EXCEPT ![i] = [n \in Namespaces |-> IF n \in names THEN <<>> ELSE @[n]]]

Unwaited(i, names) ==
  IF waitFile[i] \in names THEN [waitFile EXCEPT ![i] = "none"] ELSE waitFile

=============================================================================
