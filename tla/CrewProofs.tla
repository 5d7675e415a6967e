----------------------------- MODULE CrewProofs -----------------------------
(***************************************************************************)
(* For every set of items and daemons, however many messages a socket may  *)
(* hold and however many faults: a crew takes no step that the broker of   *)
(* module Broker could not take with arbitrary callers, so that all that   *)
(* is proved of it holds in a crew; and no claim is lost unreported.       *)
(*                                                                         *)
(* LostClaimsReported is about daemons that both sides count as connected, *)
(* and says nothing of how they came to be so.  The invariant follows an   *)
(* item from the answer on the socket to the worker, and says for daemons  *)
(* that are away what keeps reconnect_state from missing the item: it is   *)
(* still among the daemon's claimedItems.                                  *)
(***************************************************************************)
EXTENDS Peers, SequenceTheorems, TLAPS

-----------------------------------------------------------------------------
(* The broker.  ClaimsAreHeld is not inductive: a restart takes the crew   *)
(* from its file.  The invariant therefore says of the file what it says   *)
(* of the crew, and relates what a daemon's flags and an item's fields say *)
(* of one another.                                                         *)

\* What holds between the parts of the crew's file.
Consistent(crew) ==
    /\ \A i \in Items : crew.claimedBy[i] # None =>
          /\ crew.claimedBy[i] \in crew.joined
          /\ i \in crew.held[crew.claimedBy[i]]
          /\ crew.syncedAt[i] > 0
          /\ crew.completedBy[i] = None
    /\ \A i \in Items : crew.syncedAt[i] > 0 <=> crew.creator[i] # None
    /\ crew.released \subseteq crew.away

\* The same of the crew in memory, whose sockets the file does not have.
Typed ==
    /\ syncedAt \in [Items -> Nat] /\ creator \in [Items -> Owner]
    /\ deps \in [Items -> SUBSET Items]
    /\ claimedBy \in [Items -> Owner] /\ completedBy \in [Items -> Owner]
    /\ joined \subseteq Daemons /\ online \subseteq joined /\ away \subseteq Daemons
    /\ held \in [Daemons -> SUBSET Items]
    /\ clock \in Nat /\ clock <= MaxSyncs

Claimed(i) ==
    claimedBy[i] # None =>
        /\ claimedBy[i] \in joined
        /\ i \in held[claimedBy[i]]
        /\ syncedAt[i] > 0
        /\ completedBy[i] = None

Linked ==
    /\ \A i \in Items : Claimed(i)
    /\ \A i \in Items : syncedAt[i] > 0 <=> creator[i] # None
    /\ released \subseteq away
    /\ away \cap online = {}

Filed == saved \in CrewFiles /\ Consistent(saved)

IInv == Typed /\ Linked /\ Filed

\* The crew in memory is what its file may hold.
LEMMA SerializedIsConsistent ==
  ASSUME IInv
  PROVE  Serialized \in CrewFiles /\ Consistent(Serialized)
  <1>1. Serialized \in CrewFiles
    BY DEF IInv, Typed, Linked, Serialized, CrewFiles
  <1>2. Consistent(Serialized)
    BY DEF IInv, Linked, Claimed, Serialized, Consistent
  <1> QED
    BY <1>1, <1>2

\* The invariant implies what the runs check.
LEMMA IInvImplies == IInv => BrokerTypeOK /\ ClaimsAreHeld /\ ReleasedAreAway
  <1> SUFFICES ASSUME IInv PROVE BrokerTypeOK /\ ClaimsAreHeld /\ ReleasedAreAway
    OBVIOUS
  <1>1. BrokerTypeOK
    BY SerializedIsConsistent, MaxSyncsAssumption DEF IInv, Typed, Filed, BrokerTypeOK
  <1>2. ClaimsAreHeld
    BY DEF IInv, Linked, Claimed, ClaimsAreHeld, Known, Completed
  <1>3. ReleasedAreAway
    BY DEF IInv, Linked, ReleasedAreAway
  <1> QED
    BY <1>1, <1>2, <1>3

\* A new crew satisfies the invariant.
LEMMA InitIInv == BrokerInit => IInv
  <1> SUFFICES ASSUME BrokerInit PROVE IInv
    OBVIOUS
  <1>1. Typed
    BY MaxSyncsAssumption DEF BrokerInit, Typed, Owner
  <1>2. Linked
    BY DEF BrokerInit, Linked, Claimed
  <1>3. Filed
    BY DEF BrokerInit, Filed, Serialized, CrewFiles, Owner, Consistent
  <1> QED
    BY <1>1, <1>2, <1>3 DEF IInv

-----------------------------------------------------------------------------
(* Each step keeps the invariant. *)

\* A handler that leaves the file alone need only be shown to keep the crew.
LEMMA FiledStays ==
  ASSUME Filed, UNCHANGED saved
  PROVE  Filed'
  BY DEF Filed, Consistent

LEMMA ConnectKeeps ==
  ASSUME IInv, NEW d \in Daemons, ConnectDaemon(d)
  PROVE  IInv'
  <1> USE DEF IInv, ConnectDaemon, itemVars
  <1>1. Typed'
    BY DEF Typed, Resumed
  <1>2. Linked'
    <2>1. \A i \in Items : Claimed(i)'
      BY DEF Typed, Linked, Claimed, Resumed, Owner
    <2> QED
      BY <2>1 DEF Typed, Linked
  <1> QED
    BY <1>1, <1>2, FiledStays

LEMMA DisconnectKeeps ==
  ASSUME IInv, NEW d \in Daemons, DisconnectDaemon(d)
  PROVE  IInv'
  <1> USE DEF IInv, DisconnectDaemon, itemVars
  <1>1. Typed'
    BY DEF Typed
  <1>2. Linked'
    BY DEF Typed, Linked, Claimed
  <1> QED
    BY <1>1, <1>2, FiledStays

LEMMA ReleaseKeeps ==
  ASSUME IInv, NEW d \in Daemons, ReleaseDaemonWorkItems(d)
  PROVE  IInv'
  <1> USE DEF IInv, ReleaseDaemonWorkItems
  <1>1. Typed'
    BY DEF Typed, Owner
  <1>2. Linked'
    <2>1. \A i \in Items : Claimed(i)'
      BY DEF Typed, Linked, Claimed
    <2> QED
      BY <2>1 DEF Typed, Linked, GraceGuard
  <1> QED
    BY <1>1, <1>2, FiledStays

LEMMA ClaimKeeps ==
  ASSUME IInv, NEW d \in Daemons, NEW i \in Items, ClaimNextWorkItem(d, i)
  PROVE  IInv'
  <1> USE DEF IInv, ClaimNextWorkItem, Assigned
  <1>1. syncedAt[i] > 0 /\ completedBy[i] = None
    BY DEF Offered, Available, Known, Completed
  <1>2. Typed'
    BY DEF Typed, Owner
  <1>3. Linked'
    <2>1. ASSUME NEW k \in Items PROVE Claimed(k)'
      <3>1. CASE k = i
        BY <1>1, <3>1 DEF Typed, Linked, Claimed
      <3>2. CASE k # i
        BY <3>2 DEF Typed, Linked, Claimed, Owner
      <3> QED
        BY <3>1, <3>2
    <2> QED
      BY <2>1 DEF Typed, Linked
  <1> QED
    BY <1>2, <1>3, FiledStays

LEMMA CompleteKeeps ==
  ASSUME IInv, NEW d \in Daemons, NEW i \in Items, CompleteWorkItem(d, i)
  PROVE  IInv'
  <1> USE DEF IInv, CompleteWorkItem
  <1>1. Typed'
    BY DEF Typed, Owner
  <1>2. Linked'
    <2>1. ASSUME NEW k \in Items PROVE Claimed(k)'
      <3>1. CASE k = i
        BY <3>1 DEF Typed, Claimed
      <3>2. CASE k # i
        BY <3>2 DEF Typed, Linked, Claimed, Owner
      <3> QED
        BY <3>1, <3>2
    <2> QED
      BY <2>1 DEF Typed, Linked
  <1> QED
    BY <1>1, <1>2, FiledStays

LEMMA SyncKeeps ==
  ASSUME IInv, NEW d \in Daemons, NEW listed, NEW tracked,
         listed \subseteq Items, tracked \subseteq Items,
         SyncCrewItems(d, listed, tracked)
  PROVE  IInv'
  <1> USE DEF IInv, SyncCrewItems, ReconcileDropped, daemonVars
  <1>1. clock' \in Nat /\ clock' <= MaxSyncs /\ (New(listed) # {} => clock' > 0)
    BY DEF Typed
  <1>2. Typed'
    BY <1>1, NoneAssumption, DependenciesAssumption DEF Typed, Owner
  <1>3. Linked'
    <2>1. ASSUME NEW k \in Items PROVE Claimed(k)' /\ (syncedAt[k] > 0 <=> creator[k] # None)'
      <3>1. CASE k \in New(listed)
        BY <1>1, <3>1, NoneAssumption DEF Typed, Linked, Claimed, New, Known, Dropped
      <3>2. CASE k \notin New(listed)
        BY <3>2 DEF Typed, Linked, Claimed, Dropped
      <3> QED
        BY <3>1, <3>2
    <2> QED
      BY <2>1 DEF Typed, Linked
  <1> QED
    BY <1>2, <1>3, FiledStays

LEMMA SaveKeeps ==
  ASSUME IInv, SaveCrew
  PROVE  IInv'
  <1> USE DEF IInv, SaveCrew, itemVars, daemonVars
  <1>1. Typed' /\ Linked'
    BY DEF Typed, Linked, Claimed
  <1>2. saved' \in CrewFiles /\ Consistent(saved')
    BY SerializedIsConsistent
  <1>3. CrewFiles' = CrewFiles
    BY DEF CrewFiles, Owner
  <1>4. Consistent(saved)' <=> Consistent(saved')
    BY DEF Consistent
  <1> QED
    BY <1>1, <1>2, <1>3, <1>4 DEF Filed

LEMMA RestartKeeps ==
  ASSUME IInv, Restart
  PROVE  IInv'
  <1> USE DEF IInv, Restart
  <1>1. Typed'
    BY DEF Typed, Filed, CrewFiles, SocketsRestored
  <1>2. Linked'
    BY DEF Filed, Consistent, Linked, Claimed, SocketsRestored
  <1> QED
    BY <1>1, <1>2, FiledStays
-----------------------------------------------------------------------------
(* The theorems. *)

\* Every step, of a handler on any input, of the file or of a restart, keeps
\* the invariant.
LEMMA NextKeeps ==
  ASSUME IInv, [BrokerNext]_brokerVars
  PROVE  IInv'
  <1>1. CASE UNCHANGED brokerVars
    <2>1. Typed' /\ Linked' /\ Filed'
      BY <1>1 DEF IInv, Typed, Linked, Claimed, Filed, Consistent, CrewFiles, Owner,
                  brokerVars, itemVars, daemonVars
    <2> QED
      BY <2>1 DEF IInv
  <1>2. ASSUME NEW d \in Daemons, Handler(d) PROVE IInv'
    BY <1>2, ConnectKeeps, DisconnectKeeps, ReleaseKeeps, ClaimKeeps, CompleteKeeps,
       SyncKeeps DEF Handler
  <1> QED
    BY <1>1, <1>2, SaveKeeps, RestartKeeps DEF BrokerNext

\* The invariant holds in every state of the broker.
THEOREM BrokerInvariant == BrokerSpec => []IInv
  <1>1. BrokerInit => IInv
    BY InitIInv
  <1>2. IInv /\ [BrokerNext]_brokerVars => IInv'
    BY NextKeeps
  <1> QED
    BY <1>1, <1>2, PTL DEF BrokerSpec

\* Whatever the broker's clients send, when, and whenever it crashes, a claim is
\* recorded with the daemon that holds it: a release after the grace period and
\* the answer to a reconnection miss none of a daemon's items.
THEOREM ClaimsAlwaysHeld == BrokerSpec => []ClaimsAreHeld
  <1>1. IInv => ClaimsAreHeld
    BY IInvImplies
  <1> QED
    BY <1>1, BrokerInvariant, PTL

\* The broker's state is always well typed.
THEOREM BrokerTyped == BrokerSpec => []BrokerTypeOK
  <1>1. IInv => BrokerTypeOK
    BY IInvImplies
  <1> QED
    BY <1>1, BrokerInvariant, PTL
-----------------------------------------------------------------------------
(* The broker implements the claim board. *)

\* The items posted on the board are those the crew knows.
LEMMA PostedAreKnown ==
  ASSUME IInv
  PROVE  Board!Posted = Known
  BY DEF IInv, Linked, Board!Posted, Known

LEMMA SyncReposts ==
  ASSUME IInv, NEW d \in Daemons, NEW listed, NEW tracked,
         listed \subseteq Items, tracked \subseteq Items,
         SyncCrewItems(d, listed, tracked)
  PROVE  Board!Repost(d)
  <1> USE DEF IInv, SyncCrewItems, ReconcileDropped, daemonVars
  <1>1. New(listed) \in SUBSET (Items \ Board!Posted)
    BY PostedAreKnown DEF New
  <1>2. Dropped(d, listed) \in
           SUBSET {i \in Board!Posted \ {k \in Items : Completed(k)} : creator[i] = d}
    BY PostedAreKnown DEF Dropped, Known
  <1>3. {i \in Items : Completed(i)}' = {i \in Items : Completed(i)} \cup Dropped(d, listed)
    BY NoneAssumption DEF Completed, Dropped, Known
  <1> QED
    BY <1>1, <1>2, <1>3 DEF Board!Repost

LEMMA ClaimTakes ==
  ASSUME IInv, NEW d \in Daemons, NEW i \in Items, ClaimNextWorkItem(d, i)
  PROVE  Board!Take(d)
  <1>1. i \in Board!Untaken
    BY PostedAreKnown DEF Board!Untaken, ClaimNextWorkItem, Offered, Available, Completed
  <1>2. claimedBy' = [claimedBy EXCEPT ![i] = d] /\ UNCHANGED <<creator, completedBy, away, saved>>
    BY DEF ClaimNextWorkItem, Assigned
  <1> QED
    BY <1>1, <1>2 DEF Board!Take, Completed

LEMMA CompleteFinishes ==
  ASSUME IInv, NEW d \in Daemons, NEW i \in Items, CompleteWorkItem(d, i)
  PROVE  Board!Finish(d)
  <1> USE DEF CompleteWorkItem
  <1>1. {k \in Items : Completed(k)}' = {k \in Items : Completed(k)} \cup {i}
    BY NoneAssumption DEF Completed, IInv, Typed
  <1> QED
    BY <1>1 DEF Board!Finish

\* A release gives back all that the daemon owns: every claim is in claimedItems.
LEMMA ReleaseGivesBack ==
  ASSUME IInv, NEW d \in Daemons, ReleaseDaemonWorkItems(d)
  PROVE  Board!GiveBack(d)
  <1> USE DEF ReleaseDaemonWorkItems
  <1>1. \A i \in Items : claimedBy[i] = d => i \in held[d]
    BY NoneAssumption DEF IInv, Linked, Claimed
  <1>2. claimedBy' = [i \in Items |-> IF claimedBy[i] = d THEN None ELSE claimedBy[i]]
    BY <1>1
  <1> QED
    BY <1>2 DEF Board!GiveBack, GraceGuard, Completed

LEMMA HandlerChanges ==
  ASSUME IInv, IsSaved, NEW d \in Daemons, Handler(d)
  PROVE  Board!Change(d)
  <1>1. [poster |-> saved.creator, owner |-> saved.claimedBy,
         finished |-> {i \in Items : saved.completedBy[i] # None}, gone |-> saved.away]
        = Board!board
    BY DEF IsSaved, Serialized, Board!board, Completed
  <1>2. CASE ConnectDaemon(d)
    <2>1. Board!Return(d)
      BY <1>2 DEF ConnectDaemon, itemVars, Board!Return, Completed
    <2> QED
      BY <1>1, <2>1 DEF Board!Change
  <1>3. CASE DisconnectDaemon(d)
    <2>1. Board!Leave(d)
      BY <1>3 DEF DisconnectDaemon, itemVars, Board!Leave, Completed
    <2> QED
      BY <1>1, <2>1 DEF Board!Change
  <1>4. CASE ReleaseDaemonWorkItems(d)
    BY <1>1, <1>4, ReleaseGivesBack DEF Board!Change
  <1>5. CASE \E i \in Items : ClaimNextWorkItem(d, i)
    BY <1>1, <1>5, ClaimTakes DEF Board!Change
  <1>6. CASE \E i \in Items : CompleteWorkItem(d, i)
    BY <1>1, <1>6, CompleteFinishes DEF Board!Change
  <1>7. CASE \E tracked \in SUBSET Items : \E listed \in SUBSET tracked :
                SyncCrewItems(d, listed, tracked)
    BY <1>1, <1>7, SyncReposts DEF Board!Change
  <1> QED
    BY <1>2, <1>3, <1>4, <1>5, <1>6, <1>7 DEF Handler

\* The broker implements the claim board: an item goes from one daemon to another
\* only through the board, returns to it only when its daemon has gone and then
\* with all that daemon owned, stays finished, and a crash undoes no more than
\* the one change that was not yet written.
THEOREM BrokerImplementsBoard == BrokerSpec => ImplementsBoard
  <1>1. BrokerInit => Board!BoardInit
    BY DEF BrokerInit, Board!BoardInit, Board!board, Serialized, Completed
  <1>2. IInv /\ [BrokerNext]_brokerVars => [Board!BoardNext]_(Board!boardVars)
    <2> SUFFICES ASSUME IInv, [BrokerNext]_brokerVars
                 PROVE  Board!BoardNext \/ UNCHANGED Board!boardVars
      OBVIOUS
    <2>1. CASE UNCHANGED brokerVars
      BY <2>1 DEF brokerVars, itemVars, daemonVars, Board!boardVars, Completed
    <2>2. ASSUME IsSaved, NEW d \in Daemons, Handler(d) PROVE Board!BoardNext
      BY <2>2, HandlerChanges DEF Board!BoardNext
    <2>3. CASE SaveCrew
      <3>1. Board!Write
        BY <2>3 DEF SaveCrew, Serialized, itemVars, daemonVars, Board!Write, Board!board, Completed
      <3> QED
        BY <3>1 DEF Board!BoardNext
    <2>4. CASE Restart
      <3>1. Board!Crash
        BY <2>4 DEF Restart, Board!Crash, Completed
      <3> QED
        BY <3>1 DEF Board!BoardNext
    <2> QED
      BY <2>1, <2>2, <2>3, <2>4 DEF BrokerNext
  <1> QED
    BY <1>1, <1>2, BrokerInvariant, PTL DEF BrokerSpec, ImplementsBoard, Board!BoardSpec

-----------------------------------------------------------------------------
(* The crew. *)

Queues ==
    /\ toBroker \in [Daemons -> Seq(Messages)]
    /\ toClient \in [Daemons -> Seq(Answers)]

\* An answer that will grant the item is on its way.
Awaits(d, i) == \E n \in DOMAIN toClient[d] : i \in GrantedBy(toClient[d][n])

\* The broker holds the item for the daemon, nobody needs it any more, or the
\* daemon will be told when it reconnects.
Kept(d, i) == claimedBy[i] = d \/ Completed(i) \/ (i \in held[d] /\ d \in away)

Taken(d, i) == work[d][i] = "running" \/ i \in granted[d]

Followed(d, i) ==
    /\ Awaits(d, i) => Kept(d, i)
    /\ Taken(d, i) => Kept(d, i) \/ i \in told[d]

Loops ==
    /\ work \in [Daemons -> [Items -> {"untracked", "open", "running", "done", "stuck"}]]
    /\ granted \in [Daemons -> SUBSET Items]
    /\ told \in [Daemons -> SUBSET Items]

\* A lost socket leaves nothing behind.
Lost ==
    /\ claiming \subseteq connected
    /\ \A d \in Daemons : d \notin connected => toBroker[d] = <<>> /\ toClient[d] = <<>>

Reported == \A d \in Daemons : \A i \in Items : Followed(d, i)

CInv == Loops /\ Lost /\ Reported

\* The file says of each item that was taken what the broker in memory says, or
\* said before a handler that has not saved yet.
KeptOnFile(d, i) ==
    \/ saved.claimedBy[i] = d
    \/ saved.completedBy[i] # None
    \/ i \in saved.held[d] /\ d \in saved.away

FileReported ==
    \A d \in Daemons : \A i \in Items :
        Taken(d, i) => KeptOnFile(d, i) \/ i \in told[d]
-----------------------------------------------------------------------------
(* Sequences. *)

\* What Append adds to a sequence.
LEMMA Appended ==
  ASSUME NEW S, NEW s \in Seq(S), NEW e \in S
  PROVE  /\ Append(s, e) \in Seq(S)
         /\ \A n \in DOMAIN Append(s, e) :
               Append(s, e)[n] = e \/ (n \in DOMAIN s /\ Append(s, e)[n] = s[n])
  BY AppendProperties, LenProperties

\* Where the elements of a tail come from.
LEMMA Tailed ==
  ASSUME NEW S, NEW s \in Seq(S), s # <<>>
  PROVE  /\ Head(s) \in S /\ Tail(s) \in Seq(S)
         /\ 1 \in DOMAIN s /\ Head(s) = s[1]
         /\ \A n \in DOMAIN Tail(s) : n + 1 \in DOMAIN s /\ Tail(s)[n] = s[n + 1]
  BY HeadTailProperties, LenProperties, EmptySeq

\* Nothing is on a socket that was lost.
LEMMA Emptied == \A S : <<>> \in Seq(S)
  BY EmptySeq

\* A claim that nobody waits for any more is a claim.
LEMMA OrphanedIsMessage ==
  ASSUME NEW m \in Messages
  PROVE  Orphaned(m) \in Messages
  <1>1. CASE m \in [type: {"claim"}, awaited: BOOLEAN]
    BY <1>1 DEF Messages, Orphaned
  <1>2. CASE m \in SyncMessages \/ m \in [type: {"complete"}, item: Items]
    BY <1>2 DEF Messages, SyncMessages, Orphaned
  <1> QED
    BY <1>1, <1>2 DEF Messages

\* The answer to one is an answer.
LEMMA OrphanedIsAnswer ==
  ASSUME NEW a \in Answers
  PROVE  [a EXCEPT !.awaited = FALSE] \in Answers
  BY DEF Answers

-----------------------------------------------------------------------------
(* A crew's steps are the broker's. *)

\* The sockets: connections, losses, and what the broker's timer makes of them.
LEMMA SocketSteps ==
  ASSUME Queues, IsSaved, NEW d \in Daemons, Sockets(d)
  PROVE  Queues' /\ [BrokerNext]_brokerVars
  <1> USE DEF Queues, socketVars
  <1>1. CASE Connect(d)
    BY <1>1 DEF Connect, Handler, BrokerNext
  <1>2. CASE Drop(d)
    BY <1>2, Emptied DEF Drop
  <1>3. CASE SocketClosed(d)
    BY <1>3 DEF SocketClosed, Handler, BrokerNext
  <1>4. CASE HeartbeatTimeout(d)
    BY <1>4 DEF HeartbeatTimeout, Handler, BrokerNext
  <1>5. CASE Stall(d)
    BY <1>5 DEF Stall, Handler, BrokerNext
  <1>6. CASE GraceExpired(d)
    BY <1>6 DEF GraceExpired, Handler, BrokerNext
  <1> QED
    BY <1>1, <1>2, <1>3, <1>4, <1>5, <1>6 DEF Sockets

\* The event loop of a daemon: it changes nothing at the broker.
LEMMA LoopSteps ==
  ASSUME Queues, NEW d \in Daemons, Loop(d)
  PROVE  Queues' /\ UNCHANGED brokerVars
  <1> USE DEF Queues, socketVars
  <1>1. CASE Sync(d)
    <2> DEFINE m == [type |-> "sync", listed |-> Listed(d), tracked |-> Tracked(d)]
    <2>1. m \in Messages
      BY DEF Messages, SyncMessages, Listed, Tracked
    <2> QED
      BY <1>1, <2>1, Appended DEF Sync, Sent
  <1>2. CASE Claim(d)
    <2>1. [type |-> "claim", awaited |-> TRUE] \in Messages
      BY DEF Messages
    <2> QED
      BY <1>2, <2>1, Appended DEF Claim, Sent
  <1>3. CASE ClaimTimeout(d)
    <2>1. [n \in DOMAIN toBroker[d] |-> Orphaned(toBroker[d][n])] \in Seq(Messages)
      <3> DEFINE s == toBroker[d]
      <3>1. s \in Seq(Messages)
        OBVIOUS
      <3>2. DOMAIN s = 1..Len(s) /\ Len(s) \in Nat /\ s \in [1..Len(s) -> Messages]
        BY <3>1, LenProperties
      <3>3. ASSUME NEW n \in 1..Len(s) PROVE Orphaned(s[n]) \in Messages
        BY <3>2, OrphanedIsMessage
      <3>4. [n \in 1..Len(s) |-> Orphaned(s[n])] \in [1..Len(s) -> Messages]
        BY <3>3
      <3> QED
        BY <3>2, <3>4, SeqDef
    <2>2. [n \in DOMAIN toClient[d] |-> [toClient[d][n] EXCEPT !.awaited = FALSE]] \in Seq(Answers)
      <3> DEFINE s == toClient[d]
      <3>1. s \in Seq(Answers)
        OBVIOUS
      <3>2. DOMAIN s = 1..Len(s) /\ Len(s) \in Nat /\ s \in [1..Len(s) -> Answers]
        BY <3>1, LenProperties
      <3>3. ASSUME NEW n \in 1..Len(s) PROVE [s[n] EXCEPT !.awaited = FALSE] \in Answers
        BY <3>2, OrphanedIsAnswer
      <3>4. [n \in 1..Len(s) |-> [s[n] EXCEPT !.awaited = FALSE]] \in [1..Len(s) -> Answers]
        BY <3>3
      <3> QED
        BY <3>2, <3>4, SeqDef
    <2> QED
      BY <1>3, <2>1, <2>2 DEF ClaimTimeout
  <1>4. CASE ClaimResponse(d)
    BY <1>4, Tailed DEF ClaimResponse
  <1>5. CASE Launch(d)
    BY <1>5 DEF Launch
  <1>6. ASSUME NEW i \in Items, Merge(d, i) PROVE Queues' /\ UNCHANGED brokerVars
    <2>1. [type |-> "complete", item |-> i] \in Messages
      BY DEF Messages
    <2> QED
      BY <1>6, <2>1, Appended DEF Merge, Sent
  <1>7. ASSUME NEW i \in Items, GiveUp(d, i) \/ Forget(d, i)
        PROVE  Queues' /\ UNCHANGED brokerVars
    BY <1>7 DEF GiveUp, Forget
  <1> QED
    BY <1>1, <1>2, <1>3, <1>4, <1>5, <1>6, <1>7 DEF Loop

\* What the broker takes from a socket is a message of the kind its handler is for.
LEMMA ReceivedMessage ==
  ASSUME Queues, NEW d \in Daemons, NEW type, Received(d, type)
  PROVE  Head(toBroker[d]) \in Messages /\ Head(toBroker[d]).type = type
  BY Tailed DEF Queues, Received

\* The broker takes a message, and answers if it is a claim.
LEMMA MessageSteps ==
  ASSUME Queues, IsSaved, NEW d \in Daemons, HandleMessage(d)
  PROVE  Queues' /\ [BrokerNext]_brokerVars
  <1> USE DEF Queues
  <1>1. ASSUME NEW type, Received(d, type)
        PROVE  /\ Head(toBroker[d]) \in Messages /\ Head(toBroker[d]).type = type
               /\ toBroker' \in [Daemons -> Seq(Messages)]
    BY <1>1, ReceivedMessage, Tailed DEF Received
  <1>2. CASE HandleSync(d)
    <2> DEFINE m == Head(toBroker[d])
    <2>1. m \in Messages /\ m.type = "sync"
      BY <1>1, <1>2 DEF HandleSync
    <2>2. m.listed \in SUBSET m.tracked /\ m.tracked \in SUBSET Items
      BY <2>1 DEF Messages, SyncMessages
    <2>3. Handler(d)
      BY <1>2, <2>2 DEF HandleSync, Handler
    <2> QED
      BY <1>1, <1>2, <2>3 DEF HandleSync, BrokerNext
  <1>3. ASSUME Received(d, "claim"), NEW item \in Items \cup {None}, Answered(d, item)
        PROVE  toClient' \in [Daemons -> Seq(Answers)]
    <2> DEFINE m == Head(toBroker[d])
    <2>1. m \in [type: {"claim"}, awaited: BOOLEAN]
      BY <1>1, <1>3 DEF Messages, SyncMessages
    <2>2. [awaited |-> m.awaited, item |-> item] \in Answers
      BY <2>1 DEF Answers
    <2> QED
      BY <1>3, <2>2, Appended DEF Answered
  <1>4. CASE HandleClaim(d)
    BY <1>1, <1>3, <1>4 DEF HandleClaim, Handler, BrokerNext
  <1>5. CASE HandleClaimOfNone(d)
    BY <1>1, <1>3, <1>5 DEF HandleClaimOfNone
  <1>6. CASE HandleComplete(d)
    <2> DEFINE m == Head(toBroker[d])
    <2>1. m \in [type: {"complete"}, item: Items]
      BY <1>1, <1>6 DEF HandleComplete, Messages, SyncMessages
    <2> QED
      BY <1>1, <1>6, <2>1 DEF HandleComplete, Handler, BrokerNext
  <1>7. CASE HandleCompleteRefused(d)
    BY <1>1, <1>7 DEF HandleCompleteRefused
  <1> QED
    BY <1>2, <1>4, <1>5, <1>6, <1>7 DEF HandleMessage

\* So does every step of the crew, and a stuttering step.
LEMMA StepIsBrokers ==
  ASSUME Queues, [Next]_vars
  PROVE  Queues' /\ [BrokerNext]_brokerVars
  <1>1. CASE UNCHANGED vars
    BY <1>1 DEF vars, socketVars, Queues
  <1>2. CASE BrokerRestart
    BY <1>2, Emptied DEF BrokerRestart, BrokerNext, Queues
  <1>3. CASE Save
    BY <1>3 DEF Save, BrokerNext, socketVars, Queues
  <1> QED
    BY <1>1, <1>2, <1>3, SocketSteps, LoopSteps, MessageSteps DEF Next

\* The queues of a crew hold the messages of crew.ts.
LEMMA QueuesTyped == Spec => []Queues
  <1>1. Init => Queues
    BY Emptied DEF Init, Queues
  <1> QED
    BY <1>1, StepIsBrokers, PTL DEF Spec

\* The broker of a crew is a broker: it never meets a call, or an order of calls,
\* that it was not proved against.
THEOREM CrewIsBroker == Spec => BrokerSpec
  <1>1. Init => BrokerInit
    BY DEF Init
  <1>2. Queues /\ [Next]_vars => [BrokerNext]_brokerVars
    BY StepIsBrokers
  <1> QED
    BY <1>1, <1>2, QueuesTyped, PTL DEF Spec, BrokerSpec
-----------------------------------------------------------------------------
(* No claim is lost unreported. *)

\* The crew's file is the crew, field by field, when it has been saved.
LEMMA SavedFields ==
  ASSUME IsSaved
  PROVE  /\ saved.claimedBy = claimedBy /\ saved.completedBy = completedBy
         /\ saved.away = away /\ saved.held = held
  BY DEF IsSaved, Serialized

\* What the broker may do for a daemon e while d does not return.
NoReturn(d, e) ==
    \/ ConnectDaemon(e) /\ e # d
    \/ DisconnectDaemon(e)
    \/ ReleaseDaemonWorkItems(e)
    \/ \E k \in Items : ClaimNextWorkItem(e, k) \/ CompleteWorkItem(e, k)
    \/ \E listed, tracked \in SUBSET Items : SyncCrewItems(e, listed, tracked)

\* A completion is never undone, and what is kept for a daemon stays kept until
\* that daemon returns.
LEMMA HandlerKeeps ==
  ASSUME IInv, NEW d \in Daemons, NEW i \in Items, Kept(d, i),
         NEW e \in Daemons, NoReturn(d, e)
  PROVE  Kept(d, i)'
  <1> USE DEF IInv, Typed, Kept, Completed
  <1>1. CASE ConnectDaemon(e) /\ e # d
    BY <1>1 DEF ConnectDaemon, itemVars
  <1>2. CASE DisconnectDaemon(e)
    BY <1>2 DEF DisconnectDaemon, itemVars
  <1>3. CASE ReleaseDaemonWorkItems(e)
    BY <1>3 DEF ReleaseDaemonWorkItems, GraceGuard
  <1>4. ASSUME NEW k \in Items, ClaimNextWorkItem(e, k) PROVE Kept(d, i)'
    <2>1. claimedBy[k] = None
      BY <1>4 DEF ClaimNextWorkItem, Offered, Available
    <2> QED
      BY <1>4, <2>1, NoneAssumption DEF ClaimNextWorkItem, Assigned
  <1>5. ASSUME NEW k \in Items, CompleteWorkItem(e, k) PROVE Kept(d, i)'
    BY <1>5, NoneAssumption DEF CompleteWorkItem
  <1>6. ASSUME NEW listed, NEW tracked, SyncCrewItems(e, listed, tracked) PROVE Kept(d, i)'
    BY <1>6, NoneAssumption DEF SyncCrewItems, ReconcileDropped, daemonVars
  <1> QED
    BY <1>1, <1>2, <1>3, <1>4, <1>5, <1>6 DEF NoReturn

\* The return itself tells of what is not kept by it.
LEMMA ReturnTells ==
  ASSUME IInv, NEW d \in Daemons, NEW i \in Items, Kept(d, i), ConnectDaemon(d)
  PROVE  Kept(d, i)' \/ i \in LostReleased(d) \cup LostReclaimed(d)
  BY DEF IInv, Typed, Kept, Completed, ConnectDaemon, itemVars, Resumed, WasAway,
         LostReleased, LostReclaimed, Owner

\* What the file keeps is what the broker keeps, once saved or restarted.
LEMMA FileIsCrew ==
  ASSUME NEW d \in Daemons, NEW i \in Items
  PROVE  /\ IsSaved => (KeptOnFile(d, i) <=> Kept(d, i))
         /\ Restart => (Kept(d, i)' <=> KeptOnFile(d, i))
         /\ SaveCrew => (KeptOnFile(d, i)' <=> Kept(d, i)) /\ (Kept(d, i)' <=> Kept(d, i))
  BY SavedFields DEF KeptOnFile, Kept, Restart, SaveCrew, Serialized, Completed, itemVars, daemonVars

\* The sockets: only Connect tells, and it finds the queues of its daemon empty.
LEMMA SocketsReport ==
  ASSUME IInv, Queues, CInv, NEW e \in Daemons, Sockets(e)
  PROVE  CInv'
  <1> USE DEF socketVars, loopVars
  <1>1. Loops'
    <2>1. LostReleased(e) \cup LostReclaimed(e) \in SUBSET Items
      BY DEF LostReleased, LostReclaimed, IInv, Typed
    <2>2. work' = work /\ granted' = granted
      BY DEF Sockets, Connect, Drop, SocketClosed, HeartbeatTimeout, Stall, GraceExpired
    <2>3. told' = told \/ told' = [told EXCEPT ![e] = @ \cup LostReleased(e) \cup LostReclaimed(e)]
      BY DEF Sockets, Connect, Drop, SocketClosed, HeartbeatTimeout, Stall, GraceExpired
    <2> QED
      BY <2>1, <2>2, <2>3 DEF CInv, Loops
  <1>2. Lost'
    BY DEF CInv, Lost, Queues, Sockets, Connect, Drop, PendingRejected, SocketClosed,
           HeartbeatTimeout, Stall, GraceExpired
  <1>3. ASSUME NEW d \in Daemons, NEW i \in Items PROVE Followed(d, i)'
    <2>1. Followed(d, i)
      BY DEF CInv, Reported
    <2>2. CASE Connect(e) /\ e = d
      <3>1. toClient'[d] = <<>> /\ ~ Awaits(d, i)'
        BY <2>2 DEF CInv, Lost, Connect, Awaits
      <3>2. Taken(d, i)' => Taken(d, i)
        BY <2>2 DEF Connect, Taken
      <3>3. told'[d] = told[d] \cup LostReleased(d) \cup LostReclaimed(d)
        BY <2>2 DEF CInv, Loops, Connect
      <3> QED
        BY <2>1, <2>2, <3>1, <3>2, <3>3, ReturnTells DEF Connect, Followed
    <2>3. CASE Drop(e)
      <3>1. Kept(d, i)' <=> Kept(d, i)
        BY <2>3 DEF Drop, Kept, Completed, brokerVars, itemVars, daemonVars
      <3>2. Awaits(d, i)' => Awaits(d, i)
        BY <2>3 DEF Drop, Awaits, Queues
      <3>3. Taken(d, i)' <=> Taken(d, i)
        BY <2>3 DEF Drop, Taken
      <3> QED
        BY <2>1, <2>3, <3>1, <3>2, <3>3 DEF Followed, Drop
    <2>4. ASSUME NoReturn(d, e) \/ UNCHANGED brokerVars, UNCHANGED <<toClient, work, granted>>,
                 i \in told[d] => i \in told'[d]
          PROVE  Followed(d, i)'
      <3>1. Kept(d, i) => Kept(d, i)'
        BY <2>4, HandlerKeeps DEF Kept, Completed, brokerVars, itemVars, daemonVars
      <3> QED
        BY <2>1, <2>4, <3>1 DEF Followed, Awaits, Taken
    <2>5. CASE Connect(e) /\ e # d
      BY <2>4, <2>5 DEF Connect, NoReturn, CInv, Loops
    <2>6. CASE SocketClosed(e) \/ HeartbeatTimeout(e) \/ Stall(e) \/ GraceExpired(e)
      BY <2>4, <2>6 DEF SocketClosed, HeartbeatTimeout, Stall, GraceExpired, NoReturn
    <2> QED
      BY <2>2, <2>3, <2>5, <2>6 DEF Sockets
  <1> QED
    BY <1>1, <1>2, <1>3 DEF CInv, Reported

\* The event loop: a grant was on its way, and what is launched was granted.
LEMMA LoopReports ==
  ASSUME IInv, Queues, CInv, NEW e \in Daemons, Loop(e)
  PROVE  CInv'
  <1> USE DEF socketVars, loopVars
  <1>1. \A answer \in Answers : GrantedBy(answer) \subseteq Items
    BY DEF Answers, GrantedBy
  <1>2. Loops'
    <2>1. ASSUME ClaimResponse(e) PROVE Loops'
      <3>1. GrantedBy(Head(toClient[e])) \subseteq Items
        BY <1>1, <2>1, Tailed DEF Queues, ClaimResponse
      <3> QED
        BY <2>1, <3>1 DEF CInv, Loops, ClaimResponse
    <2>2. ASSUME Launch(e) PROVE Loops'
      <3> DEFINE launched == [i \in Items |-> IF i \in granted[e] /\ work[e][i] = "open"
                                              THEN "running" ELSE work[e][i]]
      <3>1. launched \in [Items -> {"untracked", "open", "running", "done", "stuck"}]
        BY DEF CInv, Loops
      <3>2. work' = [work EXCEPT ![e] = launched]
        BY <2>2 DEF Launch
      <3> HIDE DEF launched
      <3> QED
        BY <2>2, <3>1, <3>2 DEF CInv, Loops, Launch
    <2>3. ASSUME NEW k \in Items, Merge(e, k) \/ GiveUp(e, k) \/ Forget(e, k) PROVE Loops'
      <3>1. \E s \in {"untracked", "done", "stuck"} : work' = [work EXCEPT ![e][k] = s]
        BY <2>3 DEF Merge, GiveUp, Forget
      <3>2. granted' = granted /\ told' = told
        BY <2>3 DEF Merge, GiveUp, Forget
      <3> QED
        BY <3>1, <3>2 DEF CInv, Loops
    <2>4. ASSUME Sync(e) \/ Claim(e) \/ ClaimTimeout(e) PROVE Loops'
      BY <2>4 DEF CInv, Loops, Sync, Claim, ClaimTimeout
    <2> QED
      BY <2>1, <2>2, <2>3, <2>4 DEF Loop
  <1>3. Lost'
    BY DEF CInv, Lost, Queues, Loop, Sync, Claim, ClaimTimeout, ClaimResponse, Launch, Merge,
           GiveUp, Forget, Sent
  <1>4. ASSUME NEW d \in Daemons, NEW i \in Items PROVE Followed(d, i)'
    <2>1. Followed(d, i)
      BY DEF CInv, Reported
    <2>2. Kept(d, i)' <=> Kept(d, i)
      BY LoopSteps DEF Kept, Completed, brokerVars, itemVars, daemonVars
    <2>3. CASE ClaimTimeout(e)
      <3>1. Awaits(d, i)' => Awaits(d, i)
        BY <2>3 DEF ClaimTimeout, Awaits, GrantedBy, Queues
      <3> QED
        BY <2>1, <2>2, <2>3, <3>1 DEF ClaimTimeout, Followed, Taken
    <2>4. CASE ClaimResponse(e)
      <3> DEFINE answer == Head(toClient[e])
      <3>1. i \in GrantedBy(answer) => Awaits(e, i)
        BY <2>4, Tailed DEF ClaimResponse, Awaits, Queues
      <3>2. Awaits(d, i)' => Awaits(d, i)
        BY <2>4, Tailed DEF ClaimResponse, Awaits, Queues
      <3>3. Taken(d, i)' => Taken(d, i) \/ (d = e /\ i \in GrantedBy(answer))
        BY <2>4 DEF ClaimResponse, Taken, CInv, Loops
      <3>4. i \in told[d] => i \in told'[d] \/ (d = e /\ i \in GrantedBy(answer))
        BY <2>4 DEF ClaimResponse, CInv, Loops
      <3> QED
        BY <2>1, <2>2, <3>1, <3>2, <3>3, <3>4 DEF Followed
    <2>5. CASE Launch(e)
      <3>1. Taken(d, i)' => Taken(d, i)
        BY <2>5 DEF Launch, Taken, CInv, Loops
      <3> QED
        BY <2>1, <2>2, <2>5, <3>1 DEF Launch, Followed, Awaits
    <2>6. ASSUME UNCHANGED <<toClient, granted, told>>,
                 work'[d][i] = "running" => work[d][i] = "running"
          PROVE  Followed(d, i)'
      BY <2>1, <2>2, <2>6 DEF Followed, Awaits, Taken
    <2>7. CASE Sync(e) \/ Claim(e)
      BY <2>6, <2>7 DEF Sync, Claim
    <2>8. ASSUME NEW k \in Items, Merge(e, k) \/ GiveUp(e, k) \/ Forget(e, k)
          PROVE  Followed(d, i)'
      <3>1. \E s \in {"untracked", "done", "stuck"} : work' = [work EXCEPT ![e][k] = s]
        BY <2>8 DEF Merge, GiveUp, Forget
      <3>2. work'[d][i] = "running" => work[d][i] = "running"
        BY <3>1 DEF CInv, Loops
      <3> QED
        BY <2>6, <2>8, <3>2 DEF Merge, GiveUp, Forget
    <2> QED
      BY <2>3, <2>4, <2>5, <2>7, <2>8 DEF Loop
  <1> QED
    BY <1>2, <1>3, <1>4 DEF CInv, Reported

\* What a message makes the broker do: nobody returns, and an answer that grants
\* an item comes with its claim.
LEMMA MessageCalls ==
  ASSUME Queues, NEW d \in Daemons, NEW e \in Daemons, HandleMessage(e)
  PROVE  NoReturn(d, e) \/ UNCHANGED brokerVars
  <1> DEFINE m == Head(toBroker[e])
  <1>1. CASE HandleSync(e)
    <2>1. m \in Messages /\ m.type = "sync"
      BY <1>1, ReceivedMessage DEF HandleSync
    <2>2. m.listed \in SUBSET Items /\ m.tracked \in SUBSET Items
      BY <2>1 DEF Messages, SyncMessages
    <2> QED
      BY <1>1, <2>2 DEF HandleSync, NoReturn
  <1>2. CASE HandleComplete(e)
    <2>1. m \in Messages /\ m.type = "complete"
      BY <1>2, ReceivedMessage DEF HandleComplete
    <2>2. m.item \in Items
      BY <2>1 DEF Messages, SyncMessages
    <2> QED
      BY <1>2, <2>2 DEF HandleComplete, NoReturn
  <1> QED
    BY <1>1, <1>2 DEF HandleMessage, HandleClaim, HandleClaimOfNone, HandleCompleteRefused, NoReturn

LEMMA MessageAnswers ==
  ASSUME IInv, Queues, NEW e \in Daemons, HandleMessage(e)
  PROVE  \/ toClient' = toClient
         \/ \E item \in Items \cup {None} :
               /\ Answered(e, item)
               /\ Head(toBroker[e]).awaited \in BOOLEAN
               /\ item = None \/ claimedBy'[item] = e
  <1>1. ASSUME Received(e, "claim") PROVE Head(toBroker[e]).awaited \in BOOLEAN
    <2>1. Head(toBroker[e]) \in Messages /\ Head(toBroker[e]).type = "claim"
      BY <1>1, ReceivedMessage
    <2> QED
      BY <2>1 DEF Messages, SyncMessages
  <1>2. ASSUME NEW i \in Items, ClaimNextWorkItem(e, i) PROVE claimedBy'[i] = e
    BY <1>2 DEF ClaimNextWorkItem, Assigned, IInv, Typed
  <1> QED
    BY <1>1, <1>2 DEF HandleMessage, HandleSync, HandleClaim, HandleClaimOfNone, HandleComplete,
                      HandleCompleteRefused

\* The broker's messages: an answer grants what the broker has just claimed.
LEMMA MessagesReport ==
  ASSUME IInv, Queues, CInv, NEW e \in Daemons, HandleMessage(e)
  PROVE  CInv'
  <1> USE DEF loopVars
  <1>1. \E type : Received(e, type)
    BY DEF HandleMessage, HandleSync, HandleClaim, HandleClaimOfNone, HandleComplete,
           HandleCompleteRefused
  <1>2. Loops'
    BY <1>1 DEF CInv, Loops, Received
  <1>3. \A d \in Daemons : d # e => toClient'[d] = toClient[d]
    BY DEF HandleMessage, HandleSync, HandleClaim, HandleClaimOfNone, HandleComplete,
           HandleCompleteRefused, Answered, Queues
  <1>4. Lost'
    BY <1>1, <1>3 DEF CInv, Lost, Received, Queues
  <1>5. ASSUME NEW d \in Daemons, NEW i \in Items PROVE Followed(d, i)'
    <2>1. Followed(d, i) /\ (Taken(d, i)' <=> Taken(d, i)) /\ told' = told
      BY <1>1 DEF CInv, Reported, Received, Taken
    <2>2. Kept(d, i) => Kept(d, i)'
      <3>1. NoReturn(d, e) \/ UNCHANGED brokerVars
        BY MessageCalls
      <3> QED
        BY <3>1, HandlerKeeps DEF Kept, Completed, brokerVars, itemVars, daemonVars
    <2>3. Awaits(d, i)' => Awaits(d, i) \/ Kept(d, i)'
      <3>1. CASE toClient' = toClient
        BY <3>1 DEF Awaits
      <3>2. ASSUME NEW item \in Items \cup {None}, Answered(e, item),
                   Head(toBroker[e]).awaited \in BOOLEAN,
                   item = None \/ claimedBy'[item] = e
            PROVE  Awaits(d, i)' => Awaits(d, i) \/ Kept(d, i)'
        <4> DEFINE answer == [awaited |-> Head(toBroker[e]).awaited, item |-> item]
        <4>1. answer \in Answers
          BY <3>2 DEF Answers
        <4>2. CASE d # e
          BY <1>3, <4>2 DEF Awaits
        <4>3. CASE d = e
          <5>1. toClient'[e] = Append(toClient[e], answer)
            BY <3>2 DEF Answered, Queues
          <5>2. i \in GrantedBy(answer) => Kept(e, i)'
            BY <3>2 DEF GrantedBy, Kept
          <5> QED
            BY <4>1, <4>3, <5>1, <5>2, Appended DEF Awaits, Queues
        <4> QED
          BY <4>2, <4>3
      <3> QED
        BY <3>1, <3>2, MessageAnswers
    <2> QED
      BY <2>1, <2>2, <2>3 DEF Followed
  <1> QED
    BY <1>2, <1>4, <1>5 DEF CInv, Reported

\* Every step keeps the invariant.
LEMMA CrewStepReports ==
  ASSUME IInv, Queues, CInv, FileReported, [Next]_vars
  PROVE  CInv'
  <1>1. CASE BrokerRestart
    <2>1. Loops' /\ Lost'
      BY <1>1 DEF CInv, Loops, Lost, BrokerRestart, loopVars
    <2>2. ASSUME NEW d \in Daemons, NEW i \in Items PROVE Followed(d, i)'
      <3>1. ~ Awaits(d, i)'
        BY <1>1 DEF Awaits, BrokerRestart
      <3>2. (Taken(d, i)' <=> Taken(d, i)) /\ told' = told
        BY <1>1 DEF Taken, BrokerRestart, loopVars
      <3>3. Kept(d, i)' <=> KeptOnFile(d, i)
        BY <1>1, FileIsCrew DEF BrokerRestart
      <3> QED
        BY <3>1, <3>2, <3>3 DEF Followed, FileReported
    <2> QED
      BY <2>1, <2>2 DEF CInv, Reported
  <1>2. CASE Save \/ UNCHANGED vars
    <2>1. UNCHANGED <<loopVars, connected, claiming, toBroker, toClient>>
      BY <1>2 DEF Save, vars, socketVars, loopVars
    <2>2. Loops' /\ Lost'
      BY <2>1 DEF CInv, Loops, Lost, loopVars
    <2>3. ASSUME NEW d \in Daemons, NEW i \in Items PROVE Followed(d, i)'
      <3>1. Followed(d, i)
        BY DEF CInv, Reported
      <3>2. Kept(d, i)' <=> Kept(d, i)
        BY <1>2, FileIsCrew DEF Save, vars, brokerVars, itemVars, daemonVars, Kept, Completed
      <3> QED
        BY <2>1, <3>1, <3>2 DEF Followed, Awaits, Taken, loopVars
    <2> QED
      BY <2>2, <2>3 DEF CInv, Reported
  <1> QED
    BY <1>1, <1>2, SocketsReport, LoopReports, MessagesReport DEF Next

\* So does the file: what a daemon takes from a saved crew is on file, and the
\* handler that takes something away from a daemon starts from a saved crew.
LEMMA FileStepReports ==
  ASSUME IInv, Queues, CInv, CInv', FileReported, [Next]_vars
  PROVE  FileReported'
  <1> SUFFICES ASSUME NEW d \in Daemons, NEW i \in Items
               PROVE  (Taken(d, i) => KeptOnFile(d, i) \/ i \in told[d])'
    BY DEF FileReported
  <1>1. Taken(d, i) => KeptOnFile(d, i) \/ i \in told[d]
    BY DEF FileReported
  <1>2. (Taken(d, i) => Kept(d, i) \/ i \in told[d])'
    BY DEF CInv, Reported, Followed
  <1>3. ASSUME UNCHANGED <<saved, work, granted>>, i \in told[d] => i \in told'[d]
        PROVE  (Taken(d, i) => KeptOnFile(d, i) \/ i \in told[d])'
    BY <1>1, <1>3 DEF Taken, KeptOnFile
  <1>4. CASE BrokerRestart \/ UNCHANGED vars
    BY <1>3, <1>4 DEF BrokerRestart, Restart, vars, brokerVars, loopVars
  <1>5. CASE Save
    BY <1>2, <1>5, FileIsCrew DEF Save
  <1>6. ASSUME NEW e \in Daemons, IsSaved, Sockets(e)
        PROVE  (Taken(d, i) => KeptOnFile(d, i) \/ i \in told[d])'
    <2>1. UNCHANGED <<saved, work, granted>>
      BY <1>6 DEF Sockets, Connect, Drop, SocketClosed, HeartbeatTimeout, Stall, GraceExpired,
                  ConnectDaemon, DisconnectDaemon, ReleaseDaemonWorkItems, brokerVars, loopVars
    <2>2. told' = told \/ told' = [told EXCEPT ![e] = @ \cup LostReleased(e) \cup LostReclaimed(e)]
      BY <1>6 DEF Sockets, Connect, Drop, SocketClosed, HeartbeatTimeout, Stall, GraceExpired, loopVars
    <2> QED
      BY <1>3, <2>1, <2>2 DEF CInv, Loops
  <1>7. ASSUME NEW e \in Daemons, IsSaved, Loop(e)
        PROVE  (Taken(d, i) => KeptOnFile(d, i) \/ i \in told[d])'
    <2>1. UNCHANGED brokerVars
      BY <1>7, LoopSteps
    <2>2. (KeptOnFile(d, i) <=> Kept(d, i))'
      BY <1>7, <2>1, SavedFields DEF brokerVars, itemVars, daemonVars, KeptOnFile, Kept, Completed
    <2> QED
      BY <1>2, <2>2
  <1>8. ASSUME NEW e \in Daemons, IsSaved, HandleMessage(e)
        PROVE  (Taken(d, i) => KeptOnFile(d, i) \/ i \in told[d])'
    <2>1. UNCHANGED saved
      BY <1>8 DEF HandleMessage, HandleSync, HandleClaim, HandleClaimOfNone, HandleComplete,
                  HandleCompleteRefused, SyncCrewItems, ClaimNextWorkItem, CompleteWorkItem, brokerVars
    <2>2. UNCHANGED loopVars
      BY <1>8 DEF HandleMessage, HandleSync, HandleClaim, HandleClaimOfNone, HandleComplete,
                  HandleCompleteRefused, Received
    <2> QED
      BY <1>3, <2>1, <2>2 DEF loopVars
  <1> QED
    BY <1>4, <1>5, <1>6, <1>7, <1>8 DEF Next

\* The invariant gives the property, for a daemon that is online is not away.
LEMMA CInvImplies == IInv /\ CInv => LostClaimsReported
  <1> SUFFICES ASSUME IInv, CInv, NEW d \in Daemons, NEW i \in Items,
                      d \in connected \cap online, work[d][i] = "running",
                      claimedBy[i] # d, ~ Completed(i)
               PROVE  i \in told[d]
    BY DEF LostClaimsReported
  <1>1. d \notin away
    BY DEF IInv, Linked
  <1> QED
    BY <1>1 DEF CInv, Reported, Followed, Taken, Kept

LEMMA CrewFollows == Spec => [](CInv /\ FileReported)
  <1>1. Init => CInv /\ FileReported
    BY DEF Init, CInv, Loops, Lost, Reported, FileReported, Followed, Awaits, Taken
  <1>2. IInv /\ Queues /\ CInv /\ FileReported /\ [Next]_vars => (CInv /\ FileReported)'
    BY CrewStepReports, FileStepReports
  <1>3. Spec => []IInv
    BY CrewIsBroker, BrokerInvariant, PTL
  <1> QED
    BY <1>1, <1>2, <1>3, QueuesTyped, PTL DEF Spec

\* However the daemons' sockets fail, claims time out and the broker restarts,
\* a daemon that both sides count as connected and that works on an item nobody
\* holds for it was told so by reconnect_state.
THEOREM ClaimsLostAreReported == Spec => []LostClaimsReported
  <1>1. Spec => []IInv
    BY CrewIsBroker, BrokerInvariant, PTL
  <1>2. IInv /\ CInv => LostClaimsReported
    BY CInvImplies
  <1> QED
    BY <1>1, <1>2, CrewFollows, PTL

\* The two together: claims are held by daemons entitled to them, and no loss goes untold.
THEOREM ClaimsAreSound == Spec => []ClaimsSound
  <1>1. Spec => []ClaimsAreHeld
    BY CrewIsBroker, ClaimsAlwaysHeld, PTL
  <1>2. ClaimsAreHeld /\ LostClaimsReported => ClaimsSound
    BY DEF ClaimsSound
  <1> QED
    BY <1>1, <1>2, ClaimsLostAreReported, PTL

\* What is left of the typing of a crew.
Rest ==
    /\ connected \subseteq Daemons /\ lingering \subseteq Daemons
    /\ merged \subseteq Items /\ faults \in 0..MaxFaults

LEMMA RestStays ==
  ASSUME Rest, [Next]_vars
  PROVE  Rest'
  <1> USE CrewAssumption DEF Rest
  <1>1. CASE BrokerRestart \/ Save \/ UNCHANGED vars
    BY <1>1 DEF BrokerRestart, Save, vars, socketVars
  <1>2. ASSUME NEW d \in Daemons, Sockets(d) PROVE Rest'
    BY <1>2 DEF Sockets, Connect, Drop, SocketClosed, HeartbeatTimeout, Stall, GraceExpired, socketVars
  <1>3. ASSUME NEW d \in Daemons, Loop(d) PROVE Rest'
    <2>1. UNCHANGED <<connected, lingering>>
      BY <1>3 DEF Loop, Sync, Claim, ClaimTimeout, ClaimResponse, Launch, Merge, GiveUp, Forget, socketVars
    <2>2. faults' = faults \/ (faults < MaxFaults /\ faults' = faults + 1)
      BY <1>3 DEF Loop, Sync, Claim, ClaimTimeout, ClaimResponse, Launch, Merge, GiveUp, Forget
    <2>3. merged' = merged \/ \E k \in Items : merged' = merged \cup {k}
      BY <1>3 DEF Loop, Sync, Claim, ClaimTimeout, ClaimResponse, Launch, Merge, GiveUp, Forget
    <2>4. faults' \in 0..MaxFaults
      BY <2>2
    <2> QED
      BY <2>1, <2>3, <2>4
  <1>4. ASSUME NEW d \in Daemons, HandleMessage(d) PROVE Rest'
    BY <1>4 DEF HandleMessage, HandleSync, HandleClaim, HandleClaimOfNone, HandleComplete,
                HandleCompleteRefused, Received
  <1> QED
    BY <1>1, <1>2, <1>3, <1>4 DEF Next

\* The crew is well typed; a lost socket leaves neither messages nor an awaited
\* claim behind.
THEOREM CrewTyped == Spec => []TypeOK
  <1>1. Init => Rest
    BY CrewAssumption DEF Init, Rest
  <1>2. Rest /\ [Next]_vars => Rest'
    BY RestStays
  <1>3. Rest /\ CInv /\ Queues /\ BrokerTypeOK => TypeOK
    BY DEF Rest, CInv, Loops, Lost, Queues, TypeOK
  <1> QED
    BY <1>1, <1>2, <1>3, CrewFollows, CrewIsBroker, BrokerTyped, QueuesTyped, PTL DEF Spec
-----------------------------------------------------------------------------
(***************************************************************************)
(* For every crew in which no item that others depend on is given up: a    *)
(* daemon starts an item only when all it depends on is merged.            *)
(*                                                                         *)
(* The news that an item is merged travels as a completion, as its absence *)
(* from a sync, or as a dependency list from which it is missing, and each *)
(* may be late.  The invariant says of every place where such news can be  *)
(* that it is true; `merged` only grows, so that late news stays true.     *)
(***************************************************************************)

NeededNeverGivenUp == \A i \in Items : Dependencies[i] \cap GivesUp = {}

Startable(i, known) == Dependencies[i] \subseteq known

\* What each daemon knows of an item is true.
WorkTrue ==
    \A d \in Daemons : \A i \in Items :
        /\ work[d][i] \in {"done", "untracked"} => i \in merged
        /\ work[d][i] = "stuck" => i \in GivesUp
        /\ i \in granted[d] => Startable(i, merged)

\* So is what a message says or leaves out.
True(message, known) ==
    /\ message.type = "complete" => message.item \in known
    /\ message.type = "sync" => /\ Items \ message.listed \subseteq known \cup GivesUp
                                /\ Items \ message.tracked \subseteq known

AnswerTrue(answer, known) == \A i \in GrantedBy(answer) : Startable(i, known)

MessagesTrue ==
    \A d \in Daemons :
        /\ \A n \in DOMAIN toBroker[d] : True(toBroker[d][n], merged)
        /\ \A n \in DOMAIN toClient[d] : AnswerTrue(toClient[d][n], merged)

\* So is what the broker makes of them.
BrokerTrue ==
    \A i \in Items :
        /\ completedBy[i] # None => i \in merged \cup GivesUp
        /\ syncedAt[i] > 0 =>
              /\ Dependencies[i] \ deps[i] \subseteq merged
              /\ \A k \in Dependencies[i] : syncedAt[k] > 0 \/ k \in merged \cup GivesUp

AllTrue == WorkTrue /\ MessagesTrue /\ BrokerTrue

\* So is what it reads back after a crash.
FileTrue ==
    \A i \in Items :
        /\ saved.completedBy[i] # None => i \in merged \cup GivesUp
        /\ saved.syncedAt[i] > 0 =>
              /\ Dependencies[i] \ saved.deps[i] \subseteq merged
              /\ \A k \in Dependencies[i] : saved.syncedAt[k] > 0 \/ k \in merged \cup GivesUp

-----------------------------------------------------------------------------
(* What is true stays true. *)

\* News does not age.
LEMMA NewsStays ==
  ASSUME NEW m, NEW known, NEW later, known \subseteq later
  PROVE  /\ True(m, known) => True(m, later)
         /\ AnswerTrue(m, known) => AnswerTrue(m, later)
  BY DEF True, AnswerTrue, Startable

\* What the broker knows stays true while it learns nothing.
LEMMA BrokerStays ==
  ASSUME BrokerTrue, UNCHANGED <<syncedAt, deps, completedBy>>, merged \subseteq merged'
  PROVE  BrokerTrue'
  BY DEF BrokerTrue

\* So do the messages, while each is one that was there or is true.
LEMMA MessagesStay ==
  ASSUME MessagesTrue, merged \subseteq merged',
         \A d \in Daemons : \A n \in DOMAIN toBroker'[d] :
            True(toBroker'[d][n], merged')
            \/ \E k \in DOMAIN toBroker[d] : toBroker'[d][n] = toBroker[d][k],
         \A d \in Daemons : \A n \in DOMAIN toClient'[d] :
            AnswerTrue(toClient'[d][n], merged')
            \/ \E k \in DOMAIN toClient[d] : toClient'[d][n] = toClient[d][k]
  PROVE  MessagesTrue'
  <1>1. ASSUME NEW d \in Daemons, NEW n \in DOMAIN toBroker'[d]
        PROVE  True(toBroker'[d][n], merged')
    BY NewsStays DEF MessagesTrue
  <1>2. ASSUME NEW d \in Daemons, NEW n \in DOMAIN toClient'[d]
        PROVE  AnswerTrue(toClient'[d][n], merged')
    <2>1. ASSUME NEW k \in DOMAIN toClient[d] PROVE AnswerTrue(toClient[d][k], merged')
      <3>1. AnswerTrue(toClient[d][k], merged)
        BY DEF MessagesTrue
      <3> QED
        BY <3>1, NewsStays
    <2> QED
      BY <1>2, <2>1
  <1> QED
    BY <1>1, <1>2 DEF MessagesTrue

\* A claim that nobody waits for any more says nothing either.
LEMMA OrphanedStaysTrue ==
  ASSUME NEW m \in Messages, NEW known, True(m, known)
  PROVE  True(Orphaned(m), known)
  <1>1. CASE m \in [type: {"claim"}, awaited: BOOLEAN]
    BY <1>1 DEF Orphaned, True
  <1>2. CASE m.type # "claim"
    BY <1>2 DEF Orphaned
  <1> QED
    BY <1>1, <1>2 DEF Messages, SyncMessages

\* The broker offers an item only when all it depends on is merged.
LEMMA OfferedIsStartable ==
  ASSUME NeededNeverGivenUp, BrokerTrue, NEW d \in Daemons, NEW i \in Offered(d)
  PROVE  Startable(i, merged)
  <1>1. i \in Items /\ i \in Known /\ \A k \in deps[i] \cap Known : Completed(k)
    BY DEF Offered, Available, Known
  <1>2. ASSUME NEW k \in Dependencies[i] PROVE k \in merged
    <2>1. k \in Items /\ k \notin GivesUp
      BY <1>1, DependenciesAssumption DEF NeededNeverGivenUp
    <2>2. CASE k \notin deps[i]
      BY <1>1, <2>2 DEF BrokerTrue, Known
    <2>3. CASE syncedAt[k] > 0 /\ k \in deps[i]
      BY <1>1, <2>1, <2>3 DEF BrokerTrue, Known, Completed
    <2>4. CASE ~ (syncedAt[k] > 0)
      BY <1>1, <2>1, <2>4 DEF BrokerTrue, Known
    <2> QED
      BY <2>2, <2>3, <2>4
  <1> QED
    BY <1>2 DEF Startable

-----------------------------------------------------------------------------
(* Each step keeps the invariant. *)

\* The sockets carry no news.
LEMMA SocketsTrue ==
  ASSUME AllTrue, Queues, NEW e \in Daemons, Sockets(e)
  PROVE  AllTrue'
  <1> USE DEF socketVars, loopVars
  <1>1. UNCHANGED <<work, granted, merged>>
    BY DEF Sockets, Connect, Drop, SocketClosed, HeartbeatTimeout, Stall, GraceExpired
  <1>2. UNCHANGED <<syncedAt, deps, completedBy>>
    BY DEF Sockets, Connect, Drop, SocketClosed, HeartbeatTimeout, Stall, GraceExpired,
           ConnectDaemon, DisconnectDaemon, ReleaseDaemonWorkItems, brokerVars, itemVars
  <1>3. \A d \in Daemons : /\ toBroker'[d] = toBroker[d] \/ toBroker'[d] = <<>>
                           /\ toClient'[d] = toClient[d] \/ toClient'[d] = <<>>
    BY DEF Queues, Sockets, Connect, Drop, SocketClosed, HeartbeatTimeout, Stall, GraceExpired
  <1>4. MessagesTrue'
    BY <1>1, <1>3, MessagesStay DEF AllTrue
  <1> QED
    BY <1>1, <1>2, <1>4, BrokerStays DEF AllTrue, WorkTrue

\* A daemon says what it knows.
LEMMA LoopTrue ==
  ASSUME AllTrue, Queues, Loops, NEW e \in Daemons, Loop(e)
  PROVE  AllTrue'
  <1>1. merged \subseteq merged'
    BY DEF Loop, Sync, Claim, ClaimTimeout, ClaimResponse, Launch, Merge, GiveUp, Forget
  <1>2. BrokerTrue'
    BY <1>1, LoopSteps, BrokerStays DEF AllTrue, brokerVars, itemVars
  <1>3. ASSUME UNCHANGED toClient, NEW m \in Messages, True(m, merged'),
               toBroker' = Sent(e, m)
        PROVE  MessagesTrue'
    <2>1. \A n \in DOMAIN toBroker'[e] :
             \/ toBroker'[e][n] = m
             \/ (n \in DOMAIN toBroker[e] /\ toBroker'[e][n] = toBroker[e][n])
      <3>1. toBroker'[e] = toBroker[e] \/ toBroker'[e] = Append(toBroker[e], m)
        BY <1>3 DEF Sent, Queues
      <3>2. toBroker[e] \in Seq(Messages)
        BY DEF Queues
      <3>3. \A n \in DOMAIN Append(toBroker[e], m) :
               \/ Append(toBroker[e], m)[n] = m
               \/ (n \in DOMAIN toBroker[e] /\ Append(toBroker[e], m)[n] = toBroker[e][n])
        BY <1>3, <3>2, Appended
      <3> QED
        BY <3>1, <3>3
    <2>2. \A d \in Daemons : d # e => toBroker'[d] = toBroker[d]
      BY <1>3 DEF Sent, Queues
    <2> QED
      BY <1>1, <1>3, <2>1, <2>2, MessagesStay DEF AllTrue
  <1>4. ASSUME UNCHANGED <<toClient, toBroker>> PROVE MessagesTrue'
    BY <1>1, <1>4, MessagesStay DEF AllTrue
  <1>5. ASSUME UNCHANGED granted, NEW k \in Items,
               NEW s \in {"untracked", "done", "stuck"}, work' = [work EXCEPT ![e][k] = s],
               s = "stuck" => k \in GivesUp, s # "stuck" => k \in merged'
        PROVE  WorkTrue'
    <2>1. ASSUME NEW d \in Daemons, NEW i \in Items
          PROVE  work'[d][i] = work[d][i] \/ (i = k /\ work'[d][i] = s)
      BY <1>5 DEF Loops
    <2> QED
      BY <1>1, <1>5, <2>1 DEF AllTrue, WorkTrue, Startable
  <1>6. CASE Sync(e)
    <2> DEFINE m == [type |-> "sync", listed |-> Listed(e), tracked |-> Tracked(e)]
    <2>1. m \in Messages
      BY DEF Messages, SyncMessages, Listed, Tracked
    <2>2. Items \ Listed(e) \subseteq merged \cup GivesUp /\ Items \ Tracked(e) \subseteq merged
      <3>1. \A i \in Items : work[e][i] \in {"untracked", "open", "running", "done", "stuck"}
        BY DEF Loops
      <3> QED
        BY <3>1 DEF AllTrue, WorkTrue, Listed, Tracked
    <2>3. True(m, merged)
      BY <2>2 DEF True
    <2> QED
      BY <1>2, <1>3, <1>6, <2>1, <2>3 DEF Sync, AllTrue, WorkTrue, loopVars
  <1>7. CASE Claim(e)
    <2> DEFINE m == [type |-> "claim", awaited |-> TRUE]
    <2>1. m \in Messages /\ True(m, merged)
      BY DEF Messages, True
    <2> QED
      BY <1>2, <1>3, <1>7, <2>1 DEF Claim, AllTrue, WorkTrue, loopVars
  <1>8. CASE ClaimTimeout(e)
    <2>1. ASSUME NEW d \in Daemons, NEW n \in DOMAIN toBroker'[d]
          PROVE  True(toBroker'[d][n], merged)
      <3>1. toBroker'[d][n] = toBroker[d][n] \/ toBroker'[d][n] = Orphaned(toBroker[d][n])
        BY <1>8, <2>1 DEF ClaimTimeout, Queues
      <3>2. n \in DOMAIN toBroker[d]
        BY <1>8, <2>1 DEF ClaimTimeout, Queues
      <3>3. toBroker[d][n] \in Messages /\ True(toBroker[d][n], merged)
        BY <3>2, LenProperties DEF Queues, AllTrue, MessagesTrue
      <3> QED
        BY <3>1, <3>3, OrphanedStaysTrue
    <2>2. ASSUME NEW d \in Daemons, NEW n \in DOMAIN toClient'[d]
          PROVE  AnswerTrue(toClient'[d][n], merged)
      <3>1. /\ n \in DOMAIN toClient[d]
            /\ \/ toClient'[d][n] = toClient[d][n]
               \/ toClient'[d][n] = [toClient[d][n] EXCEPT !.awaited = FALSE]
        BY <1>8, <2>2 DEF ClaimTimeout, Queues
      <3>2. toClient[d][n] \in Answers /\ AnswerTrue(toClient[d][n], merged)
        BY <3>1, LenProperties DEF Queues, AllTrue, MessagesTrue
      <3>3. GrantedBy([toClient[d][n] EXCEPT !.awaited = FALSE]) = {}
        BY <3>2 DEF GrantedBy, Answers
      <3> QED
        BY <3>1, <3>2, <3>3 DEF AnswerTrue
    <2>3. MessagesTrue'
      BY <1>8, <2>1, <2>2 DEF ClaimTimeout, MessagesTrue
    <2> QED
      BY <1>2, <1>8, <2>3 DEF ClaimTimeout, AllTrue, WorkTrue, loopVars
  <1>9. CASE ClaimResponse(e)
    <2> DEFINE answer == Head(toClient[e])
    <2>1. AnswerTrue(answer, merged)
      BY <1>9, Tailed DEF ClaimResponse, Queues, AllTrue, MessagesTrue
    <2>2. MessagesTrue'
      <3>1. \A n \in DOMAIN toClient'[e] :
               n + 1 \in DOMAIN toClient[e] /\ toClient'[e][n] = toClient[e][n + 1]
        BY <1>9, Tailed DEF ClaimResponse, Queues
      <3>2. \A d \in Daemons : d # e => toClient'[d] = toClient[d]
        BY <1>9 DEF ClaimResponse, Queues
      <3>3. UNCHANGED toBroker
        BY <1>9 DEF ClaimResponse
      <3> QED
        BY <1>1, <3>1, <3>2, <3>3, MessagesStay DEF AllTrue
    <2>3. \A d \in Daemons : \A i \in granted'[d] : i \in granted[d] \/ i \in GrantedBy(answer)
      BY <1>9 DEF ClaimResponse, Loops
    <2>4. UNCHANGED <<work, merged>>
      BY <1>9 DEF ClaimResponse
    <2>5. WorkTrue'
      BY <2>1, <2>3, <2>4 DEF AllTrue, WorkTrue, AnswerTrue
    <2> QED
      BY <1>2, <2>2, <2>5 DEF AllTrue
  <1>10. CASE Launch(e)
    <2>1. ASSUME NEW d \in Daemons, NEW i \in Items
          PROVE  work'[d][i] = work[d][i] \/ work'[d][i] = "running"
      BY <1>10 DEF Launch, Loops
    <2>2. ASSUME NEW d \in Daemons PROVE granted'[d] \subseteq granted[d]
      BY <1>10 DEF Launch, Loops
    <2>3. UNCHANGED <<toBroker, toClient, merged>>
      BY <1>10 DEF Launch, socketVars
    <2> QED
      BY <1>2, <1>4, <2>1, <2>2, <2>3 DEF AllTrue, WorkTrue
  <1>11. ASSUME NEW k \in Items, Merge(e, k) PROVE AllTrue'
    <2>1. k \in merged' /\ work' = [work EXCEPT ![e][k] = "done"] /\ granted' = granted
      BY <1>11 DEF Merge
    <2> DEFINE m == [type |-> "complete", item |-> k]
    <2>2. m \in Messages /\ True(m, merged')
      BY <2>1 DEF Messages, True
    <2>3. MessagesTrue'
      BY <1>3, <1>11, <2>2 DEF Merge
    <2> QED
      BY <1>2, <1>5, <2>1, <2>3 DEF AllTrue
  <1>12. ASSUME NEW k \in Items, GiveUp(e, k) \/ Forget(e, k) PROVE AllTrue'
    <2>1. UNCHANGED <<toBroker, toClient, granted>>
      BY <1>12 DEF GiveUp, Forget, socketVars
    <2>2. WorkTrue'
      <3>1. CASE GiveUp(e, k)
        BY <1>5, <2>1, <3>1 DEF GiveUp
      <3>2. CASE Forget(e, k)
        BY <1>5, <2>1, <3>2 DEF Forget
      <3> QED
        BY <1>12, <3>1, <3>2
    <2> QED
      BY <1>2, <1>4, <2>1, <2>2 DEF AllTrue
  <1> QED
    BY <1>6, <1>7, <1>8, <1>9, <1>10, <1>11, <1>12 DEF Loop
\* The broker learns what the message says, and grants what it may.
LEMMA MessageTrue ==
  ASSUME NeededNeverGivenUp, AllTrue, IInv, Queues, NEW e \in Daemons, HandleMessage(e)
  PROVE  AllTrue'
  <1> DEFINE m == Head(toBroker[e])
  <1>1. \E type : Received(e, type)
    BY DEF HandleMessage, HandleSync, HandleClaim, HandleClaimOfNone, HandleComplete,
           HandleCompleteRefused
  <1>2. UNCHANGED <<work, granted, merged>>
    BY <1>1 DEF Received, loopVars
  <1>3. /\ m \in Messages /\ True(m, merged)
        /\ \A n \in DOMAIN toBroker'[e] :
              n + 1 \in DOMAIN toBroker[e] /\ toBroker'[e][n] = toBroker[e][n + 1]
    BY <1>1, Tailed DEF Received, Queues, AllTrue, MessagesTrue
  <1>4. \A d \in Daemons : d # e => toBroker'[d] = toBroker[d] /\ toClient'[d] = toClient[d]
    BY DEF HandleMessage, HandleSync, HandleClaim, HandleClaimOfNone, HandleComplete,
           HandleCompleteRefused, Received, Answered, Queues
  <1>5. ASSUME NEW n \in DOMAIN toClient'[e]
        PROVE  \/ AnswerTrue(toClient'[e][n], merged)
               \/ \E k \in DOMAIN toClient[e] : toClient'[e][n] = toClient[e][k]
    <2>1. ASSUME NEW item \in Items \cup {None}, Answered(e, item), m.awaited \in BOOLEAN,
                 item = None \/ Startable(item, merged)
          PROVE  \/ AnswerTrue(toClient'[e][n], merged)
                 \/ \E k \in DOMAIN toClient[e] : toClient'[e][n] = toClient[e][k]
      <3> DEFINE answer == [awaited |-> m.awaited, item |-> item]
      <3>1. answer \in Answers /\ AnswerTrue(answer, merged)
        BY <2>1 DEF Answers, AnswerTrue, GrantedBy
      <3>2. toClient'[e] = Append(toClient[e], answer)
        BY <2>1 DEF Answered, Queues
      <3>3. toClient'[e][n] = answer \/ (n \in DOMAIN toClient[e] /\ toClient'[e][n] = toClient[e][n])
        BY <3>1, <3>2, Appended DEF Queues
      <3> QED
        BY <3>1, <3>3
    <2>2. CASE toClient' = toClient
      BY <2>2
    <2>3. ASSUME Received(e, "claim") PROVE m.awaited \in BOOLEAN
      <3>1. m \in Messages /\ m.type = "claim"
        BY <2>3, ReceivedMessage
      <3> QED
        BY <3>1 DEF Messages, SyncMessages
    <2>4. CASE HandleClaim(e)
      <3>1. PICK i \in Items : ClaimNextWorkItem(e, i) /\ Answered(e, i)
        BY <2>4 DEF HandleClaim
      <3>2. Startable(i, merged)
        BY <3>1, OfferedIsStartable DEF ClaimNextWorkItem, AllTrue
      <3> QED
        BY <2>1, <2>3, <2>4, <3>1, <3>2 DEF HandleClaim
    <2>5. CASE HandleClaimOfNone(e)
      BY <2>1, <2>3, <2>5 DEF HandleClaimOfNone
    <2> QED
      BY <2>2, <2>4, <2>5 DEF HandleMessage, HandleSync, HandleComplete, HandleCompleteRefused
  <1>6. MessagesTrue'
    <2>1. ASSUME NEW d \in Daemons, NEW n \in DOMAIN toBroker'[d]
          PROVE  \E k \in DOMAIN toBroker[d] : toBroker'[d][n] = toBroker[d][k]
      BY <1>3, <1>4
    <2>2. ASSUME NEW d \in Daemons, NEW n \in DOMAIN toClient'[d]
          PROVE  \/ AnswerTrue(toClient'[d][n], merged')
                 \/ \E k \in DOMAIN toClient[d] : toClient'[d][n] = toClient[d][k]
      BY <1>2, <1>4, <1>5
    <2> QED
      BY <1>2, <2>1, <2>2, MessagesStay DEF AllTrue
  <1>7. BrokerTrue'
    <2>1. CASE HandleSync(e)
      <3>1. m.type = "sync" /\ m.listed \subseteq Items
        BY <1>3, <2>1, ReceivedMessage DEF HandleSync, Messages, SyncMessages
      <3>2. Items \ m.listed \subseteq merged \cup GivesUp /\ Items \ m.tracked \subseteq merged
        BY <1>3, <3>1 DEF True
      <3>3. SyncCrewItems(e, m.listed, m.tracked)
        BY <2>1 DEF HandleSync
      <3>4. ASSUME NEW k \in Items PROVE syncedAt'[k] > 0 <=> syncedAt[k] > 0 \/ k \in m.listed
        BY <3>1, <3>3 DEF SyncCrewItems, New, Known, IInv, Typed
      <3>5. ASSUME NEW i \in Items, completedBy'[i] # None PROVE i \in merged \cup GivesUp
        BY <3>2, <3>3, <3>5 DEF SyncCrewItems, ReconcileDropped, Dropped, AllTrue, BrokerTrue
      <3>6. ASSUME NEW i \in Items, syncedAt'[i] > 0
            PROVE  /\ Dependencies[i] \ deps'[i] \subseteq merged
                   /\ \A k \in Dependencies[i] : syncedAt'[k] > 0 \/ k \in merged \cup GivesUp
        <4>1. Dependencies[i] \subseteq Items
          BY DependenciesAssumption
        <4>2. CASE i \in m.listed
          BY <3>2, <3>3, <3>4, <4>1, <4>2 DEF SyncCrewItems
        <4>3. CASE i \notin m.listed
          <5>1. deps'[i] = deps[i] /\ syncedAt[i] > 0
            BY <3>3, <3>4, <3>6, <4>3 DEF SyncCrewItems
          <5> QED
            BY <3>4, <4>1, <5>1 DEF AllTrue, BrokerTrue
        <4> QED
          BY <4>2, <4>3
      <3> QED
        BY <1>2, <3>5, <3>6 DEF BrokerTrue
    <2>2. CASE HandleComplete(e)
      <3>1. m.type = "complete" /\ m.item \in merged
        BY <1>3, <2>2, ReceivedMessage DEF HandleComplete, True
      <3>2. CompleteWorkItem(e, m.item)
        BY <2>2 DEF HandleComplete
      <3> QED
        BY <1>2, <3>1, <3>2 DEF CompleteWorkItem, AllTrue, BrokerTrue
    <2>3. CASE HandleClaim(e) \/ HandleClaimOfNone(e) \/ HandleCompleteRefused(e)
      <3>1. UNCHANGED <<syncedAt, deps, completedBy>>
        BY <2>3 DEF HandleClaim, HandleClaimOfNone, HandleCompleteRefused, ClaimNextWorkItem,
                    brokerVars, itemVars
      <3> QED
        BY <1>2, <3>1, BrokerStays DEF AllTrue
    <2> QED
      BY <2>1, <2>2, <2>3 DEF HandleMessage
  <1> QED
    BY <1>2, <1>6, <1>7 DEF AllTrue, WorkTrue

\* Every step keeps the invariant.
LEMMA CrewStepTrue ==
  ASSUME NeededNeverGivenUp, AllTrue, FileTrue, IInv, Queues, Loops, [Next]_vars
  PROVE  AllTrue'
  <1>1. CASE UNCHANGED vars
    BY <1>1, BrokerStays DEF vars, socketVars, loopVars, brokerVars, itemVars,
                             AllTrue, WorkTrue, MessagesTrue
  <1>2. CASE Save \/ BrokerRestart
    <2>1. UNCHANGED <<work, granted, merged>>
      BY <1>2 DEF Save, BrokerRestart, loopVars
    <2>2. \A d \in Daemons : /\ toBroker'[d] = toBroker[d] \/ toBroker'[d] = <<>>
                             /\ toClient'[d] = toClient[d] \/ toClient'[d] = <<>>
      BY <1>2 DEF Save, BrokerRestart, socketVars
    <2>3. MessagesTrue'
      BY <2>1, <2>2, MessagesStay DEF AllTrue
    <2>4. CASE Save
      BY <2>1, <2>3, <2>4, BrokerStays DEF Save, SaveCrew, itemVars, AllTrue, WorkTrue
    <2>5. CASE BrokerRestart
      <3>1. /\ syncedAt' = saved.syncedAt /\ deps' = saved.deps
            /\ completedBy' = saved.completedBy
        BY <2>5 DEF BrokerRestart, Restart
      <3>2. BrokerTrue'
        BY <2>1, <3>1 DEF BrokerTrue, FileTrue
      <3> QED
        BY <2>1, <2>3, <3>2 DEF AllTrue, WorkTrue
    <2> QED
      BY <1>2, <2>4, <2>5
  <1> QED
    BY <1>1, <1>2, SocketsTrue, LoopTrue, MessageTrue DEF Next

\* So does the file: it is written from a true state, and truth does not age.
LEMMA FileStepTrue ==
  ASSUME Queues, AllTrue, FileTrue, [Next]_vars
  PROVE  FileTrue'
  <1>1. merged \subseteq merged'
    BY ZenonT(60) DEF Next, vars, Save, BrokerRestart, Sockets, Connect, Drop, SocketClosed, HeartbeatTimeout,
           Stall, GraceExpired, Loop, Sync, Claim, ClaimTimeout, ClaimResponse, Launch, Merge, GiveUp,
           Forget, HandleMessage, HandleSync, HandleClaim, HandleClaimOfNone, HandleComplete,
           HandleCompleteRefused, Received
  <1>2. CASE Save
    BY <1>1, <1>2 DEF Save, SaveCrew, Serialized, FileTrue, AllTrue, BrokerTrue
  <1>3. CASE UNCHANGED saved
    BY <1>1, <1>3 DEF FileTrue
  <1>4. ASSUME NEW d \in Daemons, Sockets(d) \/ Loop(d) \/ HandleMessage(d)
        PROVE  UNCHANGED saved
    <2>1. CASE Sockets(d)
      BY <2>1 DEF Sockets, Connect, Drop, SocketClosed, HeartbeatTimeout, Stall, GraceExpired,
                  ConnectDaemon, DisconnectDaemon, ReleaseDaemonWorkItems, brokerVars
    <2>2. CASE Loop(d)
      BY <2>2, LoopSteps DEF brokerVars
    <2>3. CASE HandleMessage(d)
      BY <2>3 DEF HandleMessage, HandleSync, HandleClaim, HandleClaimOfNone, HandleComplete,
                  HandleCompleteRefused, SyncCrewItems, ClaimNextWorkItem, CompleteWorkItem, brokerVars
    <2> QED
      BY <1>4, <2>1, <2>2, <2>3
  <1>5. BrokerRestart \/ UNCHANGED vars => UNCHANGED saved
    BY DEF BrokerRestart, Restart, vars, brokerVars
  <1> QED
    BY <1>2, <1>3, <1>4, <1>5 DEF Next

\* An item is started only by Launch, and was granted.
LEMMA StartsInOrder ==
  ASSUME AllTrue, Loops, [Next]_vars, NEW d \in Daemons, NEW i \in Items,
         work[d][i] = "open", work'[d][i] = "running"
  PROVE  Dependencies[i] \subseteq merged
  <1>1. work' # work
    OBVIOUS
  <1>2. PICK e \in Daemons : Loop(e)
    BY <1>1 DEF Next, vars, loopVars, Sockets, Connect, Drop, SocketClosed, HeartbeatTimeout,
                Stall, GraceExpired, BrokerRestart, Save, HandleMessage, HandleSync, HandleClaim,
                HandleClaimOfNone, HandleComplete, HandleCompleteRefused, Received
  <1>3. ASSUME NEW k \in Items, NEW s \in {"untracked", "done", "stuck"},
               work' = [work EXCEPT ![e][k] = s]
        PROVE  FALSE
    BY <1>3 DEF Loops
  <1>4. Launch(e)
    <2>1. ~ (\E k \in Items : Merge(e, k) \/ GiveUp(e, k) \/ Forget(e, k))
      BY <1>3 DEF Merge, GiveUp, Forget
    <2> QED
      BY <1>1, <1>2, <2>1 DEF Loop, Sync, Claim, ClaimTimeout, ClaimResponse, loopVars
  <1>5. i \in granted[d]
    BY <1>4 DEF Launch, Loops
  <1> QED
    BY <1>5 DEF AllTrue, WorkTrue, Startable

\* If no item that others depend on is given up, no daemon starts an item before
\* all it depends on is merged, however messages are lost or late, daemons come
\* and go, and the broker restarts.
THEOREM DependenciesAlwaysFirst ==
  ASSUME NeededNeverGivenUp
  PROVE  Spec => DependenciesFirst
  <1>1. Init => AllTrue /\ FileTrue
    BY DEF Init, BrokerInit, AllTrue, WorkTrue, MessagesTrue, BrokerTrue, FileTrue, Serialized
  <1>2. IInv /\ Queues /\ CInv /\ AllTrue /\ FileTrue /\ [Next]_vars => (AllTrue /\ FileTrue)'
    BY CrewStepTrue, FileStepTrue DEF CInv
  <1>3. Spec => []IInv
    BY CrewIsBroker, BrokerInvariant, PTL
  <1> DEFINE Starts == \A d \in Daemons : \A i \in Items :
        work[d][i] = "open" /\ work'[d][i] = "running" => Dependencies[i] \subseteq merged
  <1>4. CInv /\ AllTrue /\ [Next]_vars => [Starts]_vars
    BY StartsInOrder DEF CInv
  <1> QED
    BY <1>1, <1>2, <1>3, <1>4, CrewFollows, QueuesTyped, PTL DEF Spec, DependenciesFirst

-----------------------------------------------------------------------------
(* What the peers hear.  A daemon that the broker hears and that hears the   *)
(* broker has the owners of all items last in its queue, or has heard them.  *)

Owners == [Shared -> Daemons \cup {None}]
Stages == {"open", "running", "approved", "merging", "done"}

PeersTyped ==
    /\ owner \in Owners /\ written.owner \in Owners
    /\ updates \in [Daemons -> Seq(Owners)]
    /\ heard \in [Daemons -> Owners]
    /\ knows \in [Daemons -> SUBSET Shared]
    /\ doing \in [Daemons -> [Shared -> Stages]]
    /\ syncing \subseteq attached /\ attached \subseteq sharing

InTouch(d) == d \in attached /\ d \in hearing

\* What is under way ends with the owners as they are.
Latest(d) == updates[d] # <<>> => updates[d][Len(updates[d])] = owner

\* Nothing is under way: what was heard last is so.
UpToDate(d) == Current(d) => heard[d] = Parsed(d, owner)

PeersInv == PeersTyped /\ \A d \in Daemons : InTouch(d) => Latest(d) /\ UpToDate(d)

\* Queues that were extended by a broadcast.
LEMMA BroadcastSent ==
  ASSUME NEW d \in Daemons, NEW messages \in [Daemons -> Seq(Owners)], owner' \in Owners,
         updates' = Broadcast(d, messages)
  PROVE  /\ updates' \in [Daemons -> Seq(Owners)]
         /\ \A e \in Daemons : InTouch(e)' => /\ updates'[e] # <<>>
                                             /\ updates'[e][Len(updates'[e])] = owner'
  <1>1. \A e \in Daemons : updates'[e] = IF e \in hearing' \cap attached'
                                         THEN Append(messages[e], owner') ELSE messages[e]
    BY DEF Broadcast, StatusUpdate
  <1>2. ASSUME NEW e \in Daemons
        PROVE  /\ Append(messages[e], owner') \in Seq(Owners)
               /\ Append(messages[e], owner') # <<>>
               /\ LET s == Append(messages[e], owner') IN s[Len(s)] = owner'
    <2>1. messages[e] \in Seq(Owners)
      OBVIOUS
    <2> QED
      BY <2>1, AppendProperties
  <1>3. updates' \in [Daemons -> Seq(Owners)]
    <2>1. \A e \in Daemons : updates'[e] \in Seq(Owners)
      BY <1>1, <1>2
    <2> QED
      BY <2>1 DEF Broadcast
  <1>4. ASSUME NEW e \in Daemons, InTouch(e)'
        PROVE  updates'[e] # <<>> /\ updates'[e][Len(updates'[e])] = owner'
    <2>1. updates'[e] = Append(messages[e], owner')
      BY <1>1, <1>4 DEF InTouch
    <2> QED
      BY <1>2, <2>1
  <1> QED
    BY <1>3, <1>4

\* A step that ends in a broadcast tells all who are in touch.
LEMMA SendingKeeps ==
  ASSUME NEW d \in Daemons, NEW messages \in [Daemons -> Seq(Owners)],
         updates' = Broadcast(d, messages),
         owner' \in Owners, written'.owner \in Owners, heard' \in [Daemons -> Owners],
         knows' \in [Daemons -> SUBSET Shared], doing' \in [Daemons -> [Shared -> Stages]],
         syncing' \subseteq attached', attached' \subseteq sharing'
  PROVE  PeersInv'
  <1>1. /\ updates' \in [Daemons -> Seq(Owners)]
        /\ \A e \in Daemons : InTouch(e)' => /\ updates'[e] # <<>>
                                            /\ updates'[e][Len(updates'[e])] = owner'
    BY BroadcastSent
  <1> QED
    BY <1>1 DEF PeersInv, PeersTyped, Latest, UpToDate, Current

\* Who is in touch was so, and has been told nothing and has heard nothing.
Undisturbed(e) ==
    InTouch(e)' => /\ InTouch(e) /\ owner' = owner
                   /\ updates'[e] = updates[e] /\ heard'[e] = heard[e]
                   /\ Current(e)' => Current(e)

\* A step that tells nobody leaves the owners and what was heard to those who stay in touch.
LEMMA QuietKeeps ==
  ASSUME PeersInv, PeersTyped', \A e \in Daemons : Undisturbed(e)
  PROVE  PeersInv'
  <1>1. ASSUME NEW e \in Daemons, InTouch(e)'
        PROVE  Latest(e)' /\ UpToDate(e)'
    <2>1. /\ Latest(e) /\ UpToDate(e) /\ owner' = owner
          /\ updates'[e] = updates[e] /\ heard'[e] = heard[e] /\ (Current(e)' => Current(e))
      BY <1>1 DEF PeersInv, Undisturbed
    <2>2. Parsed(e, owner)' = Parsed(e, owner)
      BY <2>1 DEF Parsed
    <2> QED
      BY <2>1, <2>2 DEF Latest, UpToDate
  <1> QED
    BY <1>1 DEF PeersInv

\* The board's owners, whoever changes them.
LEMMA OwnersTyped ==
  ASSUME PeersTyped, NEW d \in Daemons
  PROVE  /\ P!Return(d) \/ P!Leave(d) \/ P!Write => owner' = owner /\ written'.owner \in Owners
         /\ P!GiveBack(d) \/ P!Repost(d) \/ P!Take(d) \/ P!Finish(d)
              => owner' \in Owners /\ written'.owner \in Owners
         /\ P!Crash => owner' \in Owners /\ written'.owner \in Owners
  <1>1. P!Return(d) \/ P!Leave(d) \/ P!Write => owner' = owner /\ written'.owner \in Owners
    BY DEF PeersTyped, P!Return, P!Leave, P!Write, P!board
  <1>2. P!GiveBack(d) => owner' \in Owners /\ written'.owner \in Owners
    BY DEF PeersTyped, P!GiveBack, Owners
  <1>3. P!Repost(d) => owner' \in Owners /\ written'.owner \in Owners
    BY DEF PeersTyped, P!Repost, Owners
  <1>4. P!Take(d) => owner' \in Owners /\ written'.owner \in Owners
    BY DEF PeersTyped, P!Take, P!Untaken, P!Posted, Owners
  <1>5. P!Finish(d) => owner' \in Owners /\ written'.owner \in Owners
    BY DEF PeersTyped, P!Finish, Owners
  <1>6. P!Crash => owner' \in Owners /\ written'.owner \in Owners
    BY DEF PeersTyped, P!Crash
  <1> QED
    BY <1>1, <1>2, <1>3, <1>4, <1>5, <1>6

\* What a daemon does with an item.
LEMMA DoTyped ==
  ASSUME PeersTyped, NEW d \in Daemons, NEW i \in Shared, NEW stage \in Stages, Do(d, i, stage)
  PROVE  doing' \in [Daemons -> [Shared -> Stages]]
  BY DEF PeersTyped, Do

\* Queues that were emptied.
LEMMA QuietedTyped ==
  ASSUME PeersTyped, NEW d \in Daemons
  PROVE  /\ Quieted(d) \in [Daemons -> Seq(Owners)]
         /\ \A e \in Daemons \ {d} : Quieted(d)[e] = updates[e]
  <1>1. <<>> \in Seq(Owners)
    OBVIOUS
  <1> QED
    BY <1>1 DEF PeersTyped, Quieted

\* Sockets come and go, and daemons share or do not.
LEMMA PeerSocketsKeep ==
  ASSUME PeersInv, NEW d \in Daemons,
         Attach(d) \/ LoseSocket(d) \/ CountAsGone(d) \/ ReleaseClaims(d) \/ GoLocal(d) \/ Share(d)
  PROVE  PeersInv'
  <1>1. PeersTyped
    BY DEF PeersInv
  <1>2. CASE Attach(d)
    <2>1. /\ updates' = Broadcast(d, Quieted(d)) /\ attached' = attached \cup {d}
          /\ d \in sharing /\ P!Return(d)
          /\ UNCHANGED <<sharing, syncing, heard, knows, doing>>
      BY <1>2 DEF Attach
    <2>2. owner' = owner /\ written'.owner \in Owners
      BY <1>1, <2>1, OwnersTyped
    <2>3. Quieted(d) \in [Daemons -> Seq(Owners)]
      BY <1>1, QuietedTyped
    <2> QED
      BY <1>1, <2>1, <2>2, <2>3, SendingKeeps DEF PeersTyped
  <1>3. CASE LoseSocket(d) \/ GoLocal(d)
    <2>1. /\ updates' = Quieted(d) /\ attached' = attached \ {d} /\ syncing' = syncing \ {d}
          /\ sharing' \in {sharing, sharing \ {d}}
          /\ UNCHANGED <<owner, written, hearing, heard, knows, doing>>
      BY <1>3 DEF LoseSocket, GoLocal, boardState
    <2>2. PeersTyped'
      BY <1>1, <2>1, QuietedTyped DEF PeersTyped
    <2>3. \A e \in Daemons : InTouch(e)' => e # d /\ InTouch(e)
      BY <2>1 DEF InTouch
    <2>4. \A e \in Daemons \ {d} : updates'[e] = updates[e]
      BY <1>1, <2>1, QuietedTyped
    <2>5. \A e \in Daemons : InTouch(e)' => (Current(e)' => Current(e))
      BY <2>1, <2>3, <2>4 DEF Current, InTouch
    <2> QED
      BY <2>1, <2>2, <2>3, <2>4, <2>5, QuietKeeps DEF Undisturbed
  <1>4. CASE CountAsGone(d)
    <2>1. /\ hearing' = hearing \ {d} /\ P!Leave(d)
          /\ UNCHANGED <<sharing, attached, syncing, heard, knows, updates, doing>>
      BY <1>4 DEF CountAsGone
    <2>2. owner' = owner /\ written'.owner \in Owners
      BY <1>1, <2>1, OwnersTyped
    <2>3. PeersTyped'
      BY <1>1, <2>1, <2>2 DEF PeersTyped
    <2>4. \A e \in Daemons : InTouch(e)' => InTouch(e) /\ (Current(e)' => Current(e))
      BY <2>1 DEF InTouch, Current
    <2> QED
      BY <2>1, <2>2, <2>3, <2>4, QuietKeeps DEF Undisturbed
  <1>5. CASE ReleaseClaims(d)
    <2>1. /\ updates' = Broadcast(d, updates) /\ P!GiveBack(d)
          /\ UNCHANGED <<sharing, attached, syncing, heard, knows, doing>>
      BY <1>5 DEF ReleaseClaims, clientState
    <2>2. owner' \in Owners /\ written'.owner \in Owners
      BY <1>1, <2>1, OwnersTyped
    <2> QED
      BY <1>1, <2>1, <2>2, SendingKeeps DEF PeersTyped
  <1>6. CASE Share(d)
    <2>1. /\ sharing' = sharing \cup {d} /\ d \notin attached
          /\ heard' = [heard EXCEPT ![d] = [i \in Shared |-> None]]
          /\ knows' = [knows EXCEPT ![d] = {}]
          /\ UNCHANGED <<owner, written, attached, hearing, syncing, updates, doing>>
      BY <1>1, <1>6 DEF Share, boardState, PeersTyped
    <2>2. PeersTyped'
      BY <1>1, <2>1 DEF PeersTyped, Owners
    <2>3. \A e \in Daemons : InTouch(e)' => InTouch(e) /\ e # d
      BY <2>1 DEF InTouch
    <2>4. \A e \in Daemons \ {d} : heard'[e] = heard[e] /\ knows'[e] = knows[e]
      BY <1>1, <2>1 DEF PeersTyped
    <2>5. \A e \in Daemons : InTouch(e)' => (Current(e)' => Current(e))
      BY <2>1, <2>3, <2>4 DEF Current
    <2> QED
      BY <2>1, <2>2, <2>3, <2>4, <2>5, QuietKeeps DEF Undisturbed
  <1> QED
    BY <1>2, <1>3, <1>4, <1>5, <1>6

\* What a sequence ends with, its tail ends with, or it was all there is.
LEMMA TailEnds ==
  ASSUME NEW S, NEW s \in Seq(S), s # <<>>, NEW last, s[Len(s)] = last
  PROVE  /\ Tail(s) = <<>> => Head(s) = last
         /\ Tail(s) # <<>> => Tail(s)[Len(Tail(s))] = last
  <1>1. /\ Head(s) = s[1] /\ Tail(s) \in Seq(S) /\ Len(Tail(s)) = Len(s) - 1
        /\ \A n \in 1 .. Len(Tail(s)) : Tail(s)[n] = s[n + 1]
    BY HeadTailProperties
  <1>2. Len(s) \in Nat
    BY LenProperties
  <1>3. CASE Tail(s) = <<>>
    <2>1. Len(s) - 1 = 0
      BY <1>1, <1>3, EmptySeq
    <2>2. Len(s) = 1
      BY <1>2, <2>1
    <2> QED
      BY <1>1, <1>3, <2>2
  <1>4. CASE Tail(s) # <<>>
    <2>1. Len(Tail(s)) \in Nat \ {0}
      BY <1>1, <1>4, EmptySeq
    <2>2. Len(Tail(s)) \in 1 .. Len(Tail(s)) /\ Len(Tail(s)) + 1 = Len(s)
      BY <1>1, <1>2, <2>1
    <2> QED
      BY <1>1, <1>4, <2>2
  <1> QED
    BY <1>3, <1>4

\* A daemon hears.
LEMMA HearKeeps ==
  ASSUME PeersInv, NEW d \in Daemons, Hear(d)
  PROVE  PeersInv'
  <1>1. PeersTyped
    BY DEF PeersInv
  <1>2. /\ updates[d] # <<>>
        /\ heard' = [heard EXCEPT ![d] = Parsed(d, InLocalNames(d, Head(updates[d])))]
        /\ updates' = [updates EXCEPT ![d] = Tail(@)]
        /\ UNCHANGED <<owner, written, sharing, attached, hearing, syncing, knows, doing>>
    BY DEF Hear, boardState
  <1>3. updates[d] \in Seq(Owners)
    BY <1>1 DEF PeersTyped
  <1>4. Head(updates[d]) \in Owners /\ Tail(updates[d]) \in Seq(Owners)
    BY <1>2, <1>3, HeadTailProperties
  <1>5. Parsed(d, InLocalNames(d, Head(updates[d]))) \in Owners
    BY <1>4 DEF Parsed, InLocalNames, Owners
  <1>6. PeersTyped' /\ updates'[d] = Tail(updates[d])
                    /\ heard'[d] = Parsed(d, InLocalNames(d, Head(updates[d])))
    BY <1>1, <1>2, <1>4, <1>5 DEF PeersTyped
  <1>7. \A e \in Daemons \ {d} : updates'[e] = updates[e] /\ heard'[e] = heard[e]
    BY <1>1, <1>2 DEF PeersTyped
  <1>8. ASSUME InTouch(d)'
        PROVE  Latest(d)' /\ UpToDate(d)'
    <2>1. updates[d][Len(updates[d])] = owner
      BY <1>2, <1>8 DEF PeersInv, InTouch, Latest
    <2>2. /\ Tail(updates[d]) = <<>> => Head(updates[d]) = owner
          /\ Tail(updates[d]) # <<>> => Tail(updates[d])[Len(Tail(updates[d]))] = owner
      BY <1>2, <1>3, <2>1, TailEnds
    <2>3. Latest(d)'
      BY <1>2, <1>6, <2>2 DEF Latest
    <2>4. ASSUME Current(d)'
          PROVE  heard'[d] = Parsed(d, owner)
      <3>1. knows[d] = Shared /\ Head(updates[d]) = owner
        BY <1>2, <1>6, <2>2, <2>4 DEF Current
      <3>2. InLocalNames(d, owner) = owner
        BY <1>1, <3>1 DEF InLocalNames, PeersTyped, Owners
      <3> QED
        BY <1>6, <3>1, <3>2
    <2>5. Parsed(d, owner)' = Parsed(d, owner)
      BY <1>2 DEF Parsed
    <2> QED
      BY <2>3, <2>4, <2>5 DEF UpToDate
  <1>9. ASSUME NEW e \in Daemons \ {d}, InTouch(e)'
        PROVE  Latest(e)' /\ UpToDate(e)'
    BY <1>2, <1>7, <1>9 DEF PeersInv, InTouch, Latest, UpToDate, Current, Parsed
  <1> QED
    BY <1>6, <1>8, <1>9 DEF PeersInv

\* The loop syncs, claims, merges.
LEMMA PeerLoopKeeps ==
  ASSUME PeersInv, NEW d \in Daemons,
         \/ SyncItems(d) \/ SyncHandled(d)
         \/ \E i \in Shared : ClaimAndLaunch(d, i) \/ Approve(d, i) \/ Decide(d, i) \/ Land(d, i)
  PROVE  PeersInv'
  <1>1. PeersTyped
    BY DEF PeersInv
  <1>2. CASE SyncItems(d)
    <2>1. /\ knows' = [knows EXCEPT ![d] = Shared]
          /\ syncing' = IF d \in attached THEN syncing \cup {d} ELSE syncing
          /\ UNCHANGED <<owner, written, sharing, attached, hearing, heard, updates, doing>>
      BY <1>2 DEF SyncItems, Learnt, boardState
    <2>2. PeersTyped'
      BY <1>1, <2>1 DEF PeersTyped
    <2>3. \A e \in Daemons : InTouch(e)' => InTouch(e) /\ (Current(e)' => e # d)
      BY <2>1 DEF InTouch, Current
    <2>4. \A e \in Daemons \ {d} : Current(e)' => Current(e)
      BY <1>1, <2>1 DEF Current, PeersTyped
    <2> QED
      BY <2>1, <2>2, <2>3, <2>4, QuietKeeps DEF Undisturbed
  <1>3. CASE SyncHandled(d)
    <2>1. /\ updates' = Broadcast(d, updates) /\ P!Repost(d) /\ syncing' = syncing \ {d}
          /\ UNCHANGED <<sharing, attached, hearing, heard, knows, doing>>
      BY <1>3 DEF SyncHandled
    <2>2. owner' \in Owners /\ written'.owner \in Owners
      BY <1>1, <2>1, OwnersTyped
    <2> QED
      BY <1>1, <2>1, <2>2, SendingKeeps DEF PeersTyped
  <1>4. ASSUME NEW i \in Shared, ClaimAndLaunch(d, i)
        PROVE  PeersInv'
    <2>1. /\ updates' = Broadcast(d, updates) /\ P!Take(d)
          /\ doing' = doing \/ Do(d, i, "running")
          /\ UNCHANGED <<sharing, attached, syncing, heard, knows>>
      BY <1>4 DEF ClaimAndLaunch, clientState
    <2>2. owner' \in Owners /\ written'.owner \in Owners
      BY <1>1, <2>1, OwnersTyped
    <2>3. doing' \in [Daemons -> [Shared -> Stages]]
      BY <1>1, <2>1, DoTyped DEF PeersTyped, Stages
    <2> QED
      BY <1>1, <2>1, <2>2, <2>3, SendingKeeps DEF PeersTyped
  <1>5. ASSUME NEW i \in Shared, Approve(d, i) \/ Decide(d, i)
        PROVE  PeersInv'
    <2>1. /\ Do(d, i, "approved") \/ Do(d, i, "merging")
          /\ UNCHANGED <<owner, written, clientState, updates>>
      BY <1>5 DEF Approve, Decide, boardState
    <2>2. doing' \in [Daemons -> [Shared -> Stages]]
      BY <1>1, <2>1, DoTyped DEF Stages
    <2>3. PeersTyped'
      BY <1>1, <2>1, <2>2 DEF PeersTyped, clientState
    <2> QED
      BY <2>1, <2>3, QuietKeeps DEF Undisturbed, clientState, InTouch, Current
  <1>6. ASSUME NEW i \in Shared, Land(d, i)
        PROVE  PeersInv'
    <2>1. Do(d, i, "done") /\ UNCHANGED clientState /\ Complete(d, i)
      BY <1>6 DEF Land
    <2>2. doing' \in [Daemons -> [Shared -> Stages]]
      BY <1>1, <2>1, DoTyped DEF Stages
    <2>3. CASE P!Finish(d) /\ updates' = Broadcast(d, updates)
      <3>1. owner' \in Owners /\ written'.owner \in Owners
        BY <1>1, <2>3, OwnersTyped
      <3> QED
        BY <1>1, <2>1, <2>2, <2>3, <3>1, SendingKeeps DEF PeersTyped, clientState
    <2>4. CASE UNCHANGED <<boardState, updates>>
      <3>1. PeersTyped'
        BY <1>1, <2>1, <2>2, <2>4 DEF PeersTyped, clientState, boardState
      <3> QED
        BY <2>1, <2>4, <3>1, QuietKeeps DEF Undisturbed, clientState, boardState, InTouch, Current
    <2> QED
      BY <2>1, <2>3, <2>4 DEF Complete
  <1> QED
    BY <1>2, <1>3, <1>4, <1>5, <1>6

\* The broker writes its file, and starts again from it; then nobody is in touch.
LEMMA PeerBrokerKeeps ==
  ASSUME PeersInv, Persist \/ BrokerRestarts
  PROVE  PeersInv'
  <1>1. PeersTyped
    BY DEF PeersInv
  <1>2. CASE Persist
    <2>1. owner' = owner /\ written'.owner \in Owners /\ UNCHANGED <<clientState, updates, doing>>
      BY <1>1, <1>2 DEF Persist, PeersTyped, P!Write, P!board
    <2>2. PeersTyped'
      BY <1>1, <2>1 DEF PeersTyped, clientState
    <2> QED
      BY <2>1, <2>2, QuietKeeps DEF Undisturbed, clientState, InTouch, Current
  <1>3. CASE BrokerRestarts
    <2>1. /\ attached' = {} /\ syncing' = {} /\ updates' = [d \in Daemons |-> <<>>]
          /\ owner' = written.owner /\ UNCHANGED <<written, sharing, heard, knows, doing>>
      BY <1>3 DEF BrokerRestarts, P!Crash
    <2>2. PeersTyped'
      BY <1>1, <2>1 DEF PeersTyped
    <2> QED
      BY <2>1, <2>2 DEF PeersInv, InTouch
  <1> QED
    BY <1>2, <1>3

\* At the start nobody is in touch.
LEMMA PeersStart == FleetInit => PeersInv
  <1> SUFFICES ASSUME FleetInit
               PROVE  PeersInv
    OBVIOUS
  <1>1. /\ attached = {} /\ syncing = {} /\ updates = [d \in Daemons |-> <<>>]
        /\ heard = [d \in Daemons |-> [i \in Shared |-> None]]
        /\ knows = [d \in Daemons |-> {}] /\ P!BoardInit
        /\ \E stage \in {"open", "done"} : doing = [d \in Daemons |-> [i \in Shared |-> stage]]
    BY DEF FleetInit, PeersInit, PeersAway, Nobody
  <1>2. owner \in Owners /\ written.owner \in Owners
    BY <1>1 DEF P!BoardInit, P!board, Owners
  <1>3. PeersTyped
    BY <1>1, <1>2 DEF PeersTyped, Owners, Stages
  <1> QED
    BY <1>1, <1>3 DEF PeersInv, InTouch

\* Every step of the fleet keeps what is heard right.
LEMMA PeersKeep ==
  ASSUME PeersInv, [FleetNext]_<<vars, peerVars>>
  PROVE  PeersInv'
  <1>1. CASE UNCHANGED peerVars
    <2>1. PeersTyped'
      BY <1>1 DEF peerVars, boardState, clientState, PeersInv, PeersTyped
    <2> QED
      BY <1>1, <2>1, QuietKeeps DEF Undisturbed, peerVars, boardState, clientState, InTouch, Current
  <1>2. CASE PeersNext
    BY <1>2, PeerSocketsKeep, HearKeeps, PeerLoopKeeps, PeerBrokerKeeps DEF PeersNext
  <1> QED
    BY <1>1, <1>2 DEF FleetNext

\* Only Decide begins a merge, and not of an item that another was heard to own.
LEMMA OwnersDecide ==
  ASSUME PeersInv, [FleetNext]_<<vars, peerVars>>, NEW d \in Daemons, NEW i \in Shared,
         Current(d), doing[d][i] = "approved", doing'[d][i] = "merging"
  PROVE  owner[i] \in {d, None}
  <1>1. PeersTyped
    BY DEF PeersInv
  <1>2. PeersNext /\ doing' # doing
    BY DEF FleetNext, peerVars
  <1>3. PICK e \in Daemons, j \in Shared :
          ClaimAndLaunch(e, j) \/ Approve(e, j) \/ Decide(e, j) \/ Land(e, j)
    BY <1>2 DEF PeersNext, Attach, LoseSocket, CountAsGone, ReleaseClaims, GoLocal, Share,
                SyncItems, SyncHandled, Hear, Persist, BrokerRestarts
  <1>4. \A stage \in Stages : Do(e, j, stage)
          => doing'[d][i] = IF d = e /\ i = j THEN stage ELSE doing[d][i]
    BY <1>1 DEF Do, PeersTyped
  <1>5. Decide(e, j) /\ d = e /\ i = j
    BY <1>2, <1>3, <1>4 DEF ClaimAndLaunch, Approve, Decide, Land, Stages
  <1>6. heard[d][i] = None /\ heard[d] = Parsed(d, owner)
    BY <1>1, <1>5 DEF Decide, Withheld, RemoteOwned, PeersInv, PeersTyped, InTouch, UpToDate, Current
  <1> QED
    BY <1>6 DEF Parsed

\* However an item changed hands, whatever sockets, clients and brokers were lost in between: a
\* daemon that has heard all there is to hear goes to merge an item only if it owns it or nobody
\* does (filterCrewRemoteWriteActions, broadcastCrewUpdate).
THEOREM OnlyOwnersMerge == FleetSpec => OwnersMerge
  <1>1. PeersInv /\ [FleetNext]_<<vars, peerVars>> => PeersInv'
    BY PeersKeep
  <1>2. PeersInv /\ [FleetNext]_<<vars, peerVars>>
        => [\A d \in Daemons, i \in Shared :
              Current(d) /\ doing[d][i] = "approved" /\ doing'[d][i] = "merging"
              => owner[i] \in {d, None}]_peerVars
    BY OwnersDecide
  <1> QED
    BY <1>1, <1>2, PeersStart, PTL DEF FleetSpec, OwnersMerge
=============================================================================
