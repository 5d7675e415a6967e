-------------------------------- MODULE Crew --------------------------------
(***************************************************************************)
(* A crew: the broker of module Broker and the daemons that share it, each *)
(* an event loop (core/orchestrate-event-loop.ts) with the client of       *)
(* core/crew.ts.                                                           *)
(*                                                                         *)
(* A daemon syncs its items, claims one for each launch it has planned,    *)
(* launches what it was granted, and reports what it completed.  Messages  *)
(* of one socket keep their order and are lost with the socket.  The       *)
(* client notices the loss of a socket at once, the broker only when its   *)
(* close event comes, the client perhaps being back by then, or when the   *)
(* heartbeats have stopped for too long.                                   *)
(*                                                                         *)
(* What a daemon does with an item is reduced to what the crew can tell    *)
(* apart: "open" (queued or ready), "running" (launched, not merged),      *)
(* "done", "stuck", and "untracked".                                       *)
(***************************************************************************)
EXTENDS Broker, Sequences, FiniteSets

CONSTANTS
    GivesUp,     \* items whose worker may end up stuck
    MaxInFlight, \* bound on the messages a socket holds
    MaxFaults    \* bound on lost sockets, stalls, late claims and restarts together

ASSUME CrewAssumption ==
    /\ GivesUp \subseteq Items
    /\ MaxInFlight \in Nat \ {0} /\ MaxFaults \in Nat

VARIABLES
    connected, \* daemons whose client has a socket
    lingering, \* daemons with an old socket whose close event the broker has not had
    toBroker,  \* messages on the socket to the broker
    toClient,  \* claim_response messages on the socket to the client
    claiming,  \* daemons whose loop awaits claim()
    granted,   \* claimedIds of the loop's current iteration
    work,      \* what each daemon does with each item
    told,      \* items that reconnect_state said are lost
    merged,    \* items whose PR is merged
    faults     \* sockets lost, stalls, late claims and restarts so far (bounds the model)

socketVars == <<connected, lingering, toBroker, toClient, claiming>>
loopVars   == <<granted, work, told>>
vars == <<brokerVars, socketVars, loopVars, merged, faults>>

\* `awaited`: the requestId is still in the client's map of pending claims.
SyncMessages ==
    {m \in [type: {"sync"}, listed: SUBSET Items, tracked: SUBSET Items] : m.listed \subseteq m.tracked}

Messages ==
    SyncMessages
    \cup [type: {"claim"}, awaited: BOOLEAN]
    \cup [type: {"complete"}, item: Items]

Answers == [awaited: BOOLEAN, item: Items \cup {None}]

TypeOK ==
    /\ BrokerTypeOK
    /\ connected \subseteq Daemons
    /\ lingering \subseteq Daemons
    /\ toBroker \in [Daemons -> Seq(Messages)]
    /\ toClient \in [Daemons -> Seq(Answers)]
    /\ \A d \in Daemons : d \notin connected =>
          toBroker[d] = <<>> /\ toClient[d] = <<>> /\ d \notin claiming
    /\ claiming \subseteq Daemons
    /\ granted \in [Daemons -> SUBSET Items]
    /\ work \in [Daemons -> [Items -> {"untracked", "open", "running", "done", "stuck"}]]
    /\ told \in [Daemons -> SUBSET Items]
    /\ merged \subseteq Items
    /\ faults \in 0..MaxFaults

Init ==
    /\ BrokerInit
    /\ connected = {}
    /\ lingering = {}
    /\ toBroker = [d \in Daemons |-> <<>>]
    /\ toClient = [d \in Daemons |-> <<>>]
    /\ claiming = {}
    /\ granted = [d \in Daemons |-> {}]
    /\ work = [d \in Daemons |-> [i \in Items |-> "open"]]
    /\ told = [d \in Daemons |-> {}]
    /\ merged = {}
    /\ faults = 0

-----------------------------------------------------------------------------
(* Sockets. *)

\* onopen, and the broker's answer: reconnect_state if the daemon was away.
\* createCrewBrokerInstance() passes no onReconnect: the lists change nothing but
\* what the daemon has been told.
Connect(d) ==
    /\ d \notin connected
    /\ ConnectDaemon(d)
    /\ connected' = connected \cup {d}
    /\ told' = [told EXCEPT ![d] = @ \cup LostReleased(d) \cup LostReclaimed(d)]
    /\ UNCHANGED <<lingering, toBroker, toClient, claiming, granted, work, merged, faults>>

\* rejectAllPendingClaims(): an awaited claim is answered with null.
PendingRejected(d) == claiming \ {d}

\* onclose: what is on the socket is lost.  A daemon that ends is one that never
\* connects again.
Drop(d) ==
    /\ d \in connected
    /\ d \notin lingering
    /\ connected' = connected \ {d}
    /\ lingering' = lingering \cup {d}
    /\ toBroker' = [toBroker EXCEPT ![d] = <<>>]
    /\ toClient' = [toClient EXCEPT ![d] = <<>>]
    /\ claiming' = PendingRejected(d)
    /\ faults < MaxFaults
    /\ faults' = faults + 1
    /\ UNCHANGED <<brokerVars, loopVars, merged>>

\* The broker's close event.  It names the daemon, not the socket.
SocketClosed(d) ==
    /\ d \in lingering
    /\ lingering' = lingering \ {d}
    /\ IF d \in online THEN DisconnectDaemon(d) ELSE UNCHANGED brokerVars
    /\ UNCHANGED <<connected, toBroker, toClient, claiming, loopVars, merged, faults>>

\* checkHeartbeats() every second: a daemon without a live socket sends none.
HeartbeatTimeout(d) ==
    /\ d \notin connected
    /\ DisconnectDaemon(d)
    /\ UNCHANGED <<socketVars, loopVars, merged, faults>>

\* A daemon whose heartbeats come too late keeps its socket and goes on, but
\* the broker counts it as gone: a later heartbeat does not undo that.
Stall(d) ==
    /\ d \in connected
    /\ faults < MaxFaults
    /\ DisconnectDaemon(d)
    /\ faults' = faults + 1
    /\ UNCHANGED <<socketVars, loopVars, merged>>

GraceExpired(d) ==
    /\ ReleaseDaemonWorkItems(d)
    /\ UNCHANGED <<socketVars, loopVars, merged, faults>>

Save ==
    /\ ~IsSaved
    /\ SaveCrew
    /\ UNCHANGED <<socketVars, loopVars, merged, faults>>

\* The broker restarts: every client loses its socket, and the new broker will
\* have no close event for it.
BrokerRestart ==
    /\ faults < MaxFaults
    /\ Restart
    /\ connected' = {}
    /\ lingering' = {}
    /\ toBroker' = [d \in Daemons |-> <<>>]
    /\ toClient' = [d \in Daemons |-> <<>>]
    /\ claiming' = {}
    /\ faults' = faults + 1
    /\ UNCHANGED <<loopVars, merged>>

-----------------------------------------------------------------------------
(* The event loop of a daemon. *)

\* send() drops the message when there is no socket.
Sent(d, message) ==
    IF d \in connected THEN [toBroker EXCEPT ![d] = Append(@, message)] ELSE toBroker

Room(d) == Len(toBroker[d]) < MaxInFlight

Between(d) == d \notin claiming /\ granted[d] = {}

\* The sync of each iteration: the items that are not in a terminal state.
\* Dependencies that are not tracked are left out of it.
Listed(d) == {i \in Items : work[d][i] \in {"open", "running"}}

Tracked(d) == {i \in Items : work[d][i] # "untracked"}

Sync(d) ==
    /\ d \in connected /\ Between(d) /\ Room(d)
    /\ toBroker' = Sent(d, [type |-> "sync", listed |-> Listed(d), tracked |-> Tracked(d)])
    /\ UNCHANGED <<brokerVars, connected, lingering, toClient, claiming, loopVars, merged, faults>>

\* Items processTransitions() would launch: their dependencies are settled here,
\* or can be stacked on.
Launches(d) ==
    {i \in Items : /\ work[d][i] = "open"
                   /\ \A k \in Dependencies[i] : work[d][k] \in {"done", "untracked", "running"}}

\* claim(), once for each planned launch.
Claim(d) ==
    /\ d \in connected /\ d \notin claiming /\ Room(d)
    /\ Cardinality(granted[d]) < Cardinality(Launches(d))
    /\ toBroker' = Sent(d, [type |-> "claim", awaited |-> TRUE])
    /\ claiming' = claiming \cup {d}
    /\ UNCHANGED <<brokerVars, connected, lingering, toClient, loopVars, merged, faults>>

\* After 5 seconds claim() answers null and forgets its requestId: an answer to
\* it that comes later finds nobody waiting.
Orphaned(message) ==
    IF message.type = "claim" THEN [message EXCEPT !.awaited = FALSE] ELSE message

ClaimTimeout(d) ==
    /\ faults < MaxFaults
    /\ faults' = faults + 1
    /\ d \in claiming
    /\ claiming' = claiming \ {d}
    /\ toBroker' = [toBroker EXCEPT ![d] = [n \in DOMAIN @ |-> Orphaned(@[n])]]
    /\ toClient' = [toClient EXCEPT ![d] = [n \in DOMAIN @ |-> [@[n] EXCEPT !.awaited = FALSE]]]
    /\ UNCHANGED <<brokerVars, connected, lingering, loopVars, merged>>

\* claim_response
GrantedBy(answer) == IF answer.awaited THEN {answer.item} \ {None} ELSE {}

ClaimResponse(d) ==
    /\ toClient[d] # <<>>
    /\ LET answer == Head(toClient[d]) IN
          /\ claiming' = IF answer.awaited THEN claiming \ {d} ELSE claiming
          /\ granted' = [granted EXCEPT ![d] = @ \cup GrantedBy(answer)]
          /\ told' = [told EXCEPT ![d] = @ \ GrantedBy(answer)]
    /\ toClient' = [toClient EXCEPT ![d] = Tail(@)]
    /\ UNCHANGED <<brokerVars, connected, lingering, toBroker, work, merged, faults>>

\* The claims of the iteration are over: what was granted and is still
\* launchable is launched, even if its dependencies look unsettled here.
Launch(d) ==
    /\ d \notin claiming /\ granted[d] # {}
    /\ work' = [work EXCEPT ![d] = [i \in Items |->
                   IF i \in granted[d] /\ @[i] = "open" THEN "running" ELSE @[i]]]
    /\ granted' = [granted EXCEPT ![d] = {}]
    /\ UNCHANGED <<brokerVars, socketVars, told, merged, faults>>

\* The item's PR is merged, or found merged, and its completion is reported.  That
\* filterCrewRemoteWriteActions() may withhold the merge for a while, after a
\* crew_update of whatever age, only makes the step come later.
Merge(d, i) ==
    /\ Between(d) /\ Room(d)
    /\ work[d][i] = "running"
    /\ work' = [work EXCEPT ![d][i] = "done"]
    /\ merged' = merged \cup {i}
    /\ toBroker' = Sent(d, [type |-> "complete", item |-> i])
    /\ UNCHANGED <<brokerVars, connected, lingering, toClient, claiming,
                   granted, told, faults>>

\* The worker fails for good.  A stuck item is terminal: it leaves the sync.
GiveUp(d, i) ==
    /\ Between(d)
    /\ i \in GivesUp
    /\ work[d][i] = "running"
    /\ work' = [work EXCEPT ![d][i] = "stuck"]
    /\ UNCHANGED <<brokerVars, socketVars, granted, told, merged, faults>>

\* reconcileWatchItems(): the file of a merged item is gone from main.
Forget(d, i) ==
    /\ Between(d)
    /\ i \in merged
    /\ work[d][i] \in {"open", "running"}
    /\ work' = [work EXCEPT ![d][i] = "untracked"]
    /\ UNCHANGED <<brokerVars, socketVars, granted, told, merged, faults>>

-----------------------------------------------------------------------------
(* The broker's handleMessage(). *)

Received(d, type) ==
    /\ toBroker[d] # <<>>
    /\ Head(toBroker[d]).type = type
    /\ d \in joined
    /\ toBroker' = [toBroker EXCEPT ![d] = Tail(@)]
    /\ UNCHANGED <<connected, lingering, claiming, loopVars, merged, faults>>

HandleSync(d) ==
    /\ Received(d, "sync")
    /\ SyncCrewItems(d, Head(toBroker[d]).listed, Head(toBroker[d]).tracked)
    /\ UNCHANGED toClient

Answered(d, item) ==
    toClient' = [toClient EXCEPT ![d] =
                    Append(@, [awaited |-> Head(toBroker[d]).awaited, item |-> item])]

HandleClaim(d) ==
    /\ Received(d, "claim")
    /\ \E i \in Items : ClaimNextWorkItem(d, i) /\ Answered(d, i)

HandleClaimOfNone(d) ==
    /\ Received(d, "claim")
    /\ Available = {}
    /\ Answered(d, None)
    /\ UNCHANGED brokerVars

HandleComplete(d) ==
    /\ Received(d, "complete")
    /\ CompleteWorkItem(d, Head(toBroker[d]).item)
    /\ UNCHANGED toClient

\* "Cannot complete": the client only logs it.
HandleCompleteRefused(d) ==
    /\ Received(d, "complete")
    /\ claimedBy[Head(toBroker[d]).item] # d
    /\ UNCHANGED <<brokerVars, toClient>>

-----------------------------------------------------------------------------

Sockets(d) ==
    \/ Connect(d) \/ Drop(d) \/ SocketClosed(d)
    \/ HeartbeatTimeout(d) \/ Stall(d) \/ GraceExpired(d)

Loop(d) ==
    \/ Sync(d) \/ Claim(d) \/ ClaimTimeout(d) \/ ClaimResponse(d) \/ Launch(d)
    \/ \E i \in Items : Merge(d, i) \/ GiveUp(d, i) \/ Forget(d, i)

HandleMessage(d) ==
    \/ HandleSync(d) \/ HandleClaim(d) \/ HandleClaimOfNone(d)
    \/ HandleComplete(d) \/ HandleCompleteRefused(d)

\* The clients do not see the file: between a handler and its save nothing that
\* they do matters.  A broker that crashes there takes the answer it has just
\* sent with it.
Next ==
    \/ IsSaved /\ \E d \in Daemons : Sockets(d) \/ Loop(d) \/ HandleMessage(d)
    \/ BrokerRestart
    \/ Save

Spec == Init /\ [][Next]_vars

(***************************************************************************)
(* Fairness: the broker saves, and runs its timer.  The timer's turn comes *)
(* between messages that keep arriving, hence SF.  Nothing obliges a       *)
(* client to anything.                                                     *)
(***************************************************************************)
Fairness ==
    /\ WF_vars(Save)
    /\ \A d \in Daemons : SF_vars(IsSaved /\ GraceExpired(d))

FairSpec == Spec /\ Fairness

-----------------------------------------------------------------------------
(* Properties. *)

\* A daemon that works on an item which the broker no longer holds for it, and
\* which nobody has completed, has been told so when it reconnected: no claim is
\* lost behind the back of a daemon whose socket both sides have.  (One that
\* stalled, or whose old socket closed late, is not online for the broker.)
LostClaimsReported ==
    \A d \in Daemons : \A i \in Items :
        /\ d \in connected \cap online /\ work[d][i] = "running"
        /\ claimedBy[i] # d /\ ~Completed(i)
        => i \in told[d]

\* What the broker counts as claimed has an owner entitled to it, and a daemon that lost a
\* claim can tell.
ClaimsSound == ClaimsAreHeld /\ LostClaimsReported

\* No daemon starts an item before all it depends on is merged, whichever
\* daemon merged that and however the news of it travelled.
DependenciesFirst ==
    [][\A d \in Daemons : \A i \in Items :
          work[d][i] = "open" /\ work'[d][i] = "running" => Dependencies[i] \subseteq merged]_vars

\* The claims of a daemon that the broker knows to be away do not outlive its
\* absence: it returns, or others may take them.  (Claims that a stalled daemon
\* makes after its release are not released again.)
AbandonedReleased ==
    \A d \in Daemons :
        d \in away \ released ~> (d \notin away \/ \A i \in Items : claimedBy[i] # d)
=============================================================================
