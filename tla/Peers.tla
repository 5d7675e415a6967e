-------------------------------- MODULE Peers --------------------------------
(***************************************************************************)
(* What the daemons of a crew see of one another.  After each change the   *)
(* broker sends every daemon the owners of all items (crew_update); a      *)
(* daemon withholds its own merge of an item that, as it heard last,       *)
(* another owns.  The broker is reduced to the board of module ClaimBoard, *)
(* which module Crew implements; messages to the broker are immediate but  *)
(* for sync, those from it are under way for as long as they please.       *)
(* (core/crew.ts, core/orchestrate-crew.ts, core/orchestrate-tui-render.ts)*)
(***************************************************************************)
EXTENDS Crew

CONSTANTS
  Shared,      \* items on the board
  MaxUpsets,   \* bound: lost sockets, stalls, broker restarts and changes of mode
  MaxUpdates   \* bound: messages under way to a daemon

ASSUME PeersAssumption == Shared \subseteq Items /\ MaxUpsets \in Nat /\ MaxUpdates \in Nat \ {0}

VARIABLES
  posted, owner, closed, absent, written,   \* the board
  sharing,   \* daemons whose loop has a client (crewBroker)
  attached,  \* daemons whose client has a socket
  hearing,   \* daemons the broker has a live socket of
  syncing,   \* daemons with a sync under way
  updates,   \* crew_update messages under way to each daemon: the owners of the items
  heard,     \* getCrewStatus(): the owners heard last, in local names
  knows,     \* hashToLocal: the items whose hashed names the client can read
  doing,     \* daemon -> item -> what it does with it
  landed,    \* items whose pull request is merged
  upsets

boardState == <<posted, owner, closed, absent, written>>
clientState == <<sharing, attached, hearing, syncing, heard, knows>>
peerVars == <<boardState, clientState, updates, doing, landed, upsets>>

P == INSTANCE ClaimBoard WITH Items <- Shared, poster <- posted, owner <- owner,
                              finished <- closed, gone <- absent, durable <- written

Written == written = P!board

---------------------------------------------------------------------------
(* Messages *)

Quieted(d) == [updates EXCEPT ![d] = <<>>]

\* buildCrewStatusUpdate: of each item, who has claimed it.
StatusUpdate == owner'

\* Mutant: only the daemon that the broker answers hears of a change.
BroadcastToOne(d, messages) ==
  IF d \in hearing' \cap attached' THEN [messages EXCEPT ![d] = Append(@, StatusUpdate)] ELSE messages

\* broadcastCrewUpdate: to every daemon with a live socket.
Broadcast(d, messages) ==
  [e \in Daemons |-> IF e \in hearing' \cap attached' THEN Append(messages[e], StatusUpdate) ELSE messages[e]]

RoomForAll == \A d \in Daemons : Len(updates[d]) < MaxUpdates

\* translateCrewUpdatePayload: the name of an item that the client has not synced becomes a
\* name no item has.
InLocalNames(d, owners) == [i \in Shared |-> IF i \in knows[d] THEN owners[i] ELSE None]

\* parseCrewStatusUpdate: its own items are left out.
Parsed(d, owners) == [i \in Shared |-> IF owners[i] = d THEN None ELSE owners[i]]

\* handleMessage: crew_update.
Hear(d) ==
  /\ updates[d] # <<>>
  /\ heard' = [heard EXCEPT ![d] = Parsed(d, InLocalNames(d, Head(updates[d])))]
  /\ updates' = [updates EXCEPT ![d] = Tail(@)]
  /\ UNCHANGED <<boardState, sharing, attached, hearing, syncing, knows, doing, landed, upsets>>

\* crewStatusToRemoteOwnedItemIds
RemoteOwned(d) == {i \in Shared : heard[d][i] # None}

\* filterCrewRemoteWriteActions; without a client nothing is withheld.
Withheld(d, i) == d \in sharing /\ i \in RemoteOwned(d)

---------------------------------------------------------------------------
(* Sockets and clients *)

Upset == upsets < MaxUpsets /\ upsets' = upsets + 1

\* doConnect, and handleDaemonConnect of the broker.
Attach(d) ==
  /\ d \in sharing \ attached /\ Written /\ RoomForAll
  /\ P!Return(d)
  /\ attached' = attached \cup {d} /\ hearing' = hearing \cup {d}
  /\ updates' = Broadcast(d, Quieted(d))
  /\ UNCHANGED <<sharing, syncing, heard, knows, doing, landed, upsets>>

\* onclose: the status heard stays.
LoseSocket(d) ==
  /\ d \in attached /\ Upset
  /\ attached' = attached \ {d} /\ syncing' = syncing \ {d} /\ updates' = Quieted(d)
  /\ UNCHANGED <<boardState, sharing, hearing, heard, knows, doing, landed>>

\* The broker's close event, or too long without a heartbeat; the latter may befall a daemon
\* whose socket is fine.
CountAsGone(d) ==
  /\ d \in hearing /\ Written
  /\ IF d \in attached THEN Upset ELSE UNCHANGED upsets
  /\ P!Leave(d) /\ hearing' = hearing \ {d}
  /\ UNCHANGED <<sharing, attached, syncing, heard, knows, updates, doing, landed>>

\* checkHeartbeats, after the grace period.
ReleaseClaims(d) ==
  /\ d \notin hearing /\ Written /\ RoomForAll
  /\ \E i \in Shared : owner[i] = d
  /\ P!GiveBack(d) /\ UNCHANGED clientState
  /\ updates' = Broadcast(d, updates)
  /\ UNCHANGED <<doing, landed, upsets>>

\* disconnect(): the loop goes on alone.
GoLocal(d) ==
  /\ d \in sharing /\ Upset
  /\ sharing' = sharing \ {d} /\ attached' = attached \ {d} /\ syncing' = syncing \ {d}
  /\ updates' = Quieted(d)
  /\ UNCHANGED <<boardState, hearing, heard, knows, doing, landed>>

\* A new client, which has heard nothing and can read no name.
Share(d) ==
  /\ d \notin sharing
  /\ sharing' = sharing \cup {d}
  /\ heard' = [heard EXCEPT ![d] = [i \in Shared |-> None]] /\ knows' = [knows EXCEPT ![d] = {}]
  /\ UNCHANGED <<boardState, attached, hearing, syncing, updates, doing, landed, upsets>>

Persist == ~Written /\ P!Write /\ UNCHANGED <<clientState, updates, doing, landed, upsets>>

BrokerRestarts ==
  /\ Upset /\ P!Crash
  /\ attached' = {} /\ hearing' = {} /\ syncing' = {} /\ updates' = [d \in Daemons |-> <<>>]
  /\ UNCHANGED <<sharing, heard, knows, doing, landed>>

---------------------------------------------------------------------------
(* The loop *)

Do(d, i, stage) == doing' = [doing EXCEPT ![d][i] = stage]

\* rememberWorkItemId
Learnt(d) == [knows EXCEPT ![d] = Shared]

\* sync: the names are learnt even if nothing can be sent.
SyncItems(d) ==
  /\ d \in sharing \ syncing
  /\ knows' = Learnt(d)
  /\ syncing' = IF d \in attached THEN syncing \cup {d} ELSE syncing
  /\ UNCHANGED <<boardState, sharing, attached, hearing, heard, updates, doing, landed, upsets>>

\* handleSync
SyncHandled(d) ==
  /\ d \in syncing /\ Written /\ RoomForAll
  /\ syncing' = syncing \ {d}
  /\ P!Repost(d) /\ UNCHANGED <<sharing, attached, hearing, heard, knows>>
  /\ updates' = Broadcast(d, updates)
  /\ UNCHANGED <<doing, landed, upsets>>

\* claim(), granted; an item that is open here is launched.
ClaimAndLaunch(d, i) ==
  /\ d \in attached /\ Written /\ RoomForAll
  /\ P!Take(d) /\ owner'[i] # owner[i] /\ UNCHANGED clientState
  /\ updates' = Broadcast(d, updates)
  /\ IF doing[d][i] = "open" THEN Do(d, i, "running") ELSE UNCHANGED doing
  /\ UNCHANGED <<landed, upsets>>

\* Its pull request is ready to be merged; so it is again after a merge that did not happen.
Approve(d, i) ==
  /\ doing[d][i] = "running" /\ Do(d, i, "approved")
  /\ UNCHANGED <<boardState, clientState, updates, landed, upsets>>

\* The action passes the filter; other actions may come before it.
Decide(d, i) ==
  /\ doing[d][i] = "approved" /\ i \notin landed /\ ~Withheld(d, i)
  /\ Do(d, i, "merging")
  /\ UNCHANGED <<boardState, clientState, updates, landed, upsets>>

\* complete(): the broker refuses it for an item of another.
Complete(d, i) ==
  IF d \in attached /\ owner[i] = d
  THEN P!Finish(d) /\ i \in closed' /\ updates' = Broadcast(d, updates)
  ELSE UNCHANGED <<boardState, updates>>

\* The merge, or a poll that finds the pull request merged.
Land(d, i) ==
  /\ doing[d][i] \in IF i \in landed THEN {"running", "approved", "merging"} ELSE {"merging"}
  /\ Written /\ RoomForAll
  /\ Do(d, i, "done") /\ landed' = landed \cup {i}
  /\ UNCHANGED clientState /\ Complete(d, i)
  /\ UNCHANGED upsets

---------------------------------------------------------------------------

PeersNext ==
  \/ \E d \in Daemons :
       \/ Attach(d) \/ LoseSocket(d) \/ CountAsGone(d) \/ ReleaseClaims(d) \/ GoLocal(d) \/ Share(d)
       \/ SyncItems(d) \/ SyncHandled(d) \/ Hear(d)
       \/ \E i \in Shared : ClaimAndLaunch(d, i) \/ Approve(d, i) \/ Decide(d, i) \/ Land(d, i)
  \/ Persist \/ BrokerRestarts

Nobody ==
  /\ P!BoardInit
  /\ attached = {} /\ hearing = {} /\ syncing = {}
  /\ updates = [d \in Daemons |-> <<>>]
  /\ heard = [d \in Daemons |-> [i \in Shared |-> None]]
  /\ knows = [d \in Daemons |-> {}]
  /\ landed = {} /\ upsets = 0

PeersInit == Nobody /\ sharing = Daemons /\ doing = [d \in Daemons |-> [i \in Shared |-> "open"]]

\* A behaviour has the crew in full or the peers' view of it.
PeersAway == Nobody /\ sharing = {} /\ doing = [d \in Daemons |-> [i \in Shared |-> "done"]]

FleetInit == Init /\ (PeersInit \/ PeersAway)

PeersOpen == landed # {} \/ \E d \in Daemons, i \in Shared : doing[d][i] # "done"

FleetNext ==
  \/ ~PeersOpen /\ Next /\ UNCHANGED peerVars
  \/ PeersOpen /\ PeersNext /\ UNCHANGED vars

FleetSpec == FleetInit /\ [][FleetNext]_<<vars, peerVars>> /\ Fairness
---------------------------------------------------------------------------
(* Properties *)

\* It has a socket the broker knows of, its last sync is answered, and nothing is under way.
Current(d) == d \in attached \cap hearing /\ d \notin syncing /\ knows[d] = Shared /\ updates[d] = <<>>

\* "Only the owning daemon acts": a daemon that has heard all there is to hear goes to merge
\* an item only if it owns it or nobody does, however the item changed hands before.
OwnersMerge ==
  [][\A d \in Daemons, i \in Shared :
       Current(d) /\ doing[d][i] = "approved" /\ doing'[d][i] = "merging" => owner[i] \in {d, None}]_peerVars
=============================================================================
