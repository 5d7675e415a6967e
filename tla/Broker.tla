------------------------------- MODULE Broker -------------------------------
(***************************************************************************)
(* The crew broker: the state machine of core/broker-state.ts over one     *)
(* CrewState, and its file (core/broker-store.ts, core/broker-server.ts).  *)
(*                                                                         *)
(* Here the handlers are called in any order, with any arguments and for   *)
(* any daemon: this is all the broker may assume about its clients.  The   *)
(* module Crew composes it with the clients of core/crew.ts.               *)
(*                                                                         *)
(* A handler runs to its end, and its last act is to save the crew.  It    *)
(* has answered its client by then, so Save is a step of its own, which no *)
(* other handler but a crash may precede.  Of syncedAt only the order      *)
(* matters, of the heartbeat and grace timeouts only whether they expired. *)
(***************************************************************************)
EXTENDS Integers

CONSTANTS
    Items,
    Daemons,
    None,         \* null
    Dependencies, \* the dependencies each item's file names
    Priority,     \* the priority each item's file names, 0 the highest
    Authored,     \* for each daemon, the items whose author is its operator
    MaxSyncs      \* bound on the syncs that post new items

ASSUME NoneAssumption == None \notin Daemons
ASSUME DependenciesAssumption == Dependencies \in [Items -> SUBSET Items]
ASSUME PriorityAssumption == Priority \in [Items -> Nat]
ASSUME AuthoredAssumption == Authored \in [Daemons -> SUBSET Items]
ASSUME MaxSyncsAssumption == MaxSyncs \in Nat

VARIABLES
    syncedAt,    \* WorkEntry.syncedAt, 0 when the crew does not know the item
    creator,     \* WorkEntry.creatorDaemonId
    deps,        \* WorkEntry.dependencies
    claimedBy,   \* WorkEntry.claimedBy
    completedBy, \* WorkEntry.completedBy
    joined,      \* keys of CrewState.daemons
    online,      \* DaemonState.ws is not null
    away,        \* DaemonState.disconnectedAt is not null
    held,        \* DaemonState.claimedItems
    released,    \* DaemonState.released
    clock,       \* Date.now() of the last sync that posted an item
    saved        \* the crew's file

itemVars   == <<syncedAt, creator, deps, claimedBy, completedBy>>
daemonVars == <<joined, online, away, held, released>>
brokerVars == <<itemVars, daemonVars, clock, saved>>

Owner == Daemons \cup {None}

\* serializeCrewState(): all of the crew but the sockets.
Serialized ==
    [syncedAt |-> syncedAt, creator |-> creator, deps |-> deps,
     claimedBy |-> claimedBy, completedBy |-> completedBy,
     joined |-> joined, away |-> away, held |-> held, released |-> released]

CrewFiles ==
    [syncedAt: [Items -> Nat], creator: [Items -> Owner], deps: [Items -> SUBSET Items],
     claimedBy: [Items -> Owner], completedBy: [Items -> Owner],
     joined: SUBSET Daemons, away: SUBSET Daemons,
     held: [Daemons -> SUBSET Items], released: SUBSET Daemons]

BrokerTypeOK ==
    /\ Serialized \in CrewFiles
    /\ online \subseteq joined
    /\ clock \in 0..MaxSyncs
    /\ saved \in CrewFiles

BrokerInit ==
    /\ syncedAt = [i \in Items |-> 0]
    /\ creator = [i \in Items |-> None]
    /\ deps = [i \in Items |-> {}]
    /\ claimedBy = [i \in Items |-> None]
    /\ completedBy = [i \in Items |-> None]
    /\ joined = {}
    /\ online = {}
    /\ away = {}
    /\ held = [d \in Daemons |-> {}]
    /\ released = {}
    /\ clock = 0
    /\ saved = Serialized

-----------------------------------------------------------------------------
(* The items. *)

Known == {i \in Items : syncedAt[i] > 0}

Completed(i) == completedBy[i] # None

\* Mutant: a dependency that is claimed counts as delivered.
AvailableEarly ==
    {i \in Known : /\ claimedBy[i] = None /\ ~Completed(i)
                   /\ \A k \in deps[i] \cap Known : Completed(k) \/ claimedBy[k] # None}

\* isWorkItemAvailable()
Available ==
    {i \in Known : /\ claimedBy[i] = None /\ ~Completed(i)
                   /\ \A k \in deps[i] \cap Known : Completed(k)}

\* syncCrewItems(): the items of the message are inserted or updated, and those
\* this daemon created that are no longer in it count as completed.
New(listed) == listed \ Known

Dropped(d, listed) == {i \in Known \ listed : creator[i] = d /\ ~Completed(i)}

\* Mutant: the claim on a dropped item is kept.
DroppedStaysClaimed(d, listed) ==
    /\ completedBy' = [i \in Items |-> IF i \in Dropped(d, listed) THEN d ELSE completedBy[i]]
    /\ UNCHANGED claimedBy

ReconcileDropped(d, listed) ==
    /\ completedBy' = [i \in Items |-> IF i \in Dropped(d, listed) THEN d ELSE completedBy[i]]
    /\ claimedBy' = [i \in Items |-> IF i \in Dropped(d, listed) THEN None ELSE claimedBy[i]]

\* `listed` are the items of the message, `tracked` those whose names its
\* dependency lists may mention.
SyncCrewItems(d, listed, tracked) ==
    /\ d \in joined
    /\ clock' = IF New(listed) = {} THEN clock ELSE clock + 1
    /\ clock' <= MaxSyncs
    /\ syncedAt' = [i \in Items |-> IF i \in New(listed) THEN clock' ELSE syncedAt[i]]
    /\ creator' = [i \in Items |-> IF i \in New(listed) THEN d ELSE creator[i]]
    /\ deps' = [i \in Items |-> IF i \in listed THEN Dependencies[i] \cap tracked ELSE deps[i]]
    /\ ReconcileDropped(d, listed)
    /\ UNCHANGED <<daemonVars, saved>>

\* The order in which a daemon is offered items: its operator's own first, then
\* by priority, then the oldest.
Affinity(d, i) == IF i \in Authored[d] THEN 0 ELSE 1

Before(d, i, k) ==
    \/ Affinity(d, i) < Affinity(d, k)
    \/ Affinity(d, i) = Affinity(d, k) /\ Priority[i] < Priority[k]
    \/ Affinity(d, i) = Affinity(d, k) /\ Priority[i] = Priority[k] /\ syncedAt[i] < syncedAt[k]

Offered(d) == {i \in Available : \A k \in Available : ~Before(d, k, i)}

Assigned(d, i) ==
    /\ claimedBy' = [claimedBy EXCEPT ![i] = d]
    /\ held' = [held EXCEPT ![d] = @ \cup {i}]

\* claimNextWorkItem().  Neither the socket nor `released` is looked at.
ClaimNextWorkItem(d, i) ==
    /\ d \in joined
    /\ i \in Offered(d)
    /\ Assigned(d, i)
    /\ UNCHANGED <<syncedAt, creator, deps, completedBy,
                   joined, online, away, released, clock, saved>>

\* completeWorkItem()
CompleteWorkItem(d, i) ==
    /\ d \in joined
    /\ claimedBy[i] = d
    /\ held' = [held EXCEPT ![d] = @ \ {i}]
    /\ completedBy' = [completedBy EXCEPT ![i] = d]
    /\ claimedBy' = [claimedBy EXCEPT ![i] = None]
    /\ UNCHANGED <<syncedAt, creator, deps, joined, online, away, released, clock, saved>>

-----------------------------------------------------------------------------
(* The daemons. *)

\* Mutant: a daemon that reconnects forgets all it held.
HeldForgotten(d) == {}

\* What connectDaemon() keeps of claimedItems when the daemon was away.
Resumed(d) == {i \in held[d] : claimedBy[i] = d}

WasAway(d) == d \in away \cup released

\* The lists of reconnect_state: items lost to nobody, and to another daemon.
LostReleased(d) ==
    IF WasAway(d) THEN {i \in held[d] : claimedBy[i] = None} ELSE {}

LostReclaimed(d) ==
    IF WasAway(d) THEN {i \in held[d] : claimedBy[i] \notin {None, d}} ELSE {}

ConnectDaemon(d) ==
    /\ joined' = joined \cup {d}
    /\ online' = online \cup {d}
    /\ away' = away \ {d}
    /\ released' = released \ {d}
    /\ held' = IF WasAway(d) THEN [held EXCEPT ![d] = Resumed(d)] ELSE held
    /\ UNCHANGED <<itemVars, clock, saved>>

\* disconnectDaemon(), on the close event of any socket the daemon ever had,
\* and the heartbeat timeout of checkCrewHeartbeats().
DisconnectDaemon(d) ==
    /\ d \in online
    /\ online' = online \ {d}
    /\ away' = away \cup {d}
    /\ UNCHANGED <<itemVars, joined, held, released, clock, saved>>

\* Mutant: the test of the socket is inverted.
GraceGuardInverted(d) == d \in (away \cap online) \ released

GraceGuard(d) == d \in away \ (online \cup released)

\* checkCrewHeartbeats() after the grace period: releaseDaemonWorkItems().
ReleaseDaemonWorkItems(d) ==
    /\ GraceGuard(d)
    /\ claimedBy' = [i \in Items |-> IF i \in held[d] /\ claimedBy[i] = d
                                     THEN None ELSE claimedBy[i]]
    /\ released' = released \cup {d}
    /\ UNCHANGED <<syncedAt, creator, deps, completedBy,
                   joined, online, away, held, clock, saved>>

-----------------------------------------------------------------------------
(* The file. *)

\* saveCrew()
SaveCrew == saved' = Serialized /\ UNCHANGED <<itemVars, daemonVars, clock>>

SocketsRestored == {}

\* The broker stops or crashes, and loadAll() reads the file back: no daemon
\* has a socket, and disconnectedAt is what it was.
Restart ==
    /\ syncedAt' = saved.syncedAt
    /\ creator' = saved.creator
    /\ deps' = saved.deps
    /\ claimedBy' = saved.claimedBy
    /\ completedBy' = saved.completedBy
    /\ joined' = saved.joined
    /\ online' = SocketsRestored
    /\ away' = saved.away
    /\ held' = saved.held
    /\ released' = saved.released
    /\ UNCHANGED <<clock, saved>>

-----------------------------------------------------------------------------

IsSaved == saved = Serialized

Handler(d) ==
    \/ ConnectDaemon(d)
    \/ DisconnectDaemon(d)
    \/ ReleaseDaemonWorkItems(d)
    \/ \E i \in Items : ClaimNextWorkItem(d, i)
    \/ \E i \in Items : CompleteWorkItem(d, i)
    \/ \E tracked \in SUBSET Items : \E listed \in SUBSET tracked :
          SyncCrewItems(d, listed, tracked)

BrokerNext ==
    \/ IsSaved /\ \E d \in Daemons : Handler(d)
    \/ SaveCrew
    \/ Restart

BrokerSpec == BrokerInit /\ [][BrokerNext]_brokerVars

-----------------------------------------------------------------------------
(* Properties. *)

\* A claim is always recorded on both sides, so that the release after the
\* grace period and the answer to a reconnection miss none of a daemon's items;
\* a completed item is nobody's.
ClaimsAreHeld ==
    \A i \in Items : claimedBy[i] # None =>
        /\ claimedBy[i] \in joined
        /\ i \in held[claimedBy[i]]
        /\ i \in Known
        /\ ~Completed(i)

\* A released daemon is marked away: only a new connection clears either.
ReleasedAreAway == released \subseteq away /\ away \cap online = {}

\* The broker is a claim board: an item changes hands only through the board,
\* goes back to it only when its daemon has gone, and is finished once.
Board == INSTANCE ClaimBoard
    WITH poster <- creator,
         owner <- claimedBy,
         finished <- {i \in Items : Completed(i)},
         gone <- away,
         durable <- [poster |-> saved.creator,
                     owner |-> saved.claimedBy,
                     finished |-> {i \in Items : saved.completedBy[i] # None},
                     gone |-> saved.away]

ImplementsBoard == Board!BoardSpec
=============================================================================
