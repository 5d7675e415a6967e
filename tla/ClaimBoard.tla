----------------------------- MODULE ClaimBoard -----------------------------
(***************************************************************************)
(* What the crew broker promises, without its bookkeeping: a board of      *)
(* posted items, each owned by at most one daemon, taken from the board by *)
(* a daemon and given back only when that daemon has gone.  A finished     *)
(* item stays finished.  The board is written to a durable copy after each *)
(* change; a crash before the write loses that one change and no other.    *)
(***************************************************************************)
CONSTANTS Items, Daemons, None

VARIABLES
    poster,   \* the daemon that posted an item first, or None
    owner,    \* the daemon that has claimed it, or None
    finished, \* items that nobody needs to take any more
    gone,     \* daemons known to have disconnected
    durable   \* the board as last written

board == [poster |-> poster, owner |-> owner, finished |-> finished, gone |-> gone]
boardVars == <<poster, owner, finished, gone, durable>>

Posted == {i \in Items : poster[i] # None}
Untaken == {i \in Posted : owner[i] = None /\ i \notin finished}

BoardInit ==
    /\ poster = [i \in Items |-> None]
    /\ owner = [i \in Items |-> None]
    /\ finished = {}
    /\ gone = {}
    /\ durable = board

\* A daemon posts new items, and withdraws unfinished ones that it posted.
Repost(d) ==
    \E new \in SUBSET (Items \ Posted) :
    \E withdrawn \in SUBSET {i \in Posted \ finished : poster[i] = d} :
        /\ poster' = [i \in Items |-> IF i \in new THEN d ELSE poster[i]]
        /\ owner' = [i \in Items |-> IF i \in withdrawn THEN None ELSE owner[i]]
        /\ finished' = finished \cup withdrawn
        /\ UNCHANGED <<gone, durable>>

Take(d) ==
    /\ \E i \in Untaken : owner' = [owner EXCEPT ![i] = d]
    /\ UNCHANGED <<poster, finished, gone, durable>>

Finish(d) ==
    \E i \in Items :
        /\ owner[i] = d
        /\ owner' = [owner EXCEPT ![i] = None]
        /\ finished' = finished \cup {i}
        /\ UNCHANGED <<poster, gone, durable>>

Leave(d) == gone' = gone \cup {d} /\ UNCHANGED <<poster, owner, finished, durable>>

Return(d) == gone' = gone \ {d} /\ UNCHANGED <<poster, owner, finished, durable>>

\* All that a daemon owns goes back to the board, once it has gone.
GiveBack(d) ==
    /\ d \in gone
    /\ owner' = [i \in Items |-> IF owner[i] = d THEN None ELSE owner[i]]
    /\ UNCHANGED <<poster, finished, gone, durable>>

Write == durable' = board /\ UNCHANGED <<poster, owner, finished, gone>>

Crash ==
    /\ poster' = durable.poster
    /\ owner' = durable.owner
    /\ finished' = durable.finished
    /\ gone' = durable.gone
    /\ UNCHANGED durable

\* Nothing changes the board before its last change has been written.
Change(d) ==
    /\ durable = board
    /\ Repost(d) \/ Take(d) \/ Finish(d) \/ Leave(d) \/ Return(d) \/ GiveBack(d)

BoardNext == (\E d \in Daemons : Change(d)) \/ Write \/ Crash

BoardSpec == BoardInit /\ [][BoardNext]_boardVars
=============================================================================
