----------------------------- MODULE RoomStore -----------------------------
(***************************************************************************)
(* What the rooms promise, whatever serves them.  A room is a set of       *)
(* members as anybody who asks now sees it, and a set of members and a     *)
(* list of messages that outlive every actor.  There are no actors, pids,  *)
(* mailboxes, timeouts or plans here: a room changes in one step, it       *)
(* stores what it shows or nothing at all, and only a change it has stored *)
(* is answered OK.  Room implements this for one room over the lives of    *)
(* its actor, Registry for all rooms behind one registry.                  *)
(***************************************************************************)
EXTENDS Integers, Sequences

CONSTANTS
    Room,        \* identities of rooms
    Nick,        \* who can be a member
    HistoryCap   \* messages a room keeps

VARIABLES
    view,    \* the members of each room for whoever asks now
    stored,  \* the members the room has after a restart
    posts,   \* the messages it keeps
    told     \* whether its last answer was OK

vars == <<view, stored, posts, told>>

Init ==
    /\ stored \in [Room -> SUBSET Nick]
    /\ view = stored
    /\ posts = [r \in Room |-> <<>>]
    /\ told = [r \in Room |-> FALSE]

\* At most one member comes or goes.
Moves(r) == \/ view'[r] = view[r]
            \/ \E n \in Nick : view'[r] \in {view[r] \cup {n}, view[r] \ {n}}

\* A member has appended one message, which pushes out the oldest of a full list.
Posts(r) ==
    LET newest == posts'[r][Len(posts'[r])]
        all == Append(posts[r], newest)
        drop == IF Len(all) > HistoryCap THEN Len(all) - HistoryCap ELSE 0
    IN  /\ posts'[r] # <<>>
        /\ newest.from \in view[r]
        /\ posts'[r] = SubSeq(all, drop + 1, Len(all))
        /\ view'[r] = view[r]

\* A change that is stored, with everything the room shows; its OK may be lost.
Commit(r) ==
    /\ Moves(r)
    /\ stored'[r] = view'[r]
    /\ posts'[r] = posts[r] \/ Posts(r)

\* A change that could not be stored is not answered OK.
Attempt(r) ==
    /\ Moves(r)
    /\ UNCHANGED <<stored[r], posts[r]>>
    /\ ~told'[r]

\* A query, a refusal, or a request that finds nothing to change.
Answer(r) == UNCHANGED <<view[r], stored[r], posts[r]>>

\* The room is served anew from what it has stored.
Restart(r) ==
    /\ view'[r] = stored[r]
    /\ UNCHANGED <<stored[r], posts[r]>>

\* Rooms are independent: what one does constrains no other.
Next == \A r \in Room : Commit(r) \/ Attempt(r) \/ Answer(r) \/ Restart(r)

Spec == Init /\ [][Next]_vars
=============================================================================
