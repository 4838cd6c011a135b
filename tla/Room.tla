-------------------------------- MODULE Room --------------------------------
(***************************************************************************)
(* One room over any number of lives of its actor.  The registry spawns a  *)
(* RoomActor, which hydrates from Redis, serves commands one at a time in  *)
(* any order, and ends by an exit signal or a crash; Redis keeps the       *)
(* snapshot and the message list in between.                               *)
(*                                                                         *)
(* A command's only interaction with the outside before its answer is one  *)
(* Redis write, so a command is one step.  The write has four outcomes:    *)
(*   ok      applied, acknowledged                                         *)
(*   failed  never applied, the client library reports an error            *)
(*   lost    applied, but the acknowledgement is lost or past the deadline *)
(*   late    the deadline passes while the command is still on its way;    *)
(*           Redis applies it at some later time                           *)
(***************************************************************************)
EXTENDS RoomHandlers

CONSTANTS
    WriteOutcomes,  \* the outcomes Redis may produce, a subset of AllOutcomes
    Text,           \* strings clients send as texts
    Limits,         \* values of ListMessages.Limit
    MaxPosts,       \* bound: messages the room ever creates
    MaxLate         \* bound: late writes on their way at one time

AllOutcomes == {"ok", "failed", "lost", "late"}

ASSUME OutcomeAssumption == WriteOutcomes \subseteq AllOutcomes
ASSUME TextAssumption == Text \subseteq Raw
ASSUME LimitAssumption == Limits \subseteq Int
ASSUME BoundAssumption == MaxPosts \in Nat /\ MaxLate \in Nat

VARIABLES
    alive,    \* a RoomActor process for this room exists
    members,  \* RoomActor.members; meaningless when not alive
    redis,    \* the snapshot and the message list of the room
    pending,  \* late writes
    reply,    \* the answer to the last command
    pushed,   \* the event the last step broadcast
    clean,    \* history: the actor's last write, if any, was acknowledged, and
              \* no late write has landed since
    promise,  \* history: what the last answers told clients about each nick
    log,      \* history: every message Redis has applied, in that order
    acked,    \* history: the messages whose sender was answered OK
    clock     \* number of messages created, the source of CreatedAt

vars == <<alive, members, redis, pending, reply, pushed, clean, promise, log, acked, clock>>

Result(op, ok) == [op |-> op, ok |-> ok, limit |-> 0, rows |-> <<>>]
NoReply == Result("none", FALSE)
NoEvent == [event |-> "none", members |-> {}, post |-> NoPost]

Reply == [op : {"none", "join", "leave", "message", "drain", "get", "list"}, ok : BOOLEAN,
          limit : Int, rows : Seq(Message)]
Push == [event : Event, members : SUBSET Nick, post : Message \cup {NoPost}]

NoMembers == [n \in Nick |-> NotMember]

\* createRoom has written the initial snapshot; the actor is not spawned yet.
Init ==
    /\ alive = FALSE
    /\ members = NoMembers
    /\ redis = [snapshot |-> {}, history |-> <<>>]
    /\ pending = {}
    /\ reply = NoReply
    /\ pushed = NoEvent
    /\ clean = TRUE
    /\ promise = [n \in Nick |-> "out"]
    /\ log = <<>>
    /\ acked = {}
    /\ clock = 0

-----------------------------------------------------------------------------
\* A command's plan carried out: the map is changed first, then Redis is
\* written, and an event goes out only when the write was acknowledged.
Perform(op, plan, w) ==
    /\ alive
    /\ w \in IF plan.writes THEN WriteOutcomes ELSE {"none"}
    /\ w = "late" => Cardinality(pending) < MaxLate
    /\ members' = plan.members
    /\ redis' = IF w \in {"ok", "lost"} THEN Written(redis, WriteOf(plan)) ELSE redis
    /\ pending' = IF w = "late" THEN pending \cup {WriteOf(plan)} ELSE pending
    /\ log' = IF w \in {"ok", "lost"} /\ plan.post # NoPost
              THEN Append(log, plan.post) ELSE log
    /\ acked' = IF w = "ok" /\ plan.post # NoPost THEN acked \cup {plan.post} ELSE acked
    /\ clean' = IF plan.writes THEN w = "ok" ELSE clean
    /\ reply' = Result(op, plan.ok /\ w \in {"none", "ok"})
    /\ pushed' = IF w = "ok" /\ plan.event # "none"
                 THEN [event |-> plan.event, members |-> memberList(plan.members),
                       post |-> plan.post]
                 ELSE NoEvent
    /\ UNCHANGED alive

\* What a client knows of its membership after a join or a leave.  A failed
\* join takes nothing back; a failed leave leaves the question open; OK to the
\* leave of a connection that no longer owns the nick says nothing of the nick.
Joined(n) ==
    promise' = [promise EXCEPT ![n] = IF reply'.ok THEN "in"
                                      ELSE IF @ = "out" THEN "open" ELSE @]

Left(n, plan) ==
    promise' = [promise EXCEPT ![n] =
                  IF ~reply'.ok THEN "open"
                  ELSE IF plan.writes \/ members[n] = NotMember THEN "out" ELSE @]

JoinRoom == \E name \in Raw, conn \in Sender, w \in WriteOutcomes \cup {"none"} :
    LET plan == join(members, name, conn)
    IN  /\ Perform("join", plan, w)
        /\ IF TrimSpace[name] \in Nick THEN Joined(TrimSpace[name]) ELSE UNCHANGED promise
        /\ UNCHANGED clock

LeaveRoom == \E name \in Raw, conn \in Sender, w \in WriteOutcomes \cup {"none"} :
    LET plan == leave(members, name, conn)
    IN  /\ Perform("leave", plan, w)
        /\ IF TrimSpace[name] \in Nick THEN Left(TrimSpace[name], plan) ELSE UNCHANGED promise
        /\ UNCHANGED clock

PostMessage == \E name \in Raw, text \in Text, conn \in Sender, w \in WriteOutcomes \cup {"none"} :
    LET plan == postMessage(members, name, text, conn, clock + 1)
    IN  /\ clock < MaxPosts
        /\ Perform("message", plan, w)
        /\ clock' = IF plan.post # NoPost THEN clock + 1 ELSE clock
        /\ UNCHANGED promise

DrainRegistry == \E w \in WriteOutcomes :
    /\ Perform("drain", drain(members), w)
    /\ UNCHANGED <<promise, clock>>

\* Answered from the actor's map, never from Redis; it shows memberList(members).
GetRoom ==
    /\ alive
    /\ reply' = Result("get", TRUE)
    /\ pushed' = NoEvent
    /\ UNCHANGED <<alive, members, redis, pending, clean, promise, log, acked, clock>>

\* The read may fail; a failed read changes nothing but the answer.
ListMessages == \E limit \in Limits, read \in BOOLEAN :
    /\ alive
    /\ reply' = [op |-> "list", ok |-> read, limit |-> limit,
                 rows |-> IF read THEN listMessages(redis.history, limit) ELSE <<>>]
    /\ pushed' = NoEvent
    /\ UNCHANGED <<alive, members, redis, pending, clean, promise, log, acked, clock>>

\* Spawn: Init hydrates.  When the read fails there is no actor.
Hydrate ==
    /\ ~alive
    /\ alive' = TRUE
    /\ members' = hydrate(redis.snapshot)
    /\ clean' = TRUE
    /\ reply' = NoReply
    /\ pushed' = NoEvent
    /\ UNCHANGED <<redis, pending, promise, log, acked, clock>>

\* SendExit from unload or drain, a crash, or the end of the node.
Terminate ==
    /\ alive
    /\ alive' = FALSE
    /\ members' = NoMembers
    /\ reply' = NoReply
    /\ pushed' = NoEvent
    /\ UNCHANGED <<redis, pending, clean, promise, log, acked, clock>>

\* Redis applies a command whose caller gave up on it.
LateWrite == \E w \in pending :
    /\ redis' = Written(redis, w)
    /\ pending' = pending \ {w}
    /\ log' = IF w.post # NoPost THEN Append(log, w.post) ELSE log
    /\ clean' = FALSE
    /\ reply' = NoReply
    /\ pushed' = NoEvent
    /\ UNCHANGED <<alive, members, promise, acked, clock>>

Next ==
    \/ JoinRoom
    \/ LeaveRoom
    \/ PostMessage
    \/ GetRoom
    \/ ListMessages
    \/ DrainRegistry
    \/ Hydrate
    \/ Terminate
    \/ LateWrite

Spec == Init /\ [][Next]_vars
-----------------------------------------------------------------------------
(* Properties.                                                              *)

TypeOK ==
    /\ alive \in BOOLEAN
    /\ members \in Members
    /\ redis \in [snapshot : SUBSET Nick, history : Seq(Message)]
    /\ pending \subseteq Write
    /\ reply \in Reply
    /\ pushed \in Push
    /\ clean \in BOOLEAN
    /\ promise \in [Nick -> {"in", "out", "open"}]
    /\ log \in Seq(Message)
    /\ acked \subseteq Message
    /\ clock \in Nat

\* Who is in the room: in the actor's map while it lives, else what the next
\* actor will read back.
CurrentMembers == IF alive THEN memberList(members) ELSE redis.snapshot

\* The map and the snapshot disagree only after a write whose success the actor
\* did not hear of, or one that lands late: every command that changes the map
\* writes it, hydrate reads what was written, and the next acknowledged write of
\* any command repairs it
\* (room_members.go:20-22, room_messages.go:56-61, room_storage.go:33-41).
SnapshotCurrent == alive /\ clean => redis.snapshot = memberList(members)

\* A nick that was told OK by join, and has not asked to leave since, is in the
\* snapshot and in the actor's map: no later command of another nick, failed
\* write, crash or hydrate loses it (room_members.go:12-34).
AckedJoinDurable == \A n \in Nick :
    promise[n] = "in" => n \in redis.snapshot /\ n \in CurrentMembers

\* The other half: a nick that was told OK by leave, and has not joined since,
\* is neither in the snapshot nor in the actor's map.
AckedLeaveDurable == \A n \in Nick :
    promise[n] = "out" => n \notin redis.snapshot /\ n \notin CurrentMembers

\* Clients are never told of something Redis does not hold: at the moment an
\* event goes out its member list is the stored snapshot, and its message is
\* the newest one stored (room_members.go:25, room_messages.go:67-68).
PushedIsStored == pushed.event # "none" =>
    /\ pushed.members = redis.snapshot
    /\ pushed.event = "message" =>
          /\ Len(redis.history) > 0
          /\ pushed.post = redis.history[Len(redis.history)]

\* rows is the newest k elements of all, or all of it, in order.
IsNewest(rows, all, k) ==
    /\ Len(rows) = IF Len(all) < k THEN Len(all) ELSE k
    /\ \A i \in 1..Len(rows) : rows[i] = all[Len(all) - Len(rows) + i]

\* The stored list is the newest HistoryCap of all applied messages in order,
\* and a message whose sender was told OK is in it until HistoryCap newer ones
\* push it out (room_messages.go:51-54).
HistoryIsNewest ==
    /\ IsNewest(redis.history, log, HistoryCap)
    /\ acked \subseteq {log[i] : i \in 1..Len(log)}

\* A listing shows the newest part of everything applied: as many messages as
\* were asked for when that number is from 1 to HistoryCap, and HistoryCap for
\* any other number, negative ones included (room_history.go:11-21).
ListIsNewest == reply.op = "list" /\ reply.ok =>
    IsNewest(reply.rows, log,
             IF reply.limit \in 1..HistoryCap THEN reply.limit ELSE HistoryCap)

\* Stopping an actor whose last write was acknowledged, and hydrating the next
\* one, keep the room's members (registry_route.go:52-63, room_storage.go:13-44).
RestartKeepsMembers ==
    [][alive # alive' /\ clean => CurrentMembers' = CurrentMembers]_vars

\* One room of RoomStore: what is shown is the actor's map, or what the next
\* actor will read back.
This == {"this"}

Store == INSTANCE RoomStore WITH
    Room <- This,
    view <- [r \in This |-> CurrentMembers],
    stored <- [r \in This |-> redis.snapshot],
    posts <- [r \in This |-> redis.history],
    told <- [r \in This |-> reply.ok]

\* Over all lives of its actor, with every way a write can fail but landing late,
\* the room changes by one member or message at a time, answers OK to no change
\* it has not stored whole, and comes back as what it stored
\* (room_members.go:18-34, room_messages.go:49-69, room_storage.go:13-44).
StoreSpec == Store!Spec
=============================================================================
