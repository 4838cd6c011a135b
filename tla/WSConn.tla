------------------------------- MODULE WSConn -------------------------------
(***************************************************************************)
(* One WebSocket connection: its actor, the two goroutines that read and   *)
(* write the socket (internal/wsconn), and the rooms its commands reach.   *)
(*                                                                         *)
(* The actor takes one item of its mailbox at a time: a frame its reader   *)
(* read, an event of a room, the news that the socket is closed.  A frame  *)
(* that needs a room makes a blocking Call, so a handler is two steps with *)
(* everything else in between.  Frames for the client go through a bounded *)
(* channel to the writer and are dropped when it is full.                  *)
(*                                                                         *)
(* Registry and room actors are one server here that takes the requests of *)
(* this connection in order; other connections and HTTP act on the rooms   *)
(* between them.  A frame for the client is its serial number.             *)
(***************************************************************************)
EXTENDS RoomHandlers, SequencesExt

CONSTANTS
    Me,           \* pid of this connection's actor
    Room,         \* the rooms that exist
    NoRoom,       \* a trimmed room id of no room, or none
    ClientFrame,  \* frames the client sends
    OutboundCap,  \* capacity of the outbound channel, 32 in the code
    Faults,       \* what may go wrong, a subset of AllFaults
    MaxFrames,    \* bound: frames the client sends
    MaxOthers     \* bound: commands of other clients

\* timeout: the Call of the connection actor times out although the request is
\* under way.  refused: registry or room answer Fail, with nothing done.
\* failed, lost: outcomes of a Redis write.  rehydrate: the room is unloaded and
\* hydrated again.
AllFaults == {"timeout", "refused", "failed", "lost", "rehydrate"}

\* A frame names its room by an id; handlers trim it, and only that form is kept.
RoomID == Room \cup {NoRoom}

FrameType == {"join", "leave", "message", "query", "ping"}

ASSUME ConnectionAssumption == Me \in Conn /\ NoRoom \notin Room
ASSUME FrameAssumption == ClientFrame \subseteq [type : FrameType, room : RoomID, nick : Raw]
ASSUME CapAssumption2 == OutboundCap \in Nat \ {0} /\ Faults \subseteq AllFaults
ASSUME BoundAssumption == MaxFrames \in Nat /\ MaxOthers \in Nat

VARIABLES
    actor,     \* "running", "cleaning" after socketClosed, or "stopped"
    mailbox,   \* Actor's mailbox
    call,      \* the Call the actor waits for
    todo,      \* rooms leaveJoinedRooms has not left yet
    joined,    \* Actor.joined, Blank where the map has no key
    unsure,    \* history: rooms whose last join or leave it was not told OK for
    outbound,  \* Actor.outbound; closed once the actor is stopped
    reader,    \* readLoop: "reading" or "done"
    writer,    \* writeLoop: the frame it writes, 0 when it waits, -1 when done
    socket,    \* "open" or "closed"
    wire,      \* frames the client received
    made,      \* number of frames handed to enqueue
    dropped,   \* history: the frames that found the channel full
    requests,  \* requests on their way to registry and rooms
    members,   \* RoomActor.members of each room
    redis,     \* snapshot and messages of each room
    joiner,    \* history: who was the last to join each room under each nick
    unloaded,  \* history: rooms unloaded since this connection last joined them
    sent,      \* number of frames the client has sent
    others     \* number of commands other clients have made

io == <<reader, writer, socket, wire>>
channel == <<outbound, made, dropped>>
rooms == <<members, redis, joiner, unloaded>>
server == <<requests, rooms>>
vars == <<actor, mailbox, call, todo, joined, unsure, channel, io, server, sent, others>>

NoCall == [type |-> "none", room |-> NoRoom, nick |-> Blank, answer |-> "none"]

Frame(f) == [kind |-> "frame", frame |-> f]
NoFrame == [type |-> "ping", room |-> NoRoom, nick |-> Blank]
RoomEvent == [kind |-> "event", frame |-> NoFrame]
SocketClosed == [kind |-> "closed", frame |-> NoFrame]

\* Init starts both goroutines and enqueues the welcome frame; no message is
\* handled before it returns.
Init ==
    /\ actor = "running"
    /\ mailbox = <<>>
    /\ call = NoCall
    /\ todo = {}
    /\ joined = [r \in Room |-> Blank] /\ unsure = {}
    /\ outbound = <<1>> /\ made = 1 /\ dropped = {}
    /\ reader = "reading" /\ writer = 0
    /\ socket = "open"
    /\ wire = <<>>
    /\ requests = <<>>
    /\ members = [r \in Room |-> [n \in Nick |-> NotMember]]
    /\ redis = [r \in Room |-> [snapshot |-> {}, history |-> <<>>]]
    /\ joiner = members /\ unloaded = {}
    /\ sent = 0 /\ others = 0

-----------------------------------------------------------------------------
(* The goroutines and the client.                                           *)

Post(items) == mailbox' = IF actor = "stopped" THEN mailbox ELSE mailbox \o items

ReadFrame == \E f \in ClientFrame :
    /\ reader = "reading" /\ socket = "open" /\ sent < MaxFrames
    /\ Post(<<Frame(f)>>)
    /\ sent' = sent + 1
    /\ UNCHANGED <<actor, call, todo, joined, unsure, channel, io, server, others>>

\* ReadJSON fails when the socket is closed, on malformed JSON, and on a frame
\* above the read limit.
ReadFails ==
    /\ reader = "reading"
    /\ reader' = "done"
    /\ Post(<<SocketClosed>>)
    /\ UNCHANGED <<actor, call, todo, joined, unsure, channel, writer, socket, wire,
                   server, sent, others>>

\* The client goes away, or the network does.
Disconnect ==
    /\ socket = "open"
    /\ socket' = "closed"
    /\ UNCHANGED <<actor, mailbox, call, todo, joined, unsure, channel, reader, writer, wire,
                   server, sent, others>>

TakeFrame ==
    /\ writer = 0 /\ outbound # <<>>
    /\ writer' = Head(outbound)
    /\ outbound' = Tail(outbound)
    /\ UNCHANGED <<actor, mailbox, call, todo, joined, unsure, made, dropped, reader, socket, wire,
                   server, sent, others>>

\* What is written to a socket the client has left may vanish without an error.
WriteFrame ==
    /\ writer > 0 /\ actor # "stopped"
    /\ wire' = IF socket = "open" THEN Append(wire, writer) ELSE wire
    /\ writer' = 0
    /\ UNCHANGED <<actor, mailbox, call, todo, joined, unsure, channel, reader, socket,
                   server, sent, others>>

\* A write fails on a closed socket, and on an open one when the client reads
\* so slowly that the deadline passes; the actor is not told.
WriteFails ==
    /\ writer > 0
    /\ writer' = -1
    /\ UNCHANGED <<actor, mailbox, call, todo, joined, unsure, channel, reader, socket, wire,
                   server, sent, others>>

\* The range over the channel ends when it is closed and empty.
WriterEnds ==
    /\ writer = 0 /\ outbound = <<>> /\ actor = "stopped"
    /\ writer' = -1
    /\ UNCHANGED <<actor, mailbox, call, todo, joined, unsure, channel, reader, socket, wire,
                   server, sent, others>>

-----------------------------------------------------------------------------
(* The actor.                                                               *)

\* Mutants: a goroutine per frame, in no particular order; the actor waits for
\* room in the channel; the channel has no bound.
EnqueueUnordered ==
    /\ made' = made + 1
    /\ outbound' = <<made + 1>> \o outbound
    /\ UNCHANGED dropped

EnqueueBlocks ==
    /\ Len(outbound) < OutboundCap
    /\ made' = made + 1
    /\ outbound' = Append(outbound, made + 1)
    /\ UNCHANGED dropped

EnqueueUnbounded ==
    /\ made' = made + 1
    /\ outbound' = Append(outbound, made + 1)
    /\ UNCHANGED dropped

enqueue ==
    /\ made' = made + 1
    /\ IF Len(outbound) < OutboundCap
       THEN outbound' = Append(outbound, made + 1) /\ UNCHANGED dropped
       ELSE dropped' = dropped \cup {made + 1} /\ UNCHANGED outbound

\* The next item of the mailbox, while the actor waits for nothing.
Receive(kind) ==
    /\ actor = "running" /\ call = NoCall
    /\ mailbox # <<>> /\ Head(mailbox).kind = kind
    /\ mailbox' = Tail(mailbox)

Ask(type, room, nick) ==
    /\ call' = [type |-> type, room |-> room, nick |-> nick, answer |-> "none"]
    /\ requests' = Append(requests, [type |-> type, room |-> room, nick |-> nick,
                                     awaited |-> TRUE])

\* A command goes to the registry; leave and message fall back on the nick
\* this connection joined the room with.
SendCommand ==
    /\ Receive("frame")
    /\ LET f == Head(mailbox).frame
           nick == TrimSpace[f.nick]
           own == IF f.room \in Room THEN joined[f.room] ELSE Blank
       IN  /\ f.type # "ping"
           /\ Ask(f.type, f.room,
                  IF f.type \in {"leave", "message"} /\ nick = Blank THEN own ELSE nick)
    /\ UNCHANGED <<actor, todo, joined, unsure, channel, io, rooms, sent, others>>

\* Answered by the actor itself: ping and unknown types.
AnswerPing ==
    /\ Receive("frame")
    /\ Head(mailbox).frame.type = "ping"
    /\ enqueue
    /\ UNCHANGED <<actor, call, todo, joined, unsure, io, server, sent, others>>

ForwardEvent ==
    /\ Receive("event")
    /\ enqueue
    /\ UNCHANGED <<actor, call, todo, joined, unsure, io, server, sent, others>>

\* What the actor knows of the room it has asked to join or leave.
Note ==
    unsure' = IF call.type \notin {"join", "leave"} \/ call.room \notin Room THEN unsure
              ELSE IF call.answer = "ok" THEN unsure \ {call.room}
              ELSE IF call.nick # Blank THEN unsure \cup {call.room}
              ELSE unsure

\* Mutant of CommandReturns: joined forgets a room after a message too.
ForgetsOnMessage ==
    /\ actor = "running" /\ call.answer # "none"
    /\ enqueue
    /\ joined' = IF call.answer # "ok" \/ call.room \notin Room THEN joined
                 ELSE IF call.type = "join" THEN [joined EXCEPT ![call.room] = call.nick]
                 ELSE [joined EXCEPT ![call.room] = Blank]
    /\ Note
    /\ call' = NoCall
    /\ UNCHANGED <<actor, mailbox, todo, io, server, sent, others>>

\* The Call returns: the result goes to the client, and joined follows a join or
\* a leave that was answered OK.
CommandReturns ==
    /\ actor = "running" /\ call.answer # "none"
    /\ enqueue
    /\ joined' = IF call.answer # "ok" \/ call.room \notin Room THEN joined
                 ELSE IF call.type = "join" THEN [joined EXCEPT ![call.room] = call.nick]
                 ELSE IF call.type = "leave" THEN [joined EXCEPT ![call.room] = Blank]
                 ELSE joined
    /\ Note
    /\ call' = NoCall
    /\ UNCHANGED <<actor, mailbox, todo, io, server, sent, others>>

StartCleanup ==
    /\ Receive("closed")
    /\ actor' = "cleaning"
    /\ todo' = {r \in Room : joined[r] # Blank}
    /\ UNCHANGED <<call, joined, unsure, channel, io, server, sent, others>>

\* Mutant: the rooms of a closed connection are left as by HTTP, without its pid.
LeaveAnonymously == \E r \in todo :
    /\ actor = "cleaning" /\ call = NoCall
    /\ call' = [type |-> "leave", room |-> r, nick |-> joined[r], answer |-> "none"]
    /\ requests' = Append(requests, [type |-> "evict", room |-> r, nick |-> joined[r],
                                     awaited |-> TRUE])
    /\ todo' = todo \ {r}
    /\ UNCHANGED <<actor, mailbox, joined, unsure, channel, io, rooms, sent, others>>

LeaveNext == \E r \in todo :
    /\ actor = "cleaning" /\ call = NoCall
    /\ Ask("leave", r, joined[r])
    /\ todo' = todo \ {r}
    /\ UNCHANGED <<actor, mailbox, joined, unsure, channel, io, rooms, sent, others>>

\* Whatever the answer, leaveJoinedRooms goes on.
LeaveReturns ==
    /\ actor = "cleaning" /\ call.answer # "none"
    /\ Note
    /\ call' = NoCall
    /\ UNCHANGED <<actor, mailbox, todo, joined, channel, io, server, sent, others>>

\* Terminate closes the channel and the socket; what is in the mailbox is lost.
Terminate ==
    /\ actor = "cleaning" /\ call = NoCall /\ todo = {}
    /\ actor' = "stopped"
    /\ mailbox' = <<>>
    /\ socket' = "closed"
    /\ UNCHANGED <<call, todo, joined, unsure, channel, reader, writer, wire, server, sent, others>>

CallTimeout ==
    /\ "timeout" \in Faults
    /\ call # NoCall /\ call.answer = "none"
    /\ call' = [call EXCEPT !.answer = "error"]
    /\ requests' = [i \in DOMAIN requests |-> [requests[i] EXCEPT !.awaited = FALSE]]
    /\ UNCHANGED <<actor, mailbox, todo, joined, unsure, channel, io, rooms, sent, others>>

-----------------------------------------------------------------------------
(* Registry and rooms.                                                      *)

WriteOutcomes == {"ok"} \cup (Faults \cap {"failed", "lost"})

\* A join is remembered whatever becomes of its write: the map has the member.
Remember(r, plan, n, c) ==
    IF plan.event = "join"
    THEN /\ joiner' = [joiner EXCEPT ![r][n] = c]
         /\ unloaded' = IF c = Me THEN unloaded \ {r} ELSE unloaded
    ELSE UNCHANGED <<joiner, unloaded>>

\* Room r carries out a plan and the write ends as w: one copy of the event
\* reaches this connection for every nick it is registered as.
Carry(r, plan, w) ==
    /\ members' = [members EXCEPT ![r] = plan.members]
    /\ redis' = IF plan.writes /\ w # "failed"
                THEN [redis EXCEPT ![r] = Written(@, WriteOf(plan))] ELSE redis
    /\ Post(IF plan.writes /\ w = "ok" /\ plan.event # "none"
            THEN [i \in 1..broadcast(plan.members)[Me] |-> RoomEvent] ELSE <<>>)

\* A message's text is not blank, and no property tells texts apart.
PlanFor(m, req) ==
    CASE req.type = "join"    -> join(m, req.nick, Me)
      [] req.type = "leave"   -> leave(m, req.nick, Me)
      [] req.type = "evict"   -> leave(m, req.nick, NoConn)
      [] req.type = "message" -> postMessage(m, req.nick, req.nick, Me, 1)
      [] OTHER                -> Answer(m, TRUE)

Reply(req, result) ==
    /\ requests' = Tail(requests)
    /\ call' = IF req.awaited THEN [call EXCEPT !.answer = result] ELSE call

ServeRequest ==
    /\ requests # <<>>
    /\ Head(requests).room \in Room
    /\ LET req == Head(requests)
           plan == PlanFor(members[req.room], req)
       IN  \E w \in IF plan.writes THEN WriteOutcomes ELSE {"ok"} :
            /\ Carry(req.room, plan, w)
            /\ Remember(req.room, plan, req.nick, Me)
            /\ Reply(req, IF plan.ok /\ w = "ok" THEN "ok" ELSE "fail")
    /\ UNCHANGED <<actor, todo, joined, unsure, channel, io, sent, others>>

\* A query that needs no room, or: no such room, the registry is draining or gone, or Redis cannot be read.
RefuseRequest ==
    /\ requests # <<>>
    /\ Head(requests).room \notin Room \/ "refused" \in Faults
    /\ \E result \in {"ok", "fail"} :
        /\ Head(requests).type # "query" => result = "fail"
        /\ Reply(Head(requests), result)
    /\ UNCHANGED <<actor, mailbox, todo, joined, unsure, channel, io, rooms, sent, others>>

\* Another connection or HTTP joins, or leaves.
OtherClient == \E r \in Room, n \in Nick, c \in Sender \ {Me}, w \in WriteOutcomes :
    /\ others < MaxOthers
    /\ others' = others + 1
    /\ \E plan \in {join(members[r], n, c), leave(members[r], n, c)} :
        /\ plan.writes
        /\ Carry(r, plan, w)
        /\ Remember(r, plan, n, c)
    /\ UNCHANGED <<actor, call, todo, joined, unsure, channel, io, requests, sent>>

\* The room is unloaded, which drains it, and hydrated for its next request.
Rehydrate == \E r \in Room :
    /\ "rehydrate" \in Faults
    /\ others < MaxOthers
    /\ others' = others + 1
    /\ redis' = [redis EXCEPT ![r] = Written(@, WriteOf(drain(members[r])))]
    /\ members' = [members EXCEPT ![r] = hydrate(memberList(@))]
    /\ unloaded' = unloaded \cup {r}
    /\ UNCHANGED <<joiner, actor, mailbox, call, todo, joined, unsure, channel, io, requests, sent>>

ActorStep ==
    \/ SendCommand \/ AnswerPing \/ ForwardEvent \/ CommandReturns
    \/ StartCleanup \/ LeaveNext \/ LeaveReturns \/ Terminate

WriterStep == TakeFrame \/ WriteFrame \/ WriteFails \/ WriterEnds

ServerStep == ServeRequest \/ RefuseRequest

Next ==
    \/ ReadFrame \/ ReadFails \/ Disconnect
    \/ WriterStep
    \/ ActorStep \/ CallTimeout
    \/ ServerStep \/ OtherClient \/ Rehydrate
    \/ /\ actor = "stopped" /\ reader = "done" /\ writer = -1 /\ requests = <<>>
       /\ UNCHANGED vars

Spec == Init /\ [][Next]_vars

\* Goroutines and actors run; a read from a closed socket fails.
Fairness ==
    /\ WF_vars(socket = "closed" /\ ReadFails)
    /\ WF_vars(WriterStep)
    /\ WF_vars(ActorStep)
    /\ WF_vars(ServerStep)

FairSpec == Spec /\ Fairness
-----------------------------------------------------------------------------
(* Properties.                                                              *)

TypeOK ==
    /\ actor \in {"running", "cleaning", "stopped"}
    /\ mailbox \in Seq({RoomEvent, SocketClosed} \cup {Frame(f) : f \in ClientFrame})
    /\ call \in [type : FrameType \cup {"none"}, room : RoomID, nick : Trimmed,
                 answer : {"none", "ok", "fail", "error"}]
    /\ todo \subseteq Room
    /\ joined \in [Room -> Nick \cup {Blank}] /\ unsure \subseteq Room
    /\ outbound \in Seq(1..made) /\ Len(outbound) <= OutboundCap
    /\ reader \in {"reading", "done"} /\ writer \in -1..made
    /\ socket \in {"open", "closed"}
    /\ wire \in Seq(1..made)
    /\ made \in Nat /\ dropped \subseteq 1..made
    /\ requests \in Seq([type : FrameType, room : RoomID, nick : Trimmed, awaited : BOOLEAN])
    /\ members \in [Room -> Members]
    /\ redis \in [Room -> [snapshot : SUBSET Nick, history : Seq(Message)]]
    /\ joiner \in [Room -> Members] /\ unloaded \subseteq Room
    /\ sent \in 0..MaxFrames /\ others \in 0..MaxOthers

UnderWay == wire \o (IF writer > 0 THEN <<writer>> ELSE <<>>) \o outbound

\* The client gets the frames in the order the actor made them, the welcome
\* first, whatever the channel dropped; as long as socket and writer live, a
\* frame is missing only if it found the channel full (io.go:30-48).
FramesInOrder ==
    /\ \A i, j \in DOMAIN UnderWay : i < j => UnderWay[i] < UnderWay[j]
    /\ wire # <<>> => wire[1] = 1
    /\ socket = "open" /\ writer # -1 =>
          /\ ToSet(UnderWay) \cup dropped = 1..made
          /\ ToSet(UnderWay) \cap dropped = {}

\* A member that nobody but this connection accounts for, whether or not the
\* room still knows its pid.
Stays(r, n) == members[r][n] # NotMember /\ joiner[r][n] = Me

\* client_queries.go:27: presence is cleaned up so that a member whose
\* connection is gone does not stay in the room.  So once the actor has stopped
\* and its requests are served, no room has a member that it was the last to join.
GoneMeansLeft ==
    actor = "stopped" /\ requests = <<>> => \A r \in Room, n \in Nick : ~Stays(r, n)

\* Whatever is refused, fails, is lost or times out, a connection that is gone
\* leaves members behind only in two kinds of rooms.  One is a room whose last
\* join or leave it was not told OK for: a call that took effect after all, or a
\* request still under way when its Call gave up, is never forgotten for one that
\* went well (client_commands.go:43-48,65-69, client_queries.go:28-36).  The
\* other is a room that was unloaded since it joined: hydrate loses the pid, and
\* the leave of the cleanup is answered OK and ignored (room_members.go:51-53).
OnlyUnsureStay ==
    actor = "stopped" /\ requests = <<>> =>
        \A r \in Room, n \in Nick : Stays(r, n) => r \in unsure \cup unloaded

\* A connection that another one has replaced, by joining with the same nick,
\* takes nothing from it: neither its commands nor its late cleanup remove a
\* member that is registered for somebody else (room_members.go:49-53).
TakeoverSurvives == [][\A r \in Room, n \in Nick :
    /\ members[r][n] \notin {Me, NotMember}
    /\ requests' # requests
    => members'[r][n] # NotMember]_vars

\* A connection whose socket is closed unwinds: reader, writer and actor end,
\* even if the writer gave up first and the channel is full.
Unwinds == (socket = "closed") ~> (actor = "stopped" /\ reader = "done" /\ writer = -1)
=============================================================================
