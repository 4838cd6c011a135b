---------------------------- MODULE RoomHandlers ----------------------------
(***************************************************************************)
(* What one command does to a RoomActor (internal/chat/room_*.go), as a    *)
(* function of the actor's member map.  RoomActor.HandleCall runs one      *)
(* command at a time and every command has the same shape: trim and check  *)
(* the arguments, change the map, write Redis once, and only when Redis    *)
(* acknowledged the write broadcast an event and answer OK.  An operator   *)
(* of this module returns that plan; the modules that use it decide what   *)
(* Redis does with the write.                                              *)
(*                                                                         *)
(* A member map is a total function from nicks: NotMember for a nick that  *)
(* is not a key of the Go map, NoConn for a member whose pid is the zero   *)
(* gen.PID (joined over HTTP, or read back by hydrate), otherwise the      *)
(* connection actor of the member.                                         *)
(***************************************************************************)
EXTENDS Integers, Sequences, FiniteSets

CONSTANTS
    Raw,         \* strings a client may send where a nick or a text is expected
    Blank,       \* the empty string
    TrimSpace,   \* strings.TrimSpace, as a function on Raw
    Conn,        \* pids of WebSocket connection actors
    NoConn,      \* gen.PID{}: a command that came over HTTP
    NotMember,   \* absence from the member map
    HistoryCap   \* the 100 of LTRIM and of the limit clamp

ASSUME TrimAssumption ==
    /\ Blank \in Raw
    /\ TrimSpace \in [Raw -> Raw]
    /\ TrimSpace[Blank] = Blank
    /\ \A s \in Raw : TrimSpace[TrimSpace[s]] = TrimSpace[s]

ASSUME ConnAssumption ==
    /\ NoConn \notin Conn
    /\ NotMember \notin Conn
    /\ NoConn # NotMember

ASSUME CapAssumption == HistoryCap \in Nat \ {0}

Trimmed == {TrimSpace[s] : s \in Raw}

\* The keys the member map can have: join refuses a blank nick.
Nick == Trimmed \ {Blank}

Sender == Conn \cup {NoConn}

Members == [Nick -> Sender \cup {NotMember}]

memberList(m) == {n \in Nick : m[n] # NotMember}

\* The member map Init builds from a snapshot: every pid is lost.
hydrate(snap) ==
    [n \in Nick |-> IF n \in {TrimSpace[s] : s \in snap} THEN NoConn ELSE NotMember]

\* The connections that receive an event, with how many copies each is sent:
\* the loop runs over members, not over connections.
broadcast(m) == [c \in Conn |-> Cardinality({n \in Nick : m[n] = c})]

-----------------------------------------------------------------------------
(* Messages and the Redis list that keeps the last HistoryCap of them.      *)

Message == [from : Nick, text : Nick, at : Nat]

NoPost == [from |-> Blank, text |-> Blank, at |-> 0]

\* LRANGE key start -1 and LTRIM key start -1: a negative start counts from
\* the end and is clamped to the head, a start past the end gives nothing.
FromIndex(s, start) ==
    LET first == IF start >= 0 THEN start
                 ELSE IF Len(s) + start < 0 THEN 0 ELSE Len(s) + start
    IN  SubSeq(s, first + 1, Len(s))

\* Mutant of ClampLimit: only the upper bound is enforced.
ClampAbove(limit) == IF limit > HistoryCap THEN HistoryCap ELSE limit

ClampLimit(limit) == IF limit <= 0 \/ limit > HistoryCap THEN HistoryCap ELSE limit

listMessages(rows, limit) == FromIndex(rows, - ClampLimit(limit))

-----------------------------------------------------------------------------
(* The single Redis write a command makes: SET of the snapshot, and for a   *)
(* message also RPUSH and LTRIM in the same MULTI.                          *)

Write == [snapshot : SUBSET Nick, post : Message \cup {NoPost}]

\* Mutant of Written: LTRIM 0 99, which keeps the oldest messages.
TrimsNewest(db, w) ==
    [snapshot |-> w.snapshot,
     history  |-> IF w.post = NoPost THEN db.history
                  ELSE LET all == Append(db.history, w.post)
                       IN  IF Len(all) > HistoryCap THEN SubSeq(all, 1, HistoryCap) ELSE all]

Written(db, w) ==
    [snapshot |-> w.snapshot,
     history  |-> IF w.post = NoPost THEN db.history
                  ELSE FromIndex(Append(db.history, w.post), - HistoryCap)]

Event == {"none", "join", "leave", "message"}

Plan == [members : Members, writes : BOOLEAN, post : Message \cup {NoPost},
         event : Event, ok : BOOLEAN]

\* A command that answers before it reaches Redis.
Answer(m, ok) ==
    [members |-> m, writes |-> FALSE, post |-> NoPost, event |-> "none", ok |-> ok]

\* A command that writes the snapshot of map m and, once Redis acknowledged
\* the write, announces event and answers OK.
persistSnapshot(m, post, event) ==
    [members |-> m, writes |-> TRUE, post |-> post, event |-> event, ok |-> TRUE]

\* Mutant of WriteOf: members without a live connection are left out.
WriteConnected(plan) ==
    [snapshot |-> {n \in Nick : plan.members[n] \in Conn}, post |-> plan.post]

WriteOf(plan) == [snapshot |-> memberList(plan.members), post |-> plan.post]

\* Mutant of join: the member is added in memory only.
JoinInMemory(m, name, conn) ==
    LET nick == TrimSpace[name]
    IN  IF nick = Blank THEN Answer(m, FALSE) ELSE Answer([m EXCEPT ![nick] = conn], TRUE)

join(m, name, conn) ==
    LET nick == TrimSpace[name]
    IN  IF nick = Blank
        THEN Answer(m, FALSE)
        ELSE persistSnapshot([m EXCEPT ![nick] = conn], NoPost, "join")

\* Whether a sender may act for a nick: a connection only for the member it
\* is registered as, the HTTP API for anybody.
SpeaksFor(m, nick, conn) == conn = NoConn \/ m[nick] = conn

\* Mutant of leave: the member is removed in memory only.
LeaveInMemory(m, name, conn) ==
    LET nick == TrimSpace[name]
    IN  IF nick = Blank THEN Answer(m, FALSE)
        ELSE IF SpeaksFor(m, nick, conn) THEN Answer([m EXCEPT ![nick] = NotMember], TRUE)
        ELSE Answer(m, TRUE)

leave(m, name, conn) ==
    LET nick == TrimSpace[name]
    IN  IF nick = Blank THEN Answer(m, FALSE)
        ELSE IF m[nick] = NotMember \/ ~SpeaksFor(m, nick, conn) THEN Answer(m, TRUE)
        ELSE persistSnapshot([m EXCEPT ![nick] = NotMember], NoPost, "leave")

\* Mutant of postMessage: a text of blanks is not refused.
PostBlank(m, name, text, conn, now) ==
    LET from == TrimSpace[name]
    IN  IF from = Blank \/ m[from] = NotMember \/ ~SpeaksFor(m, from, conn)
        THEN Answer(m, FALSE)
        ELSE persistSnapshot(m, [from |-> from, text |-> TrimSpace[text], at |-> now], "message")

postMessage(m, name, text, conn, now) ==
    LET from == TrimSpace[name]
        body == TrimSpace[text]
    IN  IF \/ from = Blank \/ body = Blank
           \/ m[from] = NotMember \/ ~SpeaksFor(m, from, conn)
        THEN Answer(m, FALSE)
        ELSE persistSnapshot(m, [from |-> from, text |-> body, at |-> now], "message")

drain(m) == persistSnapshot(m, NoPost, "none")
=============================================================================
