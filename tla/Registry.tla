------------------------------ MODULE Registry ------------------------------
(***************************************************************************)
(* RoomRegistryActor and the room actors it spawns (internal/chat).        *)
(*                                                                         *)
(* The registry is an actor: one mailbox, one request at a time.  For a    *)
(* request about a room it ensures that a room actor exists and then makes *)
(* a blocking Call to it, so nothing else in its mailbox moves until the   *)
(* room answers or the Call times out.  Its own Redis commands are made    *)
(* inside a handler, between two points where another actor could see its  *)
(* state, so a handler up to its Call is one step.                         *)
(*                                                                         *)
(* Every Call of the runtime carries a reference: an answer that comes     *)
(* after its caller gave up finds nobody waiting and is dropped.           *)
(***************************************************************************)
EXTENDS RoomHandlers

CONSTANTS
    RoomID,     \* strings clients send as room ids, before trimming
    Client,     \* callers of the registry: HTTP requests, connection actors, shutdown
    Request,    \* the requests they make
    NoClient,   \* a caller that no longer waits
    Pid,        \* addresses of room actors alive or in the map at one time
    NoPid,
    Impatient,  \* callers whose Call may time out with the answer under way
    SlowRooms,  \* whether the registry's Call to a room may do so
    MayCrash,   \* whether a room actor may die on its own
    MaxInbox,   \* bound: requests waiting in the registry's mailbox
    MaxBacklog  \* bound: abandoned requests waiting in a room's mailbox

Routed == {"join", "leave", "message", "get", "list"}
Ops == Routed \cup {"create", "rooms", "count", "unload", "drain"}

ASSUME RequestAssumption ==
    /\ RoomID \subseteq Raw
    /\ Request \subseteq [op : Ops, room : RoomID, name : Raw, text : Raw, conn : Sender]
ASSUME ActorAssumption == NoClient \notin Client /\ NoPid \notin Pid
ASSUME FailureAssumption == Impatient \subseteq Client /\ SlowRooms \in BOOLEAN /\ MayCrash \in BOOLEAN
ASSUME BoundAssumption == MaxInbox \in Nat /\ MaxBacklog \in Nat

\* Identities of rooms: what the registry's map and the Redis keys hold.
Room == {TrimSpace[id] : id \in RoomID} \ {Blank}

WriteOutcomes == {"ok", "failed", "lost"}

VARIABLES
    up,        \* the registry process exists
    draining,  \* RoomRegistryActor.draining
    rooms,     \* RoomRegistryActor.rooms
    inbox,     \* the registry's mailbox
    busy,      \* what the registry's current handler waits for
    proc,      \* the room actors
    created,   \* rooms that have a snapshot key and are in chat:rooms
    redis,     \* snapshot and message list of each room
    call,      \* each client's Call, and the outcome of its last one
    drained    \* history: a drain was answered OK

vars == <<up, draining, rooms, inbox, busy, proc, created, redis, call, drained>>

Dead == [room |-> Blank, alive |-> FALSE, exiting |-> FALSE,
         members |-> [n \in Nick |-> NotMember], inbox |-> <<>>]

NoRequest == [op |-> "none", room |-> Blank, name |-> Blank, text |-> Blank, conn |-> NoConn]
DrainRequest == [op |-> "drain", room |-> Blank, name |-> Blank, text |-> Blank, conn |-> NoConn]

\* An actor with another mailbox; an actor that was told to exit.
WithMail(a, mail) == [room |-> a.room, alive |-> a.alive, exiting |-> a.exiting,
                      members |-> a.members, inbox |-> mail]
ToldToExit(a) == [room |-> a.room, alive |-> a.alive, exiting |-> a.alive,
                  members |-> a.members, inbox |-> a.inbox]

Idle == [task |-> "idle", client |-> NoClient, pid |-> NoPid, todo |-> {}, answer |-> "none"]

\* A fresh registry over whatever rooms earlier runs of the program created.
Init ==
    /\ up = TRUE
    /\ draining = FALSE
    /\ rooms = [r \in Room |-> NoPid]
    /\ inbox = <<>>
    /\ busy = Idle
    /\ proc = [p \in Pid |-> Dead]
    /\ created \in SUBSET Room
    /\ redis = [r \in Room |-> [snapshot |-> {}, history |-> <<>>]]
    /\ call = [c \in Client |-> [req |-> NoRequest, reply |-> "none"]]
    /\ drained = FALSE

-----------------------------------------------------------------------------
(* Clients.                                                                 *)

Call(c) == \E req \in Request :
    /\ call[c].reply # "waiting"
    /\ IF up
       THEN /\ Len(inbox) < MaxInbox
            /\ inbox' = Append(inbox, [client |-> c, req |-> req])
            /\ call' = [call EXCEPT ![c] = [req |-> req, reply |-> "waiting"]]
       ELSE /\ call' = [call EXCEPT ![c] = [req |-> NoRequest, reply |-> "error"]]
            /\ UNCHANGED inbox
    /\ UNCHANGED <<up, draining, rooms, busy, proc, created, redis, drained>>

\* Mutant: the late answer to an abandoned request is taken by the next one.
TimeoutKeepsReference(c) ==
    /\ c \in Impatient \/ ~up
    /\ call[c].reply = "waiting"
    /\ call' = [call EXCEPT ![c] = [req |-> NoRequest, reply |-> "error"]]
    /\ UNCHANGED <<up, draining, rooms, inbox, busy, proc, created, redis, drained>>

\* The timer of a Call always fires when nobody is left to answer it.  If it
\* fires early the request stays in the mailbox; only its answer goes nowhere.
ClientTimeout(c) ==
    /\ c \in Impatient \/ ~up
    /\ call[c].reply = "waiting"
    /\ call' = [call EXCEPT ![c] = [req |-> NoRequest, reply |-> "error"]]
    /\ inbox' = [i \in DOMAIN inbox |->
                   IF inbox[i].client = c THEN [client |-> NoClient, req |-> inbox[i].req]
                   ELSE inbox[i]]
    /\ busy' = IF busy.client = c
               THEN [task |-> busy.task, client |-> NoClient, pid |-> busy.pid,
                     todo |-> busy.todo, answer |-> busy.answer]
               ELSE busy
    /\ UNCHANGED <<up, draining, rooms, proc, created, redis, drained>>

-----------------------------------------------------------------------------
(* The registry.                                                            *)

Current == Head(inbox)

\* Mutant: requests are accepted while draining.
ServeWhileDraining(ops) ==
    /\ up /\ busy.task = "idle" /\ inbox # <<>>
    /\ Current.req.op \in ops
    /\ inbox' = Tail(inbox)

\* The registry takes the next request from its mailbox, and it is one of ops.
\* While draining it serves nothing but drain.
Serve(ops) ==
    /\ up /\ busy.task = "idle" /\ inbox # <<>>
    /\ Current.req.op \in ops
    /\ draining => Current.req.op = "drain"
    /\ inbox' = Tail(inbox)

Answered(c, result) ==
    IF c = NoClient THEN call ELSE [call EXCEPT ![c] = [req |-> NoRequest, reply |-> result]]

Outcome(ok) == IF ok THEN "ok" ELSE "fail"

Mapped == {r \in Room : rooms[r] # NoPid}

Refuse ==
    /\ up /\ busy.task = "idle" /\ inbox # <<>>
    /\ draining /\ Current.req.op # "drain"
    /\ inbox' = Tail(inbox)
    /\ call' = Answered(Current.client, "fail")
    /\ UNCHANGED <<up, draining, rooms, busy, proc, created, redis, drained>>

FreePid == {p \in Pid : ~proc[p].alive /\ \A r \in Room : rooms[r] # p}

\* The outcomes of ensureRoom for a raw id, given the rooms Redis knows.  A
\* blank id, a failed read, an unknown room and a failed hydrate give Nowhere.
Nowhere == [rooms |-> rooms, proc |-> proc, pid |-> NoPid]

ensureRoom(id, known) ==
    LET r == TrimSpace[id]
        new == CHOOSE p \in FreePid : TRUE
        actor == [room |-> r, alive |-> TRUE, exiting |-> FALSE,
                  members |-> hydrate(redis[r].snapshot), inbox |-> <<>>]
    IN  IF r = Blank THEN {Nowhere}
        ELSE IF rooms[r] # NoPid THEN {[rooms |-> rooms, proc |-> proc, pid |-> rooms[r]]}
        ELSE IF r \notin known \/ FreePid = {} THEN {Nowhere}
        ELSE {Nowhere, [rooms |-> [rooms EXCEPT ![r] = new],
                        proc |-> [proc EXCEPT ![new] = actor], pid |-> new]}

\* Mutants: a room is created without looking whether it exists; the blank id
\* is not refused.
CreateWith(writes(_)) ==
    /\ Serve({"create"})
    /\ \E ok \in BOOLEAN :
        LET r == TrimSpace[Current.req.room]
            stored == IF writes(r) /\ ok THEN {r} ELSE {}
        IN  /\ created' = created \cup stored
            /\ redis' = [x \in Room |-> IF x \in stored
                                       THEN [snapshot |-> {}, history |-> redis[x].history]
                                       ELSE redis[x]]
            /\ \E e \in ensureRoom(r, created \cup stored) :
                  /\ rooms' = e.rooms
                  /\ proc' = e.proc
                  /\ call' = Answered(Current.client, Outcome(e.pid # NoPid))
    /\ UNCHANGED <<up, draining, busy, drained>>

CreateOverwrites == LET any(r) == r # Blank IN CreateWith(any)
CreateBlank == LET new(r) == r \notin created IN CreateWith(new)

\* Exists, then for a room Redis does not know SADD and SET in one MULTI, then
\* ensureRoom.  The MULTI may have taken effect although it reports an error.
CreateRoom ==
    /\ Serve({"create"})
    /\ \E read \in BOOLEAN, w \in WriteOutcomes :
        LET r == TrimSpace[Current.req.room]
            writes == r # Blank /\ read /\ r \notin created
            stored == IF writes /\ w \in {"ok", "lost"} THEN {r} ELSE {}
            goesOn == read /\ (writes => w = "ok")
        IN  /\ created' = created \cup stored
            /\ redis' = [x \in Room |-> IF x \in stored
                                       THEN [snapshot |-> {}, history |-> redis[x].history]
                                       ELSE redis[x]]
            /\ \E e \in IF goesOn THEN ensureRoom(r, created \cup stored) ELSE {Nowhere} :
                  /\ rooms' = e.rooms
                  /\ proc' = e.proc
                  /\ call' = Answered(Current.client, Outcome(e.pid # NoPid))
    /\ UNCHANGED <<up, draining, busy, drained>>

\* A Call to room actor p on behalf of task: the request goes to its mailbox and
\* the registry waits for the answer.
Ask(p, req, actors) ==
    proc' = [actors EXCEPT ![p] = WithMail(@, Append(@.inbox, [req |-> req, awaited |-> TRUE]))]

Waiting(task, client, p, todo) ==
    [task |-> task, client |-> client, pid |-> p, todo |-> todo, answer |-> "none"]

RouteNowhere ==
    /\ Serve(Routed)
    /\ Nowhere \in ensureRoom(Current.req.room, created)
    /\ call' = Answered(Current.client, "fail")
    /\ UNCHANGED <<up, draining, rooms, busy, proc, created, redis, drained>>

RouteToRoom ==
    /\ Serve(Routed)
    /\ \E e \in ensureRoom(Current.req.room, created) :
        /\ e.pid # NoPid /\ e.proc[e.pid].alive
        /\ rooms' = e.rooms
        /\ Ask(e.pid, Current.req, e.proc)
        /\ busy' = Waiting("route", Current.client, e.pid, {})
    /\ UNCHANGED <<up, draining, created, redis, call, drained>>

\* The end of the registry: nobody restarts it, what is in its mailbox is lost.
Terminate ==
    /\ up' = FALSE
    /\ inbox' = <<>>
    /\ busy' = Idle

\* A Call to a process that is gone fails at once, and routeToRoom returns the
\* error as the handler's second result, which terminates the registry.
RouteToDeadRoom ==
    /\ up /\ busy.task = "idle" /\ inbox # <<>> /\ ~draining
    /\ Current.req.op \in Routed
    /\ LET r == TrimSpace[Current.req.room]
       IN  r \in Mapped /\ ~proc[rooms[r]].alive
    /\ Terminate
    /\ UNCHANGED <<draining, rooms, proc, created, redis, call, drained>>

\* listRooms reads Redis, which may fail; countActiveRooms reads the map.
Query ==
    /\ Serve({"rooms", "count"})
    /\ \E ok \in BOOLEAN :
        /\ Current.req.op = "count" => ok
        /\ call' = Answered(Current.client, Outcome(ok))
    /\ UNCHANGED <<up, draining, rooms, busy, proc, created, redis, drained>>

\* unloadRoom looks the id up as it came, without trimming it.
UnloadNothing ==
    /\ Serve({"unload"})
    /\ Current.req.room \notin Mapped
    /\ call' = Answered(Current.client, "ok")
    /\ UNCHANGED <<up, draining, rooms, busy, proc, created, redis, drained>>

UnloadDead ==
    /\ Serve({"unload"})
    /\ Current.req.room \in Mapped /\ ~proc[rooms[Current.req.room]].alive
    /\ call' = Answered(Current.client, "fail")
    /\ UNCHANGED <<up, draining, rooms, busy, proc, created, redis, drained>>

UnloadRoom ==
    /\ Serve({"unload"})
    /\ Current.req.room \in Mapped
    /\ LET p == rooms[Current.req.room]
       IN  /\ proc[p].alive
           /\ Ask(p, DrainRequest, proc)
           /\ busy' = Waiting("unload", Current.client, p, {})
    /\ UNCHANGED <<up, draining, rooms, created, redis, call, drained>>

\* drainAllRooms: the rooms are asked one after the other, in map order.
DrainRegistry ==
    /\ Serve({"drain"})
    /\ draining' = TRUE
    /\ busy' = Waiting("drain", Current.client, NoPid, Mapped)
    /\ UNCHANGED <<up, rooms, proc, created, redis, call, drained>>

DrainNext == \E r \in busy.todo :
    /\ busy.task = "drain" /\ busy.pid = NoPid
    /\ IF proc[rooms[r]].alive
       THEN /\ Ask(rooms[r], DrainRequest, proc)
            /\ busy' = Waiting("drain", busy.client, rooms[r], busy.todo \ {r})
            /\ UNCHANGED rooms
       ELSE /\ rooms' = [rooms EXCEPT ![r] = NoPid]
            /\ busy' = Waiting("drain", busy.client, NoPid, busy.todo \ {r})
            /\ UNCHANGED proc
    /\ UNCHANGED <<up, draining, inbox, created, redis, call, drained>>

\* The second phase: every room still in the map is told to exit.
DrainFinish ==
    /\ busy.task = "drain" /\ busy.pid = NoPid /\ busy.todo = {}
    /\ proc' = [p \in Pid |-> IF \E r \in Room : rooms[r] = p
                              THEN ToldToExit(proc[p]) ELSE proc[p]]
    /\ rooms' = [r \in Room |-> NoPid]
    /\ call' = Answered(busy.client, "ok")
    /\ drained' = TRUE
    /\ busy' = Idle
    /\ UNCHANGED <<up, draining, inbox, created, redis>>

\* Mutants: a routed request is never answered; the result of an unload's drain
\* is ignored; a room that failed its snapshot does not end the drain.
RouteReturnsNothing ==
    /\ busy.task = "route" /\ busy.answer # "none"
    /\ busy' = Idle
    /\ UNCHANGED <<up, draining, rooms, inbox, proc, created, redis, call, drained>>

UnloadUnchecked ==
    /\ busy.task = "unload" /\ busy.answer # "none"
    /\ proc' = [proc EXCEPT ![busy.pid] = ToldToExit(@)]
    /\ rooms' = [r \in Room |-> IF rooms[r] = busy.pid THEN NoPid ELSE rooms[r]]
    /\ call' = Answered(busy.client, "ok")
    /\ busy' = Idle
    /\ UNCHANGED <<up, draining, inbox, created, redis, drained>>

DrainUnchecked ==
    /\ busy.task = "drain" /\ busy.answer # "none"
    /\ busy' = Waiting("drain", busy.client, NoPid, busy.todo)
    /\ UNCHANGED <<up, draining, rooms, inbox, proc, created, redis, call, drained>>

\* The room's answer arrives.
RouteReturns ==
    /\ busy.task = "route" /\ busy.answer # "none"
    /\ call' = Answered(busy.client, busy.answer)
    /\ busy' = Idle
    /\ UNCHANGED <<up, draining, rooms, inbox, proc, created, redis, drained>>

UnloadReturns ==
    /\ busy.task = "unload" /\ busy.answer # "none"
    /\ IF busy.answer = "ok"
       THEN /\ proc' = [proc EXCEPT ![busy.pid] = ToldToExit(@)]
            /\ rooms' = [r \in Room |-> IF rooms[r] = busy.pid THEN NoPid ELSE rooms[r]]
       ELSE UNCHANGED <<proc, rooms>>
    /\ call' = Answered(busy.client, busy.answer)
    /\ busy' = Idle
    /\ UNCHANGED <<up, draining, inbox, created, redis, drained>>

DrainReturns ==
    /\ busy.task = "drain" /\ busy.answer # "none"
    /\ IF busy.answer = "ok"
       THEN busy' = Waiting("drain", busy.client, NoPid, busy.todo) /\ UNCHANGED call
       ELSE busy' = Idle /\ call' = Answered(busy.client, "fail")
    /\ UNCHANGED <<up, draining, rooms, inbox, proc, created, redis, drained>>

\* A mailbox whose requests nobody waits for.
Abandoned(mail) == [i \in DOMAIN mail |-> [req |-> mail[i].req, awaited |-> FALSE]]

\* Mutants: a Call that timed out is taken for one to a process that is gone, and
\* the room is forgotten; the Call of a drain has no timer.
TimeoutForgetsRoom ==
    /\ busy.pid # NoPid /\ busy.answer = "none"
    /\ proc' = [proc EXCEPT ![busy.pid] = WithMail(@, Abandoned(@.inbox))]
    /\ rooms' = [r \in Room |-> IF rooms[r] = busy.pid THEN NoPid ELSE rooms[r]]
    /\ call' = Answered(busy.client, "fail")
    /\ busy' = Idle
    /\ UNCHANGED <<up, draining, inbox, created, redis, drained>>

DrainWaitsForever ==
    /\ busy.task = "route"
    /\ busy.pid # NoPid /\ busy.answer = "none"
    /\ SlowRooms \/ ~proc[busy.pid].alive
    /\ proc' = [proc EXCEPT ![busy.pid] = WithMail(@, Abandoned(@.inbox))]
    /\ Terminate
    /\ UNCHANGED <<draining, rooms, created, redis, call, drained>>

\* The registry's Call times out.  unload and drain answer Fail and go on; a
\* routed request ends the registry, as in RouteToDeadRoom.  The request itself
\* stays in the room's mailbox.
CallTimeout ==
    /\ busy.pid # NoPid /\ busy.answer = "none"
    /\ SlowRooms \/ ~proc[busy.pid].alive
    /\ Len(proc[busy.pid].inbox) <= MaxBacklog
    /\ proc' = [proc EXCEPT ![busy.pid] = WithMail(@, Abandoned(@.inbox))]
    /\ IF busy.task = "route"
       THEN Terminate /\ UNCHANGED call
       ELSE /\ call' = Answered(busy.client, "fail")
            /\ busy' = Idle
            /\ UNCHANGED <<up, inbox>>
    /\ UNCHANGED <<draining, rooms, created, redis, drained>>

-----------------------------------------------------------------------------
(* Room actors.                                                             *)

\* What the actor of a member map does for a request; the two queries write
\* nothing, and a listing may fail to read.
PlanFor(m, req) ==
    CASE req.op = "join"    -> join(m, req.name, req.conn)
      [] req.op = "leave"   -> leave(m, req.name, req.conn)
      [] req.op = "message" -> postMessage(m, req.name, req.text, req.conn, 1)
      [] req.op = "drain"   -> drain(m)
      [] OTHER              -> Answer(m, TRUE)

HandleCall(p) ==
    /\ proc[p].alive /\ proc[p].inbox # <<>>
    /\ LET a == proc[p]
           msg == Head(a.inbox)
           plan == PlanFor(a.members, msg.req)
       IN  \E w \in IF plan.writes \/ msg.req.op = "list" THEN WriteOutcomes ELSE {"ok"} :
            /\ proc' = [proc EXCEPT ![p] = [room |-> a.room, alive |-> TRUE, exiting |-> a.exiting,
                                            members |-> plan.members, inbox |-> Tail(a.inbox)]]
            /\ redis' = IF plan.writes /\ w \in {"ok", "lost"}
                        THEN [redis EXCEPT ![a.room] = Written(@, WriteOf(plan))] ELSE redis
            /\ busy' = IF msg.awaited
                       THEN [task |-> busy.task, client |-> busy.client, pid |-> busy.pid,
                             todo |-> busy.todo, answer |-> Outcome(plan.ok /\ w = "ok")]
                       ELSE busy
    /\ UNCHANGED <<up, draining, rooms, inbox, created, call, drained>>

\* The exit signal takes effect between two requests.
Exit(p) ==
    /\ proc[p].alive /\ proc[p].exiting
    /\ proc' = [proc EXCEPT ![p] = Dead]
    /\ UNCHANGED <<up, draining, rooms, inbox, busy, created, redis, call, drained>>

\* A room actor dies, for instance by a panic in a handler; its mailbox is lost.
Crash(p) ==
    /\ MayCrash
    /\ proc[p].alive
    /\ proc' = [proc EXCEPT ![p] = Dead]
    /\ UNCHANGED <<up, draining, rooms, inbox, busy, created, redis, call, drained>>

RegistryStep ==
    \/ Refuse \/ CreateRoom \/ RouteNowhere \/ RouteToRoom \/ RouteToDeadRoom \/ Query
    \/ UnloadNothing \/ UnloadDead \/ UnloadRoom
    \/ DrainRegistry \/ DrainNext \/ DrainFinish
    \/ RouteReturns \/ UnloadReturns \/ DrainReturns

Next ==
    \/ \E c \in Client : Call(c) \/ ClientTimeout(c)
    \/ RegistryStep
    \/ CallTimeout
    \/ \E p \in Pid : HandleCall(p) \/ Exit(p) \/ Crash(p)

Spec == Init /\ [][Next]_vars

\* The runtime runs every actor that has mail, delivers exit signals, and fires
\* the timer of a blocking Call.
Fairness ==
    /\ WF_vars(RegistryStep)
    /\ WF_vars(CallTimeout)
    /\ \A c \in Client : WF_vars(ClientTimeout(c))
    /\ \A p \in Pid : WF_vars(HandleCall(p)) /\ WF_vars(Exit(p))

FairSpec == Spec /\ Fairness
-----------------------------------------------------------------------------
(* Properties.                                                              *)

Mail == [req : Request \cup {DrainRequest}, awaited : BOOLEAN]

Process == [room : Room \cup {Blank}, alive : BOOLEAN, exiting : BOOLEAN,
            members : Members, inbox : Seq(Mail)]

Queued == [client : Client \cup {NoClient}, req : Request]

Task == [task : {"idle", "route", "unload", "drain"}, client : Client \cup {NoClient},
         pid : Pid \cup {NoPid}, todo : SUBSET Room, answer : {"none", "ok", "fail"}]

TypeOK ==
    /\ up \in BOOLEAN /\ draining \in BOOLEAN /\ drained \in BOOLEAN
    /\ rooms \in [Room -> Pid \cup {NoPid}]
    /\ inbox \in Seq(Queued)
    /\ busy \in Task
    /\ proc \in [Pid -> Process]
    /\ created \subseteq Room
    /\ redis \in [Room -> [snapshot : SUBSET Nick, history : Seq(Message)]]
    /\ call \in [Client -> [req : Request \cup {NoRequest},
                            reply : {"none", "waiting", "ok", "fail", "error"}]]

\* A room never has two actors that may still write its keys: an actor that is
\* not the one in the registry's map has nothing left to do.  Unload and drain
\* take an actor out of the map only after it answered the last request in its
\* mailbox (registry_route.go:52-63, registry_drain.go:16-38), so that the next
\* actor of the room hydrates from a snapshot nobody else overwrites.
SingleWriter == \A p \in Pid :
    proc[p].alive => \/ rooms[proc[p].room] = p
                     \/ proc[p].exiting /\ proc[p].inbox = <<>>

\* An actor is told to exit only when Redis holds its members: nothing that was
\* only in memory is lost by unload or drain, however many other rooms the
\* drain visited in between (registry_drain.go:14-38).
ExitOnlyPersisted == [][\A p \in Pid :
    ~proc[p].exiting /\ proc'[p].exiting =>
        redis[proc[p].room].snapshot = memberList(proc[p].members)]_vars

\* Once a drain was answered OK the rooms are final: no actor is started and
\* Redis is never written again, whatever was queued behind the drain
\* (registry_actor.go:60-66, registry_drain.go:33-34).
DrainedIsFinal == [][drained =>
    /\ redis' = redis /\ created' = created
    /\ \A p \in Pid : proc'[p].alive => proc[p].alive]_vars

\* A room that exists is written only by its actor, out of its mailbox: creating
\* it again, racing with joins or after an unload, never resets its members
\* (registry_rooms.go:27-37).
OnlyTheActorWrites == [][\A r \in Room :
    r \in created /\ redis'[r] # redis[r] =>
        \E p \in Pid : /\ rooms[r] = p /\ proc[p].alive
                      /\ Len(proc'[p].inbox) < Len(proc[p].inbox)]_vars

\* A client whose request is still on its way is known to whoever has it: its
\* request is in the mailbox once, or the registry is serving it, never both.
\* So no answer reaches a call it does not belong to.
OneRequestPerCall == up => \A c \in Client :
    LET queued == {i \in DOMAIN inbox : inbox[i].client = c}
    IN  IF call[c].reply = "waiting"
        THEN Cardinality(queued) + (IF busy.client = c THEN 1 ELSE 0) = 1
        ELSE queued = {} /\ busy.client # c

\* No handler of the registry waits for ever, although room actors die with
\* its request in their mailbox: the Call's timer ends the wait.
RegistryNotStuck == (busy.task # "idle") ~> (busy.task = "idle")

\* Every call comes to an end, even if room actors die: registry and rooms never
\* wait for each other, and nothing is dropped from the mailbox of a live one.
EveryCallEnds == \A c \in Client :
    (call[c].reply = "waiting") ~> (call[c].reply # "waiting")

\* README.fa.md:42-45: one actor for all rooms would tie their lifecycles
\* together; in v3 every room actor is independent.  So a request for a room
\* whose actor is gone should not end the registry, and with it the other rooms.
RoomDeathIsLocal == [][up /\ ~up' => busy.task # "idle"]_vars

\* README.fa.md:242-248: unload brings the actor of the room down.  So after OK
\* to an unload, and before any further request, the room has no actor.
UnloadOKMeansUnloaded == [][\A c \in Client :
    /\ call[c].reply = "waiting" /\ call'[c].reply = "ok"
    /\ call[c].req.op = "unload"
    /\ TrimSpace[call[c].req.room] \in Room
    => rooms'[TrimSpace[call[c].req.room]] = NoPid]_vars

\* chat.v3.md:81-82: drain means that all RoomActors write their final snapshot.
\* So when a drain is over, with or without success, every room that is still in
\* the map was asked for its snapshot.
DrainAsksEveryRoom == [][
    busy.task = "drain" /\ busy'.task = "idle" => busy.todo \cap Mapped = {}]_vars

\* RoomStore for every room: what a room shows is the map of the actor the
\* registry would route to, or what the next one will read back.
View(r) == IF rooms[r] # NoPid /\ proc[rooms[r]].alive
           THEN memberList(proc[rooms[r]].members) ELSE redis[r].snapshot

Store == INSTANCE RoomStore WITH
    view <- [r \in Room |-> View(r)],
    stored <- [r \in Room |-> redis[r].snapshot],
    posts <- [r \in Room |-> redis[r].history],
    told <- [r \in Room |-> busy.pid = rooms[r] /\ busy.answer = "ok"]

\* Behind the registry, over creation, unload, drain, crashes of actors and
\* requests that outlive their Calls, every room is the one the abstract
\* specification describes: nothing but the room it addresses is changed by a
\* request, and no two actors, resets or stale snapshots show through
\* (registry_ensure.go:11-52, registry_rooms.go:27-62, registry_route.go:8-69).
StoreSpec == Store!Spec
=============================================================================
