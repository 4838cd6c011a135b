------------------------- MODULE RegistryRefinement -------------------------
(***************************************************************************)
(* The registry with its room actors implements RoomStore for all rooms    *)
(* (MCRegistrySafety.cfg checks the same with bounds).  Beyond the         *)
(* invariant of RegistryProofs, the mapping needs to know that a room      *)
(* Redis does not list has no actor and no members, so that creating it    *)
(* shows nobody anything new.  Every step is then an Answer or a Restart   *)
(* for every room, except that a room actor which handles a command moves  *)
(* its own room, and no other, by a Commit or an Attempt.                  *)
(***************************************************************************)
EXTENDS RegistryProofs

\* A room that was never created has no actor and no members.
CreatedSound == \A r \in Room \ created : rooms[r] = NoPid /\ redis[r].snapshot = {}

\* What a map of actors rm and actors pr show of a room, over Redis as it is.
Shown(rm, pr, r) ==
    IF rm[r] # NoPid /\ pr[rm[r]].alive THEN memberList(pr[rm[r]].members) ELSE redis[r].snapshot

\* What each room shows and keeps is not touched.
RoomsKeep ==
    /\ \A r \in Room : View(r)' \in {View(r), redis[r].snapshot}
    /\ \A r \in Room : redis'[r].snapshot = redis[r].snapshot /\ redis'[r].history = redis[r].history

-----------------------------------------------------------------------------
(* Lemmas about the data.                                                   *)

\* Every request is a small plan for the actor.
LEMMA PlanForSmall ==
    ASSUME NEW m \in Members, NEW req \in Request \cup {DrainRequest}
    PROVE  Small(m, PlanFor(m, req))
<1>1. req.name \in Raw /\ req.text \in Raw /\ req.conn \in Sender
  <2>1. CASE req \in Request
    BY <2>1, RequestAssumption
  <2>2. CASE req = DrainRequest
    BY <2>2, TrimAssumption DEF DrainRequest, Sender
  <2>3. QED
    BY <2>1, <2>2
<1>2. Small(m, Answer(m, TRUE))
  BY DEF Small, Answer
<1>3. QED
  BY <1>1, <1>2, PlansAreSmall DEF PlanFor

\* A request that goes to an actor's mailbox changes nothing that is shown.
LEMMA AskShows ==
    ASSUME NEW rm \in ActorMap, NEW pr \in [Pid -> Process], NEW p, NEW req, NEW r \in Room
    PROVE  Shown(rm, Asked(pr, p, req), r) = Shown(rm, pr, r)
<1>1. \A x \in Pid : /\ Asked(pr, p, req)[x].alive = pr[x].alive
                     /\ Asked(pr, p, req)[x].members = pr[x].members
  BY DEF Asked, WithMail
<1>2. rm[r] # NoPid => rm[r] \in Pid
  BY DEF ActorMap
<1>3. QED
  BY <1>1, <1>2 DEF Shown

\* A new actor shows what Redis held, and ensureRoom touches no other room.
LEMMA EnsureRoomShows ==
    ASSUME TypeOK, NEW id, TrimSpace[id] \in Room \cup {Blank}, NEW known,
           NEW e \in ensureRoom(id, known), NEW r \in Room
    PROVE  Shown(e.rooms, e.proc, r) = View(r)
<1>1. rooms \in ActorMap /\ proc \in [Pid -> Process]
  BY DEF TypeOK, ActorMap
<1>2. View(r) = Shown(rooms, proc, r)
  BY DEF View, Shown
<1>3. CASE ChangesNothing(e)
  BY <1>2, <1>3 DEF ChangesNothing
<1>4. ASSUME NEW x \in Room, NEW p \in Pid, Spawns(e, x, p)
      PROVE  Shown(e.rooms, e.proc, r) = Shown(rooms, proc, r)
  <2>1. /\ e.rooms[r] = IF r = x THEN p ELSE rooms[r]
        /\ \A q \in Pid : e.proc[q] = IF q = p THEN Spawned(x) ELSE proc[q]
    BY <1>1, <1>4 DEF Spawns, ActorMap
  <2>2. CASE r = x
    <3>1. memberList(hydrate(redis[x].snapshot)) = redis[x].snapshot
      BY HydrateRestores DEF TypeOK
    <3>2. Shown(e.rooms, e.proc, r) = redis[x].snapshot
      BY <2>1, <2>2, <3>1, ActorAssumption DEF Shown, Spawned
    <3>3. QED
      BY <1>4, <2>2, <3>2 DEF Shown, Spawns
  <2>3. CASE r # x
    <3>1. rooms[r] # p /\ (rooms[r] # NoPid => rooms[r] \in Pid)
      BY <1>1, <1>4 DEF Spawns, ActorMap
    <3>2. QED
      BY <2>1, <2>3, <3>1 DEF Shown
  <2>4. QED
    BY <2>2, <2>3
<1>5. QED
  BY <1>2, <1>3, <1>4, EnsureRoomEither

\* Only a room that Redis knows is given an actor.
LEMMA EnsureRoomKnown ==
    ASSUME TypeOK, NEW id, NEW known, NEW e \in ensureRoom(id, known),
           NEW r \in Room, rooms[r] = NoPid, e.rooms[r] # NoPid
    PROVE  r \in known
<1> DEFINE x == TrimSpace[id]
           new == CHOOSE p \in FreePid : TRUE
<1>1. \/ e.rooms = rooms
      \/ x \in known /\ e.rooms = [rooms EXCEPT ![x] = new]
  <2> DEFINE spawned == [rooms |-> [rooms EXCEPT ![x] = new],
                         proc |-> [proc EXCEPT ![new] = Spawned(x)], pid |-> new]
  <2>1. \/ e = Nowhere \/ e = [rooms |-> rooms, proc |-> proc, pid |-> rooms[x]]
        \/ x \in known /\ e = spawned
    BY DEF ensureRoom, Spawned
  <2>2. Nowhere.rooms = rooms /\ spawned.rooms = [rooms EXCEPT ![x] = new]
    BY DEF Nowhere
  <2> HIDE DEF spawned
  <2>3. QED
    BY <2>1, <2>2
<1>2. rooms \in [Room -> Pid \cup {NoPid}]
  BY DEF TypeOK
<1>3. QED
  BY <1>1, <1>2

-----------------------------------------------------------------------------
(* Rooms that do not exist yet.                                             *)

\* What creating a room does to Redis, map and actors: it writes a snapshot for a
\* room that Redis does not know, and may spawn the actor of a room it then knows.
LEMMA Creation ==
    ASSUME CreateRoom
    PROVE  LET r == TrimSpace[Current.req.room]
           IN  \E stored \in SUBSET {r} :
                 /\ stored \cap created = {}
                 /\ created' = created \cup stored
                 /\ redis' = [x \in Room |-> IF x \in stored
                                            THEN [snapshot |-> {}, history |-> redis[x].history]
                                            ELSE redis[x]]
                 /\ \/ rooms' = rooms /\ proc' = proc
                    \/ \E e \in ensureRoom(r, created \cup stored) :
                         rooms' = e.rooms /\ proc' = e.proc
<1> DEFINE r == TrimSpace[Current.req.room]
<1>1. PICK read \in BOOLEAN, w \in WriteOutcomes :
        LET writes == r # Blank /\ read /\ r \notin created
            stored == IF writes /\ w \in {"ok", "lost"} THEN {r} ELSE {}
            goesOn == read /\ (writes => w = "ok")
        IN  /\ created' = created \cup stored
            /\ redis' = [x \in Room |-> IF x \in stored
                                       THEN [snapshot |-> {}, history |-> redis[x].history]
                                       ELSE redis[x]]
            /\ \E e \in IF goesOn THEN ensureRoom(r, created \cup stored) ELSE {Nowhere} :
                  rooms' = e.rooms /\ proc' = e.proc
  BY DEF CreateRoom
<1> DEFINE writes == r # Blank /\ read /\ r \notin created
           stored == IF writes /\ w \in {"ok", "lost"} THEN {r} ELSE {}
           goesOn == read /\ (writes => w = "ok")
<1>2. /\ stored \in SUBSET {r} /\ stored \cap created = {}
      /\ created' = created \cup stored
      /\ redis' = [x \in Room |-> IF x \in stored
                                 THEN [snapshot |-> {}, history |-> redis[x].history]
                                 ELSE redis[x]]
  BY <1>1
<1>3. \/ rooms' = rooms /\ proc' = proc
      \/ \E x \in ensureRoom(r, created \cup stored) : rooms' = x.rooms /\ proc' = x.proc
  <2>1. PICK e \in IF goesOn THEN ensureRoom(r, created \cup stored) ELSE {Nowhere} :
          rooms' = e.rooms /\ proc' = e.proc
    BY <1>1
  <2> HIDE DEF stored, goesOn
  <2>2. CASE goesOn
    BY <2>1, <2>2
  <2>3. CASE ~goesOn
    BY <2>1, <2>3 DEF Nowhere
  <2>4. QED
    BY <2>2, <2>3
<1> HIDE DEF stored
<1>4. QED
  BY <1>2, <1>3

\* Creation is the only way in: for every other step that spawns an actor or
\* changes a snapshot the room is in the map or known to Redis.
LEMMA CreatedIsSound ==
    ASSUME IInv, CreatedSound, [Next]_vars
    PROVE  CreatedSound'
<1>1. /\ TypeOK /\ rooms \in ActorMap /\ proc \in [Pid -> Process]
      /\ redis \in [Room -> [snapshot : SUBSET Nick, history : Seq(Message)]]
  BY DEF IInv, TypeOK, ActorMap
<1>2. CASE CreateRoom
  <2> DEFINE new == TrimSpace[Current.req.room]
  <2>1. PICK stored \in SUBSET {new} :
          /\ created' = created \cup stored
          /\ redis' = [x \in Room |-> IF x \in stored
                                     THEN [snapshot |-> {}, history |-> redis[x].history]
                                     ELSE redis[x]]
          /\ rooms' = rooms \/ \E e \in ensureRoom(new, created \cup stored) : rooms' = e.rooms
    BY <1>2, Creation
  <2>2. QED
    BY <1>1, <2>1, EnsureRoomKnown DEF CreatedSound
<1>3. CASE RouteToRoom
  <2>1. PICK e \in ensureRoom(Current.req.room, created) : rooms' = e.rooms
    BY <1>3 DEF RouteToRoom
  <2>2. UNCHANGED <<created, redis>>
    BY <1>3 DEF RouteToRoom
  <2>3. QED
    BY <1>1, <2>1, <2>2, EnsureRoomKnown DEF CreatedSound
<1>4. ASSUME NEW p \in Pid, HandleCall(p)
      PROVE  CreatedSound'
  <2>1. PICK w \in WriteOutcomes : Handled(p, w)
    BY <1>4 DEF HandleCall, Handled, WriteOutcomes
  <2>2. UNCHANGED <<rooms, created>> /\ proc[p].alive /\ proc[p].inbox # <<>>
    BY <1>4 DEF HandleCall
  <2>3. proc[p].room \in created
    BY <2>2, BusyActorIsMapped, ActorAssumption DEF CreatedSound
  <2>4. \A r \in Room \ created : redis'[r] = redis[r]
    BY <1>1, <2>1, <2>3 DEF Handled
  <2>5. QED
    BY <2>2, <2>4 DEF CreatedSound
<1>5. CASE DrainNext \/ DrainFinish \/ UnloadReturns
  <2>1. UNCHANGED <<created, redis>> /\ \A r \in Room : rooms'[r] \in {rooms[r], NoPid}
    BY <1>1, <1>5 DEF DrainNext, DrainFinish, UnloadReturns, ActorMap
  <2>2. QED
    BY <2>1 DEF CreatedSound
<1>6. CASE UNCHANGED <<rooms, created, redis>>
  BY <1>6 DEF CreatedSound
<1>7. /\ \A c \in Client : Call(c) \/ ClientTimeout(c) => UNCHANGED <<rooms, created, redis>>
      /\ \A p \in Pid : Exit(p) \/ Crash(p) => UNCHANGED <<rooms, created, redis>>
      /\ CallTimeout \/ UNCHANGED vars => UNCHANGED <<rooms, created, redis>>
  BY DEF Call, ClientTimeout, Exit, Crash, CallTimeout, vars
<1>8. CASE \/ Refuse \/ RouteNowhere \/ RouteToDeadRoom \/ Query \/ UnloadNothing \/ UnloadDead
           \/ UnloadRoom \/ DrainRegistry \/ RouteReturns \/ DrainReturns
  BY <1>8 DEF CreatedSound, Refuse, RouteNowhere, RouteToDeadRoom, Query, UnloadNothing, UnloadDead, UnloadRoom,
         DrainRegistry, RouteReturns, DrainReturns
<1>9. QED
  BY <1>2, <1>3, <1>4, <1>5, <1>6, <1>7, <1>8 DEF Next, RegistryStep

-----------------------------------------------------------------------------
(* Every step, room by room.                                                *)

\* Steps of clients and of the registry show nothing new, and store nothing: a
\* room is shown as before, or from what it has stored.
LEMMA OthersKeepRooms ==
    ASSUME IInv, CreatedSound, Next, \A p \in Pid : ~HandleCall(p)
    PROVE  RoomsKeep
<1>1. /\ TypeOK /\ rooms \in ActorMap /\ proc \in [Pid -> Process]
      /\ redis \in [Room -> [snapshot : SUBSET Nick, history : Seq(Message)]]
  BY DEF IInv, TypeOK, ActorMap
<1>2. \A r \in Room : View(r) = Shown(rooms, proc, r)
  BY DEF View, Shown
<1>3. ASSUME \A r \in Room : redis'[r].snapshot = redis[r].snapshot, NEW r \in Room
      PROVE  View(r)' = Shown(rooms', proc', r)
  BY <1>3 DEF View, Shown
<1>4. CASE CreateRoom
  <2> DEFINE new == TrimSpace[Current.req.room]
  <2>1. PICK stored \in SUBSET {new} :
          /\ stored \cap created = {}
          /\ redis' = [x \in Room |-> IF x \in stored
                                     THEN [snapshot |-> {}, history |-> redis[x].history]
                                     ELSE redis[x]]
          /\ \/ rooms' = rooms /\ proc' = proc
             \/ \E e \in ensureRoom(new, created \cup stored) : rooms' = e.rooms /\ proc' = e.proc
    BY <1>4, Creation
  <2>2. \A r \in Room : redis'[r].snapshot = redis[r].snapshot /\ redis'[r].history = redis[r].history
    BY <1>1, <2>1 DEF CreatedSound
  <2>3. TrimSpace[new] \in Room \cup {Blank}
    <3>1. inbox # <<>> /\ Current.req.room \in RoomID
      BY <1>1, <1>4, ServedIsRequest DEF CreateRoom, Serve
    <3>2. QED
      BY <3>1, TrimRoom, TrimAssumption
  <2>4. ASSUME NEW r \in Room PROVE Shown(rooms', proc', r) = View(r)
    BY <1>1, <1>2, <2>1, <2>3, EnsureRoomShows
  <2>5. QED
    BY <1>3, <2>2, <2>4 DEF RoomsKeep
<1>5. CASE RouteToRoom
  <2>1. inbox # <<>> /\ Current.req.room \in RoomID /\ UNCHANGED redis
    BY <1>1, <1>5, ServedIsRequest DEF RouteToRoom, Serve
  <2>2. TrimSpace[Current.req.room] \in Room \cup {Blank}
    BY <2>1, TrimRoom
  <2>3. PICK e \in ensureRoom(Current.req.room, created) :
          rooms' = e.rooms /\ proc' = Asked(e.proc, e.pid, Current.req)
    BY <1>5 DEF RouteToRoom, Ask, Asked
  <2>4. e.rooms \in ActorMap /\ e.proc \in [Pid -> Process]
    <3>1. Sound(rooms, proc) /\ Unawaited(proc)
      BY <1>5, IdleWaitsForNobody DEF RouteToRoom, Serve, IInv, Structure
    <3>2. QED
      BY <1>1, <2>2, <3>1, EnsureRoomKeeps, ActorAssumption
  <2>5. ASSUME NEW r \in Room PROVE Shown(rooms', proc', r) = View(r)
    BY <1>1, <2>2, <2>3, <2>4, AskShows, EnsureRoomShows
  <2>6. QED
    BY <1>3, <2>1, <2>5 DEF RoomsKeep
<1>6. CASE UnloadRoom
  <2>1. UNCHANGED <<rooms, redis>> /\ \E p : proc' = Asked(proc, p, DrainRequest)
    BY <1>6 DEF UnloadRoom, Ask, Asked
  <2>2. QED
    BY <1>1, <1>2, <1>3, <2>1, AskShows DEF RoomsKeep
<1>7. CASE DrainNext
  <2>1. UNCHANGED redis
    BY <1>7 DEF DrainNext
  <2>2. PICK x \in busy.todo :
          \/ rooms' = rooms /\ proc' = Asked(proc, rooms[x], DrainRequest)
          \/ ~proc[rooms[x]].alive /\ rooms' = [rooms EXCEPT ![x] = NoPid] /\ proc' = proc
    BY <1>7 DEF DrainNext, Ask, Asked
  <2>3. ASSUME NEW r \in Room PROVE Shown(rooms', proc', r) \in {View(r), redis[r].snapshot}
    <3>1. CASE rooms' = rooms /\ proc' = Asked(proc, rooms[x], DrainRequest)
      BY <1>1, <1>2, <3>1, AskShows
    <3>2. CASE rooms' = [rooms EXCEPT ![x] = NoPid] /\ proc' = proc
      BY <1>1, <1>2, <3>2 DEF Shown, ActorMap
    <3>3. QED
      BY <2>2, <3>1, <3>2
  <2>4. QED
    BY <1>3, <2>1, <2>3 DEF RoomsKeep
<1>8. CASE UnloadReturns \/ DrainFinish \/ CallTimeout \/ \E p \in Pid : Exit(p) \/ Crash(p)
  <2>1. UNCHANGED redis
    BY <1>8 DEF UnloadReturns, DrainFinish, CallTimeout, Exit, Crash
  <2>2. \A r \in Room : rooms'[r] \in {rooms[r], NoPid}
    BY <1>1, <1>8 DEF UnloadReturns, DrainFinish, CallTimeout, Exit, Crash, ActorMap
  <2>3. \A q \in Pid : proc'[q].alive => proc[q].alive /\ proc'[q].members = proc[q].members
    BY <1>1, <1>8 DEF UnloadReturns, DrainFinish, CallTimeout, Exit, Crash, ToldToExit,
                      WithMail, Dead
  <2>4. ASSUME NEW r \in Room PROVE Shown(rooms', proc', r) \in {View(r), redis[r].snapshot}
    BY <1>1, <1>2, <2>2, <2>3 DEF Shown, ActorMap
  <2>5. QED
    BY <1>3, <2>1, <2>4 DEF RoomsKeep
<1>9. CASE UNCHANGED <<rooms, proc, redis>>
  BY <1>9 DEF RoomsKeep, View
<1>10. \A c \in Client : Call(c) \/ ClientTimeout(c) => UNCHANGED <<rooms, proc, redis>>
  BY DEF Call, ClientTimeout
<1>11. CASE \/ Refuse \/ RouteNowhere \/ RouteToDeadRoom \/ Query \/ UnloadNothing \/ UnloadDead
            \/ DrainRegistry \/ RouteReturns \/ DrainReturns
  <2>1. UNCHANGED <<rooms, proc, redis>>
    BY <1>11 DEF Refuse, RouteNowhere, RouteToDeadRoom, Query, UnloadNothing, UnloadDead,
                  DrainRegistry, RouteReturns, DrainReturns
  <2>2. QED
    BY <1>9, <2>1
<1>12. QED
  BY <1>4, <1>5, <1>6, <1>7, <1>8, <1>9, <1>10, <1>11 DEF Next, RegistryStep

\* The mapping at one room.
LEMMA Mapping ==
    ASSUME NEW r \in Room
    PROVE  /\ Store!Moves(r) <=>
                \/ View(r)' = View(r)
                \/ \E n \in Nick : View(r)' \in {View(r) \cup {n}, View(r) \ {n}}
           /\ Store!Commit(r) <=>
                /\ Store!Moves(r)
                /\ redis'[r].snapshot = View(r)'
                /\ redis'[r].history = redis[r].history \/ Store!Posts(r)
           /\ Store!Attempt(r) <=>
                /\ Store!Moves(r)
                /\ redis'[r].snapshot = redis[r].snapshot /\ redis'[r].history = redis[r].history
                /\ ~(busy'.pid = rooms'[r] /\ busy'.answer = "ok")
           /\ Store!Answer(r) <=>
                /\ View(r)' = View(r)
                /\ redis'[r].snapshot = redis[r].snapshot /\ redis'[r].history = redis[r].history
           /\ Store!Restart(r) <=>
                /\ View(r)' = redis[r].snapshot
                /\ redis'[r].snapshot = redis[r].snapshot /\ redis'[r].history = redis[r].history
<1>1. Store!Moves(r) <=>
        \/ View(r)' = View(r)
        \/ \E n \in Nick : View(r)' \in {View(r) \cup {n}, View(r) \ {n}}
  BY DEF Store!Moves
<1>2. Store!Commit(r) <=>
        /\ Store!Moves(r)
        /\ redis'[r].snapshot = View(r)'
        /\ redis'[r].history = redis[r].history \/ Store!Posts(r)
  BY DEF Store!Commit
<1>3. Store!Attempt(r) <=>
        /\ Store!Moves(r)
        /\ redis'[r].snapshot = redis[r].snapshot /\ redis'[r].history = redis[r].history
        /\ ~(busy'.pid = rooms'[r] /\ busy'.answer = "ok")
  BY DEF Store!Attempt
<1>4. Store!Answer(r) <=>
        /\ View(r)' = View(r)
        /\ redis'[r].snapshot = redis[r].snapshot /\ redis'[r].history = redis[r].history
  BY DEF Store!Answer
<1>5. Store!Restart(r) <=>
        /\ View(r)' = redis[r].snapshot
        /\ redis'[r].snapshot = redis[r].snapshot /\ redis'[r].history = redis[r].history
  BY DEF Store!Restart
<1>6. QED
  BY <1>1, <1>2, <1>3, <1>4, <1>5

\* What it takes to post, in the concrete variables.
LEMMA Posting ==
    ASSUME NEW r \in Room, View(r)' = View(r), redis[r].history \in Seq(Message),
           NEW w, w.post \in Message, w.post.from \in View(r), redis'[r] = Written(redis[r], w)
    PROVE  Store!Posts(r)
<1> DEFINE rows == redis'[r].history
           all == Append(redis[r].history, w.post)
           excess == IF Len(all) > HistoryCap THEN Len(all) - HistoryCap ELSE 0
<1>1. /\ rows = SubSeq(all, excess + 1, Len(all))
      /\ rows # <<>> /\ rows[Len(rows)] = w.post
  BY WrittenPost
<1>2. QED
  BY <1>1 DEF Store!Posts

\* A room actor moves its own room by what it stores, or by what it could not
\* store and does not answer OK, and no other room.
LEMMA HandleCallRefines ==
    ASSUME IInv, NEW p \in Pid, HandleCall(p)
    PROVE  Store!Next
<1> DEFINE a == proc[p]
           msg == Head(a.inbox)
           plan == PlanFor(a.members, msg.req)
<1>1. /\ TypeOK /\ rooms \in ActorMap /\ proc \in [Pid -> Process]
      /\ redis \in [Room -> [snapshot : SUBSET Nick, history : Seq(Message)]]
  BY DEF IInv, TypeOK, ActorMap
<1>2. a.alive /\ a.inbox # <<>> /\ rooms' = rooms
  BY DEF HandleCall
<1>3. PICK r \in Room : r = a.room /\ rooms[r] = p /\ p # NoPid
  BY <1>2, BusyActorIsMapped, ActorAssumption
<1>4. PICK w \in IF plan.writes \/ msg.req.op = "list" THEN WriteOutcomes ELSE {"ok"} : Handled(p, w)
  BY DEF HandleCall, Handled
<1>5. /\ proc'[p].alive /\ proc'[p].members = plan.members
      /\ \A q \in Pid \ {p} : proc'[q] = proc[q]
  BY <1>1, <1>4 DEF Handled
<1>6. View(r) = memberList(a.members) /\ View(r)' = memberList(plan.members)
  BY <1>2, <1>3, <1>5 DEF View
<1>7. redis'[r] = IF plan.writes /\ w \in {"ok", "lost"} THEN Written(redis[r], WriteOf(plan)) ELSE redis[r]
  BY <1>1, <1>3, <1>4 DEF Handled
<1>8. ASSUME NEW x \in Room, x # r
      PROVE  View(x)' = View(x) /\ redis'[x] = redis[x]
  <2>1. rooms[x] # p
    BY <1>2, <1>3, <1>8 DEF IInv, Structure, Sound
  <2>2. rooms[x] # NoPid => proc'[rooms[x]] = proc[rooms[x]]
    BY <1>1, <1>5, <2>1 DEF ActorMap
  <2>3. redis'[x] = redis[x]
    BY <1>1, <1>3, <1>4, <1>8 DEF Handled
  <2>4. QED
    BY <1>2, <2>2, <2>3 DEF View
<1>9. Small(a.members, plan)
  <2>1. a.members \in Members /\ msg.req \in Request \cup {DrainRequest}
    <3>1. a \in Process
      BY <1>1
    <3>2. a.inbox \in Seq(Mail) /\ a.members \in Members
      BY <3>1 DEF Process
    <3>3. msg \in Mail
      BY <1>2, <3>2, TakeMail
    <3>4. QED
      BY <3>2, <3>3 DEF Mail
  <2>2. QED
    BY <2>1, PlanForSmall
<1>10. w = "failed" => ~(busy'.pid = p /\ busy'.answer = "ok")
  <2>1. busy.pid = p => busy.answer = "none"
    BY <1>2 DEF IInv, Structure, AskedIsIdle
  <2>2. CASE msg.awaited
    BY <1>4, <2>2 DEF Handled, Outcome
  <2>3. CASE ~msg.awaited
    BY <1>4, <2>1, <2>3 DEF Handled
  <2>4. QED
    BY <2>2, <2>3
<1> HIDE DEF plan
<1>11. Store!Moves(r)
  BY <1>6, <1>9, Mapping DEF Small
<1>12. Store!Commit(r) \/ Store!Attempt(r) \/ Store!Answer(r)
  <2>1. CASE ~plan.writes
    BY <1>6, <1>7, <1>9, <2>1, Mapping DEF Small
  <2>2. CASE plan.writes /\ w \notin {"ok", "lost"}
    <3>1. redis'[r] = redis[r] /\ w = "failed"
      BY <1>4, <1>7, <2>2 DEF WriteOutcomes
    <3>2. QED
      BY <1>2, <1>3, <1>10, <1>11, <3>1, Mapping
  <2>3. CASE plan.writes /\ w \in {"ok", "lost"}
    <3>1. redis'[r] = Written(redis[r], WriteOf(plan))
      BY <1>7, <2>3
    <3>2. redis'[r].snapshot = View(r)'
      BY <1>6, <3>1 DEF Written, WriteOf
    <3>3. CASE plan.post = NoPost
      <4>1. redis'[r].history = redis[r].history
        BY <3>1, <3>3 DEF Written, WriteOf
      <4>2. QED
        BY <1>11, <3>2, <4>1, Mapping
    <3>4. CASE plan.post # NoPost
      <4>1. /\ WriteOf(plan).post \in Message /\ WriteOf(plan).post.from \in View(r)
            /\ View(r)' = View(r)
        BY <1>6, <1>9, <3>4 DEF Small, WriteOf
      <4>2. redis[r].history \in Seq(Message)
        BY <1>1
      <4>3. Store!Posts(r)
        BY <3>1, <4>1, <4>2, Posting
      <4>4. QED
        BY <1>11, <3>2, <4>3, Mapping
    <3>5. QED
      BY <3>3, <3>4
  <2>4. QED
    BY <2>1, <2>2, <2>3
<1>13. \A x \in Room : x # r => Store!Answer(x)
  BY <1>8, Mapping
<1>14. QED
  BY <1>12, <1>13 DEF Store!Next

\* A fresh registry shows empty rooms over an empty Redis.
LEMMA InitShowsStore ==
    ASSUME Init
    PROVE  Store!Init
<1>1. \A r \in Room : rooms[r] = NoPid /\ redis[r] = [snapshot |-> {}, history |-> <<>>]
  BY DEF Init
<1>2. \A r \in Room : View(r) = {}
  BY <1>1 DEF View
<1>3. busy.answer # "ok"
  BY DEF Init, Idle
<1>4. /\ [r \in Room |-> redis[r].snapshot] = [r \in Room |-> {}]
      /\ [r \in Room |-> View(r)] = [r \in Room |-> {}]
      /\ [r \in Room |-> redis[r].history] = [r \in Room |-> <<>>]
  BY <1>1, <1>2
<1>5. [r \in Room |-> busy.pid = rooms[r] /\ busy.answer = "ok"] = [r \in Room |-> FALSE]
  BY <1>3, Zenon
<1>6. [r \in Room |-> {}] \in [Room -> SUBSET Nick]
  OBVIOUS
<1>7. QED
  BY <1>4, <1>5, <1>6 DEF Store!Init

\* For any rooms, callers, requests and actors, with timeouts, failed and lost
\* writes, crashes, unloads and drains, what the registry and its actors show,
\* store and answer is a behaviour of RoomStore.
THEOREM RegistryImplementsStore == Spec => StoreSpec
<1>1. Init => CreatedSound /\ Store!Init
  <2>1. Init => CreatedSound
    BY DEF Init, CreatedSound
  <2>2. QED
    BY <2>1, InitShowsStore
<1>2. IInv /\ CreatedSound /\ [Next]_vars => CreatedSound'
  BY CreatedIsSound
<1>3. IInv /\ CreatedSound /\ [Next]_vars => [Store!Next]_(Store!vars)
  <2> SUFFICES ASSUME IInv, CreatedSound, [Next]_vars PROVE [Store!Next]_(Store!vars)
    OBVIOUS
  <2>1. ASSUME NEW p \in Pid, HandleCall(p) PROVE Store!Next
    BY <2>1, HandleCallRefines
  <2>2. CASE Next /\ \A p \in Pid : ~HandleCall(p)
    <3>1. RoomsKeep
      BY <2>2, OthersKeepRooms
    <3>2. \A r \in Room : Store!Answer(r) \/ Store!Restart(r)
      BY <3>1, Mapping DEF RoomsKeep
    <3>3. QED
      BY <3>2 DEF Store!Next
  <2>3. CASE UNCHANGED vars
    BY <2>3 DEF vars, Store!vars, View
  <2>4. QED
    BY <2>1, <2>2, <2>3
<1>4. QED
  BY <1>1, <1>2, <1>3, Invariant, PTL DEF Spec, StoreSpec, Store!Spec
=============================================================================
