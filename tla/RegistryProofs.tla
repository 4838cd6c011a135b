--------------------------- MODULE RegistryProofs ---------------------------
(***************************************************************************)
(* Proofs about the registry and its room actors, for every set of rooms,  *)
(* callers, requests and processes, with timeouts, failed writes and       *)
(* crashes of room actors.                                                 *)
(***************************************************************************)
EXTENDS Registry, HandlerLemmas

\* What holds of a map rm of rooms and actors pr whatever the registry does: an
\* actor in the map that lives serves its own room, and an actor that lives is
\* in the map or has been told to exit with nothing left in its mailbox.
Sound(rm, pr) ==
    /\ \A r \in Room : rm[r] # NoPid /\ pr[rm[r]].alive => pr[rm[r]].room = r
    /\ \A p \in Pid : pr[p].alive =>
          /\ pr[p].room \in Room
          /\ rm[pr[p].room] = p \/ (pr[p].exiting /\ pr[p].inbox = <<>>)

\* Nobody waits for any request in a mailbox.
Unawaited(pr) == \A p \in Pid : \A i \in DOMAIN pr[p].inbox : ~pr[p].inbox[i].awaited

\* The registry waits only for an actor in its map.
BusySound ==
    /\ busy.pid # NoPid => \E r \in Room : rooms[r] = busy.pid
    /\ busy.answer # "none" \/ busy.task \in {"route", "unload"} => busy.pid # NoPid
    /\ busy.task = "idle" => busy.pid = NoPid
    /\ busy.task = "drain" => draining /\ busy.todo \subseteq Mapped

\* The request the registry waits for is the last one in the mailbox of the
\* actor it asked; unload and drain of the registry ask for a drain.
LastIsAwaited == \A p \in Pid : \A i \in DOMAIN proc[p].inbox :
    proc[p].inbox[i].awaited =>
        /\ p = busy.pid /\ busy.answer = "none" /\ i = Len(proc[p].inbox)
        /\ busy.task \in {"unload", "drain"} => proc[p].inbox[i].req = DrainRequest

\* An actor that was asked for its snapshot and answered has nothing left to do.
AskedIsIdle ==
    /\ busy.answer # "none" => proc[busy.pid].inbox = <<>>
    /\ busy.task = "drain" => \A r \in Mapped \ busy.todo :
          rooms[r] # busy.pid => proc[rooms[r]].inbox = <<>>

\* An actor that answered OK to its drain has its members in Redis.
Persisted(p) == proc[p].alive =>
    redis[proc[p].room].snapshot = memberList(proc[p].members)

AskedIsPersisted ==
    /\ busy.answer = "ok" /\ busy.task \in {"unload", "drain"} => Persisted(busy.pid)
    /\ busy.task = "drain" => \A r \in Mapped \ busy.todo :
          rooms[r] # busy.pid => Persisted(rooms[r])

\* A drained registry has no rooms and takes no requests, and one that has ended
\* takes none either.
DrainedEmpty == drained => (draining \/ ~up) /\ Mapped = {}

Structure == /\ Sound(rooms, proc) /\ BusySound /\ LastIsAwaited
             /\ AskedIsIdle /\ AskedIsPersisted /\ DrainedEmpty

IInv == TypeOK /\ Structure

-----------------------------------------------------------------------------
(* Lemmas about the data.                                                   *)

\* A trimmed room id is a room or blank, and trimming a room changes nothing.
LEMMA TrimRoom ==
    /\ \A id \in RoomID : TrimSpace[id] \in Room \cup {Blank}
    /\ Blank \notin Room
    /\ \A r \in Room : TrimSpace[r] = r
<1>1. RoomID \subseteq Raw
  BY RequestAssumption
<1>2. QED
  BY <1>1, TrimAssumption DEF Room

\* Nobody waiting for the requests of a mailbox changes neither their number
\* nor their content.
LEMMA AbandonedMail ==
    ASSUME NEW mail \in Seq(Mail)
    PROVE  /\ Abandoned(mail) \in Seq(Mail)
           /\ DOMAIN Abandoned(mail) = DOMAIN mail
           /\ \A i \in DOMAIN mail : ~Abandoned(mail)[i].awaited
           /\ mail = <<>> => Abandoned(mail) = <<>>
<1>1. /\ DOMAIN Abandoned(mail) = DOMAIN mail /\ DOMAIN mail = 1..Len(mail)
      /\ \A i \in DOMAIN mail : Abandoned(mail)[i] = [req |-> mail[i].req, awaited |-> FALSE]
  BY DEF Abandoned
<1>2. \A i \in DOMAIN mail : mail[i] \in Mail
  OBVIOUS
<1>3. \A i \in DOMAIN mail : Abandoned(mail)[i] \in Mail /\ ~Abandoned(mail)[i].awaited
  <2>1. \A x \in Mail : [req |-> x.req, awaited |-> FALSE] \in Mail
    BY DEF Mail
  <2>2. QED
    BY <1>1, <1>2, <2>1
<1>4. Abandoned(mail) \in [1..Len(mail) -> Mail]
  BY <1>1, <1>3 DEF Abandoned
<1>5. Abandoned(mail) \in Seq(Mail) /\ Len(Abandoned(mail)) = Len(mail)
  BY <1>4
<1>6. QED
  BY <1>1, <1>3, <1>5

\* A command's plan and write are well formed, and a drain's plan keeps the map
\* and writes all of it.
LEMMA PlanForType ==
    ASSUME NEW m \in Members, NEW req \in Request \cup {DrainRequest}
    PROVE  /\ PlanFor(m, req) \in Plan
           /\ WriteOf(PlanFor(m, req)) \in Write
<1>1. req.name \in Raw /\ req.text \in Raw /\ req.conn \in Sender
  <2>1. CASE req \in Request
    BY <2>1, RequestAssumption
  <2>2. CASE req = DrainRequest
    BY <2>2, TrimAssumption DEF DrainRequest, Sender
  <2>3. QED
    BY <2>1, <2>2
<1>2. Answer(m, TRUE) \in Plan
  BY DEF Answer, Plan, Event
<1>3. PlanFor(m, req) \in Plan
  BY <1>1, <1>2, PlansAreTyped DEF PlanFor
<1>4. QED
  BY <1>3 DEF WriteOf, Plan, Write, memberList

\* The request of unload and drain makes an actor write its snapshot.
LEMMA DrainPlan ==
    ASSUME NEW m
    PROVE  PlanFor(m, DrainRequest) = drain(m)
<1>1. DrainRequest.op = "drain"
  BY DEF DrainRequest
<1>2. ~("drain" = "join") /\ ~("drain" = "leave") /\ ~("drain" = "message")
  OBVIOUS
<1>3. QED
  BY <1>1, <1>2, Zenon DEF PlanFor

\* A handler's own request is one that clients make.
LEMMA ServedIsRequest ==
    ASSUME TypeOK, inbox # <<>>
    PROVE  /\ Current \in Queued /\ Current.req \in Request
           /\ Current.req.room \in RoomID
           /\ Tail(inbox) \in Seq(Queued)
<1>1. Current \in Queued /\ Tail(inbox) \in Seq(Queued)
  BY TakeMail DEF TypeOK, Current
<1>2. Current.req \in Request
  BY <1>1 DEF Queued
<1>3. QED
  BY <1>1, <1>2, RequestAssumption

\* Answering a caller changes its Call only.
LEMMA AnsweredType ==
    ASSUME TypeOK, NEW c \in Client \cup {NoClient}, NEW result \in {"ok", "fail", "error"}
    PROVE  Answered(c, result) \in [Client -> [req : Request \cup {NoRequest},
                               reply : {"none", "waiting", "ok", "fail", "error"}]]
<1>1. [req |-> NoRequest, reply |-> result]
        \in [req : Request \cup {NoRequest}, reply : {"none", "waiting", "ok", "fail", "error"}]
  OBVIOUS
<1>2. QED
  BY <1>1 DEF TypeOK, Answered

\* An outcome is one of the two answers.
LEMMA OutcomeType == \A ok : Outcome(ok) \in {"ok", "fail"}
  BY DEF Outcome

\* The actor ensureRoom spawns for a room.
Spawned(r) == [room |-> r, alive |-> TRUE, exiting |-> FALSE,
               members |-> hydrate(redis[r].snapshot), inbox |-> <<>>]

\* The two outcomes of ensureRoom: it changes nothing, or it puts a fresh actor,
\* at an address nobody uses, into the map for a room that had none.
ChangesNothing(e) ==
    /\ e.rooms = rooms /\ e.proc = proc
    /\ e.pid # NoPid => \E r \in Room : rooms[r] = e.pid

Spawns(e, r, p) ==
    /\ ~proc[p].alive /\ \A x \in Room : rooms[x] # p
    /\ rooms[r] = NoPid
    /\ e.rooms = [rooms EXCEPT ![r] = p]
    /\ e.proc = [proc EXCEPT ![p] = Spawned(r)]
    /\ e.pid = p

\* ensureRoom has no other outcome.
LEMMA EnsureRoomEither ==
    ASSUME TypeOK, NEW id, TrimSpace[id] \in Room \cup {Blank}, NEW known,
           NEW e \in ensureRoom(id, known)
    PROVE  ChangesNothing(e) \/ \E r \in Room, p \in Pid : Spawns(e, r, p)
<1> DEFINE r == TrimSpace[id]
           new == CHOOSE p \in FreePid : TRUE
<1>1. CASE e = Nowhere
  BY <1>1 DEF Nowhere, ChangesNothing
<1>2. CASE r # Blank /\ e = [rooms |-> rooms, proc |-> proc, pid |-> rooms[r]]
  BY <1>2 DEF ChangesNothing
<1>3. CASE /\ r # Blank /\ rooms[r] = NoPid /\ FreePid # {}
           /\ e = [rooms |-> [rooms EXCEPT ![r] = new],
                   proc |-> [proc EXCEPT ![new] = Spawned(r)], pid |-> new]
  <2>1. new \in FreePid
    BY <1>3
  <2>2. new \in Pid /\ ~proc[new].alive /\ \A x \in Room : rooms[x] # new
    BY <2>1 DEF FreePid
  <2>3. Spawns(e, r, new)
    BY <1>3, <2>2 DEF Spawns
  <2>4. QED
    BY <1>3, <2>2, <2>3
<1>4. QED
  BY <1>1, <1>2, <1>3 DEF ensureRoom, Spawned

\* ensureRoom tells nobody to exit.
LEMMA StartedIsNotExiting ==
    ASSUME TypeOK, NEW id, TrimSpace[id] \in Room \cup {Blank}, NEW known,
           NEW e \in ensureRoom(id, known), NEW p \in Pid
    PROVE  e.proc[p].exiting => proc[p].exiting
<1>1. CASE ChangesNothing(e)
  BY <1>1 DEF ChangesNothing
<1>2. ASSUME NEW r \in Room, NEW q \in Pid, Spawns(e, r, q)
      PROVE  e.proc[p].exiting => proc[p].exiting
  BY <1>2 DEF Spawns, Spawned, TypeOK
<1>3. QED
  BY <1>1, <1>2, EnsureRoomEither

ActorMap == [Room -> Pid \cup {NoPid}]

\* A spawned actor is well formed.
LEMMA SpawnedType ==
    ASSUME TypeOK, NEW r \in Room
    PROVE  /\ Spawned(r) \in Process
           /\ Spawned(r).room = r /\ Spawned(r).alive /\ Spawned(r).inbox = <<>>
<1>1. redis[r].snapshot \in SUBSET Nick
  BY DEF TypeOK
<1>2. hydrate(redis[r].snapshot) \in Members
  BY <1>1, HydrateRestores
<1>3. <<>> \in Seq(Mail)
  OBVIOUS
<1>4. QED
  BY <1>2, <1>3 DEF Spawned, Process

\* What ensureRoom does leaves map and actors sound and everybody unawaited.
LEMMA EnsureRoomKeeps ==
    ASSUME TypeOK, ActorAssumption, NEW id, TrimSpace[id] \in Room \cup {Blank}, NEW known,
           NEW e \in ensureRoom(id, known), Sound(rooms, proc), Unawaited(proc)
    PROVE  /\ e.rooms \in ActorMap /\ e.proc \in [Pid -> Process]
           /\ e.pid \in Pid \cup {NoPid}
           /\ e.pid # NoPid => \E r \in Room : e.rooms[r] = e.pid
           /\ Sound(e.rooms, e.proc) /\ Unawaited(e.proc)
<1>1. rooms \in ActorMap /\ proc \in [Pid -> Process]
  BY DEF TypeOK, ActorMap
<1>2. CASE ChangesNothing(e)
  BY <1>1, <1>2 DEF ActorMap, ChangesNothing
<1>3. ASSUME NEW r \in Room, NEW p \in Pid, Spawns(e, r, p)
      PROVE  /\ e.rooms \in ActorMap /\ e.proc \in [Pid -> Process]
             /\ e.pid \in Pid \cup {NoPid}
             /\ e.pid # NoPid => \E x \in Room : e.rooms[x] = e.pid
             /\ Sound(e.rooms, e.proc) /\ Unawaited(e.proc)
  <2>1. /\ Spawned(r) \in Process
        /\ Spawned(r).room = r /\ Spawned(r).alive /\ Spawned(r).inbox = <<>>
    BY SpawnedType
  <2>2. e.rooms \in ActorMap /\ e.proc \in [Pid -> Process]
    BY <1>1, <1>3, <2>1 DEF ActorMap, Spawns
  <2>3. /\ \A x \in Room : e.rooms[x] = IF x = r THEN p ELSE rooms[x]
        /\ \A x \in Pid : e.proc[x] = IF x = p THEN Spawned(r) ELSE proc[x]
    BY <1>1, <1>3 DEF ActorMap, Spawns
  <2>4. ASSUME NEW x \in Room, e.rooms[x] # NoPid, e.proc[e.rooms[x]].alive
        PROVE  e.proc[e.rooms[x]].room = x
    <3>1. CASE x = r
      BY <2>1, <2>3, <3>1
    <3>2. CASE x # r
      <4>1. e.rooms[x] = rooms[x] /\ rooms[x] # p /\ rooms[x] \in Pid
        BY <1>1, <1>3, <2>3, <2>4, <3>2 DEF ActorMap, Spawns
      <4>2. e.proc[rooms[x]] = proc[rooms[x]]
        BY <2>3, <4>1
      <4>3. QED
        BY <2>4, <4>1, <4>2 DEF Sound
    <3>3. QED
      BY <3>1, <3>2
  <2>5. ASSUME NEW x \in Pid, e.proc[x].alive
        PROVE  /\ e.proc[x].room \in Room
               /\ e.rooms[e.proc[x].room] = x \/ (e.proc[x].exiting /\ e.proc[x].inbox = <<>>)
    <3>1. CASE x = p
      BY <2>1, <2>3, <3>1
    <3>2. CASE x # p
      <4>1. e.proc[x] = proc[x]
        BY <2>3, <3>2
      <4>2. /\ proc[x].room \in Room
            /\ rooms[proc[x].room] = x \/ (proc[x].exiting /\ proc[x].inbox = <<>>)
        BY <2>5, <4>1 DEF Sound
      <4>3. rooms[proc[x].room] = x => proc[x].room # r
        BY <1>3, ActorAssumption DEF Spawns
      <4>4. QED
        BY <2>3, <4>1, <4>2, <4>3
    <3>3. QED
      BY <3>1, <3>2
  <2>6. Sound(e.rooms, e.proc)
    BY <2>4, <2>5 DEF Sound
  <2>7. Unawaited(e.proc)
    BY <2>1, <2>3 DEF Unawaited
  <2>8. e.pid = p /\ \E x \in Room : e.rooms[x] = e.pid
    BY <1>3, <2>3 DEF Spawns
  <2>9. QED
    BY <2>2, <2>6, <2>7, <2>8
<1>4. ChangesNothing(e) \/ \E r \in Room, p \in Pid : Spawns(e, r, p)
  BY EnsureRoomEither
<1>5. QED
  BY <1>2, <1>3, <1>4

Asked(pr, p, req) ==
    [pr EXCEPT ![p] = WithMail(@, Append(@.inbox, [req |-> req, awaited |-> TRUE]))]

\* Asking a living actor of the map keeps map and actors sound; the request is
\* the only awaited one, and the last.
LEMMA AskKeeps ==
    ASSUME NEW rm \in ActorMap, NEW pr \in [Pid -> Process], Sound(rm, pr), Unawaited(pr),
           NEW p \in Pid, pr[p].alive, NEW r \in Room, rm[r] = p, p # NoPid,
           NEW req \in Request \cup {DrainRequest}
    PROVE  /\ Asked(pr, p, req) \in [Pid -> Process]
           /\ Sound(rm, Asked(pr, p, req))
           /\ \A x \in Pid : x # p => Asked(pr, p, req)[x] = pr[x]
           /\ Asked(pr, p, req)[p].alive
           /\ \A x \in Pid : \A i \in DOMAIN Asked(pr, p, req)[x].inbox :
                 Asked(pr, p, req)[x].inbox[i].awaited =>
                    /\ x = p /\ i = Len(Asked(pr, p, req)[x].inbox)
                    /\ Asked(pr, p, req)[x].inbox[i].req = req
<1> DEFINE mail == [req |-> req, awaited |-> TRUE]
           next == Asked(pr, p, req)
<1>1. mail \in Mail
  BY DEF Mail
<1>2. pr[p] \in Process /\ pr[p].inbox \in Seq(Mail)
  BY DEF Process
<1>3. /\ Append(pr[p].inbox, mail) \in Seq(Mail)
      /\ Len(Append(pr[p].inbox, mail)) = Len(pr[p].inbox) + 1
      /\ \A i \in 1..Len(pr[p].inbox) : Append(pr[p].inbox, mail)[i] = pr[p].inbox[i]
      /\ DOMAIN Append(pr[p].inbox, mail) = 1..(Len(pr[p].inbox) + 1)
      /\ DOMAIN pr[p].inbox = 1..Len(pr[p].inbox) /\ Len(pr[p].inbox) \in Nat
  BY <1>1, <1>2, AppendProperties, LenProperties
<1> DEFINE q == Append(pr[p].inbox, mail)
<1>4. WithMail(pr[p], q) \in Process
  BY <1>2, <1>3 DEF WithMail, Process
<1>5. /\ next \in [Pid -> Process]
      /\ next[p] = WithMail(pr[p], q)
      /\ \A x \in Pid : x # p => next[x] = pr[x]
  BY <1>4 DEF Asked
<1>6. /\ next[p].room = pr[p].room /\ next[p].alive = pr[p].alive
      /\ next[p].inbox = q
  BY <1>5 DEF WithMail
<1>7. pr[p].room = r
  BY DEF Sound
<1>8. Sound(rm, next)
  <2>1. \A x \in Pid : next[x].room = pr[x].room /\ next[x].alive = pr[x].alive
    BY <1>5, <1>6
  <2>2. ASSUME NEW x \in Room, rm[x] # NoPid, next[rm[x]].alive
        PROVE  next[rm[x]].room = x
    <3>1. rm[x] \in Pid
      BY <2>2 DEF ActorMap
    <3>2. QED
      BY <2>1, <2>2, <3>1 DEF Sound
  <2>3. ASSUME NEW x \in Pid, next[x].alive
        PROVE  /\ next[x].room \in Room
               /\ rm[next[x].room] = x \/ (next[x].exiting /\ next[x].inbox = <<>>)
    <3>1. CASE x = p
      BY <1>6, <1>7, <3>1
    <3>2. CASE x # p
      BY <1>5, <2>3, <3>2 DEF Sound
    <3>3. QED
      BY <3>1, <3>2
  <2>4. QED
    BY <2>2, <2>3 DEF Sound
<1>9. ASSUME NEW x \in Pid, NEW i \in DOMAIN next[x].inbox, next[x].inbox[i].awaited
      PROVE  x = p /\ i = Len(next[x].inbox) /\ next[x].inbox[i].req = req
  <2>1. x = p
    BY <1>5, <1>9 DEF Unawaited
  <2>2. i \in 1..(Len(pr[p].inbox) + 1) /\ q[i].awaited
    BY <1>3, <1>6, <1>9, <2>1
  <2>3. ~(i \in 1..Len(pr[p].inbox))
    BY <1>3, <2>2 DEF Unawaited
  <2>4. i = Len(pr[p].inbox) + 1
    <3> HIDE DEF q
    <3>1. QED
      BY <1>3, <2>2, <2>3
  <2>5. q[Len(pr[p].inbox) + 1] = mail
    BY <1>1, <1>2, AppendProperties
  <2>6. QED
    BY <1>3, <1>6, <2>1, <2>4, <2>5
<1>10. QED
  BY <1>5, <1>6, <1>8, <1>9

-----------------------------------------------------------------------------
(* Lemmas about what an action leaves as it was.                            *)

\* An idle registry waits for nobody, and nobody waits for a room actor.
LEMMA IdleWaitsForNobody ==
    ASSUME IInv, busy.task = "idle" \/ busy.pid = NoPid \/ busy.answer # "none"
    PROVE  /\ busy.task = "idle" => busy.pid = NoPid /\ busy.answer = "none"
           /\ Unawaited(proc)
<1>1. busy.task = "idle" => busy.pid = NoPid /\ busy.answer = "none"
  BY DEF IInv, Structure, BusySound
<1>2. ASSUME NEW p \in Pid, NEW i \in DOMAIN proc[p].inbox
      PROVE  ~proc[p].inbox[i].awaited
  BY <1>1, ActorAssumption DEF IInv, Structure, LastIsAwaited
<1>3. QED
  BY <1>1, <1>2 DEF Unawaited

\* A step that leaves map, actors, Redis and what the registry waits for alone
\* keeps the structure.
LEMMA QuietKeeps ==
    ASSUME Structure, UNCHANGED <<rooms, proc, redis, draining, drained>>, up' => up,
           busy'.task = busy.task, busy'.pid = busy.pid, busy'.todo = busy.todo,
           busy'.answer = busy.answer
    PROVE  Structure'
<1>1. Sound(rooms, proc)' /\ DrainedEmpty'
  BY DEF Structure, Sound, DrainedEmpty, Mapped
<1>2. BusySound' /\ LastIsAwaited'
  BY DEF Structure, BusySound, LastIsAwaited, Mapped
<1>3. AskedIsIdle' /\ AskedIsPersisted'
  BY DEF Structure, AskedIsIdle, AskedIsPersisted, Persisted, Mapped
<1>4. QED
  BY <1>1, <1>2, <1>3 DEF Structure

\* When the registry is idle, only the map, the actors and the end of a drain
\* are left to look at.
LEMMA SettledIsStructured ==
    ASSUME Sound(rooms', proc'), Unawaited(proc'), DrainedEmpty',
           busy'.task = "idle", busy'.pid = NoPid, busy'.answer = "none"
    PROVE  Structure'
<1>1. BusySound'
  BY DEF BusySound
<1>2. LastIsAwaited'
  BY DEF LastIsAwaited, Unawaited
<1>3. AskedIsIdle' /\ AskedIsPersisted'
  BY DEF AskedIsIdle, AskedIsPersisted
<1>4. QED
  BY <1>1, <1>2, <1>3 DEF Structure, Sound

\* The same for a registry that has just asked an actor of its map for something
\* that is no drain of the whole registry.
LEMMA AskingIsStructured ==
    ASSUME NEW rm \in ActorMap, NEW pr \in [Pid -> Process], Sound(rm, pr), Unawaited(pr),
           NEW p \in Pid, pr[p].alive, NEW r \in Room, rm[r] = p, p # NoPid,
           NEW req \in Request \cup {DrainRequest},
           rooms' = rm, proc' = Asked(pr, p, req), NEW c, NEW task \in {"route", "unload"},
           busy' = Waiting(task, c, p, {}), task = "unload" => req = DrainRequest,
           DrainedEmpty'
    PROVE  Structure' /\ proc' \in [Pid -> Process]
<1>1. /\ proc' \in [Pid -> Process]
      /\ Sound(rm, proc')
      /\ \A x \in Pid : \A i \in DOMAIN proc'[x].inbox : proc'[x].inbox[i].awaited =>
            x = p /\ i = Len(proc'[x].inbox) /\ proc'[x].inbox[i].req = req
  BY AskKeeps
<1>2. /\ busy'.task = task /\ busy'.pid = p /\ busy'.answer = "none"
  BY DEF Waiting
<1>3. BusySound'
  BY <1>2 DEF BusySound
<1>4. LastIsAwaited'
  BY <1>1, <1>2 DEF LastIsAwaited
<1>5. AskedIsIdle' /\ AskedIsPersisted'
  BY <1>2 DEF AskedIsIdle, AskedIsPersisted
<1>6. Sound(rooms, proc)'
  BY <1>1 DEF Sound
<1>7. QED
  BY <1>1, <1>3, <1>4, <1>5, <1>6 DEF Structure

-----------------------------------------------------------------------------
(* The clients' steps, and the requests that concern no room actor.         *)

\* A request that enters the mailbox is one that clients make.
LEMMA CallKeeps ==
    ASSUME IInv, NEW c \in Client, Call(c)
    PROVE  IInv'
<1>1. Structure'
  BY QuietKeeps DEF IInv, Call
<1>2. PICK req \in Request :
        /\ \/ /\ inbox' = Append(inbox, [client |-> c, req |-> req])
              /\ call' = [call EXCEPT ![c] = [req |-> req, reply |-> "waiting"]]
           \/ /\ inbox' = inbox
              /\ call' = [call EXCEPT ![c] = [req |-> NoRequest, reply |-> "error"]]
        /\ UNCHANGED <<up, draining, rooms, busy, proc, created, redis, drained>>
  BY DEF Call
<1>3. inbox' \in Seq(Queued)
  <2>1. [client |-> c, req |-> req] \in Queued /\ inbox \in Seq(Queued)
    BY DEF IInv, TypeOK, Queued
  <2>2. QED
    BY <1>2, <2>1
<1>4. call' \in [Client -> [req : Request \cup {NoRequest},
                           reply : {"none", "waiting", "ok", "fail", "error"}]]
  <2> DEFINE Record == [req : Request \cup {NoRequest},
                        reply : {"none", "waiting", "ok", "fail", "error"}]
  <2>1. [req |-> req, reply |-> "waiting"] \in Record /\ [req |-> NoRequest, reply |-> "error"] \in Record
    OBVIOUS
  <2>2. call \in [Client -> Record]
    BY DEF IInv, TypeOK
  <2> HIDE DEF Record
  <2>3. call' \in [Client -> Record]
    BY <1>2, <2>1, <2>2
  <2>4. QED
    BY <2>3 DEF Record
<1>5. UNCHANGED <<up, draining, rooms, busy, proc, created, redis, drained>>
  BY <1>2
<1>6. TypeOK'
  BY <1>3, <1>4, <1>5 DEF IInv, TypeOK
<1>7. QED
  BY <1>1, <1>6 DEF IInv

\* A caller that gives up is replaced by nobody wherever it was waiting.
LEMMA ClientTimeoutKeeps ==
    ASSUME IInv, NEW c \in Client, ClientTimeout(c)
    PROVE  IInv'
<1>1. busy \in Task /\ inbox \in Seq(Queued)
  BY DEF IInv, TypeOK
<1>2. /\ busy' \in Task /\ busy'.task = busy.task /\ busy'.pid = busy.pid
      /\ busy'.todo = busy.todo /\ busy'.answer = busy.answer
  BY <1>1 DEF ClientTimeout, Task
<1>3. Structure'
  BY <1>2, QuietKeeps DEF IInv, ClientTimeout
<1>4. inbox' \in Seq(Queued)
  <2>1. \A i \in 1..Len(inbox) : inbox[i] \in Queued
    BY <1>1
  <2>2. \A q \in Queued : [client |-> NoClient, req |-> q.req] \in Queued
    BY DEF Queued
  <2>3. inbox' \in [1..Len(inbox) -> Queued] /\ Len(inbox) \in Nat
    BY <1>1, <2>1, <2>2 DEF ClientTimeout
  <2>4. QED
    BY <2>3
<1>5. TypeOK'
  BY <1>2, <1>4 DEF IInv, TypeOK, ClientTimeout
<1>6. QED
  BY <1>3, <1>5 DEF IInv

\* Requests that are answered at once, whatever the answer.
LEMMA AnswerAtOnceKeeps ==
    ASSUME IInv, inbox # <<>>, inbox' = Tail(inbox),
           NEW result \in {"ok", "fail"}, call' = Answered(Current.client, result),
           UNCHANGED <<up, draining, rooms, busy, proc, created, redis, drained>>
    PROVE  IInv'
<1>1. Structure'
  BY QuietKeeps DEF IInv
<1>2. Current.client \in Client \cup {NoClient} /\ inbox' \in Seq(Queued)
  BY ServedIsRequest DEF IInv, Queued
<1>3. call' \in [Client -> [req : Request \cup {NoRequest},
                           reply : {"none", "waiting", "ok", "fail", "error"}]]
  BY <1>2, AnsweredType DEF IInv
<1>4. TypeOK'
  BY <1>2, <1>3 DEF IInv, TypeOK
<1>5. QED
  BY <1>1, <1>4 DEF IInv

\* The actions of that kind.
LEMMA QuietActionsKeep ==
    ASSUME IInv, Refuse \/ RouteNowhere \/ Query \/ UnloadNothing \/ UnloadDead
    PROVE  IInv'
<1>1. CASE Refuse
  BY <1>1, AnswerAtOnceKeeps DEF Refuse
<1>2. CASE RouteNowhere
  BY <1>2, AnswerAtOnceKeeps DEF RouteNowhere, Serve
<1>3. CASE Query
  <2>1. PICK ok \in BOOLEAN : call' = Answered(Current.client, Outcome(ok))
    BY <1>3 DEF Query
  <2>2. QED
    BY <1>3, <2>1, AnswerAtOnceKeeps, OutcomeType DEF Query, Serve
<1>4. CASE UnloadNothing
  BY <1>4, AnswerAtOnceKeeps DEF UnloadNothing, Serve
<1>5. CASE UnloadDead
  BY <1>5, AnswerAtOnceKeeps DEF UnloadDead, Serve
<1>6. QED
  BY <1>1, <1>2, <1>3, <1>4, <1>5

-----------------------------------------------------------------------------
(* The requests that concern a room actor.                                  *)

\* Creating a room resets Redis for rooms without a snapshot only, and spawns
\* at most one actor.
LEMMA CreateRoomKeeps ==
    ASSUME IInv, CreateRoom
    PROVE  IInv'
<1> DEFINE r == TrimSpace[Current.req.room]
<1>1. /\ busy.task = "idle" /\ inbox # <<>> /\ ~draining /\ ~drained
      /\ inbox' = Tail(inbox)
      /\ UNCHANGED <<up, draining, busy, drained>>
  BY DEF CreateRoom, Serve, IInv, Structure, DrainedEmpty
<1>2. /\ Current.client \in Client \cup {NoClient} /\ Current.req.room \in RoomID
      /\ inbox' \in Seq(Queued)
  BY <1>1, ServedIsRequest DEF IInv, Queued
<1>3. r \in Room \cup {Blank} /\ TrimSpace[r] \in Room \cup {Blank}
  BY <1>2, TrimRoom, TrimAssumption
<1>4. PICK stored \in SUBSET {r}, goesOn \in BOOLEAN :
        /\ stored # {} => r # Blank
        /\ created' = created \cup stored
        /\ redis' = [x \in Room |-> IF x \in stored
                                   THEN [snapshot |-> {}, history |-> redis[x].history]
                                   ELSE redis[x]]
        /\ \E e \in IF goesOn THEN ensureRoom(r, created \cup stored) ELSE {Nowhere} :
              /\ rooms' = e.rooms
              /\ proc' = e.proc
              /\ call' = Answered(Current.client, Outcome(e.pid # NoPid))
  BY DEF CreateRoom
<1>5. PICK e \in IF goesOn THEN ensureRoom(r, created \cup stored) ELSE {Nowhere} :
        /\ rooms' = e.rooms
        /\ proc' = e.proc
        /\ call' = Answered(Current.client, Outcome(e.pid # NoPid))
  BY <1>4
<1>6. Sound(rooms, proc) /\ Unawaited(proc) /\ busy.pid = NoPid /\ busy.answer = "none"
  BY <1>1, IdleWaitsForNobody DEF IInv, Structure
<1>7. rooms' \in ActorMap /\ proc' \in [Pid -> Process] /\ Sound(rooms', proc') /\ Unawaited(proc')
  <2>1. CASE goesOn
    BY <1>3, <1>5, <1>6, <2>1, EnsureRoomKeeps, ActorAssumption DEF IInv
  <2>2. CASE ~goesOn
    BY <1>5, <1>6, <2>2 DEF Nowhere, IInv, TypeOK, ActorMap
  <2>3. QED
    BY <2>1, <2>2
<1>8. Structure'
  BY <1>1, <1>6, <1>7, SettledIsStructured DEF DrainedEmpty
<1>9. call' \in [Client -> [req : Request \cup {NoRequest},
                           reply : {"none", "waiting", "ok", "fail", "error"}]]
  <2>1. Outcome(e.pid # NoPid) \in {"ok", "fail", "error"}
    BY DEF Outcome
  <2>2. QED
    BY <1>2, <1>5, <2>1, AnsweredType DEF IInv
<1>10. created' \subseteq Room
  BY <1>3, <1>4 DEF IInv, TypeOK
<1>11. redis' \in [Room -> [snapshot : SUBSET Nick, history : Seq(Message)]]
  BY <1>4 DEF IInv, TypeOK
<1>12. TypeOK'
  BY <1>1, <1>2, <1>7, <1>9, <1>10, <1>11 DEF IInv, TypeOK, ActorMap
<1>13. QED
  BY <1>8, <1>12 DEF IInv

\* A routed request goes to the last place of the mailbox of its room's actor.
LEMMA RouteToRoomKeeps ==
    ASSUME IInv, RouteToRoom
    PROVE  IInv'
<1>1. /\ busy.task = "idle" /\ inbox # <<>> /\ ~draining /\ ~drained
      /\ inbox' = Tail(inbox) /\ drained' = drained
  BY DEF RouteToRoom, Serve, Routed, IInv, Structure, DrainedEmpty
<1>2. /\ Current.client \in Client \cup {NoClient} /\ Current.req.room \in RoomID
      /\ Current.req \in Request /\ inbox' \in Seq(Queued)
  BY <1>1, ServedIsRequest DEF IInv, Queued
<1>3. TrimSpace[Current.req.room] \in Room \cup {Blank}
  BY <1>2, TrimRoom
<1>4. PICK e \in ensureRoom(Current.req.room, created) :
        /\ e.pid # NoPid /\ e.proc[e.pid].alive
        /\ rooms' = e.rooms
        /\ proc' = Asked(e.proc, e.pid, Current.req)
        /\ busy' = Waiting("route", Current.client, e.pid, {})
  BY DEF RouteToRoom, Ask, Asked
<1>5. Sound(rooms, proc) /\ Unawaited(proc)
  BY <1>1, IdleWaitsForNobody DEF IInv, Structure
<1>6. /\ e.rooms \in ActorMap /\ e.proc \in [Pid -> Process]
      /\ e.pid \in Pid /\ \E r \in Room : e.rooms[r] = e.pid
      /\ Sound(e.rooms, e.proc) /\ Unawaited(e.proc)
  BY <1>3, <1>4, <1>5, EnsureRoomKeeps, ActorAssumption DEF IInv
<1>7. DrainedEmpty'
  BY <1>1 DEF DrainedEmpty
<1>8. Structure' /\ proc' \in [Pid -> Process]
  BY <1>2, <1>4, <1>6, <1>7, AskingIsStructured
<1>9. busy' \in Task
  BY <1>2, <1>4, <1>6 DEF Waiting, Task
<1>10. TypeOK'
  BY <1>2, <1>4, <1>6, <1>8, <1>9 DEF RouteToRoom, IInv, TypeOK, ActorMap
<1>11. QED
  BY <1>8, <1>10 DEF IInv

\* The registry's end leaves rooms and actors as they are.
LEMMA RouteToDeadRoomKeeps ==
    ASSUME IInv, RouteToDeadRoom
    PROVE  IInv'
<1>1. Sound(rooms, proc) /\ Unawaited(proc) /\ DrainedEmpty
  BY IdleWaitsForNobody DEF IInv, Structure, RouteToDeadRoom
<1>2. Sound(rooms', proc') /\ Unawaited(proc') /\ DrainedEmpty'
  BY <1>1 DEF RouteToDeadRoom, DrainedEmpty, Mapped
<1>3. busy' = Idle
  BY DEF RouteToDeadRoom, Terminate
<1>4. Structure'
  BY <1>2, <1>3, SettledIsStructured DEF Idle
<1>5. busy' \in Task
  BY <1>3 DEF Idle, Task
<1>6. inbox' \in Seq(Queued)
  BY DEF RouteToDeadRoom, Terminate
<1>7. TypeOK'
  BY <1>5, <1>6 DEF RouteToDeadRoom, Terminate, IInv, TypeOK
<1>8. QED
  BY <1>4, <1>7 DEF IInv

\* The unload asks the room's actor for a drain.
LEMMA UnloadRoomKeeps ==
    ASSUME IInv, UnloadRoom
    PROVE  IInv'
<1> DEFINE p == rooms[Current.req.room]
<1>1. /\ busy.task = "idle" /\ inbox # <<>> /\ ~draining /\ ~drained
      /\ inbox' = Tail(inbox) /\ drained' = drained
  BY DEF UnloadRoom, Serve, IInv, Structure, DrainedEmpty
<1>2. Current.client \in Client \cup {NoClient} /\ inbox' \in Seq(Queued)
  BY <1>1, ServedIsRequest DEF IInv, Queued
<1>3. /\ Current.req.room \in Room /\ p # NoPid /\ proc[p].alive
      /\ proc' = Asked(proc, p, DrainRequest)
      /\ busy' = Waiting("unload", Current.client, p, {})
      /\ rooms' = rooms
  BY DEF UnloadRoom, Mapped, Ask, Asked
<1>4. rooms \in ActorMap /\ proc \in [Pid -> Process] /\ p \in Pid
  BY <1>3 DEF IInv, TypeOK, ActorMap
<1>5. Sound(rooms, proc) /\ Unawaited(proc)
  BY <1>1, IdleWaitsForNobody DEF IInv, Structure
<1>6. DrainedEmpty'
  BY <1>1 DEF DrainedEmpty
<1>7. Structure' /\ proc' \in [Pid -> Process]
  BY <1>3, <1>4, <1>5, <1>6, AskingIsStructured
<1>8. busy' \in Task
  BY <1>2, <1>3, <1>4 DEF Waiting, Task
<1>9. TypeOK'
  BY <1>2, <1>3, <1>7, <1>8 DEF UnloadRoom, IInv, TypeOK
<1>10. QED
  BY <1>7, <1>9 DEF IInv

-----------------------------------------------------------------------------
(* The answers of the room actors, and Calls that time out.                 *)

\* An actor told to exit is well formed.
LEMMA ToldToExitType ==
    ASSUME NEW a \in Process
    PROVE  /\ ToldToExit(a) \in Process /\ ToldToExit(a).room = a.room
           /\ ToldToExit(a).alive = a.alive /\ ToldToExit(a).exiting = a.alive
           /\ ToldToExit(a).inbox = a.inbox
  BY DEF ToldToExit, Process

\* The answer to a routed request goes to its caller.
LEMMA RouteReturnsKeeps ==
    ASSUME IInv, RouteReturns
    PROVE  IInv'
<1>1. Sound(rooms, proc) /\ Unawaited(proc) /\ DrainedEmpty
  BY IdleWaitsForNobody DEF IInv, Structure, RouteReturns
<1>2. Sound(rooms', proc') /\ Unawaited(proc') /\ DrainedEmpty' /\ busy' = Idle
  BY <1>1 DEF RouteReturns, DrainedEmpty, Mapped
<1>3. Structure'
  BY <1>2, SettledIsStructured DEF Idle
<1>4. busy' \in Task
  BY <1>2 DEF Idle, Task
<1>5. busy.client \in Client \cup {NoClient} /\ busy.answer \in {"ok", "fail", "error"}
  BY DEF RouteReturns, IInv, TypeOK, Task
<1>6. call' \in [Client -> [req : Request \cup {NoRequest},
                           reply : {"none", "waiting", "ok", "fail", "error"}]]
  BY <1>5, AnsweredType DEF RouteReturns, IInv
<1>7. TypeOK'
  BY <1>4, <1>6 DEF RouteReturns, IInv, TypeOK
<1>8. QED
  BY <1>3, <1>7 DEF IInv

\* An unload takes an actor out of the map that has an empty mailbox.
LEMMA UnloadReturnsKeeps ==
    ASSUME IInv, UnloadReturns
    PROVE  IInv'
<1> DEFINE p == busy.pid
<1>1. /\ Sound(rooms, proc) /\ Unawaited(proc) /\ DrainedEmpty
      /\ p # NoPid /\ proc[p].inbox = <<>>
  BY IdleWaitsForNobody DEF IInv, Structure, UnloadReturns, BusySound, AskedIsIdle
<1>2. rooms \in ActorMap /\ proc \in [Pid -> Process] /\ p \in Pid
  BY <1>1 DEF IInv, TypeOK, Task, ActorMap
<1>3. ASSUME busy.answer = "ok"
      PROVE  /\ Sound(rooms', proc') /\ Unawaited(proc') /\ DrainedEmpty'
             /\ rooms' \in ActorMap /\ proc' \in [Pid -> Process]
  <2>1. /\ proc' = [proc EXCEPT ![p] = ToldToExit(@)]
        /\ rooms' = [r \in Room |-> IF rooms[r] = p THEN NoPid ELSE rooms[r]]
    BY <1>3 DEF UnloadReturns
  <2>2. /\ proc[p] \in Process /\ ToldToExit(proc[p]) \in Process
        /\ ToldToExit(proc[p]).room = proc[p].room
        /\ ToldToExit(proc[p]).alive = proc[p].alive
        /\ ToldToExit(proc[p]).exiting = proc[p].alive
        /\ ToldToExit(proc[p]).inbox = <<>>
    BY <1>1, <1>2, ToldToExitType
  <2>3. rooms' \in ActorMap /\ proc' \in [Pid -> Process]
    BY <1>2, <2>1, <2>2 DEF ActorMap
  <2>4. /\ \A x \in Pid : x # p => proc'[x] = proc[x]
        /\ proc'[p] = ToldToExit(proc[p])
        /\ \A r \in Room : rooms'[r] = IF rooms[r] = p THEN NoPid ELSE rooms[r]
    BY <1>2, <2>1
  <2>5. Sound(rooms', proc')
    <3>1. ASSUME NEW r \in Room, rooms'[r] # NoPid, proc'[rooms'[r]].alive
          PROVE  proc'[rooms'[r]].room = r
      <4>1. rooms'[r] = rooms[r] /\ rooms[r] # p /\ rooms[r] \in Pid
        BY <1>2, <2>4, <3>1 DEF ActorMap
      <4>2. QED
        BY <1>1, <2>4, <3>1, <4>1 DEF Sound
    <3>2. ASSUME NEW x \in Pid, proc'[x].alive
          PROVE  /\ proc'[x].room \in Room
                 /\ \/ rooms'[proc'[x].room] = x
                    \/ proc'[x].exiting /\ proc'[x].inbox = <<>>
      <4>1. CASE x = p
        BY <1>1, <2>2, <2>4, <3>2, <4>1 DEF Sound
      <4>2. CASE x # p
        BY <1>1, <2>4, <3>2, <4>2 DEF Sound
      <4>3. QED
        BY <4>1, <4>2
    <3>3. QED
      BY <3>1, <3>2 DEF Sound
  <2>6. Unawaited(proc')
    BY <1>1, <2>2, <2>4 DEF Unawaited
  <2>7. DrainedEmpty'
    <3>1. draining' = draining /\ drained' = drained /\ up' = up
      BY DEF UnloadReturns
    <3>2. QED
      BY <1>1, <2>4, <3>1 DEF DrainedEmpty, Mapped
  <2>8. QED
    BY <2>3, <2>5, <2>6, <2>7
<1>4. ASSUME busy.answer # "ok"
      PROVE  /\ Sound(rooms', proc') /\ Unawaited(proc') /\ DrainedEmpty'
             /\ rooms' \in ActorMap /\ proc' \in [Pid -> Process]
  BY <1>1, <1>2, <1>4 DEF UnloadReturns, DrainedEmpty, Mapped
<1>5. /\ Sound(rooms', proc') /\ Unawaited(proc') /\ DrainedEmpty'
      /\ rooms' \in ActorMap /\ proc' \in [Pid -> Process]
  BY <1>3, <1>4
<1>6. busy' = Idle
  BY DEF UnloadReturns
<1>7. Structure'
  BY <1>5, <1>6, SettledIsStructured DEF Idle
<1>8. busy' \in Task
  BY <1>6 DEF Idle, Task
<1>9. busy.client \in Client \cup {NoClient} /\ busy.answer \in {"ok", "fail", "error"}
  BY DEF UnloadReturns, IInv, TypeOK, Task
<1>10. call' \in [Client -> [req : Request \cup {NoRequest},
                           reply : {"none", "waiting", "ok", "fail", "error"}]]
  BY <1>9, AnsweredType DEF UnloadReturns, IInv
<1>11. TypeOK'
  BY <1>5, <1>8, <1>10 DEF UnloadReturns, IInv, TypeOK, ActorMap
<1>12. QED
  BY <1>7, <1>11 DEF IInv

\* A Call that timed out leaves its request where it is.
LEMMA CallTimeoutKeeps ==
    ASSUME IInv, CallTimeout
    PROVE  IInv'
<1> DEFINE p == busy.pid
<1>1. Sound(rooms, proc) /\ DrainedEmpty /\ p # NoPid
  BY DEF IInv, Structure, CallTimeout
<1>2. /\ rooms \in ActorMap /\ proc \in [Pid -> Process] /\ p \in Pid
      /\ proc[p] \in Process /\ proc[p].inbox \in Seq(Mail)
  BY <1>1 DEF IInv, TypeOK, Task, ActorMap, Process
<1>3. /\ proc' = [proc EXCEPT ![p] = WithMail(@, Abandoned(@.inbox))]
      /\ rooms' = rooms /\ draining' = draining /\ drained' = drained /\ busy' = Idle
  BY DEF CallTimeout, Terminate
<1>4. /\ Abandoned(proc[p].inbox) \in Seq(Mail)
      /\ DOMAIN Abandoned(proc[p].inbox) = DOMAIN proc[p].inbox
      /\ \A i \in DOMAIN proc[p].inbox : ~Abandoned(proc[p].inbox)[i].awaited
      /\ proc[p].inbox = <<>> => Abandoned(proc[p].inbox) = <<>>
  BY <1>2, AbandonedMail
<1>5. /\ \A x \in Pid : x # p => proc'[x] = proc[x]
      /\ proc'[p] = WithMail(proc[p], Abandoned(proc[p].inbox))
  BY <1>2, <1>3
<1>6. /\ proc'[p].room = proc[p].room /\ proc'[p].alive = proc[p].alive
      /\ proc'[p].exiting = proc[p].exiting
      /\ proc'[p].inbox = Abandoned(proc[p].inbox)
  BY <1>5 DEF WithMail
<1>7. proc' \in [Pid -> Process]
  <2>1. WithMail(proc[p], Abandoned(proc[p].inbox)) \in Process
    BY <1>2, <1>4 DEF WithMail, Process
  <2>2. QED
    BY <1>2, <1>3, <2>1
<1>8. Sound(rooms', proc')
  <2>1. ASSUME NEW x \in Pid
        PROVE  /\ proc'[x].room = proc[x].room /\ proc'[x].alive = proc[x].alive
               /\ proc'[x].exiting = proc[x].exiting
               /\ proc[x].inbox = <<>> => proc'[x].inbox = <<>>
    BY <1>4, <1>5, <1>6
  <2>2. \A r \in Room : rooms[r] # NoPid => rooms[r] \in Pid
    BY <1>2 DEF ActorMap
  <2>3. QED
    BY <1>1, <1>3, <2>1, <2>2 DEF Sound
<1>9. Unawaited(proc')
  <2>1. ASSUME NEW x \in Pid, x # p, NEW i \in DOMAIN proc[x].inbox
        PROVE  ~proc[x].inbox[i].awaited
    BY <2>1 DEF IInv, Structure, LastIsAwaited
  <2>2. QED
    BY <1>4, <1>5, <1>6, <2>1 DEF Unawaited
<1>10. DrainedEmpty'
  <2>1. up' => up
    BY DEF CallTimeout, Terminate
  <2>2. QED
    BY <1>1, <1>3, <2>1 DEF DrainedEmpty, Mapped
<1>11. Structure'
  BY <1>3, <1>8, <1>9, <1>10, SettledIsStructured DEF Idle
<1>12. busy' \in Task
  BY <1>3 DEF Idle, Task
<1>13. call' \in [Client -> [req : Request \cup {NoRequest},
                           reply : {"none", "waiting", "ok", "fail", "error"}]]
  <2>1. CASE call' = call
    BY <2>1 DEF IInv, TypeOK
  <2>2. CASE call' = Answered(busy.client, "fail")
    <3>1. busy.client \in Client \cup {NoClient}
      BY DEF IInv, TypeOK, Task
    <3>2. QED
      BY <2>2, <3>1, AnsweredType DEF IInv
  <2>3. QED
    BY <2>1, <2>2 DEF CallTimeout
<1>14. up' \in BOOLEAN /\ inbox' \in Seq(Queued)
  <2>1. up \in BOOLEAN /\ inbox \in Seq(Queued) /\ <<>> \in Seq(Queued)
    BY DEF IInv, TypeOK
  <2>2. (up' = FALSE /\ inbox' = <<>>) \/ (up' = up /\ inbox' = inbox)
    BY DEF CallTimeout, Terminate
  <2>3. QED
    BY <2>1, <2>2
<1>15. TypeOK'
  BY <1>3, <1>7, <1>12, <1>13, <1>14 DEF CallTimeout, IInv, TypeOK
<1>16. QED
  BY <1>11, <1>15 DEF IInv

-----------------------------------------------------------------------------
(* The drain of the registry.                                               *)

\* The drain starts with every mapped room still to ask.
LEMMA DrainRegistryKeeps ==
    ASSUME IInv, DrainRegistry
    PROVE  IInv'
<1>1. /\ busy.task = "idle" /\ inbox # <<>> /\ inbox' = Tail(inbox)
      /\ busy' = Waiting("drain", Current.client, NoPid, Mapped) /\ draining' = TRUE
      /\ UNCHANGED <<up, rooms, proc, created, redis, call, drained>>
  BY DEF DrainRegistry, Serve
<1>2. Sound(rooms, proc) /\ Unawaited(proc) /\ DrainedEmpty
  BY <1>1, IdleWaitsForNobody DEF IInv, Structure
<1>3. /\ busy'.task = "drain" /\ busy'.pid = NoPid /\ busy'.answer = "none"
      /\ busy'.todo = Mapped /\ Mapped' = Mapped
  BY <1>1 DEF Waiting, Mapped
<1>4. Sound(rooms, proc)' /\ DrainedEmpty' /\ BusySound'
  BY <1>1, <1>2, <1>3 DEF Sound, DrainedEmpty, BusySound
<1>5. LastIsAwaited'
  BY <1>1, <1>2 DEF LastIsAwaited, Unawaited
<1>6. AskedIsIdle' /\ AskedIsPersisted'
  BY <1>3 DEF AskedIsIdle, AskedIsPersisted
<1>7. Current.client \in Client \cup {NoClient} /\ inbox' \in Seq(Queued)
  BY <1>1, ServedIsRequest DEF IInv, Queued
<1>8. busy' \in Task
  BY <1>1, <1>7 DEF Waiting, Task, Mapped
<1>9. TypeOK'
  BY <1>1, <1>7, <1>8 DEF IInv, TypeOK
<1>10. QED
  BY <1>4, <1>5, <1>6, <1>9 DEF IInv, Structure

\* What the drain has already done holds for rooms outside its list.
LEMMA DrainNextKeeps ==
    ASSUME IInv, DrainNext
    PROVE  IInv'
<1>1. PICK r \in busy.todo :
        /\ busy.task = "drain" /\ busy.pid = NoPid
        /\ IF proc[rooms[r]].alive
           THEN /\ proc' = Asked(proc, rooms[r], DrainRequest)
                /\ busy' = Waiting("drain", busy.client, rooms[r], busy.todo \ {r})
                /\ UNCHANGED rooms
           ELSE /\ rooms' = [rooms EXCEPT ![r] = NoPid]
                /\ busy' = Waiting("drain", busy.client, NoPid, busy.todo \ {r})
                /\ UNCHANGED proc
        /\ UNCHANGED <<up, draining, inbox, created, redis, call, drained>>
  BY DEF DrainNext, Ask, Asked
<1>2. /\ Sound(rooms, proc) /\ Unawaited(proc) /\ DrainedEmpty
      /\ draining /\ busy.todo \subseteq Mapped /\ busy.answer = "none"
  BY <1>1, IdleWaitsForNobody DEF IInv, Structure, BusySound
<1>3. /\ rooms \in ActorMap /\ proc \in [Pid -> Process]
      /\ r \in Room /\ rooms[r] # NoPid /\ rooms[r] \in Pid
  BY <1>1, <1>2 DEF IInv, TypeOK, ActorMap, Mapped
<1>4. busy.client \in Client \cup {NoClient} /\ busy.todo \in SUBSET Room
  BY DEF IInv, TypeOK, Task
<1>5. \A x \in Mapped \ busy.todo : proc[rooms[x]].inbox = <<>> /\ Persisted(rooms[x])
  BY <1>1 DEF IInv, Structure, AskedIsIdle, AskedIsPersisted, Mapped
<1>6. ASSUME proc[rooms[r]].alive
      PROVE  Structure' /\ TypeOK'
  <2> DEFINE p == rooms[r]
  <2>1. /\ proc' = Asked(proc, p, DrainRequest) /\ rooms' = rooms
        /\ busy'.task = "drain" /\ busy'.pid = p /\ busy'.todo = busy.todo \ {r}
        /\ busy'.answer = "none" /\ busy' = Waiting("drain", busy.client, p, busy.todo \ {r})
        /\ UNCHANGED <<up, draining, inbox, created, redis, call, drained>>
    BY <1>1, <1>6 DEF Waiting
  <2>2. /\ proc' \in [Pid -> Process] /\ Sound(rooms, proc')
        /\ \A x \in Pid : x # p => proc'[x] = proc[x]
        /\ \A x \in Pid : \A i \in DOMAIN proc'[x].inbox : proc'[x].inbox[i].awaited =>
              x = p /\ i = Len(proc'[x].inbox) /\ proc'[x].inbox[i].req = DrainRequest
    BY <1>2, <1>3, <1>6, <2>1, AskKeeps
  <2>3. Mapped' = Mapped
    BY <2>1 DEF Mapped
  <2>4. Sound(rooms, proc)' /\ DrainedEmpty' /\ BusySound'
    BY <1>2, <1>3, <2>1, <2>2, <2>3 DEF Sound, DrainedEmpty, BusySound
  <2>5. LastIsAwaited'
    BY <2>1, <2>2 DEF LastIsAwaited
  <2>6. ASSUME NEW x \in Mapped \ (busy.todo \ {r}), rooms[x] # p
        PROVE  proc'[rooms[x]] = proc[rooms[x]] /\ x \in Mapped \ busy.todo
    <3>1. x # r /\ x \in Mapped \ busy.todo /\ rooms[x] \in Pid
      BY <1>3, <2>6 DEF Mapped, ActorMap
    <3>2. QED
      BY <2>2, <2>6, <3>1
  <2>7. AskedIsIdle'
    BY <1>5, <2>1, <2>3, <2>6 DEF AskedIsIdle
  <2>8. AskedIsPersisted'
    BY <1>5, <2>1, <2>3, <2>6 DEF AskedIsPersisted, Persisted
  <2>9. busy' \in Task
    BY <1>3, <1>4, <2>1 DEF Waiting, Task
  <2>10. TypeOK'
    BY <2>1, <2>2, <2>9 DEF IInv, TypeOK
  <2>11. QED
    BY <2>4, <2>5, <2>7, <2>8, <2>10 DEF Structure
<1>7. ASSUME ~proc[rooms[r]].alive
      PROVE  Structure' /\ TypeOK'
  <2>1. /\ rooms' = [rooms EXCEPT ![r] = NoPid] /\ proc' = proc
        /\ busy'.task = "drain" /\ busy'.pid = NoPid /\ busy'.todo = busy.todo \ {r}
        /\ busy'.answer = "none" /\ busy' = Waiting("drain", busy.client, NoPid, busy.todo \ {r})
        /\ UNCHANGED <<up, draining, inbox, created, redis, call, drained>>
    BY <1>1, <1>7 DEF Waiting
  <2>2. /\ rooms' \in ActorMap
        /\ \A x \in Room : rooms'[x] = IF x = r THEN NoPid ELSE rooms[x]
    BY <1>3, <2>1 DEF ActorMap
  <2>3. Mapped' = Mapped \ {r}
    BY <2>2 DEF Mapped
  <2>4. Sound(rooms', proc')
    BY <1>2, <1>7, <2>1, <2>2 DEF Sound
  <2>5. DrainedEmpty' /\ BusySound'
    BY <1>2, <2>1, <2>3 DEF DrainedEmpty, BusySound
  <2>6. LastIsAwaited'
    BY <1>2, <2>1 DEF LastIsAwaited, Unawaited
  <2>7. \A x \in Mapped' \ busy'.todo : x \in Mapped \ busy.todo /\ rooms'[x] = rooms[x]
    BY <2>1, <2>2, <2>3 DEF Mapped
  <2>8. AskedIsIdle' /\ AskedIsPersisted'
    BY <1>5, <2>1, <2>7 DEF AskedIsIdle, AskedIsPersisted, Persisted
  <2>9. busy' \in Task
    BY <1>4, <2>1 DEF Waiting, Task
  <2>10. TypeOK'
    BY <2>1, <2>2, <2>9 DEF IInv, TypeOK, ActorMap
  <2>11. QED
    BY <2>4, <2>5, <2>6, <2>8, <2>10 DEF Structure, Sound
<1>8. QED
  BY <1>6, <1>7 DEF IInv

\* A room's answer to a drain of the registry; the drain goes on after OK.
LEMMA DrainReturnsKeeps ==
    ASSUME IInv, DrainReturns
    PROVE  IInv'
<1>1. /\ Sound(rooms, proc) /\ Unawaited(proc) /\ DrainedEmpty
      /\ busy.pid # NoPid /\ proc[busy.pid].inbox = <<>>
      /\ busy.task = "drain" /\ draining /\ busy.todo \subseteq Mapped
      /\ UNCHANGED <<up, draining, rooms, inbox, proc, created, redis, drained>>
  BY IdleWaitsForNobody DEF IInv, Structure, DrainReturns, BusySound, AskedIsIdle
<1>2. busy.client \in Client \cup {NoClient} /\ busy.todo \in SUBSET Room
  BY DEF IInv, TypeOK, Task
<1>3. Sound(rooms', proc') /\ Unawaited(proc') /\ DrainedEmpty' /\ Mapped' = Mapped
  BY <1>1 DEF DrainedEmpty, Mapped
<1>4. ASSUME busy.answer = "ok"
      PROVE  Structure' /\ TypeOK'
  <2>1. /\ busy'.task = "drain" /\ busy'.pid = NoPid /\ busy'.todo = busy.todo
        /\ busy'.answer = "none" /\ busy' = Waiting("drain", busy.client, NoPid, busy.todo)
        /\ call' = call
    BY <1>4 DEF DrainReturns, Waiting
  <2>2. BusySound' /\ LastIsAwaited'
    BY <1>1, <1>3, <2>1 DEF BusySound, LastIsAwaited, Unawaited
  <2>3. \A x \in Mapped \ busy.todo : proc[rooms[x]].inbox = <<>> /\ Persisted(rooms[x])
    BY <1>1, <1>4 DEF IInv, Structure, AskedIsIdle, AskedIsPersisted
  <2>4. AskedIsIdle' /\ AskedIsPersisted'
    BY <1>1, <1>3, <2>1, <2>3 DEF AskedIsIdle, AskedIsPersisted, Persisted
  <2>5. busy' \in Task
    BY <1>2, <2>1 DEF Waiting, Task
  <2>6. TypeOK'
    BY <1>1, <2>1, <2>5 DEF IInv, TypeOK
  <2>7. QED
    BY <1>3, <2>2, <2>4, <2>6 DEF Structure, Sound
<1>5. ASSUME busy.answer # "ok"
      PROVE  Structure' /\ TypeOK'
  <2>1. busy' = Idle /\ call' = Answered(busy.client, "fail")
    BY <1>5 DEF DrainReturns
  <2>2. Structure'
    BY <1>3, <2>1, SettledIsStructured DEF Idle
  <2>3. busy' \in Task
    BY <2>1 DEF Idle, Task
  <2>4. call' \in [Client -> [req : Request \cup {NoRequest},
                             reply : {"none", "waiting", "ok", "fail", "error"}]]
    BY <1>2, <2>1, AnsweredType DEF IInv
  <2>5. TypeOK'
    BY <1>1, <2>3, <2>4 DEF IInv, TypeOK
  <2>6. QED
    BY <2>2, <2>5
<1>6. QED
  BY <1>4, <1>5 DEF IInv

\* The end of the drain: every actor of the map has an empty mailbox and leaves.
LEMMA DrainFinishKeeps ==
    ASSUME IInv, DrainFinish
    PROVE  IInv'
<1>1. /\ Sound(rooms, proc) /\ Unawaited(proc)
      /\ busy.task = "drain" /\ busy.pid = NoPid /\ busy.todo = {} /\ draining
      /\ proc' = [p \in Pid |-> IF \E r \in Room : rooms[r] = p
                               THEN ToldToExit(proc[p]) ELSE proc[p]]
      /\ rooms' = [r \in Room |-> NoPid]
      /\ call' = Answered(busy.client, "ok") /\ drained' = TRUE /\ busy' = Idle
      /\ UNCHANGED <<up, draining, inbox, created, redis>>
  BY IdleWaitsForNobody DEF IInv, Structure, BusySound, DrainFinish
<1>2. /\ proc \in [Pid -> Process]
      /\ busy.client \in Client \cup {NoClient}
  BY DEF IInv, TypeOK, Task
<1>3. \A p \in Pid : (\E r \in Room : rooms[r] = p) => proc[p].inbox = <<>>
  BY <1>1, ActorAssumption DEF IInv, Structure, AskedIsIdle, Mapped
<1>4. ASSUME NEW p \in Pid
      PROVE  /\ proc'[p] \in Process /\ proc'[p].room = proc[p].room
             /\ proc'[p].alive = proc[p].alive /\ proc'[p].inbox = proc[p].inbox
             /\ proc'[p].alive => proc'[p].exiting /\ proc'[p].inbox = <<>>
  <2>1. CASE \E r \in Room : rooms[r] = p
    <3>1. proc'[p] = ToldToExit(proc[p]) /\ proc[p] \in Process
      BY <1>1, <1>2, <2>1
    <3>2. QED
      BY <1>3, <2>1, <3>1, ToldToExitType
  <2>2. CASE ~ \E r \in Room : rooms[r] = p
    <3>1. proc'[p] = proc[p] /\ proc[p] \in Process
      BY <1>1, <1>2, <2>2
    <3>2. QED
      BY <1>1, <2>2, <3>1 DEF Sound
  <2>3. QED
    BY <2>1, <2>2
<1>5. proc' \in [Pid -> Process] /\ rooms' \in ActorMap
  BY <1>1, <1>4 DEF ActorMap
<1>6. Sound(rooms', proc')
  BY <1>1, <1>4 DEF Sound
<1>7. Unawaited(proc')
  BY <1>1, <1>4 DEF Unawaited
<1>8. DrainedEmpty'
  BY <1>1 DEF DrainedEmpty, Mapped
<1>9. Structure'
  BY <1>1, <1>6, <1>7, <1>8, SettledIsStructured DEF Idle
<1>10. busy' \in Task
  BY <1>1 DEF Idle, Task
<1>11. call' \in [Client -> [req : Request \cup {NoRequest},
                            reply : {"none", "waiting", "ok", "fail", "error"}]]
  BY <1>1, <1>2, AnsweredType DEF IInv
<1>12. TypeOK'
  BY <1>1, <1>5, <1>10, <1>11 DEF IInv, TypeOK, ActorMap
<1>13. QED
  BY <1>9, <1>12 DEF IInv

-----------------------------------------------------------------------------
(* The room actors.                                                         *)

\* An actor that has a request in its mailbox is the one in the map.
LEMMA BusyActorIsMapped ==
    ASSUME IInv, NEW p \in Pid, proc[p].alive, proc[p].inbox # <<>>
    PROVE  proc[p].room \in Room /\ rooms[proc[p].room] = p
  BY DEF IInv, Structure, Sound

\* The end of an actor, whatever the reason; its mailbox is lost.
Dies(p) ==
    /\ proc' = [proc EXCEPT ![p] = Dead]
    /\ UNCHANGED <<up, draining, rooms, inbox, busy, created, redis, call, drained>>

\* An actor that dies leaves nobody waiting for more than it held.
LEMMA DyingKeeps ==
    ASSUME IInv, NEW p \in Pid, Dies(p)
    PROVE  IInv'
<1>1. /\ proc' = [proc EXCEPT ![p] = Dead]
      /\ UNCHANGED <<up, draining, rooms, inbox, busy, created, redis, call, drained>>
  BY DEF Dies
<1>2. Dead \in Process /\ ~Dead.alive /\ Dead.inbox = <<>>
  <2>1. [n \in Nick |-> NotMember] \in Members
    BY DEF Members
  <2>2. QED
    BY <2>1 DEF Dead, Process
<1>3. proc \in [Pid -> Process] /\ rooms \in ActorMap
  BY DEF IInv, TypeOK, ActorMap
<1>4. /\ proc' \in [Pid -> Process] /\ proc'[p] = Dead
      /\ \A x \in Pid : x # p => proc'[x] = proc[x]
  BY <1>1, <1>2, <1>3
<1>5. \A r \in Room : rooms[r] # NoPid => rooms[r] \in Pid
  BY <1>3 DEF ActorMap
<1>6. Mapped' = Mapped
  BY <1>1 DEF Mapped
<1>7. Sound(rooms, proc)'
  BY <1>1, <1>2, <1>4, <1>5 DEF IInv, Structure, Sound
<1>8. DrainedEmpty' /\ BusySound'
  BY <1>1, <1>6 DEF IInv, Structure, DrainedEmpty, BusySound
<1>9. LastIsAwaited'
  BY <1>1, <1>2, <1>4 DEF IInv, Structure, LastIsAwaited
<1>10. busy.answer # "none" => busy.pid \in Pid
  BY <1>3 DEF IInv, Structure, BusySound, TypeOK, Task
<1>11. \A x \in Pid : /\ proc[x].inbox = <<>> => proc'[x].inbox = <<>>
                      /\ Persisted(x) => Persisted(x)'
  BY <1>1, <1>2, <1>4 DEF Persisted
<1>12. \A r \in Mapped : rooms[r] \in Pid
  BY <1>5 DEF Mapped
<1>13. AskedIsIdle'
  BY <1>1, <1>6, <1>10, <1>11, <1>12 DEF IInv, Structure, AskedIsIdle
<1>14. AskedIsPersisted'
  <2>1. busy.answer = "ok" /\ busy.task \in {"unload", "drain"} => Persisted(busy.pid)'
    BY <1>1, <1>10, <1>11 DEF IInv, Structure, AskedIsPersisted, Persisted
  <2>2. busy.task = "drain" => \A r \in Mapped \ busy.todo :
          rooms[r] # busy.pid => Persisted(rooms[r])'
    BY <1>1, <1>11, <1>12 DEF IInv, Structure, AskedIsPersisted, Persisted
  <2>3. QED
    BY <1>1, <1>6, <2>1, <2>2 DEF AskedIsPersisted, Persisted
<1>15. TypeOK'
  BY <1>1, <1>4 DEF IInv, TypeOK
<1>16. QED
  BY <1>7, <1>8, <1>9, <1>13, <1>14, <1>15 DEF IInv, Structure

\* What a request does to its actor: the mailbox loses its first request, the
\* actor's room and fate stay, and Redis changes for that room only.
Handled(p, w) ==
    LET a == proc[p]
        msg == Head(a.inbox)
        plan == PlanFor(a.members, msg.req)
    IN  /\ proc' = [proc EXCEPT ![p] = [room |-> a.room, alive |-> TRUE, exiting |-> a.exiting,
                                        members |-> plan.members, inbox |-> Tail(a.inbox)]]
        /\ redis' = IF plan.writes /\ w \in {"ok", "lost"}
                    THEN [redis EXCEPT ![a.room] = Written(@, WriteOf(plan))] ELSE redis
        /\ busy' = IF msg.awaited
                   THEN [task |-> busy.task, client |-> busy.client, pid |-> busy.pid,
                         todo |-> busy.todo, answer |-> Outcome(plan.ok /\ w = "ok")]
                   ELSE busy

\* Whatever the request and however its write ends, the actor keeps its place.
LEMMA HandleCallKeeps ==
    ASSUME IInv, NEW p \in Pid, HandleCall(p)
    PROVE  IInv'
<1> DEFINE a == proc[p]
           msg == Head(a.inbox)
           plan == PlanFor(a.members, msg.req)
           actor == [room |-> a.room, alive |-> TRUE, exiting |-> a.exiting,
                     members |-> plan.members, inbox |-> Tail(a.inbox)]
<1>1. PICK w \in WriteOutcomes : Handled(p, w)
  BY DEF HandleCall, Handled, WriteOutcomes
<1>2. /\ a.alive /\ a.inbox # <<>>
      /\ UNCHANGED <<up, draining, rooms, inbox, created, call, drained>>
  BY DEF HandleCall
<1>3. /\ proc' = [proc EXCEPT ![p] = actor]
      /\ redis' = IF plan.writes /\ w \in {"ok", "lost"}
                  THEN [redis EXCEPT ![a.room] = Written(@, WriteOf(plan))] ELSE redis
      /\ busy' = IF msg.awaited
                 THEN [task |-> busy.task, client |-> busy.client, pid |-> busy.pid,
                       todo |-> busy.todo, answer |-> Outcome(plan.ok /\ w = "ok")]
                 ELSE busy
  BY <1>1 DEF Handled
<1>4. /\ proc \in [Pid -> Process] /\ rooms \in ActorMap /\ busy \in Task
      /\ a \in Process /\ a.inbox \in Seq(Mail) /\ a.members \in Members
      /\ redis \in [Room -> [snapshot : SUBSET Nick, history : Seq(Message)]]
  BY DEF IInv, TypeOK, ActorMap, Process
<1>5. a.room \in Room /\ rooms[a.room] = p
  BY <1>2, BusyActorIsMapped
<1>6. /\ msg \in Mail /\ msg = a.inbox[1] /\ 1 \in DOMAIN a.inbox
      /\ Tail(a.inbox) \in Seq(Mail)
      /\ Len(Tail(a.inbox)) = Len(a.inbox) - 1
      /\ \A i \in DOMAIN Tail(a.inbox) : i + 1 \in DOMAIN a.inbox /\ Tail(a.inbox)[i] = a.inbox[i + 1]
      /\ Len(a.inbox) = 1 => Tail(a.inbox) = <<>>
  BY <1>2, <1>4, TakeMail
<1>7. plan \in Plan /\ WriteOf(plan) \in Write
  BY <1>4, <1>6, PlanForType DEF Mail
<1>8. actor \in Process
  BY <1>4, <1>5, <1>6, <1>7 DEF Process, Plan
<1> HIDE DEF plan
<1>9. /\ proc' \in [Pid -> Process] /\ proc'[p] = actor
      /\ proc'[p].inbox = Tail(a.inbox)
      /\ \A x \in Pid : x # p => proc'[x] = proc[x]
  BY <1>3, <1>4, <1>8
<1>10. /\ busy'.pid = busy.pid /\ busy'.task = busy.task /\ busy'.todo = busy.todo
       /\ busy' \in Task
       /\ ~msg.awaited => busy' = busy
       /\ msg.awaited => busy'.answer = Outcome(plan.ok /\ w = "ok") /\ busy'.answer # "none"
  BY <1>3, <1>4 DEF Task, Outcome
<1>11. /\ redis' \in [Room -> [snapshot : SUBSET Nick, history : Seq(Message)]]
       /\ \A r \in Room : r # a.room => redis'[r] = redis[r]
       /\ plan.writes /\ w \in {"ok", "lost"} =>
            redis'[a.room].snapshot = WriteOf(plan).snapshot
  <2>1. redis[a.room] \in [snapshot : SUBSET Nick, history : Seq(Message)]
    BY <1>4, <1>5
  <2>2. Written(redis[a.room], WriteOf(plan)) \in [snapshot : SUBSET Nick, history : Seq(Message)]
    BY <1>7, <2>1, WrittenType
  <2>3. Written(redis[a.room], WriteOf(plan)).snapshot = WriteOf(plan).snapshot
    BY DEF Written
  <2>4. QED
    BY <1>3, <1>4, <1>5, <2>2, <2>3
<1>12. msg.awaited =>
         /\ p = busy.pid /\ busy.answer = "none" /\ Tail(a.inbox) = <<>>
         /\ busy.task \in {"unload", "drain"} => msg.req = DrainRequest
  BY <1>6 DEF IInv, Structure, LastIsAwaited
<1>13. Mapped' = Mapped /\ \A r \in Mapped : rooms[r] \in Pid
  BY <1>2, <1>4 DEF Mapped, ActorMap
<1>14. Sound(rooms, proc)'
  <2>1. \A x \in Pid : x # p => proc'[x] = proc[x]
    BY <1>9
  <2>2. proc'[p].room = a.room /\ proc'[p].alive
    BY <1>9
  <2>3. QED
    BY <1>2, <1>4, <1>5, <2>1, <2>2 DEF IInv, Structure, Sound, ActorMap
<1>15. BusySound' /\ DrainedEmpty'
  BY <1>2, <1>10, <1>12, <1>13, <1>4, ActorAssumption DEF IInv, Structure, BusySound, DrainedEmpty
<1>16. LastIsAwaited'
  <2>1. ASSUME NEW x \in Pid, NEW i \in DOMAIN proc'[x].inbox, proc'[x].inbox[i].awaited
        PROVE  /\ x = busy.pid /\ busy'.answer = "none" /\ i = Len(proc'[x].inbox)
               /\ busy.task \in {"unload", "drain"} => proc'[x].inbox[i].req = DrainRequest
    <3>1. CASE x = p
      <4>1. i \in DOMAIN Tail(a.inbox) /\ Tail(a.inbox)[i].awaited /\ proc'[x].inbox = Tail(a.inbox)
        BY <1>9, <2>1, <3>1
      <4>2. i + 1 \in DOMAIN a.inbox /\ a.inbox[i + 1].awaited /\ Tail(a.inbox)[i] = a.inbox[i + 1]
        BY <1>6, <4>1
      <4>3. /\ p = busy.pid /\ busy.answer = "none" /\ i + 1 = Len(a.inbox)
            /\ busy.task \in {"unload", "drain"} => a.inbox[i + 1].req = DrainRequest
        BY <4>2 DEF IInv, Structure, LastIsAwaited
      <4>4. ~msg.awaited
        BY <1>12, <4>1
      <4>5. i = Len(Tail(a.inbox))
        <5>1. i \in Int /\ Len(a.inbox) \in Int
          BY <1>4, <1>6, <4>1
        <5>2. QED
          BY <1>6, <4>3, <5>1
      <4>6. QED
        BY <1>10, <3>1, <4>1, <4>2, <4>3, <4>4, <4>5
    <3>2. CASE x # p
      <4>1. /\ x = busy.pid /\ busy.answer = "none" /\ i = Len(proc[x].inbox)
            /\ busy.task \in {"unload", "drain"} => proc[x].inbox[i].req = DrainRequest
            /\ proc'[x] = proc[x]
        BY <1>9, <2>1, <3>2 DEF IInv, Structure, LastIsAwaited
      <4>2. ~msg.awaited
        BY <1>12, <3>2, <4>1
      <4>3. QED
        BY <1>10, <4>1, <4>2
    <3>3. QED
      BY <3>1, <3>2
  <2>2. QED
    BY <1>10, <2>1 DEF LastIsAwaited
<1>17. ASSUME NEW r \in Mapped, proc[rooms[r]].inbox = <<>>
       PROVE  proc'[rooms[r]] = proc[rooms[r]] /\ (Persisted(rooms[r]) =>
                (proc'[rooms[r]].alive => redis'[proc'[rooms[r]].room].snapshot
                                            = memberList(proc'[rooms[r]].members)))
  <2>1. rooms[r] # p /\ rooms[r] \in Pid /\ r # a.room /\ r \in Room /\ rooms[r] # NoPid
    BY <1>2, <1>5, <1>13, <1>17 DEF Mapped
  <2>2. proc'[rooms[r]] = proc[rooms[r]]
    BY <1>9, <2>1
  <2>3. proc[rooms[r]].alive => proc[rooms[r]].room = r
    BY <2>1 DEF IInv, Structure, Sound
  <2>4. QED
    BY <1>11, <2>1, <2>2, <2>3 DEF Persisted
<1>18. busy.answer # "none" => \E r \in Mapped : rooms[r] = busy.pid
  BY DEF IInv, Structure, BusySound, Mapped
<1>19. ASSUME busy.task = "drain", NEW r \in Mapped \ busy.todo, rooms[r] # busy.pid
       PROVE  proc[rooms[r]].inbox = <<>> /\ Persisted(rooms[r])
  BY <1>19 DEF IInv, Structure, AskedIsIdle, AskedIsPersisted
<1>20. AskedIsIdle'
  <2>1. busy'.answer # "none" => proc'[busy.pid].inbox = <<>>
    <3>1. CASE msg.awaited
      BY <1>9, <1>12, <3>1
    <3>2. CASE ~msg.awaited
      <4>1. busy.answer # "none" => proc[busy.pid].inbox = <<>>
        BY DEF IInv, Structure, AskedIsIdle
      <4>2. QED
        BY <1>10, <1>17, <1>18, <3>2, <4>1
    <3>3. QED
      BY <3>1, <3>2
  <2>2. busy.task = "drain" => \A r \in Mapped \ busy.todo :
          rooms[r] # busy.pid => proc'[rooms[r]].inbox = <<>>
    BY <1>17, <1>19
  <2>3. QED
    BY <1>2, <1>10, <1>13, <2>1, <2>2 DEF AskedIsIdle
<1>21. ASSUME busy'.answer = "ok", busy.task \in {"unload", "drain"}
       PROVE  proc'[busy.pid].alive => redis'[proc'[busy.pid].room].snapshot
                                         = memberList(proc'[busy.pid].members)
  <2>1. CASE msg.awaited
    <3>1. plan = drain(a.members)
      BY <1>12, <1>21, <2>1, DrainPlan DEF plan
    <3>2. plan.writes /\ w = "ok"
      BY <1>10, <1>21, <2>1, <3>1 DEF drain, persistSnapshot, Outcome
    <3>3. redis'[a.room].snapshot = memberList(plan.members)
      BY <1>11, <3>2 DEF WriteOf
    <3>4. QED
      BY <1>9, <1>12, <2>1, <3>3
  <2>2. CASE ~msg.awaited
    <3>1. busy.answer = "ok" /\ proc[busy.pid].inbox = <<>> /\ Persisted(busy.pid)
      BY <1>10, <1>21, <2>2 DEF IInv, Structure, AskedIsIdle, AskedIsPersisted
    <3>2. QED
      BY <1>17, <1>18, <3>1
  <2>3. QED
    BY <2>1, <2>2
<1>22. AskedIsPersisted'
  <2>1. busy.task = "drain" => \A r \in Mapped \ busy.todo : rooms[r] # busy.pid =>
          (proc'[rooms[r]].alive => redis'[proc'[rooms[r]].room].snapshot
                                      = memberList(proc'[rooms[r]].members))
    BY <1>17, <1>19
  <2>2. QED
    BY <1>2, <1>10, <1>13, <1>21, <2>1 DEF AskedIsPersisted, Persisted
<1>23. TypeOK'
  BY <1>2, <1>9, <1>10, <1>11 DEF IInv, TypeOK
<1>24. QED
  BY <1>14, <1>15, <1>16, <1>20, <1>22, <1>23 DEF IInv, Structure

-----------------------------------------------------------------------------
(* The inductive invariant.                                                 *)

\* A fresh registry has no actors, over whatever rooms Redis knows.
LEMMA InitIInv == Init => IInv
<1> SUFFICES ASSUME Init PROVE IInv
  OBVIOUS
<1>1. /\ up = TRUE /\ draining = FALSE /\ drained = FALSE /\ inbox = <<>> /\ busy = Idle
      /\ rooms = [r \in Room |-> NoPid] /\ proc = [p \in Pid |-> Dead]
      /\ created \in SUBSET Room
      /\ redis = [r \in Room |-> [snapshot |-> {}, history |-> <<>>]]
      /\ call = [c \in Client |-> [req |-> NoRequest, reply |-> "none"]]
  BY DEF Init
<1>2. Dead \in Process /\ ~Dead.alive /\ Dead.inbox = <<>>
  <2>1. [n \in Nick |-> NotMember] \in Members
    BY DEF Members
  <2>2. QED
    BY <2>1 DEF Dead, Process
<1>3. /\ busy \in Task /\ busy.task = "idle" /\ busy.pid = NoPid /\ busy.answer = "none"
  BY <1>1 DEF Idle, Task
<1>4. \A r \in Room : redis[r] \in [snapshot : SUBSET Nick, history : Seq(Message)]
  BY <1>1
<1>5. \A c \in Client : call[c] \in [req : Request \cup {NoRequest},
                                    reply : {"none", "waiting", "ok", "fail", "error"}]
  BY <1>1
<1>6. TypeOK
  <2>1. redis \in [Room -> [snapshot : SUBSET Nick, history : Seq(Message)]]
    BY <1>1, <1>4
  <2>2. call \in [Client -> [req : Request \cup {NoRequest},
                            reply : {"none", "waiting", "ok", "fail", "error"}]]
    BY <1>1, <1>5
  <2>3. /\ inbox \in Seq(Queued) /\ proc \in [Pid -> Process]
        /\ rooms \in [Room -> Pid \cup {NoPid}]
    BY <1>1, <1>2
  <2>4. QED
    BY <1>1, <1>3, <2>1, <2>2, <2>3 DEF TypeOK
<1>7. Sound(rooms, proc) /\ LastIsAwaited
  BY <1>1, <1>2 DEF Sound, LastIsAwaited
<1>8. BusySound /\ AskedIsIdle /\ AskedIsPersisted /\ DrainedEmpty
  BY <1>1, <1>3 DEF BusySound, AskedIsIdle, AskedIsPersisted, DrainedEmpty
<1>9. QED
  BY <1>6, <1>7, <1>8 DEF IInv, Structure

\* Every step of clients, registry and room actors preserves the invariant.
LEMMA NextIInv == IInv /\ [Next]_vars => IInv'
<1> SUFFICES ASSUME IInv, [Next]_vars PROVE IInv'
  OBVIOUS
<1>1. ASSUME NEW c \in Client, Call(c) \/ ClientTimeout(c) PROVE IInv'
  BY <1>1, CallKeeps, ClientTimeoutKeeps
<1>2. CASE RegistryStep
  <2>1. CASE Refuse \/ RouteNowhere \/ Query \/ UnloadNothing \/ UnloadDead
    BY <2>1, QuietActionsKeep
  <2>2. CASE CreateRoom
    BY <2>2, CreateRoomKeeps
  <2>3. CASE RouteToRoom \/ RouteToDeadRoom \/ RouteReturns
    BY <2>3, RouteToRoomKeeps, RouteToDeadRoomKeeps, RouteReturnsKeeps
  <2>4. CASE UnloadRoom \/ UnloadReturns
    BY <2>4, UnloadRoomKeeps, UnloadReturnsKeeps
  <2>5. CASE DrainRegistry \/ DrainNext \/ DrainFinish \/ DrainReturns
    BY <2>5, DrainRegistryKeeps, DrainNextKeeps, DrainFinishKeeps, DrainReturnsKeeps
  <2>6. QED
    BY <1>2, <2>1, <2>2, <2>3, <2>4, <2>5 DEF RegistryStep
<1>3. CASE CallTimeout
  BY <1>3, CallTimeoutKeeps
<1>4. ASSUME NEW p \in Pid, HandleCall(p) \/ Exit(p) \/ Crash(p) PROVE IInv'
  <2>1. Exit(p) \/ Crash(p) => Dies(p)
    BY DEF Exit, Crash, Dies
  <2>2. QED
    BY <1>4, <2>1, HandleCallKeeps, DyingKeeps
<1>5. CASE UNCHANGED vars
  <2>1. Structure'
    BY <1>5, QuietKeeps DEF IInv, vars
  <2>2. TypeOK'
    BY <1>5 DEF IInv, TypeOK, vars
  <2>3. QED
    BY <2>1, <2>2 DEF IInv
<1>6. QED
  BY <1>1, <1>2, <1>3, <1>4, <1>5 DEF Next

\* The invariant holds in every reachable state.
THEOREM Invariant == Spec => []IInv
  BY InitIInv, NextIInv, PTL DEF Spec

-----------------------------------------------------------------------------
(* What follows.                                                            *)

\* Registry, room actors, Redis and the callers' requests keep their types.
THEOREM TypeCorrect == Spec => []TypeOK
<1>1. IInv => TypeOK
  BY DEF IInv
<1>2. QED
  BY <1>1, Invariant, PTL

\* At most one actor of a room may still write its Redis keys: unload and drain
\* leave an actor nothing to do before another one is started for its room.
THEOREM OneWriterPerRoom == Spec => []SingleWriter
<1>1. IInv => SingleWriter
  BY DEF IInv, Structure, Sound, SingleWriter
<1>2. QED
  BY <1>1, Invariant, PTL

\* Apart from the ends of unload and drain, and of the actor itself, no step
\* tells an actor anything new about its exit.
LEMMA ExitIsTold ==
    ASSUME IInv, [Next]_vars, NEW p \in Pid, ~UnloadReturns, ~DrainFinish
    PROVE  proc'[p].exiting => proc[p].exiting
<1>1. proc \in [Pid -> Process]
  BY DEF IInv, TypeOK
<1>3. CASE CreateRoom
  <2>1. inbox # <<>> /\ Current.req.room \in RoomID
    BY <1>3, ServedIsRequest DEF CreateRoom, Serve, IInv
  <2>2. TrimSpace[TrimSpace[Current.req.room]] \in Room \cup {Blank}
    BY <2>1, TrimRoom, TrimAssumption
  <2>3. \/ proc' = proc
        \/ \E known : \E e \in ensureRoom(TrimSpace[Current.req.room], known) : proc' = e.proc
    BY <1>3 DEF CreateRoom, Nowhere
  <2>4. QED
    BY <2>2, <2>3, StartedIsNotExiting DEF IInv
<1>4. CASE RouteToRoom
  <2>1. inbox # <<>> /\ Current.req.room \in RoomID
    BY <1>4, ServedIsRequest DEF RouteToRoom, Serve, IInv
  <2>2. TrimSpace[Current.req.room] \in Room \cup {Blank}
    BY <2>1, TrimRoom
  <2>3. PICK e \in ensureRoom(Current.req.room, created) : proc' = Asked(e.proc, e.pid, Current.req)
    BY <1>4 DEF RouteToRoom, Ask, Asked
  <2>4. e.proc[p].exiting => proc[p].exiting
    BY <2>2, StartedIsNotExiting DEF IInv
  <2>5. QED
    BY <2>3, <2>4 DEF Asked, WithMail
<1>5. CASE UnloadRoom \/ DrainNext
  <2>1. proc' = proc \/ \E q : proc' = Asked(proc, q, DrainRequest)
    BY <1>5 DEF UnloadRoom, DrainNext, Ask, Asked
  <2>2. QED
    BY <1>1, <2>1 DEF Asked, WithMail
<1>6. CASE CallTimeout
  BY <1>1, <1>6 DEF CallTimeout, WithMail
<1>7. ASSUME NEW q \in Pid, HandleCall(q) \/ Exit(q) \/ Crash(q)
      PROVE  proc'[p].exiting => proc[p].exiting
  BY <1>1, <1>7 DEF HandleCall, Exit, Crash, Dead
<1>8. CASE UNCHANGED proc
  BY <1>8
<1>9. \A c \in Client : Call(c) \/ ClientTimeout(c) => UNCHANGED proc
  BY DEF Call, ClientTimeout
<1>10. CASE \/ Refuse \/ RouteNowhere \/ RouteToDeadRoom \/ Query \/ UnloadNothing
            \/ UnloadDead \/ DrainRegistry \/ RouteReturns \/ DrainReturns
  BY <1>10 DEF Refuse, RouteNowhere, RouteToDeadRoom, Query, UnloadNothing, UnloadDead,
               DrainRegistry, RouteReturns, DrainReturns
<1>11. UNCHANGED vars => UNCHANGED proc
  BY DEF vars
<1>12. QED
  BY <1>3, <1>4, <1>5, <1>6, <1>7, <1>8, <1>9, <1>10, <1>11 DEF Next, RegistryStep

\* No actor is told to exit while its members are only in memory.
THEOREM NothingLostByUnload == Spec => ExitOnlyPersisted
<1>1. IInv /\ [Next]_vars => \A p \in Pid : ~proc[p].exiting /\ proc'[p].exiting =>
          redis[proc[p].room].snapshot = memberList(proc[p].members)
  <2> SUFFICES ASSUME IInv, [Next]_vars, NEW p \in Pid, ~proc[p].exiting, proc'[p].exiting
               PROVE  Persisted(p) /\ proc[p].alive
    BY DEF Persisted
  <2>1. proc \in [Pid -> Process] /\ proc[p] \in Process /\ rooms \in ActorMap
    BY DEF IInv, TypeOK, ActorMap
  <2>2. proc' # proc
    OBVIOUS
  <2>3. CASE UnloadReturns
    <3>1. proc' = [proc EXCEPT ![busy.pid] = ToldToExit(@)] /\ busy.answer = "ok" /\ busy.task = "unload"
      BY <2>2, <2>3 DEF UnloadReturns
    <3>2. p = busy.pid
      BY <2>1, <3>1
    <3>3. proc'[p] = ToldToExit(proc[p])
      BY <2>1, <3>1, <3>2
    <3>4. QED
      BY <2>1, <3>1, <3>2, <3>3, ToldToExitType DEF IInv, Structure, AskedIsPersisted
  <2>4. CASE DrainFinish
    <3>1. /\ proc' = [x \in Pid |-> IF \E r \in Room : rooms[r] = x
                                    THEN ToldToExit(proc[x]) ELSE proc[x]]
          /\ busy.task = "drain" /\ busy.pid = NoPid /\ busy.todo = {}
      BY <2>4 DEF DrainFinish
    <3>2. PICK r \in Room : rooms[r] = p
      BY <3>1
    <3>3. proc'[p] = ToldToExit(proc[p])
      BY <3>1, <3>2
    <3>4. r \in Mapped \ busy.todo /\ rooms[r] # busy.pid
      BY <3>1, <3>2, ActorAssumption DEF Mapped
    <3>5. QED
      BY <2>1, <3>1, <3>2, <3>3, <3>4, ToldToExitType DEF IInv, Structure, AskedIsPersisted
  <2>5. UnloadReturns \/ DrainFinish
    BY ExitIsTold
  <2>6. QED
    BY <2>3, <2>4, <2>5
<1>2. QED
  BY <1>1, Invariant, PTL DEF Spec, ExitOnlyPersisted

\* No actor of a drained registry has anything left to do, and no step of the
\* registry starts one.
LEMMA NothingAfterDrain ==
    ASSUME IInv, [Next]_vars, drained
    PROVE  /\ redis' = redis /\ created' = created
           /\ \A p \in Pid : proc'[p].alive => proc[p].alive
<1>1. (draining \/ ~up) /\ Mapped = {} /\ proc \in [Pid -> Process]
  BY DEF IInv, Structure, DrainedEmpty, TypeOK
<1>2. /\ ~CreateRoom /\ ~RouteToRoom /\ ~UnloadRoom
  BY <1>1 DEF CreateRoom, RouteToRoom, UnloadRoom, Serve, Routed
<1>3. ~DrainNext
  BY <1>1 DEF DrainNext, IInv, Structure, BusySound
<1>4. ASSUME NEW p \in Pid PROVE ~HandleCall(p)
  BY <1>1, BusyActorIsMapped, ActorAssumption DEF HandleCall, Mapped
<1>5. \A c \in Client : Call(c) \/ ClientTimeout(c) => UNCHANGED <<proc, redis, created>>
  BY DEF Call, ClientTimeout
<1>6. CASE \/ Refuse \/ RouteNowhere \/ RouteToDeadRoom \/ Query \/ UnloadNothing
           \/ UnloadDead \/ DrainRegistry \/ RouteReturns \/ DrainReturns
  BY <1>6 DEF Refuse, RouteNowhere, RouteToDeadRoom, Query, UnloadNothing, UnloadDead,
              DrainRegistry, RouteReturns, DrainReturns
<1>7. CASE UnloadReturns \/ DrainFinish
  <2>1. UNCHANGED <<redis, created>>
    BY <1>7 DEF UnloadReturns, DrainFinish
  <2>2. \A p \in Pid : ToldToExit(proc[p]).alive = proc[p].alive
    BY DEF ToldToExit
  <2>3. QED
    BY <1>1, <1>7, <2>1, <2>2 DEF UnloadReturns, DrainFinish
<1>8. CASE CallTimeout
  BY <1>1, <1>8 DEF CallTimeout, WithMail
<1>9. ASSUME NEW p \in Pid, Exit(p) \/ Crash(p)
      PROVE  /\ UNCHANGED <<redis, created>>
             /\ \A q \in Pid : proc'[q].alive => proc[q].alive
  BY <1>1, <1>9 DEF Exit, Crash, Dead
<1>10. UNCHANGED vars => UNCHANGED <<proc, redis, created>>
  BY DEF vars
<1>11. QED
  BY <1>2, <1>3, <1>4, <1>5, <1>6, <1>7, <1>8, <1>9, <1>10 DEF Next, RegistryStep

\* A drain is answered OK in one place.
LEMMA OnlyDrainFinishDrains ==
    ASSUME [Next]_vars, ~drained, drained'
    PROVE  DrainFinish
<1>1. \A c \in Client : Call(c) \/ ClientTimeout(c) => UNCHANGED drained
  BY DEF Call, ClientTimeout
<1>2. \A p \in Pid : HandleCall(p) \/ Exit(p) \/ Crash(p) => UNCHANGED drained
  BY DEF HandleCall, Exit, Crash
<1>3. RegistryStep /\ ~DrainFinish => UNCHANGED drained
  BY DEF RegistryStep, Refuse, CreateRoom, RouteNowhere, RouteToRoom, RouteToDeadRoom, Query,
         UnloadNothing, UnloadDead, UnloadRoom, DrainRegistry, DrainNext, RouteReturns,
         UnloadReturns, DrainReturns
<1>4. CallTimeout \/ UNCHANGED vars => UNCHANGED drained
  BY DEF CallTimeout, vars
<1>5. QED
  BY <1>1, <1>2, <1>3, <1>4 DEF Next

\* After a drain Redis and the set of rooms are final.
THEOREM DrainIsFinal == Spec => DrainedIsFinal
<1>1. IInv /\ [Next]_vars => (drained =>
          /\ redis' = redis /\ created' = created
          /\ \A p \in Pid : proc'[p].alive => proc[p].alive)
  BY NothingAfterDrain
<1>2. QED
  BY <1>1, Invariant, PTL DEF Spec, DrainedIsFinal

\* Only the mapped actor of a room that exists changes the room's Redis keys, and
\* it does so for a request of its mailbox: creating a room again resets nothing.
THEOREM RoomsAreWrittenByTheirActor == Spec => OnlyTheActorWrites
<1>1. IInv /\ [Next]_vars => \A r \in Room :
          r \in created /\ redis'[r] # redis[r] =>
            \E p \in Pid : /\ rooms[r] = p /\ proc[p].alive
                          /\ Len(proc'[p].inbox) < Len(proc[p].inbox)
  <2> SUFFICES ASSUME IInv, [Next]_vars, NEW r \in Room, r \in created, redis'[r] # redis[r]
               PROVE  \E p \in Pid : /\ rooms[r] = p /\ proc[p].alive
                                    /\ Len(proc'[p].inbox) < Len(proc[p].inbox)
    OBVIOUS
  <2>1. redis' # redis
    OBVIOUS
  <2>2. ~CreateRoom
    BY DEF CreateRoom
  <2>3. PICK p \in Pid : HandleCall(p)
    <3>1. \A c \in Client : ~Call(c) /\ ~ClientTimeout(c)
      BY <2>1 DEF Call, ClientTimeout
    <3>2. /\ ~Refuse /\ ~RouteNowhere /\ ~RouteToRoom /\ ~RouteToDeadRoom /\ ~Query
          /\ ~UnloadNothing /\ ~UnloadDead /\ ~UnloadRoom /\ ~DrainRegistry /\ ~DrainNext
          /\ ~DrainFinish /\ ~RouteReturns /\ ~UnloadReturns /\ ~DrainReturns /\ ~CallTimeout
      BY <2>1 DEF Refuse, RouteNowhere, RouteToRoom, RouteToDeadRoom, Query, UnloadNothing,
                  UnloadDead, UnloadRoom, DrainRegistry, DrainNext, DrainFinish, RouteReturns,
                  UnloadReturns, DrainReturns, CallTimeout
    <3>3. \A p \in Pid : ~Exit(p) /\ ~Crash(p)
      BY <2>1 DEF Exit, Crash
    <3>4. ~UNCHANGED vars
      BY <2>1 DEF vars
    <3>5. QED
      BY <2>2, <3>1, <3>2, <3>3, <3>4 DEF Next, RegistryStep
  <2>4. proc[p].alive /\ proc[p].inbox # <<>>
    BY <2>3 DEF HandleCall
  <2>5. proc[p].room \in Room /\ rooms[proc[p].room] = p
    BY <2>4, BusyActorIsMapped
  <2>6. PICK w \in WriteOutcomes : Handled(p, w)
    BY <2>3 DEF HandleCall, Handled, WriteOutcomes
  <2>7. proc[p].room = r
    BY <2>1, <2>6 DEF Handled, IInv, TypeOK
  <2>8. proc \in [Pid -> Process] /\ proc[p].inbox \in Seq(Mail)
    BY DEF IInv, TypeOK, Process
  <2>9. proc'[p].inbox = Tail(proc[p].inbox)
    BY <2>6, <2>8 DEF Handled
  <2>10. Len(proc'[p].inbox) < Len(proc[p].inbox)
    <3>1. Len(Tail(proc[p].inbox)) = Len(proc[p].inbox) - 1 /\ Len(proc[p].inbox) \in Nat
      BY <2>4, <2>8, TakeMail, LenProperties
    <3>2. QED
      BY <2>9, <3>1
  <2>11. QED
    BY <2>4, <2>5, <2>7, <2>10
<1>2. QED
  BY <1>1, Invariant, PTL DEF Spec, OnlyTheActorWrites
=============================================================================
