------------------------------ MODULE AppProofs ------------------------------
(***************************************************************************)
(* Proofs about the whole program, for every set of rooms, callers,        *)
(* requests and actors and any number of starts: what RegistryProofs and   *)
(* RegistryRefinement show of a registry that nobody stops stays true when *)
(* connections go on sending commands during a shutdown, when node.Stop    *)
(* ends actors between any two requests, when the process is killed, and   *)
(* when it is started again over what Redis kept.                          *)
(***************************************************************************)
EXTENDS App, RegistryRefinement

AppInv == IInv /\ CreatedSound

-----------------------------------------------------------------------------
(* The steps of the program that are not steps of the registry's clients,   *)
(* of the registry or of its actors.                                        *)

\* The registry process is started.
Starts ==
    /\ main = "off" /\ main' = "serving" /\ up' = TRUE /\ drained' = FALSE
    /\ UNCHANGED <<draining, rooms, inbox, busy, proc, created, redis, call>>

\* Whatever the program does, the registry and its actors take one of their own
\* steps, or an actor or the registry is stopped, or all of it ends or starts.
LEMMA StepsOfTheProgram ==
    ASSUME [AppNext]_appVars
    PROVE  \/ [Next]_vars
           \/ \E p \in Pid : Dies(p)
           \/ StopRegistry
           \/ ProcessGone
           \/ Starts
<1>1. ASSUME NEW c \in Client, Submit(c) \/ GiveUp(c) PROVE Next
  BY <1>1 DEF Submit, GiveUp, Next
<1>2. CASE RunRegistry \/ RegistryCallTimeout
  BY <1>2 DEF RunRegistry, RegistryCallTimeout, Next
<1>3. ASSUME NEW p \in Pid, RunRoom(p) \/ LoseRoom(p) PROVE Next
  BY <1>3 DEF RunRoom, LoseRoom, Next
<1>4. ASSUME NEW p \in Pid, StopRoom(p) PROVE Dies(p)
  BY <1>4 DEF StopRoom, Dies
<1>5. CASE Boot
  BY <1>5 DEF Boot, Starts
<1>6. CASE Signal \/ ServerFails \/ DrainEnds \/ UNCHANGED appVars
  BY <1>6 DEF Signal, ServerFails, DrainEnds, appVars
<1>7. CASE Drain
  BY <1>7, CallerAssumption DEF Drain, Next
<1>8. CASE Return \/ Kill
  BY <1>8 DEF Return, Kill
<1>9. QED
  BY <1>1, <1>2, <1>3, <1>4, <1>5, <1>6, <1>7, <1>8 DEF AppNext

\* The registry ends while it is idle, so nobody waits for a room.
LEMMA StopRegistryKeeps ==
    ASSUME IInv, StopRegistry
    PROVE  IInv'
<1>1. /\ UNCHANGED <<draining, rooms, proc, created, redis, call, drained>>
      /\ up' = FALSE /\ inbox' = <<>> /\ busy' = Idle /\ busy.task = "idle"
  BY DEF StopRegistry, Terminate
<1>2. Unawaited(proc)
  BY <1>1, IdleWaitsForNobody
<1>3. busy' \in Task /\ busy'.task = "idle" /\ busy'.pid = NoPid /\ busy'.answer = "none"
  BY <1>1 DEF Idle, Task
<1>4. DrainedEmpty'
  BY <1>1 DEF IInv, Structure, DrainedEmpty, Mapped
<1>5. Structure'
  BY <1>1, <1>2, <1>3, <1>4, SettledIsStructured DEF IInv, Structure
<1>6. inbox' \in Seq(Queued)
  BY <1>1
<1>7. TypeOK'
  BY <1>1, <1>3, <1>6 DEF IInv, TypeOK
<1>8. QED
  BY <1>5, <1>7 DEF IInv

\* Nothing of a process that is gone is left to wait for, or to be waited for.
LEMMA ProcessGoneKeeps ==
    ASSUME IInv, ProcessGone
    PROVE  IInv'
<1>1. /\ up' = FALSE /\ draining' = FALSE /\ drained' = drained
      /\ rooms' = [r \in Room |-> NoPid] /\ inbox' = <<>> /\ busy' = Idle
      /\ proc' = [p \in Pid |-> Dead]
      /\ call' = [c \in Client |-> IF call[c].reply = "waiting"
                                   THEN [req |-> NoRequest, reply |-> "error"] ELSE call[c]]
      /\ UNCHANGED <<created, redis>>
  BY DEF ProcessGone
<1>2. Dead \in Process /\ ~Dead.alive /\ Dead.inbox = <<>>
  <2>1. [n \in Nick |-> NotMember] \in Members
    BY DEF Members
  <2>2. QED
    BY <2>1 DEF Dead, Process
<1>3. busy' \in Task /\ busy'.task = "idle" /\ busy'.pid = NoPid /\ busy'.answer = "none"
  BY <1>1 DEF Idle, Task
<1>4. Sound(rooms', proc') /\ Unawaited(proc') /\ DrainedEmpty'
  BY <1>1, <1>2 DEF Sound, Unawaited, DrainedEmpty, Mapped
<1>5. Structure'
  BY <1>3, <1>4, SettledIsStructured
<1>6. call' \in [Client -> [req : Request \cup {NoRequest},
                           reply : {"none", "waiting", "ok", "fail", "error"}]]
  BY <1>1 DEF IInv, TypeOK
<1>7. /\ inbox' \in Seq(Queued) /\ proc' \in [Pid -> Process]
      /\ rooms' \in [Room -> Pid \cup {NoPid}]
  BY <1>1, <1>2
<1>8. TypeOK'
  BY <1>1, <1>3, <1>6, <1>7 DEF IInv, TypeOK
<1>9. QED
  BY <1>5, <1>8 DEF IInv

\* The invariant of the registry is one of the program.
LEMMA AppInvKeeps == AppInv /\ [AppNext]_appVars => AppInv'
<1> SUFFICES ASSUME AppInv, [AppNext]_appVars PROVE AppInv'
  OBVIOUS
<1>1. CASE [Next]_vars
  BY <1>1, NextIInv, CreatedIsSound DEF AppInv
<1>2. ASSUME NEW p \in Pid, Dies(p) PROVE AppInv'
  <2>1. IInv'
    BY <1>2, DyingKeeps DEF AppInv
  <2>2. CreatedSound'
    BY <1>2 DEF AppInv, CreatedSound, Dies
  <2>3. QED
    BY <2>1, <2>2 DEF AppInv
<1>3. CASE StopRegistry
  <2>1. IInv'
    BY <1>3, StopRegistryKeeps DEF AppInv
  <2>2. CreatedSound'
    BY <1>3 DEF AppInv, CreatedSound, StopRegistry
  <2>3. QED
    BY <2>1, <2>2 DEF AppInv
<1>4. CASE ProcessGone
  <2>1. IInv'
    BY <1>4, ProcessGoneKeeps DEF AppInv
  <2>2. CreatedSound'
    BY <1>4 DEF AppInv, CreatedSound, ProcessGone
  <2>3. QED
    BY <2>1, <2>2 DEF AppInv
<1>5. CASE Starts
  <2>1. Structure'
    <3>1. Sound(rooms, proc)' /\ BusySound' /\ LastIsAwaited'
      BY <1>5 DEF AppInv, IInv, Structure, Starts, Sound, BusySound, LastIsAwaited, Mapped
    <3>2. AskedIsIdle' /\ AskedIsPersisted'
      BY <1>5 DEF AppInv, IInv, Structure, Starts, AskedIsIdle, AskedIsPersisted, Persisted, Mapped
    <3>3. DrainedEmpty'
      BY <1>5 DEF Starts, DrainedEmpty
    <3>4. QED
      BY <3>1, <3>2, <3>3 DEF Structure
  <2>2. TypeOK' /\ CreatedSound'
    BY <1>5 DEF AppInv, IInv, TypeOK, CreatedSound, Starts
  <2>3. QED
    BY <2>1, <2>2 DEF AppInv, IInv
<1>6. QED
  BY <1>1, <1>2, <1>3, <1>4, <1>5, StepsOfTheProgram

\* The first start finds rooms that earlier programs created.
LEMMA AppInitInv == AppInit => AppInv
<1>1. Init => CreatedSound
  BY DEF Init, CreatedSound
<1>2. QED
  BY <1>1, InitIInv DEF AppInit, AppInv

\* The invariant holds in every state of the program, over all its lives.
THEOREM AppInvariant == AppSpec => []AppInv
  BY AppInitInv, AppInvKeeps, PTL DEF AppSpec

\* What clients, registry, actors and Redis hold keeps its type over the lives of
\* the program.
THEOREM AppTypeCorrect == AppSpec => []TypeOK
<1>1. AppInv => TypeOK
  BY DEF AppInv, IInv
<1>2. QED
  BY <1>1, AppInvariant, PTL

\* A room has one writer in every life of the program, while it stops included.
THEOREM AppOneWriter == AppSpec => []SingleWriter
<1>1. AppInv => SingleWriter
  BY DEF AppInv, IInv, Structure, Sound, SingleWriter
<1>2. QED
  BY <1>1, AppInvariant, PTL

-----------------------------------------------------------------------------
(* What the rooms show.                                                     *)

\* Whatever ends or starts, a room is shown as before or as Redis has it.
LEMMA EndsKeepRooms ==
    ASSUME AppInv, (\E p \in Pid : Dies(p)) \/ StopRegistry \/ ProcessGone \/ Starts
    PROVE  RoomsKeep
<1>1. /\ TypeOK /\ rooms \in ActorMap /\ proc \in [Pid -> Process]
  BY DEF AppInv, IInv, TypeOK, ActorMap
<1>2. CASE StopRegistry \/ Starts
  BY <1>2 DEF RoomsKeep, View, StopRegistry, Starts
<1>3. CASE ProcessGone
  BY <1>3 DEF RoomsKeep, View, ProcessGone
<1>4. ASSUME NEW p \in Pid, Dies(p) PROVE RoomsKeep
  <2>1. UNCHANGED <<rooms, redis>>
    BY <1>4 DEF Dies
  <2>2. \A q \in Pid : proc'[q] = IF q = p THEN Dead ELSE proc[q]
    BY <1>1, <1>4 DEF Dies
  <2>3. ~Dead.alive /\ \A r \in Room : rooms[r] # NoPid => rooms[r] \in Pid
    BY <1>1 DEF Dead, ActorMap
  <2>4. QED
    BY <2>1, <2>2, <2>3 DEF RoomsKeep, View
<1>5. QED
  BY <1>2, <1>3, <1>4

\* Of all steps, only a room actor's changes what Redis holds of a room that
\* exists, or what it shows other than back to what Redis holds.
LEMMA OnlyActorsMoveRooms ==
    ASSUME AppInv, [AppNext]_appVars, \A p \in Pid : ~HandleCall(p)
    PROVE  RoomsKeep
<1>1. CASE Next
  BY <1>1, OthersKeepRooms DEF AppInv
<1>2. CASE UNCHANGED vars
  BY <1>2 DEF RoomsKeep, View, vars
<1>3. QED
  BY <1>1, <1>2, EndsKeepRooms, StepsOfTheProgram

\* The program as a whole implements RoomStore: a stop, a kill and a start are a
\* Restart of every room that an actor served.
THEOREM AppImplementsStore == AppSpec => StoreSpec
<1>1. AppInit => Store!Init
  BY InitShowsStore DEF AppInit
<1>2. AppInv /\ [AppNext]_appVars => [Store!Next]_(Store!vars)
  <2> SUFFICES ASSUME AppInv, [AppNext]_appVars PROVE Store!Next
    OBVIOUS
  <2>1. ASSUME NEW p \in Pid, HandleCall(p) PROVE Store!Next
    BY <2>1, HandleCallRefines DEF AppInv
  <2>2. CASE \A p \in Pid : ~HandleCall(p)
    <3>1. \A r \in Room : Store!Answer(r) \/ Store!Restart(r)
      BY <2>2, OnlyActorsMoveRooms, Mapping DEF RoomsKeep
    <3>2. QED
      BY <3>1 DEF Store!Next
  <2>3. QED
    BY <2>1, <2>2
<1>3. QED
  BY <1>1, <1>2, AppInvariant, PTL DEF AppSpec, StoreSpec, Store!Spec

\* A drain that was answered OK stays answered while no process is started.
LEMMA DrainedStays ==
    ASSUME [Next]_vars, drained
    PROVE  drained'
<1>1. \A c \in Client : Call(c) \/ ClientTimeout(c) => UNCHANGED drained
  BY DEF Call, ClientTimeout
<1>2. \A p \in Pid : HandleCall(p) \/ Exit(p) \/ Crash(p) => UNCHANGED drained
  BY DEF HandleCall, Exit, Crash
<1>3. RegistryStep \/ CallTimeout \/ UNCHANGED vars => drained' = drained \/ drained' = TRUE
  BY DEF RegistryStep, Refuse, CreateRoom, RouteNowhere, RouteToRoom, RouteToDeadRoom, Query,
         UnloadNothing, UnloadDead, UnloadRoom, DrainRegistry, DrainNext, RouteReturns,
         UnloadReturns, DrainReturns, DrainFinish, CallTimeout, vars
<1>4. QED
  BY <1>1, <1>2, <1>3 DEF Next

\* When a drain is answered OK every room shows what Redis holds, and it shows the
\* same whatever connections, HTTP handlers, node.Stop or a kill do from then on,
\* and when the program is started again.
THEOREM DrainKeepsEverything == AppSpec => DrainLosesNothing
<1>1. AppInv /\ [AppNext]_appVars /\ (drained \/ drained') => \A r \in Room : View(r)' = View(r)
  <2>1. ASSUME AppInv, [AppNext]_appVars, drained, NEW r \in Room
        PROVE  View(r)' = View(r)
    <3>1. rooms[r] = NoPid /\ View(r) = redis[r].snapshot
      BY <2>1 DEF View, AppInv, IInv, Structure, DrainedEmpty, Mapped
    <3>2. rooms'[r] = NoPid /\ redis' = redis
      <4>1. CASE [Next]_vars
        <5>1. redis' = redis
          BY <2>1, <4>1, NothingAfterDrain DEF AppInv
        <5>2. IInv' /\ drained'
          BY <2>1, <4>1, NextIInv, DrainedStays DEF AppInv
        <5>3. QED
          BY <5>1, <5>2 DEF IInv, Structure, DrainedEmpty, Mapped
      <4>2. CASE (\E p \in Pid : Dies(p)) \/ StopRegistry \/ Starts
        BY <3>1, <4>2 DEF Dies, StopRegistry, Starts
      <4>3. CASE ProcessGone
        BY <4>3 DEF ProcessGone
      <4>4. QED
        BY <2>1, <4>1, <4>2, <4>3, StepsOfTheProgram
    <3>3. QED
      BY <3>1, <3>2 DEF View
  <2>2. ASSUME AppInv, [AppNext]_appVars, ~drained, drained', NEW r \in Room
        PROVE  View(r)' = View(r)
    <3>1. [Next]_vars
      <4>1. ~((\E p \in Pid : Dies(p)) \/ StopRegistry \/ Starts \/ ProcessGone)
        BY <2>2 DEF Dies, StopRegistry, Starts, ProcessGone
      <4>2. QED
        BY <2>2, <4>1, StepsOfTheProgram
    <3>2. DrainFinish
      BY <2>2, <3>1, OnlyDrainFinishDrains
    <3>3. UNCHANGED redis /\ busy.task = "drain" /\ busy.pid = NoPid /\ busy.todo = {}
      BY <3>2 DEF DrainFinish
    <3>4. rooms'[r] = NoPid
      <4>1. IInv'
        BY <2>2, <3>1, NextIInv DEF AppInv
      <4>2. QED
        BY <2>2, <4>1 DEF IInv, Structure, DrainedEmpty, Mapped
    <3>5. View(r) = redis[r].snapshot
      <4>1. CASE rooms[r] # NoPid /\ proc[rooms[r]].alive
        <5>1. r \in Mapped \ busy.todo /\ rooms[r] # busy.pid
          BY <3>3, <4>1 DEF Mapped
        <5>2. Persisted(rooms[r]) /\ proc[rooms[r]].room = r
          BY <2>2, <3>3, <4>1, <5>1 DEF AppInv, IInv, Structure, AskedIsPersisted, Sound
        <5>3. QED
          BY <4>1, <5>2 DEF Persisted, View
      <4>2. QED
        BY <4>1 DEF View
    <3>6. QED
      BY <3>3, <3>4, <3>5 DEF View
  <2>3. QED
    BY <2>1, <2>2
<1>2. QED
  BY <1>1, AppInvariant, PTL DEF AppSpec, DrainLosesNothing
=============================================================================
