# Verification of the actor chat demo

The program under `chatdemo/` is a chat server built from actors (Ergo): a registry, one actor
per room, one actor per WebSocket connection, an HTTP adapter in front and Redis behind. This
directory holds TLA+ models of it, the TLC runs that check them on small instances, and TLAPS
proofs of what matters most for every instance.

## 1. Inventory

### RoomActor (`chatdemo/internal/chat/room_*.go`)

*State*: title, and `members`, a map from nick to connection pid (the zero pid for a member that
joined over HTTP or was read back from Redis). Redis holds a JSON snapshot of the member list and
a list of the last 100 messages.
*Operations*: join, leave, message, get, list, drain; `Init` hydrates, `Terminate` logs.
A handler checks its arguments, changes the map, writes Redis once with a deadline of two seconds,
and only after an acknowledged write broadcasts an event to the connections and answers OK.
*Hard*: the map is changed before the write, so a failed write leaves map and Redis different; a
write can take effect although the actor saw an error, even later than the next one; crash, unload
and hydrate at any point between commands.
*Correct if*: what was answered OK survives; map and snapshot differ only after a write that was
not acknowledged; events tell only what is stored; the list is the newest part of what was applied.

### RoomRegistryActor (`registry_*.go`)

*State*: `rooms` (room id to pid), `draining`; Redis holds the set of rooms.
*Operations*: create, route (join, leave, message, get, list), list rooms, count, unload, drain.
It serves one request at a time and makes **blocking** Calls to room actors inside its handler.
*Hard*: timeouts of those Calls while the request stays in the room's mailbox; room actors that
died while the map still has them; the two phases of drain; requests queued behind a drain; the
same room created, unloaded and used again.
*Correct if*: at most one actor of a room can still write; nothing in memory only is lost by unload
or drain; a drained registry stays drained; creating again resets nothing; no answer reaches a call
it does not belong to; every call ends.

### WSConnectionActor (`internal/wsconn`)

*State*: the socket, `outbound` (a channel of 32 frames), `joined` (room id to nick).
*Operations*: a reader goroutine posts frames and the end of the socket to the mailbox; a writer
goroutine takes frames from the channel; the actor handles frames (join, leave, message, queries,
ping) by blocking Calls to the registry, forwards room events, and on `socketClosed` leaves every
room in `joined` and ends.
*Hard*: three threads of control and a full channel; a writer that gives up without telling anyone;
the late cleanup of a connection whose nick somebody else has taken over; a map that keeps one nick
per room.
*Correct if*: frames arrive in order and only those that found the channel full are missing; a
closed connection is no member of any room; cleanup takes nothing from others; all three end.

### Application (`internal/app`)

*State*: where `Run` is; the node with its actors; what Redis keeps over restarts.
*Operations*: start (Redis ping, node, registry, HTTP server); a signal, or a server that fails;
`server.Shutdown`, drain by a Call to the registry, `node.Stop`, closing Redis.
*Hard*: hijacked WebSocket connections go on sending commands after `server.Shutdown`; the drain may
be refused, fail or time out and the shutdown goes on; `node.Stop` ends actors in any order, between
any two requests; the process may be killed at any point and starts again over Redis alone.
*Correct if*: a join that was answered OK outlives the program; a drain answered OK loses nothing;
a shutdown ends.

### Load generator (`internal/loadtest`)

*State*: the stage of `Run`, a bounded job channel, workers, counters, report loops.
*Operations*: preflight, the setup stages (create, join), the message stage, each with a producer, a
worker pool and `wg.Wait`; a message that finds no room sets the room up and is sent once more.
*Hard*: producer and workers of different speed, a context that ends in the middle of a batch,
several workers that set up the same room, requests that time out and are handled later, counters
that are reset while a report loop nobody waits for still reads them.
*Correct if*: every job is counted once, no join overtakes the create of its room, a message is
stored at most once, auto-setup heals what it can, reports of a stage are about that stage, and the
run ends.

### The rest

| Part | Source | State and operations | Here |
|---|---|---|---|
| HTTP adapter | `internal/httpapi` | stateless but for a counter of connection ids; every handler makes one Call to the registry, `/ws` spawns a connection actor | `App!Submit` says which requests its routes lead to and until when; `Registry!Call` and `ClientTimeout` are the Call; in `WSConn` its joins and leaves are `OtherClient` |
| Counter | `main.go` | one integer | not modelled: a sequential demo |

*Interaction*: HTTP handler, connection actor or `Run` —Call→ registry —Call→ room actor —command→
Redis; room actor —Send→ connection actor (events); reader goroutine —Send→ its actor —channel→
writer goroutine. Nobody shares memory but through mailboxes, the channel, Redis, and the atomic
counters of the load generator.

## 2. Modules

| Module | Models | State | Steps |
|---|---|---|---|
| `RoomStore` | what rooms promise, with no actors in it | members shown, members and messages stored, last answer | `Commit`, `Attempt`, `Answer`, `Restart` of each room |
| `RoomHandlers` | what a command does to a member map, and what a write does to Redis, as operators | none | none |
| `Room` | one room over many lives of its actor | actor, Redis, writes under way, what clients were told | one per command; hydrate, terminate, late write |
| `Registry` | registry, room actors, callers | `up`, `draining`, `rooms`, mailboxes, the Call the registry waits for, actors, Redis, callers | one per request and per return of a Call; timeouts, exits, crashes |
| `App` | the program: `Run`, the node, HTTP and WebSocket callers, restarts | all of `Registry`, `main`, what was acknowledged | those of `Registry`; start, signal, failing server, drain, stops, kill |
| `WSConn` | one connection with its goroutines; registry and rooms as a server, other clients as its environment | actor, mailbox, Call, `joined`, channel, reader, writer, socket, rooms; what it was told | one per thread and kind of item |
| `LoadTest` | the load generator against a service that may refuse, lose or delay | stage, producer, channel, workers, counters, reports, the service | one per stage, producer step, worker step, answer and report read |
| `HandlerLemmas` | lemmas about `RoomHandlers` | | |
| `RoomProofs` | theorems about `Room`, its refinement included | | |
| `RegistryProofs`, `RegistryRefinement` | theorems about `Registry` | | |
| `AppProofs`, `CallProofs` | theorems about `App` | | |
| `WSConnProofs` | theorems about `WSConn` | | |
| `LoadTestProofs` | theorems about `LoadTest` | | |
| `MC*` | the values of the constants for TLC | | |

`Room`, `Registry` and `WSConn` extend `RoomHandlers`, so a command means the same in each. `App`
extends `Registry`: each of its steps is a step of `Registry` with what `Run` does beside it, or an
end or a start of the whole. `Room` and `Registry` each have an `INSTANCE` of `RoomStore`.

**How a handler becomes a step.** A room actor serves one command at a time, and the only thing
outside that it touches before it answers is one Redis write. So a command is one step, whose
nondeterminism is how the write ends: `ok`; `failed` (not applied, error); `lost` (applied, error);
`late` (error now, applied at any later time; `Room` only). A handler of registry or connection that
makes a Call is two steps, the request and the return, with everything else in between. `createRoom`
makes several Redis commands, but no one else writes a room that has no actor, so it is one step.

**The abstract rooms.** In `RoomStore` a room shows a set of members, and stores a set of members
and a list of messages. `Commit` changes one member or appends one message and stores all the room
shows (its OK may be lost); `Attempt` changes what is shown, stores nothing and is not answered OK;
`Answer` changes nothing; `Restart` goes back to what is stored. The mapping: what a room shows is
the member map of the actor the registry would route to, if it is alive, and otherwise what Redis
holds (`CurrentMembers` in `Room`, `View` in `Registry`); what it stores is in Redis; its last answer
is the result of the command (`Room`), or of the Call the registry waits for (`Registry`). So
creation, unload, drain, exits, crashes, restarts and requests of Calls that timed out must all look
like `Answer` or `Restart`. `Room` implements it unless writes land late: a late write stores members
nobody shows any more, or messages out of the order they were sent in, and is not a `Commit`.

**The program.** `App` leaves `node.Stop` as it is: any process ends between two requests, with what
is in its mailbox, until none is left. A request that `server.Shutdown` gave up waiting for, or that
was accepted before the server failed, may still make its Call until `Run` returns, and connection
actors send commands until they are stopped; so `Submit` excludes nobody while the process lives.
`kept` is a history variable: the members whose join was answered OK and whose leave nobody has sent
since. `drained` outlives the process and is cleared by the next start, so that what an OK to the
drain promises is checked through the end of the process too.

**A connection's doubt.** `unsure` is a history variable of `WSConn`: the rooms whose last join or
leave returned without an OK, although it named a nick and so may have taken effect. The code keeps
no such thing (it sends the client an error and goes on), which is why a connection can be left
behind in such a room, and the question is whether it can be left behind in any other. Rooms are
asked for *members*, not for pids, since hydrate keeps the former and loses the latter: `joiner`
remembers who was the last to join under a nick, and `unloaded` which rooms were unloaded since this
connection last joined them.

**The load generator.** A job is the request it leads to, and a worker knows how far into its job it
is. The service only grows under this load, so it is its rooms, members and how often it stored each
message. `Stats.Reset` and a report read the counters one after the other, so they are two steps
each; the report loops of all started stages go on.

**What is abstracted.** Strings are model values with `TrimSpace` a function on them, as an
arbitrary idempotent one in the proofs. Titles, `UpdatedAt` and versions are left out, the time of a
message is its number. JSON, HTTP statuses, configuration and the wording of reports are left out.
`GetRoom` and listing read, and are steps of `Room`; in `Registry` and `WSConn` their content does
not matter, only their answer. The order in which Go iterates over a map is any order. Durations are
left out: a timer may fire whenever what it waits for has not come.

**External parts.** Ergo: mailboxes are FIFO; a Call returns the answer, fails at once for an
unknown process, or times out, and its late answer is dropped by its reference; a handler that
returns an error ends its actor; an exit signal takes effect between two requests. Redis executes a
MULTI as a whole; LRANGE and LTRIM with a negative start count from the end. These definitions are
marked external in `PROJECT.json`.

## 3. Runs

| Run | Question | Bounds |
|---|---|---|
| `room_members` | Are acknowledged joins durable, and events true, under failed and unacknowledged writes, crashes and restarts? Is the room the abstract one? | 2 nicks (one also padded), 2 connections and HTTP, 2 messages, a list of 1 |
| `room_history` | Is the list the newest part, are listings, are map and snapshot the same after acknowledged writes, with late writes? | 1 nick, 1 connection, 4 messages through a list of 2, one late write under way, limits -1, 0, 1, 5 |
| `room_leave` (violation) | Is an acknowledged leave durable? | as `room_members` |
| `registry_safety` | One writer per room, nothing lost, nothing after a drain, no reset; are all rooms the abstract ones? | 2 callers, 2 rooms, 3 actors, 8 requests, room timeouts, crashes, write faults |
| `registry_death` (violation) | Is the death of a room local? | 2 rooms, crashes |
| `registry_unload` (violation) | Does OK to unload mean unloaded? | 1 room, padded id |
| `registry_drain` (violation) | Does a drain ask every room? | 2 rooms, write faults |
| `app` | Does an acknowledged join outlive the program, does a drain lose nothing, do answers reach their calls only, do calls, handlers and shutdowns end? | HTTP, one connection and `Run`, 1 room, 1 actor address, 2 starts, crashes, early timeouts of HTTP and drain |
| `ws_faults` | Are frames in order, missing only when dropped? Does a closed connection stay only where a join or leave was not answered OK, or in a room unloaded since it joined? Does a takeover survive, and does everything end? | every frame type and fault, 1 nick, 2 frames, 1 command of others or an unload, a channel of 2 |
| `ws_two_nicks` (violation) | Is a closed connection out of its rooms, with two nicks in one? | 2 nicks, 3 frames, no faults |
| `ws_rehydrated` (violation) | The same with one nick, if a room is unloaded in between | 1 nick, 1 frame, 1 unload, no other fault |
| `load` | Are jobs counted once, rooms there before joins, a setup without errors complete, messages stored once, setups healed, reports untorn, and does the run end? | 2 workers, a channel of 1, 1 room of 2 users, 2 messages, refused, lost and late answers, every phase with and without auto-setup and preflight, any state of the service at the start |

*Why the bounds are enough.* The interesting cases need a second actor of a room while a request
for the first is still somewhere: two rooms and three addresses give an old actor, a new one and an
unrelated room; two callers give a request queued behind the one being served. `app` adds a third
caller for the drain, and a second start that finds what the first left in Redis; one address is
enough there, since it is free again when its actor has gone, and `registry_safety` has the others.
A list of one or two with four messages is filled and shifted twice. A channel of two is full
after the welcome frame and one answer or event; the writer can hold one more. In `load` two workers can set up
the same room at the same time, with one late request of either landing in between. The bounds are
`MaxInbox`, `MaxBacklog`, `MaxBoots`, `MaxPosts`, `MaxLate`, `MaxFrames`, `MaxOthers` and
`MaxMessages`, all in guards, and the proofs hold for every value of those they meet.

*What the violations show.* (1) `leave` removes the member before the write, so a retried leave is
answered OK although Redis still has the member. (2) A Call that fails in `routeToRoom` is returned
as the handler's error and ends the registry. (3) `unloadRoom` does not trim the id. (4) A drain
stops asking at the first room that fails. (5) `joined` keeps one nick per room, so a connection
with two leaves one behind. (6) An unload makes the next actor forget the pids of connections that
are still there, and the leave a connection sends when it closes is then answered OK and ignored, so
its member stays although nothing failed. Each is quoted against the document or comment it contradicts in
`PROJECT.json`.

*Where the documents say more than the code does*, without a run of its own: `README.fa.md:265` and
`shutdown.go:44` say that closing the HTTP server keeps new requests out, but connections that were
upgraded go on sending commands (`App!Submit`); the comment at `shutdown.go:78` counts the drain
under `CHAT_SHUTDOWN_TIMEOUT`, but its Call has the default of the runtime; `stats.go:61` speaks of a
copy for reading, but the counters are read one by one and a late report of the setup may mix the
values before and after `Reset` (`ReportsTheirStage` says that it gets no further than that).

*Deadlock* is checked in every run but `app` and `load`, whose programs end. When a connection has
ended and its requests are served, `WSConn` stutters explicitly; no other state may be without a
successor.

### Fairness

* `App!FairAppSpec`: the runtime schedules every actor that has mail (weak fairness of the
  registry's steps and of each room actor's) and fires the timer of a Call; the scheduler runs
  `Run`. Two actions get strong fairness. `node.Stop` must reach the registry between two requests:
  exit signals are urgent and overtake the mail, so connections that never stop sending cannot keep
  the registry from ending, although it is busy again and again. The drain's Call must get into the
  registry's mailbox, which has no limit in the code and a bound here. Signals, failures, kills and
  starts have none, and a room actor's crash never needs to happen for progress.
* A caller in `Impatient`, and the registry when `SlowRooms` holds, may time out with the answer
  under way; any other Call times out only when nobody is left to answer it, so that no liveness
  rests on a timer that fires before an answer.
* `WSConn!FairSpec`: goroutines and actors run; a read from a *closed* socket fails. Nothing makes
  a client close its socket or a read from an open one fail, so no progress depends on it. The
  registry answers (`EveryCallEnds` in `app` is the reason this may be assumed).
* `LoadTest!FairSpec`: main, producers and workers run, the HTTP client's timeout ends every
  request, the context of the message stage ends. Nothing makes the service handle what timed out,
  or a report loop look at its channel.

## 4. Proofs

TLAPS checks the following for every set of strings, nicks, connections, rooms, callers, requests
and addresses, every history cap and every bound, from the named assumptions of the modules only
(trimming is idempotent, special values are distinct, requests are well formed).

**Room** (`RoomProofs`)

* `TypeCorrect`: the type invariant.
* `WriteThrough`: `SnapshotCurrent` and `PushedIsStored`. `SnapshotCurrent` is inductive with the
  type invariant: every plan that changes the map writes it (`PlansAreQuiet`), and an acknowledged
  write makes the snapshot equal to the map (`PerformStores`). `EventsAreStored`
  (`PushedIsStored`) is part of it.
* `RestartKeeps`: `RestartKeepsMembers`, from `SnapshotCurrent` and the lemma that hydrating a
  snapshot gives its members back.
* `JoinIsDurable`: `AckedJoinDurable`, if `late` is not an outcome. The strengthening `DurableInv`
  adds that no write is under way. With late writes the property is false.
* `HistoryNewest`: `HistoryIsNewest` and `ListIsNewest` (`ListingsAreNewest`), from lemmas about the
  newest *k* elements of a sequence under append and under taking the newest *j* of them.

**Room implements RoomStore** (`RoomProofs`): `RoomImplementsStore`, if `late` is not an outcome.
Every plan moves at most one member and posts for a member of the map (`PlansAreSmall`); a plan
carried out is a `Commit`, `Attempt` or `Answer` by what became of its write (`PerformRefines`).

**Registry** (`RegistryProofs`). The invariants checked by TLC are not inductive: that a room has
one writer depends on *why* an actor may leave the map. The inductive invariant `IInv` says
that

1. an actor in the map serves its own room, and one out of it has been told to exit with an empty
   mailbox (`Sound`);
2. the registry waits only for an actor of its map (`BusySound`), and only for the last request in
   that actor's mailbox, which is a drain when it unloads or drains (`LastIsAwaited`): so when the
   answer is there, the mailbox is empty, requests of Calls that timed out included;
3. an actor that has answered the drain it was asked for is idle, and its members are in Redis,
   until the registry takes it out of the map (`AskedIsIdle`, `AskedIsPersisted`);
4. a registry that has drained is draining, or has ended, and its map is empty (`DrainedEmpty`).

There is one lemma per action (or per kind of action), `NextIInv` puts them together, and from
`Invariant` follow `TypeCorrect`, `OneWriterPerRoom` (`SingleWriter`), `NothingLostByUnload`
(`ExitOnlyPersisted`), `DrainIsFinal` (`DrainedIsFinal`) and `RoomsAreWrittenByTheirActor`
(`OnlyTheActorWrites`).

**Registry implements RoomStore** (`RegistryRefinement`): `RegistryImplementsStore`. The mapping also
needs `CreatedSound`, that a room which was never created has no actor and no members, so that
creating it shows nobody anything new. Then every step that is not a room actor's keeps what all
rooms show and store, or shows what is stored (`OthersKeepRooms`), and a room actor with a command
moves its own room only (`HandleCallRefines`).

**The program** (`AppProofs`). Every step of `App` is one of `Registry`, the end of an actor (`Dies`),
the end of the registry, the end of everything (`ProcessGone`) or a start (`Starts`); this is
`StepsOfTheProgram`, and each of the last four preserves `IInv` and `CreatedSound`
(`AppInvariant`). So `AppOneWriter` and `AppImplementsStore` hold over any number of starts.
`DrainKeepsEverything` (`DrainLosesNothing`) holds from the step that answers a drain OK to the next
start, that start and the end of the process before it included: with the map empty every room
shows what Redis has (`DrainedEmpty`), and neither an end nor a start touches that.

**Calls and acknowledged joins** (`CallProofs`). Requests have no identity in the code; an answer
belongs to a Call by its reference. `CallInv` follows a request through the places where it can be:

1. the registry's mailbox, once per caller and as that caller sent it, or with the handler that
   serves it; while the registry lives, every caller that waits is in one of the two (`Linked`), and
   while the program is off nobody waits (`Off`);
2. a room actor's mailbox: mail is addressed to the actor's own room, also what is left of Calls that
   timed out, and the awaited one is the request of the caller the registry serves (`MailAddressed`,
   `TaskAddressed`);
3. the answer: when a room has said OK to a join and until the registry passes it on, the member is
   in Redis and is shown (`Told`), since the actor the registry waits for has nothing else to handle;
4. after that, whoever was told OK and is not being asked to leave is in Redis and is shown
   (`KeptSound`), since only the handling of his own leave takes a member out (`PresentStays`).

From it follow `AnswersReachTheirCalls` (`OneRequestPerCall`) and `JoinsSurvive`
(`JoinSurvivesTheProgram`).

**One connection** (`WSConnProofs`). The channel and the actor's requests meet only in `enqueue`, so
there are two invariants, one per half, and together they give `TypeCorrect`.

* `FramesArriveInOrder` (`FramesInOrder`), from `ChannelInv`: what the client has, what the writer
  holds and what the channel holds are increasing, each part below the next (`Ordered`); a dropped
  frame is in none of them and is not the welcome (`Lost`); while socket and writer live, every frame
  ever made is in one of them or was dropped (`Accounted`). This is proved for every capacity of the
  channel; the run uses a small one.
* `TakeoversSurvive` (`TakeoverSurvives`), from `SessionInv`: requests are well formed and name an
  existing room or `NoRoom`, so what the connection asks for is one of the plans of `RoomHandlers`
  with its own pid. `FewMembers`, that rooms have finitely many members, is needed because the set
  of strings is not assumed finite.

* `OnlyUnsureAreLeftBehind` (`OnlyUnsureStay`) for a client that keeps to one nick in each room
  (`OneNick`), under every fault; `GoneConnectionsHaveLeft` (`GoneMeansLeft`) if in addition there are
  no faults (`Reliable`), an unload counted as one. The client of `ws_faults` has one nick. The
  hypotheses are needed: `ws_two_nicks` is a counterexample with two nicks, `ws_rehydrated` one with
  an unload, and a join whose write fails is one with other faults.
  `GoneMeansLeft` itself is far from inductive. `PresenceInv` says that

  1. the actor waits for its last request only; when that was answered OK, nothing is left of the
     Calls it gave up on (`InTurn`): the registry's mailbox is a queue, so a late join or leave comes
     before whatever was asked after it;
  2. actor, requests and rooms know it by the client's nick in that room or not at all (`OwnNick`), so
     a leave that names a nick names the right one;
  3. wherever it is a member, a Call has failed, or the room is in `joined` or about to be, or the
     cleanup has yet to leave it, or the leave is under way (`Present`);
  4. a join nobody waits for any more is of a room in doubt (`Overdue`), and a leave answered OK
     means that it is out of the room (`Left`).

  `PresenceInv` speaks of members that carry this connection's pid. `Traced` adds the others: where
  this connection was the last to join, the nick is the client's, and the member has its pid, is
  gone, or the room was unloaded since. `NoDoubt` adds that without faults no Call for a room fails
  but for a blank nick, and `AllLoaded` that no room is unloaded.

**Load generator** (`LoadTestProofs`), for any number of rooms, users, workers and messages, any
capacity of the channel, and every service whose answers may be refused, lost or late. The inductive
invariant has four parts, each built on the ones before.

1. `StageInv`: types; which stage has a producer, jobs and busy workers, of the stage's own kind
   (`Phased`, `OneKind`). A stage can only follow when all workers have seen its channel closed.
   Gives `TypeCorrect`.
2. `CountInv`: `CountedOnce`, and that a message stage starts from counters of zero (`FromZero`); a
   job goes from the channel to exactly one worker and from there to one counter. Gives
   `JobsAreCountedOnce` and `ReportsAreOfTheirStage` (`ReportsTheirStage`).
3. `SetupInv`: every room of the setup is still to be submitted, in the channel, with a worker,
   created, or its create has failed (`RoomsCovered`), which was counted (`FailedRooms`); while no
   failure was counted, every user of every room is a member or its join is outstanding
   (`UsersCovered`). That the producer's list names them all is a lemma about division. Gives `JoinsComeAfterCreates` (`JoinsFindTheirRoom`) and `CleanSetupIsComplete`
   (`SetupIsComplete`).
4. `MessageInv`: messages are numbered in the order of the channel (`Numbered`), those not taken yet
   are untouched (`Unsent`), no two workers have the same one and the one a worker has is not stored
   and not late (`Exclusive`), a late one is
   late once, was not stored and counted as failed for a fault (`LateOnce`), and a
   worker on its way through a room's setup has its room and the users before the one it joins,
   whoever else works on the room (`SetUpSoFar`). Gives `MessagesAreStoredOnce` (`StoredAtMostOnce`)
   and `AutoSetupHeals` (`OnlyFaultsFail`).

**Only model-checked**: the liveness properties (`EveryCallEnds`, `RegistryNotStuck`, `ShutdownEnds`,
`Unwinds`, `LoadEnds`), which need fairness and ENABLED. All invariants, action properties and
refinements that the runs check are proved.

## 5. What is not modelled

* Late writes in `Registry` and `App`: there a write takes effect in its handler or never. A create
  whose MULTI lands after the room was used would reset its members; it is listed among the hazards.
  `Room` has late writes, and one can undo an acknowledged join; nothing in the code or its documents
  says otherwise, so this too is a hazard without a property.
* A client that repeats a message after an error, or the Redis client repeating a MULTI: messages
  have no identity in the code, so a copy is not an error of it.
* A retry of a cleanup's leave, or of a join that fails: the code has none, so with faults a connection
  may stay in a room it is unsure of (`OnlyUnsureStay`), and `GoneMeansLeft` is proved without faults.
* What a connected client misses after an unload (events, and the right to post) until it joins again.
  That its member then stays for good is the run `ws_rehydrated`.
* Half-dead connections (writer gone, socket open) are reached in `ws_faults`; nothing in the code
  ends them, so no liveness is stated about them.
* The wait of `server.Shutdown` and all other durations; that a drain which gives up loses no
  *acknowledged* join is proved, how long it takes is not a question for this model.
* Paths, methods, JSON decoding and status codes of the HTTP adapter, configuration, names and
  reports of the load generator: stateless.
* The entry points (`cmd/*`), which call `Run` and log its error; the counter demo (`main.go`), one
  sequential program with one actor and one integer; the design documents, which are quoted where the
  code says otherwise.

## 6. Plan

Done, in this order: `RoomHandlers` and `Room`; `Registry`; `WSConn`; proofs about the first two;
`RoomStore` and the two refinements; `App`; `LoadTest`; the proofs about `App`, `WSConn` and `LoadTest`.

Left, most useful first:

1. Late creates in `Registry`, with the weaker refinement that holds.
2. `WSConn` composed with `App` in place of its abstract server.
