-------------------------------- MODULE App --------------------------------
(***************************************************************************)
(* The chatdemo program (internal/app, internal/httpapi): main starts the  *)
(* node with its registry and the HTTP server, waits for a signal or for   *)
(* the server to fail, drains, stops the node and closes Redis.  It runs   *)
(* beside the requests that HTTP handlers and WebSocket connection actors  *)
(* send to the registry, it can be killed at any moment, and it is started *)
(* again over what Redis kept.                                             *)
(*                                                                         *)
(* The registry and its room actors take their steps from Registry.        *)
(***************************************************************************)
EXTENDS Registry

CONSTANTS
    Main,     \* the goroutine of Run, a caller of the registry in shutdown
    Socket,   \* the callers that are connection actors; the others are HTTP handlers
    MaxBoots  \* bound: how often the program is started

ASSUME CallerAssumption == Main \in Client /\ Socket \subseteq Client \ {Main}
ASSUME BootsAssumption == MaxBoots \in Nat

VARIABLES
    main,   \* where Run is
    boots,  \* how often the program was started
    kept    \* history: who was told OK by join and is not being asked to leave

appVars == <<vars, main, boots, kept>>

Stages == {"off", "serving", "closing", "draining", "stopping"}

-----------------------------------------------------------------------------
(* What clients know.                                                       *)

Names(req, op, r, n) == req.op = op /\ TrimSpace[req.room] = r /\ TrimSpace[req.name] = n

\* Somebody's leave has not been handled yet, whether or not he still waits.
Leaving(r, n) ==
    \/ \E i \in DOMAIN inbox : Names(inbox[i].req, "leave", r, n)
    \/ \E p \in Pid : \E i \in DOMAIN proc[p].inbox : Names(proc[p].inbox[i].req, "leave", r, n)

JoinAcknowledged(r, n) == \E c \in Client :
    /\ call[c].reply = "waiting" /\ call'[c].reply = "ok"
    /\ Names(call[c].req, "join", r, n)

Remember == kept' = [r \in Room |->
    {n \in Nick : (n \in kept[r] \/ JoinAcknowledged(r, n)) /\ ~Leaving(r, n)'}]

-----------------------------------------------------------------------------
(* Requests.                                                                *)

\* The commands that the routes of the HTTP API and the frames of a WebSocket
\* connection lead to.
RoomActions == {"join", "leave", "message", "list", "unload"}
HTTPOps == {"create", "rooms", "count", "get"} \cup RoomActions
SocketOps == {"join", "leave", "message", "get", "rooms", "list"}

\* server.Shutdown closes the listener, but it does not know the hijacked
\* connections, whose actors send commands until node.Stop reaches them, and an
\* HTTP handler that was accepted may still make its Call after the timeout of
\* Shutdown or a failure of the listener.  How many were accepted is left open.
Submit(c) ==
    /\ c # Main
    /\ main # "off"
    /\ Call(c)
    /\ LET req == call'[c].req
       IN  up => IF c \in Socket THEN req.op \in SocketOps /\ req.conn \in Conn
                 ELSE req.op \in HTTPOps /\ req.conn = NoConn
    /\ Remember
    /\ UNCHANGED <<main, boots>>

GiveUp(c) == ClientTimeout(c) /\ Remember /\ UNCHANGED <<main, boots>>

-----------------------------------------------------------------------------
(* The actors of the node, while it runs and while it stops.                *)

RunRegistry == RegistryStep /\ Remember /\ UNCHANGED <<main, boots>>

RegistryCallTimeout == CallTimeout /\ Remember /\ UNCHANGED <<main, boots>>

RunRoom(p) == (HandleCall(p) \/ Exit(p)) /\ Remember /\ UNCHANGED <<main, boots>>

LoseRoom(p) == Crash(p) /\ Remember /\ UNCHANGED <<main, boots>>

\* node.Stop: every process ends between two requests, in any order, with
\* what is in its mailbox.
StopRoom(p) ==
    /\ main = "stopping"
    /\ proc[p].alive
    /\ proc' = [proc EXCEPT ![p] = Dead]
    /\ UNCHANGED <<up, draining, rooms, inbox, busy, created, redis, call, drained>>
    /\ Remember
    /\ UNCHANGED <<main, boots>>

StopRegistry ==
    /\ main = "stopping"
    /\ up /\ busy.task = "idle"
    /\ Terminate
    /\ UNCHANGED <<draining, rooms, proc, created, redis, call, drained>>
    /\ Remember
    /\ UNCHANGED <<main, boots>>

-----------------------------------------------------------------------------
(* Run.                                                                     *)

\* The process is gone, with everything that was only in memory; what Redis
\* holds stays.  Whoever waited for an answer sees his connection close.  The
\* history variable drained tells how this life ended, until the next one starts.
ProcessGone ==
    /\ up' = FALSE /\ draining' = FALSE
    /\ rooms' = [r \in Room |-> NoPid]
    /\ inbox' = <<>>
    /\ busy' = Idle
    /\ proc' = [p \in Pid |-> Dead]
    /\ call' = [c \in Client |-> IF call[c].reply = "waiting"
                                 THEN [req |-> NoRequest, reply |-> "error"] ELSE call[c]]
    /\ main' = "off"
    /\ Remember
    /\ UNCHANGED <<drained, created, redis, boots>>

\* Redis answered the ping, the node runs, the registry is spawned, the server
\* listens.  A start that fails before that has touched nothing.
Boot ==
    /\ main = "off" /\ boots < MaxBoots
    /\ boots' = boots + 1
    /\ up' = TRUE /\ drained' = FALSE
    /\ main' = "serving"
    /\ UNCHANGED <<draining, rooms, inbox, busy, proc, created, redis, call>>
    /\ Remember

\* SIGINT or SIGTERM.
Signal ==
    /\ main = "serving"
    /\ main' = "closing"
    /\ UNCHANGED <<vars, boots, kept>>

\* ListenAndServe fails, for instance because the port is taken: Run returns the
\* error without a drain, and the deferred node.Stop runs.
ServerFails ==
    /\ main = "serving"
    /\ main' = "stopping"
    /\ UNCHANGED <<vars, boots, kept>>

\* server.Shutdown has seen the HTTP requests end, or its timeout pass; either
\* way main calls the registry.
Drain ==
    /\ main = "closing"
    /\ Call(Main)
    /\ up => call'[Main].req.op = "drain"
    /\ main' = "draining"
    /\ Remember
    /\ UNCHANGED boots

\* Mutant of DrainEnds: main goes on only after a drain that succeeded.
DrainMustSucceed ==
    /\ main = "draining" /\ call[Main].reply = "ok"
    /\ main' = "stopping"
    /\ UNCHANGED <<vars, boots, kept>>

\* The answer, or the end of the wait: a drain that was refused, failed or timed
\* out is logged and nothing else.
DrainEnds ==
    /\ main = "draining" /\ call[Main].reply # "waiting"
    /\ main' = "stopping"
    /\ UNCHANGED <<vars, boots, kept>>

\* node.Stop returns when every process has ended; then Redis is closed and the
\* program ends.
Return ==
    /\ main = "stopping"
    /\ ~up /\ \A p \in Pid : ~proc[p].alive
    /\ ProcessGone

Kill == main # "off" /\ ProcessGone

-----------------------------------------------------------------------------
AppInit ==
    /\ Init
    /\ main = "serving" /\ boots = 1
    /\ kept = [r \in Room |-> {}]

AppNext ==
    \/ \E c \in Client : Submit(c) \/ GiveUp(c)
    \/ RunRegistry \/ RegistryCallTimeout
    \/ \E p \in Pid : RunRoom(p) \/ LoseRoom(p) \/ StopRoom(p)
    \/ StopRegistry
    \/ Boot \/ Signal \/ ServerFails \/ Drain \/ DrainEnds \/ Return \/ Kill

AppSpec == AppInit /\ [][AppNext]_appVars

\* The runtime runs every actor that has mail and fires every Call's timer; the
\* scheduler runs main.  The exit signal of node.Stop overtakes the mail, so the
\* registry takes it however much is sent to it: strong fairness.  A mailbox has
\* no limit: strong fairness of Drain makes up for MaxInbox.  No signal, failure,
\* kill or start is taken for granted.
AppFairness ==
    /\ WF_appVars(RunRegistry) /\ WF_appVars(RegistryCallTimeout)
    /\ \A c \in Client : WF_appVars(GiveUp(c))
    /\ \A p \in Pid : WF_appVars(RunRoom(p)) /\ WF_appVars(StopRoom(p))
    /\ SF_appVars(StopRegistry) /\ SF_appVars(Drain)
    /\ WF_appVars(DrainEnds) /\ WF_appVars(Return)

FairAppSpec == AppSpec /\ AppFairness
-----------------------------------------------------------------------------
(* Properties.                                                              *)

\* Who was told OK by join is in Redis from then on, until somebody asks him to
\* leave: through unloads, failed and timed-out drains, node.Stop in the middle
\* of a handler, kills and restarts, although shutdown ignores what became of
\* its drain (shutdown.go:59-70, run.go:35-50).
JoinSurvivesTheProgram == \A r \in Room : kept[r] \subseteq redis[r].snapshot

\* A drain that was answered OK loses nothing: what each room showed when it
\* ended is what Redis holds, and neither connections that still send commands,
\* nor node.Stop, nor a kill, nor the next start over what Redis kept changes it
\* (shutdown.go:57-59, registry_drain.go:16-41).
DrainLosesNothing ==
    [][drained \/ drained' => \A r \in Room : View(r)' = View(r)]_appVars

\* A shutdown comes to its end, whatever happened to the registry and the rooms
\* and whoever goes on sending commands: main waits for no answer for ever, and
\* no actor is left that node.Stop waits for (shutdown.go:46-71, run.go:35).
ShutdownEnds == main \in {"closing", "draining", "stopping"} ~> main = "off"
=============================================================================
