----------------------------- MODULE CallProofs -----------------------------
(***************************************************************************)
(* Proofs about the callers of the program: which request an answer        *)
(* belongs to, and what an OK to a join is worth.  Requests are known by   *)
(* where they are: in the registry's mailbox, with the handler that serves *)
(* them, or as mail of a room actor.  The invariant ties each place to the *)
(* Call that waits for it, through timeouts that leave the request behind, *)
(* through the end of the registry and the ends of the whole process.      *)
(***************************************************************************)
EXTENDS AppProofs, FiniteSetTheorems

-----------------------------------------------------------------------------
(* Requests and their Calls.                                                *)

\* A request in the mailbox is the only one of its caller, who waits for it and
\* for no other; the handler's caller waits too; and while the registry lives a
\* caller that waits is in one of the two places.
Linked ==
    /\ \A i, j \in DOMAIN inbox :
          inbox[i].client = inbox[j].client /\ inbox[i].client # NoClient => i = j
    /\ \A i \in DOMAIN inbox : inbox[i].client # NoClient =>
          /\ inbox[i].client # busy.client
          /\ call[inbox[i].client] = [req |-> inbox[i].req, reply |-> "waiting"]
    /\ busy.client # NoClient => busy.task # "idle" /\ call[busy.client].reply = "waiting"
    /\ up => \A c \in Client : call[c].reply = "waiting" =>
          busy.client = c \/ \E i \in DOMAIN inbox : inbox[i].client = c

\* While the program does not run nobody waits for it.
Off == main = "off" => ~up /\ \A c \in Client : call[c].reply # "waiting"

\* Where a request goes in one step.  It is answered as soon as it is served;
AnswersAtOnce ==
    /\ busy.task = "idle" /\ inbox # <<>>
    /\ inbox' = Tail(inbox)
    /\ \E result \in {"ok", "fail"} :
          /\ call' = Answered(Current.client, result)
          /\ result = "ok" => Current.req.op # "join"
    /\ UNCHANGED <<up, busy>>

\* or the registry starts to wait on its behalf;
Begins ==
    /\ busy.task = "idle" /\ inbox # <<>>
    /\ inbox' = Tail(inbox)
    /\ busy'.client = Current.client /\ busy'.task # "idle" /\ busy'.answer = "none"
    /\ UNCHANGED <<up, call>>

\* or the registry goes on waiting, or a room works;
Continues ==
    /\ busy'.client = busy.client /\ busy'.task = busy.task
    /\ busy.task = "route" => busy'.pid = busy.pid /\ rooms' = rooms
    /\ busy'.answer \in {busy.answer, "none"} \/ \E p \in Pid : HandleCall(p)
    /\ UNCHANGED <<up, inbox, call>>

\* or the registry answers the caller it waited for;
Ends ==
    /\ busy.task # "idle"
    /\ \E result \in {"ok", "fail"} :
          /\ call' = Answered(busy.client, result)
          /\ result = "ok" /\ busy.task = "route" =>
                busy.answer = "ok" /\ UNCHANGED <<rooms, proc, redis>>
    /\ busy' = Idle
    /\ UNCHANGED <<up, inbox>>

\* or the registry ends.
Falls ==
    /\ up' = FALSE /\ inbox' = <<>> /\ busy' = Idle
    /\ UNCHANGED call

\* There is nothing else that can happen to it.
LEMMA StepsOfARequest ==
    ASSUME IInv, [Next]_vars
    PROVE  \/ \E c \in Client : Call(c) \/ ClientTimeout(c)
           \/ AnswersAtOnce \/ Continues \/ Ends \/ Falls
           \/ Begins /\ (RouteToRoom \/ UnloadRoom \/ DrainRegistry)
<1>1. CASE RegistryStep
  <2>1. CASE Refuse
    <3>1. up /\ busy.task = "idle" /\ inbox # <<>> /\ inbox' = Tail(inbox)
          /\ call' = Answered(Current.client, "fail") /\ UNCHANGED <<up, busy>>
      BY <2>1 DEF Refuse
    <3>2. QED
      BY <3>1 DEF AnswersAtOnce
  <2>2. CASE CreateRoom
    <3>1. /\ busy.task = "idle" /\ inbox # <<>> /\ inbox' = Tail(inbox)
          /\ Current.req.op = "create" /\ UNCHANGED <<up, busy>>
          /\ \E ok : call' = Answered(Current.client, Outcome(ok))
      BY <2>2 DEF CreateRoom, Serve
    <3>2. QED
      BY <3>1 DEF AnswersAtOnce, Outcome
  <2>3. CASE RouteNowhere \/ UnloadDead
    <3>1. /\ busy.task = "idle" /\ inbox # <<>> /\ inbox' = Tail(inbox)
          /\ call' = Answered(Current.client, "fail") /\ UNCHANGED <<up, busy>>
      BY <2>3 DEF RouteNowhere, UnloadDead, Serve
    <3>2. QED
      BY <3>1 DEF AnswersAtOnce
  <2>4. CASE Query \/ UnloadNothing
    <3>1. /\ busy.task = "idle" /\ inbox # <<>> /\ inbox' = Tail(inbox)
          /\ Current.req.op # "join" /\ UNCHANGED <<up, busy>>
      BY <2>4 DEF Query, UnloadNothing, Serve
    <3>2. \E result \in {"ok", "fail"} : call' = Answered(Current.client, result)
      BY <2>4 DEF Query, UnloadNothing, Outcome
    <3>3. QED
      BY <3>1, <3>2 DEF AnswersAtOnce
  <2>5. CASE RouteToRoom \/ UnloadRoom \/ DrainRegistry
    <3>1. /\ busy.task = "idle" /\ inbox # <<>> /\ inbox' = Tail(inbox)
          /\ UNCHANGED <<up, call>>
      BY <2>5 DEF RouteToRoom, UnloadRoom, DrainRegistry, Serve
    <3>2. busy'.client = Current.client /\ busy'.task # "idle" /\ busy'.answer = "none"
      BY <2>5 DEF RouteToRoom, UnloadRoom, DrainRegistry, Waiting
    <3>3. QED
      BY <2>5, <3>1, <3>2 DEF Begins
  <2>6. CASE RouteToDeadRoom
    BY <2>6 DEF RouteToDeadRoom, Terminate, Falls
  <2>7. CASE DrainNext
    <3>1. /\ busy'.client = busy.client /\ busy'.task = "drain" /\ busy'.answer = "none"
          /\ busy.task = "drain" /\ UNCHANGED <<up, inbox, call>>
      BY <2>7 DEF DrainNext, Waiting
    <3>2. QED
      BY <3>1 DEF Continues
  <2>8. CASE DrainFinish
    <3>1. /\ busy.task = "drain" /\ call' = Answered(busy.client, "ok")
          /\ busy' = Idle /\ UNCHANGED <<up, inbox>>
      BY <2>8 DEF DrainFinish
    <3>2. QED
      BY <3>1 DEF Ends
  <2>9. CASE RouteReturns \/ UnloadReturns
    <3>1. /\ busy.answer \in {"ok", "fail"} /\ call' = Answered(busy.client, busy.answer)
          /\ busy' = Idle /\ UNCHANGED <<up, inbox>>
      BY <2>9 DEF RouteReturns, UnloadReturns, IInv, TypeOK, Task
    <3>2. \/ busy.task = "route" /\ UNCHANGED <<rooms, proc, redis>>
          \/ busy.task = "unload"
      BY <2>9 DEF RouteReturns, UnloadReturns
    <3>3. QED
      BY <3>1, <3>2 DEF Ends
  <2>10. CASE DrainReturns /\ busy.answer = "ok"
    <3>1. /\ busy'.client = busy.client /\ busy'.task = "drain" /\ busy'.answer = "none"
          /\ busy.task = "drain" /\ UNCHANGED <<up, inbox, call>>
      BY <2>10 DEF DrainReturns, Waiting
    <3>2. QED
      BY <3>1 DEF Continues
  <2>11. CASE DrainReturns /\ busy.answer # "ok"
    <3>1. /\ busy.task = "drain" /\ call' = Answered(busy.client, "fail")
          /\ busy' = Idle /\ UNCHANGED <<up, inbox>>
      BY <2>11 DEF DrainReturns
    <3>2. QED
      BY <3>1 DEF Ends
  <2>12. QED
    BY <1>1, <2>1, <2>2, <2>3, <2>4, <2>5, <2>6, <2>7, <2>8, <2>9, <2>10, <2>11 DEF RegistryStep
<1>2. CASE CallTimeout /\ busy.task = "route"
  BY <1>2 DEF CallTimeout, Terminate, Falls
<1>3. CASE CallTimeout /\ busy.task # "route"
  <2>1. /\ busy.task # "idle" /\ call' = Answered(busy.client, "fail")
        /\ busy' = Idle /\ UNCHANGED <<up, inbox>>
    BY <1>3 DEF CallTimeout, IInv, Structure, BusySound
  <2>2. QED
    BY <2>1 DEF Ends
<1>4. ASSUME NEW p \in Pid, HandleCall(p) PROVE Continues
  <2>1. /\ busy'.client = busy.client /\ busy'.task = busy.task /\ busy'.pid = busy.pid
        /\ UNCHANGED <<rooms, up, inbox, call>>
    BY <1>4 DEF HandleCall
  <2>2. QED
    BY <1>4, <2>1 DEF Continues
<1>5. ASSUME NEW p \in Pid, Exit(p) \/ Crash(p) PROVE Continues
  BY <1>5 DEF Exit, Crash, Continues
<1>6. CASE UNCHANGED vars
  BY <1>6 DEF vars, Continues
<1>7. QED
  BY <1>1, <1>2, <1>3, <1>4, <1>5, <1>6 DEF Next

\* Whoever sent a request is a caller, or has given up.
LEMMA QueuedClients ==
    ASSUME TypeOK
    PROVE  /\ busy.client \in Client \cup {NoClient}
           /\ \A i \in DOMAIN inbox : inbox[i].client \in Client \cup {NoClient}
<1>1. \A i \in DOMAIN inbox : inbox[i] \in Queued
  BY DEF TypeOK
<1>2. QED
  BY <1>1 DEF TypeOK, Task, Queued

\* A caller that had no request anywhere gets one, at the end of the mailbox.
LEMMA CallLinks ==
    ASSUME TypeOK, Linked, NEW c \in Client, Call(c)
    PROVE  Linked'
<1>1. call[c].reply # "waiting" /\ UNCHANGED <<up, busy>>
  BY DEF Call
<1>2. /\ inbox \in Seq(Queued) /\ DOMAIN inbox = 1..Len(inbox) /\ Len(inbox) \in Nat
      /\ call \in [Client -> [req : Request \cup {NoRequest},
                              reply : {"none", "waiting", "ok", "fail", "error"}]]
      /\ busy.client \in Client \cup {NoClient}
  BY DEF TypeOK, Task
<1>3. /\ busy.client # c /\ c # NoClient
      /\ \A i \in DOMAIN inbox : inbox[i].client # c
      /\ \A i \in DOMAIN inbox : inbox[i].client \in Client \cup {NoClient}
  <2>1. c # NoClient
    BY ActorAssumption
  <2>2. busy.client # c
    BY <1>1, <2>1 DEF Linked
  <2>3. ASSUME NEW i \in DOMAIN inbox, inbox[i].client = c PROVE FALSE
    <3>1. call[c] = [req |-> inbox[i].req, reply |-> "waiting"]
      BY <2>1, <2>3 DEF Linked
    <3>2. QED
      BY <1>1, <3>1
  <2>4. QED
    BY <2>1, <2>2, <2>3, QueuedClients
<1>4. CASE up
  <2>1. PICK req \in Request :
          /\ inbox' = Append(inbox, [client |-> c, req |-> req])
          /\ call' = [call EXCEPT ![c] = [req |-> req, reply |-> "waiting"]]
    BY <1>4 DEF Call
  <2> DEFINE q == [client |-> c, req |-> req]
             last == Len(inbox) + 1
  <2>2. q \in Queued
    BY DEF Queued
  <2>3. /\ DOMAIN inbox' = DOMAIN inbox \cup {last} /\ last \notin DOMAIN inbox
        /\ inbox'[last] = q
        /\ \A i \in DOMAIN inbox : inbox'[i] = inbox[i]
    BY <1>2, <2>1, <2>2, AppendProperties
  <2>4. /\ call'[c] = [req |-> req, reply |-> "waiting"]
        /\ \A x \in Client : x # c => call'[x] = call[x]
    BY <1>2, <2>1
  <2>5. q.client = c /\ q.req = req
    OBVIOUS
  <2> HIDE DEF q, last
  <2>6. \A i, j \in DOMAIN inbox' :
          inbox'[i].client = inbox'[j].client /\ inbox'[i].client # NoClient => i = j
    BY <1>3, <2>3, <2>5 DEF Linked
  <2>7. ASSUME NEW i \in DOMAIN inbox', inbox'[i].client # NoClient
        PROVE  /\ inbox'[i].client # busy'.client
               /\ call'[inbox'[i].client] = [req |-> inbox'[i].req, reply |-> "waiting"]
    <3>1. CASE i = last
      BY <1>1, <1>3, <2>3, <2>4, <2>5, <3>1
    <3>2. CASE i # last
      <4>1. i \in DOMAIN inbox /\ inbox'[i] = inbox[i]
        BY <2>3, <3>2
      <4>2. inbox[i].client \in Client /\ inbox[i].client # c
        BY <1>3, <2>7, <4>1
      <4>3. QED
        BY <1>1, <2>4, <2>7, <4>1, <4>2 DEF Linked
    <3>3. QED
      BY <3>1, <3>2
  <2>8. busy'.client # NoClient => busy'.task # "idle" /\ call'[busy'.client].reply = "waiting"
    BY <1>1, <1>2, <1>3, <2>4 DEF Linked
  <2>9. up' => \A x \in Client : call'[x].reply = "waiting" =>
          busy'.client = x \/ \E i \in DOMAIN inbox' : inbox'[i].client = x
    BY <1>1, <1>3, <2>3, <2>4, <2>5 DEF Linked
  <2>10. QED
    BY <2>6, <2>7, <2>8, <2>9 DEF Linked
<1>5. CASE ~up
  <2>1. inbox' = inbox /\ call' = [call EXCEPT ![c] = [req |-> NoRequest, reply |-> "error"]]
    BY <1>5 DEF Call
  <2>2. \A x \in Client : x # c => call'[x] = call[x]
    BY <1>2, <2>1
  <2>3. QED
    BY <1>1, <1>2, <1>3, <1>5, <2>1, <2>2 DEF Linked
<1>6. QED
  BY <1>4, <1>5

\* A caller that gives up leaves no trace of itself.
LEMMA TimeoutLinks ==
    ASSUME TypeOK, Linked, NEW c \in Client, ClientTimeout(c)
    PROVE  Linked'
<1>1. /\ call' = [call EXCEPT ![c] = [req |-> NoRequest, reply |-> "error"]]
      /\ inbox' = [i \in DOMAIN inbox |->
                    IF inbox[i].client = c THEN [client |-> NoClient, req |-> inbox[i].req]
                    ELSE inbox[i]]
      /\ UNCHANGED up
  BY DEF ClientTimeout
<1>2. /\ call \in [Client -> [req : Request \cup {NoRequest},
                              reply : {"none", "waiting", "ok", "fail", "error"}]]
      /\ busy.client \in Client \cup {NoClient} /\ c # NoClient
      /\ \A i \in DOMAIN inbox : inbox[i].client \in Client \cup {NoClient}
  BY QueuedClients, ActorAssumption DEF TypeOK
<1>3. /\ busy'.client = IF busy.client = c THEN NoClient ELSE busy.client
      /\ busy'.task = busy.task
  BY DEF ClientTimeout
<1>4. /\ DOMAIN inbox' = DOMAIN inbox
      /\ \A i \in DOMAIN inbox : /\ inbox[i].client = c => inbox'[i].client = NoClient
                                 /\ inbox[i].client # c => inbox'[i] = inbox[i]
  BY <1>1
<1>5. /\ call'[c].reply = "error"
      /\ \A x \in Client : x # c => call'[x] = call[x]
  BY <1>1, <1>2
<1>6. \A i, j \in DOMAIN inbox' :
          inbox'[i].client = inbox'[j].client /\ inbox'[i].client # NoClient => i = j
  BY <1>4 DEF Linked
<1>7. \A i \in DOMAIN inbox' : inbox'[i].client # NoClient =>
          /\ inbox'[i].client # busy'.client
          /\ call'[inbox'[i].client] = [req |-> inbox'[i].req, reply |-> "waiting"]
  BY <1>2, <1>3, <1>4, <1>5 DEF Linked
<1>8. busy'.client # NoClient => busy'.task # "idle" /\ call'[busy'.client].reply = "waiting"
  BY <1>2, <1>3, <1>5 DEF Linked
<1>9. up' => \A x \in Client : call'[x].reply = "waiting" =>
          busy'.client = x \/ \E i \in DOMAIN inbox' : inbox'[i].client = x
  BY <1>1, <1>3, <1>4, <1>5 DEF Linked
<1>10. QED
  BY <1>6, <1>7, <1>8, <1>9 DEF Linked

\* The request at the head of the mailbox leaves it: what stays is linked as it
\* was, and nobody but the head's caller can be missed.
LEMMA ServingLinks ==
    ASSUME TypeOK, Linked, inbox # <<>>
    PROVE  LET rest == Tail(inbox) IN
           /\ \A i, j \in DOMAIN rest :
                 rest[i].client = rest[j].client /\ rest[i].client # NoClient => i = j
           /\ \A i \in DOMAIN rest : rest[i].client # NoClient =>
                 /\ rest[i].client \in Client
                 /\ rest[i].client # busy.client /\ rest[i].client # Current.client
                 /\ call[rest[i].client] = [req |-> rest[i].req, reply |-> "waiting"]
           /\ Current.client # NoClient =>
                 /\ Current.client \in Client /\ Current.client # busy.client
                 /\ call[Current.client] = [req |-> Current.req, reply |-> "waiting"]
           /\ up => \A c \in Client : call[c].reply = "waiting" =>
                 \/ busy.client = c \/ Current.client = c
                 \/ \E i \in DOMAIN rest : rest[i].client = c
<1> DEFINE rest == Tail(inbox)
<1>1. inbox \in Seq(Queued)
  BY DEF TypeOK
<1>2. /\ Current = inbox[1] /\ 1 \in DOMAIN inbox
      /\ rest \in Seq(Queued)
      /\ Len(rest) = Len(inbox) - 1
      /\ \A i \in DOMAIN rest : i + 1 \in DOMAIN inbox /\ rest[i] = inbox[i + 1]
  BY <1>1, TakeMail DEF Current
<1>3. /\ DOMAIN rest = 1..Len(rest) /\ DOMAIN inbox = 1..Len(inbox)
      /\ Len(rest) \in Nat /\ Len(inbox) \in Nat
  BY <1>1, <1>2
<1> HIDE DEF rest
<1>4. \A i \in DOMAIN inbox : inbox[i].client \in Client \cup {NoClient}
  BY QueuedClients
<1>5. ASSUME NEW i \in DOMAIN inbox, i # 1
      PROVE  \E j \in DOMAIN rest : rest[j] = inbox[i]
  <2>1. i - 1 \in DOMAIN rest /\ (i - 1) + 1 = i
    BY <1>2, <1>3, <1>5
  <2>2. QED
    BY <1>2, <2>1
<1>6. ASSUME NEW i \in DOMAIN rest, NEW j \in DOMAIN rest,
             rest[i].client = rest[j].client, rest[i].client # NoClient
      PROVE  i = j
  <2>1. i + 1 = j + 1
    BY <1>2, <1>6 DEF Linked
  <2>2. QED
    BY <1>3, <2>1
<1>7. ASSUME NEW i \in DOMAIN rest, rest[i].client # NoClient
      PROVE  /\ rest[i].client \in Client
             /\ rest[i].client # busy.client /\ rest[i].client # Current.client
             /\ call[rest[i].client] = [req |-> rest[i].req, reply |-> "waiting"]
  <2>1. i + 1 # 1
    BY <1>3
  <2>2. QED
    BY <1>2, <1>4, <1>7, <2>1 DEF Linked
<1>8. Current.client # NoClient =>
          /\ Current.client \in Client /\ Current.client # busy.client
          /\ call[Current.client] = [req |-> Current.req, reply |-> "waiting"]
  BY <1>2, <1>4 DEF Linked
<1>9. up => \A c \in Client : call[c].reply = "waiting" =>
          \/ busy.client = c \/ Current.client = c
          \/ \E i \in DOMAIN rest : rest[i].client = c
  BY <1>2, <1>5 DEF Linked
<1>10. QED
  BY <1>6, <1>7, <1>8, <1>9 DEF rest

\* Every step keeps requests and Calls together.
LEMMA LinkedKeeps ==
    ASSUME IInv, Linked, Off, [AppNext]_appVars
    PROVE  Linked'
<1>1. /\ TypeOK /\ busy.client \in Client \cup {NoClient}
      /\ call \in [Client -> [req : Request \cup {NoRequest},
                              reply : {"none", "waiting", "ok", "fail", "error"}]]
      /\ \A i \in DOMAIN inbox : inbox[i].client \in Client \cup {NoClient}
  <2>1. TypeOK
    BY DEF IInv
  <2>2. QED
    BY <2>1, QueuedClients DEF TypeOK
<1>2. CASE AnswersAtOnce
  <2>1. /\ inbox # <<>> /\ inbox' = Tail(inbox) /\ UNCHANGED <<up, busy>>
        /\ \E result \in {"ok", "fail"} : call' = Answered(Current.client, result)
    BY <1>2 DEF AnswersAtOnce
  <2>2. Current.client # NoClient => Current.client \in Client
    BY <1>1, <2>1, ServingLinks
  <2>3. /\ \A x \in Client : x # Current.client => call'[x] = call[x]
        /\ Current.client # NoClient => call'[Current.client].reply # "waiting"
    BY <1>1, <2>1, <2>2 DEF Answered
  <2> DEFINE rest == Tail(inbox)
  <2>4. /\ \A i, j \in DOMAIN rest :
              rest[i].client = rest[j].client /\ rest[i].client # NoClient => i = j
        /\ \A i \in DOMAIN rest : rest[i].client # NoClient =>
              /\ rest[i].client \in Client
              /\ rest[i].client # busy.client /\ rest[i].client # Current.client
              /\ call[rest[i].client] = [req |-> rest[i].req, reply |-> "waiting"]
        /\ Current.client # NoClient => Current.client # busy.client
        /\ up => \A c \in Client : call[c].reply = "waiting" =>
              \/ busy.client = c \/ Current.client = c
              \/ \E i \in DOMAIN rest : rest[i].client = c
    BY <1>1, <2>1, ServingLinks
  <2>5. inbox' = rest
    BY <2>1
  <2> HIDE DEF rest
  <2>6. busy'.client # NoClient => busy'.task # "idle" /\ call'[busy'.client].reply = "waiting"
    BY <1>1, <2>1, <2>3, <2>4 DEF Linked
  <2>7. up' => \A c \in Client : call'[c].reply = "waiting" =>
          busy'.client = c \/ \E i \in DOMAIN inbox' : inbox'[i].client = c
    BY <2>1, <2>3, <2>4, <2>5, ActorAssumption
  <2>8. \A i \in DOMAIN inbox' : inbox'[i].client # NoClient =>
          /\ inbox'[i].client # busy'.client
          /\ call'[inbox'[i].client] = [req |-> inbox'[i].req, reply |-> "waiting"]
    BY <2>1, <2>3, <2>4, <2>5
  <2>9. QED
    BY <2>4, <2>5, <2>6, <2>7, <2>8 DEF Linked
<1>3. CASE Begins
  <2>1. /\ inbox # <<>> /\ inbox' = Tail(inbox) /\ UNCHANGED <<up, call>>
        /\ busy'.client = Current.client /\ busy.task = "idle" /\ busy'.task # "idle"
    BY <1>3 DEF Begins
  <2>2. busy.client = NoClient
    BY <2>1 DEF Linked
  <2> DEFINE rest == Tail(inbox)
  <2>3. /\ \A i, j \in DOMAIN rest :
              rest[i].client = rest[j].client /\ rest[i].client # NoClient => i = j
        /\ \A i \in DOMAIN rest : rest[i].client # NoClient =>
              /\ rest[i].client # Current.client
              /\ call[rest[i].client] = [req |-> rest[i].req, reply |-> "waiting"]
        /\ Current.client # NoClient => call[Current.client].reply = "waiting"
        /\ up => \A c \in Client : call[c].reply = "waiting" =>
              \/ busy.client = c \/ Current.client = c
              \/ \E i \in DOMAIN rest : rest[i].client = c
    BY <1>1, <2>1, ServingLinks
  <2>4. inbox' = rest
    BY <2>1
  <2> HIDE DEF rest
  <2>5. up' => \A c \in Client : call'[c].reply = "waiting" =>
          busy'.client = c \/ \E i \in DOMAIN inbox' : inbox'[i].client = c
    BY <2>1, <2>2, <2>3, <2>4, ActorAssumption
  <2>6. QED
    BY <2>1, <2>3, <2>4, <2>5 DEF Linked
<1>4. CASE Continues
  BY <1>4 DEF Continues, Linked
<1>5. CASE Ends
  <2>1. /\ UNCHANGED <<up, inbox>> /\ busy'.client = NoClient
        /\ \E result \in {"ok", "fail"} : call' = Answered(busy.client, result)
    BY <1>5 DEF Ends, Idle
  <2>2. /\ \A x \in Client : x # busy.client => call'[x] = call[x]
        /\ busy.client # NoClient => call'[busy.client].reply # "waiting"
    BY <1>1, <2>1 DEF Answered
  <2>3. QED
    BY <1>1, <2>1, <2>2 DEF Linked
<1>6. CASE Falls \/ StopRegistry \/ ProcessGone
  <2>1. up' = FALSE /\ inbox' = <<>> /\ busy'.client = NoClient
    BY <1>6 DEF Falls, StopRegistry, Terminate, ProcessGone, Idle
  <2>2. QED
    BY <2>1 DEF Linked
<1>7. CASE [Next]_vars
  BY <1>1, <1>2, <1>3, <1>4, <1>5, <1>6, <1>7, StepsOfARequest, CallLinks, TimeoutLinks
<1>8. ASSUME NEW p \in Pid, Dies(p) PROVE Linked'
  BY <1>8 DEF Dies, Linked
<1>9. CASE Starts
  BY <1>9 DEF Starts, Linked, Off
<1>10. QED
  BY <1>6, <1>7, <1>8, <1>9, StepsOfTheProgram

\* Without a registry nobody begins to wait, and none starts by itself.
LEMMA NobodyWaitsForNothing ==
    ASSUME IInv, [Next]_vars, ~up
    PROVE  /\ ~up'
           /\ \A c \in Client : call'[c].reply = "waiting" => call[c].reply = "waiting"
<1>1. call \in [Client -> [req : Request \cup {NoRequest},
                           reply : {"none", "waiting", "ok", "fail", "error"}]]
  BY DEF IInv, TypeOK
<1>2. ASSUME NEW x \in Client, Call(x) \/ ClientTimeout(x)
      PROVE  up' = up /\ call' = [call EXCEPT ![x] = [req |-> NoRequest, reply |-> "error"]]
  BY <1>2 DEF Call, ClientTimeout
<1>3. CASE AnswersAtOnce \/ Ends
  <2>1. UNCHANGED up
    BY <1>3 DEF AnswersAtOnce, Ends
  <2>2. \E x : \E result \in {"ok", "fail"} : call' = Answered(x, result)
    BY <1>3 DEF AnswersAtOnce, Ends
  <2>3. QED
    BY <1>1, <2>1, <2>2 DEF Answered
<1>4. CASE Begins \/ Continues \/ Falls
  BY <1>4 DEF Begins, Continues, Falls
<1>5. QED
  BY <1>1, <1>2, <1>3, <1>4, StepsOfARequest

\* A program that does not run has no registry, and nobody waits for it.
LEMMA OffKeeps ==
    ASSUME IInv, Off, [AppNext]_appVars
    PROVE  Off'
<1>1. CASE ProcessGone
  <2>1. /\ up' = FALSE
        /\ call' = [c \in Client |-> IF call[c].reply = "waiting"
                                     THEN [req |-> NoRequest, reply |-> "error"] ELSE call[c]]
    BY <1>1 DEF ProcessGone
  <2>2. QED
    BY <2>1 DEF Off
<1>2. CASE main' = "off" /\ ~ProcessGone
  <2>1. main = "off"
    BY <1>2 DEF AppNext, Submit, GiveUp, RunRegistry, RegistryCallTimeout, RunRoom, LoseRoom, StopRoom,
           StopRegistry, Boot, Signal, ServerFails, Drain, DrainEnds, Return, Kill, appVars
  <2>2. ~up /\ \A c \in Client : call[c].reply # "waiting"
    BY <2>1 DEF Off
  <2>3. CASE [Next]_vars
    BY <2>2, <2>3, NobodyWaitsForNothing DEF Off
  <2>4. CASE (\E p \in Pid : Dies(p)) \/ StopRegistry
    BY <2>2, <2>4 DEF Dies, StopRegistry, Off
  <2>5. ~Starts
    BY <1>2 DEF Starts
  <2>6. QED
    BY <1>2, <2>3, <2>4, <2>5, StepsOfTheProgram
<1>3. QED
  BY <1>1, <1>2 DEF Off

\* A caller's request is in one place, once, as long as he waits, and nowhere
\* else when he does not.
LEMMA LinkedIsOneRequest ==
    ASSUME TypeOK, Linked
    PROVE  OneRequestPerCall
<1> SUFFICES ASSUME up, NEW c \in Client
             PROVE  LET queued == {i \in DOMAIN inbox : inbox[i].client = c}
                    IN  IF call[c].reply = "waiting"
                        THEN Cardinality(queued) + (IF busy.client = c THEN 1 ELSE 0) = 1
                        ELSE queued = {} /\ busy.client # c
  BY DEF OneRequestPerCall
<1> DEFINE queued == {i \in DOMAIN inbox : inbox[i].client = c}
<1>1. c # NoClient
  BY ActorAssumption
<1>2. ASSUME NEW i \in queued
      PROVE  queued = {i} /\ busy.client # c /\ call[c].reply = "waiting"
  <2>1. i \in DOMAIN inbox /\ inbox[i].client = c
    OBVIOUS
  <2>2. call[c] = [req |-> inbox[i].req, reply |-> "waiting"] /\ busy.client # c
    BY <1>1, <2>1 DEF Linked
  <2>3. \A j \in queued : j = i
    BY <1>1, <2>1 DEF Linked
  <2>4. QED
    BY <2>2, <2>3
<1>3. queued # {} => Cardinality(queued) = 1 /\ busy.client # c /\ call[c].reply = "waiting"
  BY <1>2, FS_Singleton
<1>4. queued = {} => Cardinality(queued) = 0
  BY FS_EmptySet
<1>5. busy.client = c => call[c].reply = "waiting"
  BY <1>1 DEF Linked
<1>6. call[c].reply = "waiting" => busy.client = c \/ queued # {}
  BY DEF Linked
<1> HIDE DEF queued
<1>7. IF call[c].reply = "waiting"
      THEN Cardinality(queued) + (IF busy.client = c THEN 1 ELSE 0) = 1
      ELSE queued = {} /\ busy.client # c
  BY <1>3, <1>4, <1>5, <1>6
<1>8. QED
  BY <1>7 DEF queued

-----------------------------------------------------------------------------
(* Where requests are addressed.                                            *)

\* A command in a room actor's mailbox is about that room, and the mail of a
\* routed request is the request.
MailAddressed == \A p \in Pid : \A i \in DOMAIN proc[p].inbox :
    LET mail == proc[p].inbox[i]
    IN  /\ mail.req.op # "drain" => TrimSpace[mail.req.room] = proc[p].room
        /\ mail.awaited /\ busy.task = "route" /\ busy.client # NoClient =>
              mail.req = call[busy.client].req

\* The registry waits for the room its caller named, or to do what it was told.
TaskAddressed == busy.client # NoClient =>
    LET req == call[busy.client].req
    IN  /\ busy.task = "route" =>
              TrimSpace[req.room] \in Room /\ rooms[TrimSpace[req.room]] = busy.pid
        /\ busy.task \in {"unload", "drain"} => req.op = busy.task

\* ensureRoom returns the actor the map has for the room that was named.
LEMMA EnsureRoomAddress ==
    ASSUME TypeOK, NEW id, TrimSpace[id] \in Room \cup {Blank}, NEW known,
           NEW e \in ensureRoom(id, known), e.pid # NoPid
    PROVE  TrimSpace[id] \in Room /\ e.rooms[TrimSpace[id]] = e.pid
<1> DEFINE r == TrimSpace[id]
           new == CHOOSE p \in FreePid : TRUE
<1>1. r # Blank /\ r \in Room
  BY DEF ensureRoom, Nowhere
<1>2. CASE e = [rooms |-> rooms, proc |-> proc, pid |-> rooms[r]]
  BY <1>1, <1>2
<1>3. CASE e = [rooms |-> [rooms EXCEPT ![r] = new],
                proc |-> [proc EXCEPT ![new] = Spawned(r)], pid |-> new]
  BY <1>1, <1>3 DEF TypeOK
<1>4. e # Nowhere
  BY DEF Nowhere
<1>5. QED
  BY <1>1, <1>2, <1>3, <1>4 DEF ensureRoom, Spawned

\* Mail that is new in a mailbox is the request that was asked.
LEMMA AskedMail ==
    ASSUME NEW pr \in [Pid -> Process], NEW p \in Pid, NEW req \in Request \cup {DrainRequest},
           NEW x \in Pid, NEW i \in DOMAIN Asked(pr, p, req)[x].inbox
    PROVE  /\ Asked(pr, p, req)[x].room = pr[x].room
           /\ \/ x = p /\ Asked(pr, p, req)[x].inbox[i] = [req |-> req, awaited |-> TRUE]
              \/ /\ i \in DOMAIN pr[x].inbox
                 /\ Asked(pr, p, req)[x].inbox[i] = pr[x].inbox[i]
<1> DEFINE mail == [req |-> req, awaited |-> TRUE]
<1>1. mail \in Mail
  BY DEF Mail
<1>2. pr[p] \in Process /\ pr[p].inbox \in Seq(Mail)
  BY DEF Process
<1>3. /\ Len(Append(pr[p].inbox, mail)) = Len(pr[p].inbox) + 1
      /\ \A j \in 1..Len(pr[p].inbox) : Append(pr[p].inbox, mail)[j] = pr[p].inbox[j]
      /\ Append(pr[p].inbox, mail)[Len(pr[p].inbox) + 1] = mail
      /\ DOMAIN Append(pr[p].inbox, mail) = 1..(Len(pr[p].inbox) + 1)
      /\ DOMAIN pr[p].inbox = 1..Len(pr[p].inbox) /\ Len(pr[p].inbox) \in Nat
  BY <1>1, <1>2, AppendProperties, LenProperties
<1>4. CASE x = p
  <2>1. /\ Asked(pr, p, req)[x].room = pr[p].room
        /\ Asked(pr, p, req)[x].inbox = Append(pr[p].inbox, mail)
    BY <1>4 DEF Asked, WithMail
  <2>2. i \in 1..(Len(pr[p].inbox) + 1)
    BY <1>3, <2>1
  <2>3. i \in 1..Len(pr[p].inbox) \/ i = Len(pr[p].inbox) + 1
    BY <1>3, <2>2
  <2>4. QED
    BY <1>3, <1>4, <2>1, <2>3
<1>5. CASE x # p
  <2>1. Asked(pr, p, req)[x] = pr[x]
    BY <1>5 DEF Asked
  <2>2. QED
    BY <2>1
<1>6. QED
  BY <1>4, <1>5

\* What is in a mailbox was there before, for the same actor; nobody waits for
\* it who did not.
MailStays == \A p \in Pid : \A i \in DOMAIN proc'[p].inbox :
    /\ proc'[p].room = proc[p].room
    /\ \E j \in DOMAIN proc[p].inbox :
          /\ proc'[p].inbox[i].req = proc[p].inbox[j].req
          /\ proc'[p].inbox[i].awaited => proc[p].inbox[j].awaited

\* Mail comes from the registry that asks, and from nowhere else.
LEMMA OnlyAskingSendsMail ==
    ASSUME IInv, [AppNext]_appVars, ~RouteToRoom, ~UnloadRoom, ~DrainNext
    PROVE  MailStays
<1>1. /\ TypeOK /\ proc \in [Pid -> Process] /\ rooms \in ActorMap /\ Dead.inbox = <<>>
      /\ \A p \in Pid : proc[p].inbox \in Seq(Mail)
  BY DEF IInv, TypeOK, ActorMap, Process, Dead
<1>2. CASE UNCHANGED proc
  BY <1>2 DEF MailStays
<1>3. CASE CreateRoom
  <2>1. inbox # <<>> /\ Current.req.room \in RoomID
    BY <1>1, <1>3, ServedIsRequest DEF CreateRoom, Serve
  <2>2. TrimSpace[TrimSpace[Current.req.room]] \in Room \cup {Blank}
    BY <2>1, TrimRoom, TrimAssumption
  <2>3. CASE proc' = proc
    BY <2>3 DEF MailStays
  <2>4. ASSUME NEW known, NEW e \in ensureRoom(TrimSpace[Current.req.room], known), proc' = e.proc
        PROVE  MailStays
    <3>1. CASE ChangesNothing(e)
      BY <2>4, <3>1 DEF ChangesNothing, MailStays
    <3>2. ASSUME NEW r \in Room, NEW p \in Pid, Spawns(e, r, p) PROVE MailStays
      <4>1. \A x \in Pid : proc'[x] = IF x = p THEN Spawned(r) ELSE proc[x]
        BY <1>1, <2>4, <3>2 DEF Spawns
      <4>2. Spawned(r).inbox = <<>>
        BY DEF Spawned
      <4>3. QED
        BY <4>1, <4>2 DEF MailStays
    <3>3. QED
      BY <1>1, <2>2, <2>4, <3>1, <3>2, EnsureRoomEither
  <2>5. proc' = proc \/ \E known : \E e \in ensureRoom(TrimSpace[Current.req.room], known) : proc' = e.proc
    BY <1>3 DEF CreateRoom, Nowhere
  <2>6. QED
    BY <2>3, <2>4, <2>5
<1>4. CASE UnloadReturns \/ DrainFinish
  <2>1. \A p \in Pid : /\ ToldToExit(proc[p]).inbox = proc[p].inbox
                       /\ ToldToExit(proc[p]).room = proc[p].room
    BY DEF ToldToExit
  <2>2. \A p \in Pid : proc'[p] \in {proc[p], ToldToExit(proc[p])}
    BY <1>1, <1>4 DEF UnloadReturns, DrainFinish
  <2>3. \A p \in Pid : proc'[p].inbox = proc[p].inbox /\ proc'[p].room = proc[p].room
    BY <2>1, <2>2
  <2>4. QED
    BY <2>3 DEF MailStays
<1>5. CASE CallTimeout
  <2>1. proc' = [proc EXCEPT ![busy.pid] = WithMail(@, Abandoned(@.inbox))]
    BY <1>5 DEF CallTimeout
  <2>2. \A p \in Pid : /\ proc'[p].room = proc[p].room
                       /\ proc'[p].inbox = proc[p].inbox \/ proc'[p].inbox = Abandoned(proc[p].inbox)
    BY <1>1, <2>1 DEF WithMail
  <2>3. \A p \in Pid : /\ DOMAIN Abandoned(proc[p].inbox) = DOMAIN proc[p].inbox
                       /\ \A i \in DOMAIN proc[p].inbox :
                            /\ Abandoned(proc[p].inbox)[i].req = proc[p].inbox[i].req
                            /\ ~Abandoned(proc[p].inbox)[i].awaited
    BY DEF Abandoned
  <2>4. QED
    BY <2>2, <2>3 DEF MailStays
<1>6. ASSUME NEW p \in Pid, HandleCall(p) PROVE MailStays
  <2>1. proc[p].inbox # <<>>
    BY <1>6 DEF HandleCall
  <2>2. \A i \in DOMAIN Tail(proc[p].inbox) :
          i + 1 \in DOMAIN proc[p].inbox /\ Tail(proc[p].inbox)[i] = proc[p].inbox[i + 1]
    BY <1>1, <2>1, TakeMail
  <2>3. /\ proc'[p].room = proc[p].room /\ proc'[p].inbox = Tail(proc[p].inbox)
        /\ \A x \in Pid : x # p => proc'[x] = proc[x]
    BY <1>1, <1>6 DEF HandleCall
  <2>4. \A i \in DOMAIN proc'[p].inbox : \E j \in DOMAIN proc[p].inbox :
          proc'[p].inbox[i] = proc[p].inbox[j]
    BY <2>2, <2>3
  <2>5. ASSUME NEW x \in Pid, NEW i \in DOMAIN proc'[x].inbox
        PROVE  /\ proc'[x].room = proc[x].room
               /\ \E j \in DOMAIN proc[x].inbox :
                     /\ proc'[x].inbox[i].req = proc[x].inbox[j].req
                     /\ proc'[x].inbox[i].awaited => proc[x].inbox[j].awaited
    <3>1. CASE x = p
      <4>1. PICK j \in DOMAIN proc[p].inbox : proc'[p].inbox[i] = proc[p].inbox[j]
        BY <2>4, <3>1
      <4>2. QED
        BY <2>3, <3>1, <4>1
    <3>2. CASE x # p
      <4>1. proc'[x] = proc[x]
        BY <2>3, <3>2
      <4>2. QED
        BY <4>1
    <3>3. QED
      BY <3>1, <3>2
  <2>6. QED
    BY <2>5 DEF MailStays
<1>7. ASSUME NEW p \in Pid, Dies(p) PROVE MailStays
  <2>1. \A x \in Pid : proc'[x] = IF x = p THEN Dead ELSE proc[x]
    BY <1>1, <1>7 DEF Dies
  <2>2. QED
    BY <1>1, <2>1 DEF MailStays
<1>8. CASE ProcessGone
  <2>1. \A x \in Pid : proc'[x] = Dead
    BY <1>8 DEF ProcessGone
  <2>2. QED
    BY <1>1, <2>1 DEF MailStays
<1>9. StopRegistry \/ Starts => UNCHANGED proc
  BY DEF StopRegistry, Starts
<1>10. \A c \in Client : Call(c) \/ ClientTimeout(c) => UNCHANGED proc
  BY DEF Call, ClientTimeout
<1>11. (\/ Refuse \/ RouteNowhere \/ RouteToDeadRoom \/ Query \/ UnloadNothing \/ UnloadDead
        \/ DrainRegistry \/ RouteReturns \/ DrainReturns) => UNCHANGED proc
  BY DEF Refuse, RouteNowhere, RouteToDeadRoom, Query, UnloadNothing, UnloadDead,
         DrainRegistry, RouteReturns, DrainReturns
<1>12. ASSUME NEW p \in Pid, Exit(p) \/ Crash(p) PROVE Dies(p)
  BY <1>12 DEF Exit, Crash, Dies
<1>13. CASE RegistryStep
  BY <1>2, <1>3, <1>4, <1>11, <1>13 DEF RegistryStep
<1>14. CASE [Next]_vars
  BY <1>2, <1>5, <1>6, <1>7, <1>10, <1>12, <1>13, <1>14 DEF Next, vars
<1>15. QED
  BY <1>2, <1>7, <1>8, <1>9, <1>14, StepsOfTheProgram

\* Whom the registry waits for on whose behalf changes only when it serves the
\* next request.
LEMMA WaitingStays ==
    ASSUME IInv, Linked, [AppNext]_appVars, busy'.client # NoClient, busy'.task # "idle",
           ~RouteToRoom, ~UnloadRoom, ~DrainRegistry
    PROVE  /\ busy'.client = busy.client /\ busy'.task = busy.task
           /\ call'[busy.client] = call[busy.client]
           /\ busy.task = "route" => busy'.pid = busy.pid /\ rooms' = rooms
           /\ busy'.answer \in {busy.answer, "none"} \/ \E p \in Pid : HandleCall(p)
<1>1. /\ TypeOK /\ busy.client \in Client \cup {NoClient}
      /\ call \in [Client -> [req : Request \cup {NoRequest},
                              reply : {"none", "waiting", "ok", "fail", "error"}]]
  BY DEF IInv, TypeOK, Task
<1>2. ASSUME NEW c \in Client, Call(c)
      PROVE  UNCHANGED <<busy, rooms>> /\ call'[busy.client] = call[busy.client]
  <2>1. UNCHANGED <<busy, rooms>> /\ call[c].reply # "waiting"
    BY <1>2 DEF Call
  <2>2. c # busy.client
    BY <2>1, ActorAssumption DEF Linked
  <2>3. \E entry : call' = [call EXCEPT ![c] = entry]
    BY <1>2 DEF Call
  <2>4. QED
    BY <1>1, <2>1, <2>2, <2>3
<1>3. ASSUME NEW c \in Client, ClientTimeout(c)
      PROVE  UNCHANGED <<busy, rooms>> /\ call'[busy.client] = call[busy.client]
  <2>1. busy.client # c
    BY <1>3 DEF ClientTimeout
  <2>2. /\ UNCHANGED <<busy, rooms>>
        /\ call' = [call EXCEPT ![c] = [req |-> NoRequest, reply |-> "error"]]
    BY <1>3, <2>1 DEF ClientTimeout
  <2>3. QED
    BY <1>1, <2>1, <2>2
<1>4. ~AnswersAtOnce
  BY DEF AnswersAtOnce
<1>5. ~Ends /\ ~Falls /\ ~StopRegistry /\ ~ProcessGone
  BY DEF Ends, Falls, StopRegistry, ProcessGone, Terminate, Idle
<1>6. CASE Continues
  BY <1>6 DEF Continues
<1>7. (\E p \in Pid : Dies(p)) \/ Starts => UNCHANGED <<busy, rooms, call>>
  BY DEF Dies, Starts
<1>8. QED
  BY <1>2, <1>3, <1>4, <1>5, <1>6, <1>7, StepsOfTheProgram, StepsOfARequest

\* A command that reaches a room actor was addressed to its room.
LEMMA RouteAddresses ==
    ASSUME AppInv, Linked, MailAddressed, RouteToRoom
    PROVE  MailAddressed' /\ TaskAddressed'
<1>1. /\ TypeOK /\ inbox # <<>> /\ Current.req \in Request /\ Current.req.room \in RoomID
      /\ busy.task = "idle"
  <2>1. TypeOK /\ inbox # <<>> /\ busy.task = "idle"
    BY DEF RouteToRoom, Serve, AppInv, IInv
  <2>2. QED
    BY <2>1, ServedIsRequest
<1> DEFINE r == TrimSpace[Current.req.room]
<1>2. r \in Room \cup {Blank}
  BY <1>1, TrimRoom
<1>3. PICK e \in ensureRoom(Current.req.room, created) :
        /\ e.pid # NoPid /\ e.proc[e.pid].alive /\ rooms' = e.rooms
        /\ proc' = Asked(e.proc, e.pid, Current.req)
        /\ busy' = Waiting("route", Current.client, e.pid, {})
  BY DEF RouteToRoom, Ask, Asked
<1>4. Sound(rooms, proc) /\ Unawaited(proc)
  BY <1>1, IdleWaitsForNobody DEF AppInv, IInv, Structure
<1>5. /\ e.proc \in [Pid -> Process] /\ e.pid \in Pid
      /\ Sound(e.rooms, e.proc) /\ Unawaited(e.proc)
  BY <1>1, <1>2, <1>3, <1>4, EnsureRoomKeeps, ActorAssumption
<1>6. r \in Room /\ e.rooms[r] = e.pid
  BY <1>1, <1>2, <1>3, EnsureRoomAddress
<1>7. e.proc[e.pid].room = r
  BY <1>3, <1>5, <1>6 DEF Sound
<1>8. \A p \in Pid : \A i \in DOMAIN e.proc[p].inbox :
        e.proc[p].inbox[i].req.op # "drain" => TrimSpace[e.proc[p].inbox[i].req.room] = e.proc[p].room
  <2>1. CASE ChangesNothing(e)
    BY <2>1 DEF ChangesNothing, MailAddressed
  <2>2. ASSUME NEW x \in Room, NEW q \in Pid, Spawns(e, x, q),
               NEW p \in Pid, NEW i \in DOMAIN e.proc[p].inbox
        PROVE  e.proc[p] = proc[p]
    <3>1. Spawned(x).inbox = <<>>
      BY DEF Spawned
    <3>2. e.proc[p] = IF p = q THEN Spawned(x) ELSE proc[p]
      BY <1>1, <2>2 DEF Spawns, TypeOK
    <3>3. QED
      BY <2>2, <3>1, <3>2
  <2>3. QED
    BY <1>1, <1>2, <2>1, <2>2, EnsureRoomEither DEF MailAddressed
<1>9. /\ busy'.task = "route" /\ busy'.client = Current.client /\ busy'.pid = e.pid
  BY <1>3 DEF Waiting
<1>10. Current.client # NoClient => call'[Current.client].req = Current.req
  <2>1. call' = call
    BY DEF RouteToRoom
  <2>2. Current.client # NoClient => call[Current.client] = [req |-> Current.req, reply |-> "waiting"]
    BY <1>1, ServingLinks
  <2>3. QED
    BY <2>1, <2>2
<1> HIDE DEF r
<1>11. ASSUME NEW p \in Pid, NEW i \in DOMAIN proc'[p].inbox
       PROVE  LET mail == proc'[p].inbox[i]
              IN  /\ mail.req.op # "drain" => TrimSpace[mail.req.room] = proc'[p].room
                  /\ mail.awaited => mail.req = Current.req
  <2>1. /\ proc'[p].room = e.proc[p].room
        /\ \/ p = e.pid /\ proc'[p].inbox[i] = [req |-> Current.req, awaited |-> TRUE]
           \/ /\ i \in DOMAIN e.proc[p].inbox
              /\ proc'[p].inbox[i] = e.proc[p].inbox[i]
    BY <1>1, <1>3, <1>5, <1>11, AskedMail
  <2>2. CASE p = e.pid /\ proc'[p].inbox[i] = [req |-> Current.req, awaited |-> TRUE]
    BY <1>7, <2>1, <2>2 DEF r
  <2>3. CASE i \in DOMAIN e.proc[p].inbox /\ proc'[p].inbox[i] = e.proc[p].inbox[i]
    BY <1>5, <1>8, <2>1, <2>3 DEF Unawaited
  <2>4. QED
    BY <2>1, <2>2, <2>3
<1>12. MailAddressed'
  BY <1>9, <1>10, <1>11 DEF MailAddressed
<1>13. TaskAddressed'
  BY <1>3, <1>6, <1>9, <1>10 DEF TaskAddressed, r
<1>14. QED
  BY <1>12, <1>13

\* Unload and drain put nothing but drains into mailboxes.
LEMMA DrainAddresses ==
    ASSUME AppInv, MailAddressed, UnloadRoom \/ DrainNext
    PROVE  /\ MailAddressed'
           /\ busy'.task = busy.task \/ busy'.task = "unload"
<1>1. proc \in [Pid -> Process] /\ rooms \in ActorMap
  BY DEF AppInv, IInv, TypeOK, ActorMap
<1>2. busy'.task \in {"unload", "drain"} /\ (busy'.task = busy.task \/ busy'.task = "unload")
  BY DEF UnloadRoom, DrainNext, Waiting
<1>3. CASE proc' = proc
  BY <1>2, <1>3 DEF MailAddressed
<1>4. ASSUME NEW q \in Pid, proc' = Asked(proc, q, DrainRequest),
             NEW p \in Pid, NEW i \in DOMAIN proc'[p].inbox,
             proc'[p].inbox[i].req.op # "drain"
      PROVE  TrimSpace[proc'[p].inbox[i].req.room] = proc'[p].room
  <2>1. /\ proc'[p].room = proc[p].room
        /\ \/ proc'[p].inbox[i] = [req |-> DrainRequest, awaited |-> TRUE]
           \/ /\ i \in DOMAIN proc[p].inbox
              /\ proc'[p].inbox[i] = proc[p].inbox[i]
    BY <1>1, <1>4, AskedMail
  <2>2. DrainRequest.op = "drain"
    BY DEF DrainRequest
  <2>3. QED
    BY <1>4, <2>1, <2>2 DEF MailAddressed
<1>5. proc' = proc \/ \E q \in Pid : proc' = Asked(proc, q, DrainRequest)
  <2>1. CASE UnloadRoom
    <3>1. /\ Current.req.room \in Mapped
          /\ proc' = Asked(proc, rooms[Current.req.room], DrainRequest)
      BY <2>1 DEF UnloadRoom, Ask, Asked
    <3>2. QED
      BY <1>1, <3>1 DEF Mapped, ActorMap
  <2>2. CASE DrainNext
    <3>1. PICK r \in busy.todo : proc' = proc \/ proc' = Asked(proc, rooms[r], DrainRequest)
      BY <2>2 DEF DrainNext, Ask, Asked
    <3>2. r \in Mapped
      BY <2>2, <3>1 DEF DrainNext, AppInv, IInv, Structure, BusySound
    <3>3. QED
      BY <1>1, <3>1, <3>2 DEF Mapped, ActorMap
  <2>3. QED
    BY <2>1, <2>2
<1>6. MailAddressed'
  BY <1>2, <1>3, <1>4, <1>5 DEF MailAddressed
<1>7. QED
  BY <1>2, <1>6

\* Every step leaves requests where they were addressed.
LEMMA AddressedKeeps ==
    ASSUME AppInv, Linked, MailAddressed, TaskAddressed, [AppNext]_appVars
    PROVE  MailAddressed' /\ TaskAddressed'
<1>1. TypeOK
  BY DEF AppInv, IInv
<1>2. CASE RouteToRoom
  BY <1>2, RouteAddresses
<1>3. CASE UnloadRoom \/ DrainRegistry
  <2>1. /\ inbox # <<>> /\ call' = call /\ busy'.client = Current.client
        /\ busy'.task = Current.req.op /\ busy'.task # "route"
    BY <1>3 DEF UnloadRoom, DrainRegistry, Serve, Waiting
  <2>2. Current.client # NoClient => call[Current.client] = [req |-> Current.req, reply |-> "waiting"]
    BY <1>1, <2>1, ServingLinks
  <2>3. TaskAddressed'
    BY <2>1, <2>2 DEF TaskAddressed
  <2>4. MailAddressed'
    <3>1. CASE UnloadRoom
      BY <3>1, DrainAddresses
    <3>2. CASE DrainRegistry
      <4>1. proc' = proc
        BY <3>2 DEF DrainRegistry
      <4>2. QED
        BY <2>1, <4>1 DEF MailAddressed
    <3>3. QED
      BY <1>3, <3>1, <3>2
  <2>5. QED
    BY <2>3, <2>4
<1>4. CASE ~RouteToRoom /\ ~UnloadRoom /\ ~DrainRegistry
  <2>1. busy'.client # NoClient /\ busy'.task # "idle" =>
          /\ busy'.client = busy.client /\ busy'.task = busy.task
          /\ call'[busy.client] = call[busy.client]
          /\ busy.task = "route" => busy'.pid = busy.pid /\ rooms' = rooms
    BY <1>4, WaitingStays DEF AppInv
  <2>2. TaskAddressed'
    BY <2>1 DEF TaskAddressed
  <2>3. CASE DrainNext
    BY <2>2, <2>3, DrainAddresses
  <2>4. CASE ~DrainNext
    <3>1. MailStays
      BY <1>4, <2>4, OnlyAskingSendsMail DEF AppInv
    <3>2. ASSUME NEW p \in Pid, NEW i \in DOMAIN proc'[p].inbox
          PROVE  LET mail == proc'[p].inbox[i]
                 IN  /\ mail.req.op # "drain" => TrimSpace[mail.req.room] = proc'[p].room
                     /\ mail.awaited /\ busy'.task = "route" /\ busy'.client # NoClient =>
                           mail.req = call'[busy'.client].req
      <4>1. PICK j \in DOMAIN proc[p].inbox :
              /\ proc'[p].room = proc[p].room
              /\ proc'[p].inbox[i].req = proc[p].inbox[j].req
              /\ proc'[p].inbox[i].awaited => proc[p].inbox[j].awaited
        BY <3>1, <3>2 DEF MailStays
      <4>2. QED
        BY <2>1, <4>1 DEF MailAddressed
    <3>3. MailAddressed'
      BY <3>2 DEF MailAddressed
    <3>4. QED
      BY <2>2, <3>3
  <2>5. QED
    BY <2>3, <2>4
<1>5. QED
  BY <1>2, <1>3, <1>4

-----------------------------------------------------------------------------
(* Who was told OK by join.                                                 *)

\* A member of the room as Redis has it and as it is shown.
Present(r, n) == n \in redis[r].snapshot /\ n \in View(r)

\* When a room has answered OK to a join, and until the registry has passed the
\* answer on, the member is there.
Told ==
    LET req == call[busy.client].req
    IN  /\ busy.client # NoClient /\ busy.task = "route" /\ busy.answer = "ok"
        /\ req.op = "join"
        => Present(TrimSpace[req.room], TrimSpace[req.name])

\* Who was told OK and is not being asked to leave is there.
KeptSound == \A r \in Room : \A n \in kept[r] : Present(r, n) /\ ~Leaving(r, n)

\* Only his own leave takes a member out of the map.
LEMMA OthersStay ==
    ASSUME NEW m \in Members, NEW req \in Request \cup {DrainRequest}, NEW n \in memberList(m),
           ~(req.op = "leave" /\ TrimSpace[req.name] = n)
    PROVE  n \in memberList(PlanFor(m, req).members)
<1>1. req.name \in Raw /\ req.conn \in Sender
  <2>1. CASE req \in Request
    BY <2>1, RequestAssumption
  <2>2. CASE req = DrainRequest
    BY <2>2, TrimAssumption DEF DrainRequest, Sender
  <2>3. QED
    BY <2>1, <2>2
<1>2. \A ok : Answer(m, ok).members = m
  BY DEF Answer
<1>3. \A x, post, event : persistSnapshot(x, post, event).members = x
  BY DEF persistSnapshot
<1>4. n \in memberList([m EXCEPT ![TrimSpace[req.name]] = req.conn])
  BY <1>1, ConnAssumption DEF memberList, Members, Sender
<1>5. n \in memberList(join(m, req.name, req.conn).members)
  <2>1. join(m, req.name, req.conn).members \in {m, [m EXCEPT ![TrimSpace[req.name]] = req.conn]}
    BY DEF join, Answer, persistSnapshot
  <2>2. QED
    BY <1>4, <2>1
<1>6. req.op = "leave" => n \in memberList(leave(m, req.name, req.conn).members)
  <2>1. TrimSpace[req.name] # n => n \in memberList([m EXCEPT ![TrimSpace[req.name]] = NotMember])
    BY DEF memberList, Members
  <2>2. leave(m, req.name, req.conn).members \in {m, [m EXCEPT ![TrimSpace[req.name]] = NotMember]}
    BY DEF leave, Answer, persistSnapshot
  <2>3. QED
    BY <2>1, <2>2
<1>7. /\ postMessage(m, req.name, req.text, req.conn, 1).members = m
      /\ drain(m).members = m
  BY <1>2, <1>3 DEF postMessage, drain
<1>8. QED
  BY <1>2, <1>5, <1>6, <1>7 DEF PlanFor

\* A member stays through every step, as long as his leave has not come to his
\* room's actor.
LEMMA PresentStays ==
    ASSUME AppInv, MailAddressed, [AppNext]_appVars, NEW r \in Room, NEW n, Present(r, n),
           \A p \in Pid : HandleCall(p) => ~Names(Head(proc[p].inbox).req, "leave", r, n)
    PROVE  Present(r, n)'
<1>1. CASE \A p \in Pid : ~HandleCall(p)
  BY <1>1, OnlyActorsMoveRooms DEF RoomsKeep, Present
<1>2. ASSUME NEW p \in Pid, HandleCall(p) PROVE Present(r, n)'
  <2> DEFINE a == proc[p]
             msg == Head(a.inbox)
             plan == PlanFor(a.members, msg.req)
  <2>1. /\ IInv /\ TypeOK /\ rooms \in ActorMap /\ proc \in [Pid -> Process]
        /\ redis \in [Room -> [snapshot : SUBSET Nick, history : Seq(Message)]]
        /\ a \in Process /\ a.inbox \in Seq(Mail) /\ a.members \in Members
    BY DEF AppInv, IInv, TypeOK, ActorMap, Process
  <2>2. a.alive /\ a.inbox # <<>> /\ rooms' = rooms
    BY <1>2 DEF HandleCall
  <2>3. a.room \in Room /\ rooms[a.room] = p /\ p # NoPid
    BY <2>1, <2>2, BusyActorIsMapped, ActorAssumption
  <2>4. PICK w : Handled(p, w)
    BY <1>2 DEF HandleCall, Handled
  <2>5. /\ proc'[p].alive /\ proc'[p].members = plan.members
        /\ \A q \in Pid \ {p} : proc'[q] = proc[q]
    BY <2>1, <2>4 DEF Handled
  <2>6. CASE r # a.room
    <3>1. rooms[r] # p
      BY <2>1, <2>2, <2>3, <2>6 DEF IInv, Structure, Sound
    <3>2. rooms[r] # NoPid => proc'[rooms[r]] = proc[rooms[r]]
      BY <2>1, <2>5, <3>1 DEF ActorMap
    <3>3. redis'[r] = redis[r]
      BY <2>1, <2>3, <2>4, <2>6 DEF Handled
    <3>4. QED
      BY <2>2, <3>2, <3>3 DEF View, Present
  <2>7. CASE r = a.room
    <3>1. msg \in Mail /\ msg = a.inbox[1] /\ 1 \in DOMAIN a.inbox
      BY <2>1, <2>2, TakeMail
    <3>2. msg.req \in Request \cup {DrainRequest}
      BY <3>1 DEF Mail
    <3>3. n \in memberList(a.members)
      BY <2>2, <2>3, <2>7 DEF View, Present
    <3>4. ~(msg.req.op = "leave" /\ TrimSpace[msg.req.name] = n)
      <4>1. msg.req.op # "drain" => TrimSpace[msg.req.room] = r
        BY <2>7, <3>1 DEF MailAddressed
      <4>2. ~Names(msg.req, "leave", r, n)
        BY <1>2
      <4>3. QED
        BY <4>1, <4>2 DEF Names
    <3>5. n \in memberList(plan.members)
      BY <2>1, <3>2, <3>3, <3>4, OthersStay
    <3>6. View(r)' = memberList(plan.members)
      BY <2>2, <2>3, <2>5, <2>7 DEF View
    <3>7. redis'[r].snapshot \in {redis[r].snapshot, memberList(plan.members)}
      BY <2>1, <2>3, <2>4, <2>7 DEF Handled, Written, WriteOf
    <3>8. QED
      BY <3>5, <3>6, <3>7 DEF Present
  <2>8. QED
    BY <2>6, <2>7
<1>3. QED
  BY <1>1, <1>2

\* A join that was answered OK has stored and shown its member.
LEMMA JoinStores ==
    ASSUME AppInv, MailAddressed, TaskAddressed, NEW p \in Pid, HandleCall(p),
           Head(proc[p].inbox).awaited, busy.client # NoClient, busy.task = "route",
           call[busy.client].req.op = "join", busy'.answer = "ok", NEW r, NEW n,
           r = TrimSpace[call[busy.client].req.room], n = TrimSpace[call[busy.client].req.name]
    PROVE  Present(r, n)'
<1> DEFINE a == proc[p]
           msg == Head(a.inbox)
           plan == PlanFor(a.members, msg.req)
<1>1. /\ IInv /\ TypeOK /\ proc \in [Pid -> Process]
      /\ redis \in [Room -> [snapshot : SUBSET Nick, history : Seq(Message)]]
      /\ a \in Process /\ a.inbox \in Seq(Mail) /\ a.members \in Members
  BY DEF AppInv, IInv, TypeOK, Process
<1>2. a.alive /\ a.inbox # <<>> /\ rooms' = rooms
  BY DEF HandleCall
<1>3. a.room \in Room /\ rooms[a.room] = p /\ p # NoPid
  BY <1>1, <1>2, BusyActorIsMapped, ActorAssumption
<1>4. PICK w \in WriteOutcomes : Handled(p, w)
  BY DEF HandleCall, Handled, WriteOutcomes
<1>5. msg \in Mail /\ msg = a.inbox[1] /\ 1 \in DOMAIN a.inbox
  BY <1>1, <1>2, TakeMail
<1>6. /\ msg.req = call[busy.client].req /\ msg.req.op = "join"
      /\ r = a.room /\ n = TrimSpace[msg.req.name]
  BY <1>5 DEF MailAddressed
<1>7. msg.req.name \in Raw /\ msg.req.conn \in Sender
  <2>1. msg.req \in Request
    BY <1>5, <1>6 DEF Mail, DrainRequest
  <2>2. QED
    BY <2>1, RequestAssumption
<1>8. plan = join(a.members, msg.req.name, msg.req.conn)
  BY <1>6 DEF PlanFor
<1> HIDE DEF plan
<1>9. plan.ok /\ w = "ok"
  BY <1>4 DEF Handled, Outcome, plan
<1>10. /\ n # Blank /\ plan.writes
       /\ plan.members = [a.members EXCEPT ![n] = msg.req.conn]
  BY <1>6, <1>8, <1>9 DEF join, Answer, persistSnapshot
<1>11. n \in memberList(plan.members)
  BY <1>1, <1>6, <1>7, <1>10, TrimIsNick, ConnAssumption DEF memberList, Members, Sender
<1>12. redis'[r].snapshot = memberList(plan.members)
  BY <1>1, <1>3, <1>4, <1>6, <1>9, <1>10 DEF Handled, Written, WriteOf, plan
<1>13. View(r)' = memberList(plan.members)
  <2>1. proc'[p].alive /\ proc'[p].members = plan.members
    BY <1>1, <1>4 DEF Handled, plan
  <2>2. QED
    BY <1>2, <1>3, <1>6, <2>1 DEF View
<1>14. QED
  BY <1>11, <1>12, <1>13 DEF Present

\* The member an answer speaks of stays until the registry passes it on.
LEMMA ToldStays ==
    ASSUME AppInv, Linked, MailAddressed, TaskAddressed, Told, [AppNext]_appVars,
           busy'.client # NoClient, busy'.task = "route", busy'.answer = "ok",
           call'[busy'.client].req.op = "join", NEW r, NEW n,
           r = TrimSpace[call'[busy'.client].req.room],
           n = TrimSpace[call'[busy'.client].req.name]
    PROVE  Present(r, n)'
<1>1. ~RouteToRoom /\ ~UnloadRoom /\ ~DrainRegistry
  BY DEF RouteToRoom, UnloadRoom, DrainRegistry, Waiting
<1>2. /\ busy'.client = busy.client /\ busy.task = "route"
      /\ call'[busy.client] = call[busy.client]
      /\ busy'.answer = busy.answer \/ \E p \in Pid : HandleCall(p)
  BY <1>1, WaitingStays DEF AppInv
<1>3. /\ call[busy.client].req.op = "join"
      /\ r = TrimSpace[call[busy.client].req.room] /\ n = TrimSpace[call[busy.client].req.name]
      /\ r \in Room /\ rooms[r] = busy.pid
  BY <1>2 DEF TaskAddressed
<1>4. ASSUME NEW p \in Pid, HandleCall(p) PROVE Present(r, n)'
  <2>1. CASE Head(proc[p].inbox).awaited
    BY <1>2, <1>3, <1>4, <2>1, JoinStores
  <2>2. CASE ~Head(proc[p].inbox).awaited
    <3>1. busy.answer = "ok" /\ proc[p].inbox # <<>> /\ proc[p].alive
      BY <1>4, <2>2 DEF HandleCall
    <3>2. proc[busy.pid].inbox = <<>>
      BY <3>1 DEF AppInv, IInv, Structure, AskedIsIdle
    <3>3. Present(r, n)
      BY <1>2, <1>3, <3>1 DEF Told
    <3>4. ASSUME NEW q \in Pid, HandleCall(q) PROVE ~Names(Head(proc[q].inbox).req, "leave", r, n)
      <4>1. proc[q].alive /\ proc[q].inbox # <<>> /\ proc[q].inbox \in Seq(Mail)
        BY <3>4 DEF HandleCall, AppInv, IInv, TypeOK, Process
      <4>2. proc[q].room # r
        BY <1>3, <3>2, <4>1, BusyActorIsMapped DEF AppInv
      <4>3. Head(proc[q].inbox) = proc[q].inbox[1] /\ 1 \in DOMAIN proc[q].inbox
        BY <4>1, TakeMail
      <4>4. QED
        BY <4>2, <4>3 DEF Names, MailAddressed
    <3>5. QED
      BY <1>3, <3>3, <3>4, PresentStays
  <2>3. QED
    BY <2>1, <2>2
<1>5. CASE \A p \in Pid : ~HandleCall(p)
  <2>1. Present(r, n)
    BY <1>2, <1>3, <1>5 DEF Told
  <2>2. \A p \in Pid : HandleCall(p) => ~Names(Head(proc[p].inbox).req, "leave", r, n)
    BY <1>5
  <2>3. QED
    BY <1>3, <2>1, <2>2, PresentStays
<1>6. QED
  BY <1>3, <1>4, <1>5

\* The answer to a join stays true until the registry passes it on.
LEMMA ToldKeeps ==
    ASSUME AppInv, Linked, MailAddressed, TaskAddressed, Told, [AppNext]_appVars
    PROVE  Told'
  BY ToldStays DEF Told, Present, View

\* A join is answered OK only when its room has answered it.
LEMMA OKToJoin ==
    ASSUME IInv, Linked, TaskAddressed, [AppNext]_appVars, NEW c \in Client,
           call[c].reply = "waiting", call'[c].reply = "ok", call[c].req.op = "join"
    PROVE  /\ c = busy.client /\ busy.task = "route" /\ busy.answer = "ok"
           /\ UNCHANGED <<rooms, proc, redis>>
<1>1. /\ TypeOK /\ c # NoClient
      /\ call \in [Client -> [req : Request \cup {NoRequest},
                              reply : {"none", "waiting", "ok", "fail", "error"}]]
  BY ActorAssumption DEF IInv, TypeOK
<1>2. ASSUME NEW x \in Client, Call(x) \/ ClientTimeout(x) PROVE FALSE
  <2>1. \E entry : entry.reply # "ok" /\ call' = [call EXCEPT ![x] = entry]
    BY <1>2 DEF Call, ClientTimeout
  <2>2. QED
    BY <1>1, <2>1
<1>3. CASE AnswersAtOnce
  <2>1. inbox # <<>>
    BY <1>3 DEF AnswersAtOnce
  <2>2. PICK result \in {"ok", "fail"} :
          /\ call' = Answered(Current.client, result)
          /\ result = "ok" => Current.req.op # "join"
    BY <1>3 DEF AnswersAtOnce
  <2>3. Current.client = c /\ result = "ok"
    BY <1>1, <2>2 DEF Answered
  <2>4. call[c] = [req |-> Current.req, reply |-> "waiting"]
    BY <1>1, <2>1, <2>3, ServingLinks
  <2>5. QED
    BY <2>2, <2>3, <2>4
<1>4. CASE Ends
  <2>1. PICK result \in {"ok", "fail"} :
          /\ call' = Answered(busy.client, result)
          /\ result = "ok" /\ busy.task = "route" =>
                busy.answer = "ok" /\ UNCHANGED <<rooms, proc, redis>>
    BY <1>4 DEF Ends
  <2>2. busy.client = c /\ result = "ok"
    BY <1>1, <2>1 DEF Answered
  <2>3. busy.task \in {"route", "unload", "drain"}
    BY <1>1, <1>4 DEF Ends, TypeOK, Task
  <2>4. busy.task = "route"
    BY <1>1, <2>2, <2>3 DEF TaskAddressed
  <2>5. QED
    BY <2>1, <2>2, <2>4
<1>5. CASE Begins \/ Continues \/ Falls \/ StopRegistry \/ Starts \/ \E p \in Pid : Dies(p)
  BY <1>5 DEF Begins, Continues, Falls, StopRegistry, Starts, Dies
<1>6. CASE ProcessGone
  BY <1>6 DEF ProcessGone
<1>7. QED
  BY <1>2, <1>3, <1>4, <1>5, <1>6, StepsOfTheProgram, StepsOfARequest

\* Steps either remember what clients learnt, or teach them nothing.
LEMMA StepsAreRemembered ==
    ASSUME [AppNext]_appVars
    PROVE  Remember \/ UNCHANGED <<vars, kept>>
<1>1. Return \/ Kill => Remember
  BY DEF Return, Kill, ProcessGone
<1>2. QED
  BY <1>1 DEF AppNext, Submit, GiveUp, RunRegistry, RegistryCallTimeout, RunRoom, LoseRoom, StopRoom,
         StopRegistry, Boot, Signal, ServerFails, Drain, DrainEnds, appVars

\* Who was told OK stays, and whoever is told OK is there.
LEMMA KeptKeeps ==
    ASSUME AppInv, Linked, MailAddressed, TaskAddressed, Told, KeptSound, [AppNext]_appVars
    PROVE  KeptSound'
<1>1. CASE UNCHANGED <<vars, kept>>
  BY <1>1 DEF vars, KeptSound, Present, View, Leaving
<1>2. ASSUME Remember, NEW r \in Room, NEW n \in kept'[r]
      PROVE  Present(r, n)' /\ ~Leaving(r, n)'
  <2>1. /\ n \in Nick /\ ~Leaving(r, n)'
        /\ n \in kept[r] \/ JoinAcknowledged(r, n)
    BY <1>2 DEF Remember
  <2>2. CASE n \in kept[r]
    <3>1. Present(r, n) /\ ~Leaving(r, n)
      BY <2>2 DEF KeptSound
    <3>2. ASSUME NEW p \in Pid, HandleCall(p) PROVE ~Names(Head(proc[p].inbox).req, "leave", r, n)
      <4>1. proc[p].inbox # <<>> /\ proc[p].inbox \in Seq(Mail)
        BY <3>2 DEF HandleCall, AppInv, IInv, TypeOK, Process
      <4>2. Head(proc[p].inbox) = proc[p].inbox[1] /\ 1 \in DOMAIN proc[p].inbox
        BY <4>1, TakeMail
      <4>3. QED
        BY <3>1, <4>2 DEF Leaving
    <3>3. QED
      BY <2>1, <3>1, <3>2, PresentStays
  <2>3. CASE JoinAcknowledged(r, n)
    <3>1. PICK c \in Client : /\ call[c].reply = "waiting" /\ call'[c].reply = "ok"
                              /\ Names(call[c].req, "join", r, n)
      BY <2>3 DEF JoinAcknowledged
    <3>2. call[c].req.op = "join" /\ TrimSpace[call[c].req.room] = r /\ TrimSpace[call[c].req.name] = n
      BY <3>1 DEF Names
    <3>3. /\ c = busy.client /\ busy.task = "route" /\ busy.answer = "ok"
          /\ UNCHANGED <<rooms, proc, redis>>
      BY <3>1, <3>2, OKToJoin DEF AppInv
    <3>4. c # NoClient
      BY ActorAssumption
    <3>5. Present(r, n)
      BY <3>2, <3>3, <3>4 DEF Told
    <3>6. QED
      BY <2>1, <3>3, <3>5 DEF Present, View
  <2>4. QED
    BY <2>1, <2>2, <2>3
<1>3. QED
  BY <1>1, <1>2, StepsAreRemembered DEF KeptSound

-----------------------------------------------------------------------------
(* The inductive invariant, and what follows.                               *)

CallInv == AppInv /\ Linked /\ Off /\ MailAddressed /\ TaskAddressed /\ Told /\ KeptSound

\* In the beginning nobody has asked for anything.
LEMMA CallInit == AppInit => CallInv
<1> SUFFICES ASSUME AppInit PROVE CallInv
  OBVIOUS
<1>1. AppInv
  BY AppInitInv
<1>2. /\ inbox = <<>> /\ busy.client = NoClient /\ main = "serving"
      /\ \A c \in Client : call[c].reply # "waiting"
      /\ \A p \in Pid : proc[p].inbox = <<>>
      /\ \A r \in Room : kept[r] = {}
  BY DEF AppInit, Init, Idle, Dead
<1>3. Linked /\ Off
  BY <1>2 DEF Linked, Off
<1>4. MailAddressed /\ TaskAddressed /\ Told
  BY <1>2 DEF MailAddressed, TaskAddressed, Told
<1>5. KeptSound
  BY <1>2 DEF KeptSound
<1>6. QED
  BY <1>1, <1>3, <1>4, <1>5 DEF CallInv

\* Every step of the program preserves it.
LEMMA CallNext == CallInv /\ [AppNext]_appVars => CallInv'
<1> SUFFICES ASSUME CallInv, [AppNext]_appVars PROVE CallInv'
  OBVIOUS
<1>1. /\ AppInv /\ IInv /\ Linked /\ Off /\ MailAddressed /\ TaskAddressed /\ Told /\ KeptSound
  BY DEF CallInv, AppInv
<1>2. AppInv'
  BY <1>1, AppInvKeeps
<1>3. Linked' /\ Off'
  BY <1>1, LinkedKeeps, OffKeeps
<1>4. MailAddressed' /\ TaskAddressed'
  BY <1>1, AddressedKeeps
<1>5. Told' /\ KeptSound'
  BY <1>1, ToldKeeps, KeptKeeps
<1>6. QED
  BY <1>2, <1>3, <1>4, <1>5 DEF CallInv

\* The invariant holds in every state of the program.
THEOREM CallInvariant == AppSpec => []CallInv
  BY CallInit, CallNext, PTL DEF AppSpec

\* As long as there is a registry, the request of a caller that waits is in its
\* mailbox once or with its handler, and no other caller has one there: timeouts,
\* shutdowns and restarts never make an answer reach another Call.
THEOREM AnswersReachTheirCalls == AppSpec => []OneRequestPerCall
<1>1. CallInv => OneRequestPerCall
  BY LinkedIsOneRequest DEF CallInv, AppInv, IInv
<1>2. QED
  BY <1>1, CallInvariant, PTL

\* Whoever was told OK by join is in Redis until somebody asks him to leave, for
\* any number of rooms, callers, actors and starts: through unloads, drains that
\* fail or time out, stops between any two requests, kills and restarts.
THEOREM JoinsSurvive == AppSpec => []JoinSurvivesTheProgram
<1>1. CallInv => JoinSurvivesTheProgram
  BY DEF CallInv, KeptSound, Present, JoinSurvivesTheProgram
<1>2. QED
  BY <1>1, CallInvariant, PTL
=============================================================================
