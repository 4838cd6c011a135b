--------------------------- MODULE LoadTestProofs ---------------------------
(***************************************************************************)
(* Proofs about the load generator, for any number of rooms, users,        *)
(* workers and messages, any capacity of the channel, and a service that   *)
(* refuses, forgets and is late as it likes.                               *)
(*                                                                         *)
(* The invariant has four parts, each inductive with those before it:      *)
(* which jobs a stage can hold, what the counters count, what the setup    *)
(* still has to do, and where each message is.                             *)
(***************************************************************************)
EXTENDS LoadTest, FiniteSetTheorems, TLAPS

-----------------------------------------------------------------------------
(* Stages and their jobs.                                                   *)

Stages == {"create", "join", "messages"}

WorkerType == [pc : {"waiting", "first", "create", "join", "again", "ended"},
               job : Request, user : User, hit : BOOLEAN]

\* A stage has jobs of one kind.
KindOf(s) == IF s = "messages" THEN "message" ELSE s

Types ==
    /\ TypeOK
    /\ cfg \in [phase : {"setup", "messages", "all"}, autoSetup : BOOLEAN]
    /\ report.ok \in Nat

\* Between stages, and for workers that have ended, nothing is left to do.
Phased ==
    /\ stage \notin Stages => closed /\ jobs = <<>> /\ WorkersDone
    /\ closed \/ stage = "messages" => todo = <<>>
    /\ (\E w \in Worker : worker[w].pc = "ended") => closed /\ jobs = <<>>

\* Only a message is ever in the middle of a setup of its own.
OneKind ==
    /\ \A i \in DOMAIN todo : todo[i].kind = KindOf(stage)
    /\ \A i \in DOMAIN jobs : jobs[i].kind = KindOf(stage)
    /\ \A w \in Worker : Busy(w) =>
          /\ worker[w].job.kind = KindOf(stage)
          /\ worker[w].pc # "first" => worker[w].job.kind = "message" /\ cfg.autoSetup

StageInv == Types /\ Phased /\ OneKind

\* Room and user of the i-th join are in range.
LEMMA RoomAndUser ==
    ASSUME NEW i \in 1..Rooms * UsersPerRoom
    PROVE  /\ ((i - 1) \div UsersPerRoom) + 1 \in Room
           /\ ((i - 1) % UsersPerRoom) + 1 \in User
<1> DEFINE q == (i - 1) \div UsersPerRoom
           m == (i - 1) % UsersPerRoom
<1>1. Rooms \in Nat \ {0} /\ UsersPerRoom \in Nat \ {0}
  BY ConfigAssumption
<1>2. Rooms * UsersPerRoom \in Nat /\ i - 1 \in Nat /\ i - 1 < Rooms * UsersPerRoom
  BY <1>1
<1>3. /\ q \in Nat /\ m \in 0..(UsersPerRoom - 1)
      /\ i - 1 = UsersPerRoom * q + m
  BY <1>1, <1>2
<1>4. q < Rooms
  <2> HIDE DEF q, m
  <2>1. SUFFICES ASSUME q >= Rooms PROVE FALSE
    BY <1>1, <1>3
  <2>2. UsersPerRoom * q >= UsersPerRoom * Rooms
    BY <1>1, <1>3, <2>1
  <2>3. QED
    BY <1>1, <1>2, <1>3, <2>2
<1>5. QED
  BY <1>1, <1>3, <1>4 DEF Room, User

\* and every user of every room is joined.
LEMMA EveryUserIsJoined ==
    ASSUME NEW r \in Room, NEW u \in User
    PROVE  \E i \in DOMAIN JobsOf("join") : JobsOf("join")[i] = Join(r, u)
<1> DEFINE i == (r - 1) * UsersPerRoom + u
<1>1. Rooms \in Nat \ {0} /\ UsersPerRoom \in Nat \ {0} /\ r - 1 \in 0..(Rooms - 1) /\ r \in Nat
      /\ u \in 1..UsersPerRoom
  BY ConfigAssumption DEF Room, User
<1>2. (r - 1) * UsersPerRoom \in Nat /\ (r - 1) * UsersPerRoom <= (Rooms - 1) * UsersPerRoom
  BY <1>1
<1>3. i \in 1..Rooms * UsersPerRoom
  BY <1>1, <1>2
<1>4. (i - 1) \div UsersPerRoom = r - 1 /\ (i - 1) % UsersPerRoom = u - 1
  BY <1>1, <1>2
<1>5. QED
  BY <1>1, <1>3, <1>4 DEF JobsOf

LEMMA JobsAreTyped ==
    ASSUME NEW s \in Stages
    PROVE  /\ JobsOf(s) \in Seq(Request)
           /\ \A i \in DOMAIN JobsOf(s) : JobsOf(s)[i].kind = KindOf(s)
<1>1. Rooms \in Nat \ {0} /\ UsersPerRoom \in Nat \ {0} /\ MaxMessages \in Nat
  BY ConfigAssumption
<1>2. CASE s = "create"
  <2>1. \A r \in Room : Create(r) \in Request
    BY <1>1 DEF Create, Request, User
  <2>2. JobsOf(s) = [i \in 1..Rooms |-> Create(i)]
    BY <1>2 DEF JobsOf
  <2>3. QED
    BY <1>1, <1>2, <2>1, <2>2 DEF Room, Create, KindOf
<1>3. CASE s = "join"
  <2> DEFINE room(i) == ((i - 1) \div UsersPerRoom) + 1
             user(i) == ((i - 1) % UsersPerRoom) + 1
  <2>1. \A i \in 1..Rooms * UsersPerRoom : room(i) \in Room /\ user(i) \in User
    BY RoomAndUser
  <2>2. JobsOf(s) = [i \in 1..Rooms * UsersPerRoom |-> Join(room(i), user(i))]
    BY <1>3 DEF JobsOf
  <2> HIDE DEF room, user
  <2>3. \A i \in 1..Rooms * UsersPerRoom : Join(room(i), user(i)) \in Request
    BY <1>1, <2>1 DEF Join, Request
  <2>4. Rooms * UsersPerRoom \in Nat
    BY <1>1
  <2>5. QED
    BY <1>3, <2>2, <2>3, <2>4 DEF Join, KindOf
<1>4. CASE s = "messages"
  BY <1>4 DEF JobsOf
<1>5. QED
  BY <1>2, <1>3, <1>4 DEF Stages

-----------------------------------------------------------------------------
(* What workers and the service do, a step at a time.                        *)

LEMMA PendingIsRequest ==
    ASSUME Types, NEW w \in Worker, Busy(w)
    PROVE  Pending(worker[w]) \in Request
<1>1. worker[w] \in WorkerType /\ MaxMessages \in Nat /\ 1 \in User
  BY ConfigAssumption DEF Types, TypeOK, WorkerType, User
<1>2. worker[w].pc \in {"first", "create", "join", "again"}
  BY <1>1 DEF Busy, WorkerType
<1>3. worker[w].job \in Request /\ worker[w].job.room \in Room /\ worker[w].user \in User
  BY <1>1 DEF WorkerType, Request
<1>4. Create(worker[w].job.room) \in Request /\ Join(worker[w].job.room, worker[w].user) \in Request
  BY <1>1, <1>3 DEF Create, Join, Request
<1>5. QED
  BY <1>2, <1>3, <1>4 DEF Pending

\* The service keeps what it has: rooms and members only grow.
LEMMA ServiceGrows ==
    ASSUME Types, NEW req \in Request, Handled(req)
    PROVE  /\ exists' \subseteq Room /\ exists \subseteq exists'
           /\ members' \in [Room -> SUBSET User] /\ stored' \in [1..MaxMessages -> Nat]
           /\ \A r \in Room : members[r] \subseteq members'[r]
<1>1. req.room \in Room /\ req.user \in User
  BY DEF Request
<1>2. exists' \subseteq Room /\ exists \subseteq exists'
  BY <1>1 DEF Handled, Types, TypeOK
<1>3. members' \in [Room -> SUBSET User] /\ \A r \in Room : members[r] \subseteq members'[r]
  BY <1>1 DEF Handled, Types, TypeOK
<1>4. stored' \in [1..MaxMessages -> Nat]
  <2>1. stored \in [1..MaxMessages -> Nat]
    BY DEF Types, TypeOK
  <2>2. ASSUME NEW m \in 1..MaxMessages
        PROVE  [stored EXCEPT ![m] = @ + 1] \in [1..MaxMessages -> Nat]
    BY <2>1
  <2>3. req.seq \notin 1..MaxMessages => [stored EXCEPT ![req.seq] = @ + 1] = stored
    BY <2>1
  <2>4. QED
    BY <2>1, <2>2, <2>3 DEF Handled
<1>5. QED
  BY <1>2, <1>3, <1>4

\* The service handles a request and its answer comes; or a fault hits it, with the
\* request handled, not handled, or handled later.
Fate(w, answer, hit) ==
    LET req == Pending(worker[w])
    IN  \/ /\ Handled(req) /\ late' = late
           /\ answer = Answer(req) /\ hit = worker[w].hit
        \/ /\ answer = "error" /\ hit = TRUE
           /\ \/ UNCHANGED service
              \/ Handled(req) /\ late' = late
              \/ late' = late \cup {req} /\ UNCHANGED <<exists, members, stored>>

WorkerAnswered(w) == Answered(w) \/ Refused(w) \/ AnswerLost(w) \/ TimedOut(w)

LEMMA Fates ==
    ASSUME Types, NEW w \in Worker, WorkerAnswered(w)
    PROVE  /\ Busy(w) /\ UNCHANGED <<cfg, stage, jobs, producer, reports>>
           /\ \E answer \in {"ok", "missing", "error"}, hit \in BOOLEAN :
                Fate(w, answer, hit) /\ Proceed(w, answer, hit)
<1>1. worker[w] \in WorkerType /\ worker[w].hit \in BOOLEAN
  BY DEF Types, TypeOK, WorkerType
<1>2. CASE Answered(w)
  <2>1. Answer(Pending(worker[w])) \in {"ok", "missing", "error"}
    BY DEF Answer
  <2>2. Fate(w, Answer(Pending(worker[w])), worker[w].hit)
    BY <1>2 DEF Answered, Fate
  <2>3. QED
    BY <1>1, <1>2, <2>1, <2>2 DEF Answered
<1>3. CASE Refused(w)
  <2>1. Fate(w, "error", TRUE)
    BY <1>3 DEF Refused, Fate
  <2>2. QED
    BY <1>3, <2>1 DEF Refused
<1>4. CASE AnswerLost(w)
  <2>1. Fate(w, "error", TRUE)
    BY <1>4 DEF AnswerLost, Fate
  <2>2. QED
    BY <1>4, <2>1 DEF AnswerLost
<1>5. CASE TimedOut(w)
  <2>1. Fate(w, "error", TRUE)
    BY <1>5 DEF TimedOut, Fate
  <2>2. QED
    BY <1>5, <2>1 DEF TimedOut
<1>6. QED
  BY <1>2, <1>3, <1>4, <1>5 DEF WorkerAnswered

\* A job ends OK with the answer to its own request; it goes on only for a message
\* whose room has to be set up.
Ends(w, answer, isOK) ==
    /\ isOK => answer = "ok" /\ Pending(worker[w]) = worker[w].job
    /\ ~isOK => answer # "ok"
    /\ ~isOK /\ worker[w].pc = "first" /\ worker[w].job.kind = "message" /\ cfg.autoSetup =>
          answer # "missing"

GoesOn(w, answer, pc, user) ==
    LET wk == worker[w]
    IN  \/ wk.pc = "first" /\ answer = "missing" /\ pc = "create" /\ user = 1
        \/ wk.pc = "create" /\ answer = "ok" /\ pc = "join" /\ user = 1
        \/ /\ wk.pc = "join" /\ answer = "ok" /\ pc = "join"
           /\ user = wk.user + 1 /\ user \in User
        \/ wk.pc = "join" /\ answer = "ok" /\ pc = "again" /\ user = 1 /\ wk.user = UsersPerRoom

LEMMA Proceeds ==
    ASSUME StageInv, NEW w \in Worker, Busy(w),
           NEW answer \in {"ok", "missing", "error"}, NEW hit \in BOOLEAN, Proceed(w, answer, hit)
    PROVE  \/ \E isOK \in BOOLEAN : Finish(w, isOK, hit) /\ Ends(w, answer, isOK)
           \/ \E pc \in {"create", "join", "again"}, user \in User :
                /\ Continue(w, pc, user, hit) /\ GoesOn(w, answer, pc, user)
                /\ worker[w].job.kind = "message" /\ cfg.autoSetup
<1> DEFINE wk == worker[w]
<1>1. wk \in WorkerType /\ wk.pc \in {"first", "create", "join", "again"}
  BY DEF StageInv, Types, TypeOK, WorkerType, Busy
<1>2. 1 \in User /\ wk.user \in User /\ UsersPerRoom \in Nat \ {0}
  BY <1>1, ConfigAssumption DEF WorkerType, User
<1>3. wk.pc # "first" => wk.job.kind = "message" /\ cfg.autoSetup
  BY DEF StageInv, OneKind
<1>4. CASE wk.pc = "first"
  <2>1. CASE wk.job.kind = "message" /\ cfg.autoSetup /\ answer = "missing"
    BY <1>2, <1>4, <2>1 DEF Proceed, GoesOn, isMissingSetupError
  <2>2. CASE ~(wk.job.kind = "message" /\ cfg.autoSetup /\ answer = "missing")
    <3>1. Finish(w, answer = "ok", hit)
      BY <1>4, <2>2 DEF Proceed, isMissingSetupError
    <3>2. Ends(w, answer, answer = "ok") /\ (answer = "ok") \in BOOLEAN
      BY <1>4, <2>2 DEF Ends, Pending
    <3>3. QED
      BY <3>1, <3>2
  <2>3. QED
    BY <2>1, <2>2
<1>5. CASE wk.pc = "create"
  <2>1. CASE answer = "ok"
    BY <1>2, <1>3, <1>5, <2>1 DEF Proceed, GoesOn
  <2>2. CASE answer # "ok"
    BY <1>5, <2>2 DEF Proceed, Ends
  <2>3. QED
    BY <2>1, <2>2
<1>6. CASE wk.pc = "join"
  <2>1. CASE answer # "ok"
    BY <1>6, <2>1 DEF Proceed, Ends
  <2>2. CASE answer = "ok" /\ wk.user < UsersPerRoom
    <3>1. wk.user + 1 \in User
      BY <1>2, <2>2 DEF User
    <3>2. QED
      BY <1>3, <1>6, <2>2, <3>1 DEF Proceed, GoesOn, MoreUsers
  <2>3. CASE answer = "ok" /\ ~(wk.user < UsersPerRoom)
    <3>1. wk.user = UsersPerRoom
      BY <1>2, <2>3 DEF User
    <3>2. QED
      BY <1>2, <1>3, <1>6, <2>3, <3>1 DEF Proceed, GoesOn, MoreUsers
  <2>4. QED
    BY <2>1, <2>2, <2>3
<1>7. CASE wk.pc = "again"
  <2>1. Finish(w, answer = "ok", hit)
    BY <1>7 DEF Proceed
  <2>2. Ends(w, answer, answer = "ok") /\ (answer = "ok") \in BOOLEAN
    BY <1>7 DEF Ends, Pending
  <2>3. QED
    BY <2>1, <2>2
<1>8. QED
  BY <1>1, <1>4, <1>5, <1>6, <1>7

-----------------------------------------------------------------------------
(* The stage invariant.                                                      *)

\* Without workers there is nothing in the channel and nothing to submit.
LEMMA NothingLeft ==
    ASSUME StageInv, WorkersDone
    PROVE  closed /\ jobs = <<>> /\ todo = <<>> /\ \A w \in Worker : ~Busy(w)
<1>1. \E w \in Worker : worker[w].pc = "ended"
  BY ConfigAssumption DEF WorkersDone
<1>2. QED
  BY <1>1 DEF StageInv, Phased, WorkersDone, Busy

LEMMA Between ==
    ASSUME StageInv, stage \notin Stages
    PROVE  WorkersDone
BY DEF StageInv, Phased

LEMMA WaitingIsWorker ==
    /\ Waiting \in WorkerType /\ Waiting.pc = "waiting"
    /\ Ended \in WorkerType /\ Ended.pc = "ended"
<1>1. 1 \in Room /\ 1 \in User /\ MaxMessages \in Nat
  BY ConfigAssumption DEF Room, User
<1>2. Create(1) \in Request
  BY <1>1 DEF Create, Request
<1>3. QED
  BY <1>1, <1>2 DEF Waiting, Ended, At, WorkerType

LEMMA StartKeepsStage ==
    ASSUME StageInv, NEW s \in Stages, Start(s), WorkersDone, ok \in Nat, failed \in Nat
    PROVE  StageInv'
<1>1. JobsOf(s) \in Seq(Request) /\ \A i \in DOMAIN JobsOf(s) : JobsOf(s)[i].kind = KindOf(s)
  BY JobsAreTyped
<1>2. worker' = [w \in Worker |-> Waiting] /\ Worker # {}
  BY ConfigAssumption DEF Start
<1>3. \A w \in Worker : worker'[w].pc = "waiting"
  BY <1>2, WaitingIsWorker
<1>4. worker' \in [Worker -> WorkerType]
  BY <1>2, WaitingIsWorker
<1>5. stage' = s /\ todo' = JobsOf(s) /\ jobs' = <<>> /\ closed' = FALSE
  BY DEF Start
<1>6. <<>> \in Seq(Request) /\ Len(<<>>) <= Cap
  BY ConfigAssumption
<1>7. Types'
  BY <1>1, <1>4, <1>5, <1>6 DEF Start, StageInv, Types, TypeOK, WorkerType, Stages, stats, service,
     history
<1>8. Phased'
  BY <1>3, <1>5 DEF Phased, JobsOf
<1>9. OneKind'
  BY <1>1, <1>3, <1>5 DEF OneKind, Busy
<1>10. QED
  BY <1>7, <1>8, <1>9 DEF StageInv

LEMMA GotoKeepsStage ==
    ASSUME StageInv, NEW s \in {"preflight", "reset", "done"}, WorkersDone, stage' = s,
           ok' \in Nat, failed' \in Nat, submitted' \in Nat,
           UNCHANGED <<cfg, jobs, todo, closed, expired, seq, worker, reports, service, history>>
    PROVE  StageInv'
<1>1. closed /\ jobs = <<>> /\ todo = <<>> /\ \A w \in Worker : ~Busy(w)
  BY NothingLeft
<1>2. Types'
  BY DEF StageInv, Types, TypeOK, reports, service, history
<1>3. Phased'
  BY <1>1 DEF StageInv, Phased, WorkersDone
<1>4. OneKind'
  BY <1>1 DEF OneKind, Busy
<1>5. QED
  BY <1>2, <1>3, <1>4 DEF StageInv

LEMMA MainKeepsStage ==
    ASSUME StageInv, MainStep
    PROVE  StageInv'
<1>1. ok \in Nat /\ failed \in Nat /\ submitted \in Nat
  BY DEF StageInv, Types, TypeOK
<1>2. CASE Unreachable
  BY <1>1, <1>2, Between, GotoKeepsStage DEF Unreachable, Goto, Stages, stats, producer
<1>3. CASE Begin
  <2>1. WorkersDone
    BY <1>3, Between DEF Begin, Stages
  <2>2. CASE cfg.phase = "messages"
    BY <1>1, <1>3, <2>1, <2>2, GotoKeepsStage DEF Begin, Goto, stats, producer
  <2>3. CASE cfg.phase # "messages"
    BY <1>1, <1>3, <2>1, <2>3, StartKeepsStage DEF Begin, Stages
  <2>4. QED
    BY <2>2, <2>3
<1>4. CASE CreateDone
  BY <1>1, <1>4, StartKeepsStage DEF CreateDone, Stages
<1>5. CASE JoinDone
  BY <1>1, <1>5, GotoKeepsStage DEF JoinDone, ResetOK
<1>6. CASE ResetFailed
  BY <1>1, <1>6, Between, GotoKeepsStage DEF ResetFailed, Goto, Stages, producer
<1>7. CASE Preflight
  <2>1. WorkersDone
    BY <1>7, Between DEF Preflight, Stages
  <2>2. CASE Start("messages")
    BY <1>1, <2>1, <2>2, StartKeepsStage DEF Stages
  <2>3. CASE Goto("done") /\ UNCHANGED stats
    BY <1>1, <2>1, <2>3, GotoKeepsStage DEF Goto, stats, producer
  <2>4. QED
    BY <1>7, <2>2, <2>3 DEF Preflight
<1>8. CASE MessagesDone
  BY <1>1, <1>8, GotoKeepsStage DEF MessagesDone, Goto, stats, producer
<1>9. QED
  BY <1>2, <1>3, <1>4, <1>5, <1>6, <1>7, <1>8 DEF MainStep

\* A job more in the channel.
LEMMA SendKeepsJobs ==
    ASSUME Types, NEW job \in Request, Send(job)
    PROVE  /\ jobs' \in Seq(Request) /\ Len(jobs') <= Cap /\ submitted' \in Nat
           /\ Len(jobs') = Len(jobs) + 1
           /\ \A i \in DOMAIN jobs : i \in DOMAIN jobs' /\ jobs'[i] = jobs[i]
           /\ \A i \in DOMAIN jobs' : i \in DOMAIN jobs \/ i = Len(jobs')
           /\ Len(jobs') \in DOMAIN jobs' /\ jobs'[Len(jobs')] = job
<1>1. jobs \in Seq(Request) /\ Cap \in Nat /\ submitted \in Nat
  BY ConfigAssumption DEF Types, TypeOK
<1>2. jobs' = Append(jobs, job) /\ Len(jobs) < Cap /\ submitted' = submitted + 1
  BY DEF Send
<1>3. QED
  BY <1>1, <1>2

LEMMA ProducersKeepStage ==
    ASSUME StageInv, Submit \/ ProduceMessage \/ Expire \/ Close
    PROVE  StageInv'
<1>1. CASE Submit
  <2>1. /\ todo \in Seq(Request) /\ todo # <<>> /\ todo' = Tail(todo) /\ Send(Head(todo))
        /\ UNCHANGED <<cfg, stage, closed, expired, seq, worker, stats, reports, service, history>>
    BY <1>1 DEF Submit, StageInv, Types, TypeOK
  <2>2. /\ Head(todo) \in Request /\ Head(todo) = todo[1] /\ 1 \in DOMAIN todo
        /\ todo' \in Seq(Request)
        /\ \A i \in DOMAIN todo' : i + 1 \in DOMAIN todo /\ todo'[i] = todo[i + 1]
    BY <2>1
  <2>3. ~closed /\ stage # "messages"
    BY <2>1 DEF StageInv, Phased
  <2>4. /\ jobs' \in Seq(Request) /\ Len(jobs') <= Cap /\ submitted' \in Nat
        /\ \A i \in DOMAIN jobs : jobs'[i] = jobs[i]
        /\ \A i \in DOMAIN jobs' : i \in DOMAIN jobs \/ jobs'[i] = Head(todo)
    BY <2>1, <2>2, SendKeepsJobs DEF StageInv
  <2>5. Types'
    BY <2>1, <2>2, <2>4 DEF StageInv, Types, TypeOK, stats, reports, service, history
  <2>6. Phased'
    BY <2>1, <2>3 DEF StageInv, Phased, WorkersDone
  <2>7. OneKind'
    BY <2>1, <2>2, <2>4 DEF StageInv, OneKind, Busy
  <2>8. QED
    BY <2>5, <2>6, <2>7 DEF StageInv
<1>2. CASE ProduceMessage
  <2>1. PICK r \in Room, u \in User :
          /\ stage = "messages" /\ ~closed /\ seq < MaxMessages
          /\ Send(Message(r, u, seq + 1)) /\ seq' = seq + 1
    BY <1>2 DEF ProduceMessage
  <2>2. UNCHANGED <<cfg, stage, todo, closed, expired, worker, stats, reports, service, history>>
    BY <1>2 DEF ProduceMessage
  <2>3. seq' \in 0..MaxMessages
    BY <2>1, ConfigAssumption DEF StageInv, Types, TypeOK
  <2>4. Message(r, u, seq + 1) \in Request /\ Message(r, u, seq + 1).kind = "message"
    BY <2>1, <2>3 DEF Message, Request
  <2>5. /\ jobs' \in Seq(Request) /\ Len(jobs') <= Cap /\ submitted' \in Nat
        /\ \A i \in DOMAIN jobs : jobs'[i] = jobs[i]
        /\ \A i \in DOMAIN jobs' : i \in DOMAIN jobs \/ jobs'[i].kind = "message"
    BY <2>1, <2>4, SendKeepsJobs DEF StageInv
  <2>6. Types'
    BY <2>2, <2>3, <2>5 DEF StageInv, Types, TypeOK, stats, reports, service, history
  <2>7. Phased'
    BY <2>1, <2>2 DEF StageInv, Phased, WorkersDone, Stages
  <2>8. OneKind'
    BY <2>1, <2>2, <2>5 DEF StageInv, OneKind, Busy, KindOf
  <2>9. QED
    BY <2>6, <2>7, <2>8 DEF StageInv
<1>3. CASE Expire \/ Close
  <2>1. /\ UNCHANGED <<cfg, stage, jobs, todo, seq, submitted, worker, stats, reports, service, history>>
        /\ expired' \in BOOLEAN /\ closed' \in BOOLEAN /\ (closed => closed')
        /\ closed' => todo = <<>>
    BY <1>3 DEF Expire, Close, StageInv, Types, TypeOK, Phased
  <2>2. Types'
    BY <2>1 DEF StageInv, Types, TypeOK, stats, reports, service, history
  <2>3. Phased'
    BY <2>1 DEF StageInv, Phased, WorkersDone
  <2>4. OneKind'
    BY <2>1 DEF StageInv, OneKind, Busy
  <2>5. QED
    BY <2>2, <2>3, <2>4 DEF StageInv
<1>4. QED
  BY <1>1, <1>2, <1>3

LEMMA ChannelKeepsStage ==
    ASSUME StageInv, NEW w \in Worker, Take(w) \/ EndWorker(w)
    PROVE  StageInv'
<1>1. worker \in [Worker -> WorkerType] /\ worker[w].pc = "waiting"
  BY DEF Take, EndWorker, StageInv, Types, TypeOK, WorkerType
<1>2. stage \in Stages
  BY <1>1 DEF StageInv, Phased, WorkersDone
<1>3. CASE Take(w)
  <2>1. /\ jobs \in Seq(Request) /\ jobs # <<>> /\ Len(jobs) <= Cap /\ jobs' = Tail(jobs)
        /\ worker' = [worker EXCEPT ![w] = At("first", Head(jobs), 1, FALSE)]
        /\ UNCHANGED <<cfg, stage, producer, stats, reports, service, history>>
    BY <1>3 DEF Take, StageInv, Types, TypeOK
  <2>2. /\ Head(jobs) \in Request /\ Head(jobs) = jobs[1] /\ 1 \in DOMAIN jobs
        /\ jobs' \in Seq(Request) /\ Len(jobs') <= Cap
        /\ \A i \in DOMAIN jobs' : i + 1 \in DOMAIN jobs /\ jobs'[i] = jobs[i + 1]
    BY <2>1, ConfigAssumption
  <2>3. At("first", Head(jobs), 1, FALSE) \in WorkerType
    BY <2>2, ConfigAssumption DEF At, WorkerType, User
  <2>4. worker' \in [Worker -> WorkerType] /\ worker'[w] = At("first", Head(jobs), 1, FALSE)
        /\ \A v \in Worker \ {w} : worker'[v] = worker[v]
    BY <1>1, <2>1, <2>3
  <2>5. Types'
    BY <2>1, <2>2, <2>4 DEF StageInv, Types, TypeOK, WorkerType, producer, stats, reports, service, history
  <2>6. Phased'
    BY <1>2, <2>1, <2>4 DEF StageInv, Phased, producer, At
  <2>7. OneKind'
    <3>1. worker'[w].pc = "first" /\ worker'[w].job = jobs[1]
      BY <2>2, <2>4 DEF At
    <3>2. \A i \in DOMAIN jobs : jobs[i].kind = KindOf(stage)
      BY DEF StageInv, OneKind
    <3>3. \A i \in DOMAIN jobs' : jobs'[i].kind = KindOf(stage)
      BY <2>2, <3>2
    <3>4. worker'[w].job.kind = KindOf(stage)
      BY <2>2, <3>1, <3>2
    <3>5. \A v \in Worker \ {w} : Busy(v)' => Busy(v)
      BY <2>4 DEF Busy
    <3>6. stage' = stage /\ todo' = todo /\ cfg' = cfg
      BY <2>1 DEF producer
    <3>7. QED
      BY <2>4, <3>1, <3>3, <3>4, <3>5, <3>6 DEF StageInv, OneKind
  <2>8. QED
    BY <2>5, <2>6, <2>7 DEF StageInv
<1>4. CASE EndWorker(w)
  <2>1. /\ jobs = <<>> /\ closed /\ worker' = [worker EXCEPT ![w] = Ended]
        /\ UNCHANGED <<cfg, stage, jobs, producer, stats, reports, service, history>>
    BY <1>4 DEF EndWorker
  <2>2. worker' \in [Worker -> WorkerType] /\ worker'[w].pc = "ended"
        /\ \A v \in Worker \ {w} : worker'[v] = worker[v]
    BY <1>1, <2>1, WaitingIsWorker
  <2>3. Types'
    BY <2>1, <2>2 DEF StageInv, Types, TypeOK, WorkerType, producer, stats, reports, service, history
  <2>4. Phased'
    BY <1>2, <2>1, <2>2 DEF StageInv, Phased, producer
  <2>5. OneKind'
    BY <2>1, <2>2 DEF StageInv, OneKind, Busy, producer
  <2>6. QED
    BY <2>3, <2>4, <2>5 DEF StageInv
<1>5. QED
  BY <1>3, <1>4

\* What a worker is after an answer: the others are as they were.
LEMMA WorkerMoves ==
    ASSUME StageInv, NEW w \in Worker, Busy(w)
    PROVE  /\ \A isOK \in BOOLEAN, hit \in BOOLEAN : Finish(w, isOK, hit) =>
                /\ worker' \in [Worker -> WorkerType] /\ worker'[w].pc = "waiting"
                /\ \A v \in Worker \ {w} : worker'[v] = worker[v]
                /\ ok' \in Nat /\ failed' \in Nat /\ unmade' \subseteq Room
                /\ outcome' \in [1..MaxMessages -> {"none", "ok", "faulty", "failed"}]
           /\ \A pc \in {"create", "join", "again"}, user \in User, hit \in BOOLEAN :
                Continue(w, pc, user, hit) =>
                    /\ worker' \in [Worker -> WorkerType]
                    /\ worker'[w] = At(pc, worker[w].job, user, hit)
                    /\ \A v \in Worker \ {w} : worker'[v] = worker[v]
                    /\ UNCHANGED <<stats, history>>
<1>1. worker \in [Worker -> WorkerType] /\ worker[w].job \in Request /\ worker[w].job.room \in Room
  BY DEF StageInv, Types, TypeOK, WorkerType, Request
<1>2. ASSUME NEW isOK \in BOOLEAN, NEW hit \in BOOLEAN, Finish(w, isOK, hit)
      PROVE  /\ worker' \in [Worker -> WorkerType] /\ worker'[w].pc = "waiting"
             /\ \A v \in Worker \ {w} : worker'[v] = worker[v]
             /\ ok' \in Nat /\ failed' \in Nat /\ unmade' \subseteq Room
             /\ outcome' \in [1..MaxMessages -> {"none", "ok", "faulty", "failed"}]
  <2>1. worker' = [worker EXCEPT ![w] = Waiting]
    BY <1>2 DEF Finish
  <2>2. ok' \in Nat /\ failed' \in Nat
    BY <1>2 DEF Finish, Observe, StageInv, Types, TypeOK
  <2>3. unmade' \subseteq Room /\ outcome' \in [1..MaxMessages -> {"none", "ok", "faulty", "failed"}]
    BY <1>1, <1>2 DEF Finish, StageInv, Types, TypeOK
  <2>4. QED
    BY <1>1, <2>1, <2>2, <2>3, WaitingIsWorker
<1>3. ASSUME NEW pc \in {"create", "join", "again"}, NEW user \in User, NEW hit \in BOOLEAN,
             Continue(w, pc, user, hit)
      PROVE  /\ worker' \in [Worker -> WorkerType]
             /\ worker'[w] = At(pc, worker[w].job, user, hit)
             /\ \A v \in Worker \ {w} : worker'[v] = worker[v]
             /\ UNCHANGED <<stats, history>>
  <2>1. At(pc, worker[w].job, user, hit) \in WorkerType
    BY <1>1 DEF At, WorkerType
  <2>2. QED
    BY <1>1, <1>3, <2>1 DEF Continue
<1>4. QED
  BY <1>2, <1>3

LEMMA FateKeepsService ==
    ASSUME StageInv, NEW w \in Worker, Busy(w), NEW answer, NEW hit, Fate(w, answer, hit)
    PROVE  /\ exists' \subseteq Room /\ exists \subseteq exists'
           /\ members' \in [Room -> SUBSET User] /\ stored' \in [1..MaxMessages -> Nat]
           /\ \A r \in Room : members[r] \subseteq members'[r]
           /\ late' \subseteq Request
<1>1. Pending(worker[w]) \in Request
  BY PendingIsRequest DEF StageInv
<1>2. CASE Handled(Pending(worker[w])) /\ late' = late
  BY <1>1, <1>2, ServiceGrows DEF StageInv, Types, TypeOK
<1>3. CASE UNCHANGED <<exists, members, stored>> /\ late' \subseteq late \cup {Pending(worker[w])}
  BY <1>1, <1>3 DEF StageInv, Types, TypeOK
<1>4. QED
  BY <1>2, <1>3 DEF Fate, service

LEMMA AnswersKeepStage ==
    ASSUME StageInv, NEW w \in Worker, WorkerAnswered(w)
    PROVE  StageInv'
<1>1. Busy(w) /\ UNCHANGED <<cfg, stage, jobs, producer, reports>>
  BY Fates DEF StageInv
<1>2. PICK answer \in {"ok", "missing", "error"}, hit \in BOOLEAN :
        Fate(w, answer, hit) /\ Proceed(w, answer, hit)
  BY Fates DEF StageInv
<1>3. /\ exists' \subseteq Room /\ members' \in [Room -> SUBSET User]
      /\ stored' \in [1..MaxMessages -> Nat] /\ late' \subseteq Request
  BY <1>1, <1>2, FateKeepsService
<1>4. stage \in Stages
  BY <1>1 DEF StageInv, Phased, WorkersDone, Busy
<1>5. CASE \E isOK \in BOOLEAN : Finish(w, isOK, hit)
  <2>1. /\ worker' \in [Worker -> WorkerType] /\ worker'[w].pc = "waiting"
        /\ \A v \in Worker \ {w} : worker'[v] = worker[v]
        /\ ok' \in Nat /\ failed' \in Nat /\ unmade' \subseteq Room
        /\ outcome' \in [1..MaxMessages -> {"none", "ok", "faulty", "failed"}]
    BY <1>1, <1>5, WorkerMoves
  <2>2. Types'
    BY <1>1, <1>3, <2>1 DEF StageInv, Types, TypeOK, WorkerType, producer, reports
  <2>3. Phased'
    BY <1>1, <1>4, <2>1 DEF StageInv, Phased, producer
  <2>4. OneKind'
    BY <1>1, <2>1 DEF StageInv, OneKind, Busy, producer
  <2>5. QED
    BY <2>2, <2>3, <2>4 DEF StageInv
<1>6. CASE \E pc \in {"create", "join", "again"}, user \in User :
             Continue(w, pc, user, hit) /\ worker[w].job.kind = "message" /\ cfg.autoSetup
  <2>1. PICK pc \in {"create", "join", "again"}, user \in User :
             Continue(w, pc, user, hit) /\ worker[w].job.kind = "message" /\ cfg.autoSetup
    BY <1>6
  <2>2. /\ worker' \in [Worker -> WorkerType]
        /\ worker'[w] = At(pc, worker[w].job, user, hit)
        /\ \A v \in Worker \ {w} : worker'[v] = worker[v]
        /\ UNCHANGED <<stats, history>>
    BY <1>1, <2>1, WorkerMoves
  <2>3. worker'[w].pc = pc /\ worker'[w].job = worker[w].job
    BY <2>2 DEF At
  <2>4. Types'
    BY <1>1, <1>3, <2>2 DEF StageInv, Types, TypeOK, WorkerType, producer, reports, stats, history
  <2>5. Phased'
    BY <1>1, <1>4, <2>2, <2>3 DEF StageInv, Phased, producer
  <2>6. OneKind'
    BY <1>1, <2>1, <2>2, <2>3 DEF StageInv, OneKind, Busy, producer
  <2>7. QED
    BY <2>4, <2>5, <2>6 DEF StageInv
<1>7. QED
  BY <1>1, <1>2, <1>5, <1>6, Proceeds

LEMMA OthersKeepStage ==
    ASSUME StageInv, HandledLate \/ ReadOK \/ ReadFailed \/ UNCHANGED vars
    PROVE  StageInv'
<1>1. UNCHANGED <<cfg, stage, jobs, producer, worker, stats, reporting, history>>
  BY DEF HandledLate, ReadOK, ReadFailed, vars, reports
<1>2. /\ exists' \subseteq Room /\ members' \in [Room -> SUBSET User]
      /\ stored' \in [1..MaxMessages -> Nat] /\ late' \subseteq Request /\ report'.ok \in Nat
  <2>1. CASE HandledLate
    <3>1. PICK req \in late : Handled(req) /\ late' = late \ {req} /\ UNCHANGED reports
      BY <2>1 DEF HandledLate
    <3>2. req \in Request
      BY <3>1 DEF StageInv, Types, TypeOK
    <3>3. QED
      BY <3>1, <3>2, ServiceGrows DEF StageInv, Types, TypeOK, reports
  <2>2. CASE ReadOK \/ ReadFailed \/ UNCHANGED vars
    BY <2>2 DEF ReadOK, ReadFailed, NoReport, vars, reports, service, StageInv, Types, TypeOK
  <2>3. QED
    BY <2>1, <2>2
<1>3. Types'
  BY <1>1, <1>2 DEF StageInv, Types, TypeOK, producer, stats, history
<1>4. Phased'
  BY <1>1 DEF StageInv, Phased, WorkersDone, producer
<1>5. OneKind'
  BY <1>1 DEF StageInv, OneKind, Busy, producer
<1>6. QED
  BY <1>3, <1>4, <1>5 DEF StageInv

\* Kinds of steps, as the lemmas of this module take them.
LEMMA StepKinds ==
    ASSUME [Next]_vars
    PROVE  \/ MainStep
           \/ Submit \/ ProduceMessage \/ Expire \/ Close
           \/ \E w \in Worker : Take(w) \/ EndWorker(w)
           \/ \E w \in Worker : WorkerAnswered(w)
           \/ HandledLate \/ ReadOK \/ ReadFailed \/ UNCHANGED vars
BY DEF Next, MainStep, WorkerAnswered

LEMMA StageKeeps == StageInv /\ [Next]_vars => StageInv'
<1> SUFFICES ASSUME StageInv, [Next]_vars PROVE StageInv'
  OBVIOUS
<1>1. QED
  BY StepKinds, MainKeepsStage, ProducersKeepStage, ChannelKeepsStage, AnswersKeepStage, OthersKeepStage

LEMMA StageInit == Init => StageInv
<1> SUFFICES ASSUME Init PROVE StageInv
  OBVIOUS
<1>1. worker \in [Worker -> WorkerType] /\ \A w \in Worker : worker[w].pc = "ended"
  BY WaitingIsWorker DEF Init
<1>2. <<>> \in Seq(Request) /\ Len(<<>>) <= Cap /\ 0 \in 0..MaxMessages
  BY ConfigAssumption
<1>3. Types
  BY <1>1, <1>2 DEF Init, Types, TypeOK, WorkerType, NoReport
<1>4. Phased /\ OneKind
  BY <1>1 DEF Init, Phased, OneKind, WorkersDone, Busy
<1>5. QED
  BY <1>3, <1>4 DEF StageInv

\* The load generator's state keeps its type.
THEOREM TypeCorrect == Spec => []TypeOK
<1>1. StageInv => TypeOK
  BY DEF StageInv, Types
<1>2. QED
  BY <1>1, StageInit, StageKeeps, PTL DEF Spec

-----------------------------------------------------------------------------
(* Counters.                                                                *)

BusyWorkers == {w \in Worker : Busy(w)}

\* Where the counters start from zero, and that messages are counted apart.
FromZero ==
    /\ stage \in {"start", "reset", "preflight"} => submitted = 0
    /\ stage \notin {"messages", "done"} => seq = 0 /\ "messages" \notin reporting
    /\ "messages" \in reporting => submitted = seq
    /\ report.phase = "messages" => "messages" \in reporting /\ report.ok <= ok

CountInv == CountedOnce /\ FromZero

LEMMA BusyCount ==
    /\ IsFiniteSet(BusyWorkers) /\ Cardinality(BusyWorkers) \in Nat
    /\ (\A w \in Worker : ~Busy(w)) => Cardinality(BusyWorkers) = 0
<1>1. IsFiniteSet(Worker) /\ BusyWorkers \in SUBSET Worker
  BY ConfigAssumption DEF BusyWorkers
<1>2. IsFiniteSet(BusyWorkers)
  BY <1>1, FS_Subset
<1>3. Cardinality(BusyWorkers) \in Nat
  BY <1>2, FS_CardinalityType
<1>4. (\A w \in Worker : ~Busy(w)) => BusyWorkers = {}
  BY DEF BusyWorkers
<1>5. QED
  BY <1>2, <1>3, <1>4, FS_EmptySet

Balanced ==
    (IF stage = "reset" THEN ok ELSE ok + failed) + Len(jobs) + Cardinality(BusyWorkers) = submitted

LEMMA Balance == (CountedOnce <=> Balanced) /\ (CountedOnce' <=> Balanced')
<1>1. {w \in Worker : Busy(w)} = BusyWorkers /\ {w \in Worker : Busy(w)'} = BusyWorkers'
  BY DEF BusyWorkers
<1>2. QED
  BY DEF CountedOnce, Balanced, BusyWorkers

\* When the workers of the stage are done, the counters are complete.
LEMMA CountsComplete ==
    ASSUME StageInv, WorkersDone
    PROVE  /\ CountedOnce <=> (IF stage = "reset" THEN ok ELSE ok + failed) = submitted
           /\ Len(jobs) = 0 /\ Cardinality(BusyWorkers) = 0
<1>1. jobs = <<>> /\ \A w \in Worker : ~Busy(w)
  BY NothingLeft
<1>2. Cardinality(BusyWorkers) = 0 /\ Len(jobs) = 0
  BY <1>1, BusyCount
<1>3. ok \in Nat /\ failed \in Nat /\ submitted \in Nat
  BY DEF StageInv, Types, TypeOK
<1>4. QED
  BY <1>2, <1>3, Balance DEF Balanced

LEMMA StartKeepsCount ==
    ASSUME StageInv, CountInv, NEW s \in Stages, Start(s), WorkersDone,
           stage \in {"start", "create", "preflight"}, s = "messages" => stage = "preflight"
    PROVE  CountInv'
<1>1. (ok + failed = submitted) /\ ok \in Nat /\ failed \in Nat /\ submitted \in Nat
  BY CountsComplete DEF CountInv, StageInv, Types, TypeOK
<1>2. jobs' = <<>> /\ stage' = s /\ \A w \in Worker : ~Busy(w)'
  BY WaitingIsWorker DEF Start, Busy
<1>3. Cardinality(BusyWorkers') = 0
  <2>1. BusyWorkers' = {}
    BY <1>2 DEF BusyWorkers
  <2>2. QED
    BY <2>1, FS_EmptySet
<1>4. CountedOnce'
  BY <1>1, <1>2, <1>3, Balance DEF Start, Balanced, stats, Stages
<1>5. FromZero'
  BY <1>2 DEF Start, CountInv, FromZero, Stages, stats
<1>6. QED
  BY <1>4, <1>5 DEF CountInv

LEMMA MainKeepsCount ==
    ASSUME StageInv, CountInv, MainStep
    PROVE  CountInv'
<1>1. ok \in Nat /\ failed \in Nat /\ submitted \in Nat /\ StageInv'
  BY MainKeepsStage DEF StageInv, Types, TypeOK
<1>2. ASSUME NEW s \in {"preflight", "done"}, Goto(s), UNCHANGED stats, WorkersDone, stage # "reset",
             s = "preflight" => stage = "start"
      PROVE  CountInv'
  <2>1. WorkersDone'
    BY <1>2 DEF Goto, WorkersDone
  <2>2. CountedOnce'
    <3>1. BusyWorkers' = BusyWorkers
      BY <1>2 DEF Goto, BusyWorkers, Busy
    <3>2. QED
      BY <1>2, <3>1, Balance DEF Goto, CountInv, Balanced, stats, producer
  <2>3. FromZero'
    BY <1>2 DEF Goto, CountInv, FromZero, stats, producer, reports
  <2>4. QED
    BY <2>2, <2>3 DEF CountInv
<1>3. CASE Unreachable
  BY <1>2, <1>3, Between DEF Unreachable, Stages
<1>4. CASE Begin
  <2>1. WorkersDone /\ stage = "start"
    BY <1>4, Between DEF Begin, Stages
  <2>2. QED
    BY <1>2, <1>4, <2>1, StartKeepsCount DEF Begin, Stages
<1>5. CASE CreateDone
  BY <1>5, StartKeepsCount DEF CreateDone, Stages
<1>6. CASE JoinDone
  <2>1. /\ WorkersDone /\ stage = "join" /\ WorkersDone'
        /\ UNCHANGED <<cfg, jobs, seq, worker, failed, reports>>
    BY <1>6 DEF JoinDone, WorkersDone
  <2>2. \/ stage' = "done" /\ UNCHANGED <<ok, submitted>>
        \/ stage' = "reset" /\ ok' = 0 /\ submitted' = 0
    BY <1>6 DEF JoinDone, ResetOK
  <2>3. Len(jobs) = 0 /\ Cardinality(BusyWorkers) = 0 /\ BusyWorkers' = BusyWorkers
    BY <2>1, CountsComplete DEF BusyWorkers, Busy
  <2>4. CountedOnce'
    BY <1>1, <2>1, <2>2, <2>3, Balance DEF CountInv, Balanced
  <2>5. FromZero'
    BY <2>1, <2>2 DEF CountInv, FromZero, reports
  <2>6. QED
    BY <2>4, <2>5 DEF CountInv
<1>7. CASE ResetFailed
  <2>1. stage = "reset" /\ stage' = "preflight" /\ failed' = 0 /\ ok' = ok /\ WorkersDone
        /\ UNCHANGED <<jobs, producer, worker, reports>>
    BY <1>7, Between DEF ResetFailed, Goto, Stages
  <2>2. Len(jobs) = 0 /\ Cardinality(BusyWorkers) = 0 /\ BusyWorkers' = BusyWorkers
    BY <2>1, CountsComplete DEF BusyWorkers, Busy
  <2>3. CountedOnce'
    BY <1>1, <2>1, <2>2, Balance DEF CountInv, Balanced, producer
  <2>4. FromZero'
    BY <2>1 DEF CountInv, FromZero, reports, producer
  <2>5. QED
    BY <2>3, <2>4 DEF CountInv
<1>8. CASE Preflight
  <2>1. WorkersDone /\ stage = "preflight"
    BY <1>8, Between DEF Preflight, Stages
  <2>2. CASE Start("messages")
    BY <2>1, <2>2, StartKeepsCount DEF Stages
  <2>3. CASE Goto("done") /\ UNCHANGED stats
    BY <1>2, <2>1, <2>3
  <2>4. QED
    BY <1>8, <2>2, <2>3 DEF Preflight
<1>9. CASE MessagesDone
  BY <1>2, <1>9 DEF MessagesDone
<1>10. QED
  BY <1>3, <1>4, <1>5, <1>6, <1>7, <1>8, <1>9 DEF MainStep

LEMMA ProducersKeepCount ==
    ASSUME StageInv, CountInv, Submit \/ ProduceMessage \/ Expire \/ Close
    PROVE  CountInv'
<1>1. /\ ok \in Nat /\ failed \in Nat /\ submitted \in Nat /\ seq \in Nat
      /\ jobs \in Seq(Request) /\ Len(jobs) \in Nat
  BY ConfigAssumption DEF StageInv, Types, TypeOK
<1>2. UNCHANGED <<stage, worker, stats, reports>> /\ BusyWorkers' = BusyWorkers
  BY DEF Submit, ProduceMessage, Expire, Close, BusyWorkers, Busy
<1>3. Cardinality(BusyWorkers) \in Nat
  BY BusyCount
<1>4. CASE Submit \/ ProduceMessage
  <2>1. submitted' = submitted + 1 /\ Len(jobs') = Len(jobs) + 1
    BY <1>1, <1>4 DEF Submit, ProduceMessage, Send
  <2>2. CountedOnce'
    BY <1>1, <1>2, <1>3, <2>1, Balance DEF CountInv, Balanced, stats
  <2>3. \/ stage \notin {"start", "reset", "preflight", "messages", "done"} /\ seq' = seq
        \/ stage = "messages" /\ seq' = seq + 1
    BY <1>4 DEF Submit, ProduceMessage, StageInv, Phased, Stages
  <2>4. FromZero'
    BY <1>1, <1>2, <2>1, <2>3 DEF CountInv, FromZero, stats, reports
  <2>5. QED
    BY <2>2, <2>4 DEF CountInv
<1>5. CASE Expire \/ Close
  <2>1. UNCHANGED <<jobs, seq, submitted>>
    BY <1>5 DEF Expire, Close
  <2>2. QED
    BY <1>2, <2>1 DEF CountInv, CountedOnce, FromZero, BusyWorkers, stats, reports
<1>6. QED
  BY <1>4, <1>5

\* A job is taken, or done: the channel, the workers and the counters pass it on.
LEMMA WorkersKeepCount ==
    ASSUME StageInv, CountInv, NEW w \in Worker, Take(w) \/ EndWorker(w) \/ WorkerAnswered(w)
    PROVE  CountInv'
<1>1. /\ ok \in Nat /\ failed \in Nat /\ submitted \in Nat /\ seq \in Nat
      /\ jobs \in Seq(Request) /\ Len(jobs) \in Nat /\ worker \in [Worker -> WorkerType]
  BY ConfigAssumption DEF StageInv, Types, TypeOK, WorkerType
<1>2. IsFiniteSet(BusyWorkers) /\ Cardinality(BusyWorkers) \in Nat
  BY BusyCount
<1>3. CASE Take(w)
  <2>1. /\ jobs # <<>> /\ jobs' = Tail(jobs) /\ UNCHANGED <<stage, producer, stats, reports>>
        /\ worker' = [worker EXCEPT ![w] = At("first", Head(jobs), 1, FALSE)] /\ ~Busy(w)
    BY <1>3 DEF Take, Busy
  <2>2. Len(jobs') = Len(jobs) - 1
    BY <1>1, <2>1
  <2>3. BusyWorkers' = BusyWorkers \cup {w} /\ w \notin BusyWorkers
    BY <1>1, <2>1 DEF BusyWorkers, Busy, At
  <2>4. Cardinality(BusyWorkers') = Cardinality(BusyWorkers) + 1
    BY <1>2, <2>3, FS_AddElement
  <2>5. CountedOnce'
    <3>1. stage' = stage /\ ok' = ok /\ failed' = failed /\ submitted' = submitted
      BY <2>1 DEF producer, stats
    <3>2. Balanced
      BY Balance DEF CountInv
    <3>3. Balanced'
      BY <1>1, <1>2, <2>2, <2>4, <3>1, <3>2 DEF Balanced
    <3>4. QED
      BY <3>3, Balance
  <2>6. QED
    BY <2>1, <2>5 DEF CountInv, FromZero, producer, stats, reports
<1>4. CASE EndWorker(w)
  <2>1. /\ UNCHANGED <<stage, jobs, producer, stats, reports>>
        /\ worker' = [worker EXCEPT ![w] = Ended] /\ ~Busy(w)
    BY <1>4 DEF EndWorker, Busy
  <2>2. BusyWorkers' = BusyWorkers
    BY <1>1, <2>1, WaitingIsWorker DEF BusyWorkers, Busy
  <2>3. QED
    BY <2>1, <2>2 DEF CountInv, CountedOnce, FromZero, BusyWorkers, producer, stats, reports
<1>5. CASE WorkerAnswered(w)
  <2>1. Busy(w) /\ UNCHANGED <<cfg, stage, jobs, producer, reports>>
    BY <1>5, Fates DEF StageInv
  <2>2. PICK answer \in {"ok", "missing", "error"}, hit \in BOOLEAN : Proceed(w, answer, hit)
    BY <1>5, Fates DEF StageInv
  <2>3. stage \in Stages
    BY <2>1 DEF StageInv, Phased, WorkersDone, Busy
  <2>4. CASE \E isOK \in BOOLEAN : Finish(w, isOK, hit)
    <3>1. \/ ok' = ok + 1 /\ failed' = failed
          \/ ok' = ok /\ failed' = failed + 1
      BY <2>4 DEF Finish, Observe
    <3>2. worker'[w].pc = "waiting" /\ \A v \in Worker \ {w} : worker'[v] = worker[v]
      BY <2>1, <2>4, WorkerMoves
    <3>3. BusyWorkers' = BusyWorkers \ {w} /\ w \in BusyWorkers
      BY <2>1, <3>2 DEF BusyWorkers, Busy
    <3>4. Cardinality(BusyWorkers') = Cardinality(BusyWorkers) - 1
      BY <1>2, <3>3, FS_RemoveElement
    <3>5. CountedOnce'
      <4>1. stage' = stage /\ jobs' = jobs /\ submitted' = submitted /\ stage # "reset"
        BY <2>1, <2>3 DEF producer, Stages
      <4>2. Balanced
        BY Balance DEF CountInv
      <4>3. Balanced'
        BY <1>1, <1>2, <3>1, <3>4, <4>1, <4>2 DEF Balanced
      <4>4. QED
        BY <4>3, Balance
    <3>6. FromZero'
      BY <1>1, <2>1, <3>1 DEF CountInv, FromZero, producer, reports, StageInv, Types
    <3>7. QED
      BY <3>5, <3>6 DEF CountInv
  <2>5. CASE \E pc \in {"create", "join", "again"}, user \in User : Continue(w, pc, user, hit)
    <3>1. PICK pc \in {"create", "join", "again"}, user \in User : Continue(w, pc, user, hit)
      BY <2>5
    <3>2. /\ worker'[w] = At(pc, worker[w].job, user, hit) /\ UNCHANGED stats
          /\ \A v \in Worker \ {w} : worker'[v] = worker[v]
      BY <2>1, <3>1, WorkerMoves
    <3>3. BusyWorkers' = BusyWorkers
      BY <2>1, <3>2 DEF BusyWorkers, Busy, At
    <3>4. QED
      BY <2>1, <3>2, <3>3 DEF CountInv, CountedOnce, FromZero, BusyWorkers, producer, stats, reports
  <2>6. QED
    BY <2>1, <2>2, <2>4, <2>5, Proceeds
<1>6. QED
  BY <1>3, <1>4, <1>5

LEMMA OthersKeepCount ==
    ASSUME StageInv, CountInv, HandledLate \/ ReadOK \/ ReadFailed \/ UNCHANGED vars
    PROVE  CountInv'
<1>1. UNCHANGED <<stage, jobs, producer, worker, stats, reporting>> /\ BusyWorkers' = BusyWorkers
  BY DEF HandledLate, ReadOK, ReadFailed, vars, reports, BusyWorkers, Busy
<1>2. CountedOnce'
  BY <1>1, Balance DEF CountInv, Balanced, producer, stats
<1>3. \/ report' = report \/ report' = NoReport
      \/ report'.phase \in reporting /\ report'.ok = ok
  BY DEF HandledLate, ReadOK, ReadFailed, vars, reports
<1>4. ok \in Nat
  BY DEF StageInv, Types, TypeOK
<1>5. FromZero'
  BY <1>1, <1>3, <1>4 DEF CountInv, FromZero, producer, stats, NoReport
<1>6. QED
  BY <1>2, <1>5 DEF CountInv

LEMMA CountKeeps == StageInv /\ CountInv /\ [Next]_vars => CountInv'
<1> SUFFICES ASSUME StageInv, CountInv, [Next]_vars PROVE CountInv'
  OBVIOUS
<1>1. QED
  BY StepKinds, MainKeepsCount, ProducersKeepCount, WorkersKeepCount, OthersKeepCount

LEMMA CountInit == Init => CountInv
<1> SUFFICES ASSUME Init PROVE CountInv
  OBVIOUS
<1>1. StageInv /\ WorkersDone
  BY StageInit, WaitingIsWorker DEF Init, WorkersDone
<1>2. CountedOnce
  BY <1>1, CountsComplete DEF Init
<1>3. FromZero
  BY DEF Init, FromZero, NoReport
<1>4. QED
  BY <1>2, <1>3 DEF CountInv

LEMMA CountSafe == Spec => [](StageInv /\ CountInv)
BY StageInit, StageKeeps, CountInit, CountKeeps, PTL DEF Spec

\* Every job is counted once, with any number of workers and any faults: what was
\* submitted since the last Reset is counted, in the channel, or with a worker.
THEOREM JobsAreCountedOnce == Spec => []CountedOnce
<1>1. CountInv => CountedOnce
  BY DEF CountInv
<1>2. QED
  BY <1>1, CountSafe, PTL

\* A report of the message stage counts no request of the setup, whichever loop
\* makes it and however it falls between the two resets.
THEOREM ReportsAreOfTheirStage == Spec => ReportsTheirStage
<1>1. StageInv /\ CountInv /\ [Next]_vars =>
        (report.phase = "messages" /\ report' = NoReport => report.ok + failed <= seq)
  <2> SUFFICES ASSUME StageInv, CountInv, report.phase = "messages"
               PROVE  report.ok + failed <= seq
    OBVIOUS
  <2>1. /\ ok \in Nat /\ failed \in Nat /\ submitted \in Nat /\ seq \in Nat /\ report.ok \in Nat
        /\ Len(jobs) \in Nat /\ Cardinality(BusyWorkers) \in Nat
    BY ConfigAssumption, BusyCount DEF StageInv, Types, TypeOK
  <2>2. stage # "reset" /\ report.ok <= ok /\ submitted = seq
    BY DEF CountInv, FromZero
  <2>3. QED
    BY <2>1, <2>2, Balance DEF CountInv, Balanced
<1>2. QED
  BY <1>1, CountSafe, PTL DEF Spec, ReportsTheirStage

-----------------------------------------------------------------------------
(* Setup.                                                                   *)

Outstanding(job) ==
    \/ \E i \in DOMAIN todo : todo[i] = job
    \/ \E i \in DOMAIN jobs : jobs[i] = job
    \/ \E w \in Worker : Busy(w) /\ worker[w].job = job

RoomsCovered ==
    /\ stage = "create" => \A r \in Room : r \in exists \cup unmade \/ Outstanding(Create(r))
    /\ stage = "join" => \A r \in Room : r \in exists \cup unmade

FailedRooms ==
    stage \in {"start", "create", "join", "reset"} /\ failed = 0 => unmade = {}

UsersCovered ==
    stage = "join" /\ failed = 0 =>
        \A r \in Room, u \in User : u \in members[r] \/ Outstanding(Join(r, u))

\* Where a run has come from.
Started ==
    /\ stage = "start" => reporting = {}
    /\ stage \in {"reset", "preflight", "messages"} => cfg.phase # "setup"

SetupInv == Started /\ RoomsCovered /\ FailedRooms /\ UsersCovered /\ SetupIsComplete

\* Nothing of the setup is lost by a step that finishes no job.
LEMMA SetupGoesOn ==
    ASSUME StageInv, SetupInv, UNCHANGED <<cfg, stage, reporting, failed, unmade>>,
           exists \subseteq exists', exists' \subseteq Room,
           members' \in [Room -> SUBSET User], \A r \in Room : members[r] \subseteq members'[r],
           stage \in {"create", "join"} => \A job : Outstanding(job) => Outstanding(job)'
    PROVE  SetupInv'
<1>1. RoomsCovered'
  BY DEF SetupInv, RoomsCovered
<1>2. UsersCovered'
  <2>1. SUFFICES ASSUME stage = "join", failed = 0, NEW r \in Room, NEW u \in User
                 PROVE  u \in members'[r] \/ Outstanding(Join(r, u))'
    BY DEF UsersCovered
  <2>2. u \in members[r] \/ Outstanding(Join(r, u))
    BY <2>1 DEF SetupInv, UsersCovered
  <2>3. QED
    BY <2>1, <2>2
<1>3. SetupIsComplete'
  BY DEF SetupInv, SetupIsComplete
<1>4. QED
  BY <1>1, <1>2, <1>3 DEF SetupInv, Started, FailedRooms

\* An answer takes at most the job of its worker from what is outstanding.
LEMMA OthersStayOutstanding ==
    ASSUME NEW w \in Worker, \A v \in Worker \ {w} : worker'[v] = worker[v], UNCHANGED <<todo, jobs>>,
           NEW job, Outstanding(job), job # worker[w].job \/ (worker'[w].job = job /\ Busy(w)')
    PROVE  Outstanding(job)'
BY DEF Outstanding, Busy

\* A job of the setup that is done has done its work, or is counted as failed.
LEMMA FinishKeepsSetup ==
    ASSUME StageInv, SetupInv, NEW w \in Worker, Busy(w),
           UNCHANGED <<cfg, stage, jobs, producer, reports>>,
           NEW answer \in {"ok", "missing", "error"}, NEW hit \in BOOLEAN, Fate(w, answer, hit),
           NEW isOK \in BOOLEAN, Finish(w, isOK, hit), Ends(w, answer, isOK)
    PROVE  SetupInv'
<1>1. /\ exists' \subseteq Room /\ exists \subseteq exists'
      /\ members' \in [Room -> SUBSET User] /\ \A r \in Room : members[r] \subseteq members'[r]
  BY FateKeepsService
<1>2. \A v \in Worker \ {w} : worker'[v] = worker[v]
  BY WorkerMoves
<1>3. stage \in Stages /\ worker[w].job.kind = KindOf(stage)
  BY DEF StageInv, Phased, OneKind, WorkersDone, Busy
<1>4. \A job : Outstanding(job) => Outstanding(job)' \/ job = worker[w].job
  BY <1>2, OthersStayOutstanding DEF producer
<1>5. unmade \subseteq unmade'
  BY DEF Finish
<1>6. failed \in Nat /\ exists \subseteq Room /\ members \in [Room -> SUBSET User]
  BY DEF StageInv, Types, TypeOK
<1>7. ~isOK => failed' # 0
  BY <1>6 DEF Finish, Observe
<1>8. failed' = 0 => failed = 0
  BY <1>6 DEF Finish, Observe
<1>9. isOK => /\ Handled(worker[w].job) /\ Answer(worker[w].job) = "ok"
  BY DEF Ends, Fate
<1>10. RoomsCovered'
  <2>1. ASSUME stage = "create", NEW r \in Room, worker[w].job = Create(r)
        PROVE  r \in exists' \cup unmade'
    <3>1. CASE isOK
      BY <1>9, <2>1, <3>1 DEF Handled, Create
    <3>2. CASE ~isOK
      BY <2>1, <3>2 DEF Finish, Create
    <3>3. QED
      BY <3>1, <3>2
  <2>2. ASSUME stage = "create", NEW r \in Room
        PROVE  r \in exists' \cup unmade' \/ Outstanding(Create(r))'
    <3>1. r \in exists \cup unmade \/ Outstanding(Create(r))
      BY <2>2 DEF SetupInv, RoomsCovered
    <3>2. QED
      BY <1>1, <1>4, <1>5, <2>1, <2>2, <3>1
  <2>3. ASSUME stage = "join", NEW r \in Room
        PROVE  r \in exists' \cup unmade'
    BY <1>1, <1>5, <2>3 DEF SetupInv, RoomsCovered
  <2>4. QED
    BY <2>2, <2>3 DEF RoomsCovered
<1>11. FailedRooms'
  BY <1>7, <1>8 DEF Finish, SetupInv, FailedRooms
<1>12. UsersCovered'
  <2>1. ASSUME stage = "join", failed' = 0, NEW r \in Room, NEW u \in User,
               worker[w].job = Join(r, u)
        PROVE  u \in members'[r]
    <3>1. Handled(Join(r, u)) /\ Answer(Join(r, u)) = "ok"
      BY <1>7, <1>9, <2>1
    <3>2. QED
      BY <1>6, <3>1 DEF Handled, Join
  <2>2. ASSUME stage = "join", failed' = 0, NEW r \in Room, NEW u \in User
        PROVE  u \in members'[r] \/ Outstanding(Join(r, u))'
    <3>1. u \in members[r] \/ Outstanding(Join(r, u))
      BY <1>8, <2>2 DEF SetupInv, UsersCovered
    <3>2. QED
      BY <1>1, <1>4, <2>1, <2>2, <3>1
  <2>3. QED
    BY <2>2 DEF UsersCovered
<1>13. SetupIsComplete' /\ Started'
  BY <1>3 DEF SetupInv, SetupIsComplete, Started, Stages, reports
<1>14. QED
  BY <1>10, <1>11, <1>12, <1>13 DEF SetupInv

LEMMA AnswersKeepSetup ==
    ASSUME StageInv, SetupInv, NEW w \in Worker, WorkerAnswered(w)
    PROVE  SetupInv'
<1>1. Busy(w) /\ UNCHANGED <<cfg, stage, jobs, producer, reports>>
  BY Fates DEF StageInv
<1>2. PICK answer \in {"ok", "missing", "error"}, hit \in BOOLEAN :
        Fate(w, answer, hit) /\ Proceed(w, answer, hit)
  BY Fates DEF StageInv
<1>3. CASE \E isOK \in BOOLEAN : Finish(w, isOK, hit) /\ Ends(w, answer, isOK)
  BY <1>1, <1>2, <1>3, FinishKeepsSetup
<1>4. CASE \E pc \in {"create", "join", "again"}, user \in User : Continue(w, pc, user, hit)
  <2>1. PICK pc \in {"create", "join", "again"}, user \in User : Continue(w, pc, user, hit)
    BY <1>4
  <2>2. /\ worker'[w] = At(pc, worker[w].job, user, hit) /\ UNCHANGED <<stats, history>>
        /\ \A v \in Worker \ {w} : worker'[v] = worker[v]
    BY <1>1, <2>1, WorkerMoves
  <2>3. worker'[w].job = worker[w].job /\ Busy(w)'
    BY <2>2 DEF At, Busy
  <2>4. \A job : Outstanding(job) => Outstanding(job)'
    BY <1>1, <2>2, <2>3, OthersStayOutstanding DEF producer
  <2>5. /\ exists' \subseteq Room /\ exists \subseteq exists'
        /\ members' \in [Room -> SUBSET User] /\ \A r \in Room : members[r] \subseteq members'[r]
    BY <1>1, <1>2, FateKeepsService
  <2>6. QED
    BY <1>1, <2>2, <2>4, <2>5, SetupGoesOn DEF stats, history, reports
<1>5. QED
  BY <1>1, <1>2, <1>3, <1>4, Proceeds

LEMMA QueuesKeepSetup ==
    ASSUME StageInv, SetupInv,
           \/ Submit \/ ProduceMessage \/ Expire \/ Close
           \/ \E w \in Worker : Take(w) \/ EndWorker(w)
    PROVE  SetupInv'
<1>1. UNCHANGED <<cfg, stage, reporting, failed, unmade, exists, members>>
  BY DEF Submit, ProduceMessage, Expire, Close, Take, EndWorker, stats, reports, service, history
<1>2. exists \subseteq Room /\ members \in [Room -> SUBSET User]
      /\ jobs \in Seq(Request) /\ todo \in Seq(Request) /\ worker \in [Worker -> WorkerType]
  BY DEF StageInv, Types, TypeOK, WorkerType
<1>3. ASSUME stage \in {"create", "join"}, NEW job, Outstanding(job)
      PROVE  Outstanding(job)'
  <2>1. CASE Submit
    <3>1. /\ todo # <<>> /\ todo' = Tail(todo) /\ Send(Head(todo)) /\ worker' = worker
      BY <2>1 DEF Submit
    <3>2. Head(todo) \in Request /\ Head(todo) = todo[1]
      BY <1>2, <3>1
    <3>3. /\ \A i \in DOMAIN jobs : i \in DOMAIN jobs' /\ jobs'[i] = jobs[i]
          /\ Len(jobs') \in DOMAIN jobs' /\ jobs'[Len(jobs')] = Head(todo)
      BY <3>1, <3>2, SendKeepsJobs DEF StageInv
    <3>4. \A i \in DOMAIN todo : i = 1 \/ (i - 1 \in DOMAIN todo' /\ todo'[i - 1] = todo[i])
      BY <1>2, <3>1
    <3>5. CASE \E i \in DOMAIN todo : todo[i] = job
      BY <3>2, <3>3, <3>4, <3>5 DEF Outstanding
    <3>6. CASE \E i \in DOMAIN jobs : jobs[i] = job
      BY <3>3, <3>6 DEF Outstanding
    <3>7. CASE \E w \in Worker : Busy(w) /\ worker[w].job = job
      BY <3>1, <3>7 DEF Outstanding, Busy
    <3>8. QED
      BY <1>3, <3>5, <3>6, <3>7 DEF Outstanding
  <2>2. CASE Expire \/ Close
    BY <1>3, <2>2 DEF Expire, Close, Outstanding, Busy
  <2>3. CASE \E w \in Worker : Take(w)
    <3>1. PICK w \in Worker : Take(w)
      BY <2>3
    <3>2. /\ jobs # <<>> /\ jobs' = Tail(jobs) /\ todo' = todo /\ ~Busy(w)
          /\ worker' = [worker EXCEPT ![w] = At("first", Head(jobs), 1, FALSE)]
      BY <3>1 DEF Take, producer, Busy
    <3>3. /\ worker'[w] = At("first", Head(jobs), 1, FALSE) /\ Head(jobs) = jobs[1]
          /\ \A v \in Worker \ {w} : worker'[v] = worker[v]
          /\ \A i \in DOMAIN jobs : i = 1 \/ (i - 1 \in DOMAIN jobs' /\ jobs'[i - 1] = jobs[i])
      BY <1>2, <3>2
    <3>4. Busy(w)' /\ worker'[w].job = jobs[1]
      BY <3>3 DEF At, Busy
    <3>5. CASE \E i \in DOMAIN jobs : jobs[i] = job
      BY <3>3, <3>4, <3>5 DEF Outstanding
    <3>6. CASE \E i \in DOMAIN todo : todo[i] = job
      BY <3>2, <3>6 DEF Outstanding
    <3>7. CASE \E v \in Worker : Busy(v) /\ worker[v].job = job
      BY <3>2, <3>3, <3>7 DEF Outstanding, Busy
    <3>8. QED
      BY <1>3, <3>5, <3>6, <3>7 DEF Outstanding
  <2>4. CASE \E w \in Worker : EndWorker(w)
    <3>1. PICK w \in Worker : EndWorker(w)
      BY <2>4
    <3>2. UNCHANGED <<jobs, todo>> /\ ~Busy(w) /\ worker' = [worker EXCEPT ![w] = Ended]
      BY <3>1 DEF EndWorker, producer, Busy
    <3>3. \A v \in Worker \ {w} : worker'[v] = worker[v]
      BY <1>2, <3>2
    <3>4. QED
      BY <1>3, <3>2, <3>3 DEF Outstanding, Busy
  <2>5. ~ProduceMessage
    BY <1>3 DEF ProduceMessage
  <2>6. QED
    BY <2>1, <2>2, <2>3, <2>4, <2>5
<1>4. QED
  BY <1>1, <1>2, <1>3, SetupGoesOn

LEMMA OthersKeepSetup ==
    ASSUME StageInv, SetupInv, HandledLate \/ ReadOK \/ ReadFailed \/ UNCHANGED vars
    PROVE  SetupInv'
<1>1. UNCHANGED <<cfg, stage, jobs, producer, worker, stats, reporting, history>>
  BY DEF HandledLate, ReadOK, ReadFailed, vars, reports
<1>2. /\ exists' \subseteq Room /\ exists \subseteq exists'
      /\ members' \in [Room -> SUBSET User] /\ \A r \in Room : members[r] \subseteq members'[r]
  <2>1. CASE HandledLate
    <3>1. PICK req \in late : Handled(req)
      BY <2>1 DEF HandledLate
    <3>2. req \in Request
      BY <3>1 DEF StageInv, Types, TypeOK
    <3>3. QED
      BY <3>1, <3>2, ServiceGrows DEF StageInv
  <2>2. CASE ReadOK \/ ReadFailed \/ UNCHANGED vars
    BY <2>2 DEF ReadOK, ReadFailed, vars, service, StageInv, Types, TypeOK
  <2>3. QED
    BY <2>1, <2>2
<1>3. \A job : Outstanding(job) => Outstanding(job)'
  BY <1>1 DEF Outstanding, Busy, producer
<1>4. QED
  BY <1>1, <1>2, <1>3, SetupGoesOn DEF stats, history

\* What a stage of the setup leaves done, the next one builds on.
LEMMA MainKeepsSetup ==
    ASSUME StageInv, SetupInv, MainStep
    PROVE  SetupInv'
<1>1. UNCHANGED <<cfg, exists, members, unmade>>
  BY DEF MainStep, Unreachable, Begin, CreateDone, JoinDone, ResetFailed, Preflight, MessagesDone,
         Start, Goto, service, history
<1>2. WorkersDone => \A job : ~Outstanding(job)
  BY NothingLeft DEF Outstanding
<1>3. ASSUME stage' \in {"preflight", "done", "messages"}, stage' = "messages" => cfg.phase # "setup",
             stage' = "preflight" => cfg.phase # "setup",
             stage' = "done" => cfg.phase # "setup" \/ reporting' = {}
      PROVE  SetupInv'
  BY <1>1, <1>3 DEF SetupInv, Started, RoomsCovered, FailedRooms, UsersCovered, SetupIsComplete
<1>4. CASE Unreachable
  BY <1>3, <1>4 DEF Unreachable, Goto, SetupInv, Started, reports
<1>5. CASE Begin
  <2>1. CASE cfg.phase = "messages"
    BY <1>3, <1>5, <2>1 DEF Begin, Goto
  <2>2. CASE cfg.phase # "messages"
    <3>1. Start("create") /\ stage = "start" /\ stage' = "create" /\ failed' = failed
      BY <1>5, <2>2 DEF Begin, Start, stats
    <3>2. \A r \in Room : Outstanding(Create(r))'
      <4>1. todo' = [i \in 1..Rooms |-> Create(i)]
        BY <3>1 DEF Start, JobsOf
      <4>2. QED
        BY <4>1 DEF Outstanding, Room
    <3>3. QED
      BY <1>1, <3>1, <3>2 DEF SetupInv, Started, RoomsCovered, FailedRooms, UsersCovered, SetupIsComplete
  <2>3. QED
    BY <2>1, <2>2
<1>6. CASE CreateDone
  <2>1. Start("join") /\ stage = "create" /\ stage' = "join" /\ failed' = failed /\ WorkersDone
        /\ todo' = JobsOf("join")
    BY <1>6 DEF CreateDone, Start, stats
  <2>2. \A r \in Room : r \in exists \cup unmade
    BY <1>2, <2>1 DEF SetupInv, RoomsCovered
  <2>3. \A r \in Room, u \in User : Outstanding(Join(r, u))'
    BY <2>1, EveryUserIsJoined DEF Outstanding
  <2>4. QED
    BY <1>1, <2>1, <2>2, <2>3 DEF SetupInv, Started, RoomsCovered, FailedRooms, UsersCovered, SetupIsComplete
<1>7. CASE JoinDone
  <2>1. /\ stage = "join" /\ WorkersDone /\ failed' = failed /\ reporting' = reporting
        /\ stage' \in {"done", "reset"} /\ (stage' = "reset" => cfg.phase # "setup")
    BY <1>7 DEF JoinDone, reports
  <2>2. failed = 0 => exists = Room /\ \A r \in Room : members[r] = User
    <3>1. SUFFICES ASSUME failed = 0 PROVE exists = Room /\ \A r \in Room : members[r] = User
      OBVIOUS
    <3>2. exists \subseteq Room /\ members \in [Room -> SUBSET User]
      BY DEF StageInv, Types, TypeOK
    <3>3. \A r \in Room : r \in exists
      BY <2>1, <3>1 DEF SetupInv, RoomsCovered, FailedRooms
    <3>4. \A r \in Room, u \in User : u \in members[r]
      BY <1>2, <2>1, <3>1 DEF SetupInv, UsersCovered
    <3>5. QED
      BY <3>2, <3>3, <3>4
  <2>3. QED
    BY <1>1, <2>1, <2>2 DEF SetupInv, Started, RoomsCovered, FailedRooms, UsersCovered, SetupIsComplete
<1>8. CASE ResetFailed
  BY <1>3, <1>8 DEF ResetFailed, Goto, SetupInv, Started
<1>9. CASE Preflight
  BY <1>3, <1>9 DEF Preflight, Goto, Start, SetupInv, Started
<1>10. CASE MessagesDone
  BY <1>3, <1>10 DEF MessagesDone, Goto, SetupInv, Started
<1>11. QED
  BY <1>4, <1>5, <1>6, <1>7, <1>8, <1>9, <1>10 DEF MainStep

LEMMA SetupKeeps == StageInv /\ SetupInv /\ [Next]_vars => SetupInv'
<1> SUFFICES ASSUME StageInv, SetupInv, [Next]_vars PROVE SetupInv'
  OBVIOUS
<1>1. QED
  BY StepKinds, MainKeepsSetup, QueuesKeepSetup, AnswersKeepSetup, OthersKeepSetup

LEMMA SetupSafe == Spec => [](StageInv /\ SetupInv)
<1>1. Init => SetupInv
  BY DEF Init, SetupInv, Started, RoomsCovered, FailedRooms, UsersCovered, SetupIsComplete
<1>2. QED
  BY <1>1, StageInit, StageKeeps, SetupKeeps, PTL DEF Spec

\* No join is on its way to a room whose create is not done or has failed, with any
\* number of rooms and workers: the stages do not overlap.
THEOREM JoinsComeAfterCreates == Spec => []JoinsFindTheirRoom
<1>1. StageInv /\ SetupInv => JoinsFindTheirRoom
  <2> SUFFICES ASSUME StageInv, SetupInv, NEW w \in Worker, Busy(w), worker[w].job.kind = "join",
                      worker[w].job.room \notin exists
               PROVE  worker[w].job.room \in unmade
    BY DEF JoinsFindTheirRoom
  <2>1. stage = "join"
    BY DEF StageInv, OneKind, KindOf
  <2>2. worker[w].job.room \in Room
    BY DEF StageInv, Types, TypeOK, Request
  <2>3. QED
    BY <2>1, <2>2 DEF SetupInv, RoomsCovered
<1>2. QED
  BY <1>1, SetupSafe, PTL

\* A setup that counted no error has created every room and joined every user.
THEOREM CleanSetupIsComplete == Spec => []SetupIsComplete
<1>1. SetupInv => SetupIsComplete
  BY DEF SetupInv
<1>2. QED
  BY <1>1, SetupSafe, PTL

-----------------------------------------------------------------------------
(* Messages.                                                                *)

\* Nobody has sent message m.
Untouched(m) ==
    /\ outcome[m] = "none" /\ stored[m] = 0
    /\ \A req \in late : req.kind = "message" => req.seq # m

HasMessage(w) == Busy(w) /\ worker[w].job.kind = "message"

\* The channel holds the last messages, in the order they were produced.
Numbered == stage = "messages" =>
    /\ Len(jobs) <= seq
    /\ \A i \in DOMAIN jobs : jobs[i].seq = (seq - Len(jobs)) + i

Unsent == \A m \in 1..MaxMessages : m > seq - Len(jobs) => Untouched(m)

\* A message is with one worker, and has not been stored while it is.
Exclusive == \A w \in Worker : HasMessage(w) =>
    /\ worker[w].job.seq \in 1..(seq - Len(jobs))
    /\ Untouched(worker[w].job.seq)
    /\ \A v \in Worker : HasMessage(v) /\ worker[v].job.seq = worker[w].job.seq => v = w

\* A message that is late has been given up, and is there once.
LateOnce == \A req \in late : req.kind = "message" =>
    /\ req.seq \in 1..MaxMessages
    /\ stored[req.seq] = 0 /\ outcome[req.seq] = "faulty"
    /\ \A other \in late : other.kind = "message" /\ other.seq = req.seq => other = req

\* What the setup of a message has reached: rooms and members only grow.
SetUpSoFar == \A w \in Worker :
    LET wk == worker[w]
    IN  /\ wk.pc \in {"join", "again"} => wk.job.room \in exists
        /\ wk.pc = "join" => 1..(wk.user - 1) \subseteq members[wk.job.room]
        /\ wk.pc = "again" => members[wk.job.room] = User

MessageInv == Numbered /\ Unsent /\ Exclusive /\ LateOnce /\ SetUpSoFar
                /\ StoredAtMostOnce /\ OnlyFaultsFail
LEMMA MessageFacts ==
    ASSUME StageInv
    PROVE  /\ seq \in Nat /\ MaxMessages \in Nat /\ seq <= MaxMessages /\ Len(jobs) \in Nat
           /\ jobs \in Seq(Request) /\ worker \in [Worker -> WorkerType]
           /\ stored \in [1..MaxMessages -> Nat] /\ late \subseteq Request
           /\ exists \subseteq Room /\ members \in [Room -> SUBSET User]
           /\ outcome \in [1..MaxMessages -> {"none", "ok", "faulty", "failed"}]
           /\ \A w \in Worker : HasMessage(w) => stage = "messages"
BY ConfigAssumption DEF StageInv, Types, TypeOK, WorkerType, OneKind, HasMessage, KindOf

\* A step that neither sends a message nor handles one.
LEMMA MessagesUntouched ==
    ASSUME UNCHANGED <<late, stored, outcome>>, NEW m
    PROVE  Untouched(m)' <=> Untouched(m)
BY DEF Untouched

LEMMA MainKeepsMessages ==
    ASSUME StageInv, MessageInv, MainStep
    PROVE  MessageInv'
<1>1. WorkersDone
  BY Between DEF MainStep, Unreachable, Begin, CreateDone, JoinDone, ResetFailed, Preflight,
     MessagesDone, Stages
<1>2. jobs = <<>> /\ \A w \in Worker : ~Busy(w)
  BY <1>1, NothingLeft
<1>3. UNCHANGED <<cfg, jobs, seq, exists, members, stored, late, outcome>>
  BY <1>2 DEF MainStep, Unreachable, Begin, CreateDone, JoinDone, ResetFailed, Preflight,
     MessagesDone, Start, Goto, service, history, producer
<1>4. worker' = worker \/ worker' = [w \in Worker |-> Waiting]
  BY DEF MainStep, Unreachable, Begin, CreateDone, JoinDone, ResetFailed, Preflight, MessagesDone,
     Start, Goto
<1>5. \A w \in Worker : ~Busy(w)'
  BY <1>2, <1>4, WaitingIsWorker DEF Busy
<1>6. Numbered'
  BY <1>2, <1>3, MessageFacts DEF Numbered
<1>7. Unsent'
  BY <1>3, MessagesUntouched DEF MessageInv, Unsent
<1>8. Exclusive' /\ SetUpSoFar'
  BY <1>5 DEF Exclusive, HasMessage, SetUpSoFar, Busy
<1>9. QED
  BY <1>3, <1>6, <1>7, <1>8 DEF MessageInv, LateOnce, StoredAtMostOnce, OnlyFaultsFail

LEMMA ProducersKeepMessages ==
    ASSUME StageInv, CountInv, MessageInv, Submit \/ ProduceMessage \/ Expire \/ Close
    PROVE  MessageInv'
<1>1. UNCHANGED <<cfg, stage, worker, exists, members, stored, late, outcome>>
  BY DEF Submit, ProduceMessage, Expire, Close, service, history
<1>2. LateOnce' /\ StoredAtMostOnce' /\ OnlyFaultsFail' /\ SetUpSoFar'
  BY <1>1 DEF MessageInv, LateOnce, StoredAtMostOnce, OnlyFaultsFail, SetUpSoFar
<1>3. \A w \in Worker : HasMessage(w)' <=> HasMessage(w)
  BY <1>1 DEF HasMessage, Busy
<1>4. \A m : Untouched(m)' <=> Untouched(m)
  BY <1>1, MessagesUntouched
<1>5. CASE Submit
  <2>1. stage # "messages" /\ stage # "done" /\ seq' = seq /\ Send(Head(todo)) /\ Head(todo) \in Request
    BY <1>5 DEF Submit, StageInv, Types, TypeOK, Phased, Stages
  <2>2. seq = 0 /\ Len(jobs') \in Nat
    BY <2>1, SendKeepsJobs DEF CountInv, FromZero, StageInv
  <2>3. Numbered'
    BY <1>1, <2>1 DEF Numbered
  <2>4. Unsent'
    <3>1. \A m \in 1..MaxMessages : m > seq - Len(jobs)
      BY <2>2, MessageFacts
    <3>2. QED
      BY <1>4, <3>1 DEF MessageInv, Unsent
  <2>5. Exclusive'
    BY <1>3, <2>1, MessageFacts DEF Exclusive
  <2>6. QED
    BY <1>2, <2>3, <2>4, <2>5 DEF MessageInv
<1>6. CASE ProduceMessage
  <2>1. PICK r \in Room, u \in User : /\ stage = "messages" /\ seq < MaxMessages /\ seq' = seq + 1
                                      /\ Send(Message(r, u, seq + 1))
    BY <1>6 DEF ProduceMessage
  <2>2. Message(r, u, seq + 1) \in Request /\ Message(r, u, seq + 1).seq = seq + 1
    BY <2>1, MessageFacts DEF Message, Request
  <2>3. /\ Len(jobs') = Len(jobs) + 1 /\ jobs' \in Seq(Request)
        /\ \A i \in DOMAIN jobs : i \in DOMAIN jobs' /\ jobs'[i] = jobs[i]
        /\ \A i \in DOMAIN jobs' : i \in DOMAIN jobs \/ i = Len(jobs')
        /\ jobs'[Len(jobs')].seq = seq + 1
    BY <2>1, <2>2, SendKeepsJobs DEF StageInv
  <2>4. seq' - Len(jobs') = seq - Len(jobs)
    BY <2>1, <2>3, MessageFacts
  <2>5. Numbered'
    <3>1. Len(jobs) <= seq /\ \A i \in DOMAIN jobs : jobs[i].seq = (seq - Len(jobs)) + i
      BY <2>1 DEF MessageInv, Numbered
    <3>2. ASSUME NEW i \in DOMAIN jobs' PROVE jobs'[i].seq = (seq' - Len(jobs')) + i
      <4>1. CASE i \in DOMAIN jobs
        BY <2>3, <2>4, <3>1, <4>1
      <4>2. CASE i = Len(jobs')
        BY <2>1, <2>3, <4>2, MessageFacts
      <4>3. QED
        BY <2>3, <3>2, <4>1, <4>2
    <3>3. Len(jobs') <= seq'
      BY <2>1, <2>3, <3>1, MessageFacts
    <3>4. QED
      BY <3>2, <3>3 DEF Numbered
  <2>6. Unsent'
    BY <1>4, <2>4 DEF MessageInv, Unsent
  <2>7. Exclusive'
    BY <1>1, <1>3, <1>4, <2>4 DEF MessageInv, Exclusive
  <2>8. QED
    BY <1>2, <2>5, <2>6, <2>7 DEF MessageInv
<1>7. CASE Expire \/ Close
  <2>1. jobs' = jobs /\ seq' = seq
    BY <1>7 DEF Expire, Close
  <2>2. QED
    BY <1>1, <1>2, <1>3, <1>4, <2>1 DEF MessageInv, Numbered, Unsent, Exclusive
<1>8. QED
  BY <1>5, <1>6, <1>7

\* The worker that takes a message is the only one to have it.
LEMMA ChannelKeepsMessages ==
    ASSUME StageInv, MessageInv, NEW w \in Worker, Take(w) \/ EndWorker(w)
    PROVE  MessageInv'
<1>1. UNCHANGED <<cfg, stage, seq, exists, members, stored, late, outcome>> /\ ~Busy(w)
  BY DEF Take, EndWorker, producer, service, history, Busy
<1>2. LateOnce' /\ StoredAtMostOnce' /\ OnlyFaultsFail'
  BY <1>1 DEF MessageInv, LateOnce, StoredAtMostOnce, OnlyFaultsFail
<1>3. \A m : Untouched(m)' <=> Untouched(m)
  BY <1>1, MessagesUntouched
<1>4. CASE Take(w)
  <2>1. /\ jobs # <<>> /\ jobs' = Tail(jobs)
        /\ worker' = [worker EXCEPT ![w] = At("first", Head(jobs), 1, FALSE)]
    BY <1>4 DEF Take
  <2>2. /\ worker'[w] = At("first", jobs[1], 1, FALSE)
        /\ \A v \in Worker \ {w} : worker'[v] = worker[v]
        /\ Len(jobs') = Len(jobs) - 1 /\ Len(jobs) >= 1 /\ 1 \in DOMAIN jobs
        /\ \A i \in DOMAIN jobs' : i + 1 \in DOMAIN jobs /\ jobs'[i] = jobs[i + 1] /\ i \in Nat
    BY <2>1, MessageFacts
  <2>3. worker'[w].pc = "first" /\ worker'[w].job = jobs[1]
    BY <2>2 DEF At
  <2>4. Numbered'
    <3>1. SUFFICES ASSUME stage = "messages"
                   PROVE  /\ Len(jobs') <= seq
                          /\ \A i \in DOMAIN jobs' : jobs'[i].seq = (seq - Len(jobs')) + i
      BY <1>1 DEF Numbered
    <3>2. Len(jobs) <= seq /\ \A i \in DOMAIN jobs : jobs[i].seq = (seq - Len(jobs)) + i
      BY <3>1 DEF MessageInv, Numbered
    <3>3. ASSUME NEW i \in DOMAIN jobs' PROVE jobs'[i].seq = (seq - Len(jobs')) + i
      <4>1. jobs'[i].seq = (seq - Len(jobs)) + (i + 1) /\ i \in Nat
        BY <2>2, <3>2, <3>3
      <4>2. QED
        BY <2>2, <4>1, MessageFacts
    <3>4. QED
      BY <2>2, <3>2, <3>3, MessageFacts
  <2>5. Unsent'
    BY <1>1, <1>3, <2>2, MessageFacts DEF MessageInv, Unsent
  <2>6. Exclusive'
    <3>1. ASSUME NEW v \in Worker \ {w}
          PROVE  (HasMessage(v)' <=> HasMessage(v)) /\ worker'[v].job = worker[v].job
      BY <2>2 DEF HasMessage, Busy
    <3>2. HasMessage(w)' =>
            /\ jobs[1].seq = seq - Len(jobs) + 1 /\ jobs[1].seq \in 1..(seq - Len(jobs'))
            /\ Untouched(jobs[1].seq)
      <4>1. SUFFICES ASSUME HasMessage(w)' 
                     PROVE  /\ jobs[1].seq = seq - Len(jobs) + 1 /\ jobs[1].seq \in 1..(seq - Len(jobs'))
                            /\ Untouched(jobs[1].seq)
        OBVIOUS
      <4>2. stage = "messages"
        <5>1. jobs[1].kind = "message" /\ jobs[1].kind = KindOf(stage)
          BY <2>2, <2>3, <4>1 DEF HasMessage, StageInv, OneKind
        <5>2. QED
          BY <5>1 DEF KindOf, StageInv, Types, TypeOK
      <4>3. Len(jobs) <= seq /\ jobs[1].seq = seq - Len(jobs) + 1
        BY <2>2, <4>2, MessageFacts DEF MessageInv, Numbered
      <4>4. jobs[1].seq \in 1..MaxMessages /\ jobs[1].seq > seq - Len(jobs)
        BY <2>2, <4>3, MessageFacts
      <4>5. QED
        BY <2>2, <4>3, <4>4, MessageFacts DEF MessageInv, Unsent
    <3>3. ASSUME NEW v \in Worker \ {w}, HasMessage(v)
          PROVE  /\ worker[v].job.seq \in 1..(seq - Len(jobs)) /\ worker[v].job.seq \in 1..(seq - Len(jobs'))
                 /\ Untouched(worker[v].job.seq)
      BY <2>2, <3>3, MessageFacts DEF MessageInv, Exclusive
    <3>4. ASSUME NEW v \in Worker \ {w}, HasMessage(v), HasMessage(w)'
          PROVE  worker[v].job.seq # jobs[1].seq
      BY <3>2, <3>3, <3>4, MessageFacts
    <3>5. ASSUME NEW v \in Worker, HasMessage(v)'
          PROVE  /\ worker'[v].job.seq \in 1..(seq' - Len(jobs'))
                 /\ \A m : m = worker'[v].job.seq => Untouched(m)'
      <4>1. CASE v = w
        BY <1>1, <1>3, <2>3, <3>2, <3>5, <4>1
      <4>2. CASE v # w
        BY <1>1, <1>3, <3>1, <3>3, <3>5, <4>2
      <4>3. QED
        BY <4>1, <4>2
    <3>6. ASSUME NEW v \in Worker, NEW u \in Worker, HasMessage(v)', HasMessage(u)',
                 worker'[u].job.seq = worker'[v].job.seq
          PROVE  u = v
      <4>1. CASE u # w /\ v # w
        <5>1. HasMessage(u) /\ HasMessage(v) /\ worker[u].job.seq = worker[v].job.seq
          BY <3>1, <3>6, <4>1
        <5>2. QED
          BY <5>1 DEF MessageInv, Exclusive
      <4>2. CASE u = w /\ v # w
        BY <2>3, <3>1, <3>4, <3>6, <4>2
      <4>3. CASE u # w /\ v = w
        BY <2>3, <3>1, <3>4, <3>6, <4>3
      <4>4. QED
        BY <4>1, <4>2, <4>3
    <3>7. QED
      BY <3>5, <3>6 DEF Exclusive, Untouched
  <2>7. SetUpSoFar'
    BY <1>1, <2>2, <2>3 DEF MessageInv, SetUpSoFar
  <2>8. QED
    BY <1>2, <2>4, <2>5, <2>6, <2>7 DEF MessageInv
<1>5. CASE EndWorker(w)
  <2>1. jobs' = jobs /\ worker' = [worker EXCEPT ![w] = Ended]
    BY <1>5 DEF EndWorker
  <2>2. worker'[w].pc = "ended" /\ \A v \in Worker \ {w} : worker'[v] = worker[v]
    BY <2>1, MessageFacts, WaitingIsWorker
  <2>3. \A v \in Worker : HasMessage(v)' => v # w /\ HasMessage(v) /\ worker'[v] = worker[v]
    BY <2>2 DEF HasMessage, Busy
  <2>4. Exclusive'
    BY <1>1, <1>3, <2>1, <2>3 DEF MessageInv, Exclusive
  <2>5. SetUpSoFar'
    BY <1>1, <2>2 DEF MessageInv, SetUpSoFar
  <2>6. QED
    BY <1>1, <1>2, <1>3, <2>1, <2>4, <2>5 DEF MessageInv, Numbered, Unsent
<1>6. QED
  BY <1>4, <1>5
\* What a worker has set up stays set up while others work: rooms and members are
\* only added.
LEMMA OthersSetUpStays ==
    ASSUME StageInv, SetUpSoFar, exists \subseteq exists',
           members' \in [Room -> SUBSET User], \A r \in Room : members[r] \subseteq members'[r],
           NEW v \in Worker, worker'[v] = worker[v]
    PROVE  LET wk == worker'[v]
           IN  /\ wk.pc \in {"join", "again"} => wk.job.room \in exists'
               /\ wk.pc = "join" => 1..(wk.user - 1) \subseteq members'[wk.job.room]
               /\ wk.pc = "again" => members'[wk.job.room] = User
<1> DEFINE r == worker[v].job.room
           before == 1..(worker[v].user - 1)
<1>1. /\ worker[v].pc \in {"join", "again"} => r \in exists
      /\ worker[v].pc = "join" => before \subseteq members[r]
      /\ worker[v].pc = "again" => members[r] = User
  BY DEF SetUpSoFar
<1>2. r \in Room \/ worker[v].pc \notin {"join", "again"}
  BY MessageFacts, <1>1
<1>3. worker[v].pc \in {"join", "again"} => members[r] \subseteq members'[r] /\ members'[r] \subseteq User
  BY <1>2
<1> HIDE DEF before, r
<1>4. /\ worker[v].pc \in {"join", "again"} => r \in exists'
      /\ worker[v].pc = "join" => before \subseteq members'[r]
      /\ worker[v].pc = "again" => members'[r] = User
  BY <1>1, <1>3
<1>5. QED
  BY <1>4 DEF before, r

\* What the fate of a request does to the messages: only the worker's own is
\* touched, and only if its job is what was sent.
LEMMA FateOfMessages ==
    ASSUME StageInv, MessageInv, NEW w \in Worker, Busy(w),
           NEW answer \in {"ok", "missing", "error"}, NEW hit \in BOOLEAN, Fate(w, answer, hit)
    PROVE  /\ \A m \in 1..MaxMessages : (HasMessage(w) /\ worker[w].job.seq = m) \/ stored'[m] = stored[m]
           /\ \A req \in late' : req.kind = "message" /\ req \notin late =>
                HasMessage(w) /\ req = worker[w].job /\ answer = "error" /\ stored' = stored
           /\ HasMessage(w) => stored'[worker[w].job.seq] \in {0, 1}
           /\ answer = "error" => hit
           /\ answer # "error" => late' = late /\ Handled(Pending(worker[w])) /\ answer = Answer(Pending(worker[w]))
           /\ HasMessage(w) /\ answer = "ok" /\ Pending(worker[w]) = worker[w].job =>
                stored'[worker[w].job.seq] = 1
           /\ answer = "missing" \/ worker[w].pc \in {"create", "join"} => stored' = stored
<1> DEFINE wk == worker[w]
           req == Pending(wk)
           s == wk.job.seq
<1>1. wk \in WorkerType /\ wk.pc \in {"first", "create", "join", "again"} /\ req \in Request
  BY PendingIsRequest DEF StageInv, Types, TypeOK, WorkerType, Busy
<1>2. \/ wk.pc \in {"first", "again"} /\ req = wk.job
      \/ wk.pc \in {"create", "join"} /\ req.kind # "message"
  BY <1>1 DEF Pending, Create, Join
<1>3. req.kind = "message" => req = wk.job /\ HasMessage(w)
  BY <1>2 DEF HasMessage
<1>4. HasMessage(w) => s \in 1..MaxMessages /\ stored[s] = 0
  BY MessageFacts DEF MessageInv, Exclusive, Untouched
<1>5. Handled(req) =>
        /\ \A m \in 1..MaxMessages : (HasMessage(w) /\ s = m) \/ stored'[m] = stored[m]
        /\ HasMessage(w) => stored'[s] \in {0, 1}
        /\ Answer(req) = "missing" => stored' = stored
        /\ wk.pc \in {"create", "join"} => stored' = stored
        /\ HasMessage(w) /\ Answer(req) = "ok" /\ req = wk.job => stored'[s] = 1
  <2> HIDE DEF wk, req, s
  <2>1. SUFFICES ASSUME Handled(req)
                 PROVE  /\ \A m \in 1..MaxMessages : (HasMessage(w) /\ s = m) \/ stored'[m] = stored[m]
                        /\ HasMessage(w) => stored'[s] \in {0, 1}
                        /\ Answer(req) = "missing" => stored' = stored
                        /\ wk.pc \in {"create", "join"} => stored' = stored
                        /\ HasMessage(w) /\ Answer(req) = "ok" /\ req = wk.job => stored'[s] = 1
    OBVIOUS
  <2>2. CASE req.kind = "message" /\ Answer(req) = "ok"
    <3>1. stored' = [stored EXCEPT ![s] = @ + 1]
      BY <1>3, <2>1, <2>2 DEF Handled, s
    <3>2. HasMessage(w) /\ stored'[s] = 1
      BY <1>3, <1>4, <2>2, <3>1, MessageFacts
    <3>3. \A m \in 1..MaxMessages : s = m \/ stored'[m] = stored[m]
      BY <3>1, MessageFacts
    <3>4. QED
      BY <1>2, <2>2, <3>2, <3>3
  <2>3. CASE ~(req.kind = "message" /\ Answer(req) = "ok")
    <3>1. stored' = stored
      BY <2>1, <2>3 DEF Handled
    <3>2. HasMessage(w) /\ req = wk.job => req.kind = "message"
      BY DEF HasMessage, wk
    <3>3. QED
      BY <1>4, <2>3, <3>1, <3>2
  <2>4. QED
    BY <2>2, <2>3
<1>6. CASE Handled(req) /\ late' = late /\ answer = Answer(req)
  <2>1. answer # "error"
    BY <1>6 DEF Answer
  <2>2. QED
    BY <1>5, <1>6, <2>1
<1>7. CASE answer = "error" /\ hit = TRUE /\ Handled(req) /\ late' = late
  BY <1>5, <1>7
<1>8. CASE answer = "error" /\ hit = TRUE /\ stored' = stored /\ late' \subseteq late \cup {req}
  BY <1>3, <1>4, <1>8
<1>9. QED
  BY <1>6, <1>7, <1>8 DEF Fate, service

\* How a message of a worker ends: stored once if it was OK, at most once if not.
LEMMA FinishKeepsMessages ==
    ASSUME StageInv, MessageInv, NEW w \in Worker, Busy(w),
           UNCHANGED <<cfg, stage, jobs, producer, reports>>,
           NEW answer \in {"ok", "missing", "error"}, NEW hit \in BOOLEAN, Fate(w, answer, hit),
           NEW isOK \in BOOLEAN, Finish(w, isOK, hit), Ends(w, answer, isOK)
    PROVE  MessageInv'
<1> DEFINE s == worker[w].job.seq
           result == IF isOK THEN "ok" ELSE IF hit THEN "faulty" ELSE "failed"
<1>1. /\ exists' \subseteq Room /\ exists \subseteq exists'
      /\ members' \in [Room -> SUBSET User] /\ \A r \in Room : members[r] \subseteq members'[r]
  BY FateKeepsService
<1>2. worker'[w].pc = "waiting" /\ \A v \in Worker \ {w} : worker'[v] = worker[v]
  BY WorkerMoves
<1>3. seq' = seq /\ jobs' = jobs
  BY DEF producer
<1>4. outcome' = IF HasMessage(w) THEN [outcome EXCEPT ![s] = result] ELSE outcome
  BY DEF Finish, HasMessage
<1>5. HasMessage(w) => /\ s \in 1..MaxMessages /\ s <= seq - Len(jobs) /\ Untouched(s)
                       /\ outcome'[s] = result
  BY <1>4, MessageFacts DEF MessageInv, Exclusive
<1>6. \A m \in 1..MaxMessages : (HasMessage(w) /\ s = m) \/ outcome'[m] = outcome[m]
  BY <1>4, MessageFacts
<1>7. \A m \in 1..MaxMessages : Untouched(m) /\ ~(HasMessage(w) /\ s = m) => Untouched(m)'
  BY <1>6, FateOfMessages DEF Untouched
<1>8. Numbered'
  BY <1>3 DEF MessageInv, Numbered
<1>9. Unsent'
  <2>1. \A m \in 1..MaxMessages : m > seq - Len(jobs) => ~(HasMessage(w) /\ s = m)
    BY <1>5, MessageFacts
  <2>2. QED
    BY <1>3, <1>7, <2>1 DEF MessageInv, Unsent
<1>10. Exclusive'
  <2>1. ASSUME NEW v \in Worker, HasMessage(v)'
        PROVE  HasMessage(v) /\ v # w /\ worker'[v] = worker[v]
    BY <1>2, <2>1 DEF HasMessage, Busy
  <2>2. ASSUME NEW v \in Worker, HasMessage(v)'
        PROVE  /\ worker'[v].job.seq \in 1..(seq' - Len(jobs'))
               /\ \A m : m = worker'[v].job.seq => Untouched(m)'
    <3>1. /\ worker[v].job.seq \in 1..(seq - Len(jobs)) /\ Untouched(worker[v].job.seq)
          /\ worker[v].job.seq \in 1..MaxMessages
      BY <2>1, <2>2, MessageFacts DEF MessageInv, Exclusive
    <3>2. ~(HasMessage(w) /\ s = worker[v].job.seq)
      BY <2>1, <2>2 DEF MessageInv, Exclusive
    <3>3. QED
      BY <1>3, <1>7, <2>1, <2>2, <3>1, <3>2
  <2>3. ASSUME NEW v \in Worker, NEW u \in Worker, HasMessage(v)', HasMessage(u)',
               worker'[u].job.seq = worker'[v].job.seq
        PROVE  u = v
    BY <2>1, <2>3 DEF MessageInv, Exclusive
  <2>4. QED
    BY <2>2, <2>3 DEF Exclusive, Untouched
<1>11. ASSUME NEW req \in late', req.kind = "message", req \notin late
       PROVE  /\ HasMessage(w) /\ req = worker[w].job /\ req.seq = s
              /\ stored'[s] = 0 /\ outcome'[s] = "faulty"
  <2>1. HasMessage(w) /\ req = worker[w].job /\ answer = "error" /\ stored' = stored /\ hit
    BY <1>11, FateOfMessages
  <2>2. ~isOK
    BY <2>1 DEF Ends
  <2>3. QED
    BY <1>5, <2>1, <2>2 DEF Untouched
<1>12. ASSUME NEW req \in late, req.kind = "message"
       PROVE  /\ req.seq \in 1..MaxMessages /\ ~(HasMessage(w) /\ s = req.seq)
              /\ stored'[req.seq] = 0 /\ outcome'[req.seq] = "faulty"
  <2>1. req.seq \in 1..MaxMessages /\ stored[req.seq] = 0 /\ outcome[req.seq] = "faulty"
    BY <1>12 DEF MessageInv, LateOnce
  <2>2. ~(HasMessage(w) /\ s = req.seq)
    BY <1>5, <1>12 DEF Untouched
  <2>3. QED
    BY <1>6, <2>1, <2>2, FateOfMessages
<1>13. LateOnce'
  <2>1. ASSUME NEW req \in late', req.kind = "message"
        PROVE  req.seq \in 1..MaxMessages /\ stored'[req.seq] = 0 /\ outcome'[req.seq] = "faulty"
    <3>1. CASE req \in late
      BY <1>12, <2>1, <3>1
    <3>2. CASE req \notin late
      BY <1>5, <1>11, <2>1, <3>2
    <3>3. QED
      BY <3>1, <3>2
  <2>2. ASSUME NEW req \in late', NEW other \in late', req.kind = "message", other.kind = "message",
               other.seq = req.seq
        PROVE  other = req
    <3>1. CASE req \in late /\ other \in late
      BY <2>2, <3>1 DEF MessageInv, LateOnce
    <3>2. CASE req \notin late /\ other \notin late
      BY <1>11, <2>2, <3>2
    <3>3. CASE req \in late /\ other \notin late
      BY <1>11, <1>12, <2>2, <3>3
    <3>4. CASE req \notin late /\ other \in late
      BY <1>11, <1>12, <2>2, <3>4
    <3>5. QED
      BY <3>1, <3>2, <3>3, <3>4
  <2>3. QED
    BY <2>1, <2>2 DEF LateOnce
<1>14. StoredAtMostOnce'
  <2>1. ASSUME NEW m \in 1..MaxMessages
        PROVE  stored'[m] <= 1 /\ (outcome'[m] = "ok" => stored'[m] = 1)
    <3>1. CASE HasMessage(w) /\ s = m
      <4>1. isOK => stored'[s] = 1
        BY <3>1, FateOfMessages DEF Ends
      <4>2. stored'[s] \in {0, 1}
        BY <3>1, FateOfMessages
      <4>3. QED
        BY <1>5, <3>1, <4>1, <4>2
    <3>2. CASE ~(HasMessage(w) /\ s = m)
      BY <1>6, <3>2, FateOfMessages DEF MessageInv, StoredAtMostOnce
    <3>3. QED
      BY <3>1, <3>2
  <2>2. QED
    BY <2>1 DEF StoredAtMostOnce
<1>15. OnlyFaultsFail'
  <2>1. SUFFICES ASSUME cfg.autoSetup, HasMessage(w), ~isOK, ~hit PROVE FALSE
    <3>1. SUFFICES ASSUME cfg.autoSetup PROVE \A m \in 1..MaxMessages : outcome'[m] # "failed"
      BY DEF OnlyFaultsFail
    <3>2. HasMessage(w) => isOK \/ hit
      BY <2>1, <3>1
    <3>3. HasMessage(w) => result # "failed"
      BY <3>2
    <3>4. QED
      BY <1>5, <1>6, <3>1, <3>3 DEF MessageInv, OnlyFaultsFail
  <2>2. /\ answer # "error" /\ answer = Answer(Pending(worker[w])) /\ answer # "ok"
        /\ worker[w].pc = "first" => answer # "missing"
    BY <2>1, FateOfMessages DEF Ends, HasMessage
  <2>3. /\ worker[w].pc \in {"first", "create", "join", "again"} /\ worker[w].job.room \in Room
        /\ worker[w].job.user \in User
    BY DEF StageInv, Types, TypeOK, Busy, Request
  <2>4. worker[w].pc # "create"
    BY <2>2 DEF Pending, Answer, Create
  <2>5. worker[w].pc # "join"
    BY <2>2 DEF MessageInv, SetUpSoFar, Pending, Answer, Join
  <2>6. worker[w].pc # "again"
    BY <2>2, <2>3 DEF MessageInv, SetUpSoFar, Pending, Answer
  <2>7. QED
    BY <2>2, <2>3, <2>4, <2>5, <2>6
<1>16. SetUpSoFar'
  <2>1. ASSUME NEW v \in Worker \ {w}
        PROVE  LET wk == worker'[v]
               IN  /\ wk.pc \in {"join", "again"} => wk.job.room \in exists'
                   /\ wk.pc = "join" => 1..(wk.user - 1) \subseteq members'[wk.job.room]
                   /\ wk.pc = "again" => members'[wk.job.room] = User
    BY <1>1, <1>2, OthersSetUpStays DEF MessageInv
  <2>2. QED
    BY <1>2, <2>1 DEF SetUpSoFar
<1>17. QED
  BY <1>8, <1>9, <1>10, <1>13, <1>14, <1>15, <1>16 DEF MessageInv

\* A worker that sets up the room of its message: each answer brings it one step
\* nearer, and its message stays unsent.
LEMMA ContinueKeepsMessages ==
    ASSUME StageInv, MessageInv, NEW w \in Worker, Busy(w),
           UNCHANGED <<cfg, stage, jobs, producer, reports>>,
           NEW answer \in {"ok", "missing", "error"}, NEW hit \in BOOLEAN, Fate(w, answer, hit),
           NEW pc \in {"create", "join", "again"}, NEW user \in User,
           Continue(w, pc, user, hit), GoesOn(w, answer, pc, user)
    PROVE  MessageInv'
<1>1. /\ exists' \subseteq Room /\ exists \subseteq exists'
      /\ members' \in [Room -> SUBSET User] /\ \A r \in Room : members[r] \subseteq members'[r]
  BY FateKeepsService
<1>2. /\ worker'[w] = At(pc, worker[w].job, user, hit) /\ UNCHANGED <<stats, history>>
      /\ \A v \in Worker \ {w} : worker'[v] = worker[v]
  BY WorkerMoves
<1>3. worker'[w].pc = pc /\ worker'[w].job = worker[w].job /\ worker'[w].user = user
  BY <1>2 DEF At
<1>4. seq' = seq /\ jobs' = jobs /\ outcome' = outcome
  BY <1>2 DEF producer, history
<1>5. answer # "error" /\ (answer = "missing" \/ worker[w].pc \in {"create", "join"})
  BY DEF GoesOn
<1>6. stored' = stored /\ late' = late /\ Handled(Pending(worker[w])) /\ answer = Answer(Pending(worker[w]))
  BY <1>5, FateOfMessages
<1>7. \A m : Untouched(m)' <=> Untouched(m)
  BY <1>4, <1>6, MessagesUntouched
<1>8. \A v \in Worker : (HasMessage(v)' <=> HasMessage(v)) /\ worker'[v].job = worker[v].job
  BY <1>2, <1>3 DEF HasMessage, Busy
<1>9. Numbered' /\ Unsent' /\ LateOnce' /\ StoredAtMostOnce' /\ OnlyFaultsFail'
  BY <1>4, <1>6, <1>7 DEF MessageInv, Numbered, Unsent, LateOnce, StoredAtMostOnce, OnlyFaultsFail
<1>10. Exclusive'
  <2>1. ASSUME NEW v \in Worker, HasMessage(v)'
        PROVE  /\ worker'[v].job.seq \in 1..(seq' - Len(jobs'))
               /\ \A m : m = worker'[v].job.seq => Untouched(m)'
    BY <1>4, <1>7, <1>8, <2>1 DEF MessageInv, Exclusive
  <2>2. ASSUME NEW v \in Worker, NEW u \in Worker, HasMessage(v)', HasMessage(u)',
               worker'[u].job.seq = worker'[v].job.seq
        PROVE  u = v
    BY <1>8, <2>2 DEF MessageInv, Exclusive
  <2>3. QED
    BY <2>1, <2>2 DEF Exclusive, Untouched
<1>11. ASSUME NEW v \in Worker
       PROVE  LET wk == worker'[v]
              IN  /\ wk.pc \in {"join", "again"} => wk.job.room \in exists'
                  /\ wk.pc = "join" => 1..(wk.user - 1) \subseteq members'[wk.job.room]
                  /\ wk.pc = "again" => members'[wk.job.room] = User
  <2>1. worker[v].job.room \in Room /\ worker[v].user \in User
    BY DEF StageInv, Types, TypeOK, Request
  <2>2. CASE v # w
    BY <1>1, <1>2, <2>2, OthersSetUpStays DEF MessageInv
  <2>3. CASE v = w
    <3> DEFINE r == worker[w].job.room
    <3>1. r \in Room /\ UsersPerRoom \in Nat \ {0} /\ worker[w].user \in 1..UsersPerRoom
      BY <2>1, <2>3, ConfigAssumption DEF User
    <3>2. CASE pc = "create"
      BY <1>3, <2>3, <3>2
    <3>3. CASE worker[w].pc = "create"
      <4>1. pc = "join" /\ user = 1 /\ r \in exists'
        BY <1>6, <3>3 DEF GoesOn, Pending, Handled, Create
      <4>2. 1..(user - 1) = {}
        BY <4>1
      <4>3. QED
        BY <1>3, <2>3, <4>1, <4>2
    <3>4. CASE worker[w].pc = "join"
      <4>1. /\ r \in exists /\ 1..(worker[w].user - 1) \subseteq members[r]
        BY <3>4 DEF MessageInv, SetUpSoFar
      <4>2. worker[w].user \in members'[r]
        <5>1. answer = "ok" /\ Pending(worker[w]) = Join(r, worker[w].user)
          BY <3>4 DEF GoesOn, Pending
        <5>2. members' = [members EXCEPT ![r] = @ \cup {worker[w].user}]
          BY <1>6, <5>1 DEF Handled, Join
        <5>3. QED
          BY <3>1, <5>2, MessageFacts
      <4>3. 1..worker[w].user \subseteq members'[r] /\ r \in exists'
        <5>1. \A u \in 1..worker[w].user : u = worker[w].user \/ u \in 1..(worker[w].user - 1)
          BY <3>1
        <5>2. QED
          BY <1>1, <3>1, <4>1, <4>2, <5>1
      <4>4. CASE pc = "join" /\ user = worker[w].user + 1
        <5>1. user - 1 = worker[w].user
          BY <3>1, <4>4
        <5>2. QED
          BY <1>3, <2>3, <4>3, <4>4, <5>1
      <4>5. CASE pc = "again" /\ worker[w].user = UsersPerRoom
        <5>1. members'[r] = User
          BY <1>1, <3>1, <4>3, <4>5 DEF User
        <5>2. QED
          BY <1>3, <2>3, <4>3, <4>5, <5>1
      <4>6. QED
        BY <3>4, <4>4, <4>5 DEF GoesOn
    <3>5. QED
      BY <3>2, <3>3, <3>4 DEF GoesOn
  <2>4. QED
    BY <2>2, <2>3
<1>12. SetUpSoFar'
  BY <1>11 DEF SetUpSoFar
<1>13. QED
  BY <1>9, <1>10, <1>12 DEF MessageInv

LEMMA AnswersKeepMessages ==
    ASSUME StageInv, MessageInv, NEW w \in Worker, WorkerAnswered(w)
    PROVE  MessageInv'
<1>1. Busy(w) /\ UNCHANGED <<cfg, stage, jobs, producer, reports>>
  BY Fates DEF StageInv
<1>2. PICK answer \in {"ok", "missing", "error"}, hit \in BOOLEAN :
        Fate(w, answer, hit) /\ Proceed(w, answer, hit)
  BY Fates DEF StageInv
<1>3. CASE \E isOK \in BOOLEAN : Finish(w, isOK, hit) /\ Ends(w, answer, isOK)
  BY <1>1, <1>2, <1>3, FinishKeepsMessages
<1>4. CASE \E pc \in {"create", "join", "again"}, user \in User :
             Continue(w, pc, user, hit) /\ GoesOn(w, answer, pc, user)
  BY <1>1, <1>2, <1>4, ContinueKeepsMessages
<1>5. QED
  BY <1>1, <1>2, <1>3, <1>4, Proceeds

\* A late request is handled when its message has long been given up.
LEMMA LateKeepsMessages ==
    ASSUME StageInv, MessageInv, HandledLate
    PROVE  MessageInv'
<1>1. PICK req \in late : Handled(req) /\ late' = late \ {req}
  BY DEF HandledLate
<1>2. UNCHANGED <<cfg, stage, jobs, seq, worker, outcome>>
  BY DEF HandledLate, producer, history
<1>3. req \in Request
  BY <1>1, MessageFacts
<1>4. /\ exists' \subseteq Room /\ exists \subseteq exists'
      /\ members' \in [Room -> SUBSET User] /\ \A r \in Room : members[r] \subseteq members'[r]
  BY <1>1, <1>3, ServiceGrows DEF StageInv
<1>5. req.kind = "message" => /\ req.seq \in 1..MaxMessages /\ stored[req.seq] = 0
                              /\ outcome[req.seq] = "faulty"
                              /\ \A other \in late' : other.kind = "message" => other.seq # req.seq
  BY <1>1 DEF MessageInv, LateOnce
<1>6. \A m \in 1..MaxMessages : (req.kind = "message" /\ m = req.seq) \/ stored'[m] = stored[m]
  BY <1>1, MessageFacts DEF Handled
<1>7. req.kind = "message" => stored'[req.seq] \in {0, 1}
  BY <1>1, <1>5, MessageFacts DEF Handled
<1>8. \A m \in 1..MaxMessages : Untouched(m) => Untouched(m)'
  BY <1>1, <1>2, <1>6 DEF Untouched
<1>9. Numbered' /\ OnlyFaultsFail'
  BY <1>2 DEF MessageInv, Numbered, OnlyFaultsFail
<1>10. Unsent'
  BY <1>2, <1>8 DEF MessageInv, Unsent
<1>11. Exclusive'
  <2>1. \A v \in Worker : HasMessage(v)' <=> HasMessage(v)
    BY <1>2 DEF HasMessage, Busy
  <2>2. ASSUME NEW v \in Worker, HasMessage(v)
        PROVE  /\ worker'[v].job.seq \in 1..(seq' - Len(jobs'))
               /\ \A m : m = worker'[v].job.seq => Untouched(m)'
    <3>1. worker[v].job.seq \in 1..MaxMessages
      BY <2>2, MessageFacts DEF MessageInv, Exclusive
    <3>2. QED
      BY <1>2, <1>8, <2>2, <3>1 DEF MessageInv, Exclusive
  <2>3. QED
    BY <1>2, <2>1, <2>2 DEF MessageInv, Exclusive, Untouched
<1>12. LateOnce'
  <2>1. ASSUME NEW other \in late', other.kind = "message"
        PROVE  /\ other.seq \in 1..MaxMessages
               /\ stored'[other.seq] = 0 /\ outcome'[other.seq] = "faulty"
    <3>1. /\ other.seq \in 1..MaxMessages /\ stored[other.seq] = 0 /\ outcome[other.seq] = "faulty"
      BY <1>1, <2>1 DEF MessageInv, LateOnce
    <3>2. QED
      BY <1>2, <1>5, <1>6, <2>1, <3>1
  <2>2. QED
    BY <1>1, <2>1 DEF MessageInv, LateOnce
<1>13. StoredAtMostOnce'
  <2>1. ASSUME NEW m \in 1..MaxMessages
        PROVE  stored'[m] <= 1 /\ (outcome'[m] = "ok" => stored'[m] = 1)
    <3>1. CASE req.kind = "message" /\ m = req.seq
      BY <1>2, <1>5, <1>7, <3>1
    <3>2. CASE ~(req.kind = "message" /\ m = req.seq)
      BY <1>2, <1>6, <3>2 DEF MessageInv, StoredAtMostOnce
    <3>3. QED
      BY <3>1, <3>2
  <2>2. QED
    BY <2>1 DEF StoredAtMostOnce
<1>14. SetUpSoFar'
  <2>1. \A v \in Worker : worker[v].job.room \in Room
    BY DEF StageInv, Types, TypeOK, Request
  <2>2. QED
    BY <1>2, <1>4, <2>1 DEF MessageInv, SetUpSoFar
<1>15. QED
  BY <1>9, <1>10, <1>11, <1>12, <1>13, <1>14 DEF MessageInv

LEMMA MessagesKeep == StageInv /\ CountInv /\ MessageInv /\ [Next]_vars => MessageInv'
<1> SUFFICES ASSUME StageInv, CountInv, MessageInv, [Next]_vars PROVE MessageInv'
  OBVIOUS
<1>1. CASE ReadOK \/ ReadFailed \/ UNCHANGED vars
  <2>1. UNCHANGED <<cfg, stage, jobs, seq, worker, exists, members, stored, late, outcome>>
    BY <1>1 DEF ReadOK, ReadFailed, vars, producer, service, history
  <2>2. QED
    BY <2>1 DEF MessageInv, Numbered, Unsent, Exclusive, LateOnce, SetUpSoFar, StoredAtMostOnce,
       OnlyFaultsFail, Untouched, HasMessage, Busy
<1>2. QED
  BY <1>1, StepKinds, MainKeepsMessages, ProducersKeepMessages, ChannelKeepsMessages,
     AnswersKeepMessages, LateKeepsMessages

LEMMA MessagesSafe == Spec => [](StageInv /\ CountInv /\ MessageInv)
<1>1. Init => MessageInv
  <2> SUFFICES ASSUME Init PROVE MessageInv
    OBVIOUS
  <2>1. \A w \in Worker : worker[w].pc = "ended"
    BY WaitingIsWorker DEF Init
  <2>2. QED
    BY <2>1 DEF Init, MessageInv, Numbered, Unsent, Exclusive, LateOnce, SetUpSoFar, StoredAtMostOnce,
       OnlyFaultsFail, Untouched, HasMessage, Busy
<1>2. QED
  BY <1>1, StageInit, StageKeeps, CountInit, CountKeeps, MessagesKeep, PTL DEF Spec

\* No message is stored twice, and one that was counted as OK is stored, however
\* many workers set up rooms and send again, and whatever is handled late.
THEOREM MessagesAreStoredOnce == Spec => []StoredAtMostOnce
<1>1. MessageInv => StoredAtMostOnce
  BY DEF MessageInv
<1>2. QED
  BY <1>1, MessagesSafe, PTL

\* With auto-setup only faults make a message fail: workers that set up the same
\* room do not disturb each other, for any number of workers, rooms and users.
THEOREM AutoSetupHeals == Spec => []OnlyFaultsFail
<1>1. MessageInv => OnlyFaultsFail
  BY DEF MessageInv
<1>2. QED
  BY <1>1, MessagesSafe, PTL
=============================================================================
