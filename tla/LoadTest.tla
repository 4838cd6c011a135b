------------------------------ MODULE LoadTest ------------------------------
(***************************************************************************)
(* The load generator (internal/loadtest).  Run goes through stages: one   *)
(* creates the rooms, one joins the users, one posts messages.  A stage is *)
(* a producer that fills a bounded channel and closes it, workers that     *)
(* take jobs from it, and a report loop that nobody waits for; it is over  *)
(* when every worker has seen the channel closed and empty.                *)
(*                                                                         *)
(* The chat service is what its answers say: rooms and members, which only *)
(* grow under this load, and the messages it stored.  A request may be     *)
(* refused for another reason, and the answer to one that times out never  *)
(* comes, while the service may have handled it or may handle it later.    *)
(***************************************************************************)
EXTENDS Integers, Sequences, FiniteSets

CONSTANTS
    Rooms,        \* Config.Rooms
    UsersPerRoom, \* Config.UsersPerRoom
    Worker,       \* the workers of a stage
    Cap,          \* capacity of the job channel, a multiple of Workers
    Faults,       \* what may happen to a request: "refused", "lost", "late"
    MaxMessages,  \* bound: jobs of the message stage
    MaxLate       \* bound: timed-out requests the service has not handled yet

ASSUME ConfigAssumption ==
    /\ Rooms \in Nat \ {0} /\ UsersPerRoom \in Nat \ {0}
    /\ Worker # {} /\ IsFiniteSet(Worker) /\ Cap \in Nat \ {0}
    /\ Faults \subseteq {"refused", "lost", "late"}
    /\ MaxMessages \in Nat /\ MaxLate \in Nat

Room == 1..Rooms
User == 1..UsersPerRoom

VARIABLES
    cfg,        \* the flags phase and auto-setup
    stage,      \* where Run is
    todo,       \* jobs the producer of a setup stage has not submitted yet
    jobs,       \* the channel
    closed,     \* the producer closed it
    expired,    \* the context of the message stage has ended
    seq,        \* messages produced
    worker,     \* what each worker does
    ok, failed, \* the counters of Stats
    reporting,  \* stages whose report loop was started
    report,     \* the report being made: its stage and the first counter it read
    exists,     \* the service: its rooms
    members,    \* the service: users in each room
    stored,     \* the service: how often it stored each message
    late,       \* the service: requests it will handle although nobody waits
    submitted,  \* history: jobs submitted since the last Reset
    unmade,     \* history: rooms whose create job failed
    outcome     \* history: what became of each message

producer == <<todo, closed, expired, seq, submitted>>
stats == <<ok, failed>>
reports == <<reporting, report>>
service == <<exists, members, stored, late>>
history == <<unmade, outcome>>
vars == <<cfg, stage, jobs, producer, worker, stats, reports, service, history>>

Request == [kind : {"create", "join", "message"}, room : Room, user : User, seq : 0..MaxMessages]

Create(r) == [kind |-> "create", room |-> r, user |-> 1, seq |-> 0]
Join(r, u) == [kind |-> "join", room |-> r, user |-> u, seq |-> 0]
Message(r, u, s) == [kind |-> "message", room |-> r, user |-> u, seq |-> s]

\* A worker: the job it has, how far it got, the user it joins next, and
\* whether a fault hit a request of this job.
At(pc, job, user, hit) == [pc |-> pc, job |-> job, user |-> user, hit |-> hit]
Waiting == At("waiting", Create(1), 1, FALSE)
Ended == At("ended", Create(1), 1, FALSE)

NoReport == [phase |-> "none", ok |-> 0]

Init ==
    /\ cfg \in [phase : {"setup", "messages", "all"}, autoSetup : BOOLEAN]
    /\ stage = "start"
    /\ jobs = <<>> /\ todo = <<>> /\ closed = TRUE /\ expired = FALSE /\ seq = 0
    /\ worker = [w \in Worker |-> Ended]
    /\ ok = 0 /\ failed = 0
    /\ reporting = {} /\ report = NoReport
    /\ exists \in SUBSET Room
    /\ members \in [Room -> SUBSET User]
    /\ \A r \in Room \ exists : members[r] = {}
    /\ stored = [m \in 1..MaxMessages |-> 0]
    /\ late = {}
    /\ submitted = 0
    /\ unmade = {} /\ outcome = [m \in 1..MaxMessages |-> "none"]

-----------------------------------------------------------------------------
(* Run and its stages.                                                      *)

\* Mutant of JobsOf: rooms and users are set up in one stage.
JobsInOneStage(s) ==
    IF s = "create"
    THEN [i \in 1..2 * Rooms |-> IF i <= Rooms THEN Create(i) ELSE Join(i - Rooms, 1)]
    ELSE <<>>

\* The jobs of a setup stage in the order of its producer: one room after the
\* other, and in it one user after the other.
JobsOf(s) ==
    CASE s = "create" -> [i \in 1..Rooms |-> Create(i)]
      [] s = "join" -> [i \in 1..Rooms * UsersPerRoom |->
                          Join(((i - 1) \div UsersPerRoom) + 1, ((i - 1) % UsersPerRoom) + 1)]
      [] s = "messages" -> <<>>

Start(s) ==
    /\ stage' = s
    /\ todo' = JobsOf(s) /\ jobs' = <<>> /\ closed' = FALSE
    /\ worker' = [w \in Worker |-> Waiting]
    /\ reporting' = reporting \cup {s}
    /\ UNCHANGED <<cfg, expired, seq, submitted, stats, report, service, history>>

Goto(s) ==
    /\ stage' = s
    /\ UNCHANGED <<cfg, jobs, producer, worker, reports, service, history>>

\* preflightServer: if the service does not answer, nothing is sent.
Unreachable == stage = "start" /\ Goto("done") /\ UNCHANGED stats

Begin ==
    /\ stage = "start"
    /\ IF cfg.phase = "messages" THEN Goto("preflight") /\ UNCHANGED stats ELSE Start("create")

\* Mutant of WorkersDone: a stage ends with its channel, not with its workers.
ChannelDrained == closed /\ jobs = <<>>

\* wg.Wait: the workers of the stage have returned.
WorkersDone == \A w \in Worker : worker[w].pc = "ended"

\* Reset stores zero into the counters one after the other, while the report
\* loop of the last stage may still read them.
ResetOK == ok' = 0 /\ submitted' = 0

CreateDone == stage = "create" /\ WorkersDone /\ Start("join")

\* Mutant of JoinDone: the counters are not reset.
JoinDoneNoReset ==
    /\ stage = "join" /\ WorkersDone
    /\ stage' = IF cfg.phase = "setup" THEN "done" ELSE "preflight"
    /\ UNCHANGED <<cfg, jobs, producer, worker, stats, reports, service, history>>

JoinDone ==
    /\ stage = "join" /\ WorkersDone
    /\ IF cfg.phase = "setup"
       THEN stage' = "done" /\ UNCHANGED <<ok, submitted>>
       ELSE stage' = "reset" /\ ResetOK
    /\ UNCHANGED <<cfg, jobs, todo, closed, expired, seq, worker, failed, reports, service, history>>

ResetFailed ==
    /\ stage = "reset"
    /\ failed' = 0
    /\ Goto("preflight")
    /\ UNCHANGED ok

\* The first user must be in the first room, as far as the service can be asked;
\* with auto-setup the answer is only logged.  The flag preflight, which turns the
\* check off, is read only here, so its value is chosen here.
Preflight == \E preflight, read \in BOOLEAN :
    /\ stage = "preflight"
    /\ ~read => Faults # {}
    /\ IF cfg.autoSetup \/ ~preflight \/ (read /\ 1 \in members[1])
       THEN Start("messages") ELSE Goto("done") /\ UNCHANGED stats

MessagesDone == stage = "messages" /\ WorkersDone /\ Goto("done") /\ UNCHANGED stats

-----------------------------------------------------------------------------
(* Producers.                                                               *)

\* Mutant of Send: the channel has no limit.
SendUnbounded(job) ==
    /\ jobs' = Append(jobs, job)
    /\ submitted' = submitted + 1

Send(job) ==
    /\ Len(jobs) < Cap
    /\ jobs' = Append(jobs, job)
    /\ submitted' = submitted + 1

Submit ==
    /\ todo # <<>>
    /\ Send(Head(todo))
    /\ todo' = Tail(todo)
    /\ UNCHANGED <<cfg, stage, closed, expired, seq, worker, stats, reports, service, history>>

\* submitMessageJob chooses between the channel and the end of the context: a
\* batch may go on after it.
ProduceMessage == \E r \in Room, u \in User :
    /\ stage = "messages" /\ ~closed /\ seq < MaxMessages
    /\ Send(Message(r, u, seq + 1))
    /\ seq' = seq + 1
    /\ UNCHANGED <<cfg, stage, todo, closed, expired, worker, stats, reports, service, history>>

Expire ==
    /\ stage = "messages" /\ ~expired
    /\ expired' = TRUE
    /\ UNCHANGED <<cfg, stage, jobs, todo, closed, seq, submitted, worker, stats, reports, service, history>>

\* Mutant of Close: the producer of messages returns without closing.
CloseSetup ==
    /\ stage \in {"create", "join"} /\ ~closed /\ todo = <<>>
    /\ closed' = TRUE
    /\ UNCHANGED <<cfg, stage, jobs, todo, expired, seq, submitted, worker, stats, reports, service, history>>

Close ==
    /\ ~closed /\ todo = <<>>
    /\ stage = "messages" => expired
    /\ closed' = TRUE
    /\ UNCHANGED <<cfg, stage, jobs, todo, expired, seq, submitted, worker, stats, reports, service, history>>

-----------------------------------------------------------------------------
(* Workers.                                                                 *)

Take(w) ==
    /\ worker[w].pc = "waiting" /\ jobs # <<>>
    /\ worker' = [worker EXCEPT ![w] = At("first", Head(jobs), 1, FALSE)]
    /\ jobs' = Tail(jobs)
    /\ UNCHANGED <<cfg, stage, producer, stats, reports, service, history>>

EndWorker(w) ==
    /\ worker[w].pc = "waiting" /\ jobs = <<>> /\ closed
    /\ worker' = [worker EXCEPT ![w] = Ended]
    /\ UNCHANGED <<cfg, stage, jobs, producer, stats, reports, service, history>>

\* The request the worker waits for.
Pending(wk) ==
    CASE wk.pc \in {"first", "again"} -> wk.job
      [] wk.pc = "create" -> Create(wk.job.room)
      [] wk.pc = "join" -> Join(wk.job.room, wk.user)

\* What the service answers: a room or a sender it does not know is the
\* missing setup that isMissingSetupError looks for.
Answer(req) ==
    IF \/ req.kind # "create" /\ req.room \notin exists
       \/ req.kind = "message" /\ req.user \notin members[req.room]
    THEN "missing" ELSE "ok"

Handled(req) ==
    /\ exists' = IF req.kind = "create" THEN exists \cup {req.room} ELSE exists
    /\ members' = IF req.kind = "join" /\ Answer(req) = "ok"
                  THEN [members EXCEPT ![req.room] = @ \cup {req.user}] ELSE members
    /\ stored' = IF req.kind = "message" /\ Answer(req) = "ok"
                 THEN [stored EXCEPT ![req.seq] = @ + 1] ELSE stored

\* Mutants: a failure is counted on both sides; a room's last user is not
\* joined; a message is sent again after any error.
ObserveTwice(isOK) ==
    /\ ok' = ok + 1
    /\ failed' = IF isOK THEN failed ELSE failed + 1

JoinsAllButOne(u) == u + 1 < UsersPerRoom

ResendsAlways(answer) == TRUE

\* Stats.Observe.
Observe(isOK) ==
    /\ ok' = IF isOK THEN ok + 1 ELSE ok
    /\ failed' = IF isOK THEN failed ELSE failed + 1

\* Whether another user is to be joined after u.
MoreUsers(u) == u < UsersPerRoom

isMissingSetupError(answer) == answer = "missing"

Finish(w, isOK, hit) ==
    LET job == worker[w].job
        result == IF isOK THEN "ok" ELSE IF hit THEN "faulty" ELSE "failed"
    IN  /\ Observe(isOK)
        /\ worker' = [worker EXCEPT ![w] = Waiting]
        /\ unmade' = IF job.kind = "create" /\ ~isOK THEN unmade \cup {job.room} ELSE unmade
        /\ outcome' = IF job.kind = "message" THEN [outcome EXCEPT ![job.seq] = result] ELSE outcome

Continue(w, pc, user, hit) ==
    /\ worker' = [worker EXCEPT ![w] = At(pc, @.job, user, hit)]
    /\ UNCHANGED <<stats, history>>

\* messageJob and ensureRoomSetup: after the answer to one request, the next
\* one or the end of the job.
Proceed(w, answer, hit) ==
    LET wk == worker[w]
    IN  CASE wk.pc = "first" ->
               IF /\ answer # "ok" /\ wk.job.kind = "message"
                  /\ cfg.autoSetup /\ isMissingSetupError(answer)
               THEN Continue(w, "create", 1, hit) ELSE Finish(w, answer = "ok", hit)
          [] wk.pc = "create" ->
               IF answer = "ok" THEN Continue(w, "join", 1, hit) ELSE Finish(w, FALSE, hit)
          [] wk.pc = "join" ->
               IF answer # "ok" THEN Finish(w, FALSE, hit)
               ELSE IF MoreUsers(wk.user) THEN Continue(w, "join", wk.user + 1, hit)
               ELSE Continue(w, "again", 1, hit)
          [] wk.pc = "again" -> Finish(w, answer = "ok", hit)

Busy(w) == worker[w].pc \notin {"waiting", "ended"}

Answered(w) ==
    /\ Busy(w)
    /\ LET req == Pending(worker[w])
       IN  Handled(req) /\ Proceed(w, Answer(req), worker[w].hit)
    /\ UNCHANGED <<cfg, stage, jobs, producer, reports, late>>

\* An answer that is not 2xx for a reason of the service, before it did anything;
\* an answer that is lost; a timeout before the service took the request.
Refused(w) ==
    /\ "refused" \in Faults /\ Busy(w)
    /\ Proceed(w, "error", TRUE)
    /\ UNCHANGED <<cfg, stage, jobs, producer, reports, service>>

AnswerLost(w) ==
    /\ "lost" \in Faults /\ Busy(w)
    /\ Handled(Pending(worker[w]))
    /\ Proceed(w, "error", TRUE)
    /\ UNCHANGED <<cfg, stage, jobs, producer, reports, late>>

TimedOut(w) ==
    /\ "late" \in Faults /\ Busy(w) /\ Cardinality(late) < MaxLate
    /\ late' = late \cup {Pending(worker[w])}
    /\ Proceed(w, "error", TRUE)
    /\ UNCHANGED <<cfg, stage, jobs, producer, reports, exists, members, stored>>

HandledLate == \E req \in late :
    /\ Handled(req)
    /\ late' = late \ {req}
    /\ UNCHANGED <<cfg, stage, jobs, producer, worker, stats, reports, history>>

-----------------------------------------------------------------------------
(* Report loops.  Nobody waits for one: it may still make a report when its   *)
(* stage is long over.  One report is made at a time.                         *)

ReadOK == \E p \in reporting :
    /\ report = NoReport
    /\ report' = [phase |-> p, ok |-> ok]
    /\ UNCHANGED <<cfg, stage, jobs, producer, worker, stats, reporting, service, history>>

ReadFailed ==
    /\ report # NoReport
    /\ report' = NoReport
    /\ UNCHANGED <<cfg, stage, jobs, producer, worker, stats, reporting, service, history>>

-----------------------------------------------------------------------------
MainStep ==
    \/ Unreachable \/ Begin \/ CreateDone \/ JoinDone \/ ResetFailed \/ Preflight \/ MessagesDone

WorkerStep(w) == Take(w) \/ EndWorker(w) \/ Answered(w) \/ Refused(w) \/ AnswerLost(w) \/ TimedOut(w)

Next ==
    \/ Unreachable \/ Begin \/ CreateDone \/ JoinDone \/ ResetFailed \/ Preflight \/ MessagesDone
    \/ Submit \/ ProduceMessage \/ Expire \/ Close
    \/ \E w \in Worker : \/ Take(w) \/ EndWorker(w)
                         \/ Answered(w) \/ Refused(w) \/ AnswerLost(w) \/ TimedOut(w)
    \/ HandledLate
    \/ ReadOK \/ ReadFailed

Spec == Init /\ [][Next]_vars

\* The scheduler runs main, producers and workers; the client's timeout answers
\* every request; the context of the message stage ends.  Nothing makes the
\* service handle what timed out, or a report loop look at its channel.
Fairness ==
    /\ WF_vars(MainStep) /\ WF_vars(Submit) /\ WF_vars(Expire) /\ WF_vars(Close)
    /\ \A w \in Worker : WF_vars(WorkerStep(w))

FairSpec == Spec /\ Fairness
-----------------------------------------------------------------------------
(* Properties.                                                              *)

TypeOK ==
    /\ stage \in {"start", "create", "join", "reset", "preflight", "messages", "done"}
    /\ jobs \in Seq(Request) /\ Len(jobs) <= Cap
    /\ todo \in Seq(Request)
    /\ closed \in BOOLEAN /\ expired \in BOOLEAN /\ seq \in 0..MaxMessages
    /\ worker \in [Worker -> [pc : {"waiting", "first", "create", "join", "again", "ended"},
                              job : Request, user : User, hit : BOOLEAN]]
    /\ ok \in Nat /\ failed \in Nat /\ submitted \in Nat
    /\ reporting \subseteq {"create", "join", "messages"}
    /\ exists \subseteq Room /\ members \in [Room -> SUBSET User]
    /\ stored \in [1..MaxMessages -> Nat]
    /\ late \subseteq Request
    /\ unmade \subseteq Room
    /\ outcome \in [1..MaxMessages -> {"none", "ok", "faulty", "failed"}]

\* Every job is counted once, and a stage's counters are not touched by a worker
\* of the one before: what was submitted since the last Reset is counted, in the
\* channel, or with a worker (jobs.go:12-26, setup.go:34-47, run.go:28-33).
CountedOnce ==
    LET counted == IF stage = "reset" THEN ok ELSE ok + failed
    IN  counted + Len(jobs) + Cardinality({w \in Worker : Busy(w)}) = submitted

\* No join overtakes the create of its room: one that finds no room means that
\* the create failed (setup.go:33-47).
JoinsFindTheirRoom == \A w \in Worker :
    LET job == worker[w].job
    IN  Busy(w) /\ job.kind = "join" /\ job.room \notin exists => job.room \in unmade

\* A setup whose summary counts no error is complete: every room exists and has
\* all its users, and it is complete by then, not only once a late answer is in
\* (setup.go:12-28).
SetupIsComplete ==
    /\ stage = "reset" \/ (stage = "done" /\ cfg.phase = "setup" /\ "join" \in reporting)
    /\ failed = 0
    => exists = Room /\ \A r \in Room : members[r] = User

\* A message is stored at most once, and once if it was counted as ok: it is sent
\* again only after an answer that says it was not stored, whatever timed out or
\* was handled late, here or in other workers (messages.go:88-97).
StoredAtMostOnce == \A s \in 1..MaxMessages :
    stored[s] <= 1 /\ (outcome[s] = "ok" => stored[s] = 1)

\* With auto-setup a message fails only when one of its own requests was hit by
\* a fault: several workers that set up the same room at the same time do not
\* disturb each other, and what the setup found done it does not break
\* (auto_setup.go:24-36, messages.go:89-97).
OnlyFaultsFail == cfg.autoSetup => \A s \in 1..MaxMessages : outcome[s] # "failed"

\* A report of the message stage counts no request of the setup, although the
\* counters are reset and read one by one, without a lock, and the loops of the
\* setup may still be reading (run.go:32, stats.go:36-44,62-66).
ReportsTheirStage == [][
    report.phase = "messages" /\ report' = NoReport => report.ok + failed <= seq]_vars

\* A run comes to its end, whatever the service answers or does not answer.
LoadEnds == <>(stage = "done")
=============================================================================
