----------------------------- MODULE RoomProofs -----------------------------
(***************************************************************************)
(* Proofs about one room, for every set of nicks, connections and strings, *)
(* every trimming function, and any number of messages and late writes.    *)
(***************************************************************************)
EXTENDS Room, HandlerLemmas

-----------------------------------------------------------------------------
(* Lemmas about the handlers.                                               *)

\* A negative start keeps the newest k elements, in order.
LEMMA FromIndexNewest ==
    ASSUME NEW S, NEW s \in Seq(S), NEW k \in Nat \ {0}
    PROVE  IsNewest(FromIndex(s, - k), s, k)
<1> DEFINE first == IF Len(s) - k < 0 THEN 0 ELSE Len(s) - k
<1>1. Len(s) \in Nat /\ first \in Nat /\ first <= Len(s)
  OBVIOUS
<1>2. FromIndex(s, - k) = SubSeq(s, first + 1, Len(s))
  <2>1. ~(- k >= 0) /\ Len(s) + (- k) = Len(s) - k
    BY <1>1
  <2>2. QED
    BY <2>1 DEF FromIndex
<1>3. \A i \in (first + 1)..Len(s) : s[i] \in S
  BY <1>1
<1> DEFINE r == SubSeq(s, first + 1, Len(s))
<1>4. /\ Len(r) = IF first + 1 <= Len(s) THEN Len(s) - (first + 1) + 1 ELSE 0
      /\ \A i \in 1..(Len(s) - (first + 1) + 1) : r[i] = s[(first + 1) + i - 1]
  <2> HIDE DEF first
  <2>1. first + 1 \in Int /\ Len(s) \in Int
    BY <1>1
  <2>2. QED
    BY <1>3, <2>1, SubSeqProperties
<1>5. Len(r) = IF Len(s) < k THEN Len(s) ELSE k
  <2> HIDE DEF r
  <2>1. QED
    BY <1>1, <1>4
<1>6. first = Len(s) - Len(r)
  <2> HIDE DEF r
  <2>1. CASE Len(s) < k
    BY <1>1, <1>5, <2>1
  <2>2. CASE ~(Len(s) < k)
    BY <1>1, <1>5, <2>2
  <2>3. QED
    BY <2>1, <2>2
<1>7. \A i \in 1..Len(r) : r[i] = s[Len(s) - Len(r) + i]
  <2> HIDE DEF r, first
  <2>1. QED
    <3>1. TAKE i \in 1..Len(r)
    <3>2. i \in Int /\ Len(r) \in Int /\ first \in Int /\ Len(s) \in Int
      BY <1>1, <1>5
    <3>3. i \in 1..(Len(s) - (first + 1) + 1) /\ (first + 1) + i - 1 = Len(s) - Len(r) + i
      BY <1>6, <3>2
    <3>4. QED
      BY <1>4, <3>3
<1>8. IsNewest(r, s, k)
  <2> HIDE DEF r
  <2>1. QED
    BY <1>5, <1>7 DEF IsNewest
<1>9. QED
  BY <1>2, <1>8

\* Appending to the newest k of a list and trimming again gives the newest k of
\* the longer list, so trimming on every RPUSH loses nothing that a single trim
\* at the end would keep.
LEMMA NewestAppend ==
    ASSUME NEW S, NEW rows \in Seq(S), NEW all \in Seq(S), NEW x \in S, NEW k \in Nat \ {0},
           IsNewest(rows, all, k)
    PROVE  IsNewest(FromIndex(Append(rows, x), - k), Append(all, x), k)
<1> DEFINE more == Append(rows, x)
           longer == Append(all, x)
           r == FromIndex(more, - k)
<1>1. /\ more \in Seq(S) /\ longer \in Seq(S)
      /\ Len(more) = Len(rows) + 1 /\ Len(longer) = Len(all) + 1
      /\ Len(rows) \in Nat /\ Len(all) \in Nat
      /\ more[Len(rows) + 1] = x /\ longer[Len(all) + 1] = x
      /\ \A i \in 1..Len(rows) : more[i] = rows[i]
      /\ \A i \in 1..Len(all) : longer[i] = all[i]
  OBVIOUS
<1>2. IsNewest(r, more, k)
  BY <1>1, FromIndexNewest
<1> HIDE DEF r, more, longer
<1>3. Len(rows) <= Len(all) /\ Len(r) = IF Len(longer) < k THEN Len(longer) ELSE k
  <2>1. /\ Len(rows) = IF Len(all) < k THEN Len(all) ELSE k
        /\ Len(r) = IF Len(more) < k THEN Len(more) ELSE k
    BY <1>2 DEF IsNewest
  <2>2. QED
    BY <1>1, <2>1
<1>4. ASSUME NEW i \in 1..Len(r)
      PROVE  r[i] = longer[Len(longer) - Len(r) + i]
  <2>1. r[i] = more[Len(more) - Len(r) + i]
    BY <1>2 DEF IsNewest
  <2>2. Len(r) \in Nat /\ Len(r) <= Len(more) /\ i \in Int
    <3>1. Len(r) = IF Len(more) < k THEN Len(more) ELSE k
      BY <1>2 DEF IsNewest
    <3>2. QED
      BY <1>1, <3>1
  <2> DEFINE j == Len(more) - Len(r) + i
             l == Len(longer) - Len(r) + i
  <2>3. /\ j \in 1..(Len(rows) + 1) /\ l \in 1..(Len(all) + 1)
        /\ l = Len(all) - Len(rows) + j
    BY <1>1, <1>3, <2>2
  <2> HIDE DEF j, l
  <2>4. CASE j = Len(rows) + 1
    <3>1. l = Len(all) + 1
      BY <1>1, <2>3, <2>4
    <3>2. more[j] = longer[l]
      BY <1>1, <2>4, <3>1
    <3>3. QED
      BY <2>1, <3>2 DEF j, l
  <2>5. CASE j # Len(rows) + 1
    <3>1. j \in 1..Len(rows) /\ l \in 1..Len(all)
      BY <1>1, <1>3, <2>3, <2>5
    <3>2. rows[j] = all[l]
      BY <1>1, <2>3, <3>1 DEF IsNewest
    <3>3. more[j] = longer[l]
      BY <1>1, <3>1, <3>2
    <3>4. QED
      BY <2>1, <3>3 DEF j, l
  <2>6. QED
    BY <2>4, <2>5
<1>5. IsNewest(r, longer, k)
  BY <1>3, <1>4 DEF IsNewest
<1>6. QED
  BY <1>5 DEF r, more, longer

-----------------------------------------------------------------------------
(* Type correctness.                                                        *)

LEMMA NothingSaid == NoReply \in Reply /\ NoEvent \in Push /\ NoMembers \in Members
<1>1. <<>> \in Seq(Message)
  OBVIOUS
<1>2. QED
  BY <1>1 DEF NoReply, Result, Reply, NoEvent, Push, Event, NoMembers, Members

LEMMA PerformType ==
    ASSUME TypeOK, NEW op \in {"join", "leave", "message", "drain"}, NEW plan \in Plan,
           WriteOf(plan) \in Write, NEW w, Perform(op, plan, w)
    PROVE  /\ alive' \in BOOLEAN /\ members' \in Members
           /\ redis' \in [snapshot : SUBSET Nick, history : Seq(Message)]
           /\ pending' \subseteq Write
           /\ reply' \in Reply
           /\ pushed' \in Push
           /\ clean' \in BOOLEAN
           /\ log' \in Seq(Message) /\ acked' \subseteq Message
<1>1. alive' \in BOOLEAN /\ members' \in Members
  <2>1. alive' = alive /\ members' = plan.members
    BY DEF Perform
  <2>2. QED
    BY <2>1 DEF TypeOK, Plan
<1>2. redis' \in [snapshot : SUBSET Nick, history : Seq(Message)]
  BY WrittenType DEF TypeOK, Perform
<1>3. pending' \subseteq Write
  BY DEF TypeOK, Perform
<1>4. reply' \in Reply
  BY DEF Perform, Result, Reply, Plan
<1>5. pushed' \in Push
  BY DEF Perform, NoEvent, Push, Plan, Event, memberList
<1>6. clean' \in BOOLEAN
  BY DEF TypeOK, Perform
<1>7. log' \in Seq(Message) /\ acked' \subseteq Message
  BY DEF TypeOK, Perform, Plan
<1>8. QED
  BY <1>1, <1>2, <1>3, <1>4, <1>5, <1>6, <1>7

\* Every state of the room has the stated types, whatever Redis does.
THEOREM TypeCorrect == Spec => []TypeOK
<1>1. Init => TypeOK
  <2>1. <<>> \in Seq(Message)
    OBVIOUS
  <2>2. [snapshot |-> {}, history |-> <<>>] \in [snapshot : SUBSET Nick, history : Seq(Message)]
    BY <2>1
  <2> SUFFICES ASSUME Init PROVE TypeOK
    OBVIOUS
  <2>3. redis \in [snapshot : SUBSET Nick, history : Seq(Message)]
    BY <2>2 DEF Init
  <2>4. alive \in BOOLEAN /\ members \in Members /\ reply \in Reply /\ pushed \in Push
    BY NothingSaid DEF Init
  <2>5. /\ pending \subseteq Write /\ clean \in BOOLEAN /\ acked \subseteq Message /\ clock \in Nat
        /\ promise \in [Nick -> {"in", "out", "open"}]
    BY DEF Init
  <2>6. log \in Seq(Message)
    BY <2>1 DEF Init
  <2>7. QED
    BY <2>3, <2>4, <2>5, <2>6 DEF TypeOK
<1>2. TypeOK /\ [Next]_vars => TypeOK'
  <2> SUFFICES ASSUME TypeOK, [Next]_vars PROVE TypeOK'
    OBVIOUS
  <2>1. CASE JoinRoom
    <3>1. PICK name \in Raw, conn \in Sender, w \in WriteOutcomes \cup {"none"} :
            LET plan == join(members, name, conn)
            IN  /\ Perform("join", plan, w)
                /\ IF TrimSpace[name] \in Nick THEN Joined(TrimSpace[name])
                                             ELSE UNCHANGED promise
                /\ UNCHANGED clock
      BY <2>1 DEF JoinRoom
    <3>2. members \in Members
      BY DEF TypeOK
    <3>3. join(members, name, conn) \in Plan /\ WriteOf(join(members, name, conn)) \in Write
      BY <3>2, PlansAreTyped, TrimAssumption
    <3>4. promise' \in [Nick -> {"in", "out", "open"}]
      BY <3>1 DEF TypeOK, Joined
    <3>5. QED
      BY <3>1, <3>3, <3>4, PerformType DEF TypeOK
  <2>2. CASE LeaveRoom
    <3>1. PICK name \in Raw, conn \in Sender, w \in WriteOutcomes \cup {"none"} :
            LET plan == leave(members, name, conn)
            IN  /\ Perform("leave", plan, w)
                /\ IF TrimSpace[name] \in Nick THEN Left(TrimSpace[name], plan)
                                             ELSE UNCHANGED promise
                /\ UNCHANGED clock
      BY <2>2 DEF LeaveRoom
    <3>2. members \in Members
      BY DEF TypeOK
    <3>3. leave(members, name, conn) \in Plan /\ WriteOf(leave(members, name, conn)) \in Write
      BY <3>2, PlansAreTyped, TrimAssumption
    <3>4. promise' \in [Nick -> {"in", "out", "open"}]
      BY <3>1 DEF TypeOK, Left
    <3>5. QED
      BY <3>1, <3>3, <3>4, PerformType DEF TypeOK
  <2>3. CASE PostMessage
    <3>1. PICK name \in Raw, text \in Text, conn \in Sender, w \in WriteOutcomes \cup {"none"} :
            LET plan == postMessage(members, name, text, conn, clock + 1)
            IN  /\ Perform("message", plan, w)
                /\ clock' = IF plan.post # NoPost THEN clock + 1 ELSE clock
                /\ UNCHANGED promise
      BY <2>3 DEF PostMessage
    <3>2. members \in Members /\ clock + 1 \in Nat /\ text \in Raw
      BY TextAssumption DEF TypeOK
    <3>3. /\ postMessage(members, name, text, conn, clock + 1) \in Plan
          /\ WriteOf(postMessage(members, name, text, conn, clock + 1)) \in Write
      BY <3>2, PlansAreTyped
    <3>4. promise' \in [Nick -> {"in", "out", "open"}] /\ clock' \in Nat
      BY <3>1 DEF TypeOK
    <3>5. QED
      BY <3>1, <3>3, <3>4, PerformType DEF TypeOK
  <2>4. CASE DrainRegistry
    <3>1. PICK w \in WriteOutcomes : Perform("drain", drain(members), w)
      BY <2>4 DEF DrainRegistry
    <3>2. members \in Members
      BY DEF TypeOK
    <3>3. drain(members) \in Plan /\ WriteOf(drain(members)) \in Write
      BY <3>2, PlansAreTyped, TrimAssumption DEF Sender
    <3>4. promise' = promise /\ clock' = clock
      BY <2>4 DEF DrainRegistry
    <3>5. QED
      BY <3>1, <3>3, <3>4, PerformType DEF TypeOK
  <2>5. CASE GetRoom
    BY <2>5, NothingSaid DEF GetRoom, TypeOK, Reply, Result
  <2>6. CASE ListMessages
    <3>1. \A limit \in Limits : listMessages(redis.history, limit) \in Seq(Message)
      <4>1. redis.history \in Seq(Message)
        BY DEF TypeOK
      <4>2. \A limit \in Limits : - ClampLimit(limit) \in Int
        BY LimitAssumption, CapAssumption DEF ClampLimit
      <4>3. QED
        BY <4>1, <4>2, FromIndexType DEF listMessages
    <3>2. reply' \in Reply
      BY <2>6, <3>1, LimitAssumption DEF ListMessages, Reply
    <3>3. pushed' \in Push
      BY <2>6, NothingSaid DEF ListMessages
    <3>4. QED
      BY <2>6, <3>2, <3>3 DEF ListMessages, TypeOK
  <2>7. CASE Hydrate
    BY <2>7, HydrateRestores, NothingSaid DEF Hydrate, TypeOK
  <2>8. CASE Terminate
    BY <2>8, NothingSaid DEF Terminate, TypeOK
  <2>9. CASE LateWrite
    <3>1. PICK w \in pending : /\ redis' = Written(redis, w)
                              /\ pending' = pending \ {w}
                              /\ log' = IF w.post # NoPost THEN Append(log, w.post) ELSE log
      BY <2>9 DEF LateWrite
    <3>2. w \in Write /\ pending' \subseteq Write
      BY <3>1 DEF TypeOK
    <3>3. redis' \in [snapshot : SUBSET Nick, history : Seq(Message)]
      BY <3>1, <3>2, WrittenType DEF TypeOK
    <3>4. log' \in Seq(Message)
      <4>1. log \in Seq(Message) /\ w.post \in Message \cup {NoPost}
        BY <3>2 DEF TypeOK, Write
      <4>2. CASE w.post = NoPost
        BY <3>1, <4>1, <4>2
      <4>3. CASE w.post # NoPost
        BY <3>1, <4>1, <4>3
      <4>4. QED
        BY <4>2, <4>3
    <3>5. QED
      BY <2>9, <3>1, <3>2, <3>3, <3>4, NothingSaid DEF LateWrite, TypeOK
  <2>10. CASE UNCHANGED vars
    BY <2>10 DEF vars, TypeOK
  <2>11. QED
    BY <2>1, <2>2, <2>3, <2>4, <2>5, <2>6, <2>7, <2>8, <2>9, <2>10 DEF Next
<1>3. QED
  BY <1>1, <1>2, PTL DEF Spec
-----------------------------------------------------------------------------
(* Redis against the actor's map.                                           *)

\* A plan that does not write changes nothing and announces nothing, and one
\* that announces a message stores it.
Quiet(m, plan) ==
    /\ plan.event = "message" => plan.post # NoPost
    /\ ~plan.writes => plan.members = m /\ plan.post = NoPost /\ plan.event = "none"

LEMMA PlansAreQuiet ==
    ASSUME NEW m \in Members, NEW name, NEW text, NEW conn, NEW now
    PROVE  /\ Quiet(m, join(m, name, conn))
           /\ Quiet(m, leave(m, name, conn))
           /\ Quiet(m, postMessage(m, name, text, conn, now))
           /\ Quiet(m, drain(m))
<1>1. TrimSpace[name] # Blank
        => [from |-> TrimSpace[name], text |-> TrimSpace[text], at |-> now] # NoPost
  BY DEF NoPost
<1>2. Quiet(m, postMessage(m, name, text, conn, now))
  BY <1>1 DEF Quiet, postMessage, Answer, persistSnapshot
<1>3. QED
  BY <1>2 DEF Quiet, join, leave, drain, Answer, persistSnapshot

\* Carrying out a plan keeps map and snapshot equal while it is clean, and what
\* it pushes is what it stored.
LEMMA PerformStores ==
    ASSUME TypeOK, SnapshotCurrent, NEW op, NEW plan \in Plan, Quiet(members, plan),
           NEW w, Perform(op, plan, w)
    PROVE  SnapshotCurrent' /\ PushedIsStored'
<1>1. w \in {"ok", "failed", "lost", "late", "none"} /\ (w = "none" <=> ~plan.writes)
  BY OutcomeAssumption DEF Perform, AllOutcomes, Plan
<1>2. members' = plan.members /\ alive /\ alive'
  BY DEF Perform
<1>3. w = "ok" => redis' = Written(redis, WriteOf(plan))
  BY DEF Perform
<1>4. w = "ok" => redis'.snapshot = memberList(members')
  BY <1>2, <1>3 DEF Written, WriteOf
<1>5. SnapshotCurrent'
  <2>1. CASE plan.writes
    BY <1>1, <1>4, <2>1 DEF Perform, SnapshotCurrent
  <2>2. CASE ~plan.writes
    <3>1. members' = members /\ redis' = redis /\ clean' = clean
      BY <1>1, <2>2 DEF Perform, Quiet
    <3>2. QED
      BY <1>2, <3>1 DEF SnapshotCurrent
  <2>3. QED
    BY <2>1, <2>2
<1>6. PushedIsStored'
  <2>1. CASE w = "ok" /\ plan.event # "none"
    <3>1. /\ pushed'.members = memberList(plan.members)
          /\ pushed'.event = plan.event
          /\ pushed'.post = plan.post
      BY <2>1 DEF Perform
    <3>2. pushed'.members = redis'.snapshot
      BY <1>2, <1>4, <2>1, <3>1
    <3>3. ASSUME pushed'.event = "message"
          PROVE  Len(redis'.history) > 0 /\ pushed'.post = redis'.history[Len(redis'.history)]
      <4>1. plan.post \in Message /\ plan.post # NoPost /\ redis.history \in Seq(Message)
        BY <3>1, <3>3 DEF Quiet, Plan, TypeOK
      <4> DEFINE all == Append(redis.history, plan.post)
      <4>2. redis'.history = FromIndex(all, - HistoryCap)
        BY <1>3, <2>1, <4>1 DEF Written, WriteOf
      <4>3. all \in Seq(Message) /\ Len(all) \in Nat \ {0} /\ all[Len(all)] = plan.post
        BY <4>1
      <4>4. IsNewest(redis'.history, all, HistoryCap)
        <5> HIDE DEF all
        <5>1. QED
          BY <4>2, <4>3, FromIndexNewest, CapAssumption
      <4>5. QED
        <5> HIDE DEF all
        <5>1. Len(redis'.history) \in 1..Len(all)
          BY <4>3, <4>4, CapAssumption DEF IsNewest
        <5>2. QED
          BY <3>1, <4>3, <4>4, <5>1 DEF IsNewest
    <3>4. QED
      BY <3>2, <3>3 DEF PushedIsStored
  <2>2. CASE ~(w = "ok" /\ plan.event # "none")
    BY <2>2 DEF Perform, PushedIsStored, NoEvent
  <2>3. QED
    BY <2>1, <2>2
<1>7. QED
  BY <1>5, <1>6
\* Every step is the execution of some command's plan, or one of the steps
\* that write neither map nor snapshot on behalf of a command.
LEMMA StepKinds ==
    ASSUME TypeOK, Next
    PROVE  \/ \E op \in {"join", "leave", "message", "drain"},
                w \in WriteOutcomes \cup {"none"}, plan \in Plan :
                 WriteOf(plan) \in Write /\ Quiet(members, plan) /\ Perform(op, plan, w)
           \/ GetRoom \/ ListMessages \/ Hydrate \/ Terminate \/ LateWrite
<1>1. members \in Members /\ clock + 1 \in Nat
  BY DEF TypeOK
<1>2. CASE JoinRoom
  <2>1. PICK name \in Raw, conn \in Sender, w \in WriteOutcomes \cup {"none"} :
          Perform("join", join(members, name, conn), w)
    BY <1>2 DEF JoinRoom
  <2>2. /\ join(members, name, conn) \in Plan /\ WriteOf(join(members, name, conn)) \in Write
        /\ Quiet(members, join(members, name, conn))
    BY <1>1, PlansAreTyped, PlansAreQuiet
  <2>3. QED
    BY <2>1, <2>2
<1>3. CASE LeaveRoom
  <2>1. PICK name \in Raw, conn \in Sender, w \in WriteOutcomes \cup {"none"} :
          Perform("leave", leave(members, name, conn), w)
    BY <1>3 DEF LeaveRoom
  <2>2. /\ leave(members, name, conn) \in Plan /\ WriteOf(leave(members, name, conn)) \in Write
        /\ Quiet(members, leave(members, name, conn))
    BY <1>1, PlansAreTyped, PlansAreQuiet
  <2>3. QED
    BY <2>1, <2>2
<1>4. CASE PostMessage
  <2>1. PICK name \in Raw, text \in Text, conn \in Sender, w \in WriteOutcomes \cup {"none"} :
          Perform("message", postMessage(members, name, text, conn, clock + 1), w)
    BY <1>4 DEF PostMessage
  <2>2. /\ postMessage(members, name, text, conn, clock + 1) \in Plan
        /\ WriteOf(postMessage(members, name, text, conn, clock + 1)) \in Write
        /\ Quiet(members, postMessage(members, name, text, conn, clock + 1))
    BY <1>1, PlansAreTyped, PlansAreQuiet, TextAssumption
  <2>3. QED
    BY <2>1, <2>2
<1>5. CASE DrainRegistry
  <2>1. PICK w \in WriteOutcomes : Perform("drain", drain(members), w)
    BY <1>5 DEF DrainRegistry
  <2>2. /\ drain(members) \in Plan /\ WriteOf(drain(members)) \in Write
        /\ Quiet(members, drain(members))
    BY <1>1, PlansAreTyped, PlansAreQuiet, TrimAssumption DEF Sender
  <2>3. QED
    BY <2>1, <2>2
<1>6. QED
  BY <1>2, <1>3, <1>4, <1>5 DEF Next

\* Whatever Redis does, the snapshot equals the actor's map whenever the actor's
\* last write was acknowledged, and no client is told of anything that Redis
\* does not hold.
THEOREM WriteThrough == Spec => [](SnapshotCurrent /\ PushedIsStored)
<1>1. Init => SnapshotCurrent /\ PushedIsStored
  BY DEF Init, SnapshotCurrent, PushedIsStored, NoEvent
<1>2. TypeOK /\ SnapshotCurrent /\ PushedIsStored /\ [Next]_vars
        => SnapshotCurrent' /\ PushedIsStored'
  <2> SUFFICES ASSUME TypeOK, SnapshotCurrent, PushedIsStored, [Next]_vars
               PROVE  SnapshotCurrent' /\ PushedIsStored'
    OBVIOUS
  <2>1. CASE \E op \in {"join", "leave", "message", "drain"},
               w \in WriteOutcomes \cup {"none"}, plan \in Plan :
               WriteOf(plan) \in Write /\ Quiet(members, plan) /\ Perform(op, plan, w)
    BY <2>1, PerformStores
  <2>2. CASE GetRoom
    BY <2>2 DEF GetRoom, SnapshotCurrent, PushedIsStored, NoEvent
  <2>3. CASE ListMessages
    BY <2>3 DEF ListMessages, SnapshotCurrent, PushedIsStored, NoEvent
  <2>4. CASE Hydrate
    <3>1. memberList(members') = redis'.snapshot
      BY <2>4, HydrateRestores DEF Hydrate, TypeOK
    <3>2. QED
      BY <2>4, <3>1 DEF Hydrate, SnapshotCurrent, PushedIsStored, NoEvent
  <2>5. CASE Terminate
    BY <2>5 DEF Terminate, SnapshotCurrent, PushedIsStored, NoEvent
  <2>6. CASE LateWrite
    BY <2>6 DEF LateWrite, SnapshotCurrent, PushedIsStored, NoEvent
  <2>7. CASE UNCHANGED vars
    BY <2>7 DEF vars, SnapshotCurrent, PushedIsStored
  <2>8. QED
    BY <2>1, <2>2, <2>3, <2>4, <2>5, <2>6, <2>7, StepKinds
<1>3. QED
  BY <1>1, <1>2, TypeCorrect, PTL DEF Spec

\* Clients are told of nothing that Redis does not hold, whatever became of the
\* writes before.
THEOREM EventsAreStored == Spec => []PushedIsStored
<1>1. SnapshotCurrent /\ PushedIsStored => PushedIsStored
  OBVIOUS
<1>2. QED
  BY <1>1, WriteThrough, PTL

\* Stopping a clean actor and starting the next one keep the room's members.
THEOREM RestartKeeps == Spec => RestartKeepsMembers
<1>1. TypeOK /\ SnapshotCurrent /\ [Next]_vars
        => (alive # alive' /\ clean => CurrentMembers' = CurrentMembers)
  <2> SUFFICES ASSUME TypeOK, SnapshotCurrent, [Next]_vars, alive # alive', clean
               PROVE  CurrentMembers' = CurrentMembers
    OBVIOUS
  <2>1. CASE Hydrate
    BY <2>1, HydrateRestores DEF Hydrate, TypeOK, CurrentMembers
  <2>2. CASE Terminate
    BY <2>2 DEF Terminate, SnapshotCurrent, CurrentMembers
  <2>3. CASE ~Hydrate /\ ~Terminate
    BY <2>3, StepKinds DEF Perform, GetRoom, ListMessages, LateWrite, vars
  <2>4. QED
    BY <2>1, <2>2, <2>3
<1>2. QED
  BY <1>1, TypeCorrect, WriteThrough, PTL DEF Spec, RestartKeepsMembers
-----------------------------------------------------------------------------
(* What an acknowledged join is worth.                                      *)

\* The inductive form: the current members of a live actor are those of its
\* map, and no late write is on its way to overwrite the snapshot.
Held(n) == n \in redis.snapshot /\ (alive => members[n] # NotMember)

DurableInv == pending = {} /\ \A n \in Nick : promise[n] = "in" => Held(n)

\* A command that keeps a held nick in its map leaves it held, and so does any
\* acknowledged write of a map that has the nick.
LEMMA PerformHolds ==
    ASSUME "late" \notin WriteOutcomes, TypeOK, pending = {}, NEW op, NEW plan \in Plan,
           Quiet(members, plan), NEW w, Perform(op, plan, w),
           NEW n \in Nick, plan.members[n] # NotMember
    PROVE  /\ pending' = {}
           /\ Held(n) => Held(n)'
           /\ plan.writes /\ reply'.ok => Held(n)'
<1>1. w \in {"ok", "failed", "lost", "none"} /\ (w = "none" <=> ~plan.writes)
  BY OutcomeAssumption DEF Perform, AllOutcomes, Plan
<1>2. pending' = {} /\ members' = plan.members
  BY <1>1 DEF Perform
<1>3. redis'.snapshot = IF w \in {"ok", "lost"} THEN memberList(plan.members) ELSE redis.snapshot
  BY DEF Perform, Written, WriteOf
<1>4. n \in memberList(plan.members)
  BY DEF memberList
<1>5. plan.writes /\ reply'.ok => w = "ok"
  BY <1>1 DEF Perform, Result
<1>6. QED
  BY <1>2, <1>3, <1>4, <1>5 DEF Held

LEMMA NothingPending ==
    ASSUME "late" \notin WriteOutcomes, pending = {}, NEW op, NEW plan, NEW w, Perform(op, plan, w)
    PROVE  pending' = {}
  BY DEF Perform

\* A command that leaves the map alone keeps every held nick held.
LEMMA SameMembersHolds ==
    ASSUME "late" \notin WriteOutcomes, TypeOK, DurableInv, NEW op, NEW plan \in Plan,
           Quiet(members, plan), NEW w, Perform(op, plan, w),
           plan.members = members, promise' = promise
    PROVE  DurableInv'
<1>1. pending = {} /\ pending' = {} /\ alive
  BY NothingPending DEF DurableInv, Perform
<1>2. ASSUME NEW n \in Nick, promise'[n] = "in" PROVE Held(n)'
  <2>1. Held(n) /\ plan.members[n] # NotMember
    BY <1>1, <1>2 DEF DurableInv, Held
  <2>2. QED
    BY <1>1, <2>1, PerformHolds
<1>3. QED
  BY <1>1, <1>2 DEF DurableInv

LEMMA JoinHolds ==
    ASSUME "late" \notin WriteOutcomes, TypeOK, DurableInv, JoinRoom
    PROVE  DurableInv'
<1>1. PICK name \in Raw, conn \in Sender, w \in WriteOutcomes \cup {"none"} :
        /\ Perform("join", join(members, name, conn), w)
        /\ IF TrimSpace[name] \in Nick THEN Joined(TrimSpace[name]) ELSE UNCHANGED promise
  BY DEF JoinRoom
<1> DEFINE plan == join(members, name, conn)
           nick == TrimSpace[name]
<1>2. members \in Members
  BY DEF TypeOK
<1>3. plan \in Plan /\ Quiet(members, plan)
  BY <1>2, PlansAreTyped, PlansAreQuiet, TrimAssumption
<1>4. pending = {} /\ pending' = {}
  BY <1>1, NothingPending DEF DurableInv
<1>5. ASSUME NEW n \in Nick, promise'[n] = "in" PROVE Held(n)'
  <2>1. CASE nick = Blank
    <3>1. plan = Answer(members, FALSE) /\ nick \notin Nick
      BY <2>1, TrimIsNick DEF join
    <3>2. plan.members = members /\ promise' = promise
      BY <1>1, <3>1 DEF Answer
    <3>3. DurableInv'
      BY <1>1, <1>3, <3>2, SameMembersHolds
    <3>4. QED
      BY <1>5, <3>3 DEF DurableInv
  <2>2. CASE nick # Blank
    <3>1. nick \in Nick /\ plan = persistSnapshot([members EXCEPT ![nick] = conn], NoPost, "join")
      BY <2>2, TrimIsNick DEF join
    <3>2. plan.writes /\ plan.members = [members EXCEPT ![nick] = conn]
      BY <3>1 DEF persistSnapshot
    <3>3. promise' = [promise EXCEPT ![nick] = IF reply'.ok THEN "in"
                                               ELSE IF @ = "out" THEN "open" ELSE @]
      BY <1>1, <3>1 DEF Joined
    <3>4. promise[n] = "in" \/ (n = nick /\ reply'.ok)
      BY <1>5, <3>3 DEF TypeOK
    <3>5. alive
      BY <1>1 DEF Perform
    <3>6. plan.members[n] # NotMember
      <4>1. CASE n = nick
        BY <1>2, <3>2, <4>1, ConnAssumption DEF Members, Sender
      <4>2. CASE n # nick
        BY <1>2, <3>2, <3>4, <3>5, <4>2 DEF Members, DurableInv, Held
      <4>3. QED
        BY <4>1, <4>2
    <3>7. promise[n] = "in" => Held(n)
      BY DEF DurableInv
    <3>8. QED
      BY <1>1, <1>3, <1>4, <3>2, <3>4, <3>6, <3>7, PerformHolds
  <2>3. QED
    BY <2>1, <2>2
<1>6. QED
  BY <1>4, <1>5 DEF DurableInv

LEMMA LeaveHolds ==
    ASSUME "late" \notin WriteOutcomes, TypeOK, DurableInv, LeaveRoom
    PROVE  DurableInv'
<1>1. PICK name \in Raw, conn \in Sender, w \in WriteOutcomes \cup {"none"} :
        /\ Perform("leave", leave(members, name, conn), w)
        /\ IF TrimSpace[name] \in Nick THEN Left(TrimSpace[name], leave(members, name, conn))
                                       ELSE UNCHANGED promise
  BY DEF LeaveRoom
<1> DEFINE plan == leave(members, name, conn)
           nick == TrimSpace[name]
<1>2. members \in Members /\ alive
  BY <1>1 DEF TypeOK, Perform
<1>3. plan \in Plan /\ Quiet(members, plan)
  BY <1>2, PlansAreTyped, PlansAreQuiet, TrimAssumption
<1>4. pending = {} /\ pending' = {}
  BY <1>1, NothingPending DEF DurableInv
<1>5. \A n \in Nick : n # nick => plan.members[n] = members[n]
  BY <1>2 DEF leave, Answer, persistSnapshot, Members
<1>6. \A n \in Nick : promise'[n] = "in" =>
        promise[n] = "in" /\ (n = nick => plan.members = members)
  <2> TAKE n \in Nick
  <2>1. CASE nick \in Nick
    <3>1. promise' = [promise EXCEPT ![nick] =
                  IF ~reply'.ok THEN "open"
                  ELSE IF plan.writes \/ members[nick] = NotMember THEN "out" ELSE @]
      BY <1>1, <2>1 DEF Left
    <3>2. QED
      BY <1>3, <3>1 DEF TypeOK, Quiet
  <2>2. CASE nick \notin Nick
    BY <1>1, <2>2
  <2>3. QED
    BY <2>1, <2>2
<1>7. ASSUME NEW n \in Nick, promise'[n] = "in" PROVE Held(n)'
  <2>1. Held(n)
    BY <1>6, <1>7 DEF DurableInv
  <2>2. plan.members[n] # NotMember
    BY <1>2, <1>5, <1>6, <1>7, <2>1 DEF Held
  <2>3. QED
    BY <1>1, <1>3, <1>4, <2>1, <2>2, PerformHolds
<1>8. QED
  BY <1>4, <1>7 DEF DurableInv

\* As long as Redis never applies a write after its caller gave up, every
\* acknowledged join survives everything except a leave of that nick.
THEOREM JoinIsDurable ==
    ASSUME "late" \notin WriteOutcomes
    PROVE  Spec => []AckedJoinDurable
<1>1. Init => DurableInv
  BY DEF Init, DurableInv
<1>2. TypeOK /\ DurableInv /\ [Next]_vars => DurableInv'
  <2> SUFFICES ASSUME TypeOK, DurableInv, [Next]_vars PROVE DurableInv'
    OBVIOUS
  <2>1. CASE JoinRoom
    BY <2>1, JoinHolds
  <2>2. CASE LeaveRoom
    BY <2>2, LeaveHolds
  <2> members \in Members /\ clock + 1 \in Nat
    BY DEF TypeOK
  <2>3. CASE PostMessage
    <3>1. PICK name \in Raw, text \in Text, conn \in Sender, w \in WriteOutcomes \cup {"none"} :
            /\ Perform("message", postMessage(members, name, text, conn, clock + 1), w)
            /\ promise' = promise
      BY <2>3 DEF PostMessage
    <3> DEFINE plan == postMessage(members, name, text, conn, clock + 1)
    <3>2. plan \in Plan /\ Quiet(members, plan)
      BY PlansAreTyped, PlansAreQuiet, TextAssumption
    <3>3. plan.members = members
      BY DEF postMessage, Answer, persistSnapshot
    <3>4. QED
      BY <3>1, <3>2, <3>3, SameMembersHolds
  <2>9. CASE DrainRegistry
    <3>1. PICK w \in WriteOutcomes : Perform("drain", drain(members), w) /\ promise' = promise
      BY <2>9 DEF DrainRegistry
    <3>2. drain(members) \in Plan /\ Quiet(members, drain(members))
      BY PlansAreTyped, PlansAreQuiet, TrimAssumption DEF Sender
    <3>3. drain(members).members = members
      BY DEF drain, persistSnapshot
    <3>4. QED
      BY <3>1, <3>2, <3>3, SameMembersHolds
  <2>4. CASE GetRoom \/ ListMessages
    BY <2>4 DEF GetRoom, ListMessages, DurableInv, Held
  <2>5. CASE Hydrate
    <3>1. /\ redis' = redis /\ promise' = promise /\ pending' = pending
          /\ memberList(members') = redis.snapshot
      BY <2>5, HydrateRestores DEF Hydrate, TypeOK
    <3>2. QED
      BY <3>1 DEF DurableInv, Held, memberList
  <2>6. CASE Terminate
    BY <2>6 DEF Terminate, DurableInv, Held
  <2>7. CASE LateWrite
    BY <2>7 DEF LateWrite, DurableInv
  <2>8. CASE UNCHANGED vars
    BY <2>8 DEF vars, DurableInv, Held
  <2>10. QED
    BY <2>1, <2>2, <2>3, <2>4, <2>5, <2>6, <2>7, <2>8, <2>9 DEF Next
<1>3. DurableInv => AckedJoinDurable
  BY DEF DurableInv, Held, AckedJoinDurable, CurrentMembers, memberList
<1>4. QED
  BY <1>1, <1>2, <1>3, TypeCorrect, PTL DEF Spec
-----------------------------------------------------------------------------
(* The message list.                                                        *)

\* The newest few of the newest k are the newest few of all.
LEMMA NewestOfNewest ==
    ASSUME NEW S, NEW rows \in Seq(S), NEW all \in Seq(S), NEW k \in Nat \ {0},
           IsNewest(rows, all, k), NEW j \in 1..k
    PROVE  IsNewest(FromIndex(rows, - j), all, j)
<1> DEFINE r == FromIndex(rows, - j)
<1>1. IsNewest(r, rows, j) /\ j \in Nat \ {0} /\ Len(rows) \in Nat /\ Len(all) \in Nat
  BY FromIndexNewest
<1> HIDE DEF r
<1>2. /\ Len(rows) = IF Len(all) < k THEN Len(all) ELSE k
      /\ Len(r) = IF Len(rows) < j THEN Len(rows) ELSE j
  BY <1>1 DEF IsNewest
<1>3. Len(rows) <= Len(all) /\ Len(r) <= Len(rows) /\ Len(r) \in Nat
  BY <1>1, <1>2
<1>4. Len(r) = IF Len(all) < j THEN Len(all) ELSE j
  BY <1>1, <1>2
<1>5. ASSUME NEW i \in 1..Len(r) PROVE r[i] = all[Len(all) - Len(r) + i]
  <2> DEFINE m == Len(rows) - Len(r) + i
  <2>1. r[i] = rows[m]
    BY <1>1 DEF IsNewest
  <2>2. m \in 1..Len(rows) /\ Len(all) - Len(rows) + m = Len(all) - Len(r) + i
    BY <1>1, <1>3
  <2> HIDE DEF m
  <2>3. rows[m] = all[Len(all) - Len(rows) + m]
    BY <2>2 DEF IsNewest
  <2>4. QED
    BY <2>1, <2>2, <2>3
<1>6. IsNewest(r, all, j)
  BY <1>4, <1>5 DEF IsNewest
<1>7. QED
  BY <1>6 DEF r

\* Applying a write extends log and stored list together.
LEMMA WrittenIsNewest ==
    ASSUME TypeOK, HistoryIsNewest, NEW w \in Write, w.post # NoPost
    PROVE  IsNewest(Written(redis, w).history, Append(log, w.post), HistoryCap)
<1>1. redis.history \in Seq(Message) /\ log \in Seq(Message) /\ w.post \in Message
  BY DEF TypeOK, Write
<1>2. Written(redis, w).history = FromIndex(Append(redis.history, w.post), - HistoryCap)
  BY DEF Written
<1>3. QED
  BY <1>1, <1>2, NewestAppend, CapAssumption DEF HistoryIsNewest

LEMMA AppendRange ==
    ASSUME NEW S, NEW s \in Seq(S), NEW x \in S
    PROVE  {Append(s, x)[i] : i \in 1..Len(Append(s, x))} = {s[i] : i \in 1..Len(s)} \cup {x}
<1> DEFINE t == Append(s, x)
<1>1. /\ Len(t) = Len(s) + 1 /\ Len(s) \in Nat /\ t[Len(s) + 1] = x
      /\ \A i \in 1..Len(s) : t[i] = s[i]
  OBVIOUS
<1> HIDE DEF t
<1>2. ASSUME NEW i \in 1..Len(t) PROVE t[i] \in {s[k] : k \in 1..Len(s)} \cup {x}
  <2>1. CASE i = Len(s) + 1
    BY <1>1, <2>1
  <2>2. CASE i # Len(s) + 1
    <3>1. i \in 1..Len(s)
      BY <1>1, <2>2
    <3>2. QED
      BY <1>1, <3>1
  <2>3. QED
    BY <2>1, <2>2
<1>3. ASSUME NEW i \in 1..Len(s) PROVE s[i] \in {t[k] : k \in 1..Len(t)}
  <2>1. i \in 1..Len(t) /\ t[i] = s[i]
    BY <1>1
  <2>2. QED
    BY <2>1
<1>4. x \in {t[k] : k \in 1..Len(t)}
  <2>1. Len(s) + 1 \in 1..Len(t) /\ t[Len(s) + 1] = x
    BY <1>1
  <2>2. QED
    BY <2>1
<1>5. {t[k] : k \in 1..Len(t)} = {s[k] : k \in 1..Len(s)} \cup {x}
  BY <1>2, <1>3, <1>4
<1>6. QED
  BY <1>5 DEF t

\* Whatever Redis does with the writes, it keeps the newest HistoryCap of the
\* messages it applied, in the order it applied them, with every acknowledged
\* message among the applied ones; and every listing is a newest part of those.
THEOREM HistoryNewest == Spec => [](HistoryIsNewest /\ ListIsNewest)
<1>1. Init => HistoryIsNewest /\ ListIsNewest
  BY CapAssumption DEF Init, HistoryIsNewest, ListIsNewest, IsNewest, NoReply, Result
<1>2. TypeOK /\ HistoryIsNewest /\ ListIsNewest /\ [Next]_vars
        => HistoryIsNewest' /\ ListIsNewest'
  <2> SUFFICES ASSUME TypeOK, HistoryIsNewest, ListIsNewest, [Next]_vars
               PROVE  HistoryIsNewest' /\ ListIsNewest'
    OBVIOUS
  <2> log \in Seq(Message) /\ redis.history \in Seq(Message)
    BY DEF TypeOK
  <2>1. ASSUME NEW op \in {"join", "leave", "message", "drain"}, NEW w, NEW plan \in Plan,
               WriteOf(plan) \in Write, Quiet(members, plan), Perform(op, plan, w)
        PROVE  HistoryIsNewest' /\ ListIsNewest'
    <3>1. ListIsNewest'
      BY <2>1 DEF Perform, Result, ListIsNewest
    <3>2. /\ redis' = IF w \in {"ok", "lost"} THEN Written(redis, WriteOf(plan)) ELSE redis
          /\ log' = IF w \in {"ok", "lost"} /\ plan.post # NoPost
                    THEN Append(log, plan.post) ELSE log
          /\ acked' = IF w = "ok" /\ plan.post # NoPost THEN acked \cup {plan.post} ELSE acked
          /\ WriteOf(plan).post = plan.post
      BY <2>1 DEF Perform, WriteOf
    <3>3. CASE w \in {"ok", "lost"} /\ plan.post # NoPost
      <4>1. plan.post \in Message
        BY <3>3 DEF Plan
      <4>2. IsNewest(redis'.history, log', HistoryCap)
        BY <2>1, <3>2, <3>3, WrittenIsNewest
      <4>3. {log'[i] : i \in 1..Len(log')} = {log[i] : i \in 1..Len(log)} \cup {plan.post}
        BY <3>2, <3>3, <4>1, AppendRange
      <4>4. acked' \subseteq {log'[i] : i \in 1..Len(log')}
        BY <3>2, <4>3 DEF HistoryIsNewest
      <4>5. QED
        BY <3>1, <4>2, <4>4 DEF HistoryIsNewest
    <3>4. CASE ~(w \in {"ok", "lost"} /\ plan.post # NoPost)
      <4>1. redis'.history = redis.history /\ log' = log /\ acked' = acked
        BY <3>2, <3>4 DEF Written
      <4>2. QED
        BY <3>1, <4>1 DEF HistoryIsNewest
    <3>5. QED
      BY <3>3, <3>4
  <2>2. CASE GetRoom
    BY <2>2 DEF GetRoom, Result, HistoryIsNewest, ListIsNewest
  <2>3. CASE ListMessages
    <3>1. PICK limit \in Limits : reply'.limit = limit /\
                                 (reply'.ok => reply'.rows = listMessages(redis.history, limit))
      BY <2>3 DEF ListMessages
    <3>2. ClampLimit(limit) \in 1..HistoryCap
      BY LimitAssumption, CapAssumption DEF ClampLimit
    <3>3. IsNewest(listMessages(redis.history, limit), log, ClampLimit(limit))
      BY <3>2, NewestOfNewest, CapAssumption DEF listMessages, HistoryIsNewest
    <3>4. ListIsNewest'
      <4>1. ClampLimit(limit) = IF limit \in 1..HistoryCap THEN limit ELSE HistoryCap
        BY LimitAssumption, CapAssumption DEF ClampLimit
      <4>2. log' = log
        BY <2>3 DEF ListMessages
      <4>3. QED
        BY <3>1, <3>3, <4>1, <4>2 DEF ListIsNewest
    <3>5. QED
      BY <2>3, <3>4 DEF ListMessages, HistoryIsNewest
  <2>4. CASE Hydrate \/ Terminate
    BY <2>4 DEF Hydrate, Terminate, HistoryIsNewest, ListIsNewest, NoReply, Result
  <2>5. CASE LateWrite
    <3>1. PICK w \in pending : /\ redis' = Written(redis, w)
                              /\ log' = IF w.post # NoPost THEN Append(log, w.post) ELSE log
      BY <2>5 DEF LateWrite
    <3>2. w \in Write /\ acked' = acked
      BY <2>5 DEF LateWrite, TypeOK
    <3>3. ListIsNewest'
      BY <2>5 DEF LateWrite, ListIsNewest, NoReply, Result
    <3>4. CASE w.post # NoPost
      <4>1. w.post \in Message
        BY <3>2, <3>4 DEF Write
      <4>2. IsNewest(redis'.history, log', HistoryCap)
        BY <3>1, <3>2, <3>4, WrittenIsNewest
      <4>3. {log'[i] : i \in 1..Len(log')} = {log[i] : i \in 1..Len(log)} \cup {w.post}
        BY <3>1, <3>4, <4>1, AppendRange
      <4>4. QED
        BY <3>2, <3>3, <4>2, <4>3 DEF HistoryIsNewest
    <3>5. CASE w.post = NoPost
      BY <3>1, <3>2, <3>3, <3>5 DEF HistoryIsNewest, Written
    <3>6. QED
      BY <3>4, <3>5
  <2>6. CASE UNCHANGED vars
    BY <2>6 DEF vars, HistoryIsNewest, ListIsNewest
  <2>7. QED
    BY <2>1, <2>2, <2>3, <2>4, <2>5, <2>6, StepKinds
<1>3. QED
  BY <1>1, <1>2, TypeCorrect, PTL DEF Spec

\* Whatever limit is asked for, a listing is the newest part of what was applied.
THEOREM ListingsAreNewest == Spec => []ListIsNewest
<1>1. HistoryIsNewest /\ ListIsNewest => ListIsNewest
  OBVIOUS
<1>2. QED
  BY <1>1, HistoryNewest, PTL

-----------------------------------------------------------------------------
(* Refinement.  The invariant is that no late write is on its way; every    *)
(* command is then a Commit, an Attempt or an Answer of RoomStore, and the  *)
(* end of an actor is a Restart, because hydrate reads back exactly the     *)
(* stored nicks.                                                            *)

\* A command moves at most one member, and stores its message last.
LEMMA StepKindsSmall ==
    ASSUME TypeOK, Next
    PROVE  \/ \E op \in {"join", "leave", "message", "drain"},
                w \in WriteOutcomes \cup {"none"}, plan \in Plan :
                 Small(members, plan) /\ Perform(op, plan, w)
           \/ GetRoom \/ ListMessages \/ Hydrate \/ Terminate \/ LateWrite
<1>1. members \in Members /\ clock + 1 \in Nat
  BY DEF TypeOK
<1>2. CASE JoinRoom
  <2>1. PICK name \in Raw, conn \in Sender, w \in WriteOutcomes \cup {"none"} :
          Perform("join", join(members, name, conn), w)
    BY <1>2 DEF JoinRoom
  <2>2. join(members, name, conn) \in Plan /\ Small(members, join(members, name, conn))
    BY <1>1, PlansAreTyped, PlansAreSmall
  <2>3. QED
    BY <2>1, <2>2
<1>3. CASE LeaveRoom
  <2>1. PICK name \in Raw, conn \in Sender, w \in WriteOutcomes \cup {"none"} :
          Perform("leave", leave(members, name, conn), w)
    BY <1>3 DEF LeaveRoom
  <2>2. leave(members, name, conn) \in Plan /\ Small(members, leave(members, name, conn))
    BY <1>1, PlansAreTyped, PlansAreSmall
  <2>3. QED
    BY <2>1, <2>2
<1>4. CASE PostMessage
  <2>1. PICK name \in Raw, text \in Text, conn \in Sender, w \in WriteOutcomes \cup {"none"} :
          Perform("message", postMessage(members, name, text, conn, clock + 1), w)
    BY <1>4 DEF PostMessage
  <2>2. /\ postMessage(members, name, text, conn, clock + 1) \in Plan
        /\ Small(members, postMessage(members, name, text, conn, clock + 1))
    BY <1>1, PlansAreTyped, PlansAreSmall, TextAssumption
  <2>3. QED
    BY <2>1, <2>2
<1>5. CASE DrainRegistry
  <2>1. PICK w \in WriteOutcomes : Perform("drain", drain(members), w)
    BY <1>5 DEF DrainRegistry
  <2>2. drain(members) \in Plan /\ Small(members, drain(members))
    BY <1>1, PlansAreTyped, PlansAreSmall, TrimAssumption DEF Sender
  <2>3. QED
    BY <2>1, <2>2
<1>6. QED
  BY <1>2, <1>3, <1>4, <1>5 DEF Next

\* The mapping, written without the functions over the only room.
LEMMA Mapping ==
    /\ Store!Init <=> /\ redis.snapshot \in SUBSET Nick /\ CurrentMembers = redis.snapshot
                      /\ redis.history = <<>> /\ reply.ok = FALSE
    /\ Store!Moves("this") <=>
         \/ CurrentMembers' = CurrentMembers
         \/ \E n \in Nick : CurrentMembers' \in {CurrentMembers \cup {n}, CurrentMembers \ {n}}
    /\ Store!Commit("this") <=>
         /\ Store!Moves("this")
         /\ redis'.snapshot = CurrentMembers'
         /\ redis'.history = redis.history \/ Store!Posts("this")
    /\ Store!Attempt("this") <=>
         /\ Store!Moves("this")
         /\ UNCHANGED <<redis.snapshot, redis.history>>
         /\ ~reply'.ok
    /\ Store!Answer("this") <=> UNCHANGED <<CurrentMembers, redis.snapshot, redis.history>>
    /\ Store!Restart("this") <=> /\ CurrentMembers' = redis.snapshot
                                 /\ UNCHANGED <<redis.snapshot, redis.history>>
    /\ Store!Next <=> \/ Store!Commit("this") \/ Store!Attempt("this")
                      \/ Store!Answer("this") \/ Store!Restart("this")
<1>1. Store!Init <=> /\ redis.snapshot \in SUBSET Nick /\ CurrentMembers = redis.snapshot
                     /\ redis.history = <<>> /\ reply.ok = FALSE
  BY DEF Store!Init, This
<1>2. Store!Moves("this") <=>
         \/ CurrentMembers' = CurrentMembers
         \/ \E n \in Nick : CurrentMembers' \in {CurrentMembers \cup {n}, CurrentMembers \ {n}}
  BY DEF Store!Moves, This
<1>3. Store!Commit("this") <=> /\ Store!Moves("this")
                               /\ redis'.snapshot = CurrentMembers'
                               /\ redis'.history = redis.history \/ Store!Posts("this")
  BY DEF Store!Commit, This
<1>4. Store!Attempt("this") <=> /\ Store!Moves("this")
                                /\ UNCHANGED <<redis.snapshot, redis.history>>
                                /\ ~reply'.ok
  BY DEF Store!Attempt, This
<1>5. Store!Answer("this") <=> UNCHANGED <<CurrentMembers, redis.snapshot, redis.history>>
  BY DEF Store!Answer, This
<1>6. Store!Restart("this") <=> /\ CurrentMembers' = redis.snapshot
                                /\ UNCHANGED <<redis.snapshot, redis.history>>
  BY DEF Store!Restart, This
<1>7. Store!Next <=> \/ Store!Commit("this") \/ Store!Attempt("this")
                     \/ Store!Answer("this") \/ Store!Restart("this")
  BY DEF Store!Next, This
<1>8. QED
  BY <1>1, <1>2, <1>3, <1>4, <1>5, <1>6, <1>7

\* The invariant: no write is on its way that nobody waits for.
NothingLate == pending = {}

\* What it takes to post, in the concrete variables.
LEMMA Posting ==
    ASSUME CurrentMembers' = CurrentMembers, redis.history \in Seq(Message),
           NEW w, w.post \in Message, w.post.from \in CurrentMembers,
           redis'.history = Written(redis, w).history
    PROVE  Store!Posts("this")
<1> DEFINE all == Append(redis.history, w.post)
           excess == IF Len(all) > HistoryCap THEN Len(all) - HistoryCap ELSE 0
<1>1. /\ redis'.history = SubSeq(all, excess + 1, Len(all))
      /\ redis'.history # <<>>
      /\ redis'.history[Len(redis'.history)] = w.post
  BY WrittenPost
<1>2. QED
  BY <1>1 DEF Store!Posts, This

\* A command is a Commit when Redis applied its write, an Attempt when it did
\* not, and an Answer when there was nothing to write.
LEMMA PerformRefines ==
    ASSUME "late" \notin WriteOutcomes, TypeOK, NEW op, NEW plan \in Plan,
           Small(members, plan), NEW w, Perform(op, plan, w)
    PROVE  Store!Next
<1>1. w \in {"ok", "failed", "lost", "none"} /\ (w = "none" <=> ~plan.writes)
  BY OutcomeAssumption DEF Perform, AllOutcomes, Plan
<1>2. /\ alive /\ alive' /\ members' = plan.members
      /\ reply'.ok => w \in {"none", "ok"}
  BY DEF Perform, Result
<1>3. CurrentMembers = memberList(members) /\ CurrentMembers' = memberList(plan.members)
  BY <1>2 DEF CurrentMembers
<1>4. Store!Moves("this")
  BY <1>3, Mapping DEF Small
<1>5. CASE w = "none"
  <2>1. redis' = redis /\ plan.members = members
    BY <1>1, <1>5 DEF Perform, Small
  <2>2. QED
    BY <1>3, <2>1, Mapping
<1>6. CASE w = "failed"
  BY <1>2, <1>4, <1>6, Mapping DEF Perform
<1>7. CASE w \in {"ok", "lost"}
  <2>1. redis' = Written(redis, WriteOf(plan))
    BY <1>7 DEF Perform
  <2>2. redis'.snapshot = CurrentMembers'
    BY <1>3, <2>1 DEF Written, WriteOf
  <2>3. CASE plan.post = NoPost
    <3>1. redis'.history = redis.history
      BY <2>1, <2>3 DEF Written, WriteOf
    <3>2. QED
      BY <1>4, <2>2, <3>1, Mapping
  <2>4. CASE plan.post # NoPost
    <3>1. /\ plan.post \in Message /\ plan.post.from \in CurrentMembers
          /\ CurrentMembers' = CurrentMembers
      BY <1>3, <2>4 DEF Small
    <3>2. WriteOf(plan).post = plan.post
      BY DEF WriteOf
    <3>3. Store!Posts("this")
      BY <2>1, <3>1, <3>2, Posting DEF TypeOK
    <3>4. QED
      BY <1>4, <2>2, <3>3, Mapping
  <2>5. QED
    BY <2>3, <2>4
<1>8. QED
  BY <1>1, <1>5, <1>6, <1>7

\* Whatever fails, short of a write that lands after its deadline, and however
\* often the actor ends and comes back, the room is the one of RoomStore.
THEOREM RoomImplementsStore == "late" \notin WriteOutcomes => (Spec => StoreSpec)
<1> SUFFICES ASSUME "late" \notin WriteOutcomes PROVE Spec => StoreSpec
  OBVIOUS
<1>1. Init => NothingLate /\ Store!Init
  BY Mapping DEF Init, NothingLate, CurrentMembers, NoReply, Result
<1>2. TypeOK /\ NothingLate /\ [Next]_vars => NothingLate'
  <2>1. TypeOK /\ NothingLate /\ Next => NothingLate'
    BY StepKindsSmall, NothingPending DEF NothingLate, GetRoom, ListMessages, Hydrate, Terminate, LateWrite
  <2>2. QED
    BY <2>1 DEF vars, NothingLate
<1>3. TypeOK /\ NothingLate /\ [Next]_vars => [Store!Next]_(Store!vars)
  <2> SUFFICES ASSUME TypeOK, NothingLate, [Next]_vars PROVE [Store!Next]_(Store!vars)
    OBVIOUS
  <2>1. CASE \E op \in {"join", "leave", "message", "drain"},
               w \in WriteOutcomes \cup {"none"}, plan \in Plan :
               Small(members, plan) /\ Perform(op, plan, w)
    BY <2>1, PerformRefines
  <2>2. CASE GetRoom \/ ListMessages
    <3>1. alive' = alive /\ members' = members /\ redis' = redis
      BY <2>2 DEF GetRoom, ListMessages
    <3>2. UNCHANGED <<CurrentMembers, redis.snapshot, redis.history>>
      BY <3>1 DEF CurrentMembers
    <3>3. QED
      BY <3>2, Mapping
  <2>3. CASE Hydrate
    <3>1. CurrentMembers' = redis.snapshot /\ UNCHANGED redis
      BY <2>3, HydrateRestores DEF Hydrate, TypeOK, CurrentMembers
    <3>2. QED
      BY <3>1, Mapping
  <2>4. CASE Terminate
    <3>1. CurrentMembers' = redis.snapshot /\ UNCHANGED redis
      BY <2>4 DEF Terminate, CurrentMembers
    <3>2. QED
      BY <3>1, Mapping
  <2>5. CASE LateWrite
    BY <2>5 DEF LateWrite, NothingLate
  <2>6. CASE UNCHANGED vars
    BY <2>6 DEF vars, Store!vars, CurrentMembers
  <2>7. QED
    BY <2>1, <2>2, <2>3, <2>4, <2>5, <2>6, StepKindsSmall
<1>4. QED
  BY <1>1, <1>2, <1>3, TypeCorrect, PTL DEF Spec, StoreSpec, Store!Spec
=============================================================================
