---------------------------- MODULE WSConnProofs ----------------------------
(***************************************************************************)
(* Proofs about one connection: what its client can tell from the frames   *)
(* it gets, what its commands leave alone, and where it stays a member     *)
(* when it is gone.  The channel and the writer are treated apart from the *)
(* actor's requests, since only enqueue joins them.  Nothing is assumed    *)
(* about faults, nicks, rooms or other clients but where a theorem says so.*)
(***************************************************************************)
EXTENDS WSConn, HandlerLemmas, FiniteSetTheorems

-----------------------------------------------------------------------------
(* Frames.                                                                  *)

\* What is on its way to the client is in the order it was made, part by part.
Ordered ==
    /\ \A i, j \in DOMAIN wire : i < j => wire[i] < wire[j]
    /\ \A i, j \in DOMAIN outbound : i < j => outbound[i] < outbound[j]
    /\ \A i \in DOMAIN wire, j \in DOMAIN outbound : wire[i] < outbound[j]
    /\ writer > 0 =>
          /\ \A i \in DOMAIN wire : wire[i] < writer
          /\ \A j \in DOMAIN outbound : writer < outbound[j]

\* A dropped frame is nowhere, and is not the welcome.
Lost ==
    /\ dropped \subseteq 2..made
    /\ \A i \in DOMAIN wire : wire[i] \notin dropped
    /\ \A j \in DOMAIN outbound : outbound[j] \notin dropped
    /\ writer \notin dropped

Somewhere(f) ==
    \/ f = writer
    \/ \E i \in DOMAIN wire : wire[i] = f
    \/ \E j \in DOMAIN outbound : outbound[j] = f

\* A frame that is neither dropped nor under way was lost with the socket or the
\* writer.
Accounted == socket = "open" /\ writer # -1 =>
    \A f \in 1..made : f \in dropped \/ Somewhere(f)

Welcomed == wire # <<>> => wire[1] = 1

ChannelType ==
    /\ made \in Nat \ {0}
    /\ outbound \in Seq(1..made) /\ Len(outbound) <= OutboundCap
    /\ wire \in Seq(1..made) /\ writer \in -1..made
    /\ socket \in {"open", "closed"}

ChannelInv == ChannelType /\ Ordered /\ Lost /\ Accounted /\ Welcomed

\* What a step can do to the channel and the socket.
LEMMA ChannelSteps ==
    ASSUME [Next]_vars, ChannelType
    PROVE  \/ UNCHANGED <<outbound, made, dropped, writer, wire>> /\ socket' \in {socket, "closed"}
           \/ enqueue /\ UNCHANGED <<writer, wire, socket>>
           \/ TakeFrame \/ WriteFrame \/ WriteFails \/ WriterEnds
<1>1. CASE ReadFrame \/ ReadFails \/ Disconnect
  BY <1>1 DEF ReadFrame, ReadFails, Disconnect, channel, io
<1>2. CASE SendCommand \/ StartCleanup \/ LeaveNext \/ LeaveReturns \/ Terminate \/ CallTimeout
  BY <1>2 DEF SendCommand, StartCleanup, LeaveNext, LeaveReturns, Terminate, CallTimeout, channel, io
<1>3. CASE AnswerPing \/ ForwardEvent \/ CommandReturns
  BY <1>3 DEF AnswerPing, ForwardEvent, CommandReturns, io
<1>4. CASE ServerStep \/ OtherClient \/ Rehydrate
  BY <1>4 DEF ServerStep, ServeRequest, RefuseRequest, OtherClient, Rehydrate, channel, io
<1>5. CASE UNCHANGED vars
  BY <1>5 DEF vars, channel, io
<1>6. QED
  BY <1>1, <1>2, <1>3, <1>4, <1>5 DEF Next, ActorStep, WriterStep

\* A frame more is the last one, or dropped.
LEMMA EnqueueKeeps ==
    ASSUME ChannelInv, enqueue, UNCHANGED <<writer, wire, socket>>
    PROVE  ChannelInv'
<1>1. /\ made \in Nat \ {0} /\ made' = made + 1 /\ made' \in Nat \ {0}
      /\ outbound \in Seq(1..made) /\ wire \in Seq(1..made) /\ writer \in -1..made
      /\ 1..made \subseteq 1..made' /\ -1..made \subseteq -1..made'
  BY DEF ChannelInv, ChannelType, enqueue
<1>2. /\ outbound \in Seq(1..made') /\ wire \in Seq(1..made')
      /\ \A i \in DOMAIN outbound : outbound[i] \in 1..made
      /\ \A i \in DOMAIN wire : wire[i] \in 1..made
  BY <1>1
<1>3. CASE Len(outbound) < OutboundCap
  <2>1. outbound' = Append(outbound, made + 1) /\ dropped' = dropped
    BY <1>3 DEF enqueue
  <2>2. /\ outbound' \in Seq(1..made') /\ Len(outbound') = Len(outbound) + 1
        /\ DOMAIN outbound' = 1..(Len(outbound) + 1) /\ DOMAIN outbound = 1..Len(outbound)
        /\ \A i \in DOMAIN outbound : outbound'[i] = outbound[i]
        /\ outbound'[Len(outbound) + 1] = made + 1 /\ Len(outbound) \in Nat
    BY <1>1, <1>2, <2>1, AppendProperties
  <2>3. ChannelType'
    BY <1>1, <1>2, <1>3, <2>2, CapAssumption2 DEF ChannelInv, ChannelType
  <2>4. Ordered'
    <3>1. \A j \in DOMAIN outbound' : j \in DOMAIN outbound \/ outbound'[j] = made + 1
      BY <2>2
    <3>2. \A i, j \in DOMAIN outbound' : i < j => outbound'[i] < outbound'[j]
      <4>1. \A i, j \in DOMAIN outbound' : i < j => i \in DOMAIN outbound
        BY <2>2
      <4>2. \A i \in DOMAIN outbound : outbound'[i] < made + 1
        BY <1>1, <1>2, <2>2
      <4>3. QED
        BY <2>2, <3>1, <4>1, <4>2 DEF ChannelInv, Ordered
    <3>3. \A i \in DOMAIN wire : wire[i] < made + 1
      BY <1>1, <1>2
    <3>4. \A i \in DOMAIN wire, j \in DOMAIN outbound' : wire[i] < outbound'[j]
      BY <2>2, <3>1, <3>3 DEF ChannelInv, Ordered
    <3>5. writer > 0 => \A j \in DOMAIN outbound' : writer < outbound'[j]
      <4>1. writer > 0 => \A j \in DOMAIN outbound : writer < outbound[j]
        BY DEF ChannelInv, Ordered
      <4>2. writer < made + 1
        BY <1>1
      <4>3. QED
        BY <2>2, <3>1, <4>1, <4>2
    <3>6. QED
      BY <3>2, <3>4, <3>5 DEF ChannelInv, Ordered
  <2>5. Lost'
    BY <1>1, <1>2, <2>1, <2>2 DEF ChannelInv, Lost
  <2>6. Accounted'
    <3>1. ASSUME NEW f, Somewhere(f) PROVE Somewhere(f)'
      <4>1. CASE \E j \in DOMAIN outbound : outbound[j] = f
        BY <2>2, <4>1 DEF Somewhere
      <4>2. QED
        BY <3>1, <4>1 DEF Somewhere
    <3>2. ASSUME NEW f, f = made + 1 PROVE Somewhere(f)'
      <4>1. Len(outbound) + 1 \in DOMAIN outbound'
        BY <2>2
      <4>2. QED
        BY <2>2, <3>2, <4>1 DEF Somewhere
    <3>3. \A f \in 1..made' : f \in 1..made \/ f = made + 1
      BY <1>1
    <3>4. QED
      BY <2>1, <3>1, <3>2, <3>3 DEF ChannelInv, Accounted
  <2>7. QED
    BY <2>3, <2>4, <2>5, <2>6 DEF ChannelInv, Welcomed
<1>4. CASE ~(Len(outbound) < OutboundCap)
  <2>1. outbound' = outbound /\ dropped' = dropped \cup {made + 1}
    BY <1>4 DEF enqueue
  <2>2. ChannelType'
    BY <1>1, <1>2, <2>1 DEF ChannelInv, ChannelType
  <2>3. Ordered'
    BY <2>1 DEF ChannelInv, Ordered
  <2>4. Lost'
    BY <1>1, <1>2, <2>1 DEF ChannelInv, Lost
  <2>5. Accounted'
    BY <1>1, <2>1 DEF ChannelInv, Accounted, Somewhere
  <2>6. QED
    BY <2>2, <2>3, <2>4, <2>5 DEF ChannelInv, Welcomed
<1>5. QED
  BY <1>3, <1>4

\* The writer takes the oldest frame of the channel;
LEMMA TakeFrameKeeps ==
    ASSUME ChannelInv, TakeFrame
    PROVE  ChannelInv'
<1>1. /\ made \in Nat \ {0} /\ outbound \in Seq(1..made) /\ wire \in Seq(1..made)
      /\ writer = 0 /\ writer' = Head(outbound) /\ outbound' = Tail(outbound)
      /\ outbound # <<>> /\ UNCHANGED <<made, dropped, wire, socket>>
  BY DEF ChannelInv, ChannelType, TakeFrame
<1>2. /\ writer' \in 1..made /\ writer' = outbound[1] /\ 1 \in DOMAIN outbound
      /\ outbound' \in Seq(1..made) /\ Len(outbound') = Len(outbound) - 1
      /\ \A i \in DOMAIN outbound' : i + 1 \in DOMAIN outbound /\ outbound'[i] = outbound[i + 1]
  BY <1>1, TakeMail
<1>3. /\ DOMAIN outbound = 1..Len(outbound) /\ DOMAIN outbound' = 1..Len(outbound')
      /\ Len(outbound) \in Nat
  BY <1>1, <1>2
<1>4. ChannelType'
  BY <1>1, <1>2, <1>3, CapAssumption2 DEF ChannelInv, ChannelType
<1>5. Ordered'
  <2>1. \A i, j \in DOMAIN outbound' : i < j => outbound'[i] < outbound'[j]
    BY <1>2, <1>3 DEF ChannelInv, Ordered
  <2>2. \A i \in DOMAIN wire, j \in DOMAIN outbound' : wire[i] < outbound'[j]
    BY <1>2 DEF ChannelInv, Ordered
  <2>3. \A i \in DOMAIN wire : wire[i] < writer'
    BY <1>2 DEF ChannelInv, Ordered
  <2>4. \A j \in DOMAIN outbound' : writer' < outbound'[j]
    BY <1>2, <1>3 DEF ChannelInv, Ordered
  <2>5. QED
    BY <1>1, <2>1, <2>2, <2>3, <2>4 DEF ChannelInv, Ordered
<1>6. Lost'
  BY <1>1, <1>2 DEF ChannelInv, Lost
<1>7. Accounted'
  <2> SUFFICES ASSUME socket = "open", NEW f \in 1..made, f \notin dropped,
                      ~ \E i \in DOMAIN wire : wire[i] = f
               PROVE  f = writer' \/ \E j \in DOMAIN outbound' : outbound'[j] = f
    BY <1>1 DEF Accounted, Somewhere
  <2>1. PICK j \in DOMAIN outbound : outbound[j] = f
    <3>1. f # writer /\ writer # -1
      BY <1>1
    <3>2. Somewhere(f)
      BY <3>1 DEF ChannelInv, Accounted
    <3>3. QED
      BY <3>1, <3>2 DEF Somewhere
  <2>2. j # 1 => j - 1 \in DOMAIN outbound' /\ outbound'[j - 1] = f
    BY <1>2, <1>3, <2>1
  <2>3. QED
    BY <1>2, <2>1, <2>2
<1>8. QED
  BY <1>1, <1>4, <1>5, <1>6, <1>7 DEF ChannelInv, Welcomed

\* and writes it, or loses it to a closed socket.
LEMMA WriteFrameKeeps ==
    ASSUME ChannelInv, WriteFrame
    PROVE  ChannelInv'
<1>1. /\ made \in Nat \ {0} /\ outbound \in Seq(1..made) /\ wire \in Seq(1..made)
      /\ writer \in 1..made /\ writer' = 0
      /\ UNCHANGED <<outbound, made, dropped, socket>>
  BY DEF ChannelInv, ChannelType, WriteFrame, channel
<1>2. CASE socket = "open"
  <2>1. wire' = Append(wire, writer)
    BY <1>2 DEF WriteFrame
  <2>2. /\ wire' \in Seq(1..made) /\ Len(wire) \in Nat /\ wire' # <<>>
        /\ DOMAIN wire' = 1..(Len(wire) + 1) /\ DOMAIN wire = 1..Len(wire)
        /\ \A i \in DOMAIN wire : wire'[i] = wire[i]
        /\ wire'[Len(wire) + 1] = writer
    BY <1>1, <2>1, AppendProperties
  <2>3. ChannelType'
    BY <1>1, <2>2 DEF ChannelInv, ChannelType
  <2>4. Ordered'
    <3>1. \A i \in DOMAIN wire' : i \in DOMAIN wire \/ wire'[i] = writer
      BY <2>2
    <3>2. \A i, j \in DOMAIN wire' : i < j => wire'[i] < wire'[j]
      <4>1. \A i, j \in DOMAIN wire' : i < j => i \in DOMAIN wire
        BY <2>2
      <4>2. \A i \in DOMAIN wire : wire[i] < writer
        BY <1>1 DEF ChannelInv, Ordered
      <4>3. QED
        BY <2>2, <3>1, <4>1, <4>2 DEF ChannelInv, Ordered
    <3>3. \A j \in DOMAIN outbound : writer < outbound[j]
      BY <1>1 DEF ChannelInv, Ordered
    <3>4. \A i \in DOMAIN wire', j \in DOMAIN outbound : wire'[i] < outbound[j]
      BY <2>2, <3>1, <3>3 DEF ChannelInv, Ordered
    <3>5. QED
      BY <1>1, <3>2, <3>4 DEF ChannelInv, Ordered
  <2>5. Lost'
    <3>1. \A i \in DOMAIN wire' : i \in DOMAIN wire \/ wire'[i] = writer
      BY <2>2
    <3>2. 0 \notin 2..made
      BY <1>1
    <3>3. QED
      BY <1>1, <2>2, <3>1, <3>2 DEF ChannelInv, Lost
  <2>6. Accounted'
    <3>1. ASSUME NEW f, Somewhere(f) PROVE Somewhere(f)'
      <4>1. CASE f = writer
        <5>1. Len(wire) + 1 \in DOMAIN wire'
          BY <2>2
        <5>2. QED
          BY <2>2, <4>1, <5>1 DEF Somewhere
      <4>2. CASE \E i \in DOMAIN wire : wire[i] = f
        BY <2>2, <4>2 DEF Somewhere
      <4>3. QED
        BY <1>1, <3>1, <4>1, <4>2 DEF Somewhere
    <3>2. writer # -1
      BY <1>1
    <3>3. QED
      BY <1>1, <3>1, <3>2 DEF ChannelInv, Accounted
  <2>7. Welcomed'
    <3>1. CASE wire # <<>>
      <4>1. 1 \in DOMAIN wire
        BY <1>1, <3>1, EmptySeq
      <4>2. QED
        BY <2>2, <3>1, <4>1 DEF ChannelInv, Welcomed
    <3>2. CASE wire = <<>>
      <4>1. DOMAIN wire = {} /\ Len(wire) = 0
        BY <3>2
      <4>2. 1 \notin dropped /\ 1 \in 1..made
        BY <1>1 DEF ChannelInv, Lost
      <4>3. Somewhere(1)
        BY <1>1, <1>2, <4>2 DEF ChannelInv, Accounted
      <4>4. writer = 1
        BY <1>1, <4>1, <4>3 DEF ChannelInv, Ordered, Somewhere
      <4>5. QED
        BY <2>2, <4>1, <4>4 DEF Welcomed
    <3>3. QED
      BY <3>1, <3>2
  <2>8. QED
    BY <2>3, <2>4, <2>5, <2>6, <2>7 DEF ChannelInv
<1>3. CASE socket # "open"
  <2>1. wire' = wire
    BY <1>3 DEF WriteFrame
  <2>2. ChannelType' /\ Accounted' /\ Welcomed'
    BY <1>1, <1>3, <2>1 DEF ChannelInv, ChannelType, Accounted, Welcomed
  <2>3. Ordered' /\ Lost'
    BY <1>1, <2>1 DEF ChannelInv, Ordered, Lost
  <2>4. QED
    BY <2>2, <2>3 DEF ChannelInv
<1>4. QED
  BY <1>2, <1>3

\* Every step keeps the frames in order and accounted for.
LEMMA ChannelKeeps == ChannelInv /\ [Next]_vars => ChannelInv'
<1> SUFFICES ASSUME ChannelInv, [Next]_vars PROVE ChannelInv'
  OBVIOUS
<1>1. CASE UNCHANGED <<outbound, made, dropped, writer, wire>> /\ socket' \in {socket, "closed"}
  BY <1>1 DEF ChannelInv, ChannelType, Ordered, Lost, Accounted, Welcomed, Somewhere
<1>2. CASE WriteFails \/ WriterEnds
  <2>1. writer' = -1 /\ UNCHANGED <<outbound, made, dropped, wire, socket>>
    BY <1>2 DEF WriteFails, WriterEnds, channel
  <2>2. -1 \in -1..made /\ -1 \notin 2..made
    BY DEF ChannelInv, ChannelType
  <2>3. QED
    BY <2>1, <2>2 DEF ChannelInv, ChannelType, Ordered, Lost, Accounted, Welcomed
<1>3. QED
  BY <1>1, <1>2, ChannelSteps, EnqueueKeeps, TakeFrameKeeps, WriteFrameKeeps DEF ChannelInv

\* The welcome frame is in the channel before anything happens.
LEMMA ChannelInit == Init => ChannelInv
<1> SUFFICES ASSUME Init PROVE ChannelInv
  OBVIOUS
<1>1. /\ made = 1 /\ outbound = <<1>> /\ dropped = {} /\ wire = <<>> /\ writer = 0
      /\ socket = "open"
  BY DEF Init
<1>2. /\ <<1>> \in Seq(1..1) /\ Len(<<1>>) = 1 /\ DOMAIN <<1>> = {1} /\ <<1>>[1] = 1
      /\ DOMAIN <<>> = {} /\ <<>> \in Seq(1..1)
  OBVIOUS
<1>3. ChannelType
  BY <1>1, <1>2, CapAssumption2 DEF ChannelType
<1>4. Ordered /\ Lost /\ Welcomed
  BY <1>1, <1>2 DEF Ordered, Lost, Welcomed
<1>5. Accounted
  BY <1>1, <1>2 DEF Accounted, Somewhere
<1>6. QED
  BY <1>3, <1>4, <1>5 DEF ChannelInv

\* What is under way, part by part, is what is under way.
LEMMA UnderWayParts ==
    ASSUME ChannelType
    PROVE  LET a == Len(wire)
               b == IF writer > 0 THEN 1 ELSE 0
               c == Len(outbound)
           IN  /\ a \in Nat /\ c \in Nat
               /\ DOMAIN wire = 1..a /\ DOMAIN outbound = 1..c
               /\ DOMAIN UnderWay = 1..(a + b + c)
               /\ \A i \in 1..(a + b + c) : UnderWay[i] =
                     IF i <= a THEN wire[i] ELSE IF i <= a + b THEN writer ELSE outbound[i - a - b]
<1> DEFINE mid == IF writer > 0 THEN <<writer>> ELSE <<>>
           S == 1..made
           a == Len(wire)
           b == IF writer > 0 THEN 1 ELSE 0
           c == Len(outbound)
<1>1. wire \in Seq(S) /\ outbound \in Seq(S) /\ made \in Nat /\ writer \in -1..made
  BY DEF ChannelType
<1>2. mid \in Seq(S) /\ Len(mid) = b /\ (writer > 0 => mid[1] = writer)
  <2>1. CASE writer > 0
    <3>1. writer \in S
      BY <1>1, <2>1
    <3>2. <<writer>> \in Seq(S) /\ Len(<<writer>>) = 1 /\ <<writer>>[1] = writer
      BY <3>1
    <3>3. QED
      BY <2>1, <3>2
  <2>2. CASE ~(writer > 0)
    BY <2>2
  <2>3. QED
    BY <2>1, <2>2
<1>3. a \in Nat /\ b \in {0, 1} /\ c \in Nat /\ DOMAIN wire = 1..a /\ DOMAIN outbound = 1..c
  BY <1>1
<1> HIDE DEF mid, S
<1>4. /\ wire \o mid \in Seq(S) /\ Len(wire \o mid) = a + b
      /\ \A i \in 1..(a + b) : (wire \o mid)[i] = IF i <= a THEN wire[i] ELSE mid[i - a]
  <2>1. /\ wire \o mid \in Seq(S) /\ Len(wire \o mid) = Len(wire) + Len(mid)
        /\ \A i \in 1 .. Len(wire) + Len(mid) : (wire \o mid)[i] =
              IF i <= Len(wire) THEN wire[i] ELSE mid[i - Len(wire)]
    BY <1>1, <1>2, ConcatProperties
  <2>2. QED
    BY <1>2, <2>1
<1>5. /\ (wire \o mid) \o outbound \in Seq(S) /\ Len((wire \o mid) \o outbound) = a + b + c
      /\ \A i \in 1..(a + b + c) : ((wire \o mid) \o outbound)[i] =
            IF i <= a + b THEN (wire \o mid)[i] ELSE outbound[i - (a + b)]
  <2> DEFINE first == wire \o mid
  <2>1. first \in Seq(S) /\ Len(first) = a + b
    BY <1>4
  <2> HIDE DEF first
  <2>2. /\ first \o outbound \in Seq(S) /\ Len(first \o outbound) = Len(first) + Len(outbound)
        /\ \A i \in 1 .. Len(first) + Len(outbound) : (first \o outbound)[i] =
              IF i <= Len(first) THEN first[i] ELSE outbound[i - Len(first)]
    BY <1>1, <2>1, ConcatProperties
  <2>3. QED
    BY <2>1, <2>2 DEF first
<1>6. UnderWay = (wire \o mid) \o outbound
  BY DEF UnderWay, mid
<1>7. \A i \in 1..(a + b + c) : a < i /\ i <= a + b => i - a = 1 /\ writer > 0
  BY <1>3
<1>8. \A i \in 1..(a + b + c) : i - (a + b) = i - a - b
  BY <1>3
<1>9. DOMAIN UnderWay = 1..(a + b + c)
  BY <1>5, <1>6
<1>10. \A i \in 1..(a + b + c) : UnderWay[i] =
          IF i <= a THEN wire[i] ELSE IF i <= a + b THEN writer ELSE outbound[i - a - b]
  <2> TAKE i \in 1..(a + b + c)
  <2>1. CASE i <= a
    BY <1>3, <1>4, <1>5, <1>6, <2>1
  <2>2. CASE ~(i <= a) /\ i <= a + b
    <3>1. i - a = 1 /\ writer > 0 /\ i \in 1..(a + b)
      BY <1>3, <1>7, <2>2
    <3>2. QED
      BY <1>2, <1>4, <1>5, <1>6, <2>2, <3>1
  <2>3. CASE ~(i <= a) /\ ~(i <= a + b)
    BY <1>5, <1>6, <1>8, <2>3
  <2>4. QED
    BY <1>3, <2>1, <2>2, <2>3
<1>11. QED
  BY <1>3, <1>9, <1>10

\* So the invariant is about the frames as the client sees them.
LEMMA ChannelInOrder == ChannelInv => FramesInOrder
<1> SUFFICES ASSUME ChannelInv PROVE FramesInOrder
  OBVIOUS
<1> DEFINE a == Len(wire)
           b == IF writer > 0 THEN 1 ELSE 0
           c == Len(outbound)
<1>1. ChannelType /\ writer \in -1..made /\ made \in Nat \ {0} /\ dropped \subseteq 2..made
  BY DEF ChannelInv, ChannelType, Lost
<1>2. /\ a \in Nat /\ b \in {0, 1} /\ c \in Nat
      /\ DOMAIN wire = 1..a /\ DOMAIN outbound = 1..c
      /\ DOMAIN UnderWay = 1..(a + b + c)
      /\ \A i \in 1..(a + b + c) : UnderWay[i] =
            IF i <= a THEN wire[i] ELSE IF i <= a + b THEN writer ELSE outbound[i - a - b]
  BY <1>1, UnderWayParts
<1>3. /\ \A i \in 1..a : wire[i] \in 1..made
      /\ \A i \in 1..c : outbound[i] \in 1..made
  BY <1>1, <1>2 DEF ChannelType
<1> HIDE DEF a, b, c
<1>4. ASSUME NEW i \in 1..(a + b + c)
      PROVE  \/ i \in 1..a /\ UnderWay[i] = wire[i]
             \/ i = a + 1 /\ b = 1 /\ UnderWay[i] = writer /\ ~(i <= a)
             \/ i - a - b \in 1..c /\ UnderWay[i] = outbound[i - a - b] /\ ~(i <= a + b)
  BY <1>2, <1>4
<1>5. \A i, j \in DOMAIN UnderWay : i < j => UnderWay[i] < UnderWay[j]
  <2> SUFFICES ASSUME NEW i \in 1..(a + b + c), NEW j \in 1..(a + b + c), i < j
               PROVE  UnderWay[i] < UnderWay[j]
    BY <1>2
  <2>1. /\ \A x, y \in 1..a : x < y => wire[x] < wire[y]
        /\ \A x, y \in 1..c : x < y => outbound[x] < outbound[y]
        /\ \A x \in 1..a, y \in 1..c : wire[x] < outbound[y]
        /\ b = 1 => /\ \A x \in 1..a : wire[x] < writer
                    /\ \A y \in 1..c : writer < outbound[y]
    BY <1>2 DEF ChannelInv, Ordered, b
  <2>2. CASE i \in 1..a /\ UnderWay[i] = wire[i]
    <3>1. CASE j \in 1..a /\ UnderWay[j] = wire[j]
      BY <2>1, <2>2, <3>1
    <3>2. CASE b = 1 /\ UnderWay[j] = writer
      BY <2>1, <2>2, <3>2
    <3>3. CASE j - a - b \in 1..c /\ UnderWay[j] = outbound[j - a - b]
      BY <2>1, <2>2, <3>3
    <3>4. QED
      BY <1>4, <3>1, <3>2, <3>3
  <2>3. CASE i = a + 1 /\ b = 1 /\ UnderWay[i] = writer
    <3>1. ~(j <= a) /\ j # a + 1
      BY <1>2, <2>3
    <3>2. j - a - b \in 1..c /\ UnderWay[j] = outbound[j - a - b]
      BY <1>2, <1>4, <3>1
    <3>3. QED
      BY <2>1, <2>3, <3>2
  <2>4. CASE i - a - b \in 1..c /\ UnderWay[i] = outbound[i - a - b] /\ ~(i <= a + b)
    <3>1. ~(j <= a) /\ ~(j = a + 1 /\ b = 1)
      BY <1>2, <2>4
    <3>2. j - a - b \in 1..c /\ UnderWay[j] = outbound[j - a - b] /\ i - a - b < j - a - b
      BY <1>2, <1>4, <3>1
    <3>3. QED
      BY <2>1, <2>4, <3>2
  <2>5. QED
    BY <1>4, <2>2, <2>3, <2>4
<1>6. wire # <<>> => wire[1] = 1
  BY DEF ChannelInv, Welcomed
<1>7. ToSet(UnderWay) \cap dropped = {}
  <2>1. \A i \in DOMAIN UnderWay : UnderWay[i] \notin dropped
    BY <1>2, <1>4 DEF ChannelInv, Lost
  <2>2. QED
    BY <2>1 DEF ToSet
<1>8. ASSUME socket = "open", writer # -1
      PROVE  ToSet(UnderWay) \cup dropped = 1..made
  <2>1. \A i \in 1..(a + b + c) : UnderWay[i] \in 1..made
    <3>1. b = 1 => writer \in 1..made
      BY <1>1 DEF b
    <3>2. QED
      BY <1>3, <1>4, <3>1
  <2>2. dropped \subseteq 1..made
    BY <1>1
  <2>3. ASSUME NEW f \in 1..made, f \notin dropped
        PROVE  \E i \in 1..(a + b + c) : UnderWay[i] = f
    <3>1. Somewhere(f)
      BY <1>8, <2>3 DEF ChannelInv, Accounted
    <3>2. CASE f = writer
      <4>1. b = 1 /\ a + 1 \in 1..(a + b + c)
        BY <1>2, <3>2 DEF b
      <4>2. UnderWay[a + 1] = writer
        BY <1>2, <4>1
      <4>3. QED
        BY <3>2, <4>1, <4>2
    <3>3. ASSUME NEW x \in 1..a, wire[x] = f PROVE \E i \in 1..(a + b + c) : UnderWay[i] = f
      BY <1>2, <3>3
    <3>4. ASSUME NEW x \in 1..c, outbound[x] = f PROVE \E i \in 1..(a + b + c) : UnderWay[i] = f
      <4>1. x + a + b \in 1..(a + b + c) /\ ~(x + a + b <= a) /\ ~(x + a + b <= a + b)
            /\ x + a + b - a - b = x
        BY <1>2
      <4>2. UnderWay[x + a + b] = outbound[x + a + b - a - b]
        BY <1>2, <4>1
      <4>3. UnderWay[x + a + b] = f
        BY <3>4, <4>1, <4>2
      <4>4. QED
        BY <4>1, <4>3
    <3>5. QED
      BY <1>2, <3>1, <3>2, <3>3, <3>4 DEF Somewhere
  <2>4. QED
    BY <1>2, <2>1, <2>2, <2>3 DEF ToSet
<1>9. QED
  BY <1>5, <1>6, <1>7, <1>8 DEF FramesInOrder

\* The client gets the frames in order, the welcome first, and while socket and
\* writer live it misses only those that found the channel full; for a channel of
\* any capacity, and whatever is refused, lost or late.
THEOREM FramesArriveInOrder == Spec => []FramesInOrder
  BY ChannelInit, ChannelKeeps, ChannelInOrder, PTL DEF Spec

-----------------------------------------------------------------------------
(* Requests and rooms.                                                      *)

Item == {RoomEvent, SocketClosed} \cup {Frame(f) : f \in ClientFrame}
Asked == [type : FrameType, room : RoomID, nick : Trimmed, awaited : BOOLEAN]
CallType == [type : FrameType \cup {"none"}, room : RoomID, nick : Trimmed,
             answer : {"none", "ok", "fail", "error"}]
Stored == [snapshot : SUBSET Nick, history : Seq(Message)]

\* Rooms have finitely many members, whatever the strings are that clients send.
FewMembers == \A r \in Room : IsFiniteSet(memberList(members[r]))

SessionInv ==
    /\ actor \in {"running", "cleaning", "stopped"}
    /\ mailbox \in Seq(Item)
    /\ call \in CallType
    /\ todo \subseteq Room
    /\ joined \in [Room -> Trimmed] /\ unsure \subseteq Room
    /\ reader \in {"reading", "done"}
    /\ requests \in Seq(Asked)
    /\ members \in [Room -> Members]
    /\ redis \in [Room -> Stored]
    /\ joiner \in [Room -> Members] /\ unloaded \subseteq Room
    /\ sent \in 0..MaxFrames /\ others \in 0..MaxOthers
    /\ FewMembers

\* The trimmed strings are the nicks and the blank one.
LEMMA TrimmedNames ==
    Trimmed = Nick \cup {Blank} /\ Trimmed \subseteq Raw /\ \A s \in Raw : TrimSpace[s] \in Trimmed
  BY TrimAssumption DEF Trimmed, Nick

\* A small plan of a room with finitely many members leaves it so.
LEMMA SmallIsFew ==
    ASSUME NEW m \in Members, NEW plan, Small(m, plan), IsFiniteSet(memberList(m))
    PROVE  IsFiniteSet(memberList(plan.members))
<1>1. CASE memberList(plan.members) = memberList(m)
  BY <1>1
<1>2. ASSUME NEW n \in Nick, memberList(plan.members) = memberList(m) \cup {n}
      PROVE  IsFiniteSet(memberList(plan.members))
  BY <1>2, FS_AddElement
<1>3. ASSUME NEW n \in Nick, memberList(plan.members) = memberList(m) \ {n}
      PROVE  IsFiniteSet(memberList(plan.members))
  BY <1>3, FS_Subset
<1>4. QED
  BY <1>1, <1>2, <1>3 DEF Small

\* What a room makes of a request of this connection.
LEMMA PlanForAsked ==
    ASSUME NEW m \in Members, NEW req \in Asked
    PROVE  /\ PlanFor(m, req) \in Plan /\ WriteOf(PlanFor(m, req)) \in Write
           /\ Small(m, PlanFor(m, req))
<1>1. req.nick \in Raw /\ Me \in Sender /\ req.type # "evict" /\ 1 \in Nat
  BY TrimmedNames, ConnectionAssumption DEF Asked, FrameType, Sender
<1>2. /\ Answer(m, TRUE) \in Plan /\ WriteOf(Answer(m, TRUE)) \in Write
      /\ Small(m, Answer(m, TRUE))
  BY DEF Answer, Plan, Event, WriteOf, Write, Small, memberList
<1>3. QED
  BY <1>1, <1>2, PlansAreTyped, PlansAreSmall DEF PlanFor

\* A plan carried out; the copies of its event are finitely many.
LEMMA CarryKeeps ==
    ASSUME SessionInv, NEW r \in Room, NEW plan \in Plan, WriteOf(plan) \in Write,
           Small(members[r], plan), NEW w, Carry(r, plan, w)
    PROVE  /\ members' \in [Room -> Members] /\ redis' \in [Room -> Stored]
           /\ mailbox' \in Seq(Item) /\ FewMembers'
<1>1. /\ members \in [Room -> Members] /\ members[r] \in Members /\ redis \in [Room -> Stored]
      /\ redis[r] \in Stored /\ plan.members \in Members /\ FewMembers /\ mailbox \in Seq(Item)
  BY DEF SessionInv, Plan
<1>2. members' = [members EXCEPT ![r] = plan.members]
  BY DEF Carry
<1>3. IsFiniteSet(memberList(plan.members))
  BY <1>1, SmallIsFew DEF FewMembers
<1>4. FewMembers'
  BY <1>1, <1>2, <1>3 DEF FewMembers
<1>5. redis' \in [Room -> Stored]
  <2>1. Written(redis[r], WriteOf(plan)) \in Stored
    BY <1>1, WrittenType DEF Stored
  <2>2. QED
    BY <1>1, <2>1 DEF Carry
<1>6. mailbox' \in Seq(Item)
  <2> DEFINE copies == broadcast(plan.members)[Me]
             events == [i \in 1..copies |-> RoomEvent]
  <2>1. copies = Cardinality({n \in Nick : plan.members[n] = Me})
    BY ConnectionAssumption DEF broadcast
  <2>2. {n \in Nick : plan.members[n] = Me} \in SUBSET memberList(plan.members)
    BY ConnectionAssumption, ConnAssumption DEF memberList
  <2>3. copies \in Nat
    BY <1>3, <2>1, <2>2, FS_Subset, FS_CardinalityType
  <2> HIDE DEF copies
  <2>4. events \in Seq(Item) /\ <<>> \in Seq(Item)
    BY <2>3 DEF Item
  <2> HIDE DEF events
  <2>5. \A items \in Seq(Item) : mailbox \o items \in Seq(Item)
    BY <1>1
  <2>6. \E items \in {events, <<>>} : Post(items)
    BY DEF Carry, events, copies
  <2>7. QED
    BY <1>1, <2>4, <2>5, <2>6 DEF Post
<1>7. QED
  BY <1>1, <1>2, <1>4, <1>5, <1>6

\* Who joined last is somebody who can send a command.
LEMMA RememberKeeps ==
    ASSUME SessionInv, NEW r \in Room, NEW plan, NEW n, plan.event = "join" => n \in Nick,
           NEW c \in Sender, Remember(r, plan, n, c)
    PROVE  joiner' \in [Room -> Members] /\ unloaded' \in SUBSET Room
<1>1. joiner \in [Room -> Members] /\ joiner[r] \in Members /\ unloaded \in SUBSET Room
  BY DEF SessionInv
<1>2. CASE plan.event = "join"
  <2>1. [joiner[r] EXCEPT ![n] = c] \in Members
    BY <1>1, <1>2 DEF Members
  <2>2. joiner' = [joiner EXCEPT ![r] = [joiner[r] EXCEPT ![n] = c]]
    BY <1>2 DEF Remember
  <2>3. unloaded' \in SUBSET Room
    BY <1>1, <1>2 DEF Remember
  <2>4. QED
    BY <1>1, <2>1, <2>2, <2>3
<1>3. CASE plan.event # "join"
  BY <1>1, <1>3 DEF Remember
<1>4. QED
  BY <1>2, <1>3

\* Only a join that names a nick is announced as one.
LEMMA AnnouncedJoin ==
    ASSUME NEW m \in Members, NEW req \in Asked
    PROVE  PlanFor(m, req).event = "join" <=> req.type = "join" /\ req.nick \in Nick
<1>1. TrimSpace[req.nick] = req.nick /\ (req.nick \in Nick <=> req.nick # Blank)
  BY TrimmedNames, TrimIsNick, TrimAssumption DEF Asked
<1>2. CASE req.type = "join"
  <2>1. PlanFor(m, req) = join(m, req.nick, Me)
    BY <1>2 DEF PlanFor
  <2>2. QED
    <3>1. CASE req.nick = Blank
      <4>1. join(m, req.nick, Me) = Answer(m, FALSE)
        BY <1>1, <3>1 DEF join
      <4>2. QED
        BY <1>1, <2>1, <3>1, <4>1 DEF Answer
    <3>2. CASE req.nick # Blank
      <4>1. join(m, req.nick, Me) = persistSnapshot([m EXCEPT ![req.nick] = Me], NoPost, "join")
        BY <1>1, <3>2 DEF join
      <4>2. QED
        BY <1>1, <1>2, <2>1, <3>2, <4>1 DEF persistSnapshot
    <3>3. QED
      BY <3>1, <3>2
<1>3. CASE req.type # "join"
  <2>1. \A n, c : leave(m, n, c).event # "join"
    BY DEF leave, Answer, persistSnapshot
  <2>2. \A n, t, c : postMessage(m, n, t, c, 1).event # "join"
    BY DEF postMessage, Answer, persistSnapshot
  <2>3. Answer(m, TRUE).event # "join"
    BY DEF Answer
  <2>4. QED
    BY <1>3, <2>1, <2>2, <2>3 DEF PlanFor
<1>4. QED
  BY <1>2, <1>3

\* A request of the actor is well formed.
LEMMA AskKeeps ==
    ASSUME SessionInv, NEW type \in FrameType, NEW room \in RoomID, NEW nick \in Trimmed,
           Ask(type, room, nick)
    PROVE  call' \in CallType /\ requests' \in Seq(Asked)
  BY DEF SessionInv, Ask, CallType, Asked

\* The reader and the client, and everything the channel is for, leave the rest
\* well formed.
LEMMA OutsideKeeps ==
    ASSUME SessionInv, ReadFrame \/ ReadFails \/ Disconnect \/ WriterStep \/ AnswerPing \/ ForwardEvent
    PROVE  SessionInv'
<1>1. CASE ReadFrame
  <2>1. PICK f \in ClientFrame : Post(<<Frame(f)>>)
    BY <1>1 DEF ReadFrame
  <2>2. Frame(f) \in Item
    BY DEF Item
  <2>3. mailbox' \in Seq(Item)
    BY <2>1, <2>2 DEF Post, SessionInv
  <2>4. sent' \in 0..MaxFrames
    BY <1>1, BoundAssumption DEF ReadFrame, SessionInv
  <2>5. QED
    BY <1>1, <2>3, <2>4 DEF ReadFrame, SessionInv, FewMembers, io, server, rooms
<1>2. CASE ReadFails
  <2>1. SocketClosed \in Item
    BY DEF Item
  <2>2. mailbox' \in Seq(Item)
    BY <1>2, <2>1 DEF ReadFails, Post, SessionInv
  <2>3. QED
    BY <1>2, <2>2 DEF ReadFails, SessionInv, FewMembers, server, rooms
<1>3. CASE Disconnect
  BY <1>3 DEF Disconnect, SessionInv, FewMembers, server, rooms
<1>4. CASE WriterStep
  BY <1>4 DEF WriterStep, TakeFrame, WriteFrame, WriteFails, WriterEnds, SessionInv, FewMembers, server, rooms
<1>5. CASE AnswerPing \/ ForwardEvent
  <2>1. mailbox # <<>> /\ mailbox' = Tail(mailbox)
    BY <1>5 DEF AnswerPing, ForwardEvent, Receive
  <2>2. mailbox' \in Seq(Item)
    BY <2>1, TakeMail DEF SessionInv
  <2>3. QED
    BY <1>5, <2>2 DEF AnswerPing, ForwardEvent, SessionInv, FewMembers, server, rooms, io
<1>6. QED
  BY <1>1, <1>2, <1>3, <1>4, <1>5

\* So do the actor's handlers,
LEMMA HandlersKeep ==
    ASSUME SessionInv, \/ SendCommand \/ CommandReturns \/ StartCleanup \/ LeaveNext
                       \/ LeaveReturns \/ Terminate \/ CallTimeout
    PROVE  SessionInv'
<1>1. /\ NoCall \in CallType /\ Blank \in Trimmed
      /\ \A r \in Room : joined[r] \in Trimmed
  BY TrimmedNames DEF SessionInv, NoCall, CallType, RoomID
<1>2. CASE SendCommand
  <2> DEFINE item == Head(mailbox)
             f == item.frame
             nick == TrimSpace[f.nick]
             own == IF f.room \in Room THEN joined[f.room] ELSE Blank
             used == IF f.type \in {"leave", "message"} /\ nick = Blank THEN own ELSE nick
  <2>1. mailbox # <<>> /\ item.kind = "frame" /\ mailbox' = Tail(mailbox)
    BY <1>2 DEF SendCommand, Receive
  <2>2. item \in Item /\ mailbox' \in Seq(Item)
    BY <2>1, TakeMail DEF SessionInv
  <2>3. PICK g \in ClientFrame : item = Frame(g)
    BY <2>1, <2>2 DEF Item, RoomEvent, SocketClosed
  <2>4. f \in [type : FrameType, room : RoomID, nick : Raw]
    BY <2>3, FrameAssumption DEF Frame
  <2>5. used \in Trimmed
    BY <1>1, <2>4, TrimmedNames
  <2>6. Ask(f.type, f.room, used)
    BY <1>2 DEF SendCommand
  <2>7. call' \in CallType /\ requests' \in Seq(Asked)
    <3> HIDE DEF used, f
    <3>1. QED
      BY <2>4, <2>5, <2>6, AskKeeps
  <2>8. QED
    BY <1>2, <2>2, <2>7 DEF SendCommand, SessionInv, FewMembers, rooms, io
<1>3. CASE CommandReturns
  <2>1. call.nick \in Trimmed
    BY DEF SessionInv, CallType
  <2>2. joined' \in [Room -> Trimmed]
    BY <1>1, <1>3, <2>1 DEF CommandReturns, SessionInv
  <2>3. call' \in CallType
    BY <1>1, <1>3 DEF CommandReturns
  <2>4. QED
    BY <1>3, <2>2, <2>3 DEF CommandReturns, Note, SessionInv, FewMembers, io, server, rooms
<1>4. CASE StartCleanup
  <2>1. mailbox # <<>> /\ mailbox' = Tail(mailbox)
    BY <1>4 DEF StartCleanup, Receive
  <2>2. mailbox' \in Seq(Item)
    BY <2>1, TakeMail DEF SessionInv
  <2>3. QED
    BY <1>4, <2>2 DEF StartCleanup, SessionInv, FewMembers, io, server, rooms
<1>5. CASE LeaveNext
  <2>1. PICK r \in todo : Ask("leave", r, joined[r]) /\ todo' = todo \ {r}
    BY <1>5 DEF LeaveNext
  <2>2. r \in Room /\ r \in RoomID /\ joined[r] \in Trimmed /\ "leave" \in FrameType
    BY <1>1 DEF SessionInv, RoomID, FrameType
  <2>3. call' \in CallType /\ requests' \in Seq(Asked)
    BY <2>1, <2>2, AskKeeps
  <2>4. QED
    BY <1>5, <2>1, <2>3 DEF LeaveNext, SessionInv, FewMembers, rooms, io
<1>6. CASE LeaveReturns
  BY <1>1, <1>6 DEF LeaveReturns, Note, SessionInv, FewMembers, io, server, rooms
<1>7. CASE Terminate
  BY <1>7 DEF Terminate, SessionInv, FewMembers, server, rooms
<1>8. CASE CallTimeout
  <2>1. call' \in CallType
    BY <1>8 DEF CallTimeout, SessionInv, CallType
  <2>2. requests' \in Seq(Asked)
    <3>1. requests' = [i \in 1..Len(requests) |-> [requests[i] EXCEPT !.awaited = FALSE]]
      BY <1>8 DEF CallTimeout, SessionInv
    <3>2. \A i \in 1..Len(requests) : [requests[i] EXCEPT !.awaited = FALSE] \in Asked
      <4>1. ASSUME NEW q \in Asked PROVE [q EXCEPT !.awaited = FALSE] \in Asked
        BY DEF Asked
      <4>2. \A i \in 1..Len(requests) : requests[i] \in Asked
        BY DEF SessionInv
      <4>3. QED
        BY <4>1, <4>2
    <3>3. Len(requests) \in Nat
      BY DEF SessionInv
    <3>4. QED
      BY <3>1, <3>2, <3>3
  <2>3. QED
    BY <1>8, <2>1, <2>2 DEF CallTimeout, SessionInv, FewMembers, rooms, io
<1>9. QED
  BY <1>2, <1>3, <1>4, <1>5, <1>6, <1>7, <1>8

\* and what registry and rooms do, for this connection and for others.
LEMMA RoomsKeepTypes ==
    ASSUME SessionInv, ServerStep \/ OtherClient \/ Rehydrate
    PROVE  SessionInv'
<1>1. ASSUME NEW req, NEW result \in {"ok", "fail"}, requests # <<>>, Reply(req, result)
      PROVE  call' \in CallType /\ requests' \in Seq(Asked)
  <2>1. requests' \in Seq(Asked)
    BY <1>1, TakeMail DEF Reply, SessionInv
  <2>2. QED
    BY <1>1, <2>1 DEF Reply, SessionInv, CallType
<1>2. CASE ServeRequest
  <2> DEFINE req == Head(requests)
             plan == PlanFor(members[req.room], req)
  <2>1. requests # <<>> /\ req.room \in Room
    BY <1>2 DEF ServeRequest
  <2>2. req \in Asked /\ members[req.room] \in Members
    BY <2>1, TakeMail DEF SessionInv
  <2>3. PICK w : /\ Carry(req.room, plan, w)
                 /\ Remember(req.room, plan, req.nick, Me)
                 /\ Reply(req, IF plan.ok /\ w = "ok" THEN "ok" ELSE "fail")
    BY <1>2 DEF ServeRequest
  <2>4. plan \in Plan /\ WriteOf(plan) \in Write /\ Small(members[req.room], plan)
    BY <2>2, PlanForAsked
  <2>5. call' \in CallType /\ requests' \in Seq(Asked)
    BY <1>1, <2>1, <2>3
  <2>6. /\ members' \in [Room -> Members] /\ redis' \in [Room -> Stored]
        /\ mailbox' \in Seq(Item) /\ FewMembers'
    <3> HIDE DEF plan
    <3>1. QED
      BY <2>1, <2>3, <2>4, CarryKeeps
  <2>7. UNCHANGED <<actor, todo, joined, unsure, reader, sent, others>>
    BY <1>2 DEF ServeRequest, io
  <2>8. joiner' \in [Room -> Members] /\ unloaded' \in SUBSET Room
    <3>1. plan.event = "join" => req.nick \in Nick
      BY <2>2, AnnouncedJoin
    <3> HIDE DEF plan
    <3>2. QED
      BY <2>1, <2>3, <3>1, RememberKeeps, ConnectionAssumption DEF Sender
  <2>9. QED
    BY <2>5, <2>6, <2>7, <2>8 DEF SessionInv
<1>3. CASE RefuseRequest
  <2>1. PICK result \in {"ok", "fail"} : requests # <<>> /\ Reply(Head(requests), result)
    BY <1>3 DEF RefuseRequest
  <2>2. call' \in CallType /\ requests' \in Seq(Asked)
    BY <1>1, <2>1
  <2>3. QED
    BY <1>3, <2>2 DEF RefuseRequest, SessionInv, FewMembers, rooms, io
<1>4. CASE OtherClient
  <2>1. PICK r \in Room, n \in Nick, c \in Sender \ {Me}, w \in WriteOutcomes :
          \E plan \in {join(members[r], n, c), leave(members[r], n, c)} :
             Carry(r, plan, w) /\ Remember(r, plan, n, c)
    BY <1>4 DEF OtherClient
  <2>2. PICK plan \in {join(members[r], n, c), leave(members[r], n, c)} :
          Carry(r, plan, w) /\ Remember(r, plan, n, c)
    BY <2>1
  <2>3. members[r] \in Members /\ n \in Raw /\ c \in Sender /\ 1 \in Nat
    BY TrimIsNick DEF SessionInv
  <2>4. plan \in Plan /\ WriteOf(plan) \in Write /\ Small(members[r], plan)
    BY <2>2, <2>3, PlansAreTyped, PlansAreSmall
  <2>5. /\ members' \in [Room -> Members] /\ redis' \in [Room -> Stored]
        /\ mailbox' \in Seq(Item) /\ FewMembers'
    BY <2>2, <2>4, CarryKeeps
  <2>6. others' \in 0..MaxOthers
    BY <1>4, BoundAssumption DEF OtherClient, SessionInv
  <2>7. UNCHANGED <<actor, call, todo, joined, unsure, reader, requests, sent>>
    BY <1>4 DEF OtherClient, io
  <2>8. joiner' \in [Room -> Members] /\ unloaded' \in SUBSET Room
    BY <2>2, RememberKeeps
  <2>9. QED
    BY <2>5, <2>6, <2>7, <2>8 DEF SessionInv
<1>5. CASE Rehydrate
  <2>1. PICK r \in Room :
          /\ redis' = [redis EXCEPT ![r] = Written(@, WriteOf(drain(members[r])))]
          /\ members' = [members EXCEPT ![r] = hydrate(memberList(@))]
          /\ unloaded' = unloaded \cup {r}
    BY <1>5 DEF Rehydrate
  <2>2. /\ members \in [Room -> Members] /\ members[r] \in Members /\ redis[r] \in Stored
        /\ IsFiniteSet(memberList(members[r])) /\ memberList(members[r]) \in SUBSET Nick
    BY DEF SessionInv, FewMembers, memberList
  <2>3. WriteOf(drain(members[r])) \in Write
    BY <2>2, PlansAreTyped, TrimAssumption DEF Sender
  <2>4. redis' \in [Room -> Stored]
    BY <2>1, <2>2, <2>3, WrittenType DEF Stored, SessionInv
  <2>5. /\ hydrate(memberList(members[r])) \in Members
        /\ memberList(hydrate(memberList(members[r]))) = memberList(members[r])
    BY <2>2, HydrateRestores
  <2>6. members' \in [Room -> Members] /\ FewMembers'
    BY <2>1, <2>2, <2>5 DEF SessionInv, FewMembers
  <2>7. others' \in 0..MaxOthers
    BY <1>5, BoundAssumption DEF Rehydrate, SessionInv
  <2>8. UNCHANGED <<joiner, actor, mailbox, call, todo, joined, unsure, reader, requests, sent>>
    BY <1>5 DEF Rehydrate, io
  <2>9. QED
    BY <2>1, <2>4, <2>6, <2>7, <2>8 DEF SessionInv
<1>6. QED
  BY <1>2, <1>3, <1>4, <1>5 DEF ServerStep

LEMMA SessionKeeps == SessionInv /\ [Next]_vars => SessionInv'
<1> SUFFICES ASSUME SessionInv, [Next]_vars PROVE SessionInv'
  OBVIOUS
<1>1. CASE UNCHANGED vars
  BY <1>1 DEF vars, io, server, rooms, SessionInv, FewMembers
<1>2. QED
  BY <1>1, OutsideKeeps, HandlersKeep, RoomsKeepTypes DEF Next, ActorStep

LEMMA SessionInit == Init => SessionInv
<1> SUFFICES ASSUME Init PROVE SessionInv
  OBVIOUS
<1>1. [n \in Nick |-> NotMember] \in Members /\ memberList([n \in Nick |-> NotMember]) = {}
  BY DEF Members, memberList
<1>2. FewMembers
  <2>1. \A r \in Room : memberList(members[r]) = {}
    BY <1>1 DEF Init
  <2>2. QED
    BY <2>1, FS_EmptySet DEF FewMembers
<1>3. NoCall \in CallType /\ Blank \in Trimmed
  BY TrimmedNames DEF NoCall, CallType, RoomID
<1>4. [snapshot |-> {}, history |-> <<>>] \in Stored
  <2>1. <<>> \in Seq(Message)
    OBVIOUS
  <2>2. QED
    BY <2>1 DEF Stored
<1>5. <<>> \in Seq(Item) /\ <<>> \in Seq(Asked)
  OBVIOUS
<1>6. QED
  BY <1>1, <1>2, <1>3, <1>4, <1>5, BoundAssumption DEF Init, SessionInv

\* What actor, goroutines, channel and rooms hold keeps its type.
THEOREM TypeCorrect == Spec => []TypeOK
<1>1. ChannelInv /\ SessionInv => TypeOK
  <2> SUFFICES ASSUME ChannelInv, SessionInv PROVE TypeOK
    OBVIOUS
  <2>1. made \in Nat /\ dropped \subseteq 1..made
    BY DEF ChannelInv, ChannelType, Lost
  <2>2. joined \in [Room -> Nick \cup {Blank}]
    BY TrimmedNames DEF SessionInv
  <2>3. QED
    BY <2>1, <2>2 DEF ChannelInv, ChannelType, SessionInv, Item, Asked, CallType, Stored, TypeOK
<1>2. QED
  BY <1>1, ChannelInit, ChannelKeeps, SessionInit, SessionKeeps, PTL DEF Spec

\* Once another connection, or HTTP, has the nick, nothing this connection has
\* asked for takes it from the room: neither commands that were under way nor the
\* leaves of its cleanup.
THEOREM TakeoversSurvive == Spec => TakeoverSurvives
<1>1. SessionInv /\ [Next]_vars =>
        (\A r \in Room, n \in Nick :
            /\ members[r][n] \notin {Me, NotMember}
            /\ requests' # requests
            => members'[r][n] # NotMember)
  <2> SUFFICES ASSUME SessionInv, [Next]_vars, NEW r \in Room, NEW n \in Nick,
                      members[r][n] \notin {Me, NotMember}, requests' # requests
               PROVE  members'[r][n] # NotMember
    OBVIOUS
  <2>1. CASE ServeRequest
    <3> DEFINE req == Head(requests)
               m == members[req.room]
               plan == PlanFor(m, req)
    <3>1. requests # <<>> /\ req.room \in Room
      BY <2>1 DEF ServeRequest
    <3>2. req \in Asked /\ m \in Members /\ members \in [Room -> Members]
      BY <3>1, TakeMail DEF SessionInv
    <3>3. members' = [members EXCEPT ![req.room] = plan.members]
      BY <2>1 DEF ServeRequest, Carry
    <3>4. r = req.room => plan.members[n] # NotMember
      <4>1. req.type # "evict" /\ Me # NoConn /\ Me # NotMember
        BY <3>2, ConnectionAssumption, ConnAssumption DEF Asked, FrameType
      <4>2. \/ plan.members = m
            \/ plan.members = [m EXCEPT ![TrimSpace[req.nick]] = Me]
            \/ /\ m[TrimSpace[req.nick]] = Me
               /\ plan.members = [m EXCEPT ![TrimSpace[req.nick]] = NotMember]
        BY <4>1 DEF PlanFor, join, leave, postMessage, Answer, persistSnapshot, SpeaksFor
      <4>3. QED
        BY <3>2, <4>1, <4>2 DEF Members
    <3>5. QED
      BY <3>2, <3>3, <3>4
  <2>2. CASE ~ServeRequest
    <3>1. members' = members
      BY <2>2 DEF Next, ReadFrame, ReadFails, Disconnect, WriterStep, TakeFrame, WriteFrame, WriteFails,
         WriterEnds, ActorStep, SendCommand, AnswerPing, ForwardEvent, CommandReturns, StartCleanup,
         LeaveNext, LeaveReturns, Terminate, CallTimeout, ServerStep, RefuseRequest, OtherClient,
         Rehydrate, vars, server, rooms
    <3>2. QED
      BY <3>1
  <2>3. QED
    BY <2>1, <2>2
<1>2. QED
  BY <1>1, SessionInit, SessionKeeps, PTL DEF Spec, TakeoverSurvives

-----------------------------------------------------------------------------
(* Presence.                                                                *)

\* The nicks under which the client joins a room or leaves it, by name.
NicksOf(r) ==
    {TrimSpace[f.nick] : f \in {g \in ClientFrame : g.room = r /\ g.type \in {"join", "leave"}}} \ {Blank}

\* A client that keeps to one nick in each room.
OneNick == \A r \in Room : \A a, b \in NicksOf(r) : a = b

\* A server that carries out what it is asked, an actor that waits for it, and rooms
\* that stay loaded.
Reliable == Faults = {}

\* A Call for a room has failed, or has just done so.
Failing(r) == call.type \in {"join", "leave"} /\ call.room = r /\ call.nick # Blank
                /\ call.answer \in {"fail", "error"}
Doubtful(r) == r \in unsure \/ Failing(r)

\* The actor waits for its last request only, and when that was answered OK
\* everything it has asked before was served, what it no longer waits for
\* included.  In its cleanup it asks for nothing but leaves.
InTurn ==
    /\ \A i \in DOMAIN requests : requests[i].awaited =>
          /\ i = Len(requests) /\ call.type # "none" /\ call.answer = "none"
          /\ requests[i].type = call.type /\ requests[i].room = call.room /\ requests[i].nick = call.nick
    /\ call.answer = "ok" => requests = <<>>
    /\ call.type = "none" => call = NoCall
    /\ actor = "stopped" => call = NoCall
    /\ actor = "cleaning" => call = NoCall \/ call.type = "leave"

\* Actor and rooms know it by the client's nick in the room, or not at all.
OwnNick ==
    /\ \A r \in Room : joined[r] \in NicksOf(r) \cup {Blank}
    /\ call.type \in {"join", "leave"} /\ call.room \in Room => call.nick \in NicksOf(call.room) \cup {Blank}
    /\ call.type = "join" /\ call.answer = "ok" => call.nick # Blank
    /\ \A i \in DOMAIN requests : requests[i].type = "join" /\ requests[i].room \in Room =>
          requests[i].nick \in NicksOf(requests[i].room) \cup {Blank}
    /\ \A r \in Room, n \in Nick : members[r][n] = Me => n \in NicksOf(r)

\* Wherever it is a member it will leave, unless a Call has failed: it has the
\* room in joined or is about to, and in its cleanup has yet to leave the room or
\* is being removed.
Present == \A r \in Room, n \in Nick : members[r][n] = Me =>
    \/ Doubtful(r)
    \/ actor = "running" /\ joined[r] = n
    \/ actor = "running" /\ call = [type |-> "join", room |-> r, nick |-> n, answer |-> "ok"]
    \/ actor = "cleaning" /\ r \in todo /\ joined[r] = n
    \/ actor = "cleaning" /\ call = [type |-> "leave", room |-> r, nick |-> n, answer |-> "none"]

\* A join nobody waits for any more may still make it a member.
Overdue == \A i \in DOMAIN requests :
    requests[i].type = "join" /\ ~requests[i].awaited /\ requests[i].nick # Blank /\ requests[i].room \in Room
    => Doubtful(requests[i].room)

\* It forgets a room only when it is out of it.
Left == call.type = "leave" /\ call.answer = "ok" /\ call.room \in Room =>
    \A n \in Nick : members[call.room][n] # Me

PresenceInv == InTurn /\ OwnNick /\ Present /\ Overdue /\ Left

\* Without faults no Call fails.
NoDoubt == \A r \in Room : ~Doubtful(r)

LEMMA PresenceInit == Init => PresenceInv /\ NoDoubt
<1> SUFFICES ASSUME Init PROVE PresenceInv /\ NoDoubt
  OBVIOUS
<1>1. /\ actor = "running" /\ call = NoCall /\ unsure = {} /\ requests = <<>> /\ DOMAIN requests = {}
      /\ \A r \in Room : joined[r] = Blank /\ \A n \in Nick : members[r][n] # Me
  BY ConnectionAssumption, ConnAssumption DEF Init
<1>2. QED
  BY <1>1 DEF PresenceInv, InTurn, OwnNick, Present, Overdue, Left, NoDoubt, Doubtful, Failing, NoCall

\* The reader, the writer and the client have no part in it.
LEMMA PresenceUntouched ==
    ASSUME PresenceInv, UNCHANGED <<actor, call, todo, joined, unsure, requests, members>>
    PROVE  PresenceInv' /\ (NoDoubt => NoDoubt')
  BY DEF PresenceInv, InTurn, OwnNick, Present, Overdue, Left, NoDoubt, Doubtful, Failing

LEMMA OutsidersKeepPresence ==
    ASSUME PresenceInv, \/ ReadFrame \/ ReadFails \/ Disconnect \/ WriterStep
                        \/ AnswerPing \/ ForwardEvent \/ UNCHANGED vars
    PROVE  PresenceInv' /\ (NoDoubt => NoDoubt')
<1>1. UNCHANGED <<actor, call, todo, joined, unsure, requests, members>>
  BY DEF ReadFrame, ReadFails, Disconnect, WriterStep, TakeFrame, WriteFrame, WriteFails, WriterEnds,
     AnswerPing, ForwardEvent, server, rooms, vars
<1>2. QED
  BY <1>1, PresenceUntouched

\* An actor that waits for nothing knows all the rooms that know it, but those it
\* is unsure of.
LEMMA WaitsForNothing ==
    ASSUME PresenceInv, call = NoCall
    PROVE  /\ \A i \in DOMAIN requests : ~requests[i].awaited
           /\ \A r : ~Failing(r)
           /\ \A r \in Room, n \in Nick : members[r][n] = Me =>
                \/ r \in unsure
                \/ joined[r] = n /\ (actor = "running" \/ (actor = "cleaning" /\ r \in todo))
  BY DEF PresenceInv, InTurn, Present, Doubtful, Failing, NoCall

\* What it asks then is the last request and the one it waits for.
LEMMA AskingKeepsPresence ==
    ASSUME SessionInv, PresenceInv, call = NoCall, UNCHANGED <<actor, joined, unsure, members>>,
           NEW type \in FrameType, NEW room \in RoomID, NEW nick, Ask(type, room, nick),
           actor = "running" \/ (actor = "cleaning" /\ type = "leave"),
           type \in {"join", "leave"} /\ room \in Room => nick \in NicksOf(room) \cup {Blank}
    PROVE  InTurn' /\ OwnNick' /\ Overdue' /\ Left' /\ (NoDoubt => NoDoubt')
<1> DEFINE req == [type |-> type, room |-> room, nick |-> nick, awaited |-> TRUE]
<1>1. requests' = Append(requests, req) /\ call' = [type |-> type, room |-> room, nick |-> nick, answer |-> "none"]
  BY DEF Ask
<1>2. requests \in Seq(Asked) /\ type # "none"
  BY DEF SessionInv, FrameType
<1>3. /\ DOMAIN requests' = 1..(Len(requests) + 1) /\ DOMAIN requests = 1..Len(requests)
      /\ \A i \in DOMAIN requests : requests'[i] = requests[i]
      /\ requests'[Len(requests) + 1] = req /\ Len(requests') = Len(requests) + 1 /\ Len(requests) \in Nat
  <2> HIDE DEF req
  <2>1. QED
    BY <1>1, <1>2, AppendProperties
<1>4. \A i \in DOMAIN requests' : (i \in DOMAIN requests /\ requests'[i] = requests[i])
                                   \/ (i = Len(requests') /\ requests'[i] = req)
  BY <1>3
<1>5. /\ \A r : ~Failing(r) /\ ~Failing(r)'
      /\ \A r : Doubtful(r)' <=> Doubtful(r)
  BY <1>1, WaitsForNothing DEF Doubtful, Failing
<1>6. InTurn'
  BY <1>1, <1>2, <1>4, WaitsForNothing DEF PresenceInv, InTurn
<1>7. OwnNick'
  BY <1>1, <1>4 DEF PresenceInv, OwnNick
<1>8. Overdue'
  BY <1>4, <1>5 DEF PresenceInv, Overdue
<1>9. Left' /\ (NoDoubt => NoDoubt')
  BY <1>1, <1>5 DEF Left, NoDoubt
<1>10. QED
  BY <1>6, <1>7, <1>8, <1>9

\* A command of a frame: it names the client's nick in that room, or none.
LEMMA CommandKeepsPresence ==
    ASSUME SessionInv, PresenceInv, SendCommand
    PROVE  PresenceInv' /\ (NoDoubt => NoDoubt')
<1> DEFINE item == Head(mailbox)
           f == item.frame
           nick == TrimSpace[f.nick]
           own == IF f.room \in Room THEN joined[f.room] ELSE Blank
           used == IF f.type \in {"leave", "message"} /\ nick = Blank THEN own ELSE nick
<1>1. /\ actor = "running" /\ call = NoCall /\ mailbox # <<>> /\ item.kind = "frame"
      /\ Ask(f.type, f.room, used) /\ UNCHANGED <<actor, todo, joined, unsure, members>>
  BY DEF SendCommand, Receive, rooms
<1>2. item \in Item
  BY <1>1, TakeMail DEF SessionInv
<1>3. PICK g \in ClientFrame : item = Frame(g)
  BY <1>1, <1>2 DEF Item, RoomEvent, SocketClosed
<1>4. f = g /\ f \in ClientFrame /\ f.type \in FrameType /\ f.room \in RoomID
  BY <1>3, FrameAssumption DEF Frame
<1>5. f.type \in {"join", "leave"} => nick \in NicksOf(f.room) \cup {Blank}
  BY <1>4 DEF NicksOf
<1>6. f.type \in {"join", "leave"} /\ f.room \in Room => used \in NicksOf(f.room) \cup {Blank}
  BY <1>5 DEF PresenceInv, OwnNick
<1> HIDE DEF used, f
<1>7. InTurn' /\ OwnNick' /\ Overdue' /\ Left' /\ (NoDoubt => NoDoubt')
  BY <1>1, <1>4, <1>6, AskingKeepsPresence
<1>8. Present'
  BY <1>1, WaitsForNothing DEF Present, Doubtful
<1>9. QED
  BY <1>7, <1>8 DEF PresenceInv

\* What the actor notes when a Call returns: a failure that may have left it in
\* the room, and it is sure again only after an OK.
LEMMA Noting ==
    ASSUME Note, call.answer \in {"ok", "fail", "error"}, NEW r \in Room
    PROVE  /\ Doubtful(r) => \/ r \in unsure'
                             \/ call.type \in {"join", "leave"} /\ call.room = r /\ call.answer = "ok"
           /\ r \in unsure' => Doubtful(r)
           /\ call.type \in {"join", "leave"} /\ call.room = r /\ call.answer # "ok" /\ call.nick # Blank =>
                r \in unsure'
  BY DEF Note, Doubtful, Failing

\* Whatever returns, and whatever joined becomes for the room.
LEMMA ReturningKeepsPresence ==
    ASSUME SessionInv, PresenceInv, Note, call.answer # "none", call' = NoCall,
           UNCHANGED <<actor, requests, members>>,
           actor = "running" \/ (actor = "cleaning" /\ joined' = joined),
           \/ joined' = joined
           \/ \E r \in Room : joined' = [joined EXCEPT ![r] = call.nick] /\ call.room = r /\ call.type = "join"
           \/ \E r \in Room : joined' = [joined EXCEPT ![r] = Blank]
    PROVE  InTurn' /\ OwnNick' /\ Overdue' /\ Left' /\ (NoDoubt => NoDoubt')
<1>1. call.answer \in {"ok", "fail", "error"} /\ joined \in [Room -> Trimmed] /\ NoCall.type = "none"
      /\ NoCall.answer = "none"
  BY DEF SessionInv, CallType, NoCall
<1>2. \A r : ~Failing(r)'
  BY <1>1 DEF Failing
<1>3. InTurn'
  <2>1. \A i \in DOMAIN requests : ~requests[i].awaited
    BY DEF PresenceInv, InTurn
  <2>2. QED
    BY <1>1, <2>1 DEF InTurn
<1>4. OwnNick'
  <2>1. \A r \in Room : joined'[r] \in NicksOf(r) \cup {Blank}
    BY <1>1 DEF PresenceInv, OwnNick
  <2>2. QED
    BY <1>1, <2>1 DEF PresenceInv, OwnNick
<1>5. Overdue'
  <2>1. SUFFICES ASSUME NEW i \in DOMAIN requests, requests[i].type = "join", ~requests[i].awaited,
                        requests[i].nick # Blank, requests[i].room \in Room
                 PROVE  requests[i].room \in unsure'
    BY DEF Overdue, Doubtful
  <2>2. Doubtful(requests[i].room) /\ call.answer # "ok"
    BY <2>1 DEF PresenceInv, Overdue, InTurn
  <2>3. QED
    BY <1>1, <2>1, <2>2, Noting
<1>6. Left' /\ (NoDoubt => NoDoubt')
  BY <1>1, <1>2, Noting DEF Left, NoDoubt, Doubtful
<1>7. QED
  BY <1>3, <1>4, <1>5, <1>6

\* An answer: joined follows what the room has done, and has the only nick the
\* room can have the actor under.
LEMMA AnswerKeepsPresence ==
    ASSUME OneNick, SessionInv, PresenceInv, CommandReturns
    PROVE  PresenceInv' /\ (NoDoubt => NoDoubt')
<1>1. /\ actor = "running" /\ call.answer # "none" /\ call' = NoCall /\ Note
      /\ UNCHANGED <<actor, todo, requests, members>>
      /\ joined' = IF call.answer # "ok" \/ call.room \notin Room THEN joined
                   ELSE IF call.type = "join" THEN [joined EXCEPT ![call.room] = call.nick]
                   ELSE IF call.type = "leave" THEN [joined EXCEPT ![call.room] = Blank]
                   ELSE joined
  BY DEF CommandReturns, server, rooms
<1>2. joined \in [Room -> Trimmed] /\ call.answer \in {"ok", "fail", "error"}
  BY <1>1 DEF SessionInv, CallType
<1>3. InTurn' /\ OwnNick' /\ Overdue' /\ Left' /\ (NoDoubt => NoDoubt')
  <2>1. \/ joined' = joined
        \/ \E r \in Room : joined' = [joined EXCEPT ![r] = call.nick] /\ call.room = r /\ call.type = "join"
        \/ \E r \in Room : joined' = [joined EXCEPT ![r] = Blank]
    BY <1>1
  <2>2. QED
    BY <1>1, <2>1, ReturningKeepsPresence
<1>4. Present'
  <2>1. SUFFICES ASSUME NEW r \in Room, NEW n \in Nick, members[r][n] = Me
                 PROVE  r \in unsure' \/ joined'[r] = n
    BY <1>1 DEF Present, Doubtful
  <2>2. \/ Doubtful(r)
        \/ joined[r] = n
        \/ call = [type |-> "join", room |-> r, nick |-> n, answer |-> "ok"]
    BY <1>1, <2>1 DEF PresenceInv, Present
  <2>3. n \in NicksOf(r) /\ n # Blank
    BY <2>1, TrimIsNick DEF PresenceInv, OwnNick
  <2>4. CASE call.type = "join" /\ call.room = r /\ call.answer = "ok"
    <3>1. joined'[r] = call.nick /\ call.nick \in NicksOf(r)
      BY <1>1, <1>2, <2>4 DEF PresenceInv, OwnNick
    <3>2. QED
      BY <2>3, <3>1 DEF OneNick
  <2>5. CASE call.type = "leave" /\ call.room = r /\ call.answer = "ok"
    BY <2>1, <2>5 DEF PresenceInv, Left
  <2>6. CASE ~(call.type \in {"join", "leave"} /\ call.room = r /\ call.answer = "ok")
    <3>1. joined'[r] = joined[r]
      BY <1>1, <1>2, <2>6
    <3>2. Doubtful(r) => r \in unsure'
      BY <1>1, <1>2, <2>6, Noting
    <3>3. QED
      BY <2>2, <2>6, <3>1, <3>2
  <2>7. QED
    BY <2>4, <2>5, <2>6
<1>5. QED
  BY <1>3, <1>4 DEF PresenceInv

\* The cleanup starts with all the rooms the actor is in, and ends when it has
\* left them, or is unsure of them.
LEMMA CleanupKeepsPresence ==
    ASSUME SessionInv, PresenceInv, StartCleanup \/ LeaveNext \/ LeaveReturns \/ Terminate
    PROVE  PresenceInv' /\ (NoDoubt => NoDoubt')
<1>1. CASE StartCleanup
  <2>1. /\ actor = "running" /\ call = NoCall /\ actor' = "cleaning"
        /\ todo' = {r \in Room : joined[r] # Blank}
        /\ UNCHANGED <<call, joined, unsure, requests, members>>
    BY <1>1 DEF StartCleanup, Receive, server, rooms
  <2>2. Present'
    BY <2>1, WaitsForNothing, TrimIsNick DEF Present, Doubtful
  <2>3. QED
    BY <2>1, <2>2 DEF PresenceInv, InTurn, OwnNick, Overdue, Left, Doubtful, Failing, NoDoubt
<1>2. CASE LeaveNext
  <2>1. PICK r \in todo : /\ actor = "cleaning" /\ call = NoCall /\ Ask("leave", r, joined[r])
                          /\ todo' = todo \ {r} /\ UNCHANGED <<actor, joined, unsure, members>>
    BY <1>2 DEF LeaveNext, rooms
  <2>2. call' = [type |-> "leave", room |-> r, nick |-> joined[r], answer |-> "none"]
    BY <2>1 DEF Ask
  <2>3. InTurn' /\ OwnNick' /\ Overdue' /\ Left' /\ (NoDoubt => NoDoubt')
    <3>1. "leave" \in FrameType /\ r \in Room /\ r \in RoomID
      BY DEF FrameType, RoomID, SessionInv
    <3>2. joined[r] \in NicksOf(r) \cup {Blank}
      BY <3>1 DEF PresenceInv, OwnNick
    <3>3. QED
      BY <2>1, <3>1, <3>2, AskingKeepsPresence
  <2>4. Present'
    BY <2>1, <2>2, WaitsForNothing DEF Present, Doubtful
  <2>5. QED
    BY <2>3, <2>4 DEF PresenceInv
<1>3. CASE LeaveReturns
  <2>1. /\ actor = "cleaning" /\ call.answer # "none" /\ call' = NoCall /\ Note
        /\ UNCHANGED <<actor, todo, joined, requests, members>>
    BY <1>3 DEF LeaveReturns, server, rooms
  <2>2. InTurn' /\ OwnNick' /\ Overdue' /\ Left' /\ (NoDoubt => NoDoubt')
    BY <2>1, ReturningKeepsPresence
  <2>3. call.type = "leave" /\ call.answer \in {"ok", "fail", "error"}
    BY <2>1 DEF PresenceInv, InTurn, NoCall, SessionInv, CallType
  <2>4. Present'
    <3>1. SUFFICES ASSUME NEW r \in Room, NEW n \in Nick, members[r][n] = Me
                   PROVE  r \in unsure' \/ (r \in todo /\ joined[r] = n)
      BY <2>1 DEF Present, Doubtful
    <3>2. Doubtful(r) \/ (r \in todo /\ joined[r] = n)
      BY <2>1, <3>1 DEF PresenceInv, Present
    <3>3. ~(call.room = r /\ call.answer = "ok")
      BY <2>3, <3>1 DEF PresenceInv, Left
    <3>4. QED
      BY <2>1, <2>3, <3>2, <3>3, Noting
  <2>5. QED
    BY <2>2, <2>4 DEF PresenceInv
<1>4. CASE Terminate
  <2>1. /\ actor = "cleaning" /\ call = NoCall /\ todo = {} /\ actor' = "stopped"
        /\ UNCHANGED <<call, todo, joined, unsure, requests, members>>
    BY <1>4 DEF Terminate, server, rooms
  <2>2. Present'
    BY <2>1, WaitsForNothing DEF Present, Doubtful
  <2>3. QED
    BY <2>1, <2>2 DEF PresenceInv, InTurn, OwnNick, Overdue, Left, Doubtful, Failing, NoDoubt
<1>5. QED
  BY <1>1, <1>2, <1>3, <1>4

\* A Call that gives up leaves its request behind, and the actor in doubt.
LEMMA GivingUpKeepsPresence ==
    ASSUME SessionInv, PresenceInv, CallTimeout
    PROVE  PresenceInv'
<1>1. /\ call # NoCall /\ call.answer = "none" /\ call' = [call EXCEPT !.answer = "error"]
      /\ requests' = [i \in DOMAIN requests |-> [requests[i] EXCEPT !.awaited = FALSE]]
      /\ UNCHANGED <<actor, todo, joined, unsure, members>>
  BY DEF CallTimeout, rooms
<1>2. call \in CallType /\ requests \in Seq(Asked)
  BY DEF SessionInv
<1>3. /\ call'.type = call.type /\ call'.room = call.room /\ call'.nick = call.nick /\ call'.answer = "error"
  BY <1>1, <1>2 DEF CallType
<1>4. /\ DOMAIN requests' = DOMAIN requests
      /\ \A i \in DOMAIN requests : /\ requests'[i].type = requests[i].type
                                    /\ requests'[i].room = requests[i].room
                                    /\ requests'[i].nick = requests[i].nick
                                    /\ requests'[i].awaited = FALSE
  <2>1. \A i \in DOMAIN requests : requests[i] \in Asked
    BY <1>2
  <2>2. QED
    BY <1>1, <2>1 DEF Asked
<1>5. \A r : Doubtful(r) => Doubtful(r)'
  BY <1>1 DEF Doubtful, Failing
<1>6. call.type # "none"
  BY <1>1 DEF PresenceInv, InTurn
<1>7. InTurn'
  BY <1>1, <1>3, <1>4, <1>6 DEF PresenceInv, InTurn
<1>8. OwnNick'
  BY <1>1, <1>3, <1>4 DEF PresenceInv, OwnNick
<1>9. Present'
  <2>1. SUFFICES ASSUME NEW r \in Room, NEW n \in Nick, members[r][n] = Me
                 PROVE  \/ Doubtful(r)'
                        \/ actor = "running" /\ joined[r] = n
                        \/ actor = "cleaning" /\ r \in todo /\ joined[r] = n
    BY <1>1 DEF Present
  <2>2. call = [type |-> "leave", room |-> r, nick |-> n, answer |-> "none"] => Doubtful(r)'
    BY <1>3, TrimIsNick DEF Doubtful, Failing
  <2>3. call # [type |-> "join", room |-> r, nick |-> n, answer |-> "ok"]
    BY <1>1
  <2>4. QED
    BY <1>5, <2>1, <2>2, <2>3 DEF PresenceInv, Present
<1>10. Overdue'
  <2>1. SUFFICES ASSUME NEW i \in DOMAIN requests, requests[i].type = "join", requests[i].nick # Blank,
                        NEW r \in Room, r = requests[i].room
                 PROVE  Doubtful(r)'
    BY <1>4 DEF Overdue
  <2>2. CASE requests[i].awaited
    <3>1. call.type = "join" /\ call.room = r /\ call.nick = requests[i].nick
      BY <2>1, <2>2 DEF PresenceInv, InTurn
    <3>2. QED
      BY <1>3, <2>1, <3>1 DEF Doubtful, Failing
  <2>3. CASE ~requests[i].awaited
    BY <1>5, <2>1, <2>3 DEF PresenceInv, Overdue
  <2>4. QED
    BY <2>2, <2>3
<1>11. Left'
  BY <1>3 DEF Left
<1>12. QED
  BY <1>7, <1>8, <1>9, <1>10, <1>11 DEF PresenceInv

\* What a request of the actor can do to a room: only a join makes it a member,
\* as the nick it names, after a leave the room carries out it is not a member as
\* that nick, and a room refuses only a blank nick.
LEMMA PlanOfRequest ==
    ASSUME NEW m \in Members, NEW req \in Asked
    PROVE  LET plan == PlanFor(m, req)
           IN  /\ \A n \in Nick : plan.members[n] = Me =>
                     m[n] = Me \/ (req.type = "join" /\ n = req.nick)
               /\ req.type = "join" => \/ plan.ok /\ req.nick # Blank
                                       \/ ~plan.ok /\ req.nick = Blank
               /\ req.type = "leave" => \/ plan.ok /\ plan.members[req.nick] # Me /\ req.nick # Blank
                                        \/ ~plan.ok /\ req.nick = Blank
<1>1. Me # NotMember /\ Me # NoConn
  BY ConnectionAssumption, ConnAssumption
<1>2. TrimSpace[req.nick] = req.nick /\ req.nick \in Nick \cup {Blank} /\ req.type # "evict"
  BY TrimmedNames, TrimIsNick, TrimAssumption DEF Asked, FrameType
<1>3. CASE req.type = "join"
  BY <1>1, <1>2, <1>3 DEF PlanFor, join, Answer, persistSnapshot, Members
<1>4. CASE req.type = "leave"
  BY <1>1, <1>2, <1>4 DEF PlanFor, leave, SpeaksFor, Answer, persistSnapshot, Members
<1>5. CASE req.type \notin {"join", "leave"}
  <2>1. PlanFor(m, req).members = m
    BY <1>2, <1>5 DEF PlanFor, postMessage, Answer, persistSnapshot
  <2>2. QED
    BY <1>5, <2>1
<1>6. QED
  BY <1>3, <1>4, <1>5

\* The request at the head, served or refused, with the Call that waits for it or
\* without: what stays behind was asked after it.
LEMMA HeadLeaves ==
    ASSUME SessionInv, PresenceInv, requests # <<>>, NEW result \in {"ok", "fail"},
           Reply(Head(requests), result), UNCHANGED <<actor, joined, unsure>>
    PROVE  LET req == Head(requests)
           IN  /\ req = requests[1] /\ 1 \in DOMAIN requests /\ req \in Asked
               /\ \A i \in DOMAIN requests' : i + 1 \in DOMAIN requests /\ requests'[i] = requests[i + 1]
               /\ \/ /\ ~req.awaited /\ call' = call /\ call.answer # "ok"
                  \/ /\ req.awaited /\ requests' = <<>> /\ call.answer = "none"
                     /\ call.type = req.type /\ call.room = req.room /\ call.nick = req.nick
                     /\ call' = [type |-> req.type, room |-> req.room, nick |-> req.nick, answer |-> result]
               /\ InTurn'
               /\ \A r : Doubtful(r) => Doubtful(r)'
<1> DEFINE req == Head(requests)
<1>1. requests \in Seq(Asked) /\ call \in CallType
  BY DEF SessionInv
<1>2. /\ req = requests[1] /\ 1 \in DOMAIN requests /\ req \in Asked
      /\ requests' = Tail(requests) /\ Len(requests') = Len(requests) - 1
      /\ DOMAIN requests = 1..Len(requests) /\ DOMAIN requests' = 1..Len(requests') /\ Len(requests) \in Nat
      /\ \A i \in DOMAIN requests' : i + 1 \in DOMAIN requests /\ requests'[i] = requests[i + 1]
      /\ Len(requests) = 1 => requests' = <<>>
  BY <1>1, TakeMail DEF Reply
<1>3. req.awaited => /\ Len(requests) = 1 /\ call.type # "none" /\ call.answer = "none"
                     /\ call.type = req.type /\ call.room = req.room /\ call.nick = req.nick
  BY <1>2 DEF PresenceInv, InTurn
<1>4. call' = IF req.awaited THEN [call EXCEPT !.answer = result] ELSE call
  BY DEF Reply
<1>5. call.answer # "ok"
  BY DEF PresenceInv, InTurn
<1>6. req.awaited => call' = [type |-> req.type, room |-> req.room, nick |-> req.nick, answer |-> result]
  BY <1>1, <1>3, <1>4 DEF CallType
<1> HIDE DEF req
<1>7. InTurn'
  <2>1. CASE req.awaited
    <3>1. requests' = <<>> /\ DOMAIN requests' = {}
      BY <1>2, <1>3, <2>1
    <3>2. call'.type = call.type /\ call'.type # "none" /\ call # NoCall
      BY <1>3, <1>6, <2>1 DEF NoCall
    <3>3. QED
      BY <3>1, <3>2 DEF PresenceInv, InTurn
  <2>2. CASE ~req.awaited
    <3>1. \A i \in DOMAIN requests' : i + 1 = Len(requests) => i = Len(requests')
      BY <1>2
    <3>2. \A i \in DOMAIN requests' : requests'[i].awaited =>
             /\ i = Len(requests') /\ call.type # "none" /\ call.answer = "none"
             /\ requests'[i].type = call.type /\ requests'[i].room = call.room
             /\ requests'[i].nick = call.nick
      BY <1>2, <3>1 DEF PresenceInv, InTurn
    <3>3. QED
      BY <1>4, <1>5, <2>2, <3>2 DEF PresenceInv, InTurn
  <2>3. QED
    BY <2>1, <2>2
<1>8. \A r : Doubtful(r) => Doubtful(r)'
  BY <1>3, <1>4 DEF Doubtful, Failing
<1>9. QED
  BY <1>2, <1>3, <1>4, <1>5, <1>6, <1>7, <1>8 DEF req

\* The nicks stay the client's own, whatever becomes of the request at the head.
LEMMA HeadKeepsNicks ==
    ASSUME SessionInv, PresenceInv, requests # <<>>, NEW result \in {"ok", "fail"},
           Reply(Head(requests), result), UNCHANGED <<actor, joined, unsure>>,
           Head(requests).type = "join" /\ result = "ok" => Head(requests).nick # Blank,
           \A r \in Room, n \in Nick : members'[r][n] = Me => n \in NicksOf(r)
    PROVE  OwnNick' /\ Overdue'
<1> DEFINE req == Head(requests)
<1>1. /\ \A i \in DOMAIN requests' : i + 1 \in DOMAIN requests /\ requests'[i] = requests[i + 1]
      /\ \/ call' = call
         \/ /\ call.type = req.type /\ call.room = req.room /\ call.nick = req.nick
            /\ call' = [type |-> req.type, room |-> req.room, nick |-> req.nick, answer |-> result]
      /\ \A r : Doubtful(r) => Doubtful(r)'
  BY HeadLeaves
<1> HIDE DEF req
<1>2. OwnNick'
  <2>1. /\ call'.type \in {"join", "leave"} /\ call'.room \in Room =>
              call'.nick \in NicksOf(call'.room) \cup {Blank}
        /\ call'.type = "join" /\ call'.answer = "ok" => call'.nick # Blank
    <3>1. CASE call' = call
      BY <3>1 DEF PresenceInv, OwnNick
    <3>2. CASE /\ call.type = req.type /\ call.room = req.room /\ call.nick = req.nick
               /\ call' = [type |-> req.type, room |-> req.room, nick |-> req.nick, answer |-> result]
      <4>1. call'.type = call.type /\ call'.room = call.room /\ call'.nick = call.nick /\ call'.answer = result
        BY <3>2
      <4>2. req.type = "join" /\ result = "ok" => req.nick # Blank
        BY DEF req
      <4>3. QED
        BY <3>2, <4>1, <4>2 DEF PresenceInv, OwnNick
    <3>3. QED
      BY <1>1, <3>1, <3>2
  <2>2. \A i \in DOMAIN requests' : requests'[i].type = "join" /\ requests'[i].room \in Room =>
            requests'[i].nick \in NicksOf(requests'[i].room) \cup {Blank}
    BY <1>1 DEF PresenceInv, OwnNick
  <2>3. QED
    BY <2>1, <2>2 DEF PresenceInv, OwnNick
<1>3. Overdue'
  <2>1. SUFFICES ASSUME NEW i \in DOMAIN requests', requests'[i].type = "join", ~requests'[i].awaited,
                        requests'[i].nick # Blank, NEW r \in Room, r = requests'[i].room
                 PROVE  Doubtful(r)'
    BY DEF Overdue
  <2>2. Doubtful(r)
    BY <1>1, <2>1 DEF PresenceInv, Overdue
  <2>3. QED
    BY <1>1, <2>2
<1>4. QED
  BY <1>2, <1>3

\* The request served: the room carries out its plan, and the write ends as w.
LEMMA ServingKeepsPresence ==
    ASSUME OneNick, SessionInv, PresenceInv, ServeRequest
    PROVE  PresenceInv' /\ (Reliable /\ NoDoubt => NoDoubt')
<1> DEFINE req == Head(requests)
           room == req.room
           plan == PlanFor(members[room], req)
           result(w) == IF plan.ok /\ w = "ok" THEN "ok" ELSE "fail"
<1>1. requests # <<>> /\ room \in Room /\ UNCHANGED <<actor, todo, joined, unsure>>
  BY DEF ServeRequest
<1>2. PICK w \in WriteOutcomes \cup {"ok"} : Carry(room, plan, w) /\ Reply(req, result(w))
  BY DEF ServeRequest
<1>3. members[room] \in Members /\ members \in [Room -> Members] /\ req \in Asked
  BY <1>1, TakeMail DEF SessionInv
<1>4. /\ members' = [members EXCEPT ![room] = plan.members]
      /\ members'[room] = plan.members /\ \A r \in Room \ {room} : members'[r] = members[r]
  BY <1>1, <1>2, <1>3 DEF Carry
<1>5. /\ \A n \in Nick : plan.members[n] = Me => members[room][n] = Me \/ (req.type = "join" /\ n = req.nick)
      /\ req.type = "join" => (plan.ok /\ req.nick # Blank) \/ (~plan.ok /\ req.nick = Blank)
      /\ req.type = "leave" => \/ plan.ok /\ plan.members[req.nick] # Me /\ req.nick # Blank
                               \/ ~plan.ok /\ req.nick = Blank
  BY <1>3, PlanOfRequest
<1> DEFINE res == result(w)
<1>6. res \in {"ok", "fail"} /\ (res = "ok" => plan.ok) /\ (Reliable /\ plan.ok => res = "ok")
  BY DEF WriteOutcomes, Reliable
<1>7. Reply(req, res)
  BY <1>2
<1> HIDE DEF plan, res, result
<1>8. /\ req = requests[1] /\ 1 \in DOMAIN requests
      /\ \/ ~req.awaited /\ call' = call /\ call.answer # "ok"
         \/ /\ req.awaited /\ call.answer = "none"
            /\ call.type = req.type /\ call.room = req.room /\ call.nick = req.nick
            /\ call' = [type |-> req.type, room |-> req.room, nick |-> req.nick, answer |-> res]
      /\ InTurn' /\ \A r : Doubtful(r) => Doubtful(r)'
  BY <1>1, <1>6, <1>7, HeadLeaves
<1>9. \A n \in Nick : req.type = "join" /\ n = req.nick => n \in NicksOf(room)
  BY <1>1, <1>8, TrimIsNick DEF PresenceInv, OwnNick
<1>10. \A r \in Room, n \in Nick : members'[r][n] = Me => n \in NicksOf(r)
  BY <1>4, <1>5, <1>9 DEF PresenceInv, OwnNick
<1>11. req.type = "join" /\ res = "ok" => req.nick # Blank
  BY <1>5, <1>6
<1>12. OwnNick' /\ Overdue'
  BY <1>1, <1>6, <1>7, <1>10, <1>11, HeadKeepsNicks
<1> HIDE DEF req
<1>13. call'.answer # "none" \/ call' = call
  BY <1>6, <1>8
<1>14. Present'
  <2> SUFFICES ASSUME NEW r \in Room, NEW n \in Nick, members'[r][n] = Me
               PROVE  \/ Doubtful(r)'
                      \/ actor = "running" /\ joined[r] = n
                      \/ /\ actor = "running"
                         /\ call' = [type |-> "join", room |-> r, nick |-> n, answer |-> "ok"]
                      \/ actor = "cleaning" /\ r \in todo /\ joined[r] = n
                      \/ /\ actor = "cleaning"
                         /\ call' = [type |-> "leave", room |-> r, nick |-> n, answer |-> "none"]
    BY <1>1 DEF Present
  <2>1. CASE members[r][n] = Me /\ call' = call
    BY <1>8, <2>1 DEF PresenceInv, Present
  <2>2. CASE members[r][n] = Me /\ call' # call
    <3>1. \/ Doubtful(r)'
          \/ actor = "running" /\ joined[r] = n
          \/ actor = "cleaning" /\ r \in todo /\ joined[r] = n
          \/ req.type = "leave" /\ room = r /\ req.nick = n
      BY <1>8, <2>2 DEF PresenceInv, Present
    <3>2. CASE req.type = "leave" /\ room = r /\ req.nick = n
      <4>1. res = "fail"
        BY <1>4, <1>5, <1>6, <3>2
      <4>2. Doubtful(r)'
        BY <1>8, <2>2, <3>2, <4>1, TrimIsNick DEF Doubtful, Failing
      <4>3. QED
        BY <4>2
    <3>3. QED
      BY <3>1, <3>2
  <2>3. CASE members[r][n] # Me
    <3>1. r = room /\ req.type = "join" /\ n = req.nick /\ n # Blank
      BY <1>4, <1>5, <2>3, TrimIsNick
    <3>2. CASE ~req.awaited
      <4>1. Doubtful(r)
        BY <1>1, <1>8, <3>1, <3>2 DEF PresenceInv, Overdue
      <4>2. QED
        BY <1>8, <4>1
    <3>3. CASE req.awaited /\ res = "ok"
      <4>1. actor = "running"
        BY <1>8, <3>1, <3>3 DEF PresenceInv, InTurn, SessionInv, NoCall
      <4>2. QED
        BY <1>8, <3>1, <3>3, <4>1
    <3>4. CASE req.awaited /\ res = "fail"
      BY <1>8, <3>1, <3>4 DEF Doubtful, Failing
    <3>5. QED
      BY <1>6, <3>2, <3>3, <3>4
  <2>4. QED
    BY <2>1, <2>2, <2>3
<1>15. Left'
  <2> SUFFICES ASSUME call'.type = "leave", call'.answer = "ok", call'.room \in Room,
                      NEW n \in Nick, members'[call'.room][n] = Me
               PROVE  FALSE
    BY DEF Left
  <2>1. req.type = "leave" /\ call'.room = room /\ res = "ok" /\ req.awaited
        /\ call.type = "leave" /\ call.room = room /\ call.nick = req.nick
    BY <1>8
  <2>2. members[room][n] = Me /\ n # req.nick /\ req.nick # Blank
    BY <1>4, <1>5, <1>6, <2>1
  <2>3. n \in NicksOf(room) /\ req.nick \in NicksOf(room)
    BY <1>1, <2>1, <2>2 DEF PresenceInv, OwnNick
  <2>4. QED
    BY <1>1, <2>2, <2>3 DEF OneNick
<1>16. ASSUME Reliable, NoDoubt PROVE NoDoubt'
  <2> SUFFICES ASSUME NEW r \in Room, Doubtful(r)' PROVE FALSE
    BY DEF NoDoubt
  <2>1. ~Doubtful(r) /\ r \notin unsure' /\ Failing(r)'
    BY <1>1, <1>16 DEF NoDoubt, Doubtful
  <2>2. call' # call
    BY <2>1 DEF Failing, Doubtful
  <2>3. req.type \in {"join", "leave"} /\ req.nick # Blank /\ res # "ok"
    BY <1>8, <2>1, <2>2 DEF Failing
  <2>4. QED
    BY <1>5, <1>6, <1>16, <2>3
<1>17. QED
  BY <1>8, <1>12, <1>14, <1>15, <1>16 DEF PresenceInv

\* A request refused: nothing is done.
LEMMA RefusingKeepsPresence ==
    ASSUME SessionInv, PresenceInv, RefuseRequest
    PROVE  PresenceInv' /\ (Reliable /\ NoDoubt => NoDoubt')
<1> DEFINE req == Head(requests)
<1>1. /\ requests # <<>> /\ UNCHANGED <<actor, todo, joined, unsure, members>>
      /\ Reliable => req.room \notin Room
  BY DEF RefuseRequest, Reliable, rooms
<1>2. PICK result \in {"ok", "fail"} : /\ req.type # "query" => result = "fail"
                                       /\ Reply(req, result)
  BY DEF RefuseRequest
<1>3. /\ \/ ~req.awaited /\ call' = call /\ call.answer # "ok"
         \/ /\ req.awaited /\ call.answer = "none"
            /\ call.type = req.type /\ call.room = req.room /\ call.nick = req.nick
            /\ call' = [type |-> req.type, room |-> req.room, nick |-> req.nick, answer |-> result]
      /\ InTurn' /\ \A r : Doubtful(r) => Doubtful(r)'
  BY <1>1, <1>2, HeadLeaves
<1>4. OwnNick' /\ Overdue'
  <2>1. req.type = "join" /\ result = "ok" => req.nick # Blank
    BY <1>2
  <2>2. \A r \in Room, n \in Nick : members'[r][n] = Me => n \in NicksOf(r)
    BY <1>1 DEF PresenceInv, OwnNick
  <2>3. QED
    BY <1>1, <1>2, <2>1, <2>2, HeadKeepsNicks
<1> HIDE DEF req
<1>5. Present'
  <2> SUFFICES ASSUME NEW r \in Room, NEW n \in Nick, members[r][n] = Me
               PROVE  \/ Doubtful(r)'
                      \/ actor = "running" /\ joined[r] = n
                      \/ actor = "cleaning" /\ r \in todo /\ joined[r] = n
                      \/ call' = call /\ actor = "cleaning"
                           /\ call = [type |-> "leave", room |-> r, nick |-> n, answer |-> "none"]
    BY <1>1 DEF Present
  <2>1. CASE call' = call
    BY <1>3, <2>1 DEF PresenceInv, Present
  <2>2. CASE call' # call
    <3>1. \/ Doubtful(r)'
          \/ actor = "running" /\ joined[r] = n
          \/ actor = "cleaning" /\ r \in todo /\ joined[r] = n
          \/ req.type = "leave" /\ req.room = r /\ req.nick = n
      BY <1>3, <2>2 DEF PresenceInv, Present
    <3>2. CASE req.type = "leave" /\ req.room = r /\ req.nick = n
      BY <1>2, <1>3, <2>2, <3>2, TrimIsNick DEF Doubtful, Failing
    <3>3. QED
      BY <3>1, <3>2
  <2>3. QED
    BY <2>1, <2>2
<1>6. Left'
  BY <1>2, <1>3 DEF Left
<1>7. ASSUME Reliable, NoDoubt PROVE NoDoubt'
  BY <1>1, <1>3, <1>7 DEF NoDoubt, Doubtful, Failing
<1>8. QED
  BY <1>3, <1>4, <1>5, <1>6, <1>7 DEF PresenceInv

\* Others never make this connection a member.
LEMMA OthersKeepPresence ==
    ASSUME SessionInv, PresenceInv, OtherClient \/ Rehydrate
    PROVE  PresenceInv' /\ (NoDoubt => NoDoubt')
<1>1. Me # NotMember /\ Me # NoConn
  BY ConnectionAssumption, ConnAssumption
<1>2. \A r \in Room, n \in Nick : members'[r][n] = Me => members[r][n] = Me
  <2>1. CASE OtherClient
    <3>1. PICK r \in Room, n \in Nick, c \in Sender \ {Me}, w \in WriteOutcomes :
            \E plan \in {join(members[r], n, c), leave(members[r], n, c)} : Carry(r, plan, w)
      BY <2>1 DEF OtherClient
    <3>2. PICK plan \in {join(members[r], n, c), leave(members[r], n, c)} : Carry(r, plan, w)
      BY <3>1
    <3>3. members \in [Room -> Members] /\ members[r] \in Members /\ TrimSpace[n] = n
      BY TrimIsNick DEF SessionInv
    <3>4. plan.members \in {members[r], [members[r] EXCEPT ![n] = c], [members[r] EXCEPT ![n] = NotMember]}
      BY <3>2, <3>3 DEF join, leave, Answer, persistSnapshot
    <3>5. members' = [members EXCEPT ![r] = plan.members]
      BY <3>2 DEF Carry
    <3>6. \A k \in Nick : plan.members[k] = Me => members[r][k] = Me
      BY <1>1, <3>1, <3>3, <3>4 DEF Members
    <3>7. QED
      BY <3>3, <3>5, <3>6
  <2>2. CASE Rehydrate
    <3>1. PICK r \in Room : members' = [members EXCEPT ![r] = hydrate(memberList(@))]
      BY <2>2 DEF Rehydrate
    <3>2. members \in [Room -> Members]
      BY DEF SessionInv
    <3>3. \A n \in Nick : hydrate(memberList(members[r]))[n] # Me
      BY <1>1 DEF hydrate
    <3>4. QED
      BY <3>1, <3>2, <3>3
  <2>3. QED
    BY <2>1, <2>2
<1>3. UNCHANGED <<actor, call, todo, joined, unsure, requests>>
  BY DEF OtherClient, Rehydrate
<1>4. \A r : Doubtful(r)' <=> Doubtful(r)
  BY <1>3 DEF Doubtful, Failing
<1>5. InTurn' /\ OwnNick' /\ (NoDoubt => NoDoubt')
  BY <1>2, <1>3, <1>4 DEF PresenceInv, InTurn, OwnNick, NoDoubt
<1>6. Present' /\ Left'
  BY <1>2, <1>3, <1>4 DEF PresenceInv, Present, Left
<1>7. Overdue'
  BY <1>3, <1>4 DEF PresenceInv, Overdue
<1>8. QED
  BY <1>5, <1>6, <1>7 DEF PresenceInv

LEMMA PresenceKeeps ==
    ASSUME OneNick
    PROVE  SessionInv /\ PresenceInv /\ [Next]_vars => PresenceInv' /\ (Reliable /\ NoDoubt => NoDoubt')
<1> SUFFICES ASSUME SessionInv, PresenceInv, [Next]_vars
             PROVE  PresenceInv' /\ (Reliable /\ NoDoubt => NoDoubt')
  OBVIOUS
<1>1. CASE CallTimeout
  BY <1>1, GivingUpKeepsPresence DEF CallTimeout, Reliable
<1>2. CASE ServerStep
  BY <1>2, ServingKeepsPresence, RefusingKeepsPresence DEF ServerStep
<1>3. QED
  BY <1>1, <1>2, OutsidersKeepPresence, CommandKeepsPresence, AnswerKeepsPresence,
     CleanupKeepsPresence, OthersKeepPresence DEF Next, ActorStep

\* A nick this connection was the last to join is the client's own, and unless
\* the room was unloaded since, the room has it with this connection's pid or has
\* it no more: nothing but hydrate loses the pid of a member.
Traced == \A r \in Room, n \in Nick : joiner[r][n] = Me =>
    /\ n \in NicksOf(r)
    /\ members[r][n] \in {Me, NotMember} \/ r \in unloaded

\* A plan carried out; a join of this connection clears the room, for the client
\* has no other nick there.
LEMMA TracedStep ==
    ASSUME SessionInv, Traced, NEW r \in Room, NEW n, NEW c \in Sender, NEW plan,
           members' = [members EXCEPT ![r] = plan.members], Remember(r, plan, n, c),
           plan.event = "join" => n \in Nick /\ plan.members = [members[r] EXCEPT ![n] = c],
           plan.event # "join" => \A k \in Nick : plan.members[k] \in {members[r][k], NotMember},
           plan.event = "join" /\ c = Me => n \in NicksOf(r) /\ \A k \in NicksOf(r) : k = n
    PROVE  Traced'
<1>1. /\ members \in [Room -> Members] /\ members[r] \in Members
      /\ joiner \in [Room -> Members] /\ joiner[r] \in Members
  BY DEF SessionInv
<1>2. \A s \in Room : s # r => members'[s] = members[s]
  BY <1>1
<1>3. members'[r] = plan.members
  BY <1>1
<1>4. CASE plan.event = "join"
  <2>1. /\ joiner' = [joiner EXCEPT ![r] = [joiner[r] EXCEPT ![n] = c]]
        /\ unloaded' = IF c = Me THEN unloaded \ {r} ELSE unloaded
    BY <1>4 DEF Remember
  <2>2. /\ n \in Nick /\ members'[r][n] = c /\ joiner'[r][n] = c
        /\ \A k \in Nick : k # n => members'[r][k] = members[r][k] /\ joiner'[r][k] = joiner[r][k]
        /\ \A s \in Room : s # r => joiner'[s] = joiner[s] /\ (s \in unloaded' <=> s \in unloaded)
    BY <1>1, <1>3, <1>4, <2>1 DEF Members
  <2> SUFFICES ASSUME NEW s \in Room, NEW k \in Nick, joiner'[s][k] = Me
               PROVE  k \in NicksOf(s) /\ (members'[s][k] \in {Me, NotMember} \/ s \in unloaded')
    BY DEF Traced
  <2>3. CASE s # r
    BY <1>2, <2>2, <2>3 DEF Traced
  <2>4. CASE s = r /\ k = n
    BY <1>4, <2>2, <2>4
  <2>5. CASE s = r /\ k # n
    <3>1. k \in NicksOf(r) /\ (members'[r][k] \in {Me, NotMember} \/ r \in unloaded)
      BY <2>2, <2>5 DEF Traced
    <3>2. c # Me
      BY <1>4, <2>5, <3>1
    <3>3. QED
      BY <2>1, <2>5, <3>1, <3>2
  <2>6. QED
    BY <2>3, <2>4, <2>5
<1>5. CASE plan.event # "join"
  <2>1. joiner' = joiner /\ unloaded' = unloaded
    BY <1>5 DEF Remember
  <2>2. \A s \in Room, k \in Nick : members'[s][k] \in {members[s][k], NotMember}
    BY <1>2, <1>3, <1>5
  <2>3. QED
    BY <2>1, <2>2 DEF Traced
<1>6. QED
  BY <1>4, <1>5

\* What a join or a leave of somebody does to the map.
LEMMA PlanOfOther ==
    ASSUME NEW m \in Members, NEW n \in Nick, NEW c \in Sender,
           NEW plan \in {join(m, n, c), leave(m, n, c)}
    PROVE  /\ plan.event = "join" => plan.members = [m EXCEPT ![n] = c]
           /\ plan.event # "join" => \A k \in Nick : plan.members[k] \in {m[k], NotMember}
<1>1. TrimSpace[n] = n /\ n # Blank
  BY TrimIsNick
<1>2. CASE plan = join(m, n, c)
  BY <1>1, <1>2 DEF join, persistSnapshot
<1>3. CASE plan = leave(m, n, c)
  <2>1. plan \in {Answer(m, TRUE), persistSnapshot([m EXCEPT ![n] = NotMember], NoPost, "leave")}
    BY <1>1, <1>3 DEF leave
  <2>2. QED
    BY <2>1 DEF Answer, persistSnapshot, Members
<1>4. QED
  BY <1>2, <1>3

LEMMA PlanOfMine ==
    ASSUME NEW m \in Members, NEW req \in Asked
    PROVE  LET plan == PlanFor(m, req)
           IN  /\ plan.event = "join" => plan.members = [m EXCEPT ![req.nick] = Me]
               /\ plan.event # "join" => \A k \in Nick : plan.members[k] \in {m[k], NotMember}
<1>1. req.nick \in Nick \cup {Blank} /\ TrimSpace[req.nick] = req.nick /\ req.type # "evict"
  BY TrimmedNames, TrimIsNick, TrimAssumption DEF Asked, FrameType
<1>2. CASE req.type \in {"join", "leave"} /\ req.nick \in Nick
  <2>1. PlanFor(m, req) \in {join(m, req.nick, Me), leave(m, req.nick, Me)}
    BY <1>2 DEF PlanFor
  <2>2. QED
    BY <1>2, <2>1, PlanOfOther, ConnectionAssumption DEF Sender
<1>3. CASE req.type \in {"join", "leave"} /\ req.nick = Blank
  <2>1. PlanFor(m, req) = Answer(m, FALSE)
    BY <1>1, <1>3 DEF PlanFor, join, leave
  <2>2. QED
    BY <2>1 DEF Answer
<1>4. CASE req.type \notin {"join", "leave"}
  <2>1. PlanFor(m, req).members = m /\ PlanFor(m, req).event # "join"
    <3>1. PlanFor(m, req) \in {Answer(m, TRUE), postMessage(m, req.nick, req.nick, Me, 1)}
      BY <1>1, <1>4 DEF PlanFor
    <3>2. /\ \A ok : Answer(m, ok).members = m /\ Answer(m, ok).event # "join"
          /\ \A p : LET a == persistSnapshot(m, p, "message") IN a.members = m /\ a.event # "join"
      BY DEF Answer, persistSnapshot
    <3>3. QED
      BY <3>1, <3>2 DEF postMessage
  <2>2. QED
    BY <2>1
<1>5. QED
  BY <1>1, <1>2, <1>3, <1>4

\* Without faults no room is unloaded.
AllLoaded == unloaded = {}

LEMMA TracedKeeps ==
    ASSUME OneNick, SessionInv, PresenceInv, Traced, [Next]_vars
    PROVE  Traced' /\ (Reliable /\ AllLoaded => AllLoaded')
<1>1. CASE ServeRequest
  <2> DEFINE req == Head(requests)
             plan == PlanFor(members[req.room], req)
  <2>1. requests # <<>> /\ req.room \in Room
    BY <1>1 DEF ServeRequest
  <2>2. req \in Asked /\ req = requests[1] /\ 1 \in DOMAIN requests /\ members[req.room] \in Members
    BY <2>1, TakeMail DEF SessionInv
  <2>3. members' = [members EXCEPT ![req.room] = plan.members] /\ Remember(req.room, plan, req.nick, Me)
    BY <1>1 DEF ServeRequest, Carry
  <2>4. plan.event = "join" => /\ req.nick \in Nick /\ req.nick \in NicksOf(req.room)
                               /\ \A k \in NicksOf(req.room) : k = req.nick
    <3>1. ASSUME plan.event = "join" PROVE req.nick \in Nick /\ req.nick \in NicksOf(req.room)
      <4>1. req.type = "join" /\ req.nick \in Nick
        BY <2>2, <3>1, AnnouncedJoin
      <4>2. QED
        BY <2>1, <2>2, <4>1, TrimIsNick DEF PresenceInv, OwnNick
    <3> HIDE DEF plan, req
    <3>2. QED
      BY <2>1, <3>1 DEF OneNick
  <2>5. /\ plan.event = "join" => plan.members = [members[req.room] EXCEPT ![req.nick] = Me]
        /\ plan.event # "join" => \A k \in Nick : plan.members[k] \in {members[req.room][k], NotMember}
    BY <2>2, PlanOfMine
  <2> HIDE DEF plan, req
  <2>6. Traced'
    BY <2>1, <2>3, <2>4, <2>5, TracedStep, ConnectionAssumption DEF Sender
  <2>7. AllLoaded => AllLoaded'
    BY <2>3 DEF Remember, AllLoaded
  <2>8. QED
    BY <2>6, <2>7
<1>2. CASE OtherClient
  <2>1. PICK r \in Room, n \in Nick, c \in Sender \ {Me}, w \in WriteOutcomes :
          \E plan \in {join(members[r], n, c), leave(members[r], n, c)} :
             Carry(r, plan, w) /\ Remember(r, plan, n, c)
    BY <1>2 DEF OtherClient
  <2>2. PICK plan \in {join(members[r], n, c), leave(members[r], n, c)} :
          Carry(r, plan, w) /\ Remember(r, plan, n, c)
    BY <2>1
  <2>3. members[r] \in Members
    BY DEF SessionInv
  <2>4. /\ plan.event = "join" => plan.members = [members[r] EXCEPT ![n] = c]
        /\ plan.event # "join" => \A k \in Nick : plan.members[k] \in {members[r][k], NotMember}
    BY <2>2, <2>3, PlanOfOther
  <2>5. Traced'
    BY <2>2, <2>4, TracedStep DEF Carry
  <2>6. unloaded' = unloaded
    BY <2>2 DEF Remember
  <2>7. QED
    BY <2>5, <2>6 DEF AllLoaded
<1>3. CASE Rehydrate
  <2>1. PICK r \in Room : /\ members' = [members EXCEPT ![r] = hydrate(memberList(@))]
                          /\ unloaded' = unloaded \cup {r} /\ joiner' = joiner
    BY <1>3 DEF Rehydrate
  <2>2. \A s \in Room : s # r => members'[s] = members[s]
    BY <2>1 DEF SessionInv
  <2>3. Traced'
    BY <2>1, <2>2 DEF Traced
  <2>4. ~Reliable
    BY <1>3 DEF Rehydrate, Reliable
  <2>5. QED
    BY <2>3, <2>4
<1>4. CASE ~(ServeRequest \/ OtherClient \/ Rehydrate)
  <2>1. UNCHANGED <<members, joiner, unloaded>>
    BY <1>4 DEF Next, ReadFrame, ReadFails, Disconnect, WriterStep, TakeFrame, WriteFrame, WriteFails,
       WriterEnds, ActorStep, SendCommand, AnswerPing, ForwardEvent, CommandReturns, StartCleanup,
       LeaveNext, LeaveReturns, Terminate, CallTimeout, ServerStep, RefuseRequest, vars, server, rooms
  <2>2. QED
    BY <2>1 DEF Traced, AllLoaded
<1>5. QED
  BY <1>1, <1>2, <1>3, <1>4

LEMMA TracedInit == Init => Traced /\ AllLoaded
  BY ConnectionAssumption, ConnAssumption DEF Init, Traced, AllLoaded

\* A client that keeps to one nick in a room leaves a member behind, when its
\* actor has stopped and its requests are served, only in rooms whose last join or
\* leave the actor was not told OK for and in rooms that were unloaded since it
\* joined: whatever is refused, fails, is lost or times out, whatever the order of
\* its frames and the moment the socket closed, and whoever else joined under its
\* nick.
THEOREM OnlyUnsureAreLeftBehind ==
    ASSUME OneNick
    PROVE  Spec => []OnlyUnsureStay
<1>1. PresenceInv /\ Traced => OnlyUnsureStay
  <2> SUFFICES ASSUME PresenceInv, Traced, actor = "stopped", NEW r \in Room, NEW n \in Nick,
                      Stays(r, n), r \notin unloaded
               PROVE  r \in unsure
    BY DEF OnlyUnsureStay
  <2>1. members[r][n] = Me
    BY DEF Traced, Stays
  <2>2. QED
    BY <2>1 DEF PresenceInv, InTurn, Present, Doubtful, Failing, NoCall
<1>2. Init => PresenceInv /\ Traced
  BY PresenceInit, TracedInit
<1>3. SessionInv /\ PresenceInv /\ Traced /\ [Next]_vars => PresenceInv' /\ Traced'
  BY PresenceKeeps, TracedKeeps
<1>4. QED
  BY <1>1, <1>2, <1>3, SessionInit, SessionKeeps, PTL DEF Spec

\* If the server carries out what it is asked, the Calls are answered in time and
\* the rooms stay loaded, such a connection leaves no member behind.  Each
\* hypothesis is needed: the run ws_two_nicks shows it for a client with two nicks,
\* the run ws_rehydrated for a room that was unloaded, and leaveJoinedRooms ignores
\* a leave that fails.
THEOREM GoneConnectionsHaveLeft ==
    ASSUME OneNick, Reliable
    PROVE  Spec => []GoneMeansLeft
<1>1. PresenceInv /\ NoDoubt /\ Traced /\ AllLoaded => GoneMeansLeft
  BY DEF AllLoaded, PresenceInv, Present, NoDoubt, Traced, Stays, GoneMeansLeft
<1>2. SessionInv /\ PresenceInv /\ NoDoubt /\ Traced /\ AllLoaded /\ [Next]_vars
        => PresenceInv' /\ NoDoubt' /\ Traced' /\ AllLoaded'
  BY PresenceKeeps, TracedKeeps
<1>3. QED
  BY <1>1, <1>2, PresenceInit, TracedInit, SessionInit, SessionKeeps, PTL DEF Spec
=============================================================================
