--------------------------- MODULE HandlerLemmas ---------------------------
(***************************************************************************)
(* What the handlers of a RoomActor return, for every member map.          *)
(***************************************************************************)
EXTENDS RoomHandlers, SequenceTheorems, TLAPS

\* Trimming a string a client sent gives a nick or the blank string, and
\* trimming a nick again does not change it.
LEMMA TrimIsNick ==
    /\ \A s \in Raw : TrimSpace[s] \in Raw /\ (TrimSpace[s] # Blank => TrimSpace[s] \in Nick)
    /\ Nick \subseteq Raw
    /\ \A n \in Nick : TrimSpace[n] = n /\ n # Blank
  BY TrimAssumption DEF Trimmed, Nick

\* hydrate brings back exactly the nicks of the snapshot, without connections.
LEMMA HydrateRestores ==
    ASSUME NEW snap \in SUBSET Nick
    PROVE  hydrate(snap) \in Members /\ memberList(hydrate(snap)) = snap
<1>1. {TrimSpace[s] : s \in snap} = snap
  BY TrimIsNick
<1>2. hydrate(snap) = [n \in Nick |-> IF n \in snap THEN NoConn ELSE NotMember]
  BY <1>1 DEF hydrate
<1>3. QED
  BY <1>2, ConnAssumption DEF Members, Sender, memberList

\* Redis list slices are lists of the same elements.
LEMMA FromIndexType ==
    ASSUME NEW S, NEW s \in Seq(S), NEW start \in Int
    PROVE  FromIndex(s, start) \in Seq(S)
<1> DEFINE first == IF start >= 0 THEN start
                    ELSE IF Len(s) + start < 0 THEN 0 ELSE Len(s) + start
<1>1. first \in Nat /\ Len(s) \in Nat
  OBVIOUS
<1>2. \A i \in (first + 1)..Len(s) : s[i] \in S
  BY <1>1
<1>3. SubSeq(s, first + 1, Len(s)) \in Seq(S)
  BY <1>1, <1>2
<1>4. QED
  BY <1>3 DEF FromIndex

\* One MULTI leaves a snapshot of nicks and a list of messages.
LEMMA WrittenType ==
    ASSUME NEW db \in [snapshot : SUBSET Nick, history : Seq(Message)], NEW w \in Write
    PROVE  Written(db, w) \in [snapshot : SUBSET Nick, history : Seq(Message)]
<1>1. w.snapshot \in SUBSET Nick /\ db.history \in Seq(Message)
  BY DEF Write
<1>2. - HistoryCap \in Int
  BY CapAssumption
<1>3. CASE w.post = NoPost
  BY <1>1, <1>3 DEF Written
<1>4. CASE w.post # NoPost
  <2>1. w.post \in Message
    BY <1>4 DEF Write
  <2>2. Append(db.history, w.post) \in Seq(Message)
    BY <1>1, <2>1
  <2>3. FromIndex(Append(db.history, w.post), - HistoryCap) \in Seq(Message)
    BY <1>2, <2>2, FromIndexType
  <2>4. QED
    BY <1>1, <1>4, <2>3 DEF Written
<1>5. QED
  BY <1>3, <1>4

\* The absence of a message is no message.
LEMMA NoPostIsNoMessage == NoPost \notin Message
  BY TrimIsNick DEF NoPost, Message

\* Every command of the actor has a plan of the right type, and a plan that
\* does not write leaves the member map as it was.
LEMMA PlansAreTyped ==
    ASSUME NEW m \in Members, NEW name \in Raw, NEW text \in Raw, NEW conn \in Sender,
           NEW now \in Nat
    PROVE  /\ join(m, name, conn) \in Plan
           /\ leave(m, name, conn) \in Plan
           /\ postMessage(m, name, text, conn, now) \in Plan
           /\ drain(m) \in Plan
           /\ WriteOf(join(m, name, conn)) \in Write
           /\ WriteOf(leave(m, name, conn)) \in Write
           /\ WriteOf(postMessage(m, name, text, conn, now)) \in Write
           /\ WriteOf(drain(m)) \in Write
<1>1. \A n \in Nick : /\ [m EXCEPT ![n] = conn] \in Members
                      /\ [m EXCEPT ![n] = NotMember] \in Members
  BY DEF Members
<1>2. \A m2 \in Members, ok \in BOOLEAN : Answer(m2, ok) \in Plan
  BY DEF Answer, Plan, Event
<1>3. \A m2 \in Members, p \in Message \cup {NoPost}, e \in Event :
        persistSnapshot(m2, p, e) \in Plan
  BY DEF persistSnapshot, Plan
<1>4. \A p \in Plan : WriteOf(p) \in Write
  BY DEF WriteOf, Plan, Write, memberList
<1>5. join(m, name, conn) \in Plan
  BY <1>1, <1>2, <1>3, TrimIsNick DEF join, Event
<1>6. leave(m, name, conn) \in Plan
  BY <1>1, <1>2, <1>3, TrimIsNick DEF leave, Event
<1>7. postMessage(m, name, text, conn, now) \in Plan
  BY <1>2, <1>3, TrimIsNick DEF postMessage, Event, Message
<1>8. drain(m) \in Plan
  BY <1>3 DEF drain, Event
<1>9. QED
  BY <1>4, <1>5, <1>6, <1>7, <1>8

-----------------------------------------------------------------------------
(* How far one command goes.                                                *)

\* A plan changes at most one nick, a plan that does not write changes nothing,
\* and one that stores a message changes no nick and comes from a member.
Small(m, plan) ==
    /\ \/ memberList(plan.members) = memberList(m)
       \/ \E n \in Nick : memberList(plan.members) \in {memberList(m) \cup {n}, memberList(m) \ {n}}
    /\ ~plan.writes => plan.members = m
    /\ plan.post # NoPost =>
         plan.post \in Message /\ plan.post.from \in memberList(m) /\ plan.members = m

\* Every command of the actor is small.
LEMMA PlansAreSmall ==
    ASSUME NEW m \in Members, NEW name \in Raw, NEW text \in Raw, NEW conn \in Sender,
           NEW now \in Nat
    PROVE  /\ Small(m, join(m, name, conn))
           /\ Small(m, leave(m, name, conn))
           /\ Small(m, postMessage(m, name, text, conn, now))
           /\ Small(m, drain(m))
<1>1. \A n \in Nick : /\ memberList([m EXCEPT ![n] = conn]) = memberList(m) \cup {n}
                      /\ memberList([m EXCEPT ![n] = NotMember]) = memberList(m) \ {n}
  BY ConnAssumption DEF Members, memberList, Sender
<1>2. \A ok : Small(m, Answer(m, ok))
  BY DEF Small, Answer
<1>3. \A e : Small(m, persistSnapshot(m, NoPost, e))
  BY DEF Small, persistSnapshot
<1>4. \A n \in Nick : \A e : /\ Small(m, persistSnapshot([m EXCEPT ![n] = conn], NoPost, e))
                             /\ Small(m, persistSnapshot([m EXCEPT ![n] = NotMember], NoPost, e))
  BY <1>1 DEF Small, persistSnapshot
<1>5. TrimSpace[name] # Blank => TrimSpace[name] \in Nick
  BY TrimIsNick
<1>6. Small(m, join(m, name, conn)) /\ Small(m, leave(m, name, conn))
  BY <1>2, <1>4, <1>5 DEF join, leave
<1>7. Small(m, postMessage(m, name, text, conn, now))
  <2> DEFINE post == [from |-> TrimSpace[name], text |-> TrimSpace[text], at |-> now]
  <2>1. CASE /\ TrimSpace[name] # Blank /\ TrimSpace[text] # Blank
             /\ m[TrimSpace[name]] # NotMember
    <3>1. post \in Message /\ post.from \in memberList(m)
      BY <1>5, <2>1, TrimIsNick DEF Message, memberList
    <3>2. Small(m, persistSnapshot(m, post, "message"))
      BY <3>1 DEF Small, persistSnapshot
    <3>3. QED
      BY <1>2, <2>1, <3>2 DEF postMessage
  <2>2. QED
    BY <1>2, <2>1 DEF postMessage
<1>8. QED
  BY <1>3, <1>6, <1>7 DEF drain

\* A stored message is the last of the list, which is the old list with it, less
\* the oldest when there are too many.
LEMMA WrittenPost ==
    ASSUME NEW db, db.history \in Seq(Message), NEW w, w.post \in Message
    PROVE  LET rows == Written(db, w).history
               all == Append(db.history, w.post)
               excess == IF Len(all) > HistoryCap THEN Len(all) - HistoryCap ELSE 0
           IN  /\ rows = SubSeq(all, excess + 1, Len(all))
               /\ rows # <<>> /\ rows[Len(rows)] = w.post
<1> DEFINE all == Append(db.history, w.post)
           excess == IF Len(all) > HistoryCap THEN Len(all) - HistoryCap ELSE 0
           rows == SubSeq(all, excess + 1, Len(all))
<1>1. w.post # NoPost
  BY NoPostIsNoMessage
<1>2. all \in Seq(Message) /\ Len(all) \in Nat \ {0} /\ all[Len(all)] = w.post
  OBVIOUS
<1> HIDE DEF all
<1>3. /\ HistoryCap \in Nat \ {0} /\ excess \in Nat /\ excess < Len(all)
      /\ excess = IF Len(all) + (- HistoryCap) < 0 THEN 0 ELSE Len(all) + (- HistoryCap)
      /\ ~(- HistoryCap >= 0)
  BY <1>2, CapAssumption
<1> HIDE DEF excess
<1>4. FromIndex(all, - HistoryCap) = rows
  BY <1>3 DEF FromIndex
<1>5. Written(db, w).history = rows
  BY <1>1, <1>4 DEF Written, all
<1>6. \A i \in (excess + 1)..Len(all) : all[i] \in Message
  BY <1>2, <1>3
<1>7. /\ Len(rows) = Len(all) - excess
      /\ \A i \in 1..(Len(all) - excess) : rows[i] = all[excess + i]
  <2>1. excess + 1 \in Int /\ Len(all) \in Int /\ excess + 1 <= Len(all)
    BY <1>2, <1>3
  <2>2. /\ Len(rows) = IF excess + 1 <= Len(all) THEN Len(all) - (excess + 1) + 1 ELSE 0
        /\ \A i \in 1..(Len(all) - (excess + 1) + 1) : rows[i] = all[(excess + 1) + i - 1]
    BY <1>6, <2>1, SubSeqProperties
  <2> HIDE DEF rows
  <2>3. Len(all) - (excess + 1) + 1 = Len(all) - excess
    BY <1>2, <1>3
  <2>4. \A i \in Int : (excess + 1) + i - 1 = excess + i
    BY <1>3
  <2>5. Len(rows) = Len(all) - excess
    BY <2>1, <2>2, <2>3
  <2>6. ASSUME NEW i \in 1..(Len(all) - excess)
        PROVE  rows[i] = all[excess + i]
    <3>1. rows[i] = all[(excess + 1) + i - 1]
      BY <2>2, <2>3
    <3>2. i \in Int
      OBVIOUS
    <3>3. QED
      BY <2>4, <3>1, <3>2
  <2>7. QED
    BY <2>5, <2>6
<1>8. rows # <<>> /\ rows[Len(rows)] = w.post
  <2> HIDE DEF rows
  <2>1. Len(rows) \in Nat \ {0} /\ Len(rows) \in 1..(Len(all) - excess) /\ excess + Len(rows) = Len(all)
    BY <1>2, <1>3, <1>7
  <2>2. rows # <<>>
    BY <2>1
  <2>3. QED
    BY <1>2, <1>7, <2>1, <2>2
<1>9. QED
  BY <1>5, <1>8 DEF all, excess

-----------------------------------------------------------------------------
(* Mailboxes and channels.                                                  *)

\* The first item of a queue, and what is left behind it.
LEMMA TakeMail ==
    ASSUME NEW S, NEW q \in Seq(S), q # <<>>
    PROVE  /\ Head(q) \in S /\ Head(q) = q[1] /\ 1 \in DOMAIN q
           /\ Tail(q) \in Seq(S)
           /\ Len(Tail(q)) = Len(q) - 1
           /\ \A i \in DOMAIN Tail(q) : i + 1 \in DOMAIN q /\ Tail(q)[i] = q[i + 1]
           /\ Len(q) = 1 => Tail(q) = <<>>
<1>1. Head(q) \in S /\ Tail(q) \in Seq(S)
  BY HeadTailProperties
<1>2. /\ Head(q) = q[1] /\ Len(q) \in Nat /\ Len(q) >= 1 /\ DOMAIN q = 1..Len(q)
      /\ Len(Tail(q)) = Len(q) - 1
  BY HeadTailProperties
<1>3. \A i \in 1..(Len(q) - 1) : Tail(q)[i] = q[i + 1]
  BY HeadTailProperties
<1>4. DOMAIN Tail(q) = 1..Len(Tail(q))
  BY <1>1
<1>5. Len(q) = 1 => Tail(q) = <<>>
  <2>1. Tail(q) # <<>> => Len(Tail(q)) \in Nat \ {0}
    BY <1>1, EmptySeq, Zenon
  <2>2. QED
    BY <1>2, <2>1
<1>6. QED
  BY <1>1, <1>2, <1>3, <1>4, <1>5
=============================================================================
