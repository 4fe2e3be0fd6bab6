----------------------------- MODULE IGateProofs -----------------------------
(***************************************************************************)
(* For every length of the queues, every size of a text and of TCP's       *)
(* buffer: both directions of the iGate implement LossyFifo, step by step, *)
(* and so what is sent, and what the printed texts begin with, is in       *)
(* order, nothing twice.                                                   *)
(***************************************************************************)
EXTENDS IGate, SequenceTheorems, TLAPS

Numbers == Seq(Nat)

-----------------------------------------------------------------------------
(* What the steps of a queue do to the items on their way.                 *)

LEMMA Both ==
    ASSUME NEW a \in Numbers, NEW b \in Numbers
    PROVE  a \o b \in Numbers
BY ConcatProperties DEF Numbers

LEMMA Assoc ==
    ASSUME NEW a \in Numbers, NEW b \in Numbers, NEW c \in Numbers
    PROVE  a \o (b \o c) = (a \o b) \o c
<1> DEFINE S == Nat
<1>1. a \in Seq(S) /\ b \in Seq(S) /\ c \in Seq(S)
  BY DEF Numbers
<1> HIDE DEF S
<1>2. (a \o b) \o c = a \o (b \o c)
  BY <1>1, ConcatAssociative
<1> QED
  BY <1>2, Zenon

\* Three pieces one behind the other, piece by piece.
LEMMA Three ==
    ASSUME NEW a \in Numbers, NEW b \in Numbers, NEW c \in Numbers
    PROVE  /\ a \o b \o c \in Numbers
           /\ Len(a \o b \o c) = Len(a) + Len(b) + Len(c)
           /\ (a \o b) \o c = a \o (b \o c)
           /\ \A i \in 1 .. Len(a) : (a \o b \o c)[i] = a[i]
           /\ \A i \in 1 .. Len(c) : (a \o b \o c)[Len(a) + Len(b) + i] = c[i]
<1>1. a \o b \in Numbers /\ Len(a \o b) = Len(a) + Len(b)
      /\ \A i \in 1 .. Len(a) : (a \o b)[i] = a[i]
  BY ConcatProperties, LenProperties DEF Numbers
<1>2. Len(a) \in Nat /\ Len(b) \in Nat /\ Len(c) \in Nat
  BY LenProperties DEF Numbers
<1>3. /\ a \o b \o c \in Numbers
      /\ Len(a \o b \o c) = Len(a \o b) + Len(c)
      /\ \A i \in 1 .. Len(a \o b) + Len(c) :
            (a \o b \o c)[i] = IF i <= Len(a \o b) THEN (a \o b)[i] ELSE c[i - Len(a \o b)]
  <2> DEFINE d == a \o b
  <2>1. d \in Seq(Nat) /\ c \in Seq(Nat)
    BY <1>1 DEF Numbers
  <2> HIDE DEF d
  <2>2. /\ d \o c \in Seq(Nat)
        /\ Len(d \o c) = Len(d) + Len(c)
        /\ \A i \in 1 .. Len(d) + Len(c) :
              (d \o c)[i] = IF i <= Len(d) THEN d[i] ELSE c[i - Len(d)]
    BY <2>1, ConcatProperties
  <2> QED
    BY <2>2 DEF d, Numbers
<1>4. (a \o b) \o c = a \o (b \o c)
  BY Assoc, Zenon
<1>5. \A i \in 1 .. Len(a) : (a \o b \o c)[i] = a[i]
  BY <1>1, <1>2, <1>3, SMT
<1>6. \A i \in 1 .. Len(c) : (a \o b \o c)[Len(a) + Len(b) + i] = c[i]
  BY <1>1, <1>2, <1>3, SMT
<1>7. Len(a \o b \o c) = Len(a) + Len(b) + Len(c)
  BY <1>1, <1>3, Zenon
<1> QED
  BY <1>3, <1>4, <1>5, <1>6, <1>7, Zenon

\* What LossyFifo calls a stretch that is lost.
StretchLost(s, t) ==
    \E i, j \in 0 .. Len(s) : i <= j /\ t = SubSeq(s, 1, i) \o SubSeq(s, j + 1, Len(s))

\* The piece in the middle is one.
LEMMA Stretch ==
    ASSUME NEW a \in Numbers, NEW b \in Numbers, NEW c \in Numbers,
           NEW s, s = a \o b \o c
    PROVE  StretchLost(s, a \o c)
<1> DEFINE i == Len(a)
           j == Len(a) + Len(b)
<1>1. i \in 0 .. Len(s) /\ j \in 0 .. Len(s) /\ i <= j /\ s \in Numbers
  BY Three, LenProperties DEF Numbers
<1>2. Len(s) = Len(a) + Len(b) + Len(c) /\ Len(a) \in Nat /\ Len(b) \in Nat /\ Len(c) \in Nat
  BY Three, LenProperties DEF Numbers
<1>3. SubSeq(s, 1, i) = a
  <2>1. \A k \in 1 .. i : s[k] \in Nat
    BY <1>1, <1>2, ElementOfSeq DEF Numbers
  <2>2. /\ SubSeq(s, 1, i) \in Numbers
        /\ Len(SubSeq(s, 1, i)) = Len(a)
        /\ \A k \in 1 .. Len(a) : SubSeq(s, 1, i)[k] = s[k]
    BY <1>2, <2>1, SubSeqProperties DEF Numbers
  <2>3. \A k \in 1 .. Len(a) : s[k] = a[k]
    BY Three
  <2> QED
    BY <2>2, <2>3, SeqEqual DEF Numbers
<1>4. SubSeq(s, j + 1, Len(s)) = c
  <2>1. \A k \in j + 1 .. Len(s) : s[k] \in Nat
    BY <1>1, <1>2, ElementOfSeq DEF Numbers
  <2>2. /\ SubSeq(s, j + 1, Len(s)) \in Numbers
        /\ Len(SubSeq(s, j + 1, Len(s))) = Len(c)
        /\ \A k \in 1 .. Len(c) : SubSeq(s, j + 1, Len(s))[k] = s[j + k]
    BY <1>2, <2>1, SubSeqProperties DEF Numbers
  <2>3. \A k \in 1 .. Len(c) : s[j + k] = c[k]
    <3>1. \A k \in 1 .. Len(c) : (a \o b \o c)[Len(a) + Len(b) + k] = c[k]
      BY Three, Zenon
    <3> QED
      BY <3>1, Zenon
  <2>4. \A k \in 1 .. Len(c) : SubSeq(s, j + 1, Len(s))[k] = c[k]
    BY <2>2, <2>3, Zenon
  <2> HIDE DEF j
  <2> QED
    BY <2>2, <2>4, SeqEqual, Zenon DEF Numbers
<1> QED
  BY <1>1, <1>3, <1>4 DEF StretchLost

\* An item in front of the others.
LEMMA InFront ==
    ASSUME NEW x \in Nat, NEW s \in Numbers
    PROVE  /\ <<x>> \o s \in Numbers
           /\ <<x>> \o s # <<>>
           /\ Head(<<x>> \o s) = x
           /\ Tail(<<x>> \o s) = s
<1>1. <<x>> \in Numbers /\ Len(<<x>>) = 1 /\ <<x>>[1] = x
  BY DEF Numbers
<1>2. Len(s) \in Nat
  BY LenProperties DEF Numbers
<1>3. /\ <<x>> \o s \in Numbers
      /\ Len(<<x>> \o s) = 1 + Len(s)
      /\ \A i \in 1 .. 1 + Len(s) : (<<x>> \o s)[i] = IF i <= 1 THEN <<x>>[i] ELSE s[i - 1]
  BY <1>1, ConcatProperties, Zenon DEF Numbers
<1>4. <<x>> \o s # <<>>
  BY <1>2, <1>3, EmptySeq DEF Numbers
<1>5. Head(<<x>> \o s) = x
  BY <1>1, <1>2, <1>3, <1>4, SMT DEF Numbers
<1>6. /\ Tail(<<x>> \o s) \in Numbers
      /\ Len(Tail(<<x>> \o s)) = Len(s)
      /\ \A i \in 1 .. Len(s) : Tail(<<x>> \o s)[i] = (<<x>> \o s)[i + 1]
  BY <1>2, <1>3, <1>4, HeadTailProperties DEF Numbers
<1>7. \A i \in 1 .. Len(s) : Tail(<<x>> \o s)[i] = s[i]
  BY <1>2, <1>3, <1>6, SMT
<1>8. Tail(<<x>> \o s) = s
  BY <1>6, <1>7, SeqEqual DEF Numbers
<1> QED
  BY <1>3, <1>4, <1>5, <1>8

\* A sequence that is not empty is its head in front of its tail.
LEMMA HeadInFront ==
    ASSUME NEW s \in Numbers, s # <<>>
    PROVE  Head(s) \in Nat /\ Tail(s) \in Numbers /\ s = <<Head(s)>> \o Tail(s)
<1>1. /\ Head(s) \in Nat /\ Tail(s) \in Numbers /\ Len(Tail(s)) = Len(s) - 1
      /\ \A i \in 1 .. Len(Tail(s)) : Tail(s)[i] = s[i + 1]
  BY HeadTailProperties DEF Numbers
<1>2. Len(s) \in Nat /\ Len(s) > 0 /\ Head(s) = s[1]
  BY SMT DEF Numbers
<1> DEFINE h == <<Head(s)>>
<1>3. h \in Numbers /\ Len(h) = 1 /\ h[1] = Head(s)
  BY <1>1 DEF Numbers
<1> HIDE DEF h
<1>4. /\ h \o Tail(s) \in Numbers
      /\ Len(h \o Tail(s)) = Len(h) + Len(Tail(s))
      /\ \A i \in 1 .. Len(h) + Len(Tail(s)) :
            (h \o Tail(s))[i] = IF i <= Len(h) THEN h[i] ELSE Tail(s)[i - Len(h)]
  <2>1. h \in Seq(Nat) /\ Tail(s) \in Seq(Nat)
    BY <1>1, <1>3 DEF Numbers
  <2> QED
    BY <2>1, ConcatProperties, Zenon DEF Numbers
<1>5. \A i \in 1 .. Len(s) : s[i] = (h \o Tail(s))[i]
  BY <1>1, <1>2, <1>3, <1>4, SMT
<1>6. s = h \o Tail(s)
  <2>1. Len(s) = Len(h \o Tail(s))
    BY <1>1, <1>2, <1>3, <1>4, SMT
  <2> QED
    BY <1>4, <1>5, <2>1, SeqEqual, Zenon DEF Numbers
<1> QED
  BY <1>1, <1>6 DEF h

\* The sequence of a task that waits with one item.
LEMMA AtMostOne ==
    ASSUME NEW s \in Numbers, Len(s) <= 1, s # <<>>
    PROVE  Head(s) \in Nat /\ s = <<Head(s)>>
<1>1. Len(s) \in Nat /\ Len(s) > 0 /\ Head(s) = s[1] /\ Head(s) \in Nat
  BY SMT DEF Numbers
<1>2. <<Head(s)>> \in Numbers /\ Len(<<Head(s)>>) = 1 /\ <<Head(s)>>[1] = Head(s)
  BY <1>1 DEF Numbers
<1>3. \A i \in 1 .. Len(s) : s[i] = <<Head(s)>>[i]
  BY <1>1, <1>2, SMT
<1> QED
  BY <1>1, <1>2, <1>3, SeqEqual, SMT DEF Numbers
-----------------------------------------------------------------------------
LEMMA InitTypeOK == Init => TypeOK
BY DEF Init, TypeOK

\* Every step of the tasks, the callbacks and the network keeps the types.
LEMMA NextTypeOK == TypeOK /\ [Next]_vars => TypeOK'
<1> SUFFICES ASSUME TypeOK, [Next]_vars PROVE TypeOK'
  OBVIOUS
<1> USE DEF TypeOK, uplink, downlink, connection
<1>1. CASE SendToServer
  BY <1>1 DEF SendToServer
<1>2. CASE Queue
  BY <1>2 DEF Queue
<1>3. CASE Refuse
  BY <1>3 DEF Refuse
<1>4. CASE Take
  BY <1>4 DEF Take
<1>5. CASE Add
  BY <1>5 DEF Add
<1>6. CASE Connected
  BY <1>6 DEF Connected
<1>7. CASE WriteLogin
  BY <1>7 DEF WriteLogin
<1>8. CASE WritePosition
  BY <1>8 DEF WritePosition
<1>9. CASE onData
  <2>1. network # <<>> /\ network' = Tail(network)
    BY <1>9 DEF onData
  <2>2. Head(network) \in Nat /\ network' \in Seq(Nat)
    BY <2>1, HeadTailProperties
  <2>3. data' \in Seq(Item) /\ Len(data') <= 1
    <3>1. PICK item \in Copied(Head(network)) : data' = <<item>>
      BY <1>9 DEF onData
    <3>2. item \in Item
      BY <2>2 DEF Copied, Item
    <3> QED
      BY <3>1, <3>2
  <2> QED
    BY <1>9, <2>2, <2>3 DEF onData
<1>10. CASE QueueData
  BY <1>10 DEF QueueData
<1>11. CASE RefuseData
  BY <1>11 DEF RefuseData
<1>12. CASE loop
  BY <1>12 DEF loop, ProcessMessage
<1>13. CASE Arrive
  BY <1>13 DEF Arrive
<1>14. CASE Acknowledge
  BY <1>14 DEF Acknowledge
<1>15. CASE Close
  BY <1>15 DEF Close
<1>16. CASE UNCHANGED vars
  BY <1>16 DEF vars
<1> QED
  BY <1>1, <1>2, <1>3, <1>4, <1>5, <1>6, <1>7, <1>8, <1>9, <1>10, <1>11,
     <1>12, <1>13, <1>14, <1>15, <1>16 DEF Next, clienttcp, async_tcp

\* The variables of the iGate keep their types, for every length of the queues.
THEOREM TypeCorrect == Spec => []TypeOK
BY InitTypeOK, NextTypeOK, PTL DEF Spec
-----------------------------------------------------------------------------
(* The way to the server.                                                  *)

LEMMA InitUp == Init => Up!Init
BY DEF Init, Up!Init, Outgoing

\* A step that leaves the uplink alone, and what was sent.
LEMMA UpStutters == UNCHANGED <<uplink, sent>> => UNCHANGED Up!vars
BY DEF uplink, Up!vars, Outgoing

\* The pieces of what is on its way.
LEMMA OutgoingPieces ==
    ASSUME TypeOK
    PROVE  /\ missatge \in Numbers /\ xQueuesend \in Numbers /\ value \in Numbers
           /\ missatge \o xQueuesend \in Numbers /\ xQueuesend \o value \in Numbers
           /\ Outgoing \in Numbers
           /\ Outgoing = missatge \o (xQueuesend \o value)
<1>1. missatge \in Numbers /\ xQueuesend \in Numbers /\ value \in Numbers
  BY DEF TypeOK, Numbers
<1>2. missatge \o xQueuesend \in Numbers /\ xQueuesend \o value \in Numbers
  BY <1>1, ConcatProperties DEF Numbers
<1> QED
  BY <1>1, <1>2, Three DEF Outgoing

\* Nothing in front of a sequence, and nothing behind it.
LEMMA Nothing ==
    ASSUME NEW s \in Numbers
    PROVE  s \o <<>> = s /\ <<>> \o s = s /\ <<>> \in Numbers
BY ConcatEmptySeq DEF Numbers

\* Each step puts one message in, takes the next one out, loses one, or only
\* moves a message from one place to the next.
LEMMA StepUp == TypeOK /\ [Next]_vars => [Up!Next]_Up!vars
<1> SUFFICES ASSUME TypeOK, [Next]_vars PROVE [Up!Next]_Up!vars
  OBVIOUS
<1>0. /\ missatge \in Numbers /\ xQueuesend \in Numbers /\ value \in Numbers
      /\ missatge \o xQueuesend \in Numbers /\ xQueuesend \o value \in Numbers
      /\ Outgoing \in Numbers
      /\ Outgoing = missatge \o (xQueuesend \o value)
  BY OutgoingPieces
<1>1. CASE SendToServer
  <2>1. value = <<>> /\ given' = given + 1 /\ value' = <<given + 1>>
        /\ UNCHANGED <<missatge, xQueuesend, sent>>
    BY <1>1 DEF SendToServer, connection
  <2>2. Outgoing = missatge \o xQueuesend
    BY <1>0, <2>1, Nothing DEF Outgoing
  <2>3. Outgoing' = Outgoing \o <<given + 1>>
    BY <2>1, <2>2 DEF Outgoing
  <2>4. Outgoing' = Append(Outgoing, given + 1)
    <3>1. given + 1 \in Nat
      BY DEF TypeOK
    <3> QED
      BY <1>0, <2>3, <3>1, AppendIsConcat DEF Numbers
  <2> QED
    BY <2>1, <2>4 DEF Up!Next, Up!Put
<1>2. CASE Queue
  <2>1. xQueuesend' = xQueuesend \o value /\ value' = <<>> /\ UNCHANGED <<given, missatge, sent>>
    BY <1>2 DEF Queue, connection
  <2>2. Outgoing' = missatge \o (xQueuesend \o value) \o <<>>
    BY <2>1 DEF Outgoing
  <2>3. Outgoing' = Outgoing
    BY <1>0, <2>2, Nothing
  <2> QED
    BY <2>1, <2>3 DEF Up!vars
<1>3. CASE Refuse
  <2>1. value' = <<>> /\ UNCHANGED <<given, missatge, xQueuesend, sent>>
    BY <1>3 DEF Refuse, connection
  <2>2. Outgoing' = (missatge \o xQueuesend) \o <<>>
    BY <2>1 DEF Outgoing
  <2>3. Outgoing = (missatge \o xQueuesend) \o value \o <<>>
    BY <1>0, Nothing DEF Outgoing
  <2>4. StretchLost(Outgoing, Outgoing')
    BY <1>0, <2>2, <2>3, Nothing, Stretch
  <2> QED
    BY <2>1, <2>4 DEF Up!Next, Up!Lose, StretchLost
<1>4. CASE Take
  <2>1. missatge = <<>> /\ xQueuesend # <<>> /\ missatge' = <<Head(xQueuesend)>>
        /\ xQueuesend' = Tail(xQueuesend) /\ UNCHANGED <<given, value, sent>>
    BY <1>4 DEF Take, connection
  <2>2. missatge' \o xQueuesend' = missatge \o xQueuesend
    BY <1>0, <2>1, HeadInFront, Nothing
  <2> QED
    BY <2>1, <2>2 DEF Up!vars, Outgoing
<1>5. CASE Add
  <2>1. missatge # <<>> /\ missatge' = <<>> /\ UNCHANGED <<given, xQueuesend, value>>
        /\ sent' = IF Room = TextSize THEN Append(sent, Head(missatge)) ELSE sent
    BY <1>5 DEF Add
  <2>2. Head(missatge) \in Nat /\ missatge = <<Head(missatge)>>
    BY <1>0, <2>1, AtMostOne DEF TypeOK
  <2>3. Outgoing' = xQueuesend \o value
    BY <1>0, <2>1, Nothing DEF Outgoing
  <2>4. Outgoing = <<Head(missatge)>> \o Outgoing'
    BY <1>0, <2>2, <2>3, Zenon
  <2>5. CASE Room = TextSize
    <3>1. Outgoing # <<>> /\ Outgoing' = Tail(Outgoing) /\ Head(missatge) = Head(Outgoing)
      BY <1>0, <2>2, <2>3, <2>4, InFront, Zenon
    <3> QED
      BY <2>1, <2>5, <3>1 DEF Up!Next, Up!Deliver
  <2>6. CASE Room # TextSize
    <3>1. Outgoing = <<>> \o missatge \o Outgoing' /\ Outgoing' = <<>> \o Outgoing'
      BY <1>0, <2>3, Nothing
    <3>2. StretchLost(Outgoing, Outgoing')
      BY <1>0, <2>3, <3>1, Nothing, Stretch
    <3> QED
      BY <2>1, <2>6, <3>2 DEF Up!Next, Up!Lose, StretchLost
  <2> QED
    BY <2>5, <2>6
<1>6. CASE Connected \/ WriteLogin \/ WritePosition \/ Acknowledge
  BY <1>6, UpStutters DEF Connected, WriteLogin, WritePosition, Acknowledge, connection
<1>7. CASE onData \/ QueueData \/ RefuseData
  BY <1>7, UpStutters DEF onData, QueueData, RefuseData
<1>8. CASE loop \/ Arrive \/ Close
  BY <1>8, UpStutters DEF loop, Arrive, Close, connection
<1>9. CASE UNCHANGED vars
  BY <1>9, UpStutters DEF vars, connection
<1> QED
  BY <1>1, <1>2, <1>3, <1>4, <1>5, <1>6, <1>7, <1>8, <1>9 DEF Next, clienttcp, async_tcp

\* Messages are written to the server in the order SendToServer() was called,
\* each at most once, over full queues, a full TCP and a lost connection.
THEOREM Uplink == Spec => UplinkIsFifo
BY InitTypeOK, NextTypeOK, InitUp, StepUp, PTL DEF Spec, UplinkIsFifo, Up!Spec
-----------------------------------------------------------------------------
(* The way from the server.                                                *)

\* What items begin with, one by one.
LEMMA Begin ==
    ASSUME NEW q \in Seq(Item)
    PROVE  /\ Beginnings(q) \in Numbers /\ Len(q) \in Nat /\ Len(Beginnings(q)) = Len(q)
           /\ \A i \in 1 .. Len(q) : q[i] \in Item /\ Beginnings(q)[i] = q[i].segment
<1>1. Len(q) \in Nat /\ DOMAIN q = 1 .. Len(q) /\ \A i \in 1 .. Len(q) : q[i] \in Item
  BY LenProperties, ElementOfSeq
<1>2. Beginnings(q) = [i \in 1 .. Len(q) |-> q[i].segment]
  BY <1>1 DEF Beginnings
<1>3. \A i \in 1 .. Len(q) : q[i].segment \in Nat
  BY <1>1 DEF Item
<1> QED
  BY <1>1, <1>2, <1>3 DEF Numbers

\* Of none, and of one.
LEMMA BeginFew ==
    /\ Beginnings(<<>>) = <<>>
    /\ \A x \in Item : Beginnings(<<x>>) = <<x.segment>> /\ x.segment \in Nat
BY DEF Beginnings, Item

\* Of items behind others.
LEMMA BeginBoth ==
    ASSUME NEW q \in Seq(Item), NEW d \in Seq(Item)
    PROVE  q \o d \in Seq(Item) /\ Beginnings(q \o d) = Beginnings(q) \o Beginnings(d)
<1> DEFINE c == q \o d
           a == Beginnings(q)
           b == Beginnings(d)
           e == a \o b
<1>1. /\ c \in Seq(Item) /\ Len(c) = Len(q) + Len(d)
      /\ \A i \in 1 .. Len(q) + Len(d) : c[i] = IF i <= Len(q) THEN q[i] ELSE d[i - Len(q)]
  BY ConcatProperties, Zenon
<1>2. /\ a \in Numbers /\ Len(q) \in Nat /\ Len(a) = Len(q)
      /\ \A i \in 1 .. Len(q) : a[i] = q[i].segment
  BY Begin
<1>3. /\ b \in Numbers /\ Len(d) \in Nat /\ Len(b) = Len(d)
      /\ \A i \in 1 .. Len(d) : b[i] = d[i].segment
  BY Begin
<1> HIDE DEF c, a, b
<1>4. /\ e \in Numbers /\ Len(e) = Len(a) + Len(b)
      /\ \A i \in 1 .. Len(a) + Len(b) : e[i] = IF i <= Len(a) THEN a[i] ELSE b[i - Len(a)]
  <2>1. a \in Seq(Nat) /\ b \in Seq(Nat)
    BY <1>2, <1>3 DEF Numbers
  <2> QED
    BY <2>1, ConcatProperties, Zenon DEF Numbers
<1>5. /\ Beginnings(c) \in Numbers /\ Len(Beginnings(c)) = Len(c)
      /\ \A i \in 1 .. Len(c) : Beginnings(c)[i] = c[i].segment
  BY <1>1, Begin
<1> HIDE DEF e
<1>6. ASSUME NEW i \in 1 .. Len(c) PROVE Beginnings(c)[i] = e[i]
  <2>1. CASE i <= Len(q)
    BY <1>1, <1>2, <1>3, <1>4, <1>5, <2>1
  <2>2. CASE ~(i <= Len(q))
    <3>1. i - Len(q) \in 1 .. Len(d) /\ i \in 1 .. Len(q) + Len(d)
      BY <1>1, <1>2, <1>3, <2>2
    <3>2. c[i] = d[i - Len(q)] /\ e[i] = b[i - Len(q)]
      BY <1>1, <1>2, <1>3, <1>4, <2>2, <3>1
    <3> QED
      BY <1>3, <1>5, <3>1, <3>2
  <2> QED
    BY <2>1, <2>2
<1>7. Beginnings(c) = e
  <2>1. Len(Beginnings(c)) = Len(e)
    BY <1>1, <1>2, <1>3, <1>4, <1>5
  <2> QED
    BY <1>4, <1>5, <1>6, <2>1, SeqEqual, Zenon DEF Numbers
<1> QED
  BY <1>1, <1>7 DEF c, e, a, b

\* Of the item at the head, and of those behind it.
LEMMA BeginHead ==
    ASSUME NEW q \in Seq(Item), q # <<>>
    PROVE  /\ Head(q) \in Item /\ Tail(q) \in Seq(Item)
           /\ Beginnings(q) # <<>>
           /\ Head(Beginnings(q)) = Head(q).segment
           /\ Tail(Beginnings(q)) = Beginnings(Tail(q))
<1> DEFINE a == Beginnings(q)
           r == Tail(q)
           b == Beginnings(r)
<1>1. /\ Head(q) \in Item /\ r \in Seq(Item) /\ Len(r) = Len(q) - 1
      /\ \A i \in 1 .. Len(r) : r[i] = q[i + 1]
  BY HeadTailProperties
<1>2. Len(q) \in Nat \ {0} /\ Head(q) = q[1]
  BY EmptySeq
<1>3. /\ a \in Numbers /\ Len(a) = Len(q)
      /\ \A i \in 1 .. Len(q) : a[i] = q[i].segment
  BY Begin
<1> HIDE DEF a, r
<1>4. /\ b \in Numbers /\ Len(b) = Len(r)
      /\ \A i \in 1 .. Len(r) : b[i] = r[i].segment
  BY <1>1, Begin
<1> HIDE DEF b
<1>5. a # <<>> /\ Head(a) = a[1]
  BY <1>2, <1>3, EmptySeq DEF Numbers
<1>6. /\ Tail(a) \in Numbers /\ Len(Tail(a)) = Len(a) - 1
      /\ \A i \in 1 .. Len(Tail(a)) : Tail(a)[i] = a[i + 1]
  BY <1>3, <1>5, HeadTailProperties, Zenon DEF Numbers
<1>7. Len(Tail(a)) = Len(b) /\ \A i \in 1 .. Len(Tail(a)) : Tail(a)[i] = b[i]
  BY <1>1, <1>2, <1>3, <1>4, <1>6
<1>8. Tail(a) = b
  BY <1>4, <1>6, <1>7, SeqEqual, Zenon DEF Numbers
<1> QED
  BY <1>1, <1>2, <1>3, <1>5, <1>8 DEF a, b, r

LEMMA InitDown == Init => Down!Init
BY BeginFew, Nothing DEF Init, Down!Init, Incoming, Numbers

\* A step that leaves the downlink alone.
LEMMA DownStutters == UNCHANGED downlink => UNCHANGED Down!vars
BY DEF downlink, Down!vars, Incoming

\* Three pieces: what is in the queue, what waits for it, what is on the network.
Queued == Beginnings(xQueuereceive)
Waiting == Beginnings(data)

LEMMA IncomingPieces ==
    ASSUME TypeOK
    PROVE  /\ Queued \in Numbers /\ Waiting \in Numbers /\ network \in Numbers
           /\ Queued \o Waiting \in Numbers /\ Waiting \o network \in Numbers
           /\ Incoming \in Numbers
           /\ Incoming = Queued \o (Waiting \o network)
           /\ Beginnings(printed) \in Numbers
<1>1. Queued \in Numbers /\ Waiting \in Numbers /\ Beginnings(printed) \in Numbers
  BY Begin DEF TypeOK, Queued, Waiting
<1>2. network \in Numbers
  BY DEF TypeOK, Numbers
<1>3. Queued \o Waiting \in Numbers /\ Waiting \o network \in Numbers
  BY <1>1, <1>2, Both
<1>4. Incoming = Queued \o Waiting \o network
  BY DEF Incoming, Queued, Waiting
<1> QED
  BY <1>1, <1>2, <1>3, <1>4, Three, Zenon

\* Each step is one segment that arrives, one whose beginning is printed, a
\* stretch that is lost (for which there was no room, or that the end of the
\* connection cut off), or moves a segment from one place to the next.
LEMMA StepDown == TypeOK /\ [Next]_vars => [Down!Next]_Down!vars
<1> SUFFICES ASSUME TypeOK, [Next]_vars PROVE [Down!Next]_Down!vars
  OBVIOUS
<1>0. /\ Queued \in Numbers /\ Waiting \in Numbers /\ network \in Numbers
      /\ Queued \o Waiting \in Numbers /\ Waiting \o network \in Numbers
      /\ Incoming \in Numbers
      /\ Incoming = Queued \o (Waiting \o network)
  BY IncomingPieces
<1>a. Incoming = Queued \o Waiting \o network /\ Incoming' = Queued' \o Waiting' \o network'
  BY DEF Incoming, Queued, Waiting
<1>b. data = <<>> => Waiting = <<>>
  BY BeginFew DEF Waiting
<1>c. data' = <<>> => Waiting' = <<>>
  BY BeginFew DEF Waiting
<1>1. CASE onData
  <2>1. /\ network # <<>> /\ network' = Tail(network)
        /\ UNCHANGED <<xQueuereceive, segments, printed>>
    BY <1>1 DEF onData
  <2>2. Waiting = <<>> /\ Queued' = Queued
    BY <1>1, <1>b, <2>1 DEF onData, TypeOK, Queued
  <2>3. Head(network) \in Nat /\ network' \in Numbers /\ network = <<Head(network)>> \o network'
    BY <1>0, <2>1, HeadInFront
  <2>4. Waiting' = <<Head(network)>>
    <3>1. PICK item \in Copied(Head(network)) : data' = <<item>>
      BY <1>1 DEF onData
    <3>2. item \in Item /\ item.segment = Head(network)
      BY <2>3 DEF Copied, Item, TypeOK
    <3> QED
      BY <3>1, <3>2, BeginFew DEF Waiting
  <2>5. Incoming' = Queued \o Waiting' \o network'
    BY <1>a, <2>2
  <2>6. Waiting' \in Numbers
    BY <2>3, <2>4 DEF Numbers
  <2>7. Queued \o Waiting' \o network' = Queued \o (Waiting' \o network')
    <3> DEFINE n == network'
               w == Waiting'
    <3>1. n \in Numbers /\ w \in Numbers
      BY <2>3, <2>6
    <3> HIDE DEF n, w
    <3>2. Queued \o w \o n = Queued \o (w \o n)
      <4>1. Queued \in Numbers /\ w \in Numbers /\ n \in Numbers
        BY <1>0, <3>1
      <4> QED
        BY <4>1, Assoc
    <3> QED
      BY <3>2 DEF n, w
  <2>8. Incoming = Queued \o network
    BY <1>0, <1>a, <2>2, Nothing, Zenon
  <2>9. Incoming' = Incoming
    BY <2>3, <2>4, <2>5, <2>7, <2>8
  <2> QED
    BY <2>1, <2>9 DEF Down!vars
<1>2. CASE QueueData
  <2>1. xQueuereceive' = xQueuereceive \o data /\ data' = <<>>
        /\ UNCHANGED <<segments, network, printed>>
    BY <1>2 DEF QueueData
  <2>2. Queued' = Queued \o Waiting
    BY <2>1, BeginBoth DEF TypeOK, Queued, Waiting
  <2>3. Incoming' = Incoming
    BY <1>0, <1>a, <1>c, <2>1, <2>2, Nothing
  <2> QED
    BY <2>1, <2>3 DEF Down!vars
<1>3. CASE RefuseData
  <2>1. data' = <<>> /\ UNCHANGED <<xQueuereceive, segments, network, printed>>
    BY <1>3 DEF RefuseData
  <2>2. Queued' = Queued
    BY <2>1 DEF Queued
  <2>3. Incoming' = Queued \o network
    BY <1>0, <1>a, <1>c, <2>1, <2>2, Nothing
  <2>4. StretchLost(Incoming, Incoming')
    BY <1>0, <1>a, <2>3, Stretch
  <2> QED
    BY <2>1, <2>4 DEF Down!Next, Down!Lose, StretchLost
<1>4. CASE loop
  <2>1. xQueuereceive # <<>> /\ xQueuereceive' = Tail(xQueuereceive)
        /\ printed' = Append(printed, Head(xQueuereceive))
        /\ UNCHANGED <<data, segments, network>>
    BY <1>4 DEF loop, ProcessMessage
  <2> DEFINE x == Head(xQueuereceive).segment
             h == <<x>>
             r == Queued'
             d == Waiting \o network
             s == r \o d
  <2>2. /\ Head(xQueuereceive) \in Item /\ Queued # <<>>
        /\ Head(Queued) = x /\ Tail(Queued) = r
    BY <2>1, BeginHead DEF TypeOK, Queued
  <2>3. x \in Nat /\ r \in Numbers /\ Queued = h \o r
    BY <1>0, <2>2, HeadInFront, Zenon
  <2>4. h \in Numbers /\ d \in Numbers
    BY <1>0, <2>3 DEF Numbers
  <2>5. Incoming' = r \o Waiting \o network
    BY <1>a, <2>1 DEF Waiting
  <2>6. Beginnings(printed') = Append(Beginnings(printed), x)
    <3> DEFINE y == Head(xQueuereceive)
    <3>1. y \in Item /\ <<y>> \in Seq(Item) /\ Beginnings(<<y>>) = h
      BY <2>2, BeginFew
    <3>2. printed \in Seq(Item) /\ printed' = printed \o <<y>>
      BY <2>1, <3>1, AppendIsConcat DEF TypeOK
    <3>3. Beginnings(printed') = Beginnings(printed) \o h
      BY <3>1, <3>2, BeginBoth
    <3> QED
      BY <2>3, <3>2, <3>3, Begin, AppendIsConcat DEF Numbers
  <2> HIDE DEF h, r, x
  <2>7. Incoming' = s /\ Incoming = h \o s /\ s \in Numbers
    <3>1. r \o Waiting \o network = r \o d
      <4>1. r \in Numbers /\ Waiting \in Numbers /\ network \in Numbers
        BY <1>0, <2>3
      <4> QED
        BY <4>1, Assoc
    <3> HIDE DEF d
    <3>2. (h \o r) \o d = h \o (r \o d) /\ r \o d \in Numbers
      BY <2>3, <2>4, Assoc, Both, Zenon
    <3> QED
      BY <1>0, <2>3, <2>5, <3>1, <3>2 DEF d
  <2> HIDE DEF s
  <2>8. Incoming # <<>> /\ Incoming' = Tail(Incoming) /\ x = Head(Incoming)
    BY <2>3, <2>7, InFront, Zenon DEF h
  <2> QED
    BY <2>1, <2>6, <2>8 DEF Down!Next, Down!Deliver
<1>5. CASE Arrive
  <2>1. segments' = segments + 1 /\ network' = Append(network, segments + 1)
        /\ UNCHANGED <<xQueuereceive, data, printed>>
    BY <1>5 DEF Arrive
  <2> DEFINE y == <<segments + 1>>
             a == Queued \o Waiting
  <2>2. segments + 1 \in Nat /\ y \in Numbers /\ a \in Numbers
    BY <1>0 DEF TypeOK, Numbers
  <2>3. network' = network \o y
    BY <1>0, <2>1, <2>2, AppendIsConcat DEF Numbers
  <2>4. Incoming' = a \o (network \o y) /\ Incoming = a \o network
    BY <1>a, <2>1, <2>3 DEF Queued, Waiting
  <2> HIDE DEF a, y
  <2>5. Incoming' = Incoming \o y
    <3>1. a \o (network \o y) = (a \o network) \o y
      <4>1. a \in Numbers /\ network \in Numbers /\ y \in Numbers
        BY <1>0, <2>2
      <4> QED
        BY <4>1, Assoc, Zenon
    <3> QED
      BY <2>4, <3>1, Zenon
  <2>6. Incoming' = Append(Incoming, segments + 1)
    BY <1>0, <2>2, <2>5, AppendIsConcat DEF Numbers, y
  <2> QED
    BY <2>1, <2>6 DEF Down!Next, Down!Put
<1>6. CASE Close
  <2>1. network' = <<>> /\ UNCHANGED <<xQueuereceive, data, segments, printed>>
    BY <1>6 DEF Close
  <2>2. Incoming' = (Queued \o Waiting) \o <<>>
    BY <1>a, <2>1 DEF Queued, Waiting
  <2>3. Incoming = (Queued \o Waiting) \o network \o <<>>
    BY <1>0, <1>a, Nothing
  <2>4. StretchLost(Incoming, Incoming')
    BY <1>0, <2>2, <2>3, Nothing, Stretch
  <2> QED
    BY <2>1, <2>4 DEF Down!Next, Down!Lose, StretchLost
<1>7. CASE SendToServer \/ Queue \/ Refuse
  BY <1>7, DownStutters DEF SendToServer, Queue, Refuse
<1>8. CASE Take \/ Add
  BY <1>8, DownStutters DEF Take, Add
<1>9. CASE Connected \/ WriteLogin \/ WritePosition \/ Acknowledge
  BY <1>9, DownStutters DEF Connected, WriteLogin, WritePosition, Acknowledge
<1>10. CASE UNCHANGED vars
  BY <1>10, DownStutters DEF vars
<1> QED
  BY <1>1, <1>2, <1>3, <1>4, <1>5, <1>6, <1>7, <1>8, <1>9, <1>10 DEF Next, clienttcp, async_tcp

\* The texts loop() prints begin with the server's segments in their order, each
\* beginning one text at most, over full queues and the end of the connection.
THEOREM Downlink == Spec => DownlinkIsFifo
BY InitTypeOK, NextTypeOK, InitDown, StepDown, PTL DEF Spec, DownlinkIsFifo, Down!Spec
-----------------------------------------------------------------------------
(* What LossyFifo promises to those who use it: order, and nothing twice.  *)

\* Numbers of 1 .. p, each greater than those before it.
Ordered(p, s) ==
    /\ \A i \in 1 .. Len(s) : s[i] \in 1 .. p
    /\ \A i, j \in 1 .. Len(s) : i < j => s[i] < s[j]

\* Two pieces one behind the other, piece by piece.
LEMMA Two ==
    ASSUME NEW a \in Numbers, NEW b \in Numbers
    PROVE  /\ a \o b \in Numbers /\ Len(a) \in Nat /\ Len(b) \in Nat
           /\ Len(a \o b) = Len(a) + Len(b)
           /\ \A i \in 1 .. Len(a) : (a \o b)[i] = a[i]
           /\ \A i \in 1 .. Len(b) : (a \o b)[Len(a) + i] = b[i]
<1>1. a \in Seq(Nat) /\ b \in Seq(Nat) /\ Len(a) \in Nat /\ Len(b) \in Nat
  BY LenProperties DEF Numbers
<1> DEFINE c == a \o b
<1>2. /\ c \in Seq(Nat) /\ Len(c) = Len(a) + Len(b)
      /\ \A i \in 1 .. Len(a) + Len(b) : c[i] = IF i <= Len(a) THEN a[i] ELSE b[i - Len(a)]
  BY <1>1, ConcatProperties, Zenon
<1> HIDE DEF c
<1>3. \A i \in 1 .. Len(a) : c[i] = a[i]
  BY <1>1, <1>2, SMT
<1>4. \A i \in 1 .. Len(b) : c[Len(a) + i] = b[i]
  <2> TAKE i \in 1 .. Len(b)
  <2>1. Len(a) + i \in 1 .. Len(a) + Len(b) /\ ~(Len(a) + i <= Len(a)) /\ Len(a) + i - Len(a) = i
    BY <1>1, SMT
  <2> QED
    BY <1>2, <2>1
<1> QED
  BY <1>1, <1>2, <1>3, <1>4 DEF c, Numbers

\* The items are those of another sequence that is ordered, in its order.
LEMMA Picked ==
    ASSUME NEW p \in Nat, NEW s \in Numbers, NEW t \in Numbers, Ordered(p, s),
           NEW f, \A i \in 1 .. Len(t) : f[i] \in 1 .. Len(s) /\ t[i] = s[f[i]],
           \A i, j \in 1 .. Len(t) : i < j => f[i] < f[j]
    PROVE  Ordered(p, t)
BY DEF Ordered

\* One more item, greater than all there were.
LEMMA OrderedPut ==
    ASSUME NEW p \in Nat, NEW s \in Numbers, Ordered(p, s)
    PROVE  Ordered(p + 1, Append(s, p + 1))
<1>1. Len(s) \in Nat /\ \A i \in 1 .. Len(s) : s[i] \in 1 .. p
  BY LenProperties DEF Numbers, Ordered
<1> DEFINE t == Append(s, p + 1)
<1>2. /\ Len(t) = Len(s) + 1
      /\ \A i \in 1 .. Len(s) : t[i] = s[i]
      /\ t[Len(s) + 1] = p + 1
  BY AppendProperties DEF Numbers
<1> HIDE DEF t
<1>3. \A i \in 1 .. Len(t) : i \in 1 .. Len(s) \/ i = Len(s) + 1
  BY <1>1, <1>2, SMT
<1>4. ASSUME NEW i \in 1 .. Len(t) PROVE t[i] \in 1 .. p + 1
  BY <1>1, <1>2, <1>3
<1>5. ASSUME NEW i \in 1 .. Len(t), NEW j \in 1 .. Len(t), i < j PROVE t[i] < t[j]
  <2>1. i \in 1 .. Len(s) /\ t[i] = s[i] /\ s[i] \in 1 .. p
    BY <1>1, <1>2, <1>3, <1>5
  <2>2. CASE j \in 1 .. Len(s)
    BY <1>2, <1>5, <2>1, <2>2 DEF Ordered
  <2>3. CASE j = Len(s) + 1
    BY <1>2, <2>1, <2>3
  <2> QED
    BY <1>3, <2>2, <2>3
<1> QED
  BY <1>4, <1>5 DEF Ordered, t

\* A stretch less.
LEMMA OrderedLose ==
    ASSUME NEW p \in Nat, NEW o \in Numbers, NEW w \in Numbers, NEW v,
           Ordered(p, o \o w), StretchLost(w, v)
    PROVE  v \in Numbers /\ Ordered(p, o \o v)
<1>1. PICK i, j \in 0 .. Len(w) : i <= j /\ v = SubSeq(w, 1, i) \o SubSeq(w, j + 1, Len(w))
  BY DEF StretchLost
<1> DEFINE a == SubSeq(w, 1, i)
           c == SubSeq(w, j + 1, Len(w))
           f == [k \in 1 .. Len(o \o v) |-> IF k <= Len(o) + i THEN k ELSE k + (j - i)]
<1>2. Len(w) \in Nat /\ i \in Nat /\ j \in Nat /\ i <= Len(w) /\ j <= Len(w) /\ Len(o) \in Nat
      /\ \A k \in 1 .. Len(w) : w[k] \in Nat
  BY LenProperties, ElementOfSeq, SMT DEF Numbers
<1>3. a \in Numbers /\ Len(a) = i /\ \A k \in 1 .. i : a[k] = w[k]
  <2>1. \A k \in 1 .. i : w[k] \in Nat
    BY <1>2
  <2> QED
    BY <1>2, <2>1, SubSeqProperties DEF Numbers
<1>4. c \in Numbers /\ Len(c) = Len(w) - j /\ \A k \in 1 .. Len(w) - j : c[k] = w[j + k]
  <2>1. \A k \in j + 1 .. Len(w) : w[k] \in Nat
    BY <1>2
  <2>2. /\ c \in Seq(Nat)
        /\ Len(c) = IF j + 1 <= Len(w) THEN Len(w) - (j + 1) + 1 ELSE 0
        /\ \A k \in 1 .. Len(w) - (j + 1) + 1 : c[k] = w[j + 1 + k - 1]
    BY <1>2, <2>1, SubSeqProperties
  <2> HIDE DEF c
  <2> QED
    BY <1>2, <2>2, SMT DEF Numbers
<1> HIDE DEF a, c
<1>5. v \in Numbers /\ Len(v) = i + (Len(w) - j)
      /\ (\A k \in 1 .. i : v[k] = w[k])
      /\ (\A k \in 1 .. Len(w) - j : v[i + k] = w[j + k])
  <2>1. v = a \o c
    BY <1>1 DEF a, c
  <2>2. /\ a \o c \in Numbers /\ Len(a \o c) = Len(a) + Len(c)
        /\ \A k \in 1 .. Len(a) : (a \o c)[k] = a[k]
        /\ \A k \in 1 .. Len(c) : (a \o c)[Len(a) + k] = c[k]
    BY <1>3, <1>4, Two, Zenon
  <2>3. /\ v \in Numbers /\ Len(v) = Len(a) + Len(c)
        /\ \A k \in 1 .. Len(a) : v[k] = a[k]
        /\ \A k \in 1 .. Len(c) : v[Len(a) + k] = c[k]
    BY <2>1, <2>2, Zenon
  <2> QED
    BY <1>2, <1>3, <1>4, <2>3
<1> DEFINE s == o \o w
           t == o \o v
<1>6. /\ s \in Numbers /\ Len(s) = Len(o) + Len(w)
      /\ \A k \in 1 .. Len(o) : s[k] = o[k]
      /\ \A k \in 1 .. Len(w) : s[Len(o) + k] = w[k]
  BY Two, Zenon
<1>7. /\ t \in Numbers /\ Len(t) = Len(o) + Len(v)
      /\ \A k \in 1 .. Len(o) : t[k] = o[k]
      /\ \A k \in 1 .. Len(v) : t[Len(o) + k] = v[k]
  BY <1>5, Two, Zenon
<1>8. Ordered(p, s)
  OBVIOUS
<1>9. f = [k \in 1 .. Len(t) |-> IF k <= Len(o) + i THEN k ELSE k + (j - i)]
  OBVIOUS
<1> HIDE DEF s, t, f
<1>10. ASSUME NEW k \in 1 .. Len(t) PROVE f[k] \in 1 .. Len(s) /\ t[k] = s[f[k]]
  <2>1. f[k] = IF k <= Len(o) + i THEN k ELSE k + (j - i)
    BY <1>9
  <2>2. CASE k <= Len(o)
    BY <1>2, <1>6, <1>7, <2>1, <2>2
  <2>3. CASE Len(o) < k /\ k <= Len(o) + i
    <3>1. k - Len(o) \in 1 .. i /\ k - Len(o) \in 1 .. Len(w) /\ k - Len(o) \in 1 .. Len(v)
          /\ Len(o) + (k - Len(o)) = k
      BY <1>2, <1>5, <2>3
    <3>2. t[k] = v[k - Len(o)] /\ v[k - Len(o)] = w[k - Len(o)] /\ s[k] = w[k - Len(o)]
      BY <1>5, <1>6, <1>7, <3>1
    <3> QED
      BY <1>2, <1>6, <2>1, <2>3, <3>1, <3>2
  <2>4. CASE Len(o) + i < k
    <3> DEFINE m == k - Len(o) - i
    <3>1. m \in 1 .. Len(w) - j /\ i + m \in 1 .. Len(v) /\ j + m \in 1 .. Len(w)
          /\ Len(o) + (i + m) = k
      <4>1. k \in Nat /\ k <= Len(o) + (i + (Len(w) - j)) /\ Len(v) = i + (Len(w) - j)
        BY <1>2, <1>5, <1>7
      <4>2. m \in 1 .. Len(w) - j /\ i + m \in 1 .. i + (Len(w) - j) /\ j + m \in 1 .. Len(w)
            /\ Len(o) + (i + m) = k
        BY <1>2, <2>4, <4>1
      <4> QED
        BY <4>1, <4>2, Zenon
    <3>2. f[k] = k + (j - i)
      BY <1>2, <2>1, <2>4
    <3>3. Len(o) + (j + m) = f[k] /\ f[k] \in 1 .. Len(s)
      BY <1>1, <1>2, <1>6, <3>1, <3>2
    <3> HIDE DEF m
    <3>4. t[k] = v[i + m] /\ v[i + m] = w[j + m] /\ s[f[k]] = w[j + m]
      BY <1>5, <1>6, <1>7, <3>1, <3>3
    <3> QED
      BY <3>3, <3>4
  <2> QED
    BY <1>2, <2>2, <2>3, <2>4
<1>11. ASSUME NEW k \in 1 .. Len(t), NEW l \in 1 .. Len(t), k < l PROVE f[k] < f[l]
  BY <1>1, <1>2, <1>9, <1>11
<1>12. Ordered(p, t)
  BY <1>6, <1>7, <1>8, <1>10, <1>11, Picked
<1> QED
  BY <1>5, <1>12 DEF t

\* What is next comes out, and is in the same place among all.
LEMMA Delivered ==
    ASSUME NEW o \in Numbers, NEW w \in Numbers, w # <<>>
    PROVE  Append(o, Head(w)) \in Numbers /\ Append(o, Head(w)) \o Tail(w) = o \o w
<1> DEFINE h == <<Head(w)>>
<1>1. Head(w) \in Nat /\ Tail(w) \in Numbers /\ w = h \o Tail(w)
  BY HeadInFront, Zenon
<1>2. h \in Numbers /\ Append(o, Head(w)) = o \o h /\ Append(o, Head(w)) \in Numbers
  BY <1>1, AppendIsConcat, AppendProperties DEF Numbers
<1> HIDE DEF h
<1>3. o \o (h \o Tail(w)) = (o \o h) \o Tail(w)
  BY <1>1, <1>2, Assoc, Zenon
<1> QED
  BY <1>1, <1>2, <1>3, Zenon

\* The three steps of LossyFifo, over all that came out and is to come.
FifoStep(p, w, o, p1, w1, o1) ==
    \/ p1 = p + 1 /\ w1 = Append(w, p + 1) /\ o1 = o
    \/ StretchLost(w, w1) /\ p1 = p /\ o1 = o
    \/ w # <<>> /\ w1 = Tail(w) /\ o1 = Append(o, Head(w)) /\ p1 = p
    \/ w1 = w /\ p1 = p /\ o1 = o

InOrderOf(p, w, o) == p \in Nat /\ w \in Numbers /\ o \in Numbers /\ Ordered(p, o \o w)

\* Each of them keeps the order.
LEMMA FifoKeepsOrder ==
    ASSUME NEW p, NEW w, NEW o, NEW p1, NEW w1, NEW o1,
           InOrderOf(p, w, o), FifoStep(p, w, o, p1, w1, o1)
    PROVE  InOrderOf(p1, w1, o1)
<1> USE DEF InOrderOf
<1>1. CASE p1 = p + 1 /\ w1 = Append(w, p + 1) /\ o1 = o
  <2>1. p + 1 \in Nat /\ w1 \in Numbers
    BY <1>1 DEF Numbers
  <2>2. Ordered(p + 1, Append(o \o w, p + 1))
    BY Both, OrderedPut
  <2>3. Append(o \o w, p + 1) = o \o w1
    <3> DEFINE y == <<p + 1>>
               ow == o \o w
    <3>1. y \in Numbers /\ ow \in Numbers
      BY <2>1, Both DEF Numbers
    <3>2. Append(w, p + 1) = w \o y
      BY <2>1, AppendIsConcat DEF Numbers
    <3> HIDE DEF ow
    <3>3. Append(ow, p + 1) = ow \o y
      BY <2>1, <3>1, AppendIsConcat DEF Numbers
    <3> HIDE DEF y
    <3>4. o \o (w \o y) = (o \o w) \o y
      BY <3>1, Assoc, Zenon
    <3> QED
      BY <1>1, <3>2, <3>3, <3>4, Zenon DEF ow
  <2> QED
    BY <1>1, <2>1, <2>2, <2>3, Zenon
<1>2. CASE StretchLost(w, w1) /\ p1 = p /\ o1 = o
  BY <1>2, OrderedLose, Zenon
<1>3. CASE w # <<>> /\ w1 = Tail(w) /\ o1 = Append(o, Head(w)) /\ p1 = p
  <2>1. Tail(w) \in Numbers
    BY <1>3, HeadInFront, Zenon
  <2> QED
    BY <1>3, <2>1, Delivered, Zenon
<1>4. CASE w1 = w /\ p1 = p /\ o1 = o
  BY <1>4, Zenon
<1> QED
  BY <1>1, <1>2, <1>3, <1>4 DEF FifoStep

\* As it begins.
LEMMA NothingInOrder ==
    ASSUME NEW p, NEW w, NEW o, p = 0, w = <<>>, o = <<>>
    PROVE  InOrderOf(p, w, o)
<1> DEFINE e == <<>>
<1>1. e \in Numbers /\ Len(e) = 0 /\ e \o e = e
  BY Nothing DEF Numbers
<1> HIDE DEF e
<1>2. Ordered(p, e)
  BY <1>1, SMT DEF Ordered
<1> QED
  BY <1>1, <1>2 DEF InOrderOf, e

\* In LossyFifo's words.
LEMMA InOrderOfFifo ==
    ASSUME NEW p, NEW w, NEW o, InOrderOf(p, w, o)
    PROVE  /\ \A i \in DOMAIN (o \o w) : (o \o w)[i] \in 1 .. p
           /\ \A i, j \in DOMAIN (o \o w) : i < j => (o \o w)[i] < (o \o w)[j]
<1>1. o \o w \in Numbers
  BY Both DEF InOrderOf
<1>2. DOMAIN (o \o w) = 1 .. Len(o \o w)
  BY <1>1, LenProperties DEF Numbers
<1> QED
  BY <1>2, Zenon DEF InOrderOf, Ordered

\* What clienttcp has written, and what it has still to write, is in the order
\* SendToServer() was called, no message twice.
THEOREM UplinkInOrder == Spec => []Up!InOrder
<1>1. Init => InOrderOf(given, Outgoing, sent)
  <2> SUFFICES ASSUME Init PROVE InOrderOf(given, Outgoing, sent)
    OBVIOUS
  <2>1. given = 0 /\ Outgoing = <<>> /\ sent = <<>>
    BY InitUp DEF Up!Init
  <2> QED
    BY <2>1, NothingInOrder
<1>2. InOrderOf(given, Outgoing, sent) /\ [Up!Next]_Up!vars => InOrderOf(given, Outgoing, sent)'
  <2> SUFFICES ASSUME InOrderOf(given, Outgoing, sent), [Up!Next]_Up!vars
               PROVE  InOrderOf(given', Outgoing', sent')
    OBVIOUS
  <2>1. FifoStep(given, Outgoing, sent, given', Outgoing', sent')
    BY DEF FifoStep, StretchLost, Up!Next, Up!Put, Up!Lose, Up!Deliver, Up!vars
  <2> QED
    BY <2>1, FifoKeepsOrder
<1>3. InOrderOf(given, Outgoing, sent) => Up!InOrder
  BY InOrderOfFifo DEF Up!InOrder
<1> QED
  BY <1>1, <1>2, <1>3, InitTypeOK, NextTypeOK, StepUp, PTL DEF Spec

\* What the printed texts begin with, and what has still to be printed, is in the
\* order in which the server's segments arrived, none begins two texts.
THEOREM DownlinkInOrder == Spec => []Down!InOrder
<1>1. Init => InOrderOf(segments, Incoming, Beginnings(printed))
  <2> SUFFICES ASSUME Init PROVE InOrderOf(segments, Incoming, Beginnings(printed))
    OBVIOUS
  <2>1. segments = 0 /\ Incoming = <<>> /\ Beginnings(printed) = <<>>
    BY InitDown DEF Down!Init
  <2> QED
    BY <2>1, NothingInOrder
<1>2. InOrderOf(segments, Incoming, Beginnings(printed)) /\ [Down!Next]_Down!vars
        => InOrderOf(segments, Incoming, Beginnings(printed))'
  <2> SUFFICES ASSUME InOrderOf(segments, Incoming, Beginnings(printed)), [Down!Next]_Down!vars
               PROVE  InOrderOf(segments', Incoming', Beginnings(printed)')
    OBVIOUS
  <2>1. FifoStep(segments, Incoming, Beginnings(printed), segments', Incoming', Beginnings(printed)')
    BY DEF FifoStep, StretchLost, Down!Next, Down!Put, Down!Lose, Down!Deliver, Down!vars
  <2> QED
    BY <2>1, FifoKeepsOrder
<1>3. InOrderOf(segments, Incoming, Beginnings(printed)) => Down!InOrder
  BY InOrderOfFifo DEF Down!InOrder
<1> QED
  BY <1>1, <1>2, <1>3, InitTypeOK, NextTypeOK, StepDown, PTL DEF Spec
=============================================================================
