------------------------- MODULE WebSocketPushProofs -------------------------
(***************************************************************************)
(* For any clients, any limit and any clock: the pointer never dangles,    *)
(* and only a client that disconnects in the course of a tick can make it  *)
(* panic.                                                                  *)
(***************************************************************************)
EXTENDS WebSocketPush, SequenceTheorems, TLAPS

\* Where the tick uses *ptr.
Using == {"status", "cleanup", "make", "full", "open", "text"}

\* Where it goes on without testing the pointer for NULL again.
Trusting == Using \cup {"read status", "read cleanup", "read make", "read full",
                        "read open", "read text"}

\* The tick has tested the pointer once.  As long as no client disconnects the
\* pointer stays set, if perhaps to another client, and the client it was read
\* from stays listed.
TickHolds ==
    ~lost => /\ pc \in Trusting => globalClient # NULL
             /\ pc \in Using => ptr \in Listed

PushInv == TypeOK /\ PointsToListed /\ TickHolds /\ PanicNeedsDisconnect

-----------------------------------------------------------------------------
\* A list without its ith member: all the others are still there.
LEMMA WithoutOne ==
    ASSUME NEW S, NEW s \in Seq(S), NEW i \in 1 .. Len(s)
    PROVE  /\ Without(s, i) \in Seq(S)
           /\ \A k \in 1 .. Len(s) :
                k # i => \E l \in 1 .. Len(Without(s, i)) : Without(s, i)[l] = s[k]
<1> DEFINE t == Without(s, i)
           a == SubSeq(s, 1, i - 1)
           b == SubSeq(s, i + 1, Len(s))
<1>1. Len(s) \in Nat /\ i \in Nat /\ 1 <= i /\ i <= Len(s)
      /\ \A k \in 1 .. Len(s) : s[k] \in S
  BY LenProperties, ElementOfSeq, SMT
<1>2. a \in Seq(S) /\ Len(a) = i - 1 /\ \A k \in 1 .. i - 1 : a[k] = s[k]
  <2>1. \A k \in 1 .. i - 1 : s[k] \in S
    BY <1>1
  <2>2. /\ a \in Seq(S)
        /\ Len(a) = IF 1 <= i - 1 THEN i - 1 - 1 + 1 ELSE 0
        /\ \A k \in 1 .. i - 1 - 1 + 1 : a[k] = s[1 + k - 1]
    BY <1>1, <2>1, SubSeqProperties
  <2> HIDE DEF a
  <2> QED
    BY <1>1, <2>2, SMT
<1>3. b \in Seq(S) /\ Len(b) = Len(s) - i /\ \A k \in 1 .. Len(s) - i : b[k] = s[i + k]
  <2>1. \A k \in i + 1 .. Len(s) : s[k] \in S
    BY <1>1
  <2>2. /\ b \in Seq(S)
        /\ Len(b) = IF i + 1 <= Len(s) THEN Len(s) - (i + 1) + 1 ELSE 0
        /\ \A k \in 1 .. Len(s) - (i + 1) + 1 : b[k] = s[i + 1 + k - 1]
    BY <1>1, <2>1, SubSeqProperties
  <2> HIDE DEF b
  <2> QED
    BY <1>1, <2>2, SMT
<1>4. t = a \o b
  BY DEF Without
<1> HIDE DEF a, b, t
<1>5. /\ t \in Seq(S) /\ Len(t) = Len(a) + Len(b)
      /\ \A k \in 1 .. Len(a) + Len(b) : t[k] = IF k <= Len(a) THEN a[k] ELSE b[k - Len(a)]
  <2>1. /\ a \o b \in Seq(S) /\ Len(a \o b) = Len(a) + Len(b)
        /\ \A k \in 1 .. Len(a) + Len(b) :
              (a \o b)[k] = IF k <= Len(a) THEN a[k] ELSE b[k - Len(a)]
    BY <1>2, <1>3, ConcatProperties, Zenon
  <2> QED
    BY <1>4, <2>1, Zenon
<1>6. ASSUME NEW k \in 1 .. Len(s), k # i PROVE \E l \in 1 .. Len(t) : t[l] = s[k]
  <2>1. CASE k < i
    <3>1. k \in 1 .. i - 1 /\ k \in 1 .. Len(a) + Len(b) /\ k <= Len(a)
      BY <1>1, <1>2, <1>3, <2>1
    <3> QED
      BY <1>2, <1>5, <3>1
  <2>2. CASE k > i
    <3> DEFINE n == Len(a) + (k - i)
    <3>1. k - i \in 1 .. Len(s) - i /\ i + (k - i) = k /\ n \in 1 .. Len(a) + Len(b)
          /\ ~(n <= Len(a)) /\ n - Len(a) = k - i
      BY <1>1, <1>2, <1>3, <2>2
    <3> HIDE DEF n
    <3>2. t[n] = b[n - Len(a)]
      BY <1>5, <3>1
    <3>3. b[k - i] = s[k]
      BY <1>3, <3>1
    <3> QED
      BY <1>5, <3>1, <3>2, <3>3
  <2>3. k < i \/ k > i
    BY <1>1, <1>6
  <2> QED
    BY <2>1, <2>2, <2>3
<1> QED
  BY <1>5, <1>6 DEF t

\* Only c itself leaves the list.
LEMMA UnlistKeepsOthers ==
    ASSUME TypeOK, NEW c \in Client, Unlist(c)
    PROVE  clients' \in Seq(Client) /\ Listed \ {c} \subseteq Listed'
<1>1. PICK i \in 1 .. Len(clients) : clients[i] = c /\ clients' = Without(clients, i)
  BY LenProperties DEF TypeOK, Unlist
<1>2. /\ clients' \in Seq(Client)
      /\ \A k \in 1 .. Len(clients) : k # i => \E l \in 1 .. Len(clients') : clients'[l] = clients[k]
  BY <1>1, WithoutOne DEF TypeOK
<1>3. ASSUME NEW x \in Listed, x # c PROVE x \in Listed'
  <2>1. PICK k \in 1 .. Len(clients) : clients[k] = x
    BY LenProperties DEF Listed, TypeOK
  <2>2. PICK l \in 1 .. Len(clients') : clients'[l] = x
    BY <1>1, <1>2, <1>3, <2>1
  <2>3. l \in DOMAIN clients'
    BY <1>2, <2>2, LenProperties
  <2> QED
    BY <2>2, <2>3 DEF Listed
<1> QED
  BY <1>2, <1>3

\* A new client is listed with the others.
LEMMA AppendLists ==
    ASSUME TypeOK, NEW c \in Client, clients' = Append(clients, c)
    PROVE  clients' \in Seq(Client) /\ Listed \subseteq Listed' /\ c \in Listed'
<1>1. /\ clients \in Seq(Client) /\ Len(clients) \in Nat
      /\ DOMAIN clients = 1 .. Len(clients)
  BY LenProperties DEF TypeOK
<1> DEFINE t == Append(clients, c)
<1>2. /\ t \in Seq(Client)
      /\ Len(t) = Len(clients) + 1
      /\ \A i \in 1 .. Len(clients) : t[i] = clients[i]
      /\ t[Len(clients) + 1] = c
  BY <1>1, AppendProperties
<1>3. clients' = t
  OBVIOUS
<1> HIDE DEF t
<1>4. DOMAIN t = 1 .. Len(t)
  BY <1>2, LenProperties
<1>5. c \in Listed'
  <2>1. Len(clients) + 1 \in DOMAIN t
    BY <1>1, <1>2, <1>4
  <2> QED
    BY <1>2, <1>3, <2>1 DEF Listed
<1>6. ASSUME NEW x \in Listed PROVE x \in Listed'
  <2>1. PICK i \in DOMAIN clients : clients[i] = x
    BY DEF Listed
  <2>2. i \in DOMAIN t /\ t[i] = x
    BY <1>1, <1>2, <1>4, <2>1
  <2> QED
    BY <1>3, <2>2 DEF Listed
<1> QED
  BY <1>2, <1>3, <1>5, <1>6
-----------------------------------------------------------------------------
\* The list is empty in the beginning and after a restart.
LEMMA InitPushInv == Init => PushInv
<1> SUFFICES ASSUME Init PROVE PushInv
  OBVIOUS
<1>1. TypeOK
  <2>1. 0 \in 0 .. TimeModulus - 1
    BY PushAssumption
  <2>2. clients \in Seq(Client) /\ open \subseteq Listed
    BY DEF Init
  <2> QED
    BY <2>1, <2>2 DEF Init, TypeOK, Steps
<1>2. PointsToListed /\ TickHolds /\ PanicNeedsDisconnect
  BY DEF Init, PointsToListed, TickHolds, PanicNeedsDisconnect, Trusting, Using
<1> QED
  BY <1>1, <1>2 DEF PushInv

\* A time later is a time.
LEMMA PlusInRange ==
    ASSUME NEW t \in 0 .. TimeModulus - 1, NEW d \in Nat
    PROVE  Plus(t, d) \in 0 .. TimeModulus - 1
BY PushAssumption DEF Plus

LEMMA NextTypeOK == TypeOK /\ [Next]_vars => TypeOK'
<1> SUFFICES ASSUME TypeOK, [Next]_vars PROVE TypeOK'
  OBVIOUS
<1> USE DEF serverVars, tickVars
<1>1. ASSUME NEW c \in Client, Connect(c) PROVE TypeOK'
  <2>1. clients' \in Seq(Client) /\ Listed \subseteq Listed' /\ c \in Listed'
    BY <1>1, AppendLists DEF Connect
  <2> QED
    BY <1>1, <2>1 DEF Connect, TypeOK
<1>2. ASSUME NEW c \in Client, Closing(c) PROVE TypeOK'
  BY <1>2 DEF Closing, TypeOK, Listed
<1>3. ASSUME NEW c \in Client, Disconnect(c) PROVE TypeOK'
  <2>1. clients' \in Seq(Client) /\ Listed \ {c} \subseteq Listed'
    BY <1>3, UnlistKeepsOthers DEF Disconnect
  <2> QED
    BY <1>3, <2>1 DEF Disconnect, TypeOK
<1>4. CASE Free
  BY <1>4 DEF Free, TypeOK, Listed
<1>5. CASE Wake
  <2>1. PICK d \in 1 .. MaxLag : now' = Plus(now, d)
    BY <1>5 DEF Wake
  <2>2. now' \in 0 .. TimeModulus - 1
    BY <2>1, PlusInRange, PushAssumption DEF TypeOK
  <2> QED
    BY <1>5, <2>2 DEF Wake, Goto, TypeOK, Listed, Steps
<1>6. CASE Test
  BY <1>6 DEF Test, TypeOK, Listed, Steps
<1>7. CASE Status
  BY <1>7 DEF Status, TypeOK, Listed, Steps
<1>8. CASE Cleanup
  BY <1>8 DEF Cleanup, Goto, TypeOK, Listed, Steps
<1>9. CASE Make \/ QueueIsFull \/ TextAll
  BY <1>9 DEF Make, QueueIsFull, TextAll, Goto, TypeOK, Listed, Steps
<1>10. CASE StillOpen
  BY <1>10 DEF StillOpen, TypeOK, Listed, Steps
<1>11. CASE EndTick \/ Panic
  BY <1>11 DEF EndTick, Panic, TypeOK, Listed, Steps
<1>12. ASSUME NEW at, NEW next \in Steps, Read(at, next) PROVE TypeOK'
  BY <1>12 DEF Read, Goto, TypeOK, Listed
<1>13. CASE Restart
  <2>1. 0 \in 0 .. TimeModulus - 1
    BY PushAssumption
  <2>2. clients' \in Seq(Client) /\ open' \subseteq Listed'
    BY <1>13 DEF Restart
  <2> QED
    BY <1>13, <2>1, <2>2 DEF Restart, TypeOK, Steps
<1>14. CASE UNCHANGED vars
  BY <1>14 DEF vars, TypeOK, Listed
<1> QED
  <2>1. {"status", "cleanup", "make", "full", "open", "text"} \subseteq Steps
    BY DEF Steps
  <2> QED
    BY <1>1, <1>2, <1>3, <1>4, <1>5, <1>6, <1>7, <1>8, <1>9, <1>10, <1>11, <1>12,
       <1>13, <1>14, <2>1 DEF Next, WebServer, Tick

\* The pointer is set to a client when it is listed, and cleared whoever leaves.
LEMMA NextPointsToListed == TypeOK /\ PointsToListed /\ [Next]_vars => PointsToListed'
<1> SUFFICES ASSUME TypeOK, PointsToListed, [Next]_vars PROVE PointsToListed'
  OBVIOUS
<1>1. ASSUME NEW c \in Client, Connect(c) PROVE PointsToListed'
  BY <1>1, AppendLists DEF Connect, PointsToListed
<1>2. ASSUME NEW c \in Client, Disconnect(c) PROVE PointsToListed'
  BY <1>2 DEF Disconnect, PointsToListed
<1>3. CASE Restart
  BY <1>3 DEF Restart, PointsToListed
<1>4. ASSUME UNCHANGED <<globalClient, clients>> PROVE PointsToListed'
  BY <1>4 DEF PointsToListed, Listed
<1>5. CASE Tick
  BY <1>4, <1>5 DEF Tick, Wake, Test, Status, Cleanup, Make, QueueIsFull, StillOpen, TextAll,
                    EndTick, Panic, Read, serverVars
<1>6. ASSUME NEW c \in Client, Closing(c) PROVE PointsToListed'
  BY <1>4, <1>6 DEF Closing
<1>7. CASE Free
  BY <1>4, <1>7 DEF Free
<1>8. CASE UNCHANGED vars
  BY <1>4, <1>8 DEF vars, serverVars
<1> QED
  BY <1>1, <1>2, <1>3, <1>5, <1>6, <1>7, <1>8 DEF Next, WebServer

\* No step of the tick, and no client that connects or closes, takes the
\* client away that the tick has read.
LEMMA NextTickHolds == TypeOK /\ PointsToListed /\ TickHolds /\ [Next]_vars => TickHolds'
<1> SUFFICES ASSUME TypeOK, PointsToListed, TickHolds, [Next]_vars, ~lost'
             PROVE  /\ pc' \in Trusting => globalClient' # NULL
                    /\ pc' \in Using => ptr' \in Listed'
  BY DEF TickHolds
<1> USE DEF serverVars, tickVars
<1>1. ASSUME NEW c \in Client, Connect(c) PROVE globalClient' # NULL /\ (pc' \in Using => ptr' \in Listed')
  <2>1. Listed \subseteq Listed' /\ globalClient' = c /\ UNCHANGED <<pc, ptr, lost>>
    BY <1>1, AppendLists DEF Connect
  <2>2. c # NULL
    BY PushAssumption
  <2> QED
    BY <2>1, <2>2 DEF TickHolds
<1>2. ASSUME NEW c \in Client, Disconnect(c) PROVE FALSE
  BY <1>2 DEF Disconnect
<1>3. ASSUME UNCHANGED <<globalClient, clients, pc, ptr, lost>>
      PROVE  /\ pc' \in Trusting => globalClient' # NULL
             /\ pc' \in Using => ptr' \in Listed'
  BY <1>3 DEF TickHolds, Listed
<1>4. ASSUME NEW c \in Client, Closing(c) PROVE UNCHANGED <<globalClient, clients, pc, ptr, lost>>
  BY <1>4 DEF Closing
<1>5. CASE Free
  BY <1>3, <1>5 DEF Free
<1>6. CASE Wake
  BY <1>6 DEF Wake, Goto, Trusting, Using
<1>7. CASE Test
  <2>1. pc' \in Trusting => globalClient # NULL /\ ptr' = globalClient
    BY <1>7 DEF Test, Trusting, Using
  <2> QED
    BY <1>7, <2>1 DEF Test, PointsToListed, Listed, Trusting
<1>8. CASE Status
  <2>1. pc \in Trusting /\ pc' \notin Using /\ UNCHANGED <<globalClient, lost>>
    BY <1>8 DEF Status, Trusting, Using
  <2> QED
    BY <2>1 DEF TickHolds
<1>9. CASE Cleanup \/ Make \/ QueueIsFull \/ TextAll
  <2>1. pc \in Trusting /\ pc' \notin Using /\ UNCHANGED <<globalClient, lost>>
    BY <1>9 DEF Cleanup, Make, QueueIsFull, TextAll, Goto, Trusting, Using
  <2> QED
    BY <2>1 DEF TickHolds
<1>10. CASE StillOpen
  <2>1. pc \in Using /\ UNCHANGED <<globalClient, clients, ptr, lost>>
    BY <1>10 DEF StillOpen, Using
  <2> QED
    BY <2>1 DEF TickHolds, Trusting, Listed
<1>11. CASE EndTick \/ Panic
  BY <1>11 DEF EndTick, Panic, Trusting, Using
<1>12. ASSUME NEW at \in Trusting, NEW next, Read(at, next)
       PROVE  /\ pc' \in Trusting => globalClient' # NULL
              /\ pc' \in Using => ptr' \in Listed'
  <2>1. pc \in Trusting /\ ptr' = globalClient /\ UNCHANGED <<globalClient, clients, lost>>
    BY <1>12 DEF Read, Goto
  <2> QED
    BY <2>1 DEF TickHolds, PointsToListed, Listed
<1>13. CASE Restart
  BY <1>13 DEF Restart, Trusting, Using
<1>14. CASE UNCHANGED vars
  BY <1>3, <1>14 DEF vars
<1> QED
  <2>1. {"read status", "read cleanup", "read make", "read full", "read open", "read text"}
          \subseteq Trusting
    BY DEF Trusting
  <2> QED
    BY <1>1, <1>2, <1>3, <1>4, <1>5, <1>6, <1>7, <1>8, <1>9, <1>10, <1>11, <1>12,
       <1>13, <1>14, <2>1 DEF Next, WebServer, Tick

\* A client that is listed is not freed.
LEMMA NextPanic == TickHolds /\ PanicNeedsDisconnect /\ [Next]_vars => PanicNeedsDisconnect'
<1> SUFFICES ASSUME TickHolds, PanicNeedsDisconnect, [Next]_vars, pc' = "panic"
             PROVE  lost'
  BY DEF PanicNeedsDisconnect
<1> USE DEF serverVars, tickVars
<1>1. CASE Panic
  BY <1>1 DEF Panic, TickHolds, Using, Allocated
<1>2. CASE UNCHANGED <<pc, lost>>
  BY <1>2 DEF PanicNeedsDisconnect
<1>3. CASE WebServer
  <2>1. pc = pc'
    BY <1>3 DEF WebServer, Connect, Closing, Disconnect, Free
  <2>2. FALSE
    BY <1>3, <2>1 DEF WebServer, Connect, Closing, Disconnect, Free, Running
  <2> QED
    BY <2>2
<1>4. CASE Tick /\ ~Panic
  BY <1>4 DEF Tick, Wake, Test, Status, Cleanup, Make, QueueIsFull, StillOpen, TextAll,
              EndTick, Read, Goto
<1>5. CASE Restart
  BY <1>5 DEF Restart
<1> QED
  BY <1>1, <1>2, <1>3, <1>4, <1>5 DEF Next, Tick, vars

LEMMA NextPushInv == PushInv /\ [Next]_vars => PushInv'
BY NextTypeOK, NextPointsToListed, NextTickHolds, NextPanic DEF PushInv

\* The pointer, the list and the clock keep their types, for any clients, any
\* limit, any interval and any clock.
THEOREM TypeCorrect == Spec => []TypeOK
BY InitPushInv, NextPushInv, PTL DEF Spec, PushInv

\* globalClient never points at a client that has left the list.
THEOREM PointerStands == Spec => []PointsToListed
BY InitPushInv, NextPushInv, PTL DEF Spec, PushInv

\* A tick in whose course no client disconnects uses no client that is gone,
\* although every use may be of another client: it does not panic.
THEOREM OnlyDisconnectPanics == Spec => []PanicNeedsDisconnect
BY InitPushInv, NextPushInv, PTL DEF Spec, PushInv
=============================================================================
