----------------------------- MODULE LoRaProofs -----------------------------
(***************************************************************************)
(* The radio and the messages it is to send.                               *)
(*                                                                         *)
(* LoRaRadio: for which texts the wait of sendMessage() is enough          *)
(* (LoRaHandler.cpp:67-68), and, in a loop that comes round twice in the   *)
(* time of a packet, that no packet is lost or put together of two; for    *)
(* every number of pieces, every clock and all texts.  A packet is safe    *)
(* because of the time it leaves: since the last one less time has passed  *)
(* than the loop needs for a round, or for two rounds once tick() has seen *)
(* it, and so the next one cannot have come yet.                           *)
(*                                                                         *)
(* AprsMsg: what the functions of APRS_MSG.cpp keep of their arguments;    *)
(* for every whole number, a conversion to the finer unit and back; and    *)
(* for every position and measurement what of it the text still says.      *)
(***************************************************************************)
EXTENDS LoRaRadio, LoRaAirtime, AprsMsg, SequenceTheorems, TLAPS

Waiting == {"loop", "sent?", "draw"}
Reading == {"head", "payload", "clear"}

\* No more than since has passed since the last packet came.
Recent(q, since) == q + since >= PacketGap

Timely ==
    /\ isMessage /\ pc \in Waiting => Recent(quiet, lag)
    /\ pc \in Reading => isMessage /\ Recent(quiet, MaxLag + lag)

\* The first n pieces of p.
Pieces(p, n) == [i \in 1 .. n |-> <<p, i - 1>>]

\* What is known of a packet from the interrupt to isMessage = 0.
Kept ==
    /\ unread => isMessage /\ pc \in Waiting \cup {"head"} /\ next = 0 /\ rx \in Packet
    /\ pc \in Waiting \cup {"head"} => got = <<>> /\ (isMessage => sentOver \/ unread)
    /\ pc \in {"payload", "clear"} =>
          sentOver \/ (rx \in Packet /\ next \in 1 .. Chunks /\ got = Pieces(rx, next))
    /\ pc = "clear" => next = Chunks

\* What Transmit puts on the air.
Typed == TypeOK /\ (pc = "draw" => text \in Texts)

PacketInv == Typed /\ Timely /\ Kept /\ ~lost

\* The wait for the last text.
Estimate == text * 35 + 850

\* While writeTX() draws the clock goes on from the call, and may wrap.
DrawBudget(t, d, w, e) == w - e + d = t \/ d >= e

\* What is left of the transmission and the time since the call are together
\* not more than the air time and the drawing; or more time has passed than
\* the wait.
AirBudget(t, a, w, e, b) == a = 0 \/ a + e <= b \/ (w - e <= t /\ a + (t - (w - e)) <= b)

InTime ==
    /\ ~isSend => air = 0 /\ pc # "draw"
    /\ isSend \/ cut => text \in Texts
    /\ isSend /\ ~wrapped =>
          /\ pc = "draw" => DrawBudget(now, drawn, msg_wait, Estimate)
          /\ pc # "draw" => AirBudget(now, air, msg_wait, Estimate, Air[text] + MaxDraw)
    /\ pc = "draw" => air = 0

SendInv == Typed /\ InTime /\ NeverCut

-----------------------------------------------------------------------------
(* Time.                                                                   *)

LEMMA ConstantTypes ==
    /\ Chunks \in Nat /\ Chunks > 1 /\ Step \in Nat \ {0} /\ MaxLag \in Nat /\ MaxDraw \in Nat
    /\ PacketGap \in Nat /\ TimeModulus \in Nat \ {0} /\ NoPacket \notin Packet
    /\ Texts \subseteq Nat
    /\ \A n \in Texts : Air[n] \in Nat /\ n \in Nat /\ n * 35 + 850 < TimeModulus
<1>1. \A n \in Texts : n \in Nat
  BY RadioAssumption
<1>2. \A n \in Texts : Air[n] \in Nat /\ n * 35 + 850 < TimeModulus
  BY RadioAssumption
<1> QED
  BY <1>1, <1>2, RadioAssumption

LEMMA PlusInRange ==
    ASSUME NEW t \in Nat, NEW d \in Nat PROVE Plus(t, d) \in 0 .. TimeModulus - 1
BY ConstantTypes DEF Plus

LEMMA PlusBelow ==
    ASSUME NEW t \in Nat, NEW d \in Nat, t + d < TimeModulus PROVE Plus(t, d) = t + d
BY ConstantTypes DEF Plus

LEMMA MinusInRange ==
    ASSUME NEW t \in Nat, NEW d \in Nat, NEW g \in Nat, t <= g
    PROVE  Minus(t, d) \in 0 .. g /\ Minus(t, d) \in Nat
BY DEF Minus

LEMMA RecentPass ==
    ASSUME NEW q \in Nat, NEW l \in Nat, NEW s \in Nat, Recent(q, l)
    PROVE  Recent(Minus(q, s), l + s)
BY ConstantTypes DEF Recent, Minus

LEMMA RecentRound ==
    ASSUME NEW q \in Nat, NEW l \in 0 .. MaxLag, Recent(q, l)
    PROVE  Recent(q, MaxLag + 0)
BY ConstantTypes DEF Recent

\* A loop fast enough leaves no time for another packet.
LEMMA RecentQuiet ==
    ASSUME FastLoop, NEW q \in Nat, NEW l \in 0 .. MaxLag, Recent(q, l) \/ Recent(q, MaxLag + l)
    PROVE  q # 0
BY ConstantTypes DEF FastLoop, Recent

LEMMA DrawPass ==
    ASSUME NEW t \in 0 .. TimeModulus - 1, NEW d \in Nat, NEW w \in 0 .. TimeModulus - 1,
           NEW e \in Nat, NEW s \in Nat, DrawBudget(t, d, w, e)
    PROVE  DrawBudget(Plus(t, s), d + s, w, e)
<1>1. CASE t + s < TimeModulus
  <2>1. Plus(t, s) = t + s
    BY <1>1, PlusBelow, ConstantTypes
  <2> QED
    BY <2>1, ConstantTypes DEF DrawBudget
<1>2. CASE t + s >= TimeModulus
  <2>1. d + s >= e
    BY <1>2, ConstantTypes DEF DrawBudget
  <2> QED
    BY <2>1 DEF DrawBudget
<1> QED
  BY <1>1, <1>2, ConstantTypes

LEMMA AirPass ==
    ASSUME NEW t \in 0 .. TimeModulus - 1, NEW a \in Nat, NEW w \in 0 .. TimeModulus - 1,
           NEW e \in Nat, NEW b \in Nat, NEW s \in Nat, AirBudget(t, a, w, e, b)
    PROVE  AirBudget(Plus(t, s), Minus(a, s), w, e, b)
<1>1. CASE a > s /\ t + s < TimeModulus
  <2>1. Plus(t, s) = t + s /\ Minus(a, s) = a - s
    BY <1>1, PlusBelow, ConstantTypes DEF Minus
  <2> QED
    BY <2>1, <1>1, ConstantTypes DEF AirBudget
<1>2. CASE a > s /\ t + s >= TimeModulus
  <2>1. Minus(a, s) = a - s
    BY <1>2 DEF Minus
  <2>2. a - s + e <= b
    BY <1>2, ConstantTypes DEF AirBudget
  <2> QED
    BY <2>1, <2>2, Zenon DEF AirBudget
<1>3. CASE ~(a > s)
  <2>1. Minus(a, s) = 0
    BY <1>3 DEF Minus
  <2> QED
    BY <2>1, Zenon DEF AirBudget
<1> QED
  BY <1>1, <1>2, <1>3, ConstantTypes

\* The transmission begins when the drawing is over.
LEMMA AirBegins ==
    ASSUME NEW t \in Nat, NEW d \in 0 .. MaxDraw, NEW w \in Nat, NEW e \in Nat, NEW a \in Nat,
           DrawBudget(t, d, w, e)
    PROVE  AirBudget(t, a, w, e, a + MaxDraw)
BY ConstantTypes DEF DrawBudget, AirBudget

\* When the wait is over something may be left of the transmission only if the
\* air time and the drawing take longer than the wait.
LEMMA WaitOver ==
    ASSUME NEW t \in Nat, NEW w \in Nat, NEW e \in Nat, NEW a \in Nat, NEW b \in Nat,
           w <= t, a > 0, AirBudget(t, a, w, e, b)
    PROVE  b > e
BY DEF AirBudget

\* The call: the wait ends after the estimate, unless the sum wraps.
LEMMA CallBegins ==
    ASSUME NEW t \in 0 .. TimeModulus - 1, NEW e \in Nat, ~(t + e >= TimeModulus)
    PROVE  DrawBudget(t, 0, Plus(t, e), e)
<1>1. Plus(t, e) = t + e
  BY PlusBelow, ConstantTypes
<1> QED
  BY <1>1, ConstantTypes DEF DrawBudget

-----------------------------------------------------------------------------
(* Types.                                                                  *)

\* What TypeOK says of the numbers.
LEMMA Numbers ==
    ASSUME TypeOK
    PROVE  /\ now \in 0 .. TimeModulus - 1 /\ msg_wait \in 0 .. TimeModulus - 1
           /\ now \in Nat /\ msg_wait \in Nat
           /\ next \in 0 .. Chunks /\ next \in Nat /\ air \in Nat
           /\ quiet \in 0 .. PacketGap /\ quiet \in Nat
           /\ text \in Texts \cup {0} /\ text \in Nat
           /\ lag \in 0 .. MaxLag /\ lag \in Nat /\ drawn \in 0 .. MaxDraw /\ drawn \in Nat
<1>1. /\ now \in 0 .. TimeModulus - 1 /\ msg_wait \in 0 .. TimeModulus - 1
      /\ next \in 0 .. Chunks /\ air \in Nat /\ quiet \in 0 .. PacketGap
      /\ text \in Texts \cup {0} /\ lag \in 0 .. MaxLag /\ drawn \in 0 .. MaxDraw
  BY Zenon DEF TypeOK
<1> QED
  BY <1>1, ConstantTypes

LEMMA InitTyped == Init => Typed
<1> SUFFICES ASSUME Init PROVE Typed
  OBVIOUS
<1>1. /\ 0 \in 0 .. TimeModulus - 1 /\ 0 \in 0 .. Chunks /\ 0 \in Nat /\ 0 \in 0 .. PacketGap
      /\ 0 \in 0 .. MaxLag /\ 0 \in 0 .. MaxDraw
  BY ConstantTypes
<1>2. TypeOK
  BY <1>1, Zenon DEF Init, TypeOK
<1>3. pc # "draw"
  BY DEF Init
<1> QED
  BY <1>2, <1>3, Zenon DEF Typed

LEMMA PassTypeOK == ASSUME TypeOK, Pass PROVE TypeOK'
<1>0. Step \in Nat
  BY ConstantTypes
<1>1. lag + Step <= MaxLag /\ (pc = "draw" => drawn + Step <= MaxDraw)
  BY Zenon DEF Pass
<1>2. now' = Plus(now, Step) /\ lag' = lag + Step /\ quiet' = Minus(quiet, Step) /\ air' = Minus(air, Step)
      /\ drawn' = (IF pc = "draw" THEN drawn + Step ELSE drawn)
      /\ mode' = (IF mode = "transmit" /\ air <= Step THEN "standby" ELSE mode)
      /\ UNCHANGED <<isMessage, isSend, msg_wait, pc, rx, next, text>>
  BY Zenon DEF Pass, handler
<1>3. Plus(now, Step) \in 0 .. TimeModulus - 1 /\ lag + Step \in 0 .. MaxLag
      /\ Minus(quiet, Step) \in 0 .. PacketGap /\ Minus(air, Step) \in Nat
  <2>1. lag + Step \in 0 .. MaxLag
    BY <1>0, <1>1, Numbers, ConstantTypes
  <2>2. quiet <= PacketGap /\ air <= air
    BY Numbers, ConstantTypes
  <2> QED
    BY <2>1, <2>2, <1>0, Numbers, ConstantTypes, PlusInRange, MinusInRange, Zenon
<1>4. (IF pc = "draw" THEN drawn + Step ELSE drawn) \in 0 .. MaxDraw
  <2>1. CASE pc = "draw"
    BY <2>1, <1>0, <1>1, Numbers, ConstantTypes
  <2>2. CASE pc # "draw"
    BY <2>2, Numbers
  <2> QED
    BY <2>1, <2>2
<1>5. mode' \in {"receive", "standby", "transmit"}
  BY <1>2, Zenon DEF TypeOK
<1> QED
  BY <1>2, <1>3, <1>4, <1>5, Zenon DEF TypeOK

LEMMA NextTypeOK == ASSUME Typed, [Next]_vars PROVE TypeOK'
<1> USE DEF Typed
<1>0. /\ 0 \in 0 .. Chunks /\ Chunks \in 0 .. Chunks /\ 0 \in Nat
      /\ PacketGap \in 0 .. PacketGap /\ 0 \in 0 .. MaxLag /\ 0 \in 0 .. MaxDraw
  BY ConstantTypes
<1>1. ASSUME NEW p \in Packet, onReceive(p) PROVE TypeOK'
  BY <1>0, <1>1, Zenon DEF onReceive, TypeOK
<1>2. CASE tick
  BY <1>0, <1>2, Zenon DEF tick, handler, radio, TypeOK
<1>3. (IF next < Chunks THEN next + 1 ELSE next) \in 0 .. Chunks
  BY Numbers, ConstantTypes
<1>4. CASE ReadHead
  BY <1>3, <1>4, Zenon DEF ReadHead, Read, handler, TypeOK
<1>5. CASE ReadPayload
  <2>1. next' \in 0 .. Chunks
    BY <1>3, <1>5, Numbers, Zenon DEF ReadPayload, Read
  <2>2. pc' = "clear" \/ pc' = pc
    BY <1>5, Zenon DEF ReadPayload
  <2>3. UNCHANGED <<now, handler, mode, rx, air, text, quiet, lag, drawn>>
    BY <1>5, Zenon DEF ReadPayload
  <2> QED
    BY <2>1, <2>2, <2>3, Zenon DEF handler, TypeOK
<1>6. CASE Clear
  BY <1>6, Zenon DEF Clear, radio, TypeOK
<1>7. CASE setReciveMode
  BY <1>0, <1>7, Zenon DEF setReciveMode, TypeOK
<1>8. CASE StayAsIs
  BY <1>8, Zenon DEF StayAsIs, handler, radio, TypeOK
<1>9. ASSUME NEW n \in Texts, sendMessage(n) PROVE TypeOK'
  <2>1. n * 35 + 850 \in Nat
    BY ConstantTypes
  <2>2. Plus(now, n * 35 + 850) \in 0 .. TimeModulus - 1
    BY <2>1, Numbers, PlusInRange, Zenon
  <2> QED
    BY <2>2, <1>0, <1>9, Zenon DEF sendMessage, TypeOK
<1>10. CASE Transmit
  <2>1. pc = "draw" /\ air' = Air[text] /\ next' = Chunks /\ rx' = NoPacket
        /\ mode' = "transmit" /\ pc' = "loop"
        /\ UNCHANGED <<now, handler, text, quiet, got, lag, drawn>>
    BY <1>10, Zenon DEF Transmit
  <2>2. Air[text] \in Nat
    BY <2>1, ConstantTypes, Zenon
  <2> QED
    BY <2>1, <2>2, <1>0, Zenon DEF handler, TypeOK
<1>11. CASE UNCHANGED vars
  BY <1>11, Zenon DEF vars, handler, radio, history, TypeOK
<1> QED
  BY <1>1, <1>2, <1>4, <1>5, <1>6, <1>7, <1>8, <1>9, <1>10, <1>11, PassTypeOK, Zenon DEF Next, Loop

LEMMA NextTyped == Typed /\ [Next]_vars => Typed'
<1> SUFFICES ASSUME Typed, [Next]_vars PROVE pc' = "draw" => text' \in Texts
  BY NextTypeOK, Zenon DEF Typed
<1>1. CASE Pass \/ UNCHANGED vars \/ \E p \in Packet : onReceive(p)
  <2>1. pc' = pc /\ text' = text
    BY <1>1, Zenon DEF Pass, onReceive, vars, radio
  <2> QED
    BY <2>1, Zenon DEF Typed
<1>2. ASSUME NEW n \in Texts, sendMessage(n) PROVE text' \in Texts
  BY <1>2, Zenon DEF sendMessage
<1>3. CASE Loop
  <2>1. pc' \in {"loop", "head", "payload", "clear", "sent?"}
    BY <1>3 DEF Loop, tick, ReadHead, ReadPayload, Clear, setReciveMode, StayAsIs, Transmit
  <2> QED
    BY <2>1
<1> QED
  BY <1>1, <1>2, <1>3, Zenon DEF Next

-----------------------------------------------------------------------------
(* Packets.                                                                *)

LEMMA PiecesGrow ==
    ASSUME NEW p, NEW n \in Nat
    PROVE  Append(Pieces(p, n), <<p, n>>) = Pieces(p, n + 1)
<1> DEFINE S == {p} \X Nat
           e == <<p, n>>
<1>1. /\ Pieces(p, n) \in [1 .. n -> S] /\ Pieces(p, n + 1) \in [1 .. n + 1 -> S]
      /\ e \in S
  BY DEF Pieces
<1>2. /\ \A i \in 1 .. n : Pieces(p, n + 1)[i] = Pieces(p, n)[i]
      /\ Pieces(p, n + 1)[n + 1] = e
  BY DEF Pieces
<1> DEFINE a == Pieces(p, n)
           b == Pieces(p, n + 1)
<1> HIDE DEF S, e, a, b
<1>3. a \in Seq(S) /\ Len(a) = n /\ b \in Seq(S) /\ Len(b) = n + 1
  BY <1>1, SeqDef, LenProperties DEF a, b
<1>4. e \in S /\ b[n + 1] = e /\ \A i \in 1 .. n : b[i] = a[i]
  BY <1>1, <1>2, Zenon DEF a, b
<1>5. /\ Append(a, e) \in Seq(S) /\ Len(Append(a, e)) = n + 1
      /\ Append(a, e)[n + 1] = e /\ \A i \in 1 .. n : Append(a, e)[i] = a[i]
  BY <1>3, <1>4, AppendProperties
<1>6. \A i \in 1 .. n + 1 : Append(a, e)[i] = b[i]
  BY <1>4, <1>5
<1>7. Append(a, e) = b
  BY <1>3, <1>5, <1>6, SeqEqual
<1> QED
  BY <1>7, Zenon DEF a, b, e

LEMMA FirstPiece == ASSUME NEW p PROVE Append(<<>>, <<p, 0>>) = Pieces(p, 1)
<1>1. Pieces(p, 0) = <<>>
  BY DEF Pieces
<1>2. 0 \in Nat /\ 0 + 1 = 1
  OBVIOUS
<1>3. Append(Pieces(p, 0), <<p, 0>>) = Pieces(p, 0 + 1)
  BY <1>2, PiecesGrow, Zenon
<1> QED
  BY <1>1, <1>2, <1>3, Zenon

LEMMA InitPacketInv == Init => PacketInv
<1> SUFFICES ASSUME Init PROVE PacketInv
  OBVIOUS
<1>1. pc \in Waiting \cup {"head"} /\ pc \notin Reading /\ pc \notin {"payload", "clear"}
  BY DEF Init, Waiting, Reading
<1>2. isMessage = FALSE /\ unread = FALSE /\ got = <<>> /\ lost = FALSE
  BY Zenon DEF Init
<1>3. Timely /\ Kept
  BY <1>1, <1>2, Zenon DEF Timely, Kept
<1> QED
  BY <1>2, <1>3, InitTyped, Zenon DEF PacketInv

\* The next packet comes only when the last is out of the way.
LEMMA NonePending ==
    ASSUME FastLoop, PacketInv, quiet = 0
    PROVE  ~isMessage /\ pc \in Waiting /\ ~unread
<1>1. pc \in Waiting \/ pc \in Reading
  BY DEF PacketInv, Typed, TypeOK, Waiting, Reading
<1>2. quiet \in Nat /\ lag \in 0 .. MaxLag
  BY Numbers, Zenon DEF PacketInv, Typed
<1>3. ~Recent(quiet, lag) /\ ~Recent(quiet, MaxLag + lag)
  BY <1>2, RecentQuiet, Zenon
<1>4. ~isMessage /\ pc \in Waiting
  BY <1>1, <1>3, Zenon DEF PacketInv, Timely
<1> QED
  BY <1>4, Zenon DEF PacketInv, Kept

\* Where the loop can be.
LEMMA Places ==
    /\ "loop" \in Waiting /\ "sent?" \in Waiting /\ "draw" \in Waiting
    /\ "loop" \notin Reading /\ "sent?" \notin Reading /\ "draw" \notin Reading
    /\ "head" \in Reading /\ "payload" \in Reading /\ "clear" \in Reading
    /\ "head" \notin Waiting /\ "payload" \notin Waiting /\ "clear" \notin Waiting
    /\ "loop" # "clear" /\ "sent?" # "clear" /\ "draw" # "clear" /\ "head" # "clear"
    /\ "payload" # "clear" /\ "head" # "payload" /\ "loop" # "payload"
    /\ "sent?" # "payload" /\ "draw" # "payload"
BY DEF Waiting, Reading

\* A step of the loop between two places where it waits leaves a packet alone.
LEMMA WaitsOn ==
    ASSUME PacketInv, pc \in Waiting, pc' \in {"loop", "sent?", "draw"},
           UNCHANGED <<isMessage, quiet, lag, rx, next, got, unread, sentOver, lost>>
    PROVE  Timely' /\ Kept' /\ ~lost'
<1>1. pc' \in Waiting /\ pc' \notin Reading /\ pc' \notin {"payload", "clear"}
  BY DEF Waiting, Reading
<1>2. Timely' /\ ~lost'
  BY <1>1, Zenon DEF PacketInv, Timely
<1>3. Kept'
  BY <1>1, Places, Zenon DEF PacketInv, Kept
<1> QED
  BY <1>2, <1>3

LEMMA PassPacket == ASSUME PacketInv, Pass PROVE Timely' /\ Kept' /\ ~lost'
<1>1. /\ quiet' = Minus(quiet, Step) /\ lag' = lag + Step
      /\ UNCHANGED <<isMessage, pc, rx, next, got, unread, sentOver, lost>>
  BY Zenon DEF Pass, handler, history
<1>2. quiet \in Nat /\ lag \in Nat /\ Step \in Nat /\ MaxLag \in Nat
  BY Numbers, ConstantTypes, Zenon DEF PacketInv, Typed
<1>3. MaxLag + lag \in Nat /\ (MaxLag + lag) + Step = MaxLag + (lag + Step)
  BY <1>2
<1>4. /\ Recent(quiet, lag) => Recent(Minus(quiet, Step), lag + Step)
      /\ Recent(quiet, MaxLag + lag) => Recent(Minus(quiet, Step), MaxLag + (lag + Step))
  <2>1. Recent(quiet, MaxLag + lag) => Recent(Minus(quiet, Step), (MaxLag + lag) + Step)
    BY <1>2, <1>3, RecentPass, Zenon
  <2> QED
    BY <2>1, <1>2, <1>3, RecentPass, Zenon
<1> QED
  BY <1>1, <1>4, Zenon DEF PacketInv, Timely, Kept

LEMMA ReceivePacket ==
    ASSUME FastLoop, PacketInv, NEW p \in Packet, onReceive(p)
    PROVE  Timely' /\ Kept' /\ ~lost'
<1>1. /\ quiet = 0 /\ quiet' = PacketGap /\ isMessage' = TRUE /\ rx' = p /\ next' = 0
      /\ unread' = TRUE /\ lost' = (lost \/ unread)
      /\ UNCHANGED <<pc, lag, got, sentOver>>
  BY Zenon DEF onReceive
<1>2. ~isMessage /\ pc \in Waiting /\ ~unread
  BY <1>1, NonePending, Zenon
<1>3. Recent(PacketGap, lag)
  <2>1. lag \in Nat
    BY Numbers, Zenon DEF PacketInv, Typed
  <2> QED
    BY <2>1, ConstantTypes DEF Recent
<1>4. pc \notin Reading /\ pc \notin {"payload", "clear"}
  BY <1>2 DEF Waiting, Reading
<1>5. Timely' /\ ~lost'
  BY <1>1, <1>2, <1>3, <1>4, Zenon DEF PacketInv, Timely
<1>6. Kept'
  BY <1>1, <1>2, <1>4, Places, Zenon DEF PacketInv, Kept
<1> QED
  BY <1>5, <1>6

LEMMA TickPacket == ASSUME PacketInv, tick PROVE Timely' /\ Kept' /\ ~lost'
<1>1. /\ pc = "loop" /\ pc' = (IF isMessage THEN "head" ELSE "sent?") /\ lag' = 0
      /\ UNCHANGED <<quiet, isMessage, rx, next, got, unread, sentOver, lost>>
  BY Zenon DEF tick, handler, radio, history
<1>2. CASE isMessage
  <2>1. pc' = "head" /\ Recent(quiet, lag)
    BY <1>1, <1>2, Places, Zenon DEF PacketInv, Timely
  <2>2. Recent(quiet, MaxLag + 0)
    BY <2>1, Numbers, RecentRound, Zenon DEF PacketInv, Typed
  <2>3. Timely' /\ ~lost'
    BY <2>1, <2>2, <1>1, <1>2, Places, Zenon DEF PacketInv, Timely
  <2>4. Kept'
    BY <2>1, <1>1, Places, Zenon DEF PacketInv, Kept
  <2> QED
    BY <2>3, <2>4
<1>3. CASE ~isMessage
  <2>1. pc' = "sent?"
    BY <1>1, <1>3, Zenon
  <2>2. Timely' /\ ~lost'
    BY <2>1, <1>1, <1>3, Places, Zenon DEF PacketInv, Timely
  <2>3. Kept'
    BY <2>1, <1>1, <1>3, Places, Zenon DEF PacketInv, Kept
  <2> QED
    BY <2>2, <2>3
<1> QED
  BY <1>2, <1>3

\* Nothing is read but what processMessage() reads.
LEMMA StillReading ==
    ASSUME PacketInv, pc \in Reading, pc' \in Reading, UNCHANGED <<isMessage, quiet, lag, lost>>
    PROVE  Timely' /\ ~lost'
<1>1. pc' \notin Waiting
  BY DEF Waiting, Reading
<1> QED
  BY <1>1, Zenon DEF PacketInv, Timely

LEMMA ReadHeadPacket == ASSUME PacketInv, ReadHead PROVE Timely' /\ Kept' /\ ~lost'
<1>1. /\ pc = "head" /\ pc' = "payload" /\ unread' = FALSE
      /\ got' = Append(got, IF next < Chunks THEN <<rx, next>> ELSE <<NoPacket, 0>>)
      /\ next' = (IF next < Chunks THEN next + 1 ELSE next)
      /\ UNCHANGED <<isMessage, quiet, lag, rx, sentOver, lost>>
  BY Zenon DEF ReadHead, Read, handler
<1>2. Timely' /\ ~lost'
  BY <1>1, Places, StillReading, Zenon
<1>3. ASSUME unread PROVE next' \in 1 .. Chunks /\ rx' \in Packet /\ got' = Pieces(rx', next')
  <2>1. next = 0 /\ rx \in Packet /\ got = <<>>
    BY <1>1, <1>3, Places, Zenon DEF PacketInv, Kept
  <2>2. 0 < Chunks /\ 0 + 1 = 1 /\ 1 \in 1 .. Chunks
    BY ConstantTypes
  <2>3. next' = 1 /\ got' = Append(<<>>, <<rx, 0>>)
    BY <2>1, <2>2, <1>1, Zenon
  <2> QED
    BY <2>1, <2>2, <2>3, <1>1, FirstPiece, Zenon
<1>4. sentOver \/ unread
  BY <1>1, Places, Zenon DEF PacketInv, Timely, Kept
<1>5. Kept'
  BY <1>1, <1>3, <1>4, Places, Zenon DEF Kept
<1> QED
  BY <1>2, <1>5

LEMMA ReadPayloadPacket == ASSUME PacketInv, ReadPayload PROVE Timely' /\ Kept' /\ ~lost'
<1>1. /\ pc = "payload"
      /\ UNCHANGED <<isMessage, quiet, lag, rx, sentOver, lost>>
  BY Zenon DEF ReadPayload, handler, history
<1>2. next \in 0 .. Chunks /\ ~unread
  BY <1>1, Numbers, Places, Zenon DEF PacketInv, Typed, Kept
<1>3. CASE next < Chunks
  <2>1. /\ got' = Append(got, <<rx, next>>) /\ next' = next + 1 /\ unread' = FALSE /\ pc' = pc
    BY <1>3, Zenon DEF ReadPayload, Read
  <2>2. ASSUME ~sentOver PROVE rx \in Packet /\ next' \in 1 .. Chunks /\ got' = Pieces(rx, next')
    <3>1. rx \in Packet /\ next \in 1 .. Chunks /\ got = Pieces(rx, next)
      BY <2>2, <1>1, Zenon DEF PacketInv, Kept
    <3>2. next \in Nat /\ next + 1 \in 1 .. Chunks
      BY <3>1, <1>3, ConstantTypes
    <3> QED
      BY <3>1, <3>2, <2>1, PiecesGrow, Zenon
  <2>3. Kept'
    BY <2>1, <2>2, <1>1, Places, Zenon DEF Kept
  <2> QED
    BY <2>1, <2>3, <1>1, Places, StillReading, Zenon
<1>4. CASE ~(next < Chunks)
  <2>1. pc' = "clear" /\ UNCHANGED <<got, next, unread>>
    BY <1>4, Zenon DEF ReadPayload
  <2>2. next = Chunks
    BY <1>2, <1>4, ConstantTypes
  <2>3. Kept'
    BY <2>1, <2>2, <1>1, <1>2, Places, Zenon DEF PacketInv, Kept
  <2> QED
    BY <2>1, <2>3, <1>1, Places, StillReading, Zenon
<1> QED
  BY <1>3, <1>4

LEMMA NextPacketInv == FastLoop /\ PacketInv /\ [Next]_vars => PacketInv'
<1> SUFFICES ASSUME FastLoop, PacketInv, [Next]_vars PROVE Timely' /\ Kept' /\ ~lost'
  BY NextTyped, Zenon DEF PacketInv
<1>1. CASE Clear
  <2>1. /\ pc = "clear" /\ pc' = "sent?" /\ isMessage' = FALSE /\ lost' = (lost \/ unread)
        /\ got' = <<>> /\ unread' = unread
    BY <1>1, Zenon DEF Clear
  <2>2. ~unread /\ ~lost
    BY <2>1, Places, Zenon DEF PacketInv, Kept
  <2> QED
    BY <2>1, <2>2, Places, Zenon DEF Timely, Kept
<1>2. CASE setReciveMode \/ StayAsIs
  <2>1. /\ pc = "sent?" /\ pc' = "loop"
        /\ UNCHANGED <<isMessage, quiet, lag, rx, next, got, unread, sentOver, lost>>
    BY <1>2, Zenon DEF setReciveMode, StayAsIs, handler, radio, history
  <2>2. pc' \in {"loop", "sent?", "draw"}
    BY <2>1
  <2> QED
    BY <2>1, <2>2, WaitsOn, Places, Zenon
<1>3. ASSUME NEW n \in Texts, sendMessage(n) PROVE Timely' /\ Kept' /\ ~lost'
  <2>1. /\ pc = "loop" /\ pc' = "draw"
        /\ UNCHANGED <<isMessage, quiet, lag, rx, next, got, unread, sentOver, lost>>
    BY <1>3, Zenon DEF sendMessage
  <2>2. pc' \in {"loop", "sent?", "draw"}
    BY <2>1
  <2> QED
    BY <2>1, <2>2, WaitsOn, Places, Zenon
<1>4. CASE Transmit
  <2>1. /\ pc = "draw" /\ pc' = "loop" /\ sentOver' = (sentOver \/ unread) /\ unread' = FALSE
        /\ UNCHANGED <<isMessage, quiet, lag, got, lost>>
    BY <1>4, Zenon DEF Transmit, handler
  <2>2. Timely' /\ ~lost'
    BY <2>1, Places, Zenon DEF PacketInv, Timely
  <2>3. Kept'
    BY <2>1, Places, Zenon DEF PacketInv, Kept
  <2> QED
    BY <2>2, <2>3
<1>5. CASE UNCHANGED vars
  BY <1>5, Zenon DEF PacketInv, Timely, Kept, vars, handler, radio, history
<1> QED
  BY <1>1, <1>2, <1>3, <1>4, <1>5, PassPacket, ReceivePacket, TickPacket, ReadHeadPacket,
     ReadPayloadPacket, Zenon DEF Next, Loop

-----------------------------------------------------------------------------
(* Texts.                                                                  *)

LEMMA InitSendInv == Init => SendInv
<1> SUFFICES ASSUME Init PROVE SendInv
  OBVIOUS
<1>1. isSend = FALSE /\ air = 0 /\ cut = FALSE /\ pc = "loop"
  BY Zenon DEF Init
<1>2. pc # "draw"
  BY <1>1
<1>3. InTime /\ NeverCut
  BY <1>1, <1>2, Zenon DEF InTime, NeverCut
<1> QED
  BY <1>3, InitTyped, Zenon DEF SendInv

\* A step that changes nothing of it.
LEMMA LeavesSend ==
    ASSUME SendInv, UNCHANGED <<now, isSend, msg_wait, pc, air, text, drawn, cut, wrapped>>
    PROVE  InTime' /\ NeverCut'
<1>1. Estimate' = Estimate
  BY Zenon DEF Estimate
<1>2. InTime'
  BY <1>1, Zenon DEF SendInv, InTime
<1>3. NeverCut'
  BY Zenon DEF SendInv, NeverCut
<1> QED
  BY <1>2, <1>3

\* A step that lets neither time pass nor a text begin or end.
LEMMA SendsOn ==
    ASSUME SendInv, pc # "draw", pc' # "draw",
           UNCHANGED <<now, isSend, msg_wait, air, text, drawn, cut, wrapped>>
    PROVE  InTime' /\ NeverCut'
<1>1. Estimate' = Estimate
  BY Zenon DEF Estimate
<1>2. InTime'
  BY <1>1, Zenon DEF SendInv, InTime
<1>3. NeverCut'
  BY Zenon DEF SendInv, NeverCut
<1> QED
  BY <1>2, <1>3

LEMMA PassSend == ASSUME SendInv, Pass PROVE InTime' /\ NeverCut'
<1>1. /\ now' = Plus(now, Step) /\ air' = Minus(air, Step)
      /\ drawn' = (IF pc = "draw" THEN drawn + Step ELSE drawn)
      /\ UNCHANGED <<isSend, msg_wait, pc, text, cut, wrapped>>
  BY Zenon DEF Pass, handler, history
<1>2. /\ now \in 0 .. TimeModulus - 1 /\ msg_wait \in 0 .. TimeModulus - 1
      /\ air \in Nat /\ drawn \in Nat /\ Step \in Nat /\ text \in Nat
  BY Numbers, ConstantTypes, Zenon DEF SendInv, Typed
<1>3. Estimate \in Nat
  BY <1>2 DEF Estimate
<1>4. Minus(0, Step) = 0
  BY <1>2 DEF Minus
<1>5. Estimate' = Estimate
  BY <1>1, Zenon DEF Estimate
<1>6. NeverCut'
  BY <1>1, Zenon DEF SendInv, NeverCut
<1>7. ASSUME isSend, ~wrapped, pc = "draw" PROVE DrawBudget(now, drawn, msg_wait, Estimate)'
  <2>1. DrawBudget(now, drawn, msg_wait, Estimate)
    BY <1>7, Zenon DEF SendInv, InTime
  <2>2. DrawBudget(Plus(now, Step), drawn + Step, msg_wait, Estimate)
    BY <2>1, <1>2, <1>3, DrawPass, Zenon
  <2> QED
    BY <2>2, <1>1, <1>5, <1>7, Zenon
<1>8. ASSUME isSend, ~wrapped, pc # "draw"
      PROVE  AirBudget(now, air, msg_wait, Estimate, Air[text] + MaxDraw)'
  <2>1. AirBudget(now, air, msg_wait, Estimate, Air[text] + MaxDraw)
    BY <1>8, Zenon DEF SendInv, InTime
  <2>2. Air[text] + MaxDraw \in Nat
    <3>1. text \in Texts
      BY <1>8, Zenon DEF SendInv, InTime
    <3> QED
      BY <3>1, ConstantTypes
  <2>3. AirBudget(Plus(now, Step), Minus(air, Step), msg_wait, Estimate, Air[text] + MaxDraw)
    BY <2>1, <2>2, <1>2, <1>3, AirPass, Zenon
  <2> QED
    BY <2>3, <1>1, <1>5, Zenon
<1>9. InTime'
  BY <1>1, <1>4, <1>7, <1>8, Zenon DEF SendInv, InTime
<1> QED
  BY <1>6, <1>9

LEMMA CallSend == ASSUME SendInv, NEW n \in Texts, sendMessage(n) PROVE InTime' /\ NeverCut'
<1> DEFINE e == n * 35 + 850
<1>0. now + n * 35 + 850 = now + e
  BY ConstantTypes, Numbers DEF SendInv, Typed
<1>1. /\ ~isSend /\ pc' = "draw" /\ msg_wait' = Plus(now, e) /\ wrapped' = (now + e >= TimeModulus)
      /\ isSend' = TRUE /\ text' = n /\ cut' = FALSE /\ drawn' = 0 /\ now' = now /\ air' = air
  BY <1>0, Zenon DEF sendMessage
<1>2. Estimate' = e
  BY <1>1, Zenon DEF Estimate
<1>3. e \in Nat /\ now \in 0 .. TimeModulus - 1
  BY ConstantTypes, Numbers DEF SendInv, Typed
<1> HIDE DEF e
<1>4. ASSUME ~wrapped' PROVE DrawBudget(now, drawn, msg_wait, Estimate)'
  <2>1. ~(now + e >= TimeModulus)
    BY <1>4, <1>1, Zenon
  <2>2. DrawBudget(now, 0, Plus(now, e), e)
    BY <2>1, <1>3, CallBegins, Zenon
  <2> QED
    BY <2>2, <1>1, <1>2, Zenon
<1>5. air = 0
  BY <1>1, Zenon DEF SendInv, InTime
<1> QED
  BY <1>1, <1>4, <1>5, Zenon DEF InTime, NeverCut

LEMMA TransmitSend == ASSUME SendInv, Transmit PROVE InTime' /\ NeverCut'
<1>1. /\ pc = "draw" /\ pc' = "loop" /\ air' = Air[text]
      /\ UNCHANGED <<now, isSend, msg_wait, text, drawn, cut, wrapped>>
  BY Zenon DEF Transmit, handler
<1>2. isSend /\ text \in Texts
  BY <1>1, Zenon DEF SendInv, InTime
<1>3. /\ now \in Nat /\ drawn \in 0 .. MaxDraw /\ msg_wait \in Nat /\ text \in Nat /\ Air[text] \in Nat
  BY <1>2, Numbers, ConstantTypes, Zenon DEF SendInv, Typed
<1>4. Estimate \in Nat /\ Estimate' = Estimate
  <2>1. Estimate \in Nat
    BY <1>3 DEF Estimate
  <2> QED
    BY <2>1, <1>1, Zenon DEF Estimate
<1>5. ~wrapped => AirBudget(now, Air[text], msg_wait, Estimate, Air[text] + MaxDraw)
  <2>1. ~wrapped => DrawBudget(now, drawn, msg_wait, Estimate)
    BY <1>1, <1>2, Zenon DEF SendInv, InTime
  <2> QED
    BY <2>1, <1>3, <1>4, AirBegins, Zenon
<1>6. pc' # "draw"
  BY <1>1
<1> QED
  BY <1>1, <1>2, <1>4, <1>5, <1>6, Zenon DEF SendInv, InTime, NeverCut

LEMMA ListenSend == ASSUME SendInv, setReciveMode PROVE InTime' /\ NeverCut'
<1>1. /\ pc = "sent?" /\ pc' = "loop" /\ isSend /\ msg_wait <= now /\ air' = 0 /\ cut' = (air > 0)
      /\ isSend' = FALSE /\ UNCHANGED <<now, msg_wait, text, drawn, wrapped>>
  BY Zenon DEF setReciveMode, SendOver
<1>2. pc # "draw" /\ pc' # "draw"
  BY <1>1
<1>3. ASSUME air > 0, ~wrapped PROVE Air[text] + MaxDraw > text * 35 + 850
  <2>1. AirBudget(now, air, msg_wait, Estimate, Air[text] + MaxDraw) /\ text \in Texts
    BY <1>1, <1>2, <1>3, Zenon DEF SendInv, InTime
  <2>2. now \in Nat /\ msg_wait \in Nat /\ air \in Nat /\ text \in Nat
    BY Numbers, Zenon DEF SendInv, Typed
  <2>3. Air[text] + MaxDraw \in Nat /\ Estimate \in Nat
    BY <2>1, <2>2, ConstantTypes DEF Estimate
  <2>4. Air[text] + MaxDraw > Estimate
    BY <2>1, <2>2, <2>3, <1>1, <1>3, WaitOver, Zenon
  <2> QED
    BY <2>4, Zenon DEF Estimate
<1>4. text \in Texts
  BY <1>1, Zenon DEF SendInv, InTime
<1>5. InTime'
  BY <1>1, <1>2, <1>4, Zenon DEF InTime
<1>6. NeverCut'
  BY <1>1, <1>3, Zenon DEF NeverCut
<1> QED
  BY <1>5, <1>6

LEMMA NextSendInv == SendInv /\ [Next]_vars => SendInv'
<1> SUFFICES ASSUME SendInv, [Next]_vars PROVE InTime' /\ NeverCut'
  BY NextTyped, Zenon DEF SendInv
<1>1. ASSUME NEW p \in Packet, onReceive(p) PROVE InTime' /\ NeverCut'
  <2>1. UNCHANGED <<now, isSend, msg_wait, pc, air, text, drawn, cut, wrapped>>
    BY <1>1, Zenon DEF onReceive
  <2> QED
    BY <2>1, LeavesSend, Zenon
<1>2. CASE tick \/ ReadHead \/ ReadPayload \/ Clear \/ StayAsIs
  <2>1. pc # "draw" /\ pc' # "draw"
    BY <1>2 DEF tick, ReadHead, ReadPayload, Clear, StayAsIs
  <2>2. UNCHANGED <<now, isSend, msg_wait, air, text, drawn, cut, wrapped>>
    BY <1>2, Zenon DEF tick, ReadHead, ReadPayload, Clear, StayAsIs, handler, radio, history
  <2> QED
    BY <2>1, <2>2, SendsOn, Zenon
<1>3. CASE UNCHANGED vars
  <2>1. UNCHANGED <<now, isSend, msg_wait, pc, air, text, drawn, cut, wrapped>>
    BY <1>3, Zenon DEF vars, handler, radio, history
  <2> QED
    BY <2>1, LeavesSend, Zenon
<1> QED
  BY <1>1, <1>2, <1>3, PassSend, CallSend, TransmitSend, ListenSend, Zenon DEF Next, Loop

-----------------------------------------------------------------------------
LEMMA PacketRead == PacketInv => MessageWhole /\ NoneLost
<1> SUFFICES ASSUME PacketInv, pc = "clear", ~sentOver PROVE \E p \in Packet : got = Whole(p)
  BY Zenon DEF MessageWhole, NoneLost, PacketInv
<1>1. rx \in Packet /\ got = Pieces(rx, next) /\ next = Chunks
  BY Zenon DEF PacketInv, Kept
<1>2. got = Whole(rx)
  BY <1>1, Zenon DEF Whole, Pieces
<1> QED
  BY <1>1, <1>2, Zenon

(* The air time of a text.                                                 *)

\* Five symbols carry 40 bits, the last of them perhaps only in part.
LEMMA SymbolGroups ==
    ASSUME NEW n \in Nat
    PROVE  \E k \in Nat : /\ Airtime(n) = 663552 + 163840 * k
                          /\ 5 * k - 7 <= n /\ n <= 5 * k - 3
<1> DEFINE k == RoundUp(8 * n + 20, 40)
<1>1. k \in Nat /\ 40 * k <= 8 * n + 59 /\ 8 * n + 59 < 40 * k + 40
  BY SMT DEF RoundUp
<1>2. PayloadSymbols(n) = 8 + 5 * k
  <2>1. 8 * (n + HeadBytes) - 4 * 12 + 28 + 16 = 8 * n + 20 /\ 4 * (12 - 2) = 40
    BY DEF HeadBytes
  <2> QED
    BY <2>1 DEF PayloadSymbols
<1>3. Airtime(n) = 663552 + 163840 * k
  <2> HIDE DEF k
  <2> QED
    BY <1>1, <1>2 DEF Airtime, PreambleTime, SymbolTime
<1>4. 5 * k - 7 <= n /\ n <= 5 * k - 3
  <2> HIDE DEF k
  <2> QED
    BY <1>1
<1> HIDE DEF k
<1> QED
  BY <1>1, <1>3, <1>4

\* Every text but those of 3, 4, 8, 13 or 18 characters is off the air before
\* the wait is over, however long it is.
THEOREM EstimateIsEnough ==
    \A n \in Nat \ TooLong : Airtime(n) < WaitTime(n)
<1> SUFFICES ASSUME NEW n \in Nat, n \notin TooLong
             PROVE  Airtime(n) < WaitTime(n)
  OBVIOUS
<1>1. PICK k \in Nat : /\ Airtime(n) = 663552 + 163840 * k
                       /\ 5 * k - 7 <= n /\ n <= 5 * k - 3
  BY SymbolGroups
<1>2. CASE k >= 6
  BY <1>1, <1>2 DEF WaitTime
<1>3. CASE k \in 0 .. 5
  BY <1>1, <1>3 DEF WaitTime, TooLong
<1> QED
  BY <1>2, <1>3

\* A text of 3, 4, 8, 13 or 18 characters is still on the air when tick() may
\* already listen again: its last characters take five symbols more.
THEOREM EstimateIsShort ==
    \A n \in TooLong : Airtime(n) > WaitTime(n)
<1> SUFFICES ASSUME NEW n \in TooLong
             PROVE  Airtime(n) > WaitTime(n)
  OBVIOUS
<1>1. n \in Nat
  BY DEF TooLong
<1>2. PICK k \in Nat : /\ Airtime(n) = 663552 + 163840 * k
                       /\ 5 * k - 7 <= n /\ n <= 5 * k - 3
  BY <1>1, SymbolGroups
<1> QED
  BY <1>1, <1>2 DEF WaitTime, TooLong

\* The air time in milliseconds, begun ones counted whole.
Counted(n) == 1000 * Air[n] < Airtime(n) + 1000
TrueAir == \A n \in Texts : Counted(n)

LEMMA CutText ==
    ASSUME TrueAir, SendInv, cut, ~wrapped
    PROVE  text \in Nat /\ Airtime(text) > WaitTime(text) - 1000 * MaxDraw
<1>1. text \in Texts
  BY Zenon DEF SendInv, InTime
<1>2. Air[text] + MaxDraw > text * 35 + 850
  BY Zenon DEF SendInv, NeverCut
<1>3. Counted(text)
  BY <1>1, Zenon DEF TrueAir
<1>4. text \in Nat /\ Air[text] \in Nat /\ MaxDraw \in Nat
  BY <1>1, ConstantTypes
<1>5. PICK k \in Nat : Airtime(text) = 663552 + 163840 * k
  BY <1>4, SymbolGroups
<1> QED
  BY <1>2, <1>3, <1>4, <1>5 DEF WaitTime, Counted

-----------------------------------------------------------------------------
\* The radio's variables keep their types, for every clock and all texts.
THEOREM TypeCorrect == Spec => []TypeOK
<1>1. Typed => TypeOK
  BY Zenon DEF Typed
<1> QED
  BY <1>1, InitTyped, NextTyped, PTL DEF Spec

\* processMessage() prints every packet whole and for itself, unless a text
\* was sent before it was read, if the loop comes round twice in the time of
\* a packet.
THEOREM PacketsWhole == ASSUME FastLoop PROVE Spec => []MessageWhole
<1>1. PacketInv /\ [Next]_vars => PacketInv'
  BY NextPacketInv
<1> QED
  BY <1>1, InitPacketInv, PacketRead, PTL DEF Spec

\* In such a loop no packet is overwritten and none hidden by isMessage = 0.
THEOREM PacketsKept == ASSUME FastLoop PROVE Spec => []NoneLost
<1>1. PacketInv /\ [Next]_vars => PacketInv'
  BY NextPacketInv
<1> QED
  BY <1>1, InitPacketInv, PacketRead, PTL DEF Spec

\* In any loop: receive() ends a transmission only when the sum in msg_wait
\* wrapped or the air time and the drawing exceed the wait.
THEOREM NothingCut == Spec => []NeverCut
<1>1. SendInv => NeverCut
  BY Zenon DEF SendInv
<1> QED
  BY <1>1, InitSendInv, NextSendInv, PTL DEF Spec

\* Every character makes the wait 2.232 ms longer than the air time: whatever
\* time writeTX() takes, a text that is long enough for it is never cut.
THEOREM OnlyShortCut ==
    ASSUME TrueAir
    PROVE  Spec => [](cut => wrapped \/ 2232 * text < 42928 + 1000 * MaxDraw)
<1>1. SendInv => (cut => wrapped \/ 2232 * text < 42928 + 1000 * MaxDraw)
  <2> SUFFICES ASSUME SendInv, cut, ~wrapped PROVE 2232 * text < 42928 + 1000 * MaxDraw
    OBVIOUS
  <2>1. text \in Nat /\ Airtime(text) > WaitTime(text) - 1000 * MaxDraw
    BY CutText, Zenon
  <2>2. PICK k \in Nat : /\ Airtime(text) = 663552 + 163840 * k
                         /\ 5 * k - 7 <= text /\ text <= 5 * k - 3
    BY <2>1, SymbolGroups
  <2> QED
    BY <2>1, <2>2, ConstantTypes DEF WaitTime
<1>2. SendInv /\ [Next]_vars => SendInv'
  BY NextSendInv
<1> QED
  BY <1>1, <1>2, InitSendInv, PTL DEF Spec

-----------------------------------------------------------------------------
(* The parts of a message.                                                 *)

\* There and back over the finer unit nothing is lost: degrees Celsius over
\* Fahrenheit (APRS_MSG.cpp:104-106).
THEOREM CelsiusAndBack ==
    \A t \in Int : f2c(c2f(t)) = t
<1> SUFFICES ASSUME NEW t \in Int PROVE f2c(c2f(t)) = t
  OBVIOUS
<1> DEFINE f == c2f(t)
<1>1. f \in Int /\ 9 * t + 158 <= 5 * f /\ 5 * f <= 9 * t + 162
  BY SMT DEF c2f, RoundDiv
<1> HIDE DEF f
<1>2. f2c(f) = t
  BY <1>1, SMT DEF f2c, RoundDiv
<1> QED
  BY <1>2 DEF f

\* Metres over feet (APRS_MSG.cpp:92-94).
THEOREM MetersAndBack ==
    \A m \in Int : feed2meter(meter2feed(m)) = m
<1> SUFFICES ASSUME NEW m \in Int PROVE feed2meter(meter2feed(m)) = m
  OBVIOUS
<1> DEFINE f == meter2feed(m)
<1>1. f \in Int /\ 328084 * m - 50000 <= 100000 * f /\ 100000 * f <= 328084 * m + 50000
  BY SMT DEF meter2feed, RoundDiv
<1> HIDE DEF f
<1>2. feed2meter(f) = m
  BY <1>1, SMT DEF feed2meter, RoundDiv
<1> QED
  BY <1>2 DEF f

\* Millimetres over hundredths of an inch (APRS_MSG.cpp:100-102).
THEOREM MillimetersAndBack ==
    \A m \in Int : hinch2mm(mm2hinch(m)) = m
<1> SUFFICES ASSUME NEW m \in Int PROVE hinch2mm(mm2hinch(m)) = m
  OBVIOUS
<1> DEFINE h == mm2hinch(m)
<1>1. h \in Int /\ 393701 * m - 50000 <= 100000 * h /\ 100000 * h <= 393701 * m + 50000
  BY SMT DEF mm2hinch, RoundDiv
<1> HIDE DEF h
<1>2. hinch2mm(h) = m
  BY <1>1, SMT DEF hinch2mm, RoundDiv
<1> QED
  BY <1>2 DEF h

\* Miles over kilometres (APRS_MSG.cpp:96-98).
THEOREM MilesAndBack ==
    \A m \in Int : kmh2mph(mph2kmh(m)) = m
<1> SUFFICES ASSUME NEW m \in Int PROVE kmh2mph(mph2kmh(m)) = m
  OBVIOUS
<1> DEFINE k == mph2kmh(m)
<1>1. k \in Int /\ 200000 * m - 62137 <= 124274 * k /\ 124274 * k <= 200000 * m + 62137
  BY SMT DEF mph2kmh, RoundDiv
<1> HIDE DEF k
<1>2. kmh2mph(k) = m
  BY <1>1, SMT DEF kmh2mph, RoundDiv
<1> QED
  BY <1>2 DEF k

-----------------------------------------------------------------------------
Apart(g, m, s, r) == g * 360000 + m * 6000 + s * 100 + r
ReadAs(g, m, s) == g * 360000 + m * 6000 + s * 60

\* The three numbers take a position apart, but for part of a second.
LEMMA Parts ==
    ASSUME NEW p \in Int
    PROVE  /\ grad(p) \in Nat /\ minute(p) \in 0 .. 59 /\ secunde(p) \in 0 .. 59
           /\ \E r \in 0 .. 99 : Magnitude(p) = Apart(grad(p), minute(p), secunde(p), r)
<1> DEFINE q == Magnitude(p)
<1>1. q \in Nat
  BY DEF Magnitude
<1> DEFINE g == q \div 360000
           d == q % 360000
           m == d \div 6000
           s == (q % 6000) \div 100
<1>2. grad(p) = g /\ minute(p) = m /\ secunde(p) = s
  BY DEF grad, minute, secunde, Degree, Minute, Second
<1> HIDE DEF q
<1>3. g \in Nat /\ m \in 0 .. 59 /\ s \in 0 .. 59
  BY <1>1, SMT
<1>4. \E r \in 0 .. 99 : q = g * 360000 + m * 6000 + s * 100 + r
  <2>1. q - g * 360000 - m * 6000 - s * 100 \in 0 .. 99
    BY <1>1, SMT
  <2>2. q = g * 360000 + m * 6000 + s * 100 + (q - g * 360000 - m * 6000 - s * 100)
    BY <1>1, <1>3
  <2> QED
    BY <2>1, <2>2
<1> QED
  BY <1>2, <1>3, <1>4 DEF q, Apart

\* dc2gms() writes seconds where APRS has hundredths of a minute
\* (APRS_MSG.cpp:130-142): what is read from it is never beyond the position,
\* and less than 0.41 minutes, about 760 metres, short of it.
THEOREM ReadShort ==
    \A p \in Int : /\ Position(p) <= Magnitude(p)
                   /\ 100 * (Magnitude(p) - Position(p)) < 41 * Minute
<1> SUFFICES ASSUME NEW p \in Int
             PROVE  /\ Position(p) <= Magnitude(p)
                    /\ 100 * (Magnitude(p) - Position(p)) < 41 * Minute
  OBVIOUS
<1>1. PICK r \in 0 .. 99 : Magnitude(p) = Apart(grad(p), minute(p), secunde(p), r)
  BY Parts
<1>2. Position(p) = grad(p) * 360000 + minute(p) * 6000 + secunde(p) * 60
  BY DEF Position, Degree, Minute
<1>3. grad(p) \in Nat /\ minute(p) \in 0 .. 59 /\ secunde(p) \in 0 .. 59
  BY Parts
<1> QED
  BY <1>1, <1>2, <1>3 DEF Minute, Apart

\* Of two positions the one with the greater numbers is farther out.
LEMMA Lexicographic ==
    ASSUME NEW g \in Nat, NEW m \in 0 .. 59, NEW s \in 0 .. 59, NEW r \in 0 .. 99,
           NEW h \in Nat, NEW n \in 0 .. 59, NEW t \in 0 .. 59, NEW u \in 0 .. 99,
           Apart(g, m, s, r) <= Apart(h, n, t, u)
    PROVE  ReadAs(g, m, s) <= ReadAs(h, n, t)
<1> USE DEF Apart, ReadAs
<1>1. CASE g < h
  BY <1>1, SMT
<1>2. CASE g = h /\ m < n
  BY <1>2, SMT
<1>3. CASE g = h /\ m = n /\ s <= t
  BY <1>3, SMT
<1>4. g <= h /\ (g = h => m <= n) /\ (g = h /\ m = n => s <= t)
  BY SMT
<1> QED
  BY <1>1, <1>2, <1>3, <1>4, SMT

\* A position farther out is never read as one nearer by.
THEOREM ReadInOrder ==
    \A p, q \in Int : Magnitude(p) <= Magnitude(q) => Position(p) <= Position(q)
<1> SUFFICES ASSUME NEW p \in Int, NEW q \in Int, Magnitude(p) <= Magnitude(q)
             PROVE  Position(p) <= Position(q)
  OBVIOUS
<1>1. PICK r \in 0 .. 99 : Magnitude(p) = Apart(grad(p), minute(p), secunde(p), r)
  BY Parts
<1>2. PICK t \in 0 .. 99 : Magnitude(q) = Apart(grad(q), minute(q), secunde(q), t)
  BY Parts
<1>3. /\ grad(p) \in Nat /\ minute(p) \in 0 .. 59 /\ secunde(p) \in 0 .. 59
      /\ grad(q) \in Nat /\ minute(q) \in 0 .. 59 /\ secunde(q) \in 0 .. 59
  BY Parts
<1>4. Apart(grad(p), minute(p), secunde(p), r) <= Apart(grad(q), minute(q), secunde(q), t)
  BY <1>1, <1>2
<1>5. ReadAs(grad(p), minute(p), secunde(p)) <= ReadAs(grad(q), minute(q), secunde(q))
  BY <1>3, <1>4, Lexicographic
<1> QED
  BY <1>5 DEF Position, ReadAs, Degree, Minute

-----------------------------------------------------------------------------
Letters == {"N", "S", "E", "W", ".", "@", "z"}
Character == Int \cup Letters

\* What stands behind three characters is not printed.
LEMMA Cut ==
    ASSUME NEW s \in Seq(Character), NEW t \in Seq(Character), Len(s) >= 3
    PROVE  Printed(s \o t) = Printed(s)
<1>1. 1 \in 1 .. Len(s) /\ 3 \in 1 .. Len(s)
  OBVIOUS
<1>2. SubSeq(s \o t, 1, 3) = SubSeq(s, 1, 3)
  BY <1>1, SubSeqOfConcat1, Zenon
<1> QED
  BY <1>2 DEF Printed

LEMMA Digits ==
    ASSUME NEW n \in Nat
    PROVE  /\ TwoDigits(n) \in Seq(Character) /\ Len(TwoDigits(n)) = 2
           /\ ThreeDigits(n) \in Seq(Character) /\ Len(ThreeDigits(n)) = 3
<1>1. /\ n \div 10 \in Character /\ n % 10 \in Character
      /\ n \div 100 \in Character /\ (n \div 10) % 10 \in Character
  BY DEF Character
<1> QED
  BY <1>1 DEF TwoDigits, ThreeDigits

LEMMA Single ==
    ASSUME NEW c \in Character
    PROVE  <<c>> \in Seq(Character) /\ Len(<<c>>) = 1
OBVIOUS

LEMMA CutAll ==
    ASSUME NEW a \in Seq(Character), NEW b \in Seq(Character), NEW c \in Seq(Character),
           NEW d \in Seq(Character), NEW e \in Seq(Character), Len(a \o b) >= 3
    PROVE  Printed(a \o b \o c \o d \o e) = Printed(a \o b)
<1>1. a \o b \in Seq(Character)
  BY ConcatProperties
<1>2. a \o b \o c \in Seq(Character) /\ Len(a \o b \o c) >= 3
  BY <1>1, ConcatProperties
<1>3. a \o b \o c \o d \in Seq(Character) /\ Len(a \o b \o c \o d) >= 3
  BY <1>2, ConcatProperties
<1>4. Printed(a \o b \o c) = Printed(a \o b)
  BY <1>1, Cut
<1>5. Printed(a \o b \o c \o d) = Printed(a \o b \o c)
  BY <1>2, Cut
<1>6. Printed(a \o b \o c \o d \o e) = Printed(a \o b \o c \o d)
  BY <1>3, Cut
<1> QED
  BY <1>4, <1>5, <1>6

\* A first piece of three characters is all that is printed.
LEMMA CutInFirst ==
    ASSUME NEW a \in Seq(Character), NEW b \in Seq(Character), NEW c \in Seq(Character),
           NEW d \in Seq(Character), NEW e \in Seq(Character), Len(a) = 3
    PROVE  Printed(a \o b \o c \o d \o e) = a
<1>1. Len(a \o b) >= 3
  <2>1. Len(a \o b) = Len(a) + Len(b)
    BY ConcatProperties, Zenon
  <2>2. Len(b) \in Nat
    OBVIOUS
  <2> QED
    BY <2>1, <2>2
<1>2. Printed(a \o b \o c \o d \o e) = Printed(a \o b)
  BY <1>1, CutAll
<1>3. Printed(a \o b) = Printed(a)
  <2>1. Len(a) >= 3
    OBVIOUS
  <2> QED
    BY <2>1, Cut, Zenon
<1>4. Printed(a) = a
  BY SubSeqFull DEF Printed
<1> QED
  BY <1>2, <1>3, <1>4

\* The pieces of a position's text.
LEMMA PositionPieces ==
    ASSUME NEW p \in Int, NEW lng \in BOOLEAN
    PROVE  /\ TwoDigits(grad(p)) \in Seq(Character) /\ Len(TwoDigits(grad(p))) = 2
           /\ ThreeDigits(grad(p)) \in Seq(Character) /\ Len(ThreeDigits(grad(p))) = 3
           /\ TwoDigits(minute(p)) \in Seq(Character) /\ Len(TwoDigits(minute(p))) = 2
           /\ TwoDigits(secunde(p)) \in Seq(Character)
           /\ <<".">> \in Seq(Character) /\ <<Hemisphere(p, lng)>> \in Seq(Character)
<1>1. grad(p) \in Nat /\ minute(p) \in Nat /\ secunde(p) \in Nat
  BY Parts
<1>2. "." \in Character /\ Hemisphere(p, lng) \in Character
  BY DEF Hemisphere, Character, Letters
<1> QED
  BY <1>1, <1>2, Digits, Single

\* What dc2gms() prints of a longitude (APRS_MSG.cpp:141): whole degrees.
THEOREM LongitudeIsCut ==
    \A p \in Int : dc2gms(p, TRUE) = ThreeDigits(grad(p))
<1> SUFFICES ASSUME NEW p \in Int PROVE dc2gms(p, TRUE) = ThreeDigits(grad(p))
  OBVIOUS
<1> DEFINE g == ThreeDigits(grad(p))
           m == TwoDigits(minute(p))
           d == <<".">>
           s == TwoDigits(secunde(p))
           h == <<Hemisphere(p, TRUE)>>
<1>1. dc2gms(p, TRUE) = Printed(g \o m \o d \o s \o h)
  BY DEF dc2gms, PositionText
<1>2. /\ g \in Seq(Character) /\ m \in Seq(Character) /\ d \in Seq(Character)
      /\ s \in Seq(Character) /\ h \in Seq(Character) /\ Len(g) = 3
  BY PositionPieces
<1> HIDE DEF g, m, d, s, h
<1>3. Printed(g \o m \o d \o s \o h) = g
  BY <1>2, CutInFirst, SMT
<1> QED
  BY <1>1, <1>3, Zenon DEF g

\* And of a latitude: the first three of the digits of degrees and minutes.
THEOREM LatitudeIsCut ==
    \A p \in Int : dc2gms(p, FALSE) = Printed(TwoDigits(grad(p)) \o TwoDigits(minute(p)))
<1> SUFFICES ASSUME NEW p \in Int
             PROVE  dc2gms(p, FALSE) = Printed(TwoDigits(grad(p)) \o TwoDigits(minute(p)))
  OBVIOUS
<1> DEFINE g == TwoDigits(grad(p))
           m == TwoDigits(minute(p))
           d == <<".">>
           s == TwoDigits(secunde(p))
           h == <<Hemisphere(p, FALSE)>>
<1>1. dc2gms(p, FALSE) = Printed(g \o m \o d \o s \o h)
  BY DEF dc2gms, PositionText
<1>2. /\ g \in Seq(Character) /\ m \in Seq(Character) /\ d \in Seq(Character)
      /\ s \in Seq(Character) /\ h \in Seq(Character) /\ Len(g) = 2 /\ Len(m) = 2
  BY PositionPieces
<1> HIDE DEF g, m, d, s, h
<1>3. Len(g \o m) >= 3
  <2>1. Len(g \o m) = Len(g) + Len(m)
    BY <1>2, ConcatProperties, Zenon
  <2> QED
    BY <1>2, <2>1
<1>4. Printed(g \o m \o d \o s \o h) = Printed(g \o m)
  BY <1>2, <1>3, CutAll, SMT
<1> QED
  BY <1>1, <1>4, Zenon DEF g, m

\* So the texts do not tell west from east or south from north.
THEOREM HemisphereIsLost ==
    \A p \in Int, lng \in BOOLEAN : dc2gms(-p, lng) = dc2gms(p, lng)
<1> SUFFICES ASSUME NEW p \in Int, NEW lng \in BOOLEAN
             PROVE  dc2gms(-p, lng) = dc2gms(p, lng)
  OBVIOUS
<1>1. -p \in Int /\ Magnitude(-p) = Magnitude(p)
  BY DEF Magnitude
<1>2. grad(-p) = grad(p) /\ minute(-p) = minute(p)
  BY <1>1 DEF grad, minute
<1>3. CASE lng = TRUE
  BY <1>1, <1>2, <1>3, LongitudeIsCut, Zenon
<1>4. CASE lng = FALSE
  BY <1>1, <1>2, <1>4, LatitudeIsCut, Zenon
<1> QED
  BY <1>3, <1>4

-----------------------------------------------------------------------------
\* calcHumidity() leaves out only the exact 100 (APRS_MSG.cpp:47): what is
\* rounded to it takes three characters in a field of two, nothing else does.
THEOREM HumidityTakesThree ==
    \A h \in 0 .. 1000 : Len(calcHumidity(h)) = (IF h \in 995 .. 999 THEN 3 ELSE 2)
<1> SUFFICES ASSUME NEW h \in 0 .. 1000
             PROVE  Len(calcHumidity(h)) = (IF h \in 995 .. 999 THEN 3 ELSE 2)
  OBVIOUS
<1> DEFINE r == RoundDiv(h, 10)
<1>1. r \in Nat /\ (r < 100 <=> h < 995)
  BY SMT DEF RoundDiv
<1> HIDE DEF r
<1>2. Len(TwoDigits(r)) = 2 /\ Len(ThreeDigits(r)) = 3
  BY <1>1, Digits, Zenon
<1>3. CASE h = 1000
  BY <1>3 DEF calcHumidity
<1>4. CASE h < 995
  <2>1. calcHumidity(h) = TwoDigits(r)
    BY <1>1, <1>4 DEF calcHumidity, r
  <2> QED
    BY <1>2, <1>4, <2>1
<1>5. CASE h \in 995 .. 999
  <2>1. calcHumidity(h) = ThreeDigits(r)
    BY <1>1, <1>5 DEF calcHumidity, r
  <2> QED
    BY <1>2, <1>5, <2>1
<1> QED
  BY <1>3, <1>4, <1>5

\* Over the range of the BME280 the number computeWXField() gives its format is
\* the temperature up to 53 degrees Celsius and not from 54 on (APRS_MSG.cpp:28):
\* 129 Fahrenheit and more have no room in an int8_t.
THEOREM TemperatureGivenUpTo53 ==
    \A t \in -40 .. 85 : IF t <= 53 THEN Fahrenheit(t) = {c2f(t)}
                                    ELSE c2f(t) \notin Fahrenheit(t)
<1> SUFFICES ASSUME NEW t \in -40 .. 85
             PROVE  IF t <= 53 THEN Fahrenheit(t) = {c2f(t)}
                               ELSE c2f(t) \notin Fahrenheit(t)
  OBVIOUS
<1> DEFINE f == c2f(t)
<1>1. f \in Int /\ f >= -128 /\ (t <= 53 <=> f <= 127)
  BY SMT DEF c2f, RoundDiv
<1> HIDE DEF f
<1>2. IF t <= 53 THEN Int8Of(f) = {f} ELSE f \notin Int8Of(f)
  BY <1>1 DEF Int8Of
<1> QED
  BY <1>2 DEF Fahrenheit, f

\* Of no pressure the BME280 measures, 300 to 1100 hPa, the format is given the
\* number itself (APRS_MSG.cpp:33): its tenths have no room in a uint8_t.
THEOREM PressureNever ==
    \A p \in Int : p >= 3000 /\ p <= 11000 => p \notin Hectopascal(p)
BY DEF Hectopascal, UInt8Of

\* The characters of the weather text.
Sign == Character \cup {"g", "t", "r", "p", "P", "h", "b", "/"}

LEMMA HumidityText == ASSUME NEW h \in 0 .. 1000 PROVE calcHumidity(h) \in Seq(Sign)
<1>1. RoundDiv(h, 10) \in Nat
  BY SMT DEF RoundDiv
<1>2. Character \subseteq Sign
  BY DEF Sign
<1>3. \A n \in Nat : TwoDigits(n) \in Seq(Sign) /\ ThreeDigits(n) \in Seq(Sign)
  <2> TAKE n \in Nat
  <2>1. TwoDigits(n) \in Seq(Character) /\ ThreeDigits(n) \in Seq(Character)
    BY Digits
  <2> QED
    BY <1>2, <2>1, SeqMonotonic, Zenon
<1>4. <<0, 0>> \in Seq(Sign)
  BY DEF Sign, Character
<1> QED
  BY <1>1, <1>3, <1>4, Zenon DEF calcHumidity

\* Whatever the weather, the text of computeWXField() is two dots
\* (APRS_MSG.cpp:24): no temperature, humidity or pressure is ever in it.
THEOREM WeatherIsLost ==
    \A temp, pressure \in Int, h \in 0 .. 1000 :
        computeWXField(temp, h, pressure) = {<<".", ".">>}
<1> SUFFICES ASSUME NEW temp \in Int, NEW pressure \in Int, NEW h \in 0 .. 1000
             PROVE  computeWXField(temp, h, pressure) = {<<".", ".">>}
  OBVIOUS
<1>1. /\ Fahrenheit(temp) # {} /\ Fahrenheit(temp) \subseteq Int
      /\ Hectopascal(pressure) # {} /\ Hectopascal(pressure) \subseteq Int
  <2>1. c2f(temp) \in Int
    BY SMT DEF c2f, RoundDiv
  <2>2. \A n \in Int : /\ Int8Of(n) # {} /\ Int8Of(n) \subseteq Int
                       /\ UInt8Of(n) # {} /\ UInt8Of(n) \subseteq Int
    BY SMT DEF Int8Of, UInt8Of
  <2> QED
    BY <2>1, <2>2, Zenon DEF Fahrenheit, Hectopascal
<1>2. ASSUME NEW t \in Int, NEW b \in Int
      PROVE  SubSeq(WeatherText(t, h, b), 1, 2) = <<".", ".">>
  <2> DEFINE rest == <<"/">> \o Dots \o <<"g">> \o Dots \o <<"t", t, "r">>
                       \o Dots \o <<"p">> \o Dots \o <<"P">> \o Dots
                       \o <<"h">> \o calcHumidity(h) \o <<"b", b>>
  <2>1. /\ <<"/">> \in Seq(Sign) /\ <<"g">> \in Seq(Sign) /\ <<"t", t, "r">> \in Seq(Sign)
        /\ <<"p">> \in Seq(Sign) /\ <<"P">> \in Seq(Sign) /\ <<"h">> \in Seq(Sign)
        /\ <<"b", b>> \in Seq(Sign)
    BY DEF Sign, Character
  <2>2. Dots \in Seq(Sign) /\ Len(Dots) = 3 /\ Dots[1] = "." /\ Dots[2] = "."
    BY DEF Dots, Sign, Character, Letters
  <2>3. rest \in Seq(Sign)
    BY <2>1, <2>2, HumidityText, ConcatProperties, Zenon
  <2> HIDE DEF rest
  <2>4. SubSeq(Dots \o rest, 1, 2) = SubSeq(Dots, 1, 2)
    <3>1. 1 \in 1 .. Len(Dots) /\ 2 \in 1 .. Len(Dots)
      BY <2>2
    <3> QED
      BY <2>2, <2>3, <3>1, SubSeqOfConcat1, Zenon
  <2>5. SubSeq(Dots, 1, 2) = <<".", ".">>
    <3> DEFINE d == SubSeq(Dots, 1, 2)
    <3>1. \A i \in 1 .. 2 : Dots[i] \in Sign
      BY <2>2, ElementOfSeq
    <3>2. /\ d \in Seq(Sign) /\ Len(d) = 2
          /\ \A i \in 1 .. 2 : d[i] = Dots[i]
      <4>1. /\ d \in Seq(Sign)
            /\ Len(d) = IF 1 <= 2 THEN 2 - 1 + 1 ELSE 0
            /\ \A i \in 1 .. 2 - 1 + 1 : d[i] = Dots[1 + i - 1]
        BY <3>1, SubSeqProperties
      <4> HIDE DEF d
      <4> QED
        BY <4>1
    <3> HIDE DEF d
    <3>3. <<".", ".">> \in Seq(Sign) /\ Len(<<".", ".">>) = 2
      BY DEF Sign, Character, Letters
    <3>4. \A i \in 1 .. 2 : d[i] = <<".", ".">>[i]
      BY <2>2, <3>2
    <3> QED
      BY <3>2, <3>3, <3>4, SeqEqual DEF d
  <2> QED
    BY <2>4, <2>5 DEF WeatherText, rest
<1> QED
  <2>1. \A t \in Fahrenheit(temp), b \in Hectopascal(pressure) :
            SubSeq(WeatherText(t, h, b), 1, 2) = <<".", ".">>
    BY <1>1, <1>2
  <2> DEFINE Given == Fahrenheit(temp) \X Hectopascal(pressure)
  <2>2. Given # {} /\ \A given \in Given :
            SubSeq(WeatherText(given[1], h, given[2]), 1, 2) = <<".", ".">>
    <3>1. Given # {}
      <4>1. PICK f \in Fahrenheit(temp), g \in Hectopascal(pressure) : TRUE
        BY <1>1
      <4>2. <<f, g>> \in Given
        OBVIOUS
      <4> QED
        BY <4>2
    <3>2. ASSUME NEW given \in Given
          PROVE  SubSeq(WeatherText(given[1], h, given[2]), 1, 2) = <<".", ".">>
      <4>1. given[1] \in Fahrenheit(temp) /\ given[2] \in Hectopascal(pressure)
        OBVIOUS
      <4> QED
        BY <2>1, <4>1, Zenon
    <3> QED
      BY <3>1, <3>2, Zenon
  <2>3. computeWXField(temp, h, pressure)
          = { SubSeq(WeatherText(given[1], h, given[2]), 1, 2) : given \in Given }
    BY Zenon DEF computeWXField
  <2> HIDE DEF Given
  <2> QED
    BY <2>2, <2>3
=============================================================================
