----------------------------- MODULE LoRaRadio -----------------------------
(***************************************************************************)
(* The radio: class LoRaHandler and the interrupt onReceive(), in the loop *)
(* they were written for (attic/main_old.cpp:244-295): tick(), then, unless *)
(* isSend, perhaps sendMessage(), then a delay.  The present main.cpp only *)
(* calls begin().                                                          *)
(*                                                                         *)
(* The chip and the LoRa library are modelled from how they are used: one  *)
(* FIFO, which a packet that arrives fills from the start, which read()    *)
(* empties byte by byte and beginPacket() makes ready for the text; a      *)
(* transmission that ends by itself, or when receive() is called; an       *)
(* interrupt that may come between any two steps of the loop.  A packet    *)
(* is read in Chunks pieces, the header being the first.                   *)
(*                                                                         *)
(* millis() is 32 bits wide and so is the sum that goes into msg_wait.     *)
(***************************************************************************)
EXTENDS Integers, Sequences

CONSTANTS
    Packet,        \* packets on the air; each differs from the one before
    Chunks,        \* pieces in which processMessage() reads a packet
    Texts,         \* lengths of the texts to send
    Air,           \* for each of them the milliseconds on the air
    Step,          \* milliseconds by which time passes
    MaxLag,        \* bound: the most time from one tick() to the next
    MaxDraw,       \* bound: the most time writeTX() takes
    PacketGap,     \* the least time from one packet to the next
    TimeModulus,   \* number of values of millis()
    NoPacket       \* the FIFO as it is when no packet is in it

ASSUME RadioAssumption ==
    /\ Packet # {} /\ Chunks \in Nat /\ Chunks > 1
    /\ Texts \subseteq Nat /\ DOMAIN Air = Texts
    /\ \A n \in Texts : Air[n] \in Nat /\ n * 35 + 850 < TimeModulus
    /\ Step \in Nat \ {0} /\ MaxLag \in Nat /\ MaxDraw \in Nat
    /\ PacketGap \in Nat /\ TimeModulus \in Nat \ {0}
    /\ NoPacket \notin Packet

VARIABLES
    now,         \* millis()
    isMessage,   \* the interrupt saw a packet (isMessage > 0)
    isSend, msg_wait,
    pc,          \* where the loop is
    mode,        \* of the chip
    rx, next,    \* FIFO: the packet it holds, and the next piece to read
    air,         \* what is left of the transmission
    quiet,       \* time until another packet can come
    text,        \* length of the text sent last
    got,         \* what processMessage() has read
    lag, drawn,  \* time since tick() began, time sendMessage() took
    unread,      \* the packet in the FIFO has not been read yet
    lost,        \* a packet was gone, by another or by isMessage = 0, before it was read
    sentOver,    \* sendMessage() found a packet that was not read
    cut,         \* receive() ended the last transmission
    wrapped      \* the sum in msg_wait wrapped

handler == <<isMessage, isSend, msg_wait>>
radio == <<mode, rx, next, air, text>>
history == <<lost, sentOver, cut, wrapped>>
vars == <<now, handler, pc, radio, quiet, got, lag, drawn, unread, history>>

Plus(t, d) == (t + d) % TimeModulus

Minus(t, d) == IF t > d THEN t - d ELSE 0

Init ==
    /\ now = 0 /\ lag = 0 /\ drawn = 0 /\ quiet = 0
    /\ isMessage = FALSE /\ isSend = FALSE /\ msg_wait = 0
    /\ pc = "loop"
    /\ mode = "receive" /\ rx = NoPacket /\ next = 0 /\ air = 0 /\ text = 0
    /\ got = <<>> /\ unread = FALSE
    /\ lost = FALSE /\ sentOver = FALSE /\ cut = FALSE /\ wrapped = FALSE

-----------------------------------------------------------------------------
\* Time passes; the loop is not late, and a transmission ends by itself.
Pass ==
    /\ lag + Step <= MaxLag
    /\ pc = "draw" => drawn + Step <= MaxDraw
    /\ now' = Plus(now, Step)
    /\ lag' = lag + Step
    /\ drawn' = IF pc = "draw" THEN drawn + Step ELSE drawn
    /\ quiet' = Minus(quiet, Step)
    /\ air' = Minus(air, Step)
    /\ mode' = IF mode = "transmit" /\ air <= Step THEN "standby" ELSE mode
    /\ UNCHANGED <<handler, pc, rx, next, text, got, unread, history>>

\* The interrupt: a packet is in the FIFO, onReceive() is called.
onReceive(p) ==
    /\ mode = "receive" /\ quiet = 0
    /\ p # rx
    /\ rx' = p /\ next' = 0 /\ unread' = TRUE
    /\ quiet' = PacketGap
    /\ isMessage' = TRUE
    /\ lost' = (lost \/ unread)
    /\ UNCHANGED <<now, isSend, msg_wait, pc, mode, air, text, got, lag, drawn,
                   sentOver, cut, wrapped>>

-----------------------------------------------------------------------------
\* Slip: tick() looks at isSend first and returns.
tickSendingOnly ==
    /\ pc = "loop"
    /\ pc' = IF isMessage /\ isSend THEN "head" ELSE "sent?"
    /\ lag' = 0
    /\ UNCHANGED <<now, handler, radio, quiet, got, drawn, unread, history>>

\* tick(): is there a message?
tick ==
    /\ pc = "loop"
    /\ pc' = IF isMessage THEN "head" ELSE "sent?"
    /\ lag' = 0
    /\ UNCHANGED <<now, handler, radio, quiet, got, drawn, unread, history>>

\* LoRa.read(): the next piece, or -1 if there is none.
Read ==
    /\ got' = Append(got, IF next < Chunks THEN <<rx, next>> ELSE <<NoPacket, 0>>)
    /\ next' = IF next < Chunks THEN next + 1 ELSE next

\* processMessage(): the header is read whether it is there or not.
ReadHead ==
    /\ pc = "head"
    /\ Read
    /\ unread' = FALSE
    /\ pc' = "payload"
    /\ UNCHANGED <<now, handler, mode, rx, air, text, quiet, lag, drawn,
                   lost, sentOver, cut, wrapped>>

\* processMessage(): while (LoRa.available())
ReadPayload ==
    /\ pc = "payload"
    /\ IF next < Chunks
       THEN Read /\ unread' = FALSE /\ UNCHANGED pc
       ELSE pc' = "clear" /\ UNCHANGED <<got, next, unread>>
    /\ UNCHANGED <<now, handler, mode, rx, air, text, quiet, lag, drawn, history>>

\* Slip: isMessage stays.
ClearNothing ==
    /\ pc = "clear"
    /\ lost' = (lost \/ unread)
    /\ sentOver' = FALSE
    /\ got' = <<>>
    /\ pc' = "sent?"
    /\ UNCHANGED <<now, handler, radio, quiet, lag, drawn, unread, cut, wrapped>>

\* isMessage = 0
Clear ==
    /\ pc = "clear"
    /\ isMessage' = FALSE
    /\ lost' = (lost \/ unread)
    /\ sentOver' = FALSE
    /\ got' = <<>>
    /\ pc' = "sent?"
    /\ UNCHANGED <<now, isSend, msg_wait, radio, quiet, lag, drawn, unread, cut, wrapped>>

\* Slip: the comparison is the wrong way round.
SendOverSwapped == isSend /\ msg_wait >= now

\* isSend, and not msg_wait > millis()
SendOver == isSend /\ msg_wait <= now

\* Slip: LoRa.receive() is forgotten.
setReciveModeOnly ==
    /\ pc = "sent?"
    /\ SendOver
    /\ cut' = (air > 0)
    /\ isSend' = FALSE
    /\ pc' = "loop"
    /\ UNCHANGED <<now, isMessage, msg_wait, radio, quiet, got, lag, drawn,
                   unread, lost, sentOver, wrapped>>

\* tick() goes on: the text should be out, listen again (setReciveMode).
setReciveMode ==
    /\ pc = "sent?"
    /\ SendOver
    /\ mode' = "receive" /\ air' = 0
    /\ cut' = (air > 0)
    /\ isSend' = FALSE
    /\ pc' = "loop"
    /\ UNCHANGED <<now, isMessage, msg_wait, rx, next, text, quiet, got, lag, drawn,
                   unread, lost, sentOver, wrapped>>

StayAsIs ==
    /\ pc = "sent?"
    /\ ~SendOver
    /\ pc' = "loop"
    /\ UNCHANGED <<now, handler, radio, quiet, got, lag, drawn, unread, history>>

\* sendMessage() up to writeTX(), which draws on the display for a while; the
\* chip still listens.
sendMessage(n) ==
    /\ pc = "loop" /\ ~isSend
    /\ msg_wait' = Plus(now, n * 35 + 850)
    /\ wrapped' = (now + n * 35 + 850 >= TimeModulus)
    /\ isSend' = TRUE
    /\ text' = n
    /\ cut' = FALSE
    /\ drawn' = 0
    /\ pc' = "draw"
    /\ UNCHANGED <<now, isMessage, mode, rx, next, air, quiet, got, lag, unread,
                   lost, sentOver>>

\* beginPacket(), the writes into the FIFO and endPacket(true).
Transmit ==
    /\ pc = "draw"
    /\ sentOver' = (sentOver \/ unread) /\ unread' = FALSE
    /\ rx' = NoPacket /\ next' = Chunks
    /\ mode' = "transmit" /\ air' = Air[text]
    /\ pc' = "loop"
    /\ UNCHANGED <<now, handler, text, quiet, got, lag, drawn, lost, cut, wrapped>>

Loop == tick \/ ReadHead \/ ReadPayload \/ Clear \/ setReciveMode \/ StayAsIs \/ Transmit

Next ==
    \/ Pass \/ Loop
    \/ \E p \in Packet : onReceive(p)
    \/ \E n \in Texts : sendMessage(n)

Spec == Init /\ [][Next]_vars

\* Time passes and the loop runs on; packets and texts come as they like.
FairSpec == Spec /\ WF_vars(Pass) /\ WF_vars(Loop)

-----------------------------------------------------------------------------
TypeOK ==
    /\ now \in 0 .. TimeModulus - 1 /\ msg_wait \in 0 .. TimeModulus - 1
    /\ isMessage \in BOOLEAN /\ isSend \in BOOLEAN
    /\ pc \in {"loop", "head", "payload", "clear", "sent?", "draw"}
    /\ mode \in {"receive", "standby", "transmit"}
    /\ rx \in Packet \cup {NoPacket} /\ next \in 0 .. Chunks
    /\ air \in Nat /\ quiet \in 0 .. PacketGap
    /\ text \in Texts \cup {0}
    /\ lag \in 0 .. MaxLag /\ drawn \in 0 .. MaxDraw

\* The loop comes round twice before another packet can have come.
FastLoop == PacketGap > 2 * MaxLag

Whole(p) == [i \in 1 .. Chunks |-> <<p, i - 1>>]

\* A loop that comes round twice in the time of a packet prints every packet
\* whole and for itself, although the interrupt may start the FIFO over
\* between any two reads; only a text that was sent before the packet was read
\* is in its way.
MessageWhole == pc = "clear" => sentOver \/ \E p \in Packet : got = Whole(p)

\* In such a loop isMessage = 0 never hides a packet that came during
\* processMessage(), and no packet overwrites one that was not read.
NoneLost == ~lost

\* A transmission is over before the handler listens again, unless the sum in
\* msg_wait wrapped or the text is one for which the estimate is too short.
NeverCut == cut => wrapped \/ Air[text] + MaxDraw > text * 35 + 850

\* After every text the handler listens again, unless the end of the wait is
\* so close to the wrap of millis() that the loop may step over it.
NearWrap == msg_wait + 2 * MaxLag >= TimeModulus
ListensAgain == mode # "receive" ~> (mode = "receive" \/ NearWrap)
=============================================================================
