-------------------------------- MODULE IGate --------------------------------
(***************************************************************************)
(* The client of the APRS-IS server (iGate.cpp), a program of its own:     *)
(* SendToServer() puts messages into xQueuesend, from which the task       *)
(* clienttcp takes them to the connection without looking whether there is *)
(* one; the callbacks of the connection run in the task async_tcp, which   *)
(* writes the login, waits two seconds, writes the position, and puts what *)
(* the server sends into xQueuereceive, from which loop() prints.          *)
(*                                                                         *)
(* Both queues refuse what finds no room within ten ticks.  Nobody connects *)
(* again after an error.  An item of xQueuereceive is the 128 bytes from   *)
(* the beginning of a segment, however long that is: of a longer one the   *)
(* rest is lost, behind a shorter one stands what is in memory there.      *)
(***************************************************************************)
EXTENDS Naturals, Sequences

CONSTANTS
    SendLength, ReceiveLength,  \* the lengths of the queues
    TextSize,                   \* the bytes of a text written, in some unit
    SndBuf,                     \* the bytes TCP holds without an acknowledgement
    MaxGiven, MaxSegments       \* bounds: messages, and segments of the server

ASSUME IGateAssumption ==
    /\ SendLength \in Nat \ {0} /\ ReceiveLength \in Nat \ {0}
    /\ TextSize \in Nat \ {0} /\ SndBuf \in Nat
    /\ MaxGiven \in Nat /\ MaxSegments \in Nat

VARIABLES
    xQueuesend, xQueuereceive,
    given,      \* messages SendToServer() was called with: they are 1, 2, ...
    value,      \* the one it waits with for room in the queue, as a sequence
    missatge,   \* the one clienttcp has taken, as a sequence
    client,     \* the connection: "connecting", "up" or "closed"
    callback,   \* what async_tcp is at: nothing, a callback's next step
    data,       \* the item onData() waits with for room in the queue, as a sequence
    unacked,    \* bytes written and not acknowledged
    wire,       \* history: the texts of which at least a part was written
    sent,       \* history: the messages that were written whole
    segments,   \* segments of the server that arrived: they are 1, 2, ...
    network,    \* those async_tcp has not yet given to onData()
    printed     \* history: the items loop() printed

uplink == <<xQueuesend, given, value, missatge>>
downlink == <<xQueuereceive, data, segments, network, printed>>
connection == <<client, callback, unacked, wire, sent>>
vars == <<uplink, downlink, connection>>

\* The texts onConnect() writes; not among the messages.
Login == 0
Position == 0

-----------------------------------------------------------------------------
\* setup(), and clienttcp up to its loop.
Init ==
    /\ xQueuesend = <<>> /\ xQueuereceive = <<>>
    /\ given = 0 /\ value = <<>> /\ missatge = <<>>
    /\ client = "connecting" /\ callback = "none" /\ data = <<>>
    /\ unacked = 0 /\ wire = {} /\ sent = <<>>
    /\ segments = 0 /\ network = <<>> /\ printed = <<>>

\* SendToServer(): xQueueSend() with a wait of ten ticks.
SendToServer ==
    /\ value = <<>> /\ given < MaxGiven
    /\ given' = given + 1
    /\ value' = <<given + 1>>
    /\ UNCHANGED <<xQueuesend, missatge, downlink, connection>>

\* Slip: xQueueSendToFront().
QueueToFront ==
    /\ value # <<>> /\ Len(xQueuesend) < SendLength
    /\ xQueuesend' = value \o xQueuesend
    /\ value' = <<>>
    /\ UNCHANGED <<given, missatge, downlink, connection>>

Queue ==
    /\ value # <<>> /\ Len(xQueuesend) < SendLength
    /\ xQueuesend' = xQueuesend \o value
    /\ value' = <<>>
    /\ UNCHANGED <<given, missatge, downlink, connection>>

\* The ten ticks are over: "unable to send message".
Refuse ==
    /\ value # <<>> /\ Len(xQueuesend) = SendLength
    /\ value' = <<>>
    /\ UNCHANGED <<xQueuesend, given, missatge, downlink, connection>>

\* The room TCP has for a text, up to all of it.
Room ==
    LET free == IF client = "up" THEN SndBuf - unacked ELSE 0 IN
    IF free < TextSize THEN free ELSE TextSize

\* client.add() and client.send(): as much as there is room for, nothing when
\* the connection is not up; nobody looks at the result.
Write(text) ==
    /\ unacked' = unacked + Room
    /\ wire' = IF Room = 0 THEN wire ELSE wire \cup {text}

\* The loop of clienttcp.
Take ==
    /\ missatge = <<>> /\ xQueuesend # <<>>
    /\ missatge' = <<Head(xQueuesend)>>
    /\ xQueuesend' = Tail(xQueuesend)
    /\ UNCHANGED <<given, value, downlink, connection>>

\* Slip: only when everything before is acknowledged.
AddWhenIdle ==
    /\ missatge # <<>>
    /\ missatge' = <<>>
    /\ IF unacked = 0 THEN Write(Head(missatge)) ELSE UNCHANGED <<unacked, wire>>
    /\ sent' = IF unacked = 0 /\ Room = TextSize THEN Append(sent, Head(missatge)) ELSE sent
    /\ UNCHANGED <<xQueuesend, given, value, downlink, client, callback>>

Add ==
    /\ missatge # <<>>
    /\ missatge' = <<>>
    /\ Write(Head(missatge))
    /\ sent' = IF Room = TextSize THEN Append(sent, Head(missatge)) ELSE sent
    /\ UNCHANGED <<xQueuesend, given, value, downlink, client, callback>>

clienttcp == Take \/ Add

-----------------------------------------------------------------------------
\* The connection is up and the event reaches async_tcp.
Connected ==
    /\ client = "connecting"
    /\ client' = "up"
    /\ callback' = "login"
    /\ UNCHANGED <<unacked, wire, sent, uplink, downlink>>

\* onConnect(): the login, delay(2000), the position; clienttcp may write
\* before, between and after.
WriteLogin ==
    /\ callback = "login"
    /\ callback' = "position"
    /\ Write(Login)
    /\ UNCHANGED <<client, sent, uplink, downlink>>

WritePosition ==
    /\ callback = "position"
    /\ callback' = "none"
    /\ Write(Position)
    /\ UNCHANGED <<client, sent, uplink, downlink>>

\* What xQueueSend() copies: a segment's beginning, and behind its end, in the
\* 128 bytes or in what println() reads after them, a part of any segment that
\* came before or waits, or (0) nothing that can be printed.
Copied(segment) == { [segment |-> segment, behind |-> b] : b \in 0 .. segments }

\* Slip: what was delivered is not taken from the network.
onDataAgain ==
    /\ callback = "none" /\ network # <<>>
    /\ callback' = "data"
    /\ \E item \in Copied(Head(network)) : data' = <<item>>
    /\ UNCHANGED <<network, xQueuereceive, segments, printed, client, unacked, wire, sent, uplink>>

onData ==
    /\ callback = "none" /\ network # <<>>
    /\ callback' = "data"
    /\ \E item \in Copied(Head(network)) : data' = <<item>>
    /\ network' = Tail(network)
    /\ UNCHANGED <<xQueuereceive, segments, printed, client, unacked, wire, sent, uplink>>

\* xQueueSend(), or "Problema Problema" after ten ticks.
QueueData ==
    /\ callback = "data" /\ Len(xQueuereceive) < ReceiveLength
    /\ xQueuereceive' = xQueuereceive \o data
    /\ data' = <<>> /\ callback' = "none"
    /\ UNCHANGED <<segments, network, printed, client, unacked, wire, sent, uplink>>

RefuseData ==
    /\ callback = "data" /\ Len(xQueuereceive) = ReceiveLength
    /\ data' = <<>> /\ callback' = "none"
    /\ UNCHANGED <<xQueuereceive, segments, network, printed, client, unacked, wire, sent, uplink>>

async_tcp == WriteLogin \/ WritePosition \/ onData \/ QueueData \/ RefuseData

\* What an item is for: it is printed, up to the first NUL wherever that is.
ProcessMessage(v) == printed' = Append(printed, v)

loop ==
    /\ xQueuereceive # <<>>
    /\ ProcessMessage(Head(xQueuereceive))
    /\ xQueuereceive' = Tail(xQueuereceive)
    /\ UNCHANGED <<data, segments, network, uplink, connection>>

-----------------------------------------------------------------------------
\* A segment of the server arrives: a line, several, or a part of one.
Arrive ==
    /\ client = "up" /\ segments < MaxSegments
    /\ segments' = segments + 1
    /\ network' = Append(network, segments + 1)
    /\ UNCHANGED <<xQueuereceive, data, printed, uplink, connection>>

\* The server acknowledges.
Acknowledge ==
    /\ unacked > 0 /\ client = "up"
    /\ unacked' \in 0 .. unacked - 1
    /\ UNCHANGED <<client, callback, wire, sent, uplink, downlink>>

\* An error (onError() closes), the end of the connection, or none comes up.
Close ==
    /\ client # "closed"
    /\ client' = "closed"
    /\ network' = <<>>
    /\ UNCHANGED <<callback, unacked, wire, sent, xQueuereceive, data, segments, printed, uplink>>

Next ==
    \/ SendToServer \/ Queue \/ Refuse
    \/ clienttcp
    \/ Connected \/ async_tcp
    \/ loop
    \/ Arrive \/ Acknowledge \/ Close

Spec == Init /\ [][Next]_vars

\* The tasks run on: each sleeps or waits in every round, so none keeps
\* another from its turn.
FairSpec ==
    /\ Spec
    /\ WF_vars(Queue \/ Refuse) /\ WF_vars(clienttcp) /\ WF_vars(async_tcp) /\ WF_vars(loop)

-----------------------------------------------------------------------------
Item == [segment : Nat, behind : Nat]

\* Messages and segments are numbers; whoever waits with one waits with one only.
TypeOK ==
    /\ given \in Nat /\ segments \in Nat
    /\ xQueuesend \in Seq(Nat) /\ network \in Seq(Nat) /\ sent \in Seq(Nat)
    /\ xQueuereceive \in Seq(Item) /\ printed \in Seq(Item)
    /\ value \in Seq(Nat) /\ Len(value) <= 1
    /\ missatge \in Seq(Nat) /\ Len(missatge) <= 1
    /\ data \in Seq(Item) /\ Len(data) <= 1
    /\ callback \in {"none", "login", "position", "data"}
    /\ callback # "data" => data = <<>>
    /\ client = "connecting" => callback = "none" /\ network = <<>>

\* The segments that items begin with.
Beginnings(items) == [i \in DOMAIN items |-> items[i].segment]

\* The messages on their way, and the segments.
Outgoing == missatge \o xQueuesend \o value
Incoming == Beginnings(xQueuereceive) \o Beginnings(data) \o network

Up == INSTANCE LossyFifo WITH put <- given, within <- Outgoing, out <- sent

\* Messages are written to the server in the order SendToServer() was called,
\* each at most once, whatever the callbacks write between them.
UplinkIsFifo == Up!Spec

Down == INSTANCE LossyFifo
            WITH put <- segments, within <- Incoming, out <- Beginnings(printed)

\* The texts loop() prints begin with the server's segments in their order, each
\* beginning one text at most, over full queues, segments of any length and
\* the end of the connection.  (Behind the beginning a text may repeat others.)
DownlinkIsFifo == Down!Spec

\* A message in the queue while the connection is up is written, unless the
\* connection ends or TCP holds all it can when its turn comes.
SentWhileUp ==
    \A m \in 1 .. MaxGiven :
        (client = "up" /\ \E i \in DOMAIN xQueuesend : xQueuesend[i] = m) ~>
            \/ m \in wire
            \/ client = "closed"
            \/ missatge = <<m>> /\ unacked = SndBuf
=============================================================================
