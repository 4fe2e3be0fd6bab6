---------------------------- MODULE WebSocketPush ----------------------------
(***************************************************************************)
(* GPS data pushed to the browsers: the task xws_tick calls                *)
(* APRSWebServerTick() every 200 ms, which once a second sends the data    *)
(* through the global pointer globalClient; the web server's own task      *)
(* (async_tcp) sets that pointer in onWsEvent() when a client connects and *)
(* clears it when any client disconnects.  Nothing locks the pointer: the  *)
(* tick reads it again before nearly every use.                            *)
(*                                                                         *)
(* A use of NULL is a panic and restarts the chip; a use of an object that *)
(* was freed is undefined: it may panic or read anything.  Two reads with  *)
(* no call between them may be one read in the build.                      *)
(***************************************************************************)
EXTENDS Integers, Sequences

CONSTANTS
    Client,        \* clients that may connect
    NULL,          \* no client
    MaxClients,    \* the library's limit, above which it closes the oldest
    Interval,      \* milliseconds between two pushes (1000)
    TimeModulus,   \* number of values of millis() (2^32)
    MaxLag         \* bound: the most milliseconds between two ticks

ASSUME PushAssumption ==
    /\ NULL \notin Client
    /\ MaxClients \in Nat /\ Interval \in Nat /\ TimeModulus \in Nat /\ MaxLag \in Nat
    /\ 0 < MaxLag /\ MaxLag < TimeModulus /\ Interval < TimeModulus

VARIABLES
    globalClient,  \* the pointer
    clients,       \* clients the server lists, the oldest first
    open,          \* those with status WS_CONNECTED
    dying,         \* the client whose object is being destroyed, or NULL
    now, last,     \* millis(), and last of APRSWebServerTick()
    pc,            \* where the tick is
    ptr,           \* the value of globalClient the tick read last
    lost           \* a client disconnected since the tick began

serverVars == <<globalClient, clients, open, dying>>
tickVars == <<now, last, pc, ptr>>
vars == <<serverVars, tickVars, lost>>

Listed == { clients[i] : i \in DOMAIN clients }
Allocated == Listed \cup ({dying} \ {NULL})

Plus(t, d) == (t + d) % TimeModulus

Init ==
    /\ globalClient = NULL
    /\ clients = <<>> /\ open = {} /\ dying = NULL
    /\ now = 0 /\ last = 0
    /\ pc = "delay" /\ ptr = NULL
    /\ lost = FALSE

-----------------------------------------------------------------------------
\* The web server's task.
Running == pc # "panic"

\* WS_EVT_CONNECT.
Connect(c) ==
    /\ Running
    /\ c \notin Allocated
    /\ clients' = Append(clients, c)
    /\ open' = open \cup {c}
    /\ globalClient' = c
    /\ UNCHANGED <<dying, tickVars, lost>>

\* The client or the server has begun to close the connection.
Closing(c) ==
    /\ Running
    /\ c \in open
    /\ open' = open \ {c}
    /\ UNCHANGED <<globalClient, clients, dying, tickVars, lost>>

\* A list without its ith member.
Without(s, i) == SubSeq(s, 1, i - 1) \o SubSeq(s, i + 1, Len(s))

\* c leaves the list.
Unlist(c) == \E i \in DOMAIN clients : clients[i] = c /\ clients' = Without(clients, i)

\* Slip: the pointer is cleared only with the last client.
DisconnectKeeps(c) ==
    /\ Running
    /\ dying = NULL
    /\ Unlist(c)
    /\ open' = open \ {c}
    /\ dying' = c
    /\ globalClient' = IF Len(clients) = 1 THEN NULL ELSE globalClient
    /\ lost' = TRUE
    /\ UNCHANGED tickVars

\* WS_EVT_DISCONNECT, sent by the destructor of the client, whoever that is.
Disconnect(c) ==
    /\ Running
    /\ dying = NULL
    /\ Unlist(c)
    /\ open' = open \ {c}
    /\ dying' = c
    /\ globalClient' = NULL
    /\ lost' = TRUE
    /\ UNCHANGED tickVars

\* The destructor is through.
Free ==
    /\ Running
    /\ dying # NULL
    /\ dying' = NULL
    /\ UNCHANGED <<globalClient, clients, open, tickVars, lost>>

WebServer == \/ \E c \in Client : Connect(c) \/ Closing(c) \/ Disconnect(c)
             \/ Free

-----------------------------------------------------------------------------
\* The task xws_tick.
Goto(at, next) == pc = at /\ pc' = next

\* globalClient is read.
Read(at, next) == Goto(at, next) /\ ptr' = globalClient /\ UNCHANGED <<serverVars, now, last, lost>>

\* vTaskDelay(), then millis() of the next tick.
Wake ==
    /\ Goto("delay", "test")
    /\ \E d \in 1 .. MaxLag : now' = Plus(now, d)
    /\ lost' = FALSE
    /\ UNCHANGED <<serverVars, last, ptr>>

\* Slip: no test for NULL.
TestNothing ==
    /\ pc = "test"
    /\ ptr' = globalClient
    /\ pc' \in {"read status", "status"}
    /\ UNCHANGED <<serverVars, now, last, lost>>

\* globalClient != NULL
Test ==
    /\ pc = "test"
    /\ ptr' = globalClient
    /\ pc' \in IF globalClient = NULL THEN {"delay"} ELSE {"read status", "status"}
    /\ UNCHANGED <<serverVars, now, last, lost>>

\* What a question about the client *ptr may answer, if its true answer is a.
Answer(a) == IF ptr \in Allocated THEN {a} ELSE BOOLEAN

\* A use of NULL panics, a use of a freed client may.
Panic ==
    /\ pc \in {"status", "cleanup", "make", "full", "open", "text"}
    /\ ptr \notin Allocated
    /\ pc' = "panic"
    /\ UNCHANGED <<serverVars, now, last, ptr, lost>>

\* Slip: the sum is taken in 64 bits and compared with a time of 32.
DueInWideSum == now > last + Interval

Due == now > Plus(last, Interval)

\* globalClient->status() == WS_CONNECTED, and the second is over.
Status ==
    /\ pc = "status" /\ ptr # NULL
    /\ \E connected \in Answer(ptr \in open) :
          IF connected /\ Due
          THEN pc' = "read cleanup" /\ last' = now
          ELSE pc' = "delay" /\ UNCHANGED last
    /\ UNCHANGED <<serverVars, now, ptr, lost>>

\* globalClient->server()->cleanupClients()
Cleanup ==
    /\ Goto("cleanup", "read make") /\ ptr # NULL
    /\ open' = IF Len(clients) > MaxClients THEN open \ {Head(clients)} ELSE open
    /\ UNCHANGED <<globalClient, clients, dying, now, last, ptr, lost>>

\* globalClient->server()->makeBuffer(len), which may find no memory.
Make ==
    /\ ptr # NULL
    /\ Goto("make", "read full") \/ Goto("make", "refused")
    /\ UNCHANGED <<serverVars, now, last, ptr, lost>>

\* !globalClient->queueIsFull()
QueueIsFull ==
    /\ ptr # NULL
    /\ Goto("full", "read open") \/ Goto("full", "refused")
    /\ UNCHANGED <<serverVars, now, last, ptr, lost>>

\* globalClient->status() == WS_CONNECTED
StillOpen ==
    /\ pc = "open" /\ ptr # NULL
    /\ \E connected \in Answer(ptr \in open) :
          pc' \in IF connected THEN {"read text", "text"} ELSE {"refused"}
    /\ UNCHANGED <<serverVars, now, last, ptr, lost>>

\* globalClient->server()->textAll(buffer)
TextAll ==
    /\ Goto("text", "sent") /\ ptr # NULL
    /\ UNCHANGED <<serverVars, now, last, ptr, lost>>

EndTick ==
    /\ pc \in {"sent", "refused"}
    /\ pc' = "delay"
    /\ UNCHANGED <<serverVars, now, last, ptr, lost>>

Tick ==
    \/ Wake \/ Test \/ Status \/ Cleanup \/ Make \/ QueueIsFull \/ StillOpen \/ TextAll
    \/ EndTick \/ Panic
    \/ Read("read status", "status") \/ Read("read cleanup", "cleanup")
    \/ Read("read make", "make") \/ Read("read full", "full")
    \/ Read("read open", "open") \/ Read("read text", "text")

\* The panic handler restarts the chip.
Restart ==
    /\ pc = "panic"
    /\ globalClient' = NULL /\ clients' = <<>> /\ open' = {} /\ dying' = NULL
    /\ now' = 0 /\ last' = 0 /\ pc' = "delay" /\ ptr' = NULL /\ lost' = FALSE

Next == WebServer \/ Tick \/ Restart

Spec == Init /\ [][Next]_vars

\* The task goes on ticking and the chip restarts; clients come and go as
\* they like.
FairSpec == Spec /\ WF_vars(Tick) /\ WF_vars(Restart)

-----------------------------------------------------------------------------
Steps == {"delay", "test", "read status", "status", "read cleanup", "cleanup",
          "read make", "make", "read full", "full", "read open", "open",
          "read text", "text", "sent", "refused", "panic"}

TypeOK ==
    /\ globalClient \in Client \cup {NULL}
    /\ clients \in Seq(Client) /\ open \subseteq Listed
    /\ dying \in Client \cup {NULL}
    /\ now \in 0 .. TimeModulus - 1 /\ last \in 0 .. TimeModulus - 1
    /\ pc \in Steps
    /\ ptr \in Client \cup {NULL}
    /\ lost \in BOOLEAN

\* Clearing the pointer for whatever client disconnects keeps it from ever
\* pointing at one that is gone (at the price that the others get no data).
PointsToListed == globalClient # NULL => globalClient \in Listed

\* The unlocked pointer is the only danger: a tick in whose course no client
\* disconnects never panics, however many connect.
PanicNeedsDisconnect == pc = "panic" => lost

\* The place of the last push from which the next one can be missed: so close
\* to the wrap of millis() that a tick may jump over the rest of it.
NearWrap == Plus(last, Interval) + MaxLag >= TimeModulus

\* As long as the pointer stands, its client is sent the data, or a new client
\* takes the pointer over, unless memory or the queue is full, the client is closing or
\* the last push was close to the wrap of millis().
Pushed ==
    globalClient # NULL ~>
        \/ pc \in {"sent", "refused", "panic"}
        \/ globalClient = NULL \/ globalClient \notin open
        \/ NearWrap
=============================================================================
